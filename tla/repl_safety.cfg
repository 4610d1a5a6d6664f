SPECIFICATION Spec
CONSTANTS
  p1 = p1
  p2 = p2
  d1 = d1
  q1 = q1
  Write = {p1, d1, q1}
  Put = {p1, q1}
  Key = {1, 2}
  KeyOf <- MCKeyOf
  Replica = {r1}
  Conn = {n1, n2}
  Absent = Absent
  None = None
  Torn = Torn
  HasBinlog = TRUE
  Required = 1
  Strict = TRUE
  Timed = TRUE
  Capacity = 2
  SegmentMax = 9
  MaxRestart = 1
  MaxDeath = 1
CHECK_DEADLOCK FALSE
INVARIANTS BootstrapIsExact 
SYMMETRY Symmetry
VIEW Barriers
CONSTRAINT ThirdWriteOrDeath
