SPECIFICATION FairSpec
CONSTANTS
  p1 = p1
  p2 = p2
  d1 = d1
  q1 = q1
  Write = {p1, p2}
  Put = {p1, p2}
  Key = {1, 2}
  KeyOf <- MCKeyOf
  Replica = {r1}
  Conn = {n1, n2}
  Absent = Absent
  None = None
  Torn = Torn
  HasBinlog = FALSE
  Required = 1
  Strict = TRUE
  Timed = FALSE
  Capacity = 9
  SegmentMax = 9
  MaxRestart = 1
  MaxDeath = 0
CHECK_DEADLOCK FALSE
PROPERTIES EveryCommitAnswered 
