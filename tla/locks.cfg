SPECIFICATION Spec
CONSTANTS
  Session = {s1, s2}
  Table = {1, 2}
  Command <- All
  NoBody = NoBody
  MaxRounds = 1
  MaxCommand = 5
  MaxCancel = 1
CHECK_DEADLOCK FALSE
INVARIANTS Exclusion  
PROPERTY EveryCommandEnds
