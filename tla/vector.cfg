SPECIFICATION FairSpec
CONSTANTS
  Session = {s1, s2}
  Key = {1, 2, 3, 4}
  Vec = {1, 2, 3, 4}
  NoRow = NoRow
  Probe = 1
  K = 1
  Tiny = 2
  Overfetch = 1
  Batch = 2
  Initial <- MCInitial
  Change <- MCChange
  Workload <- MCWorkload
CHECK_DEADLOCK FALSE
INVARIANTS FreshIsExact  SharedReconcile
PROPERTY EveryQueryEnds
