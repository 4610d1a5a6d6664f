SPECIFICATION FairSpec
CONSTANTS
  Task = {t1, t2}
  k1 = k1
  k2 = k2
  v1 = v1
  v2 = v2
  Key = {k1, k2}
  Val = {v1, v2}
  Absent = Absent
  Log <- MCLog
  MaxCrash = 1
CHECK_DEADLOCK FALSE
INVARIANTS AppliedOnce InOrderIsReplay
PROPERTY EventuallyApplied
