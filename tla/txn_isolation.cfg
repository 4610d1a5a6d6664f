SPECIFICATION Spec
CONSTANTS
  a = a
  b = b
  Session = {a, b}
  Name = {p, q}
  NoTxn = NoTxn
  Absent = Absent
  Row = {1, 2, 3}
  Meta = 0
  Val = {1, 2}
  Top = 4
  Budget = 14
  MaxRange = 2
  Limit = 1
  Workload <- All
  MaxCount = 4
  MaxRanges = 5
  MaxCancel = 1
CHECK_DEADLOCK FALSE
INVARIANTS BookkeepingExact ScanReadsView SeenIsKept
PROPERTY RefinesSnapshotIsolation
VIEW WithoutBefore
