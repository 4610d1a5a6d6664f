SPECIFICATION Spec
CONSTANTS
  Client = {c1, c2, c3}
  Key = {k1, k2, s1}
  Val = {v1, v2}
  k1 = k1
  k2 = k2
  s1 = s1
  v1 = v1
  v2 = v2
  Absent = Absent
  NoJob = NoJob
  NoClient = NoClient
  Torn = Torn
  SchemaKey = {s1}
  CachedKey = s1
  Template <- Data
  GroupMax = 2
  QueueDepth = 2
  SegmentMax = 2
  MaxJob = 3
  MaxFault = 1
  MaxCrash = 1
CHECK_DEADLOCK FALSE
INVARIANTS EveryJobHeldOnce WseqIdentifiesState BinlogReplaysToStore
PROPERTY RefinesSerialStore
SYMMETRY Symmetry
VIEW WithoutCache
