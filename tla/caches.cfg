SPECIFICATION Spec
CONSTANTS
  Session = {c1, c2}
  t1 = t1
  t2 = t2
  Table = {t1, t2}
  Key = {1, 2, 3, 4}
  Top = 5
  Num = {0, 1, 2}
  Null = Null
  Absent = Absent
  Misread = Misread
  Filter <- MCFilter
  Workers = 2
  ChunkRows = 2
  Budget = 4
  Initial <- MCInitial
  Change <- MCChange
  MaxCommit = 2
  MaxQuery = 2
SYMMETRY Symmetry
CHECK_DEADLOCK FALSE
INVARIANTS  EntriesExact
