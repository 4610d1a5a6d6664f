SPECIFICATION FairSpec
CONSTANTS
  Sweeper = {task, caller}
  Task = task
  Row = {1, 2}
  Text = {a, b}
  a = a
  b = b
  Blank = Blank
  Rejected = {b}
  Model = {m1, m2}
  m1 = m1
  m2 = m2
  Default = Default
  Column = {c1}
  c1 = c1
  c2 = c2
  NoRow = NoRow
  None = None
  Initial <- MCInitial
  Created <- Some
  Batch = 1
  Budget = 1
  MaxAttempts = 2
  Workload <- MCWorkload
CHECK_DEADLOCK FALSE
INVARIANTS UpToDateIsRight 
PROPERTIES TextIsUsers EveryRowSettles
