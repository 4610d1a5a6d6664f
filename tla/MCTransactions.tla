--------------------------- MODULE MCTransactions ---------------------------
(* Instances of Transactions for TLC. *)
EXTENDS Transactions

CONSTANTS a, b

PutOp(k, v) == [key |-> k, val |-> v]
DelOp(k) == [key |-> k, val |-> Absent]

\* Rows 1 to 3: inserts or updates, deletes, and an update that moves a row.
Put1 == <<PutOp(1, 1)>>
Put1Long == <<PutOp(1, 2)>>
Put2 == <<PutOp(2, 2)>>
Put3 == <<PutOp(3, 2)>>
Delete1 == <<DelOp(1)>>
Move1To3 == <<DelOp(1), PutOp(3, 2)>>

Plain == [open |-> {a}, save |-> {}, unit |-> {}, read |-> {}, set |-> {},
          rows |-> {}, write |-> {Put1Long, Move1To3}, probe |-> {}, span |-> {},
          maxCount |-> 2, maxUndo |-> 0]

\* Two transactions; savepoints; statements of several writes; scans, lookups and
\* locks; table rewrites; access modes.
Pairs == [Plain EXCEPT !.open = {a, b}, !.rows = {1}, !.maxCount = 3]
Saves == [Plain EXCEPT !.save = {a}, !.rows = {1}, !.write = {Put1Long, Delete1}, !.maxCount = 3,
          !.maxUndo = 6]
Units == [Plain EXCEPT !.save = {a}, !.unit = {a}, !.rows = {1}, !.maxUndo = 5]
Scans == [Plain EXCEPT !.read = {a}, !.rows = {1, 2}, !.write = {Put3, Delete1}, !.probe = {1},
          !.span = {[from |-> 1, to |-> 4], [from |-> 2, to |-> 3]}]
Rewrites == [Plain EXCEPT !.open = {}, !.unit = {a}, !.read = {a}, !.rows = {1, 2},
             !.write = {Put2, Put3}, !.probe = {0}, !.span = {[from |-> 1, to |-> 4]}]
Modes == [Plain EXCEPT !.open = {}, !.set = {a}, !.unit = {a}]

All == {Pairs, Saves, Units, Scans, Rewrites, Modes}

\* For the statements the code does not live up to.
Scanning == {Scans}
Rescanning == {[Scans EXCEPT !.save = {a}, !.maxUndo = 3]}
Unlogged == {Pairs}
Rewriting == {Rewrites}
Moding == {Modes}

\* What was seen before a rollback is only for AllSeenIsKept.
WithoutBefore == <<db, txn, conf, stmt, scan, cancels, use, [s \in Session |-> seen[s].now]>>
=============================================================================
