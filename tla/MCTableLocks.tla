---------------------------- MODULE MCTableLocks ----------------------------
(* Instances of TableLocks for TLC. *)
EXTENDS TableLocks, TLC

Stmt(w, r) == [kind |-> "stmt", writes |-> w, reads |-> r, dml |-> TRUE, body |-> NoBody,
               inBody |-> FALSE]
Locks(ls, all) == [kind |-> "lock", locks |-> ls, global |-> all]

Unlock == Locks(<< >>, FALSE)
Write1 == Stmt({1}, {})
Write2Read1 == Stmt({2}, {1})
Alter2 == [Stmt({2}, {}) EXCEPT !.dml = FALSE]
\* A write of table 2 whose trigger writes table 1, and one whose trigger reads 2.
Trigger == [Stmt({2}, {}) EXCEPT !.body = Stmt({1}, {})]
TriggerReads == [Stmt({2}, {}) EXCEPT !.body = Stmt({}, {2})]
LockWrite2 == Locks(<<Lock(2, Exclusive)>>, FALSE)
LockRead2 == Locks(<<Lock(2, Shared)>>, FALSE)
LockBoth == Locks(<<Lock(1, Exclusive), Lock(2, Exclusive)>>, FALSE)
Flush == Locks(<<Lock(1, Shared), Lock(2, Shared)>>, TRUE)

All == {Unlock, Write1, Write2Read1, Alter2, Trigger, LockWrite2, LockBoth, Flush}
Simple == {Unlock, Alter2, LockWrite2}
Bodies == {Unlock, TriggerReads, Flush}
Reads == {Unlock, Alter2, LockRead2}

Symmetry == Permutations(Session)
=============================================================================
