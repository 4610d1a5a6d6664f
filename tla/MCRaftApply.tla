---------------------------- MODULE MCRaftApply -----------------------------
(* An instance of RaftApply for TLC. *)
EXTENDS RaftApply, TLC

CONSTANTS k1, k2, v1, v2

Plain(k, v) == [need |-> << >>, write |-> k :> v]
Insert(k, v) == [need |-> k :> Absent, write |-> k :> v]
Validated(k, was, j, v) == [need |-> k :> was, write |-> j :> v]

\* Writes and deletes of one key in turn, which must not change places; an INSERT
\* that finds its key taken once and free once; and a transaction that wrote a key on
\* condition of another that is written later.
MCLog ==
  {<<Plain(k1, v1), Plain(k2, v1), Plain(k1, v2), Plain(k2, Absent)>>,
   <<Insert(k1, v1), Insert(k1, v2), Plain(k1, Absent), Insert(k1, v2)>>,
   <<Plain(k1, v1), Validated(k2, Absent, k1, v2), Plain(k2, v1)>>}
=============================================================================
