--------------------------- MODULE MCQueryCaches ----------------------------
(* Instances of QueryCaches for TLC. *)
EXTENDS QueryCaches, TLC

CONSTANTS t1, t2

Bound(op, rhs) == [op |-> op, rhs |-> rhs]

Everything == [key |-> << >>, bounds |-> {}]

\* No filter, a range of keys, and bounds on the column: a value that all rows of a
\* chunk have, and an interval.
MCFilter ==
  [t \in Table |->
     IF t = t1
     THEN {Everything, [key |-> <<2, 3>>, bounds |-> {}],
           [key |-> << >>, bounds |-> {Bound("Ne", 1)}],
           [key |-> << >>, bounds |-> {Bound("Gt", 0), Bound("Lt", 2)}]}
     ELSE {Everything}]

\* Rows on both sides of a chunk's end, one of them NULL; a second table that fits in
\* the cache with the first only while that has three rows.
MCInitial ==
  [t \in Table |->
     [k \in Key |-> IF t = t1 THEN CASE k = 2 -> 1 [] k = 3 -> Null [] k = 4 -> 2 [] k = 1 -> Absent
                    ELSE IF k = 1 THEN 1 ELSE Absent]]

\* A row before the first; an UPDATE of a primary key that moves a row before the
\* first; a number for the NULL; and an ALTER.
MCChange ==
  [t \in Table |->
     IF t = t1 THEN {[op |-> "put", key |-> 1, val |-> 0], [op |-> "rekey", key |-> 4, to |-> 1],
                     [op |-> "put", key |-> 3, val |-> 1], [op |-> "alter"]}
     ELSE {[op |-> "delete", key |-> 1]}]

Symmetry == Permutations(Session)
=============================================================================
