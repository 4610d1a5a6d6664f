------------------------- MODULE SnapshotIsolation --------------------------
(***************************************************************************)
(* What transactions promise their clients (docs/sql/transactions.md):     *)
(* reads of one snapshot overlaid with the transaction's own changes,      *)
(* buffered until a commit that is applied whole or not at all, and only   *)
(* if nobody else has committed a change to what the transaction changed,  *)
(* locked or, when it is serializable, read; savepoints and failed         *)
(* statements that give back exactly the buffer there was before.          *)
(***************************************************************************)
EXTENDS Naturals, Sequences, FiniteSets

CONSTANTS
  Session,   \* the connections
  Name,      \* savepoint names
  Row, Meta, \* the keys: rows, and a table's write counter
  State,     \* what the database may hold, a value for every key
  Closed     \* no transaction

VARIABLES
  db,        \* the committed state
  tx         \* per session Closed, or what the transaction sees and may do

vars == <<db, tx>>

Key == Row \cup {Meta}

(* What one step of a session does to its transaction: t before, u after. *)

Begin(t, u) ==
  /\ t = Closed /\ u # Closed
  /\ u = [snap |-> db, view |-> db, must |-> {}, ro |-> u.ro, saved |-> << >>, unit |-> << >>]

\* A read; it may add to what the commit must find unchanged.
Read(t, u) ==
  /\ t.must \subseteq u.must
  /\ u = [t EXCEPT !.must = u.must]

\* A write changes only what the transaction sees from now on.
Write(t, u) ==
  /\ ~t.ro /\ u.view \in State
  /\ u = [t EXCEPT !.view = u.view]

\* What was saved under other names, in its order.
Without(saved, name) ==
  LET I == {i \in DOMAIN saved : saved[i].name # name}
      Nth(n) == CHOOSE i \in I : Cardinality({j \in I : j <= i}) = n
  IN  [n \in 1..Cardinality(I) |-> saved[Nth(n)]]

Save(t, u) ==
  \E name \in Name :
    u = [t EXCEPT !.saved = Append(Without(@, name), [name |-> name, view |-> t.view])]

\* Back to a savepoint, which stays; what was read since may be forgotten.
RollbackTo(t, u) ==
  /\ u.must \subseteq t.must
  /\ \E i \in 1..Len(t.saved) :
       u = [t EXCEPT !.view = t.saved[i].view, !.must = u.must, !.saved = SubSeq(@, 1, i)]

Release(t, u) ==
  \E i \in 1..Len(t.saved) : u = [t EXCEPT !.saved = SubSeq(@, 1, i - 1)]

\* A statement of several writes inside a transaction; it ends, or fails and leaves
\* no trace.
BeginUnit(t, u) == t.unit = << >> /\ u = [t EXCEPT !.unit = <<t.view>>]
EndUnit(t, u) == t.unit # << >> /\ u = [t EXCEPT !.unit = << >>]
FailUnit(t, u) ==
  /\ t.unit # << >> /\ u.must \subseteq t.must
  /\ u = [t EXCEPT !.unit = << >>, !.view = t.unit[1], !.must = u.must]

Changed(t) == {k \in Key : t.view[k] # t.snap[k]}

\* Applied whole, or not at all.
Commit(t) ==
  /\ \A k \in (Changed(t) \cap Row) \cup t.must : db[k] = t.snap[k]
  /\ db' = [k \in Key |-> IF k \in Changed(t) THEN t.view[k] ELSE db[k]]

\* A statement outside any transaction changes the database, one inside only the
\* transaction.
Step(t, u) ==
  \/ t = Closed /\ u = Closed /\ db' \in State
  \/ t # Closed /\ u = Closed /\ (Commit(t) \/ UNCHANGED db)
  \/ UNCHANGED db /\ Begin(t, u)
  \/ /\ t # Closed /\ u # Closed /\ UNCHANGED db
     /\ \/ Read(t, u) \/ Write(t, u)
        \/ Save(t, u) \/ RollbackTo(t, u) \/ Release(t, u)
        \/ BeginUnit(t, u) \/ EndUnit(t, u) \/ FailUnit(t, u)

Init == db \in State /\ tx = [s \in Session |-> Closed]

Next ==
  \E s \in Session :
    LET t == tx[s]  u == tx'[s]
    IN  Step(t, u) /\ \A r \in Session \ {s} : tx'[r] = tx[r]

Spec == Init /\ [][Next]_vars
=============================================================================
