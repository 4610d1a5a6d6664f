--------------------------- MODULE MCReplication ----------------------------
(* Instances of Replication for TLC. *)
EXTENDS Replication, TLC

CONSTANTS p1, p2, d1, q1

\* Two writes of key 1, a deletion of it, and a write of key 2.
MCKeyOf == [w \in Write |-> IF w = q1 THEN 2 ELSE 1]

\* A connection without what its handler has done with.
Current(c) ==
  LET h == conn[c].handler
  IN  [conn[c] EXCEPT
         !.hello = IF h \in {"hello", "subscribe", "readlsn", "catchup"} THEN @ ELSE 0,
         !.cursor = IF h = "snapshot" THEN @ ELSE -1,
         !.snapLsn = IF h \in {"catchup", "snapshot", "stream"} THEN @ ELSE 0]

\* What decides the contents of the stores: neither the acknowledgements nor what
\* the clients are told.
Stores ==
  <<primaryVars, replicaVars, envVars, {w \in Write : client[w] = "new"},
    [c \in Conn |-> [Current(c) EXCEPT !.acks = << >>, !.progress = None]]>>

\* Everything but locals done with, and the targets of barriers that are over.
Barriers ==
  <<primaryVars, client, replicaVars, envVars, order, had, [c \in Conn |-> Current(c)],
    [w \in Write |-> IF client[w] = "waiting" THEN target[w] ELSE 0]>>

\* Bounds that a run does not reach together: the third write, and a death or a
\* restart; and a restart of the primary and the deletion, since a replica whose first
\* copy was cut off by the restart keeps the deleted key (see CaughtUpIsEqual).
ThirdWriteOrDeath ==
  /\ Len(order) <= 2 \/ (restarts = 0 /\ deaths = 0)
  /\ restarts = 0 \/ client[d1] = "new"

Symmetry == Permutations(Conn)
============================================================================
