-------------------------- MODULE MCEmbeddingSweep --------------------------
(* Instances of EmbeddingSweep for TLC. *)
EXTENDS EmbeddingSweep, TLC

CONSTANTS a, b, m1, m2, c1, c2

Unembedded(t) == [text |-> t, vec |-> [c \in Column |-> None]]

\* Two rows, the first one with a text the provider refuses; room for a third.
Two == [r \in Row |-> IF r = 1 THEN Unembedded(b) ELSE IF r = 2 THEN Unembedded(a) ELSE NoRow]

Pinned == [model |-> m1, column |-> c1]
Following == [model |-> Default, column |-> c1]
OtherModel == [model |-> m2, column |-> c1]
OtherColumn == [model |-> m1, column |-> c2]

MCInitial == [rows |-> Two, index |-> Following, model |-> m1]
Some == {Following, OtherModel}
Quiet == [write |-> 0, call |-> 0, fault |-> 0, restart |-> 0, create |-> 0]

\* Users against sweeps; a call of sweep_embeddings beside the task; a new index; faults
\* and a restart.
MCWorkload ==
  {[Quiet EXCEPT !.write = 3], [Quiet EXCEPT !.write = 1, !.call = 1],
   [Quiet EXCEPT !.write = 2, !.create = 1],
   [Quiet EXCEPT !.write = 1, !.fault = 1, !.restart = 1]}

\* A row is written twice; the default model changes; the index moves; two sweeps.
Writing == {[Quiet EXCEPT !.write = 2]}
Restarting == {[Quiet EXCEPT !.restart = 1]}
Moving == {[Quiet EXCEPT !.create = 1]}
Overlapping == {[Quiet EXCEPT !.call = 1]}
Faulty == {[Quiet EXCEPT !.call = 1, !.fault = 1]}

\* The same pinned model, so that only the column differs.
PinnedInitial == [MCInitial EXCEPT !.index = Pinned]
Retargeted == {Pinned, OtherColumn}
AllGood == [MCInitial EXCEPT !.rows = [r \in Row |-> Unembedded(a)]]
=============================================================================
