--------------------------- MODULE MCVectorIndex ----------------------------
(* Instances of VectorIndex for TLC. *)
EXTENDS VectorIndex, TLC


\* Three rows, the first at the probe.
MCInitial == [k \in Key |-> IF k <= 3 THEN k ELSE NoRow]

\* The nearest row moves away; or one row goes and another comes, nearer.
MCChange == {1 :> 4, (2 :> NoRow) @@ (4 :> 1)}

\* The nearest row moves between the two nearest positions and away.
Moving == {1 :> 2, 1 :> 1, 1 :> 4}

Plain == [write |-> 2, query |-> 2, txn |-> 0, timeout |-> 0, restart |-> 0]

\* Writers against queries; a transaction; queries given up, and a restart.
MCWorkload ==
  {[Plain EXCEPT !.query = 3], [Plain EXCEPT !.txn = 1],
   [Plain EXCEPT !.write = 1, !.query = 3, !.timeout = 1, !.restart = 1]}

Patching == {[Plain EXCEPT !.write = 3, !.query = 4]}
Transacting == {[Plain EXCEPT !.write = 1, !.txn = 1]}

Symmetry == Permutations(Session)
=============================================================================
