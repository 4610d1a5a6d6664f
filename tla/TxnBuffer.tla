----------------------------- MODULE TxnBuffer ------------------------------
(***************************************************************************)
(* The buffer of an open transaction, TxnState of crates/elyra-engine/src/ *)
(* session.rs, and the functions on it: staging a write under the memory   *)
(* budget, the undo log and rolling back to a mark, one batch of a scan    *)
(* that merges the buffer into the snapshot, and what a commit validates.  *)
(*                                                                         *)
(* Keys are numbers in key order and one byte long; a value is the number  *)
(* of its bytes (the write counter, whose value is a count, takes one).    *)
(* The end of a range is exclusive, and Top where the code has no end.     *)
(***************************************************************************)
EXTENDS Integers, Sequences, FiniteSets

CONSTANTS
  Row,        \* the keys of rows
  Meta,       \* the write counter's key, under "meta::"
  Val,        \* the values of rows
  Absent,     \* no value
  Top,        \* above every row
  Budget,     \* txn_max_bytes
  MaxRange,   \* serializable_max_range
  Limit       \* rows per batch of a scan

ASSUME RowAssumption ==
  IsFiniteSet(Row) /\ Row \subseteq Nat /\ Top \in Nat /\ \A k \in Row : k < Top
ASSUME MetaAssumption == Meta \notin Row
ASSUME ValAssumption == Val \subseteq Nat \ {0} /\ Absent \notin Nat
ASSUME LimitAssumption == Limit \in Nat \ {0} /\ MaxRange \in Nat \ {0} /\ Budget \in Nat

Key == Row \cup {Meta}
Nothing == [k \in Key |-> Absent]

\* TxnState as begin_with_access makes it.
NewTxn(snap, readOnly, serializable) ==
  [snap |-> snap, ro |-> readOnly, ser |-> serializable, puts |-> Nothing, dels |-> {},
   reads |-> {}, ranges |-> << >>, locked |-> {}, sps |-> << >>, cps |-> 0,
   undo |-> << >>, undoMem |-> 0, mem |-> 0]

\* What a read finds: deletes, then puts, then the snapshot.
View(tx) ==
  [k \in Key |-> IF k \in tx.dels THEN Absent
                 ELSE IF tx.puts[k] # Absent THEN tx.puts[k] ELSE tx.snap[k]]

----------------------------------------------------------------------------
(* Staging and undoing *)

ValueBytes(k, v) == IF v = Absent THEN 0 ELSE IF k = Meta THEN 1 ELSE v
PutBytes(k, v) == IF v = Absent THEN 0 ELSE 1 + ValueBytes(k, v)
Bytes(tx, k) == PutBytes(k, tx.puts[k]) + IF k \in tx.dels THEN 1 ELSE 0

\* The buffer holds put (Absent if none) and, if deleted, a delete for key k.
Assign(tx, k, put, deleted) ==
  LET t == [tx EXCEPT !.puts[k] = put,
                      !.dels = IF deleted THEN @ \cup {k} ELSE @ \ {k}]
  IN  [t EXCEPT !.mem = @ - Bytes(tx, k) + Bytes(t, k)]

UndoEntry(tx, k) == [key |-> k, put |-> tx.puts[k], deleted |-> k \in tx.dels]
UndoBytes(e) == 1 + ValueBytes(e.key, e.put) + 1

\* Mutant: only savepoints keep the log, statement checkpoints do not.
Logging_SavepointsOnly(tx) == tx.sps # << >>

Logging(tx) == tx.sps # << >> \/ tx.cps > 0

\* One delete (val Absent) or put of commit_write.  An entry that would overrun the
\* budget is refused before anything changes; a change that overruns it is made and
\* the write still fails.
Stage(tx, op) ==
  LET e == UndoEntry(tx, op.key)
      logged == [tx EXCEPT !.undo = Append(@, e), !.undoMem = @ + UndoBytes(e)]
      t == Assign(IF Logging(tx) THEN logged ELSE tx, op.key, op.val, op.val = Absent)
  IN  IF Logging(tx) /\ tx.mem + tx.undoMem + UndoBytes(e) > Budget
      THEN [tx |-> tx, ok |-> FALSE]
      ELSE [tx |-> t, ok |-> t.mem + t.undoMem <= Budget]

\* The operations of one write in turn, up to the first that fails.
StageAll(tx, ops) ==
  LET r[n \in 0..Len(ops)] ==
        IF n = 0 THEN [tx |-> tx, ok |-> TRUE]
        ELSE IF r[n - 1].ok THEN Stage(r[n - 1].tx, ops[n]) ELSE r[n - 1]
  IN  r[Len(ops)]

UndoLast(tx) ==
  LET e == tx.undo[Len(tx.undo)]
  IN  Assign([tx EXCEPT !.undo = SubSeq(@, 1, Len(@) - 1), !.undoMem = @ - UndoBytes(e)],
             e.key, e.put, e.deleted)

\* rollback_tx_to: newest entry first, then the ranges read since.
RollbackTxTo(tx, mark, rangesLen) ==
  LET f[n \in 0..Len(tx.undo)] == IF n = 0 THEN tx ELSE UndoLast(f[n - 1])
      t == IF Len(tx.undo) > mark THEN f[Len(tx.undo) - mark] ELSE tx
  IN  [t EXCEPT !.ranges = SubSeq(@, 1, IF rangesLen < Len(@) THEN rangesLen ELSE Len(@))]

\* The log is dropped when nothing can roll back to a mark of it.
DropLog(tx) == IF Logging(tx) THEN tx ELSE [tx EXCEPT !.undo = << >>, !.undoMem = 0]

----------------------------------------------------------------------------
(* Savepoints and checkpoints *)

\* Place of a number in a set of numbers, and the number at a place.
Place(S, k) == Cardinality({j \in S : j <= k})
Nth(S, n) == CHOOSE k \in S : Place(S, k) = n

\* The savepoints of other names, in their order.
Without(sps, name) ==
  LET I == {i \in DOMAIN sps : sps[i].name # name}
  IN  [n \in 1..Cardinality(I) |-> sps[Nth(I, n)]]

Savepoint(tx, name) ==
  [tx EXCEPT !.sps = Append(Without(@, name),
     [name |-> name, mark |-> Len(tx.undo), rangesLen |-> Len(tx.ranges)])]

\* The savepoints of that name, at most one.
Position(tx, name) == {i \in 1..Len(tx.sps) : tx.sps[i].name = name}

RollbackToSavepoint(tx, i) ==
  [RollbackTxTo(tx, tx.sps[i].mark, tx.sps[i].rangesLen) EXCEPT !.sps = SubSeq(@, 1, i)]

\* Mutant: the log is dropped, its bytes stay counted.
ReleaseSavepoint_KeepsBytes(tx, i) ==
  LET t == [tx EXCEPT !.sps = SubSeq(@, 1, i - 1)]
  IN  [DropLog(t) EXCEPT !.undoMem = tx.undoMem]

ReleaseSavepoint(tx, i) == DropLog([tx EXCEPT !.sps = SubSeq(@, 1, i - 1)])

Checkpoint(tx) ==
  [mark |-> Len(tx.undo), rangesLen |-> Len(tx.ranges), spsLen |-> Len(tx.sps)]

ReleaseCheckpoint(tx) == DropLog([tx EXCEPT !.cps = @ - 1])

RollbackCheckpoint(tx, cp) ==
  LET t == RollbackTxTo([tx EXCEPT !.cps = @ - 1], cp.mark, cp.rangesLen)
  IN  DropLog([t EXCEPT !.sps = SubSeq(@, 1, IF cp.spsLen < Len(@) THEN cp.spsLen ELSE Len(@))])

----------------------------------------------------------------------------
(* Scans *)

In(k, from, to) == from <= k /\ k < to
RowsIn(state, from, to) == {k \in Row : In(k, from, to) /\ state[k] # Absent}
FirstRows(S, n) == {k \in S : Place(S, k) <= n}
LastRow(S) == CHOOSE k \in S : \A j \in S : j <= k

\* Mutant: the merged batch is returned whole.
Merge_Whole(tx, from, to) ==
  LET window == FirstRows(RowsIn(tx.snap, from, to), Limit)
  IN  (window \cup RowsIn(tx.puts, from, to)) \ tx.dels

\* scan_range in a transaction: the first rows of the snapshot, and into them every
\* buffered write of the range, cut to the batch's size again.
Merge(tx, from, to) ==
  LET window == FirstRows(RowsIn(tx.snap, from, to), Limit)
  IN  FirstRows((window \cup RowsIn(tx.puts, from, to)) \ tx.dels, Limit)

----------------------------------------------------------------------------
(* What a commit validates *)

\* The ranges in the order of their starts.
Sorted(ranges) ==
  LET Upto(i) == {j \in DOMAIN ranges : \/ ranges[j].from < ranges[i].from
                                        \/ ranges[j].from = ranges[i].from /\ j <= i}
  IN  [n \in DOMAIN ranges |->
         ranges[CHOOSE i \in DOMAIN ranges : Cardinality(Upto(i)) = n]]

\* coalesce_ranges: sorted by start, overlapping and adjacent ones merged.
CoalesceRanges(ranges) ==
  LET sorted == Sorted(ranges)
      f[n \in 0..Len(sorted)] ==
        IF n = 0 THEN << >>
        ELSE LET m == f[n - 1]  r == sorted[n]  last == Len(m)
             IN  IF m = << >> \/ r.from > m[last].to THEN Append(m, r)
                 ELSE IF r.to > m[last].to THEN [m EXCEPT ![last].to = r.to] ELSE m
  IN  f[Len(sorted)]

Ranges(tx) ==
  LET c == IF tx.ser THEN CoalesceRanges(tx.ranges) ELSE << >>
  IN  {c[i] : i \in DOMAIN c}
Covered(tx) == {k \in Row : \E r \in Ranges(tx) : In(k, r.from, r.to)}
Written(tx) == {k \in Key : tx.puts[k] # Absent} \cup tx.dels

\* The keys validated one by one: those written, but for the write counter and what
\* a range covers, those locked, and, serializable, those read.
KeySet(tx) ==
  ((Written(tx) \ {Meta}) \ Covered(tx)) \cup tx.locked
    \cup IF tx.ser THEN tx.reads \ {Meta} ELSE {}

\* Everything the commit finds unchanged.
Validated(tx) == KeySet(tx) \cup Covered(tx)

\* A range too large to materialize aborts the commit.
TooLarge(tx) == \E r \in Ranges(tx) : Cardinality(RowsIn(tx.snap, r.from, r.to)) > MaxRange

\* commit_validated, in the writer: keys and ranges are as in the snapshot.
Validates(db, tx) == \A k \in Validated(tx) : db[k] = tx.snap[k]

\* Deletes, then puts.
Applied(db, puts, dels) ==
  [k \in Key |-> IF puts[k] # Absent THEN puts[k] ELSE IF k \in dels THEN Absent ELSE db[k]]
=============================================================================
