---------------------------- MODULE Transactions ----------------------------
(***************************************************************************)
(* Sessions over one database: the transaction control, reads and writes   *)
(* of crates/elyra-engine/src/session.rs, as the statements of lib.rs and  *)
(* exec.rs use them.  A session runs one statement at a time; statements   *)
(* of different sessions interleave wherever the code awaits the storage.  *)
(*                                                                         *)
(* The database below is the writer of GroupCommit: a commit is one atomic *)
(* step (SerialStore), a snapshot is a committed state.  Every statement   *)
(* that writes rows also puts the table's write counter, last, one above   *)
(* the count it reads (bump_wcount).                                       *)
(***************************************************************************)
EXTENDS TxnBuffer

CONSTANTS
  Session,      \* the connections
  Name,         \* savepoint names
  NoTxn,        \* no open transaction
  Workload,     \* what clients do, see below
  MaxCount,     \* bound on the write counter in any workload
  MaxRanges,    \* bound on the ranges a transaction scans
  MaxCancel     \* bound on statements cut off by the query timeout

\* A workload names the sessions that begin transactions, use savepoints, run
\* statements of several writes, read under either isolation level, and change
\* autocommit and access modes; the rows there are at the start; what statements
\* write (deletes, then puts), the keys they look up or lock, the ranges they scan;
\* and bounds on the write counter, and so on writes, and on the undo log.
ASSUME WorkloadAssumption ==
  \A w \in Workload :
    /\ w.open \cup w.save \cup w.unit \cup w.read \cup w.set \subseteq Session
    /\ w.rows \subseteq Row /\ (w.rows # {} => 1 \in Val) /\ w.probe \subseteq Key
    /\ w.write \subseteq Seq([key : Row, val : Val \cup {Absent}])
    /\ w.span \subseteq [from : Nat, to : Nat]
    /\ w.maxCount \in 0..MaxCount /\ w.maxUndo \in Nat
ASSUME BoundAssumption == {MaxCount, MaxRanges, MaxCancel} \subseteq Nat

\* What the database may hold, and a transaction.
Value == Val \cup {Absent} \cup 0..MaxCount
State == [Key -> Value]
Span == [from : Nat, to : Nat]
Txn == [snap : State, ro : BOOLEAN, ser : BOOLEAN, puts : State, dels : SUBSET Row,
        reads : SUBSET Row, ranges : Seq(Span), locked : SUBSET Key,
        sps : Seq([name : Name, mark : Nat, rangesLen : Nat]), cps : Nat,
        undo : Seq([key : Key, put : Value, deleted : BOOLEAN]), undoMem : Int, mem : Int]
ASSUME NoTxnAssumption == NoTxn \notin Txn

VARIABLES
  db,           \* the committed state
  txn,          \* Session.txn
  conf,         \* Session.isolation, autocommit, session_read_only, next_read_only
  stmt,         \* the statement under way: none, a direct write between its read
                \* and its commit, or one of several writes
  scan,         \* its scan: the rows found and the cursor
  seen,         \* history: the keys a serializable transaction has been shown since
                \* it began or last rolled back to a savepoint, and those before
  cancels,      \* statements cut off so far
  use           \* the workload

vars == <<db, txn, conf, stmt, scan, seen, cancels, use>>

Idle == [kind |-> "idle"]
NoScan == [on |-> FALSE]
Unseen == [now |-> {}, before |-> {}]
Conf == [ser : BOOLEAN, auto : BOOLEAN, ro : BOOLEAN, next : {<< >>, <<TRUE>>, <<FALSE>>}]

InTxn(s) == txn[s] # NoTxn
Ready(s) == stmt[s] = Idle /\ ~scan[s].on
InUnit(s) == stmt[s].kind = "unit" /\ ~stmt[s].failed /\ ~scan[s].on

\* The mode of the next transaction, and of a statement run now.
Mode(c) == IF c.next # << >> THEN c.next[1] ELSE c.ro
ReadOnlyNow(s) == IF InTxn(s) THEN txn[s].ro ELSE Mode(conf[s])

Sees(s) == IF InTxn(s) THEN View(txn[s]) ELSE db
Show(s, K) == IF InTxn(s) /\ txn[s].ser THEN [seen EXCEPT ![s].now = @ \cup K] ELSE seen

----------------------------------------------------------------------------
(* Transaction control *)

\* begin_with_access: a mode asked for, the pending one, or the session's.
OpenTxn(s, access) ==
  /\ txn' = [txn EXCEPT ![s] =
       NewTxn(db, IF access # << >> THEN access[1] ELSE Mode(conf[s]), conf[s].ser)]
  /\ conf' = [conf EXCEPT ![s].next = << >>]
  /\ seen' = [seen EXCEPT ![s] = Unseen]

\* BEGIN, and, with autocommit off, the first statement.  A transaction still open
\* is committed first, a step of its own.
Begin(s, access) ==
  /\ Ready(s) /\ ~InTxn(s)
  /\ OpenTxn(s, access)
  /\ UNCHANGED <<db, stmt, scan, cancels>>

Commits(s) == ~TooLarge(txn[s]) /\ Validates(db, txn[s])

\* Session::commit: the transaction is gone, whether it is applied or aborted.
CommitTxn(s) ==
  /\ txn' = [txn EXCEPT ![s] = NoTxn]
  /\ db' = IF InTxn(s) /\ Commits(s) THEN Applied(db, txn[s].puts, txn[s].dels) ELSE db
  /\ seen' = [seen EXCEPT ![s] = Unseen]

Commit(s) ==
  /\ Ready(s)
  /\ CommitTxn(s)
  /\ conf' = [conf EXCEPT ![s].next = << >>]
  /\ UNCHANGED <<stmt, scan, cancels>>

\* ROLLBACK, and the end of a connection.
Rollback(s) ==
  /\ Ready(s)
  /\ txn' = [txn EXCEPT ![s] = NoTxn]
  /\ conf' = [conf EXCEPT ![s].next = << >>]
  /\ seen' = [seen EXCEPT ![s] = Unseen]
  /\ UNCHANGED <<db, stmt, scan, cancels>>

SetIsolation(s, ser) ==
  /\ Ready(s)
  /\ conf' = [conf EXCEPT ![s].ser = ser]
  /\ UNCHANGED <<db, txn, stmt, scan, seen, cancels>>

\* Turned on, it commits first; if that fails the mode stays off.
SetAutocommit(s, on) ==
  /\ Ready(s)
  /\ IF on /\ ~conf[s].auto
     THEN /\ CommitTxn(s)
          /\ conf' = [conf EXCEPT ![s].next = << >>, ![s].auto = ~InTxn(s) \/ Commits(s)]
     ELSE /\ conf' = [conf EXCEPT ![s].auto = on]
          /\ UNCHANGED <<db, txn, seen>>
  /\ UNCHANGED <<stmt, scan, cancels>>

SetSessionReadOnly(s, ro) ==
  /\ Ready(s)
  /\ conf' = [conf EXCEPT ![s].ro = ro]
  /\ UNCHANGED <<db, txn, stmt, scan, seen, cancels>>

SetNextReadOnly(s, ro) ==
  /\ Ready(s) /\ ~InTxn(s)
  /\ conf' = [conf EXCEPT ![s].next = <<ro>>]
  /\ UNCHANGED <<db, txn, stmt, scan, seen, cancels>>

SaveTxn(s, t) ==
  /\ txn' = [txn EXCEPT ![s] = t]
  /\ UNCHANGED <<db, conf, scan, cancels>>

SetSavepoint(s, name) ==
  /\ Ready(s) /\ InTxn(s)
  /\ SaveTxn(s, Savepoint(txn[s], name))
  /\ UNCHANGED <<stmt, seen>>

RollbackTo(s, name) ==
  /\ Ready(s) /\ InTxn(s)
  /\ \E i \in Position(txn[s], name) : SaveTxn(s, RollbackToSavepoint(txn[s], i))
  /\ seen' = [seen EXCEPT ![s] = [now |-> {}, before |-> @.now \cup @.before]]
  /\ UNCHANGED stmt

Release(s, name) ==
  /\ Ready(s) /\ InTxn(s)
  /\ \E i \in Position(txn[s], name) : SaveTxn(s, ReleaseSavepoint(txn[s], i))
  /\ UNCHANGED <<stmt, seen>>

----------------------------------------------------------------------------
(* Reads *)

\* A statement that touches a table outside a transaction uses up the pending mode.
UsesMode(s) ==
  conf' = IF ~InTxn(s) /\ conf[s].auto THEN [conf EXCEPT ![s].next = << >>] ELSE conf

\* The reads a transaction keeps after reading k.
Reads(tx, k) == IF tx.ser /\ k # Meta THEN tx.reads \cup {k} ELSE tx.reads

\* get and multi_get in a transaction; elsewhere they change nothing.
Get(s, k) ==
  /\ Ready(s) \/ InUnit(s)
  /\ InTxn(s)
  /\ SaveTxn(s, [txn[s] EXCEPT !.reads = Reads(txn[s], k)])
  /\ seen' = Show(s, {k})
  /\ UNCHANGED stmt

\* SELECT ... FOR UPDATE on a row it finds, and the write counter an ALTER locks.
LockKey(s, k) ==
  /\ InTxn(s)
  /\ \/ Ready(s) /\ k \in Row /\ View(txn[s])[k] # Absent
     \/ InUnit(s) /\ stmt[s].owned /\ k = Meta
  /\ SaveTxn(s, [txn[s] EXCEPT !.locked = @ \cup {k}])
  /\ UNCHANGED <<stmt, seen>>

StartScan(s, from, to) ==
  /\ Ready(s) \/ InUnit(s)
  /\ InTxn(s) \/ conf[s].auto
  /\ scan' = [scan EXCEPT ![s] = [on |-> TRUE, done |-> FALSE, from |-> from, to |-> to,
                                  cursor |-> from, rows |-> {}]]
  /\ UsesMode(s)
  /\ UNCHANGED <<db, txn, stmt, seen, cancels>>

\* Mutant: a scan leaves no range behind when the buffer holds all of the batch.
ScanRanges_Buffered(tx, from, to) ==
  IF tx.ser /\ RowsIn(tx.puts, from, to) = {}
  THEN Append(tx.ranges, [from |-> from, to |-> to]) ELSE tx.ranges

\* The ranges a transaction keeps after scanning one.
ScanRanges(tx, from, to) ==
  IF tx.ser THEN Append(tx.ranges, [from |-> from, to |-> to]) ELSE tx.ranges

\* scan_batch, and the loops over it: a short batch is the last.
ScanBatch(s) ==
  /\ scan[s].on /\ ~scan[s].done
  /\ LET c == scan[s]
         batch == IF InTxn(s) THEN Merge(txn[s], c.cursor, c.to)
                  ELSE FirstRows(RowsIn(db, c.cursor, c.to), Limit)
         short == Cardinality(batch) < Limit
         next == IF short THEN c.to ELSE LastRow(batch) + 1
     IN  /\ InTxn(s) => Len(txn[s].ranges) < MaxRanges
         /\ scan' = [scan EXCEPT ![s] = [c EXCEPT !.rows = @ \cup batch, !.done = short,
                                                  !.cursor = next]]
         /\ txn' = IF InTxn(s)
                   THEN [txn EXCEPT ![s].ranges = ScanRanges(txn[s], c.cursor, c.to)]
                   ELSE txn
         /\ seen' = Show(s, {k \in Row : In(k, c.cursor, next)})
  /\ UNCHANGED <<db, conf, stmt, cancels>>

EndScan(s) ==
  /\ scan[s].on /\ scan[s].done
  /\ scan' = [scan EXCEPT ![s] = NoScan]
  /\ UNCHANGED <<db, txn, conf, stmt, seen, cancels>>

----------------------------------------------------------------------------
(* Writes *)

\* The write counter goes last.
Ops(w, count) == Append(w, [key |-> Meta, val |-> count + 1])

\* commit_write in a transaction, alone or as one write of a longer statement.  What
\* it staged before it failed stays staged.
Write(s, w) ==
  /\ Ready(s) \/ InUnit(s)
  /\ InTxn(s) /\ ~txn[s].ro
  /\ View(txn[s])[Meta] < use.maxCount
  /\ Logging(txn[s]) => Len(txn[s].undo) + Len(w) + 1 <= use.maxUndo
  /\ LET r == StageAll(txn[s], Ops(w, View(txn[s])[Meta]))
     IN  /\ SaveTxn(s, r.tx)
         /\ stmt' = IF stmt[s].kind = "unit" THEN [stmt EXCEPT ![s].failed = ~r.ok] ELSE stmt
  /\ UNCHANGED seen

\* Outside a transaction a statement reads, and commits later what it made of it.
StartDirect(s, w) ==
  /\ Ready(s) /\ ~InTxn(s) /\ conf[s].auto /\ ~ReadOnlyNow(s)
  /\ db[Meta] < use.maxCount
  /\ stmt' = [stmt EXCEPT ![s] = [kind |-> "direct", ops |-> Ops(w, db[Meta])]]
  /\ UsesMode(s)
  /\ UNCHANGED <<db, txn, scan, seen, cancels>>

\* Db::commit: nothing is validated.
FinishDirect(s) ==
  /\ stmt[s].kind = "direct"
  /\ LET ops == stmt[s].ops
         f[n \in 0..Len(ops)] ==
           IF n = 0 THEN db ELSE [f[n - 1] EXCEPT ![ops[n].key] = ops[n].val]
     IN  db' = f[Len(ops)]
  /\ stmt' = [stmt EXCEPT ![s] = Idle]
  /\ UNCHANGED <<txn, conf, scan, seen, cancels>>

\* A statement of several writes that must be atomic: a checkpoint in an open
\* transaction, a transaction of its own outside one.  An ALTER (rewrite) commits
\* what is open first and validates what it scans; a query that refreshes a stale
\* materialized view has used up the pending mode when it decides to.
StartUnit(s, rewrite) ==
  /\ Ready(s)
  /\ InTxn(s) \/ conf[s].auto
  /\ IF InTxn(s) \/ rewrite THEN ~ReadOnlyNow(s) ELSE ~conf[s].ro
  /\ IF InTxn(s)
     THEN /\ ~rewrite
          /\ SaveTxn(s, [txn[s] EXCEPT !.cps = @ + 1])
          /\ stmt' = [stmt EXCEPT ![s] = [kind |-> "unit", owned |-> FALSE, failed |-> FALSE,
                                          checkpoint |-> Checkpoint(txn[s])]]
          /\ UNCHANGED seen
     ELSE /\ txn' = [txn EXCEPT ![s] = NewTxn(db, FALSE, rewrite \/ conf[s].ser)]
          /\ conf' = [conf EXCEPT ![s].next = << >>]
          /\ seen' = [seen EXCEPT ![s] = Unseen]
          /\ stmt' = [stmt EXCEPT ![s] = [kind |-> "unit", owned |-> TRUE, failed |-> FALSE]]
          /\ UNCHANGED <<db, scan, cancels>>

FinishUnit(s) ==
  /\ InUnit(s)
  /\ stmt' = [stmt EXCEPT ![s] = Idle]
  /\ IF stmt[s].owned
     THEN /\ CommitTxn(s)
          /\ conf' = [conf EXCEPT ![s].next = << >>]
          /\ UNCHANGED <<scan, cancels>>
     ELSE SaveTxn(s, ReleaseCheckpoint(txn[s])) /\ UNCHANGED seen

\* A write failed, or the statement met another error.
FailUnit(s) ==
  /\ stmt[s].kind = "unit" /\ ~scan[s].on
  /\ stmt' = [stmt EXCEPT ![s] = Idle]
  /\ IF stmt[s].owned
     THEN /\ txn' = [txn EXCEPT ![s] = NoTxn]
          /\ conf' = [conf EXCEPT ![s].next = << >>]
          /\ seen' = [seen EXCEPT ![s] = Unseen]
          /\ UNCHANGED <<db, scan, cancels>>
     ELSE /\ SaveTxn(s, RollbackCheckpoint(txn[s], stmt[s].checkpoint))
          /\ seen' = [seen EXCEPT ![s] = [now |-> {}, before |-> @.now \cup @.before]]

\* The query timeout drops the statement where it waits (with_query_timeout): what
\* it would have done next, its clean-up included, is not done.
Cancel(s) ==
  /\ ~Ready(s) /\ cancels < MaxCancel
  /\ cancels' = cancels + 1
  /\ stmt' = [stmt EXCEPT ![s] = Idle]
  /\ scan' = [scan EXCEPT ![s] = NoScan]
  /\ UNCHANGED <<db, txn, conf, seen>>

----------------------------------------------------------------------------
Init ==
  /\ use \in Workload
  /\ db = [k \in Key |-> IF k = Meta THEN 0 ELSE IF k \in use.rows THEN 1 ELSE Absent]
  /\ txn = [s \in Session |-> NoTxn]
  /\ conf = [s \in Session |-> [ser |-> FALSE, auto |-> TRUE, ro |-> FALSE, next |-> << >>]]
  /\ stmt = [s \in Session |-> Idle]
  /\ scan = [s \in Session |-> NoScan]
  /\ seen = [s \in Session |-> Unseen]
  /\ cancels = 0

Next ==
  /\ UNCHANGED use
  /\ \/ \E s \in Session :
          \/ Commit(s) \/ Rollback(s)
          \/ \E w \in use.write : Write(s, w) \/ StartDirect(s, w)
          \/ FinishDirect(s) \/ Cancel(s)
     \/ \E s \in use.open : Begin(s, << >>)
     \/ \E s \in use.save, n \in Name : SetSavepoint(s, n) \/ RollbackTo(s, n) \/ Release(s, n)
     \/ \E s \in use.unit :
          (\E rewrite \in BOOLEAN : StartUnit(s, rewrite)) \/ FinishUnit(s) \/ FailUnit(s)
     \/ \E s \in use.read :
          \/ \E ser \in BOOLEAN : SetIsolation(s, ser)
          \/ \E k \in use.probe : Get(s, k) \/ LockKey(s, k)
          \/ \E r \in use.span : StartScan(s, r.from, r.to)
          \/ ScanBatch(s) \/ EndScan(s)
     \/ \E s \in use.set, b \in BOOLEAN :
          \/ SetAutocommit(s, b) \/ SetSessionReadOnly(s, b) \/ SetNextReadOnly(s, b)
          \/ Begin(s, <<b>>)

Spec == Init /\ [][Next]_vars

----------------------------------------------------------------------------
(* Properties *)

\* A statement that has begun, and a scan.
Direct == [kind : {"direct"}, ops : Seq([key : Key, val : Value])]
OwnUnit == [kind : {"unit"}, owned : {TRUE}, failed : BOOLEAN]
Unit == [kind : {"unit"}, owned : {FALSE}, failed : BOOLEAN,
         checkpoint : [mark : Nat, rangesLen : Nat, spsLen : Nat]]
ScanState == [on : {TRUE}, done : BOOLEAN, from : Nat, to : Nat, cursor : Nat,
              rows : SUBSET Row]

TypeOK ==
  /\ db \in State
  /\ txn \in [Session -> Txn \cup {NoTxn}]
  /\ conf \in [Session -> Conf]
  /\ stmt \in [Session -> {Idle} \cup Direct \cup OwnUnit \cup Unit]
  /\ scan \in [Session -> {NoScan} \cup ScanState]
  /\ seen \in [Session -> [now : SUBSET Key, before : SUBSET Key]]
  /\ cancels \in 0..MaxCancel
  /\ use \in Workload

\* What the transaction has locked and, serializable, read or scanned.
ReadSet(tx) ==
  tx.locked \cup
    IF tx.ser THEN tx.reads \cup {k \in Row : \E i \in DOMAIN tx.ranges :
                                           In(k, tx.ranges[i].from, tx.ranges[i].to)}
    ELSE {}

\* What the transaction saw when the log had come to a mark: the first entry for a
\* key behind it tells.
ViewAt(tx, mark) ==
  [k \in Key |->
     LET later == {i \in mark + 1..Len(tx.undo) : tx.undo[i].key = k}
         e == tx.undo[CHOOSE i \in later : \A j \in later : i <= j]
     IN  IF later = {} THEN View(tx)[k]
         ELSE IF e.deleted THEN Absent
         ELSE IF e.put # Absent THEN e.put ELSE tx.snap[k]]

Promise(s) ==
  IF ~InTxn(s) THEN NoTxn
  ELSE [snap |-> txn[s].snap, view |-> View(txn[s]), must |-> ReadSet(txn[s]),
        ro |-> txn[s].ro,
        saved |-> [i \in 1..Len(txn[s].sps) |->
                     [name |-> txn[s].sps[i].name, view |-> ViewAt(txn[s], txn[s].sps[i].mark)]],
        unit |-> IF stmt[s].kind = "unit" /\ ~stmt[s].owned
                 THEN <<ViewAt(txn[s], stmt[s].checkpoint.mark)>> ELSE << >>]

\* What a transaction promises is not the mark of a closed one.
ASSUME ClosedAssumption ==
  NoTxn \notin [snap : State, view : State, must : SUBSET Key, ro : BOOLEAN,
                saved : Seq([name : Name, view : State]), unit : Seq(State)]

SI == INSTANCE SnapshotIsolation WITH tx <- [s \in Session |-> Promise(s)], Closed <- NoTxn

\* The sessions keep the promises of docs/sql/transactions.md: whatever other
\* sessions commit, a transaction sees its snapshot and its own writes; the undo log
\* gives back exactly the view there was at every savepoint and at the start of a
\* statement, through any nesting, redefinition and release; and a commit is applied
\* whole, over the changes of others, and only if no row it wrote, key it locked or,
\* serializable, key or range it read has changed since the snapshot.
RefinesSnapshotIsolation == SI!Spec

\* The bytes a buffer and its log hold, one by one.
BufferBytes(t) == UNION {{k} \X (1..Bytes(t, k)) : k \in Key}
LogBytes(t) == UNION {{i} \X (1..UndoBytes(t.undo[i])) : i \in DOMAIN t.undo}

\* Staging, overwriting, undoing and releasing keep the byte counts the budget is
\* enforced with, mem and undo_mem, equal to what the buffer and the log really hold;
\* no mark points past the log, and there is no log without a mark.
BookkeepingExact ==
  \A s \in Session : InTxn(s) =>
    LET t == txn[s] IN
    /\ t.mem = Cardinality(BufferBytes(t))
    /\ t.undoMem = Cardinality(LogBytes(t))
    /\ \A i \in DOMAIN t.sps : t.sps[i].mark <= Len(t.undo)
    /\ ~Logging(t) => t.undo = << >>

\* A scan in batches, inside a transaction that has deleted no committed row of its
\* range, finds exactly the rows the transaction sees there: none twice, none
\* skipped where its own writes fall between or behind the batches.
ScanReadsView ==
  \A s \in Session :
    (InTxn(s) /\ scan[s].on /\ scan[s].done
       /\ RowsIn(txn[s].snap, scan[s].from, scan[s].to) \cap txn[s].dels = {})
    => scan[s].rows = RowsIn(View(txn[s]), scan[s].from, scan[s].to)

\* Everything a serializable transaction has been shown since it began, or since it
\* last rolled back to a savepoint, is in the set its commit validates, also where
\* its own writes answered the read.
SeenIsKept ==
  \A s \in Session :
    InTxn(s) /\ txn[s].ser => seen[s].now \cap Row \subseteq ReadSet(txn[s])

----------------------------------------------------------------------------
(* What the documentation says and the code does not do *)

\* docs/sql/transactions.md:17: the transaction sees its own uncommitted changes;
\* for a scan, every row the transaction sees, also after it has deleted some.
ScanComplete ==
  \A s \in Session :
    (InTxn(s) /\ scan[s].on /\ scan[s].done)
    => scan[s].rows = RowsIn(View(txn[s]), scan[s].from, scan[s].to)

\* docs/sql/transactions.md:97: a serializable commit is rejected if anything the
\* transaction read, or any range it scanned, changed, rolled back to a savepoint
\* since or not.
AllSeenIsKept ==
  \A s \in Session :
    InTxn(s) /\ txn[s].ser =>
      (seen[s].now \cup seen[s].before) \cap Row \subseteq ReadSet(txn[s])

\* docs/limitations.md:245: a transaction that stages more than the budget has its
\* next write rejected, so the buffer stays within it.
BufferWithinBudget ==
  \A s \in Session : InTxn(s) => txn[s].mem + txn[s].undoMem <= Budget

\* docs/sql/transactions.md:52: statements outside an explicit transaction commit
\* immediately.  With every session in autocommit and no BEGIN, no transaction is
\* open between statements.
NoStrayTransaction ==
  \A s \in Session : Ready(s) /\ conf[s].auto => ~InTxn(s)

\* docs/sql/transactions.md:94: no lost updates.  A write outside a transaction is
\* made of rows nobody has changed since it read them.
NoLostDirectUpdate ==
  [][\A s \in Session : stmt[s].kind = "direct" /\ stmt'[s] = Idle /\ db' # db
       => db[Meta] + 1 = stmt[s].ops[Len(stmt[s].ops)].val]_vars

\* lib.rs:2134: a read-only transaction reads a materialized view as last refreshed.
ReadOnlyRefreshesNothing ==
  [][\A s \in Session : stmt[s] = Idle /\ ReadOnlyNow(s) => stmt'[s].kind # "unit"]_vars
=============================================================================
