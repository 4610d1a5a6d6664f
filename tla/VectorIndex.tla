---------------------------- MODULE VectorIndex -----------------------------
(***************************************************************************)
(* The vector index of a column (crates/elyra-engine/src/vindex.rs): a     *)
(* graph shared by every session, a snapshot of it on disk, and a write    *)
(* counter, stored beside the rows, that says whether the graph is fresh.  *)
(*                                                                         *)
(* A query reads the counter, takes the graph if it carries that count,    *)
(* and otherwise takes the index's build lock, scans the table in batches  *)
(* and brings the graph up to date.  Writers read the counter, then commit *)
(* their rows with the next count; nothing validates it.  A transaction    *)
(* reads its snapshot under its own writes, the counter included.          *)
(*                                                                         *)
(* A vector is a point on a line.  The graph search (elyra-vector) is      *)
(* external and taken to be exact: what it approximates is not the subject.*)
(***************************************************************************)
EXTENDS Integers, FiniteSets
LOCAL INSTANCE FiniteSetsExt

CONSTANTS
  Session,
  Key,         \* rows, in the order of the scan
  Vec,         \* positions
  NoRow,
  Probe,       \* the position queries ask for
  K,           \* LIMIT k
  Tiny,        \* the 256 rows below which the graph is rebuilt
  Overfetch,   \* the 4 of search_keys
  Batch,       \* the 4096 rows of a scan
  Initial,     \* the rows at the start
  Change,      \* what a statement writes: a function from some keys
  Workload     \* bounds on writes, queries, transactions, timeouts and restarts

ASSUME ValueAssumption == Key \subseteq Nat \ {0} /\ Vec \subseteq Int /\ NoRow \notin Vec
ASSUME SizeAssumption == {K, Batch} \subseteq Nat \ {0} /\ {Tiny, Overfetch} \subseteq Nat
ASSUME WorkloadAssumption ==
  Workload \subseteq [write : Nat, query : Nat, txn : Nat, timeout : Nat, restart : Nat]

MaxWrite == Max({w.write : w \in Workload})

VARIABLES
  rows, count,  \* the stored table and its write counter
  txn,          \* the open transactions
  cache,        \* the registry's index
  disk,         \* the persisted snapshot
  late,         \* snapshots still being written for queries that are gone
  lock,         \* build_lock: the session that holds it
  op,           \* what a session does
  times,        \* history: how often a count was given out
  work,         \* history: how often a count was reconciled in this process
  hist,         \* history: whether there was a transaction, one whose scan missed rows,
                \* a query given up
  env           \* what the workload has left

vars == <<rows, count, txn, cache, disk, late, lock, op, times, work, hist, env>>

NoTxn == [open |-> FALSE]
NoIndex == [on |-> FALSE]
Free == "free"
Idle == [pc |-> "idle"]
Contents == [Key -> Vec \cup {NoRow}]

----------------------------------------------------------------------------
(* What a session reads and writes, session.rs *)

View(s) == IF txn[s].open THEN txn[s].rows ELSE rows
ViewCount(s) == IF txn[s].open THEN txn[s].count ELSE count
Present(r) == {k \in Key : r[k] # NoRow}
Written(c, r) == [k \in Key |-> IF k \in DOMAIN c THEN c[k] ELSE r[k]]
FirstOf(S, n) == {k \in S : Cardinality({j \in S : j < k}) < n}

\* scan_batch: the first rows after a key.  A transaction merges a batch of its
\* snapshot with its own writes and cuts the result to a batch.
Chunk(s, after) ==
  IF ~txn[s].open THEN FirstOf({k \in Present(rows) : k > after}, Batch)
  ELSE LET t == txn[s]
           committed == FirstOf({k \in Present(t.base) : k > after}, Batch)
           staged == {k \in t.dirty : k > after}
       IN  FirstOf({k \in committed \cup staged : t.rows[k] # NoRow}, Batch)

----------------------------------------------------------------------------
(* The graph *)

Tombstones(ix) == MapThenSumSet(LAMBDA v : ix.dead[v], Vec)
Live(r) == {<<k, r[k]>> : k \in Present(r)}

\* full_build
FullBuild(r, c) == [on |-> TRUE, count |-> c, live |-> Live(r), dead |-> [v \in Vec |-> 0]]

\* A change, and: a small table, as many changed rows as rows, or more dead nodes than
\* live ones.
Rebuilds(ix, r, gone, updated, inserted) ==
  LET n == Cardinality(Present(r))
      delta == Cardinality(gone) + Cardinality(updated) + Cardinality(inserted)
      dead == Tombstones(ix) + Cardinality(gone) + Cardinality(updated)
  IN  delta > 0 /\ (n < Tiny \/ delta >= Max({n, 1}) \/ dead > n)

\* Mutant: only deleted rows leave the graph; an updated one is added beside the old.
Superseded_Deleted(ix, r) == {p \in ix.live : r[p[1]] = NoRow}

\* The nodes whose row is gone or has another vector.
Superseded(ix, r) == {p \in ix.live : r[p[1]] # p[2]}

\* reconcile: the differences by content; those nodes die, new ones are added.
Reconciled(ix, r, c) ==
  LET gone == {p \in ix.live : r[p[1]] = NoRow}
      updated == {p \in ix.live : r[p[1]] \notin {NoRow, p[2]}}
      inserted == {k \in Present(r) : \A p \in ix.live : p[1] # k}
      old == Superseded(ix, r)
  IN  IF Rebuilds(ix, r, gone, updated, inserted) THEN FullBuild(r, c)
      ELSE [ix EXCEPT !.count = c, !.live = (@ \ old) \cup Live(r),
                      !.dead = [v \in Vec |-> @[v] + Cardinality({p \in old : p[2] = v})]]

WasRebuilt(ix, r) ==
  Rebuilds(ix, r, {p \in ix.live : r[p[1]] = NoRow},
           {p \in ix.live : r[p[1]] \notin {NoRow, p[2]}},
           {k \in Present(r) : \A p \in ix.live : p[1] # k})

Distance(v) == IF v >= Probe THEN v - Probe ELSE Probe - v

\* Mutant: no more nodes are asked for than rows are wanted.
Want_Exact(ix) == K

\* How many nodes are asked for, to absorb dead ones.
Want(ix) == K + Min({Tombstones(ix), K * Overfetch}) + 1

\* search_keys: the nearest nodes, the dead ones dropped.  Of nodes equally far a live
\* one comes first, or a dead one; live ones in the order of their keys.
SearchKeys(ix, deadFirst) ==
  LET before(p) == {x \in ix.live : \/ Distance(x[2]) < Distance(p[2])
                                    \/ Distance(x[2]) = Distance(p[2]) /\ x[1] < p[1]}
      deadBefore(p) == MapThenSumSet(LAMBDA v : ix.dead[v],
                         {v \in Vec : \/ Distance(v) < Distance(p[2])
                                      \/ deadFirst /\ Distance(v) = Distance(p[2])})
  IN  {p[1] : p \in {p \in ix.live : /\ Cardinality(before(p)) + deadBefore(p) < Want(ix)
                                     /\ Cardinality(before(p)) < K}}

----------------------------------------------------------------------------
(* Statements that write *)

Goto(s, pc) == op' = [op EXCEPT ![s].pc = pc]
Count(what) == env[what] > 0 /\ env' = [env EXCEPT ![what] = @ - 1]

\* bump_wcount: the count after the one the statement read.
Bumped(s) == op[s].count + 1

\* Outside a transaction the counter is read first, and the commit validates nothing.
ReadCounter(s, c) ==
  /\ op[s] = Idle /\ ~txn[s].open /\ Count("write")
  /\ op' = [op EXCEPT ![s] = [pc |-> "write", count |-> count, change |-> c]]
  /\ UNCHANGED <<rows, count, txn, cache, disk, late, lock, times, work, hist>>

Write(s) ==
  /\ op[s].pc = "write"
  /\ rows' = Written(op[s].change, rows)
  /\ count' = Bumped(s)
  /\ times' = [times EXCEPT ![count'] = @ + 1]
  /\ op' = [op EXCEPT ![s] = Idle]
  /\ UNCHANGED <<txn, cache, disk, late, lock, work, hist, env>>

Begin(s) ==
  /\ op[s] = Idle /\ ~txn[s].open /\ Count("txn")
  /\ txn' = [txn EXCEPT ![s] =
       [open |-> TRUE, base |-> rows, rows |-> rows, dirty |-> {}, count |-> count]]
  /\ hist' = [hist EXCEPT !.begun = TRUE]
  /\ UNCHANGED <<rows, count, cache, disk, late, lock, op, times, work>>

\* A statement in a transaction: rows and counter are its own until the commit.
Stage(s, c) ==
  /\ op[s] = Idle /\ txn[s].open /\ Count("write")
  /\ txn' = [txn EXCEPT ![s].rows = Written(c, @), ![s].dirty = @ \cup DOMAIN c,
                        ![s].count = @ + 1]
  /\ times' = [times EXCEPT ![txn[s].count + 1] = @ + 1]
  /\ UNCHANGED <<rows, count, cache, disk, late, lock, op, work, hist>>

\* The rows it wrote must be as in its snapshot; the counter is not looked at.
Commit(s) ==
  LET t == txn[s]
      merged == [k \in Key |-> IF k \in t.dirty THEN t.rows[k] ELSE rows[k]]
  IN  /\ op[s] = Idle /\ t.open
      /\ \A k \in t.dirty : rows[k] = t.base[k]
      /\ rows' = merged
      /\ count' = IF t.dirty = {} THEN count ELSE t.count
      /\ times' = IF merged = t.rows \/ t.dirty = {} THEN times
                  ELSE [times EXCEPT ![t.count] = @ + 1]
      /\ txn' = [txn EXCEPT ![s] = NoTxn]
      /\ UNCHANGED <<cache, disk, late, lock, op, work, hist, env>>

\* ROLLBACK, or a commit that fails its validation.
Rollback(s) ==
  /\ op[s] = Idle /\ txn[s].open
  /\ txn' = [txn EXCEPT ![s] = NoTxn]
  /\ UNCHANGED <<rows, count, cache, disk, late, lock, op, times, work, hist, env>>

----------------------------------------------------------------------------
(* A query, VectorRegistry::get and the ANN path of exec.rs *)

\* read_wcount
Ask(s) ==
  /\ op[s] = Idle /\ Count("query")
  /\ op' = [op EXCEPT ![s] = [pc |-> "fast", count |-> ViewCount(s), after |-> 0,
                              current |-> [k \in Key |-> NoRow], built |-> NoIndex,
                              hits |-> {}, answer |-> {}, since |-> <<rows, times>>]]
  /\ UNCHANGED <<rows, count, txn, cache, disk, late, lock, times, work, hist>>

Fresh(c) == cache.on /\ cache.count = c

FastPath(s) ==
  /\ op[s].pc = "fast"
  /\ Goto(s, IF Fresh(op[s].count) THEN "search" ELSE "lock")
  /\ UNCHANGED <<rows, count, txn, cache, disk, late, lock, times, work, hist, env>>

\* Mutant: the index is not looked at again under the lock.
Rechecked_Not(c) == FALSE

\* Another query may have brought the index up to date meanwhile.
Rechecked(c) == Fresh(c)

\* The lock, the counter again, and the index again.
TakeLock(s) ==
  /\ op[s].pc = "lock" /\ lock = Free
  /\ IF Rechecked(ViewCount(s)) THEN Goto(s, "search") /\ lock' = lock
     ELSE /\ op' = [op EXCEPT ![s].pc = "scan", ![s].count = ViewCount(s)]
          /\ lock' = s
  /\ UNCHANGED <<rows, count, txn, cache, disk, late, times, work, hist, env>>

\* Mutant: the scan goes on from where it was.
Cursor_Stays(s, chunk) == op[s].after

Cursor(s, chunk) == Max(chunk)

\* scan_current, a batch at a time; a short one is the last.
Scan(s) ==
  /\ op[s].pc = "scan"
  /\ LET chunk == Chunk(s, op[s].after)
         current == [k \in Key |-> IF k \in chunk THEN View(s)[k] ELSE op[s].current[k]]
     IN  IF Cardinality(chunk) < Batch
         THEN /\ op' = [op EXCEPT ![s].pc = "reconcile", ![s].current = current]
              /\ hist' = [hist EXCEPT !.lost = @ \/ (txn[s].open /\ current # View(s))]
         ELSE /\ op' = [op EXCEPT ![s].after = Cursor(s, chunk), ![s].current = current]
              /\ UNCHANGED hist
  /\ UNCHANGED <<rows, count, txn, cache, disk, late, lock, times, work, env>>

\* The shared graph is changed in place.  Without one, the snapshot on disk is loaded
\* and reconciled, or a graph is built; it is not shared yet.
Reconcile(s) ==
  /\ op[s].pc = "reconcile"
  /\ LET r == op[s].current
         c == op[s].count
     IN  /\ work' = [work EXCEPT ![c] = @ + 1]
         /\ IF cache.on
            THEN /\ cache' = Reconciled(cache, r, c)
                 /\ IF WasRebuilt(cache, r)
                    THEN /\ op' = [op EXCEPT ![s].pc = "persist", ![s].built = cache']
                         /\ UNCHANGED lock
                    ELSE Goto(s, "search") /\ lock' = Free
            ELSE /\ op' = [op EXCEPT ![s].pc = "persist", ![s].built =
                             IF disk.on THEN Reconciled(disk, r, c) ELSE FullBuild(r, c)]
                 /\ UNCHANGED <<cache, lock>>
  /\ UNCHANGED <<rows, count, txn, disk, late, times, hist, env>>

\* persist may fail, and one that races with another may leave a file that does not
\* load; then the index is shared and the lock given back.
Persist(s) ==
  /\ op[s].pc = "persist"
  /\ disk' \in {disk, op[s].built} \cup IF late = {} THEN {} ELSE {NoIndex}
  /\ cache' = IF cache.on THEN cache ELSE op[s].built
  /\ Goto(s, "search")
  /\ lock' = Free
  /\ UNCHANGED <<rows, count, txn, late, times, work, hist, env>>

Search(s) ==
  /\ op[s].pc = "search"
  /\ \E deadFirst \in BOOLEAN :
       op' = [op EXCEPT ![s].pc = "fetch", ![s].hits = SearchKeys(cache, deadFirst),
                       ![s].built = cache]
  /\ UNCHANGED <<rows, count, txn, cache, disk, late, lock, times, work, hist, env>>

\* multi_get, and the exact order of what it finds.
Fetch(s) ==
  /\ op[s].pc = "fetch"
  /\ op' = [op EXCEPT ![s].pc = "done", ![s].answer = op[s].hits \cap Present(View(s))]
  /\ UNCHANGED <<rows, count, txn, cache, disk, late, lock, times, work, hist, env>>

End(s) ==
  /\ op[s].pc = "done"
  /\ op' = [op EXCEPT ![s] = Idle]
  /\ UNCHANGED <<rows, count, txn, cache, disk, late, lock, times, work, hist, env>>

Querying(s) == op[s].pc \in {"fast", "lock", "scan", "reconcile", "persist", "search", "fetch"}

Released(s) == IF lock = s THEN Free ELSE lock

\* The query times out at an await: it is dropped, and its lock with it; a snapshot
\* being written is still written.
Timeout(s) ==
  /\ Querying(s) /\ op[s].pc # "reconcile" /\ Count("timeout")
  /\ lock' = Released(s)
  /\ late' = IF op[s].pc = "persist" THEN late \cup {op[s].built} ELSE late
  /\ op' = [op EXCEPT ![s] = Idle]
  /\ hist' = [hist EXCEPT !.quit = TRUE]
  /\ UNCHANGED <<rows, count, txn, cache, disk, times, work>>

WriteLate ==
  /\ \E ix \in late : late' = late \ {ix} /\ disk' \in {disk, ix, NoIndex}
  /\ UNCHANGED <<rows, count, txn, cache, lock, op, times, work, hist, env>>

\* The process restarts: the table and the snapshot on disk remain.
Restart ==
  /\ Count("restart")
  /\ txn' = [s \in Session |-> NoTxn]
  /\ cache' = NoIndex
  /\ late' = {}
  /\ lock' = Free
  /\ op' = [s \in Session |-> Idle]
  /\ work' = [c \in DOMAIN work |-> 0]
  /\ UNCHANGED <<rows, count, disk, times, hist>>

----------------------------------------------------------------------------
Init ==
  /\ rows = Initial /\ count = 0
  /\ txn = [s \in Session |-> NoTxn]
  /\ cache = NoIndex /\ disk = NoIndex /\ late = {}
  /\ lock = Free
  /\ op = [s \in Session |-> Idle]
  /\ times = [c \in 0..MaxWrite |-> IF c = 0 THEN 1 ELSE 0]
  /\ work = [c \in 0..MaxWrite |-> 0]
  /\ hist = [lost |-> FALSE, begun |-> FALSE, quit |-> FALSE]
  /\ env \in Workload

QueryStep(s) ==
  \/ FastPath(s) \/ TakeLock(s) \/ Scan(s) \/ Reconcile(s) \/ Persist(s)
  \/ Search(s) \/ Fetch(s) \/ End(s)

Next ==
  \/ \E s \in Session :
       \/ Ask(s) \/ QueryStep(s) \/ Timeout(s)
       \/ Write(s) \/ Begin(s) \/ Commit(s) \/ Rollback(s)
       \/ \E c \in Change : ReadCounter(s, c) \/ Stage(s, c)
  \/ WriteLate \/ Restart

Spec == Init /\ [][Next]_vars

\* A runnable task is run.
FairSpec == Spec /\ \A s \in Session : WF_vars(QueryStep(s))

----------------------------------------------------------------------------
(* Properties *)

Index == [on : {TRUE}, count : 0..MaxWrite, live : SUBSET (Key \X Vec), dead : [Vec -> Nat]]

TypeOK ==
  /\ rows \in Contents /\ count \in 0..MaxWrite
  /\ cache \in Index \cup {NoIndex} /\ disk \in Index \cup {NoIndex}
  /\ lock \in Session \cup {Free}
  /\ \A s \in Session :
       /\ lock = s <=> op[s].pc \in {"scan", "reconcile", "persist"}
       /\ txn[s].open => txn[s].rows \in Contents /\ txn[s].count \in 0..MaxWrite

\* An index that carries the table's count holds exactly the table's vectors, each row
\* once, through writes during the scan, queries given up half way, a snapshot written
\* late, corrupted or reloaded after a restart, and graphs built in a transaction that
\* is rolled back; provided no two writers gave out that count and no scan lost rows.
FreshIsExact ==
  (Fresh(count) /\ times[count] = 1 /\ ~hist.lost) => cache.live = Live(rows)

Undisturbed(s) == op[s].since = <<rows, times>> /\ times[ViewCount(s)] = 1 /\ ~hist.lost
Nearest(r, S) ==
  /\ S \subseteq Present(r) /\ Cardinality(S) = Min({K, Cardinality(Present(r))})
  /\ \A k \in S, j \in Present(r) \ S : Distance(r[k]) <= Distance(r[j])

\* A query during which nothing is written answers the k nearest rows as its session
\* sees them, whoever built the graph and however it was patched since; while the graph
\* it searches carries its count and has no more dead nodes than the search absorbs.
AnswerIsNearest ==
  \A s \in Session :
    (op[s].pc = "fetch" /\ Undisturbed(s) /\ op[s].built.count = ViewCount(s)
       /\ Tombstones(op[s].built) <= K * Overfetch)
      => Nearest(View(s), op[s].hits)

\* Queries that find the index stale share one reconcile for each count that was given
\* out, unless a query was given up or reads in a transaction.
SharedReconcile ==
  (~hist.begun /\ ~hist.quit) =>
    \A c \in DOMAIN work : work[c] <= times[c]

\* Every query ends, also one that waits for a builder that is given up.
EveryQueryEnds == \A s \in Session : Querying(s) ~> ~Querying(s)

----------------------------------------------------------------------------
(* What the documentation says and the code does not do *)

\* docs/sql/vector-search.md: changes are "all handled correctly": an index that
\* carries the table's count holds the table's vectors.
FreshIsCurrent == Fresh(count) => cache.live = Live(rows)

\* vindex.rs, search_keys: the search absorbs dead nodes and still returns k rows.
StillReturnsK ==
  \A s \in Session : op[s].pc = "fetch" =>
    Cardinality(op[s].hits) = Min({K, Cardinality(op[s].built.live)})

\* vindex.rs, get: a query gets a fresh index; outside transactions, with nothing written
\* meanwhile, it answers the nearest rows of the table.
FreshIndexIsSearched ==
  \A s \in Session :
    (op[s].pc = "fetch" /\ Undisturbed(s) /\ ~txn[s].open
       /\ Tombstones(op[s].built) <= K * Overfetch)
      => Nearest(rows, op[s].hits)
=============================================================================
