----------------------------- MODULE RaftApply ------------------------------
(***************************************************************************)
(* How one cluster node brings committed entries into its database         *)
(* (crates/elyra-server/src/cluster.rs and raftlog.rs).  The entries are   *)
(* taken under the log's lock, which moves last_applied past them, and     *)
(* submitted to the database's writer after it is released; then the log   *)
(* is compacted.  The main loop and each peer connection do this in a task *)
(* of their own.  last_applied is not saved: a restart begins again at the *)
(* snapshot boundary, over a database that has kept everything.            *)
(*                                                                         *)
(* Raft gives every node the same committed log and is modelled in Raft;   *)
(* here the log is a constant.  The writer runs jobs in the order they are *)
(* submitted (GroupCommit).                                                *)
(***************************************************************************)
EXTENDS Integers, Sequences, FiniteSets

CONSTANTS
  Task,      \* the main loop and the connections' handlers
  Key, Val,
  Absent,    \* no value
  Log,       \* the committed logs to try: sequences of operations
  MaxCrash   \* bound on crashes

\* A WriteOp: what must hold of the store (nothing for Plain, absent keys for
\* Insert, the snapshot's values for Validated), and what it then writes.
IsMap(f, K) == DOMAIN f \subseteq K /\ \A k \in DOMAIN f : f[k] \in Val \cup {Absent}
ASSUME LogAssumption ==
  \A l \in Log :
    /\ Len(l) \in Nat /\ DOMAIN l = 1..Len(l)
    /\ \A i \in DOMAIN l : IsMap(l[i].need, Key) /\ IsMap(l[i].write, Key)
ASSUME AbsentAssumption == Absent \notin Val
ASSUME CrashAssumption == MaxCrash \in Nat

VARIABLES
  log,                       \* the log
  db,                        \* the database
  commit, lastApplied, snap, \* RaftLog's cursors
  task,                      \* entries a task has taken and not yet submitted, the
                             \* compaction point its round carries
  crashes,                   \* the environment
  done,                      \* history: entries ever submitted
  since,                     \* history: how often each was since the last restart
  outcome,                   \* history: whether it was applied, then
  base,                      \* history: where the last restart began
  overlap                    \* history: a task took or compacted entries while
                             \* another had some to submit

vars == <<log, db, commit, lastApplied, snap, task, crashes, done, since, outcome, base,
          overlap>>

Idle == [st |-> "idle"]
Index == 1..Len(log)
Least(a, b) == IF a < b THEN a ELSE b
Most(a, b) == IF a > b THEN a ELSE b

----------------------------------------------------------------------------
Holds(state, op) == \A k \in DOMAIN op.need : state[k] = op.need[k]

\* apply_op_local.
ApplyOp(state, op) ==
  IF Holds(state, op)
  THEN [k \in Key |-> IF k \in DOMAIN op.write THEN op.write[k] ELSE state[k]] ELSE state

\* Mutant: the newest entry counts as not there yet.
AdvanceCommit_Below(c) == Most(commit, Least(c, Len(log) - 1))

\* advance_commit and maybe_commit: never back.
AdvanceCommit(c) == Most(commit, Least(c, Len(log)))

\* Mutant: the cursor moves when the entries are submitted.
Passed_Later(from, to) == from

\* take_applicable moves last_applied past the entries it hands out.
Passed(from, to) == Most(from, to)

Todo(t) == IF task[t] = Idle THEN << >> ELSE task[t].todo
Others(t) == {u \in Task \ {t} : Todo(u) # << >>}

\* on_append_entries or advance_commit_and_apply, under the log's lock: the commit
\* index moves up to c, the entries up to it are taken.
Take(t, c, compact) ==
  /\ task[t] = Idle
  /\ commit' = AdvanceCommit(c)
  /\ lastApplied' = Passed(lastApplied, commit')
  /\ task' = [task EXCEPT ![t] =
       [st |-> "busy", compact |-> compact,
        todo |-> [n \in 1..(commit' - lastApplied) |-> lastApplied + n]]]
  /\ overlap' = (overlap \/ (lastApplied' # lastApplied /\ Others(t) # {}))
  /\ UNCHANGED <<log, db, snap, crashes, done, since, outcome, base>>

\* Mutant: the newest entry first.
Submit_LastFirst(t) ==
  /\ Todo(t) # << >>
  /\ LET k == Todo(t)[Len(Todo(t))]
     IN  /\ db' = ApplyOp(db, log[k])
         /\ done' = done \cup {k}
         /\ since' = [since EXCEPT ![k] = @ + 1]
         /\ outcome' = [outcome EXCEPT ![k] = Holds(db, log[k])]
  /\ task' = [task EXCEPT ![t].todo = SubSeq(@, 1, Len(@) - 1)]
  /\ UNCHANGED <<log, commit, lastApplied, snap, crashes, base, overlap>>

\* join_all: the taken entries go to the writer in order.
Submit(t) ==
  /\ Todo(t) # << >>
  /\ LET k == Head(Todo(t))
     IN  /\ db' = ApplyOp(db, log[k])
         /\ done' = done \cup {k}
         /\ since' = [since EXCEPT ![k] = @ + 1]
         /\ outcome' = [outcome EXCEPT ![k] = Holds(db, log[k])]
  /\ task' = [task EXCEPT ![t].todo = Tail(@)]
  /\ UNCHANGED <<log, commit, lastApplied, snap, crashes, base, overlap>>

\* compact: up to what is applied, or not at all.
Compacted(c) == IF c > snap /\ c <= lastApplied THEN c ELSE snap

\* Every entry is in the database: compact, answer.
Finish(t) ==
  /\ task[t] # Idle /\ Todo(t) = << >>
  /\ snap' = Compacted(task[t].compact)
  /\ overlap' = (overlap \/ (snap' # snap /\ Others(t) # {}))
  /\ task' = [task EXCEPT ![t] = Idle]
  /\ UNCHANGED <<log, db, commit, lastApplied, crashes, done, since, outcome, base>>

\* RaftLog::open: the cursors start at the snapshot boundary.
Opened == snap

\* The process dies: what was taken and not submitted is gone.
Crash ==
  /\ crashes < MaxCrash
  /\ crashes' = crashes + 1
  /\ commit' = Opened /\ lastApplied' = Opened /\ base' = Opened
  /\ task' = [t \in Task |-> Idle]
  /\ since' = [k \in Index |-> 0]
  /\ UNCHANGED <<log, db, snap, done, outcome, overlap>>

----------------------------------------------------------------------------
Init ==
  /\ log \in Log
  /\ db = [k \in Key |-> Absent]
  /\ commit = 0 /\ lastApplied = 0 /\ snap = 0 /\ base = 0
  /\ task = [t \in Task |-> Idle]
  /\ crashes = 0
  /\ done = {}
  /\ since = [k \in Index |-> 0]
  /\ outcome = [k \in Index |-> FALSE]
  /\ overlap = FALSE

Next ==
  \/ \E t \in Task : (\E c, x \in 0..Len(log) : Take(t, c, x)) \/ Submit(t) \/ Finish(t)
  \/ Crash

Spec == Init /\ [][Next]_vars

\* Tasks that have taken entries are scheduled.  A leader sends its commit index every
\* HEARTBEAT_MS, so rounds that carry all of it keep coming, whatever late ones with
\* less come between.
FairSpec ==
  /\ Spec
  /\ \A t \in Task : WF_vars(Submit(t)) /\ WF_vars(Finish(t))
  /\ SF_vars(\E t \in Task, x \in 0..Len(log) : Take(t, Len(log), x))

----------------------------------------------------------------------------
(* Properties *)

TypeOK ==
  /\ db \in [Key -> Val \cup {Absent}]
  /\ snap <= lastApplied /\ lastApplied <= commit /\ commit <= Len(log)
  /\ done \subseteq Index /\ since \in [Index -> Nat] /\ outcome \in [Index -> BOOLEAN]
  /\ overlap \in BOOLEAN

\* The log up to n, applied once and in order.
Replay ==
  LET f[n \in 0..Len(log)] ==
        IF n = 0 THEN [k \in Key |-> Absent] ELSE ApplyOp(f[n - 1], log[n])
  IN  f

Quiet == \A t \in Task : task[t] = Idle
Unconditional == \A k \in Index : DOMAIN log[k].need = {}

\* However the main loop and the handlers race for them, an entry is handed to one
\* task only, and none is passed over: between restarts each is submitted once, and
\* when all tasks are done everything up to last_applied has been.
AppliedOnce ==
  /\ \A k \in Index : since[k] <= 1
  /\ Quiet => \A k \in base + 1..lastApplied : since[k] = 1

\* A node whose tasks never applied at the same time, and that has applied everything
\* it ever applied, holds what the log says, and told its clients the outcomes the log
\* gives; after a restart, which applies entries again, only for a log without
\* conditions and for the state alone.
InOrderIsReplay ==
  (Quiet /\ ~overlap /\ done \subseteq 1..lastApplied /\ (crashes = 0 \/ Unconditional))
  => /\ db = Replay[lastApplied]
     /\ crashes = 0 => \A k \in 1..lastApplied : outcome[k] = Holds(Replay[k - 1], log[k])

\* Every committed entry gets into the database, whatever crashes on the way, as long
\* as tasks do not overlap.
EventuallyApplied == <>[](overlap \/ done = Index)

----------------------------------------------------------------------------
(* What the comments say and the code does not do *)

\* cluster.rs:861: apply in log order, so that every node holds the same state.
NodeIsReplay ==
  (Quiet /\ crashes = 0) => db = Replay[lastApplied]

\* raftlog.rs:71: re-applying the committed prefix is idempotent for the final state.
ReapplyIsIdempotent ==
  (Quiet /\ ~overlap /\ done \subseteq 1..lastApplied) => db = Replay[lastApplied]

\* raftlog.rs:104: never compacts past what has been applied.
CompactsApplied == 1..snap \subseteq done
=============================================================================
