----------------------------- MODULE TableLocks -----------------------------
(***************************************************************************)
(* Pessimistic table locks: the lock manager of crates/elyra-engine/src/   *)
(* lockmgr.rs, LOCK TABLES, FLUSH TABLES WITH READ LOCK and UNLOCK TABLES  *)
(* (lib.rs, session.rs), and the locks a statement takes for its own       *)
(* duration while any session holds an explicit one (lib.rs,               *)
(* run_statements), its trigger body included.                             *)
(*                                                                         *)
(* A step ends where another thread may come between: after the manager's  *)
(* mutex is released, before the counter of explicit locks changes, and    *)
(* between a failed attempt and the registration with Notify, which wakes  *)
(* only those already registered.  Table names are numbers in name order.  *)
(***************************************************************************)
EXTENDS Integers, Sequences, FiniteSets, SequencesExt

CONSTANTS
  Session,
  Table,
  Command,     \* what sessions run: statements, LOCK TABLES, FLUSH, UNLOCK
  NoBody,      \* no trigger body
  MaxRounds,   \* rounds of waiting (POLL_CAP each, at most) up to the deadline
  MaxCommand,  \* bound on commands started
  MaxCancel    \* bound on statements cut off by the query timeout

ASSUME TableAssumption == Table \subseteq Nat /\ IsFiniteSet(Table)
ASSUME BoundAssumption == MaxRounds \in Nat

VARIABLES
  readers, writer, \* LockManager.tables
  explicit,        \* LockManager.explicit
  pc,              \* where a session's command is
  cmd,             \* the command, and whether its trigger body is running
  want,            \* locks still to take, in order
  got,             \* guards taken for the command
  held,            \* Session.held_locks
  global,          \* Session.global_read_lock
  dropping,        \* guards being dropped, then what follows
  rounds,          \* rounds of the wait under way
  before,          \* history: the sessions whose LOCK TABLES had been answered, and
                   \* still holds, when the statement passed the gate
  started, cancels \* the environment

mgr == <<readers, writer, explicit>>
own == <<cmd, want, got, held, global, dropping, rounds>>
env == <<before, started, cancels>>
vars == <<mgr, pc, own, env>>

Shared == "shared"
Exclusive == "exclusive"
Lock(t, m) == [table |-> t, mode |-> m]
Guard == [table : Table, mode : {Shared, Exclusive}]
Tables(q) == {l.table : l \in ToSet(q)}

\* A statement uses tables, perhaps from a trigger body too.  LOCK TABLES and FLUSH name
\* tables in name order, each once; FLUSH names all of them.
Statement(body) ==
  [kind : {"stmt"}, writes : SUBSET Table, reads : SUBSET Table, dml : BOOLEAN,
   body : body, inBody : {FALSE}]
Ascending(q) == \A i, j \in DOMAIN q : i < j => q[i].table < q[j].table
ASSUME CommandAssumption ==
  \A c \in Command :
    \/ c \in Statement({NoBody} \cup Statement({NoBody}))
    \/ /\ c \in [kind : {"lock"}, locks : Seq(Guard), global : BOOLEAN]
       /\ Ascending(c.locks) /\ (c.global => Tables(c.locks) = Table)

----------------------------------------------------------------------------
(* lockmgr.rs *)

Free(l) == ~writer[l.table] /\ (l.mode = Exclusive => readers[l.table] = 0)

\* try_take, when it succeeds.
Take(l) ==
  /\ readers' = IF l.mode = Shared THEN [readers EXCEPT ![l.table] = @ + 1] ELSE readers
  /\ writer' = IF l.mode = Exclusive THEN [writer EXCEPT ![l.table] = TRUE] ELSE writer

\* Mutant: the last reader to leave clears the writer too.
GiveBack_ClearsEntry(l) ==
  /\ readers' = IF l.mode = Shared THEN [readers EXCEPT ![l.table] = 0] ELSE readers
  /\ writer' = IF l.mode = Exclusive THEN [writer EXCEPT ![l.table] = FALSE] ELSE writer

\* give_back: the count never goes below zero.
GiveBack(l) ==
  /\ readers' = IF l.mode = Shared /\ readers[l.table] > 0
                THEN [readers EXCEPT ![l.table] = @ - 1] ELSE readers
  /\ writer' = IF l.mode = Exclusive THEN [writer EXCEPT ![l.table] = FALSE] ELSE writer

\* notify_waiters: those that wait try again.
Notified(s) ==
  [r \in Session |-> IF r = s THEN "drop" ELSE IF pc[r] = "parked" THEN "take" ELSE pc[r]]

\* The deadline has passed.
TimedOut(s) == rounds[s] >= MaxRounds

\* Take the next lock.  An explicit one is counted in a step of its own.
TryTake(s) ==
  /\ pc[s] = "take" /\ want[s] # << >>
  /\ LET l == Head(want[s]) IN
     IF Free(l)
     THEN /\ Take(l)
          /\ got' = [got EXCEPT ![s] = Append(@, l)]
          /\ want' = [want EXCEPT ![s] = Tail(@)]
          /\ rounds' = [rounds EXCEPT ![s] = 0]
          /\ pc' = [pc EXCEPT ![s] = IF cmd[s].kind = "lock" THEN "count" ELSE "take"]
          /\ UNCHANGED <<dropping>>
     ELSE /\ IF TimedOut(s)
             THEN /\ pc' = [pc EXCEPT ![s] = "drop"]
                  /\ dropping' = [dropping EXCEPT ![s] = got[s]]
                  /\ got' = [got EXCEPT ![s] = << >>]
                  /\ want' = [want EXCEPT ![s] = << >>]
                  /\ rounds' = [rounds EXCEPT ![s] = 0]
             ELSE /\ pc' = [pc EXCEPT ![s] = "parking"]
                  /\ UNCHANGED <<dropping, got, want, rounds>>
          /\ UNCHANGED <<readers, writer>>
  /\ UNCHANGED <<explicit, cmd, held, global, env>>

Count(s) ==
  /\ pc[s] = "count"
  /\ explicit' = explicit + 1
  /\ pc' = [pc EXCEPT ![s] = "take"]
  /\ UNCHANGED <<readers, writer, own, env>>

\* The wait registers with Notify; a wakeup before that is missed.
Park(s) ==
  /\ pc[s] = "parking"
  /\ pc' = [pc EXCEPT ![s] = "parked"]
  /\ rounds' = [rounds EXCEPT ![s] = @ + 1]
  /\ UNCHANGED <<mgr, cmd, want, got, held, global, dropping, env>>

\* Mutant: only a wakeup ends the wait.
Poll_Never(s) == pc[s] = "parked" /\ FALSE /\ UNCHANGED vars

\* The sleep of the select ends.
Poll(s) ==
  /\ pc[s] = "parked"
  /\ pc' = [pc EXCEPT ![s] = "take"]
  /\ UNCHANGED <<mgr, own, env>>

\* An explicit guard counts down after it gave the lock back.
Uncounts(s) == cmd[s].kind # "stmt"

\* Drop for LockGuard: give the lock back, wake the waiters, count.
DropGuard(s) ==
  /\ pc[s] = "drop" /\ dropping[s] # << >>
  /\ GiveBack(Head(dropping[s]))
  /\ dropping' = [dropping EXCEPT ![s] = Tail(@)]
  /\ pc' = [Notified(s) EXCEPT ![s] = IF Uncounts(s) THEN "uncount" ELSE "drop"]
  /\ UNCHANGED <<explicit, cmd, want, got, held, global, rounds, env>>

Uncount(s) ==
  /\ pc[s] = "uncount"
  /\ explicit' = explicit - 1
  /\ pc' = [pc EXCEPT ![s] = "drop"]
  /\ UNCHANGED <<readers, writer, own, env>>

\* Nothing left to drop: LOCK TABLES goes on with its own locks, the rest is done.
Dropped(s) ==
  /\ pc[s] = "drop" /\ dropping[s] = << >>
  /\ pc' = [pc EXCEPT ![s] = IF want[s] # << >> THEN "take" ELSE "idle"]
  /\ UNCHANGED <<mgr, own, env>>

----------------------------------------------------------------------------
(* Statements, lib.rs *)

Access(s) == IF cmd[s].inBody THEN cmd[s].body ELSE cmd[s]
HeldOn(s, t) == {l \in ToSet(held[s]) : l.table = t}
HoldsTableLocks(s) == held[s] # << >> /\ ~global[s]

\* check_own_locks: under FLUSH ... WITH READ LOCK only reads, under LOCK TABLES only
\* what is locked, and written only what is locked WRITE; not for DDL or a body.
MayUse(s) ==
  LET x == Access(s) IN
  /\ global[s] => x.writes = {}
  /\ (HoldsTableLocks(s) /\ x.dml /\ ~cmd[s].inBody) =>
       /\ \A t \in x.writes : Lock(t, Exclusive) \in HeldOn(s, t)
       /\ \A t \in x.reads : HeldOn(s, t) # {}

\* In name order, and the strongest mode for each table.
InOrder(f) ==
  LET Rank(t) == Cardinality({u \in DOMAIN f : u <= t})
      Nth(i) == CHOOSE t \in DOMAIN f : Rank(t) = i
  IN  [i \in 1..Cardinality(DOMAIN f) |-> Lock(Nth(i), f[Nth(i)])]

\* Mutant: the tables written first.
TransientLocks_WritesFirst(s) ==
  LET x == Access(s)
      Part(T, m) == InOrder([t \in {t \in T : HeldOn(s, t) = {}} |-> m])
  IN  Part(x.writes, Exclusive) \o Part(x.reads \ x.writes, Shared)

TransientLocks(s) ==
  LET x == Access(s)
      T == {t \in x.writes \cup x.reads : HeldOn(s, t) = {}}
  IN  InOrder([t \in T |-> IF t \in x.writes THEN Exclusive ELSE Shared])

StartStatement(s, c) ==
  /\ pc[s] = "idle" /\ c.kind = "stmt"
  /\ cmd' = [cmd EXCEPT ![s] = c]
  /\ pc' = [pc EXCEPT ![s] = "gate"]
  /\ started' = started + 1
  /\ UNCHANGED <<mgr, want, got, held, global, dropping, rounds, before, cancels>>

\* Mutant: a session with locks of its own is let through.
Open_OwnLocks(s) == explicit = 0 \/ held[s] # << >>

\* explicit_active is false: no locks are taken.
Open(s) == explicit = 0

\* The gate: skipped, refused, or on to the locks.
Gate(s) ==
  /\ pc[s] = "gate"
  /\ before' = [before EXCEPT ![s] = {r \in Session \ {s} : held[r] # << >>}]
  /\ \/ /\ Open(s)
        /\ pc' = [pc EXCEPT ![s] = "run"]
        /\ UNCHANGED <<want, got, dropping>>
     \/ /\ ~Open(s) /\ MayUse(s)
        /\ want' = [want EXCEPT ![s] = TransientLocks(s)]
        /\ pc' = [pc EXCEPT ![s] = "take"]
        /\ UNCHANGED <<got, dropping>>
     \/ /\ ~Open(s) /\ ~MayUse(s)
        /\ dropping' = [dropping EXCEPT ![s] = got[s]]
        /\ got' = [got EXCEPT ![s] = << >>]
        /\ pc' = [pc EXCEPT ![s] = "drop"]
        /\ UNCHANGED want
  /\ UNCHANGED <<mgr, cmd, held, global, rounds, started, cancels>>

Granted(s) ==
  /\ pc[s] = "take" /\ want[s] = << >> /\ cmd[s].kind = "stmt"
  /\ pc' = [pc EXCEPT ![s] = "run"]
  /\ UNCHANGED <<mgr, own, env>>

\* execute_stmt ends by running the trigger bodies, under the locks still held; then
\* the guards are dropped, the body's first.
Run(s) ==
  /\ pc[s] = "run"
  /\ IF cmd[s].body # NoBody /\ ~cmd[s].inBody
     THEN /\ cmd' = [cmd EXCEPT ![s].inBody = TRUE]
          /\ pc' = [pc EXCEPT ![s] = "gate"]
          /\ UNCHANGED <<dropping, got>>
     ELSE /\ dropping' = [dropping EXCEPT ![s] = Reverse(got[s])]
          /\ got' = [got EXCEPT ![s] = << >>]
          /\ pc' = [pc EXCEPT ![s] = "drop"]
          /\ UNCHANGED cmd
  /\ UNCHANGED <<mgr, want, held, global, rounds, env>>

\* The query timeout drops the command where it waits, and with it its guards.
Cancel(s) ==
  /\ pc[s] \in {"parked", "run"} /\ cancels < MaxCancel
  /\ cancels' = cancels + 1
  /\ dropping' = [dropping EXCEPT ![s] = got[s]]
  /\ got' = [got EXCEPT ![s] = << >>]
  /\ want' = [want EXCEPT ![s] = << >>]
  /\ rounds' = [rounds EXCEPT ![s] = 0]
  /\ pc' = [pc EXCEPT ![s] = "drop"]
  /\ UNCHANGED <<mgr, cmd, held, global, before, started>>

----------------------------------------------------------------------------
(* LOCK TABLES, FLUSH TABLES WITH READ LOCK, UNLOCK TABLES *)

\* What the session holds is released first; UNLOCK TABLES, and the end of the
\* connection, lock nothing.
StartLock(s, c) ==
  /\ pc[s] = "idle" /\ c.kind = "lock"
  /\ cmd' = [cmd EXCEPT ![s] = c]
  /\ want' = [want EXCEPT ![s] = c.locks]
  /\ dropping' = [dropping EXCEPT ![s] = held[s]]
  /\ held' = [held EXCEPT ![s] = << >>]
  /\ global' = [global EXCEPT ![s] = FALSE]
  /\ before' = [r \in Session |-> before[r] \ {s}]
  /\ pc' = [pc EXCEPT ![s] = "drop"]
  /\ started' = started + 1
  /\ UNCHANGED <<mgr, got, rounds, cancels>>

\* Every lock is taken: answered.
Locked(s) ==
  /\ pc[s] = "take" /\ want[s] = << >> /\ cmd[s].kind = "lock"
  /\ held' = [held EXCEPT ![s] = got[s]]
  /\ got' = [got EXCEPT ![s] = << >>]
  /\ global' = [global EXCEPT ![s] = cmd[s].global]
  /\ pc' = [pc EXCEPT ![s] = "idle"]
  /\ UNCHANGED <<mgr, cmd, want, dropping, rounds, env>>

----------------------------------------------------------------------------
Init ==
  /\ readers = [t \in Table |-> 0] /\ writer = [t \in Table |-> FALSE]
  /\ explicit = 0
  /\ pc = [s \in Session |-> "idle"]
  /\ cmd \in [Session -> {c \in Command : c.kind = "lock" /\ c.locks = << >>}]
  /\ want = [s \in Session |-> << >>] /\ got = [s \in Session |-> << >>]
  /\ held = [s \in Session |-> << >>] /\ global = [s \in Session |-> FALSE]
  /\ dropping = [s \in Session |-> << >>] /\ rounds = [s \in Session |-> 0]
  /\ before = [s \in Session |-> {}]
  /\ started = 0 /\ cancels = 0

\* What a session does by itself once it has a command.
Step(s) ==
  \/ Gate(s) \/ TryTake(s) \/ Count(s) \/ Park(s) \/ Poll(s) \/ Granted(s) \/ Run(s)
  \/ Locked(s) \/ DropGuard(s) \/ Uncount(s) \/ Dropped(s)

Start(s, c) == started < MaxCommand /\ (StartStatement(s, c) \/ StartLock(s, c))

Next == \E s \in Session : Step(s) \/ Cancel(s) \/ \E c \in Command : Start(s, c)

\* A started command is scheduled: statements end, the runtime polls its timers.
\* Nothing makes a session unlock.
Spec == Init /\ [][Next]_vars /\ \A s \in Session : WF_vars(Step(s))

----------------------------------------------------------------------------
(* Properties *)

TypeOK ==
  /\ readers \in [Table -> Nat] /\ writer \in [Table -> BOOLEAN] /\ explicit \in Nat
  /\ pc \in [Session -> {"idle", "gate", "take", "count", "parking", "parked", "run", "drop",
                         "uncount"}]
  /\ \A s \in Session :
       \A q \in {want[s], got[s], held[s], dropping[s]} : ToSet(q) \subseteq Guard
  /\ global \in [Session -> BOOLEAN] /\ rounds \in [Session -> 0..MaxRounds]
  /\ before \in [Session -> SUBSET Session]

\* The guards of a session that still stand for a lock.
Guards(s) == ToSet(got[s]) \cup ToSet(held[s]) \cup ToSet(dropping[s])
Conflict(l, k) == l.table = k.table /\ (l.mode = Exclusive \/ k.mode = Exclusive)

\* Whatever the order in which guards are taken, dropped one by one, cut off and given
\* back, no two sessions hold guards that conflict.
Exclusion ==
  \A s, r \in Session : s # r =>
    \A l \in Guards(s), k \in Guards(r) : ~Conflict(l, k)

Uses(s) ==
  {Lock(t, Exclusive) : t \in Access(s).writes} \cup {Lock(t, Shared) : t \in Access(s).reads}

\* Locks that bind a running statement: taken before it passed the gate and held since.
Binding(s) == UNION {ToSet(held[r]) : r \in before[s]}

\* A statement that passed the gate after another session's LOCK TABLES or FLUSH
\* TABLES WITH READ LOCK was answered never runs against it: it has waited, or has
\* been refused.  Only a table the session has itself locked READ and uses from a
\* trigger body or DDL is not covered.
LockHonoured ==
  \A s \in Session : pc[s] = "run" =>
    \A u \in Uses(s), l \in Binding(s) :
      Conflict(u, l) => HeldOn(s, u.table) # {} /\ (cmd[s].inBody \/ ~cmd[s].dml)

Waiting(s) == pc[s] \in {"parking", "parked"} /\ want[s] # << >>
WaitsFor(s, r) == \E l \in Guards(r) : Conflict(Head(want[s]), l)

\* Statements lock in name order and LOCK TABLES lets go of what it held, so sessions
\* never wait for each other in a circle, but for a trigger body, which waits under
\* its statement's locks, and DDL, which waits under the session's.
NoCyclicWait ==
  LET W == {s \in Session : Waiting(s) /\
              (cmd[s].kind = "stmt" => ~cmd[s].inBody /\ (cmd[s].dml \/ held[s] = << >>))}
  IN  \A C \in (SUBSET W) \ {{}} : \E s \in C : \A r \in C : ~WaitsFor(s, r)

\* Every command ends, granted, refused or timed out, even if a lock is never
\* released, two trigger bodies wait for each other, or a wakeup is missed between
\* the failed attempt and the registration.
EveryCommandEnds == \A s \in Session : pc[s] # "idle" ~> pc[s] = "idle"

----------------------------------------------------------------------------
(* What the comments say and the code does not do *)

\* lockmgr.rs:9: WRITE blocks all other readers and writers, READ blocks other
\* writers; so once LOCK TABLES is answered nobody else uses the table.
LockTablesExclusive ==
  \A s, r \in Session : s # r /\ pc[s] = "run" =>
    \A u \in Uses(s), l \in ToSet(held[r]) : ~Conflict(u, l)

\* lib.rs:2154: a statement waits for another session's lock, not for its own.
WaitsForOthers ==
  \A s \in Session : pc[s] = "parked" =>
    \E r \in Session \ {s} : pc[r] # "idle" \/ held[r] # << >>

\* The same as LockHonoured, for every statement.
LockHonouredByAll ==
  \A s \in Session : pc[s] = "run" =>
    \A u \in Uses(s), l \in Binding(s) : ~Conflict(u, l)
=============================================================================
