---------------------------- MODULE GroupCommit -----------------------------
(***************************************************************************)
(* The write path of one database: callers of Db::commit, commit_validated *)
(* and commit_insert (crates/elyra-storage/src/db.rs), the queue, the      *)
(* writer thread that folds what it finds there into one transaction, the  *)
(* storage operations it uses (lib.rs), the write sequence and the schema  *)
(* generation they maintain, the binary log, and a session that reads a    *)
(* schema key through the cache of crates/elyra-engine/src/schemacache.rs. *)
(* A client has one job at a time, so jobs are named by their client.  The *)
(* binary log is on (serve --binlog).                                      *)
(*                                                                         *)
(* The page store below (redb) is external: a transaction commits whole or *)
(* not at all, readers see committed states, and, with the default         *)
(* durability, what is committed survives a crash of the process.          *)
(***************************************************************************)
EXTENDS Binlog, FiniteSets

CONSTANTS
  Client, Key, Val, Absent, NoJob, NoClient,
  SchemaKey,    \* keys under SCHEMA_PREFIXES
  CachedKey,    \* the one of them a session reads through its cache
  Template,     \* the jobs clients submit
  GroupMax,     \* GROUP_COMMIT_MAX
  QueueDepth,   \* WRITE_QUEUE_DEPTH
  MaxJob,       \* bound on jobs submitted
  MaxFault,     \* bound on failing storage calls
  MaxCrash      \* bound on crashes

ASSUME KeysAssumption == CachedKey \in SchemaKey /\ SchemaKey \subseteq Key
ASSUME AbsentAssumption == Absent \notin Val
ASSUME NoClientAssumption == NoClient \notin Client
ASSUME LimitsAssumption == GroupMax \in Nat \ {0} /\ QueueDepth \in Nat \ {0}

Kind == {"plain", "insert", "validated"}
Row == [key : Key, val : Val]
Pairs == UNION {[D -> Val] : D \in SUBSET Key}

\* What submit and submit_insert fill in: only an insert has new keys, only a
\* validated job has something to validate.
ASSUME TemplateAssumption ==
  \A t \in Template :
    /\ t.kind \in Kind /\ t.new \in Seq(Row) /\ t.puts \in Pairs /\ t.deletes \subseteq Key
    /\ t.reads \subseteq Key /\ t.scans \subseteq SUBSET Key
    /\ t.kind # "insert" => t.new = << >>
    /\ t.kind # "validated" => t.reads = {} /\ t.scans = {}

\* WriteJob: the values of the keys read and the content of the ranges scanned come
\* with the job.
Job ==
  {j \in [kind : Kind, new : Seq(Row), puts : Pairs, deletes : SUBSET Key,
          keys : UNION {[D -> Val \cup {Absent}] : D \in SUBSET Key},
          ranges : SUBSET [range : SUBSET Key, content : Pairs]] :
     /\ j.kind # "insert" => j.new = << >>
     /\ j.kind # "validated" => DOMAIN j.keys = {} /\ j.ranges = {}
     /\ \A r \in j.ranges : DOMAIN r.content \subseteq r.range}

ASSUME NoJobAssumption == NoJob \notin Job

\* A record of the binary log.
Logged == [lsn : Nat, puts : Pairs, deletes : SUBSET Key]
ASSUME TornAssumption == Torn \notin Logged

VARIABLES
  \* Storage: the committed keys and the write sequence committed with them, the
  \* last sequence handed out, and SCHEMA_GEN
  store, wseq, wseqLast, schemaGen,
  \* Db.writer and the locals of writer_loop: the queue, the carried job, the group
  \* and its results, and where the thread is
  queue, carry, group, results, at,
  \* Repl: the LSN counter and the binary log
  lsn, binlog,
  \* the clients: a snapshot a transaction reads, the job submitted, the last answer
  snap, job, reply,
  \* schemacache::get in one session: the generation loaded by a read under way
  \* (-1 if none), and the cached entry
  loading, cache,
  \* the environment: jobs, faults and crashes so far
  jobs, faults, crashes,
  \* history: the states committed, each with its write sequence
  states

storeVars == <<store, wseq, wseqLast, states>>
loopVars == <<queue, carry, group, results, at>>
replVars == <<lsn, binlog>>
clientVars == <<snap, job, reply>>
cacheVars == <<loading, cache>>
envVars == <<jobs, faults, crashes>>
vars == <<storeVars, schemaGen, loopVars, replVars, clientVars, cacheVars, envVars>>

NoSnap == << >>
NoEntry == [gen |-> -1, val |-> Absent]
Empty == [k \in Key |-> Absent]

----------------------------------------------------------------------------
(* Storage, lib.rs *)

Remove(s, D) == [k \in Key |-> IF k \in D THEN Absent ELSE s[k]]
Insert(s, kv) == [s EXCEPT ![kv.key] = kv.val]
Put(s, f) == [k \in Key |-> IF k \in DOMAIN f THEN f[k] ELSE s[k]]

\* The keys and values a transaction finds in a range.
Content(s, R) == [k \in {k \in R : s[k] # Absent} |-> s[k]]

\* The checks of apply_validated and of one job of apply_validated_batch.
Validates(s, j) ==
  /\ \A k \in DOMAIN j.keys : s[k] = j.keys[k]
  /\ \A r \in j.ranges : Content(s, r.range) = r.content

\* The check of one job of apply_jobs: a new key is there and not among the job's
\* own deletes, or was seen already.
Duplicate(s, j) ==
  \E n \in 1..Len(j.new) :
    \/ j.new[n].key \notin j.deletes /\ s[j.new[n].key] # Absent
    \/ j.new[n].key \in {j.new[m].key : m \in 1..n-1}

\* The new keys, in turn.
Inserted(s, new) ==
  LET f[n \in 0..Len(new)] == IF n = 0 THEN s ELSE Insert(f[n - 1], new[n])
  IN  f

\* Deletes, then new keys, then puts.
Written(s, j) == Put(Inserted(Remove(s, j.deletes), j.new)[Len(j.new)], j.puts)

\* apply_insert on its own: an insert that replaces something fails.
InsertReplaces(s, j) ==
  LET f == Inserted(Remove(s, j.deletes), j.new)
  IN  \E n \in 1..Len(j.new) : f[n - 1][j.new[n].key] # Absent

IsValidated(j) == j.kind = "validated"

\* What a job of a group meets when the transaction has come to state s.
Outcome(s, j) ==
  IF IsValidated(j) THEN IF Validates(s, j) THEN "ok" ELSE "conflict"
  ELSE IF j.kind = "insert" /\ Duplicate(s, j) THEN "duplicate" ELSE "ok"

\* apply_validated, apply_insert and apply, for a job that is alone.
OutcomeAlone(s, j) ==
  IF IsValidated(j) THEN IF Validates(s, j) THEN "ok" ELSE "conflict"
  ELSE IF j.kind = "insert" /\ InsertReplaces(s, j) THEN "duplicate" ELSE "ok"

\* Mutant: every job of the group is checked against the state before the group.
GroupStates_Before(s, js) ==
  LET f[n \in 0..Len(js)] ==
        IF n = 0 THEN s
        ELSE IF Outcome(s, js[n]) = "ok" THEN Written(f[n - 1], js[n]) ELSE f[n - 1]
  IN  f

\* Mutant: the group is merged, every delete before every put.
GroupStates_Merged(s, js) ==
  LET s0 == Remove(s, UNION {js[n].deletes : n \in 1..Len(js)})
      f[n \in 0..Len(js)] ==
        IF n = 0 THEN s
        ELSE Written(IF n = 1 THEN s0 ELSE f[n - 1], [js[n] EXCEPT !.deletes = {}])
  IN  f

\* apply_jobs and apply_validated_batch: the states the transaction goes through.
GroupStates(s, js) ==
  LET f[n \in 0..Len(js)] ==
        IF n = 0 THEN s
        ELSE IF Outcome(f[n - 1], js[n]) = "ok" THEN Written(f[n - 1], js[n])
        ELSE f[n - 1]
  IN  f

\* Mutant: only puts count.
TouchesSchema_Puts(j) == DOMAIN j.puts \cap SchemaKey # {}

\* touches_schema over a job's keys.
TouchesSchema(j) ==
  (DOMAIN j.puts \cup j.deletes \cup {j.new[n].key : n \in 1..Len(j.new)}) \cap SchemaKey # {}

----------------------------------------------------------------------------
Init ==
  /\ store = Empty /\ wseq = 0 /\ wseqLast = 0 /\ states = {<<0, Empty>>}
  /\ schemaGen = 1
  /\ queue = << >> /\ carry = NoClient /\ group = << >> /\ results = << >> /\ at = "recv"
  /\ lsn = 0 /\ binlog = OpenSegment(<< >>)
  /\ snap = [c \in Client |-> NoSnap]
  /\ job = [c \in Client |-> NoJob]
  /\ reply = [c \in Client |-> "none"]
  /\ loading = -1 /\ cache = NoEntry
  /\ jobs = 0 /\ faults = 0 /\ crashes = 0

(* The clients *)

\* Db::snapshot, for a transaction.
Begin(c) ==
  /\ job[c] = NoJob /\ snap[c] = NoSnap /\ jobs < MaxJob
  /\ snap' = [snap EXCEPT ![c] = store]
  /\ UNCHANGED <<storeVars, schemaGen, loopVars, replVars, job, reply, cacheVars, envVars>>

\* The job a client makes of a template: a transaction brings the values it read.
JobOf(t, s) ==
  [kind |-> t.kind, new |-> t.new, puts |-> t.puts, deletes |-> t.deletes,
   keys |-> [k \in t.reads |-> s[k]],
   ranges |-> {[range |-> R, content |-> Content(s, R)] : R \in t.scans}]

\* submit, submit_insert: sends to a full queue wait.
Submit(c) ==
  /\ job[c] = NoJob /\ jobs < MaxJob /\ Len(queue) < QueueDepth
  /\ \E t \in Template :
       /\ (t.kind = "validated") = (snap[c] # NoSnap)
       /\ job' = [job EXCEPT ![c] = JobOf(t, snap[c])]
  /\ snap' = [snap EXCEPT ![c] = NoSnap]
  /\ queue' = Append(queue, c)
  /\ jobs' = jobs + 1
  /\ UNCHANGED <<storeVars, schemaGen, carry, group, results, at, replVars, reply,
                 cacheVars, faults, crashes>>

(* writer_loop *)

\* Take the carried job, or wait for one.
Receive ==
  /\ at = "recv"
  /\ \/ /\ carry # NoClient
        /\ group' = <<carry>> /\ carry' = NoClient
        /\ UNCHANGED queue
     \/ /\ carry = NoClient /\ queue # << >>
        /\ group' = <<Head(queue)>> /\ queue' = Tail(queue)
        /\ UNCHANGED carry
  /\ at' = "drain"
  /\ UNCHANGED <<storeVars, schemaGen, results, replVars, clientVars, cacheVars, envVars>>

\* Mutant: the job that ends a group is forgotten.
Drain_Drop ==
  /\ at = "drain" /\ queue # << >> /\ Len(group) < GroupMax
  /\ queue' = Tail(queue)
  /\ IF IsValidated(job[Head(queue)]) = IsValidated(job[group[1]])
     THEN group' = Append(group, Head(queue)) /\ UNCHANGED <<carry, at>>
     ELSE at' = "apply" /\ UNCHANGED <<carry, group>>
  /\ UNCHANGED <<storeVars, schemaGen, results, replVars, clientVars, cacheVars, envVars>>

\* try_recv: a job of the group's kind joins it, another is carried.
Drain ==
  /\ at = "drain" /\ queue # << >> /\ Len(group) < GroupMax
  /\ queue' = Tail(queue)
  /\ IF IsValidated(job[Head(queue)]) = IsValidated(job[group[1]])
     THEN group' = Append(group, Head(queue)) /\ UNCHANGED <<carry, at>>
     ELSE carry' = Head(queue) /\ at' = "apply" /\ UNCHANGED group
  /\ UNCHANGED <<storeVars, schemaGen, results, replVars, clientVars, cacheVars, envVars>>

\* The queue is empty or the group full.
DrainEnd ==
  /\ at = "drain" /\ (queue = << >> \/ Len(group) = GroupMax)
  /\ at' = "apply"
  /\ UNCHANGED <<storeVars, schemaGen, queue, carry, group, results, replVars, clientVars,
                 cacheVars, envVars>>

Jobs == [n \in 1..Len(group) |-> job[group[n]]]

\* The transaction's commit, with the next write sequence.
CommitState(s) ==
  /\ store' = s
  /\ wseq' = wseqLast + 1 /\ wseqLast' = wseqLast + 1
  /\ states' = states \cup {<<wseqLast + 1, s>>}

\* apply_validated, apply_insert or apply for a group of one: a refused job
\* commits nothing.
ApplyAlone ==
  /\ at = "apply" /\ Len(group) = 1
  /\ LET j == Jobs[1]
         r == OutcomeAlone(store, j)
     IN  /\ results' = <<r>>
         /\ IF r = "ok" THEN CommitState(Written(store, j)) ELSE UNCHANGED storeVars
         /\ at' = IF r = "ok" /\ TouchesSchema(j) THEN "bump" ELSE "publish"
  /\ UNCHANGED <<schemaGen, queue, carry, group, replVars, clientVars, cacheVars, envVars>>

\* apply_validated_batch, apply_jobs: one transaction, committed whatever the
\* results.  The batch looks at the keys of refused jobs too.
ApplyGroup ==
  /\ at = "apply" /\ Len(group) > 1
  /\ LET js == Jobs
         ss == GroupStates(store, js)
         rs == [n \in 1..Len(js) |-> Outcome(ss[n - 1], js[n])]
     IN  /\ results' = rs
         /\ CommitState(ss[Len(js)])
         /\ at' = IF \E n \in 1..Len(js) :
                        TouchesSchema(js[n]) /\ (rs[n] = "ok" \/ IsValidated(js[n]))
                  THEN "bump" ELSE "publish"
  /\ UNCHANGED <<schemaGen, queue, carry, group, replVars, clientVars, cacheVars, envVars>>

\* bump_schema_generation, after the commit.
Bump ==
  /\ at = "bump"
  /\ schemaGen' = schemaGen + 1
  /\ at' = "publish"
  /\ UNCHANGED <<storeVars, queue, carry, group, results, replVars, clientVars, cacheVars, envVars>>

\* A storage call fails: nothing of the group is committed, everyone is told.  The
\* write sequence is taken if it was the commit that failed.
ApplyFails ==
  /\ at = "apply" /\ faults < MaxFault
  /\ faults' = faults + 1
  /\ wseqLast' \in {wseqLast, wseqLast + 1}
  /\ results' = [n \in 1..Len(group) |-> "error"]
  /\ at' = "publish"
  /\ UNCHANGED <<store, wseq, states, schemaGen, queue, carry, group, replVars, clientVars,
                 cacheVars, jobs, crashes>>

\* job_puts
JobPuts(j) ==
  [k \in DOMAIN j.puts \cup {j.new[n].key : n \in 1..Len(j.new)} |->
     IF k \in DOMAIN j.puts THEN j.puts[k]
     ELSE j.new[CHOOSE n \in 1..Len(j.new) : j.new[n].key = k].val]

IsEmpty(j) == DOMAIN JobPuts(j) = {} /\ j.deletes = {}
Published(r, j) == r = "ok" /\ ~IsEmpty(j)
Record(j) == [lsn |-> lsn + 1, puts |-> JobPuts(j), deletes |-> j.deletes]

\* Repl::publish for the first job of the group that has not been answered.
Publish ==
  /\ at = "publish"
  /\ IF Published(results[1], Jobs[1])
     THEN lsn' = lsn + 1 /\ binlog' = AppendRecord(binlog, Record(Jobs[1]))
     ELSE UNCHANGED replVars
  /\ at' = "ack"
  /\ UNCHANGED <<storeVars, schemaGen, queue, carry, group, results, clientVars, cacheVars, envVars>>

\* job.ack.send
Ack ==
  /\ at = "ack"
  /\ reply' = [reply EXCEPT ![group[1]] = results[1]]
  /\ job' = [job EXCEPT ![group[1]] = NoJob]
  /\ group' = Tail(group) /\ results' = Tail(results)
  /\ at' = IF Len(group) = 1 THEN "recv" ELSE "publish"
  /\ UNCHANGED <<storeVars, schemaGen, queue, carry, replVars, snap, cacheVars, envVars>>

(* schemacache::get *)

\* The generation is loaded and the cached entry has another.
CacheMiss ==
  /\ loading = -1 /\ cache.gen # schemaGen
  /\ loading' = schemaGen
  /\ UNCHANGED <<storeVars, schemaGen, loopVars, replVars, clientVars, cache, envVars>>

\* The read, stored under the generation loaded before it.
CacheFill ==
  /\ loading # -1
  /\ cache' = [gen |-> loading, val |-> store[CachedKey]]
  /\ loading' = -1
  /\ UNCHANGED <<storeVars, schemaGen, loopVars, replVars, clientVars, envVars>>

(* The process *)

\* Mutant: the write sequence restarts with the process.
WseqAtOpen_Zero == 0

\* Storage::open picks up the write sequence where the file left it.
WseqAtOpen == wseq

\* The process dies and is started again (Storage::open, Db::from_storage): a record
\* being appended may be left torn, the LSN resumes from the binary log, which gets a
\* fresh segment.  The new process has an empty cache.
Crash ==
  /\ crashes < MaxCrash
  /\ crashes' = crashes + 1
  /\ \E b \in {binlog, TearRecord(binlog)} :
       /\ b # binlog => at = "publish" /\ Published(results[1], Jobs[1])
       /\ lsn' = MaxLsn(b) /\ binlog' = OpenSegment(b)
  /\ wseqLast' = WseqAtOpen
  /\ schemaGen' = schemaGen + 1
  /\ queue' = << >> /\ carry' = NoClient /\ group' = << >> /\ results' = << >> /\ at' = "recv"
  /\ snap' = [c \in Client |-> NoSnap]
  /\ job' = [c \in Client |-> NoJob]
  /\ reply' = [c \in Client |-> IF job[c] # NoJob THEN "lost" ELSE reply[c]]
  /\ loading' = -1 /\ cache' = NoEntry
  /\ UNCHANGED <<store, wseq, states, jobs, faults>>

Next ==
  \/ \E c \in Client : Begin(c) \/ Submit(c)
  \/ Receive \/ Drain \/ DrainEnd
  \/ ApplyAlone \/ ApplyGroup \/ ApplyFails \/ Bump
  \/ Publish \/ Ack
  \/ CacheMiss \/ CacheFill
  \/ Crash

Spec == Init /\ [][Next]_vars

\* The writer thread is scheduled as long as it has something to do.
Writer ==
  \/ Receive \/ Drain \/ DrainEnd \/ ApplyAlone \/ ApplyGroup \/ ApplyFails \/ Bump
  \/ Publish \/ Ack
FairSpec == Spec /\ WF_vars(Writer)

----------------------------------------------------------------------------
Result == {"ok", "conflict", "duplicate", "error"}
Decided == at \in {"bump", "publish", "ack"}

\* Types, the group's limit, and a result for every job of a decided group
\* (writer_loop zips them).
TypeOK ==
  /\ store \in [Key -> Val \cup {Absent}]
  /\ wseq \in Nat /\ wseqLast \in Nat /\ schemaGen \in Nat /\ lsn \in Nat
  /\ queue \in Seq(Client) /\ Len(queue) <= QueueDepth
  /\ carry \in Client \cup {NoClient}
  /\ group \in Seq(Client) /\ Len(group) <= GroupMax
  /\ at \in {"recv", "drain", "apply", "bump", "publish", "ack"}
  /\ (at = "recv") = (group = << >>)
  /\ results \in Seq(Result) /\ Len(results) = IF Decided THEN Len(group) ELSE 0
  /\ snap \in [Client -> [Key -> Val \cup {Absent}] \cup {NoSnap}]
  /\ job \in [Client -> Job \cup {NoJob}]
  /\ reply \in [Client -> Result \cup {"none", "lost"}]
  /\ loading \in Nat \cup {-1}
  /\ cache.gen \in Nat \cup {-1} /\ cache.val \in Val \cup {Absent}

InQueue(c) == {n \in 1..Len(queue) : queue[n] = c}
InGroup(c) == {n \in 1..Len(group) : group[n] = c}

\* A job a client waits for is in exactly one place of the writer's loop: the queue,
\* the carry or the group, once.  It can then be neither forgotten nor run twice.
EveryJobHeldOnce ==
  \A c \in Client :
    Cardinality(InQueue(c)) + Cardinality(InGroup(c)) + (IF carry = c THEN 1 ELSE 0)
      = IF job[c] = NoJob THEN 0 ELSE 1

\* Every commit gets an answer, whatever else keeps coming: a job carried over or
\* left in the queue by a full group is not starved.
EveryJobAnswered == \A c \in Client : job[c] # NoJob ~> job[c] = NoJob

\* What the writer thread does implements the serial store: grouping, carrying and
\* the checks made inside one transaction are invisible to the callers.
DecidedFor ==
  [c \in Client |->
     IF Decided /\ InGroup(c) # {} THEN results[CHOOSE n \in InGroup(c) : TRUE] ELSE "none"]
Serial == INSTANCE SerialStore WITH db <- store, call <- job, done <- DecidedFor
RefinesSerialStore == Serial!Spec

\* A write sequence stands for one state of the data (WSEQ_KEY): a cache tagged with
\* it can never be served for another, failed commits and restarts included.
WseqIdentifiesState ==
  /\ <<wseq, store>> \in states
  /\ \A x, y \in states : x[1] = y[1] => x[2] = y[2]

\* A cached schema read that is served is what is committed, except between a commit
\* and its bump, when nobody has been told of that commit yet.
ServedSchemaIsCurrent ==
  cache.gen = schemaGen /\ at # "bump" => cache.val = store[CachedKey]

\* binlog::replay of a write-set.
ReplayRecord(s, rec) == Put(Remove(s, rec.deletes), rec.puts)
Replayed(s, recs) ==
  LET f[n \in 0..Len(recs)] == IF n = 0 THEN s ELSE ReplayRecord(f[n - 1], recs[n])
  IN  f[Len(recs)]

\* The write-sets of the decided group that are still to be published, and nothing for
\* the other jobs of the group.
Unpublished ==
  IF ~Decided THEN << >>
  ELSE [n \in 1..Len(group) |->
          IF Published(results[n], Jobs[n]) /\ (n = 1 => at # "ack")
          THEN [puts |-> JobPuts(Jobs[n]), deletes |-> Jobs[n].deletes]
          ELSE [puts |-> << >>, deletes |-> {}]]

\* The binary log, with what the writer is about to publish, replayed onto an empty
\* file is the committed state.
ReplaysToStore ==
  /\ AllReadable(binlog)
  /\ Replayed(Replayed(Empty, Records(binlog)), Unpublished) = store

\* As long as the process has not crashed, the binary log replays to the committed
\* state after every step: whatever the grouping, the write-sets are published in the
\* order, and with the values, in which the transaction applied them, refused and
\* empty jobs leave nothing, and failed groups publish nothing.
BinlogReplaysToStore == crashes = 0 => ReplaysToStore

\* The LSNs of the binary log grow from record to record.
LsnIncreasing ==
  LET recs == SelectSeq(Records(binlog), LAMBDA rec : rec # Torn)
  IN  \A n \in 1..Len(recs) - 1 : recs[n].lsn < recs[n + 1].lsn
============================================================================
