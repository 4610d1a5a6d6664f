---------------------------- MODULE Replication -----------------------------
(***************************************************************************)
(* Primary-replica replication: the publishing side of a primary's write   *)
(* path and its synchronous barrier (Db in crates/elyra-storage/src/db.rs) *)
(* and the stream to its replicas (crates/elyra-server/src/repl.rs).       *)
(*                                                                         *)
(* The writer thread commits a write and then publishes it; the groups it  *)
(* forms are the subject of GroupCommit and have one write here.  Each     *)
(* replica connection is served by two tasks, the handler that sends and   *)
(* the reader that takes acknowledgements.  A replica that meets an error  *)
(* exits and starts again with an empty file; one whose stream is closed   *)
(* between two messages reconnects with what it has.                       *)
(***************************************************************************)
EXTENDS Binlog, FiniteSets

CONSTANTS
  Write,      \* client writes, each issued at most once
  Put,        \* the writes that store a value; the others delete
  KeyOf,      \* the key each writes
  Key,        \* keys, which are integers: snapshots are paged in their order
  Replica, Conn, Absent, None,
  HasBinlog,  \* serve --binlog
  Required,   \* --sync-replicas
  Strict,     \* --sync-strict
  Timed,      \* --semi-sync-ms is not 0
  Capacity,   \* REPL_CAPACITY
  MaxRestart, \* bound on restarts of the primary
  MaxDeath    \* bound on deaths of replicas

ASSUME WriteAssumption == Put \subseteq Write /\ KeyOf \in [Write -> Key]
ASSUME ReplKeyAssumption == Key \subseteq Nat
ASSUME PolicyAssumption ==
  HasBinlog \in BOOLEAN /\ Strict \in BOOLEAN /\ Timed \in BOOLEAN /\ Required \in Nat

VARIABLES
  \* the primary: the store, the write committed and not yet published, the LSN
  \* counter, the binary log
  store, unpub, lsn, binlog,
  \* the clients: where the commit of each write is, and the LSN its barrier waits for
  client, target,
  \* the primary's side of each connection: see NoConn
  conn,
  \* the replicas: the store, the LSN under REPL_LSN_KEY, the connection in use
  rstore, rlsn, rconn,
  \* the environment
  restarts, deaths,
  \* history: writes in commit order, and what each replica has had in its store
  order, had

primaryVars == <<store, unpub, lsn, binlog>>
clientVars == <<client, target>>
replicaVars == <<rstore, rlsn, rconn>>
envVars == <<restarts, deaths>>
vars == <<primaryVars, clientVars, conn, replicaVars, envVars, order, had>>

Empty == [k \in Key |-> Absent]

\* A connection: whose it is; whether both ends are up ("open"), the replica's end
\* is gone ("dead") or neither exists; where its handler is; the LSN of Hello; the
\* rest of handle_replica's locals; the subscriber's queue (None before
\* repl_subscribe and after the handler has returned); the messages and
\* acknowledgements on their way; the entry in Db.replicas (None if unregistered).
NoConn == [owner |-> None, link |-> "none", handler |-> "none", hello |-> 0,
           snapLsn |-> 0, cursor |-> -1, rx |-> None, out |-> << >>, acks |-> << >>,
           progress |-> None]

ValueOf(w) == IF w \in Put THEN w ELSE Absent
Apply(s, w) == [s EXCEPT ![KeyOf[w]] = ValueOf(w)]

----------------------------------------------------------------------------
(* The primary's write path and barrier, db.rs *)

Subscribed(c) == conn[c].rx # None
HasReplicas == \E c \in Conn : Subscribed(c)

\* Repl::active
Active == HasBinlog \/ HasReplicas

\* The writer thread commits.
Commit(w) ==
  /\ client[w] = "new" /\ unpub = None
  /\ store' = Apply(store, w)
  /\ unpub' = w
  /\ client' = [client EXCEPT ![w] = "writing"]
  /\ order' = Append(order, w)
  /\ UNCHANGED <<lsn, binlog, target, conn, replicaVars, envVars, had>>

\* Repl::publish, then the writer's acknowledgement.
Publish ==
  /\ unpub # None
  /\ IF Active
     THEN LET rec == [lsn |-> lsn + 1, w |-> unpub]
          IN  /\ lsn' = lsn + 1
              /\ binlog' = IF HasBinlog THEN AppendRecord(binlog, rec) ELSE binlog
              /\ conn' = [c \in Conn |-> IF Subscribed(c)
                                         THEN [conn[c] EXCEPT !.rx = Append(@, rec)]
                                         ELSE conn[c]]
     ELSE UNCHANGED <<lsn, binlog, conn>>
  /\ client' = [client EXCEPT ![unpub] = "written"]
  /\ unpub' = None
  /\ UNCHANGED <<store, target, replicaVars, envVars, order, had>>

\* await_sync, up to its loop: no barrier, or the LSN to wait for is read.
EnterBarrier(w) ==
  /\ client[w] = "written"
  /\ IF Required = 0 \/ (~Strict /\ ~HasReplicas)
     THEN client' = [client EXCEPT ![w] = "ok"] /\ UNCHANGED target
     ELSE /\ client' = [client EXCEPT ![w] = "waiting"]
          /\ target' = [target EXCEPT ![w] = lsn]
  /\ UNCHANGED <<primaryVars, conn, replicaVars, envVars, order, had>>

\* Mutant: replicas that have been sent the LSN count.
AckedCount_Sent(t) ==
  Cardinality({c \in Conn : conn[c].progress # None /\ conn[c].progress.sent >= t})

\* acked_count
AckedCount(t) ==
  Cardinality({c \in Conn : conn[c].progress # None /\ conn[c].progress.acknowledged >= t})

\* await_sync: enough acknowledgements.
Confirm(w) ==
  /\ client[w] = "waiting" /\ AckedCount(target[w]) >= Required
  /\ client' = [client EXCEPT ![w] = "ok"]
  /\ UNCHANGED <<primaryVars, target, conn, replicaVars, envVars, order, had>>

\* await_sync: the deadline, an error in strict mode and success otherwise.
Deadline(w) ==
  /\ client[w] = "waiting" /\ Timed /\ AckedCount(target[w]) < Required
  /\ client' = [client EXCEPT ![w] = IF Strict THEN "unconfirmed" ELSE "degraded"]
  /\ UNCHANGED <<primaryVars, target, conn, replicaVars, envVars, order, had>>

----------------------------------------------------------------------------
(* The handler and the reader of a connection, repl.rs *)

SetConn(c, r) == conn' = [conn EXCEPT ![c] = r]

\* A handler's step leaves everything but its connection alone.
HandlerFrame == UNCHANGED <<primaryVars, clientVars, replicaVars, envVars, order, had>>

\* handle_replica: Hello is in, the replica is registered and its reader started.
Register(c) ==
  /\ conn[c].handler = "hello"
  /\ SetConn(c, [conn[c] EXCEPT !.handler = "subscribe",
                                !.progress = [sent |-> 0, acknowledged |-> 0]])
  /\ HandlerFrame

\* repl_subscribe
Subscribe(c) ==
  /\ conn[c].handler = "subscribe"
  /\ SetConn(c, [conn[c] EXCEPT !.handler = "readlsn", !.rx = << >>])
  /\ HandlerFrame

\* current_lsn, and the choice between catching up and a full snapshot.
ReadLsn(c) ==
  /\ conn[c].handler = "readlsn"
  /\ SetConn(c, [conn[c] EXCEPT
       !.snapLsn = lsn,
       !.handler = IF conn[c].hello > 0 /\ conn[c].hello <= lsn THEN "catchup" ELSE "snapshot"])
  /\ HandlerFrame

Send(c, m) == IF conn[c].link = "open" THEN Append(conn[c].out, m) ELSE conn[c].out
WriteMsg(rec) == [type |-> "write", lsn |-> rec.lsn, w |-> rec.w]

\* The handler returns; the connection stays up as long as its reader has it.
Ended(c) == [conn[c] EXCEPT !.handler = "ended", !.rx = None]

\* incremental_catchup: the records the replica lacks, if the binary log still has
\* them all, or Resync.
CatchUp(c) ==
  /\ conn[c].handler = "catchup"
  /\ LET serve == /\ HasBinlog /\ AllReadable(binlog)
                  /\ EarliestLsn(binlog) \in 0..(conn[c].hello + 1)
         recs == ReadSince(binlog, conn[c].hello, conn[c].snapLsn)
         msgs == [n \in 1..Len(recs) |-> WriteMsg(recs[n])]
                 \o <<[type |-> "snapend", lsn |-> conn[c].snapLsn]>>
     IN  IF serve
         THEN SetConn(c, [conn[c] EXCEPT
                !.handler = "stream",
                !.out = IF conn[c].link = "open" THEN @ \o msgs ELSE @])
         ELSE SetConn(c, [Ended(c) EXCEPT !.out = Send(c, [type |-> "resync"])])
  /\ HandlerFrame

\* The next page of the keyspace, read in a transaction of its own.  A page has one
\* pair.
NextKeys(c) == {k \in Key : k > conn[c].cursor /\ store[k] # Absent}
SendPage(c) ==
  /\ conn[c].handler = "snapshot" /\ NextKeys(c) # {}
  /\ LET k == CHOOSE k \in NextKeys(c) : \A m \in NextKeys(c) : k <= m
     IN  SetConn(c, [conn[c] EXCEPT
           !.cursor = k, !.out = Send(c, [type |-> "snap", key |-> k, val |-> store[k]])])
  /\ HandlerFrame

\* Mutant: the snapshot is taken to reach the LSN at its end.
SendSnapEnd_Late(c) ==
  /\ conn[c].handler = "snapshot" /\ NextKeys(c) = {}
  /\ LET pr == conn[c].progress
     IN  SetConn(c, [conn[c] EXCEPT
           !.handler = "stream", !.snapLsn = lsn,
           !.progress = IF pr = None THEN None ELSE [pr EXCEPT !.sent = lsn],
           !.out = Send(c, [type |-> "snapend", lsn |-> lsn])])
  /\ HandlerFrame

\* Mutant: the snapshot's LSN is not reported as sent.
SendSnapEnd_NoReport(c) ==
  /\ conn[c].handler = "snapshot" /\ NextKeys(c) = {}
  /\ SetConn(c, [conn[c] EXCEPT
       !.handler = "stream",
       !.out = Send(c, [type |-> "snapend", lsn |-> conn[c].snapLsn])])
  /\ HandlerFrame

\* The end of the snapshot: report_sent, SnapEnd.
SendSnapEnd(c) ==
  /\ conn[c].handler = "snapshot" /\ NextKeys(c) = {}
  /\ LET pr == conn[c].progress
     IN  SetConn(c, [conn[c] EXCEPT
           !.handler = "stream",
           !.progress = IF pr = None THEN None ELSE [pr EXCEPT !.sent = conn[c].snapLsn],
           !.out = Send(c, [type |-> "snapend", lsn |-> conn[c].snapLsn])])
  /\ HandlerFrame

\* Mutant: the first write after the snapshot is taken to be in it.
Stream_SkipFirst(c) ==
  /\ conn[c].handler = "stream" /\ conn[c].rx # << >> /\ Len(conn[c].rx) <= Capacity
  /\ LET rec == Head(conn[c].rx)
         pr == conn[c].progress
     IN  IF rec.lsn <= conn[c].snapLsn + 1 THEN SetConn(c, [conn[c] EXCEPT !.rx = Tail(@)])
         ELSE SetConn(c, [conn[c] EXCEPT
                !.rx = Tail(@),
                !.progress = IF pr = None THEN None ELSE [pr EXCEPT !.sent = rec.lsn],
                !.out = Send(c, WriteMsg(rec))])
  /\ HandlerFrame

\* The next write of the stream: report_sent, Write.
Stream(c) ==
  /\ conn[c].handler = "stream" /\ conn[c].rx # << >> /\ Len(conn[c].rx) <= Capacity
  /\ LET rec == Head(conn[c].rx)
         pr == conn[c].progress
     IN  IF rec.lsn <= conn[c].snapLsn THEN SetConn(c, [conn[c] EXCEPT !.rx = Tail(@)])
         ELSE SetConn(c, [conn[c] EXCEPT
                !.rx = Tail(@),
                !.progress = IF pr = None THEN None ELSE [pr EXCEPT !.sent = rec.lsn],
                !.out = Send(c, WriteMsg(rec))])
  /\ HandlerFrame

\* RecvError::Lagged: the handler gives up.
Lagged(c) ==
  /\ conn[c].handler = "stream" /\ Len(conn[c].rx) > Capacity
  /\ SetConn(c, Ended(c))
  /\ HandlerFrame

\* A send to a replica that is gone is lost at first and fails in the end.
SendFails(c) ==
  /\ conn[c].link = "dead" /\ conn[c].handler \in {"catchup", "snapshot", "stream"}
  /\ SetConn(c, Ended(c))
  /\ HandlerFrame

\* The reader task: report_ack.
ReadAck(c) ==
  /\ conn[c].acks # << >> /\ conn[c].progress # None
  /\ LET a == Head(conn[c].acks)
         pr == conn[c].progress
     IN  SetConn(c, [conn[c] EXCEPT
           !.acks = Tail(@),
           !.progress = IF a <= pr.sent /\ a > pr.acknowledged
                        THEN [pr EXCEPT !.acknowledged = a] ELSE pr])
  /\ HandlerFrame

\* The reader task finds the replica gone: unregister_replica.
ReadEnd(c) ==
  /\ conn[c].link = "dead" /\ conn[c].acks = << >> /\ conn[c].progress # None
  /\ SetConn(c, [conn[c] EXCEPT !.progress = None])
  /\ HandlerFrame

----------------------------------------------------------------------------
(* The replica, run_replica, and its process *)

Committed == {order[n] : n \in 1..Len(order)}

\* s has what w did to its key, or what a later write did to it.
Reflects(s, w) ==
  \E m, n \in 1..Len(order) :
    /\ m <= n /\ order[m] = w
    /\ KeyOf[order[n]] = KeyOf[w] /\ s[KeyOf[w]] = ValueOf(order[n])

\* read_applied_lsn, connect, Hello.
Connect(r) ==
  /\ rconn[r] = None
  /\ \E c \in Conn :
       /\ conn[c] = NoConn
       /\ rconn' = [rconn EXCEPT ![r] = c]
       /\ SetConn(c, [NoConn EXCEPT !.owner = r, !.link = "open", !.handler = "hello",
                                    !.hello = rlsn[r]])
  /\ UNCHANGED <<primaryVars, clientVars, rstore, rlsn, envVars, order, had>>

\* The process exits; started again, it removes its file.
Wiped(R) ==
  /\ rstore' = [r \in Replica |-> IF r \in R THEN Empty ELSE rstore[r]]
  /\ rlsn' = [r \in Replica |-> IF r \in R THEN 0 ELSE rlsn[r]]
Cut(c) == [conn[c] EXCEPT !.link = "dead", !.out = << >>]

\* The next message: a page, the end of the snapshot, a write.
Receive(r) ==
  /\ rconn[r] # None /\ conn[rconn[r]].out # << >>
  /\ LET c == rconn[r]
         m == Head(conn[c].out)
         rest == [conn[c] EXCEPT !.out = Tail(@)]
     IN  /\ m.type # "resync"
         /\ rstore' = [rstore EXCEPT ![r] =
              IF m.type = "snap" THEN [@ EXCEPT ![m.key] = m.val]
              ELSE IF m.type = "write" THEN Apply(@, m.w) ELSE @]
         /\ IF m.type = "snap"
            THEN SetConn(c, rest) /\ UNCHANGED rlsn
            ELSE /\ SetConn(c, [rest EXCEPT !.acks = Append(@, m.lsn)])
                 /\ rlsn' = [rlsn EXCEPT ![r] = m.lsn]
         /\ had' = [had EXCEPT ![r] = @ \cup {w \in Committed : Reflects(rstore'[r], w)}]
  /\ UNCHANGED <<primaryVars, clientVars, rconn, envVars, order>>

\* Resync: run_replica returns, the process exits.
Resync(r) ==
  /\ rconn[r] # None /\ conn[rconn[r]].out # << >>
  /\ Head(conn[rconn[r]].out).type = "resync"
  /\ SetConn(rconn[r], Cut(rconn[r]))
  /\ Wiped({r})
  /\ rconn' = [rconn EXCEPT ![r] = None]
  /\ UNCHANGED <<primaryVars, clientVars, envVars, order, had>>

\* The replica dies, or meets an error on its stream.
ReplicaDies(r) ==
  /\ deaths < MaxDeath /\ rconn[r] # None
  /\ deaths' = deaths + 1
  /\ SetConn(rconn[r], Cut(rconn[r]))
  /\ Wiped({r})
  /\ rconn' = [rconn EXCEPT ![r] = None]
  /\ UNCHANGED <<primaryVars, clientVars, restarts, order, had>>

\* The primary dies and is started again.  What it had sent and the replica has not
\* received is lost; the replica's stream ends between two messages, and it will
\* reconnect, or inside one, and it exits.
PrimaryRestarts ==
  /\ restarts < MaxRestart
  /\ restarts' = restarts + 1
  /\ unpub' = None
  /\ lsn' = IF HasBinlog THEN MaxLsn(binlog) ELSE 0
  /\ binlog' = IF HasBinlog THEN OpenSegment(binlog) ELSE binlog
  /\ client' = [w \in Write |-> IF client[w] \in {"writing", "written", "waiting"}
                                THEN "lost" ELSE client[w]]
  /\ \E R \in SUBSET {r \in Replica : rconn[r] # None} : Wiped(R)
  /\ rconn' = [r \in Replica |-> None]
  /\ conn' = [c \in Conn |-> NoConn]
  /\ UNCHANGED <<store, target, deaths, order, had>>

Init ==
  /\ store = Empty /\ unpub = None /\ lsn = 0
  /\ binlog = IF HasBinlog THEN OpenSegment(<< >>) ELSE << >>
  /\ client = [w \in Write |-> "new"] /\ target = [w \in Write |-> 0]
  /\ conn = [c \in Conn |-> NoConn]
  /\ rstore = [r \in Replica |-> Empty] /\ rlsn = [r \in Replica |-> 0]
  /\ rconn = [r \in Replica |-> None]
  /\ restarts = 0 /\ deaths = 0
  /\ order = << >> /\ had = [r \in Replica |-> {}]

ConnStep(c) ==
  \/ Register(c) \/ Subscribe(c) \/ ReadLsn(c) \/ CatchUp(c) \/ SendPage(c)
  \/ SendSnapEnd(c) \/ Stream(c) \/ Lagged(c) \/ SendFails(c)
ReaderStep(c) == ReadAck(c) \/ ReadEnd(c)
ReplicaStep(r) == Connect(r) \/ Receive(r) \/ Resync(r)
ClientStep(w) == EnterBarrier(w) \/ Confirm(w) \/ Deadline(w)

Next ==
  \/ \E w \in Write : Commit(w) \/ ClientStep(w)
  \/ Publish
  \/ \E c \in Conn : ConnStep(c) \/ ReaderStep(c)
  \/ \E r \in Replica : ReplicaStep(r) \/ ReplicaDies(r)
  \/ PrimaryRestarts

Spec == Init /\ [][Next]_vars

\* The writer thread and every task keep running; new writes, deaths and restarts
\* are never forced.
Fairness ==
  /\ WF_vars(Publish)
  /\ \A w \in Write : WF_vars(ClientStep(w))
  /\ \A c \in Conn : WF_vars(ConnStep(c)) /\ WF_vars(ReaderStep(c))
  /\ \A r \in Replica : WF_vars(ReplicaStep(r))
FairSpec == Spec /\ Fairness

----------------------------------------------------------------------------
\* Types; a connection's progress never runs past what it was sent, nor that past the
\* primary's LSN.
TypeOK ==
  /\ store \in [Key -> Put \cup {Absent}] /\ rstore \in [Replica -> [Key -> Put \cup {Absent}]]
  /\ unpub \in Write \cup {None} /\ lsn \in Nat /\ rlsn \in [Replica -> Nat]
  /\ client \in [Write -> {"new", "writing", "written", "waiting", "ok", "unconfirmed",
                           "degraded", "lost"}]
  /\ target \in [Write -> Nat]
  /\ rconn \in [Replica -> Conn \cup {None}]
  /\ \A c \in Conn :
       /\ conn[c].handler \in {"none", "hello", "subscribe", "readlsn", "catchup",
                               "snapshot", "stream", "ended"}
       /\ conn[c].progress # None =>
            /\ conn[c].progress.acknowledged <= conn[c].progress.sent
            /\ conn[c].progress.sent <= lsn

CaughtUp(r) ==
  /\ rconn[r] # None /\ unpub = None
  /\ LET c == conn[rconn[r]]
     IN  c.handler = "stream" /\ c.rx = << >> /\ c.out = << >>

\* A replica with nothing left to receive has the primary's state.
CaughtUpIsEqual == \A r \in Replica : CaughtUp(r) => rstore[r] = store

\* As long as the primary runs, whatever is committed while a bootstrap is being
\* subscribed, numbered and read page by page, and whatever dies or falls behind, a
\* replica with nothing left to receive has the primary's state.
BootstrapIsExact == restarts = 0 => CaughtUpIsEqual

\* A write whose commit was confirmed in strict mode has been in the store of as many
\* replicas as the policy requires.
ConfirmedOnReplicas ==
  Strict => \A w \in Write :
    client[w] = "ok" => Cardinality({r \in Replica : w \in had[r]}) >= Required

\* With no deadline to save it, every commit is still answered.
EveryCommitAnswered ==
  \A w \in Write : client[w] = "writing" ~> client[w] \in {"ok", "lost"}

\* When writes stop, the replicas end up with the primary's state and keep it.
ReplicasConverge == <>[](\A r \in Replica : rstore[r] = store)
============================================================================
