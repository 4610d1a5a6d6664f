-------------------------------- MODULE Raft --------------------------------
(***************************************************************************)
(* The consensus core of an ElyraSQL cluster node                          *)
(* (crates/elyra-server/src/cluster.rs over raftlog.rs): leader election,  *)
(* the replicated log and the client write path `propose`.                 *)
(*                                                                         *)
(* A node runs three kinds of tasks against shared state: its main loop    *)
(* (elections and replication rounds, one at a time), one handler task per *)
(* peer connection, and one `propose` call per client write.  `state` and  *)
(* `log` have a mutex each and no task holds both across a whole           *)
(* operation, so an operation that uses both is two critical sections.     *)
(* Each section is an action here.  Races names the operations whose       *)
(* sections may be separated by another task's; for the others the two     *)
(* sections run back to back.                                              *)
(*                                                                         *)
(* A log is kept as the sequence of all its entries; the entries at or     *)
(* below snap[i] are the ones compaction has dropped from memory and disk, *)
(* and nothing below reads them except through the state machine.          *)
(***************************************************************************)
EXTENDS Integers, Sequences, FiniteSets

CONSTANTS
  Server,      \* the nodes; membership is fixed (cfg.peers)
  Value,       \* client writes; each is proposed at most once
  Noop,        \* the empty WriteOp a new leader appends
  None,        \* no vote
  Races,       \* operations whose critical sections may be interleaved
  MaxElection, \* bound on elections started
  MaxRound,    \* bound on replication rounds
  MaxCrash,    \* bound on crashes
  MaxLate      \* bound on requests that outlive their exchange

\* The operations made of more than one critical section.
Operation == {"propose", "elected", "append", "launch"}

ASSUME ServerAssumption == IsFiniteSet(Server)
ASSUME NoneAssumption == None \notin Server
ASSUME NoopAssumption == Noop \notin Value
ASSUME RacesAssumption == Races \subseteq Operation
ASSUME BoundsAssumption ==
  MaxElection \in Nat /\ MaxRound \in Nat /\ MaxCrash \in Nat /\ MaxLate \in Nat

VARIABLES
  \* State, saved by persist_state
  term, votedFor,
  \* State, lost in a crash
  role,
  \* RaftLog: the log, how much of it is on disk, and its cursors
  log, persisted, snap, commitIndex, lastApplied,
  \* Node.progress and Node.pending
  next, match, pending,
  \* the main loop: where it is, the term it runs for, the vote replies of an
  \* election, the compaction point and commit index of a round, and the peers
  \* the round has still to launch
  phase, loopTerm, votes, compactTo, roundCommit, todo,
  \* operations of other tasks that are between their critical sections
  proposing, appending,
  \* the network: the AppendEntries exchange under way with each peer, requests
  \* whose exchange was given up, and RequestVote requests
  exch, late, ballots,
  \* the environment: writes not yet proposed; elections, rounds, crashes so far
  unproposed, elections, rounds, crashes,
  \* history: elections won, entries applied anywhere, writes told Ok; the log
  \* the leader of each term was elected with and what it has appended; how much
  \* of its log each node has had on disk for the leader of a term
  elected, applied, acked, ledger, stored

stateVars == <<term, votedFor, role>>
diskVars  == <<log, persisted>>
cursorVars == <<snap, commitIndex, lastApplied>>
logVars   == <<diskVars, cursorVars>>
leadVars  == <<next, match>>
roundVars == <<compactTo, roundCommit, todo>>
loopVars  == <<phase, loopTerm, votes, roundVars>>
taskVars  == <<proposing, appending>>
netVars   == <<exch, late, ballots>>
envVars   == <<unproposed, elections, rounds, crashes>>
histVars  == <<elected, applied, acked, ledger, stored>>
vars == <<stateVars, logVars, leadVars, pending, loopVars, taskVars, netVars,
          envVars, histVars>>

----------------------------------------------------------------------------
Entry == [term : Nat, val : Value \cup {Noop}]
Request == [term : Nat, prev : Nat, prevTerm : Nat, entries : Seq(Entry),
            commit : Nat, compact : Nat]
Ack == [term : Nat, success : BOOLEAN, matchIndex : Nat]
Ballot == [term : Nat, cand : Server, to : Server, lastTerm : Nat, lastIndex : Nat]
VoteReply == [from : Server, term : Nat, granted : BOOLEAN]

Peers(i) == Server \ {i}

\* Node::majority
Majority == Cardinality(Server) \div 2 + 1
IsMajority(S) == Cardinality(S) >= Majority

NoExchange == [st |-> "idle"]
Exchange == [st : {"idle"}]
            \cup [st : {"sent", "handling"}, req : Request]
            \cup [st : {"acked"}, term : Nat, ack : Ack]

Min(a, b) == IF a < b THEN a ELSE b
Max(a, b) == IF a > b THEN a ELSE b

----------------------------------------------------------------------------
(* raftlog.rs *)

\* RaftLog::last_index, last_term
LastIndex(i) == Len(log[i])
LastTerm(i) == IF log[i] = << >> THEN 0 ELSE log[i][Len(log[i])].term

\* RaftLog::term_at; -1 stands for None.
TermAt(i, k) ==
  IF k < snap[i] \/ k > Len(log[i]) THEN -1
  ELSE IF k = 0 THEN 0 ELSE log[i][k].term

\* Mutant: a vote by length alone.
IsUpToDate_ByIndex(i, candTerm, candIndex) == candIndex >= LastIndex(i)

\* Mutant: a vote whatever the logs.
IsUpToDate_Any(i, candTerm, candIndex) == TRUE

\* RaftLog::is_up_to_date
IsUpToDate(i, candTerm, candIndex) ==
  \/ candTerm > LastTerm(i)
  \/ candTerm = LastTerm(i) /\ candIndex >= LastIndex(i)

\* RaftLog::append_entries: the first new entry whose term differs from the
\* log's, if there is one.
Differs(l, prev, es, k) == prev + k <= Len(l) /\ l[prev + k].term # es[k].term
FirstConflict(l, prev, es) ==
  {k \in 1..Len(es) : /\ Differs(l, prev, es, k)
                      /\ \A n \in 1..k-1 : ~Differs(l, prev, es, n)}

\* Mutant: an entry already at the index is kept whatever its term.
Appended_Keep(l, prev, es) ==
  IF Len(l) >= prev + Len(es) THEN l ELSE l \o SubSeq(es, Len(l) - prev + 1, Len(es))

\* RaftLog::append_entries, after its consistency check: the first conflict cuts
\* the log there; entries the log lacks are pushed.
Appended(l, prev, es) ==
  LET C == FirstConflict(l, prev, es)
      k == CHOOSE c \in C : TRUE
  IN  IF C # {} THEN SubSeq(l, 1, prev + k - 1) \o SubSeq(es, k, Len(es))
      ELSE IF Len(l) >= prev + Len(es) THEN l
      ELSE l \o SubSeq(es, Len(l) - prev + 1, Len(es))

\* RaftLog::maybe_commit: k is match_indexes[(n-1)/2], sorted.
MatchOf(i, s) == IF s = i THEN LastIndex(i) ELSE match[i][s]
IsMajorityMatch(i, k) ==
  LET half == (Cardinality(Server) - 1) \div 2
  IN  /\ Cardinality({s \in Server : MatchOf(i, s) < k}) <= half
      /\ Cardinality({s \in Server : MatchOf(i, s) <= k}) > half

\* RaftLog::maybe_commit: the commit index moves up to it if it is of term t.
MaybeCommit(i, t) ==
  LET new == {k \in {MatchOf(i, s) : s \in Server} :
                IsMajorityMatch(i, k) /\ k > commitIndex[i] /\ TermAt(i, k) = t}
  IN  IF new = {} THEN commitIndex[i] ELSE CHOOSE k \in new : TRUE

\* Mutant: a round that leaves its entries in memory.
Synced_Not(i) == persisted[i]

\* RaftLog::sync: how much of the log is on disk after it.
Synced(i) == LastIndex(i)

\* RaftLog::compact moves the snapshot boundary to c, or nothing changes.
Compacted(i, c, lastApp) == IF c > snap[i] /\ c <= lastApp THEN c ELSE snap[i]

\* RaftLog::take_applicable on log l up to commit index c.
Taken(l, from, c) == {[index |-> k, entry |-> l[k]] : k \in from + 1 .. Min(c, Len(l))}

----------------------------------------------------------------------------
(* Scheduling.  Between its two critical sections an operation is in its     *)
(* gap.  The operations in Races let every step in there; the others only     *)
(* their own second section.                                                  *)

InGap(op) ==
  CASE op = "propose" -> \E i \in Server : proposing[i] # {}
    [] op = "elected" -> \E i \in Server : phase[i] = "elected"
    [] op = "append" -> \E i \in Server : appending[i] # {}
    [] op = "launch" -> \E i \in Server : todo[i] # {}

\* May the second section of op run now?  Any other step?
MayFinish(op) == \A o \in Operation \ (Races \cup {op}) : ~InGap(o)
Free == \A o \in Operation \ Races : ~InGap(o)

\* The bound on late requests counts those their receivers would not refuse.
MayBeLate(L) == Cardinality({m \in L : m.req.term >= term[m.to]}) <= MaxLate

\* Requests still in sockets when their exchanges are given up.
Leftover(i, J) ==
  LET L == {[from |-> i, to |-> j, req |-> exch[i][j].req] :
              j \in {k \in J : exch[i][k].st = "sent"}}
  IN  IF MayBeLate(late \cup L) THEN late \cup L ELSE late

----------------------------------------------------------------------------
Init ==
  /\ term = [i \in Server |-> 0]
  /\ votedFor = [i \in Server |-> None]
  /\ role = [i \in Server |-> "Follower"]
  /\ log = [i \in Server |-> << >>]
  /\ persisted = [i \in Server |-> 0]
  /\ snap = [i \in Server |-> 0]
  /\ commitIndex = [i \in Server |-> 0]
  /\ lastApplied = [i \in Server |-> 0]
  /\ next = [i \in Server |-> [j \in Server |-> 1]]
  /\ match = [i \in Server |-> [j \in Server |-> 0]]
  /\ pending = [i \in Server |-> {}]
  /\ phase = [i \in Server |-> "idle"]
  /\ loopTerm = [i \in Server |-> 0]
  /\ votes = [i \in Server |-> {}]
  /\ compactTo = [i \in Server |-> 0]
  /\ roundCommit = [i \in Server |-> 0]
  /\ todo = [i \in Server |-> {}]
  /\ proposing = [i \in Server |-> {}]
  /\ appending = [i \in Server |-> {}]
  /\ exch = [i \in Server |-> [j \in Server |-> NoExchange]]
  /\ late = {}
  /\ ballots = {}
  /\ unproposed = Value
  /\ elections = 0
  /\ rounds = 0
  /\ crashes = 0
  /\ elected = {}
  /\ applied = {}
  /\ acked = {}
  /\ ledger = << >>
  /\ stored = {}

----------------------------------------------------------------------------
(* Elections *)

\* start_election up to its RPCs: a follower or candidate whose election
\* deadline has passed.  The main loop has reset its replication state.
StartElection(i) ==
  /\ phase[i] = "idle" /\ role[i] # "Leader"
  /\ Free
  /\ elections < MaxElection
  /\ elections' = elections + 1
  /\ term' = [term EXCEPT ![i] = @ + 1]
  /\ role' = [role EXCEPT ![i] = "Candidate"]
  /\ votedFor' = [votedFor EXCEPT ![i] = i]
  /\ phase' = [phase EXCEPT ![i] = "elect"]
  /\ loopTerm' = [loopTerm EXCEPT ![i] = term[i] + 1]
  /\ votes' = [votes EXCEPT ![i] = {}]
  /\ ballots' = ballots \cup
       {[term |-> term[i] + 1, cand |-> i, to |-> j, lastTerm |-> LastTerm(i),
         lastIndex |-> LastIndex(i)] : j \in Peers(i)}
  /\ late' = Leftover(i, Peers(i))
  /\ exch' = [exch EXCEPT ![i] = [j \in Server |-> NoExchange]]
  /\ UNCHANGED <<logVars, leadVars, pending, compactTo, roundCommit, todo,
                 taskVars, unproposed, rounds, crashes, histVars>>

\* Mutant: a voter that forgets its vote.
MayVote_Again(v, cand) == TRUE

\* on_request_vote: one candidate per term.
MayVote(v, cand) == v \in {None, cand}

\* on_request_vote.  A leader that sees a later term here becomes a follower
\* with its proposals still pending.  The reply reaches the candidate while it
\* still waits for it.
OnRequestVote(m) ==
  LET i == m.to
      t == Max(m.term, term[i])
      v == IF m.term > term[i] THEN None ELSE votedFor[i]
      granted == /\ m.term = t
                 /\ MayVote(v, m.cand)
                 /\ IsUpToDate(i, m.lastTerm, m.lastIndex)
  IN
  /\ Free
  /\ term' = [term EXCEPT ![i] = t]
  /\ votedFor' = [votedFor EXCEPT ![i] = IF granted THEN m.cand ELSE v]
  /\ role' = [role EXCEPT ![i] = IF m.term > term[i] THEN "Follower" ELSE @]
  /\ votes' = IF phase[m.cand] = "elect" /\ loopTerm[m.cand] = m.term
              THEN [votes EXCEPT ![m.cand] =
                      @ \cup {[from |-> i, term |-> t, granted |-> granted]}]
              ELSE votes
  /\ ballots' = ballots \ {m}
  /\ UNCHANGED <<logVars, leadVars, pending, phase, loopTerm, compactTo,
                 roundCommit, todo, taskVars, exch, late, envVars, histVars>>

\* The votes a candidate counts: its own and the ones granted to it.
Granted(i) == {i} \cup {r.from : r \in {q \in votes[i] : q.granted}}

\* start_election after its RPCs have answered or timed out: a reply of a later
\* term makes the node a follower of that term; otherwise a candidate still in
\* the term it stood for becomes leader on a majority.
Tally(i) ==
  /\ phase[i] = "elect"
  /\ Free
  /\ LET newer == {r \in votes[i] : r.term > term[i]}
         yes == Granted(i)
         won == role[i] = "Candidate" /\ term[i] = loopTerm[i] /\ IsMajority(yes)
     IN \/ \E r \in newer :
             /\ term' = [term EXCEPT ![i] = r.term]
             /\ role' = [role EXCEPT ![i] = "Follower"]
             /\ votedFor' = [votedFor EXCEPT ![i] = None]
             /\ phase' = [phase EXCEPT ![i] = "idle"]
             /\ UNCHANGED <<elected, ledger>>
        \/ /\ newer = {}
           /\ role' = [role EXCEPT ![i] = IF won THEN "Leader" ELSE @]
           /\ phase' = [phase EXCEPT ![i] = IF won THEN "elected" ELSE "idle"]
           /\ elected' = IF won
                         THEN elected \cup {[term |-> term[i], node |-> i, voters |-> yes]}
                         ELSE elected
           /\ ledger' = IF won
                        THEN [t \in DOMAIN ledger \cup {term[i]} |->
                                IF t = term[i] THEN log[i] ELSE ledger[t]]
                        ELSE ledger
           /\ UNCHANGED <<term, votedFor>>
  /\ votes' = [votes EXCEPT ![i] = {}]
  /\ UNCHANGED <<logVars, leadVars, pending, loopTerm, compactTo, roundCommit,
                 todo, taskVars, netVars, envVars, applied, acked, stored>>

\* start_election, the rest: progress for every peer, then the no-op.  Neither
\* looks at the state again.
TakeOffice(i) ==
  /\ phase[i] = "elected"
  /\ MayFinish("elected")
  /\ next' = [next EXCEPT ![i] = [j \in Server |-> LastIndex(i) + 1]]
  /\ match' = [match EXCEPT ![i] = [j \in Server |-> 0]]
  /\ log' = [log EXCEPT ![i] = Append(@, [term |-> loopTerm[i], val |-> Noop])]
  /\ ledger' = [ledger EXCEPT ![loopTerm[i]] =
                  Append(@, [term |-> loopTerm[i], val |-> Noop])]
  /\ phase' = [phase EXCEPT ![i] = "idle"]
  /\ UNCHANGED <<stateVars, persisted, snap, commitIndex, lastApplied, pending,
                 loopTerm, votes, compactTo, roundCommit, todo, taskVars,
                 netVars, envVars, elected, applied, acked, stored>>

----------------------------------------------------------------------------
(* Client writes *)

\* propose, first section: only a leader accepts, in its current term.
Propose(i, v) ==
  /\ role[i] = "Leader" /\ v \in unproposed
  /\ Free
  /\ proposing' = [proposing EXCEPT ![i] = @ \cup {[term |-> term[i], val |-> v]}]
  /\ unproposed' = unproposed \ {v}
  /\ UNCHANGED <<stateVars, logVars, leadVars, pending, loopVars, appending,
                 netVars, elections, rounds, crashes, histVars>>

\* propose, second section: leader_append and the pending entry, replacing any
\* sender left at that index.
ProposeAppend(i, p) ==
  /\ MayFinish("propose")
  /\ log' = [log EXCEPT ![i] = Append(@, [term |-> p.term, val |-> p.val])]
  /\ ledger' = [ledger EXCEPT ![p.term] = Append(@, [term |-> p.term, val |-> p.val])]
  /\ pending' = [pending EXCEPT ![i] =
                   {q \in @ : q.index # LastIndex(i) + 1}
                   \cup {[index |-> LastIndex(i) + 1, val |-> p.val]}]
  /\ proposing' = [proposing EXCEPT ![i] = @ \ {p}]
  /\ UNCHANGED <<stateVars, persisted, snap, commitIndex, lastApplied, leadVars,
                 loopVars, appending, netVars, envVars, elected, applied, acked,
                 stored>>

----------------------------------------------------------------------------
(* Replication rounds *)

\* Mutant: the fastest follower's match index.
CompactIndex_Fastest(i) ==
  match[i][CHOOSE j \in Peers(i) : \A p \in Peers(i) : match[i][j] >= match[i][p]]

\* replicate_round's compact_index: the slowest follower's match index, or what a
\* node without peers has applied.
CompactIndex(i) ==
  LET slowest == {j \in Peers(i) : \A p \in Peers(i) : match[i][j] <= match[i][p]}
  IN  IF slowest = {} THEN lastApplied[i] ELSE match[i][CHOOSE j \in slowest : TRUE]

\* replicate_round up to its first exchange: sync the log, read the commit
\* index and the compaction point all peers have reached.
RoundStart(i) ==
  /\ phase[i] = "idle" /\ role[i] = "Leader"
  /\ rounds < MaxRound
  /\ Free
  /\ rounds' = rounds + 1
  /\ persisted' = [persisted EXCEPT ![i] = Synced(i)]
  /\ stored' = stored \cup {[term |-> term[i], node |-> i, index |-> Synced(i)]}
  /\ phase' = [phase EXCEPT ![i] = "round"]
  /\ loopTerm' = [loopTerm EXCEPT ![i] = term[i]]
  /\ roundCommit' = [roundCommit EXCEPT ![i] = commitIndex[i]]
  /\ compactTo' = [compactTo EXCEPT ![i] = CompactIndex(i)]
  /\ todo' = [todo EXCEPT ![i] = {j \in Peers(i) : exch[i][j].st = "idle"}]
  /\ UNCHANGED <<stateVars, log, snap, commitIndex, lastApplied, leadVars,
                 pending, votes, taskVars, netVars, unproposed, elections, crashes,
                 elected, applied, acked, ledger>>

\* replicate_round: the exchanges with peers J.  The code takes them one by one,
\* each reading the entries under a log lock taken after the sync.  A leader's
\* next index stays above its snapshot (NoStrandedPeer), so prev is in its log.
Launch(i, J) ==
  /\ phase[i] = "round" /\ J # {}
  /\ MayFinish("launch")
  /\ "launch" \notin Races => J = todo[i]
  /\ LET prev(j) == next[i][j] - 1
         req(j) == [term |-> loopTerm[i], prev |-> prev(j),
                    prevTerm |-> Max(TermAt(i, prev(j)), 0),
                    entries |-> SubSeq(log[i], prev(j) + 1, LastIndex(i)),
                    commit |-> roundCommit[i], compact |-> compactTo[i]]
     IN  exch' = [exch EXCEPT ![i] =
           [j \in Server |-> IF j \in J THEN [st |-> "sent", req |-> req(j)] ELSE @[j]]]
  /\ todo' = [todo EXCEPT ![i] = @ \ J]
  /\ UNCHANGED <<stateVars, logVars, leadVars, pending, phase, loopTerm, votes,
                 compactTo, roundCommit, taskVars, late, ballots, envVars,
                 histVars>>

\* Mutant: a back-off of two.
BackOff_Two(n) == n - 2

\* take_reply's back-off after a refusal, to retry with an earlier prefix.
BackOff(n) == IF n > 1 THEN n - 1 ELSE n

\* take_reply on an answer of this leadership.
TakeReply(i, j) ==
  /\ phase[i] = "round" /\ todo[i] = {}
  /\ exch[i][j].st = "acked"
  /\ exch[i][j].term = loopTerm[i]
  /\ Free
  /\ exch' = [exch EXCEPT ![i][j] = NoExchange]
  /\ LET a == exch[i][j].ack
     IN \/ /\ a.term > loopTerm[i]
           /\ IF a.term > term[i]
              THEN /\ term' = [term EXCEPT ![i] = a.term]
                   /\ role' = [role EXCEPT ![i] = "Follower"]
                   /\ votedFor' = [votedFor EXCEPT ![i] = None]
                   /\ pending' = [pending EXCEPT ![i] = {}]
              ELSE UNCHANGED <<stateVars, pending>>
           /\ phase' = [phase EXCEPT ![i] = "idle"]
           /\ UNCHANGED leadVars
        \/ /\ a.term <= loopTerm[i] /\ a.success
           /\ match' = [match EXCEPT ![i][j] = a.matchIndex]
           /\ next' = [next EXCEPT ![i][j] = a.matchIndex + 1]
           /\ UNCHANGED <<stateVars, pending, phase>>
        \/ /\ a.term <= loopTerm[i] /\ ~a.success
           /\ next' = [next EXCEPT ![i][j] = BackOff(@)]
           /\ UNCHANGED <<stateVars, pending, phase, match>>
  /\ UNCHANGED <<logVars, loopTerm, votes, compactTo, roundCommit, todo,
                 taskVars, late, ballots, envVars, histVars>>

\* The exchange with j missed its deadline or its connection broke.
Timeout(i, j) ==
  /\ phase[i] = "round" /\ todo[i] = {} /\ exch[i][j].st # "idle"
  /\ Free
  /\ late' = Leftover(i, {j})
  /\ exch' = [exch EXCEPT ![i][j] = NoExchange]
  /\ UNCHANGED <<stateVars, logVars, leadVars, pending, loopVars, taskVars,
                 ballots, envVars, histVars>>

\* append_exchange's second attempt: the kept connection failed, so the request
\* goes out again on a new one while the first copy may still be delivered.
Resend(i, j) ==
  /\ exch[i][j].st = "sent"
  /\ Free
  /\ late' = late \cup {[from |-> i, to |-> j, req |-> exch[i][j].req]}
  /\ MayBeLate(late')
  /\ UNCHANGED <<stateVars, logVars, leadVars, pending, loopVars, taskVars,
                 exch, ballots, envVars, histVars>>

\* The end of replicate_round: advance_commit_and_apply (for the round's term,
\* whatever the node is by now), answers to the pending clients, compaction.
RoundEnd(i) ==
  LET c == MaybeCommit(i, loopTerm[i])
      took == Taken(log[i], lastApplied[i], c)
      done == {p \in pending[i] : \E a \in took : a.index = p.index}
      la == Max(lastApplied[i], Min(c, LastIndex(i)))
      s == Compacted(i, compactTo[i], la)
  IN
  /\ phase[i] = "round" /\ todo[i] = {}
  /\ Free
  /\ commitIndex' = [commitIndex EXCEPT ![i] = c]
  /\ lastApplied' = [lastApplied EXCEPT ![i] = la]
  /\ applied' = applied \cup took
  /\ acked' = acked \cup {p.val : p \in done}
  /\ pending' = [pending EXCEPT ![i] = @ \ done]
  /\ snap' = [snap EXCEPT ![i] = s]
  /\ persisted' = [persisted EXCEPT ![i] = IF s # snap[i] THEN LastIndex(i) ELSE @]
  /\ phase' = [phase EXCEPT ![i] = "idle"]
  /\ UNCHANGED <<stateVars, log, leadVars, loopTerm, votes, compactTo,
                 roundCommit, todo, taskVars, netVars, envVars, elected, ledger,
                 stored>>

\* step_down: the lease ran out.
StepDown(i) ==
  /\ phase[i] = "idle" /\ role[i] = "Leader"
  /\ Free
  /\ role' = [role EXCEPT ![i] = "Follower"]
  /\ pending' = [pending EXCEPT ![i] = {}]
  /\ UNCHANGED <<term, votedFor, logVars, leadVars, loopVars, taskVars, netVars,
                 envVars, histVars>>

----------------------------------------------------------------------------
(* Followers *)

\* on_append_entries, first section, for request r of leader l: a stale term
\* is refused, anything else makes the node a follower of r.term.
EnterAppend(i, l, r) ==
  IF r.term < term[i]
  THEN UNCHANGED <<stateVars, pending, appending>>
  ELSE /\ term' = [term EXCEPT ![i] = r.term]
       /\ votedFor' = [votedFor EXCEPT ![i] = IF r.term > term[i] THEN None ELSE @]
       /\ role' = [role EXCEPT ![i] = "Follower"]
       /\ pending' = [pending EXCEPT ![i] = IF role[i] = "Leader" THEN {} ELSE @]
       /\ appending' = [appending EXCEPT ![i] = @ \cup {[from |-> l, req |-> r]}]

\* The request arrives while the leader waits for the answer.
OnAppendEntries(i, l) ==
  /\ exch[l][i].st = "sent"
  /\ Free
  /\ LET r == exch[l][i].req
     IN /\ EnterAppend(i, l, r)
        /\ exch' = [exch EXCEPT ![l][i] =
             IF r.term < term[i]
             THEN [st |-> "acked", term |-> r.term,
                   ack |-> [term |-> term[i], success |-> FALSE, matchIndex |-> 0]]
             ELSE [st |-> "handling", req |-> r]]
  /\ UNCHANGED <<logVars, leadVars, loopVars, proposing, late, ballots, envVars,
                 histVars>>

\* The request arrives after the leader has given it up.
OnLateAppendEntries(m) ==
  /\ Free
  /\ EnterAppend(m.to, m.from, m.req)
  /\ late' = late \ {m}
  /\ UNCHANGED <<logVars, leadVars, loopVars, proposing, exch, ballots, envVars,
                 histVars>>

\* on_append_entries, second section: consistency check, append, commit, apply
\* and compact; the reply carries the term the node has by then.
FinishAppend(i, a) ==
  LET r == a.req
      ok == TermAt(i, r.prev) = r.prevTerm
      l == IF ok THEN Appended(log[i], r.prev, r.entries) ELSE log[i]
      c == IF ok THEN Max(commitIndex[i], Min(r.commit, Len(l))) ELSE commitIndex[i]
      la == IF ok THEN Max(lastApplied[i], Min(c, Len(l))) ELSE lastApplied[i]
  IN
  /\ MayFinish("append")
  /\ log' = [log EXCEPT ![i] = l]
  /\ persisted' = [persisted EXCEPT ![i] = IF ok THEN Len(l) ELSE @]
  /\ commitIndex' = [commitIndex EXCEPT ![i] = c]
  /\ lastApplied' = [lastApplied EXCEPT ![i] = la]
  /\ applied' = applied \cup IF ok THEN Taken(l, lastApplied[i], c) ELSE {}
  /\ stored' = stored \cup
       IF ok THEN {[term |-> r.term, node |-> i, index |-> Len(l)]} ELSE {}
  /\ snap' = [snap EXCEPT ![i] = IF ok THEN Compacted(i, r.compact, la) ELSE @]
  /\ appending' = [appending EXCEPT ![i] = @ \ {a}]
  /\ exch' = IF exch[a.from][i] = [st |-> "handling", req |-> r]
             THEN [exch EXCEPT ![a.from][i] =
                     [st |-> "acked", term |-> r.term,
                      ack |-> [term |-> term[i], success |-> ok,
                               matchIndex |-> IF ok THEN Len(l) ELSE 0]]]
             ELSE exch
  /\ UNCHANGED <<stateVars, leadVars, pending, loopVars, proposing, late,
                 ballots, envVars, elected, acked, ledger>>

----------------------------------------------------------------------------
\* The process dies and restarts (Node::new, RaftLog::open): election state and
\* the synced part of the log survive, both cursors restart at the snapshot.
Crash(i) ==
  /\ crashes < MaxCrash
  /\ Free
  /\ crashes' = crashes + 1
  /\ role' = [role EXCEPT ![i] = "Follower"]
  /\ log' = [log EXCEPT ![i] = SubSeq(@, 1, persisted[i])]
  /\ commitIndex' = [commitIndex EXCEPT ![i] = snap[i]]
  /\ lastApplied' = [lastApplied EXCEPT ![i] = snap[i]]
  /\ pending' = [pending EXCEPT ![i] = {}]
  /\ phase' = [phase EXCEPT ![i] = "idle"]
  /\ votes' = [votes EXCEPT ![i] = {}]
  /\ todo' = [todo EXCEPT ![i] = {}]
  /\ proposing' = [proposing EXCEPT ![i] = {}]
  /\ appending' = [appending EXCEPT ![i] = {}]
  /\ late' = Leftover(i, Peers(i))
  /\ exch' = [exch EXCEPT ![i] = [j \in Server |-> NoExchange]]
  /\ UNCHANGED <<term, votedFor, persisted, snap, leadVars, loopTerm, compactTo,
                 roundCommit, ballots, unproposed, elections, rounds, histVars>>

Next ==
  \/ \E i \in Server : StartElection(i)
  \/ \E m \in ballots : OnRequestVote(m)
  \/ \E i \in Server : Tally(i)
  \/ \E i \in Server : TakeOffice(i)
  \/ \E i \in Server, v \in Value : Propose(i, v)
  \/ \E i \in Server : \E p \in proposing[i] : ProposeAppend(i, p)
  \/ \E i \in Server : RoundStart(i)
  \/ \E i \in Server : \E J \in SUBSET todo[i] : Launch(i, J)
  \/ \E i, j \in Server : TakeReply(i, j)
  \/ \E i, j \in Server : Timeout(i, j)
  \/ \E i, j \in Server : Resend(i, j)
  \/ \E i \in Server : RoundEnd(i)
  \/ \E i \in Server : StepDown(i)
  \/ \E i, l \in Server : OnAppendEntries(i, l)
  \/ \E m \in late : OnLateAppendEntries(m)
  \/ \E i \in Server : \E a \in appending[i] : FinishAppend(i, a)
  \/ \E i \in Server : Crash(i)

Spec == Init /\ [][Next]_vars

----------------------------------------------------------------------------
(* Type correctness, by group of variables. *)
StateType ==
  /\ term \in [Server -> Nat]
  /\ votedFor \in [Server -> Server \cup {None}]
  /\ role \in [Server -> {"Follower", "Candidate", "Leader"}]
LogType ==
  /\ log \in [Server -> Seq(Entry)]
  /\ persisted \in [Server -> Nat]
  /\ \A i \in Server : persisted[i] <= Len(log[i])
CursorType ==
  /\ snap \in [Server -> Nat]
  /\ commitIndex \in [Server -> Nat]
  /\ lastApplied \in [Server -> Nat]
LeadType ==
  /\ next \in [Server -> [Server -> Nat \ {0}]]
  /\ match \in [Server -> [Server -> Nat]]
PendingType == pending \in [Server -> SUBSET [index : Nat, val : Value]]
LoopType ==
  /\ phase \in [Server -> {"idle", "elect", "elected", "round"}]
  /\ loopTerm \in [Server -> Nat]
  /\ votes \in [Server -> SUBSET VoteReply]
RoundType ==
  /\ compactTo \in [Server -> Nat]
  /\ roundCommit \in [Server -> Nat]
  /\ todo \in [Server -> SUBSET Server]
TaskType ==
  /\ proposing \in [Server -> SUBSET [term : Nat, val : Value]]
  /\ appending \in [Server -> SUBSET [from : Server, req : Request]]
NetType ==
  /\ exch \in [Server -> [Server -> Exchange]]
  /\ late \in SUBSET [from : Server, to : Server, req : Request]
  /\ ballots \in SUBSET Ballot
EnvType ==
  unproposed \in SUBSET Value /\ elections \in Nat /\ rounds \in Nat /\ crashes \in Nat
HistType ==
  /\ elected \in SUBSET [term : Nat, node : Server, voters : SUBSET Server]
  /\ applied \in SUBSET [index : Nat, entry : Entry]
  /\ acked \in SUBSET Value
  /\ ledger \in [{e.term : e \in elected} -> Seq(Entry)]
  /\ stored \in SUBSET [term : Nat, node : Server, index : Nat]

\* Every variable of the node and of its environment has its type, and no more
\* of a log is on disk than there is in memory.
TypeOK ==
  /\ StateType /\ LogType /\ CursorType /\ LeadType /\ PendingType /\ LoopType
  /\ RoundType /\ TaskType /\ NetType /\ EnvType /\ HistType

\* cluster.rs, start_election and on_request_vote: a term has at most one
\* leader, ever.  Terms and votes are saved before they are acted on, so a
\* restarted node does not vote twice.
ElectionSafety == \A e, f \in elected : e.term = f.term => e.node = f.node

(* Why elections are safe: a vote binds its voter for the rest of the term. *)
BoundTo(v, t, c) == term[v] > t \/ (term[v] = t /\ votedFor[v] = c)
VotesBind ==
  \A c \in Server : phase[c] = "elect" => \A v \in Granted(c) : BoundTo(v, loopTerm[c], c)
VotesExclude ==
  \A c, d \in Server :
    phase[c] = "elect" /\ phase[d] = "elect" /\ loopTerm[c] = loopTerm[d] /\ c # d
      => Granted(c) \cap Granted(d) = {}
WinsBind ==
  \A e \in elected : IsMajority(e.voters) /\ \A v \in e.voters : BoundTo(v, e.term, e.node)
WinsExclude ==
  \A e \in elected, c \in Server :
    phase[c] = "elect" /\ loopTerm[c] = e.term /\ c # e.node
      => e.voters \cap Granted(c) = {}

\* cluster.rs, on_request_vote and start_election: what every step keeps true of
\* votes counted, elections won and the saved term and vote of each voter.  The
\* inductive invariant behind ElectionSafety.
VoteInv == VotesBind /\ VotesExclude /\ WinsBind /\ WinsExclude /\ ElectionSafety

\* raftlog.rs, take_applicable: no two nodes ever hand different entries at one
\* index to their databases, restarts included.
StateMachineSafety == \A a, b \in applied : a.index = b.index => a = b

OnDisk(s, a) ==
  a.index <= persisted[s] /\ a.index <= Len(log[s]) /\ log[s][a.index] = a.entry

\* cluster.rs, header: what has been applied anywhere (and so may have been
\* acknowledged) is in the durable log of a majority, and stays there whatever
\* crashes or is truncated later.
AppliedOnQuorum == \A a \in applied : IsMajority({s \in Server : OnDisk(s, a)})

\* raftlog.rs, append_entries: two logs with the same term at an index are equal
\* up to that index, so the consistency check at prev covers the whole prefix.
LogMatching ==
  \A i, j \in Server : \A k \in 1..Min(Len(log[i]), Len(log[j])) :
    log[i][k].term = log[j][k].term => \A m \in 1..k : log[i][m] = log[j][m]

\* raftlog.rs, is_up_to_date: the leader of the newest term holds everything any
\* node has applied.
LeaderCompleteness ==
  \A i \in Server :
    /\ role[i] = "Leader"
    /\ \A e \in elected : e.term <= term[i]
    => \A a \in applied : a.index <= Len(log[i]) /\ log[i][a.index] = a.entry

\* cluster.rs, replicate_round's compact_index: compaction never drops an entry
\* that a leader's progress says some peer has still to be sent.
NoStrandedPeer ==
  \A i, j \in Server :
    role[i] = "Leader" /\ phase[i] # "elected" /\ i # j => next[i][j] > snap[i]

\* raftlog.rs, append_entries: truncation and restart never touch an entry the
\* node has already applied.
AppliedPrefixStable ==
  [][\A i \in Server : \A k \in 1..lastApplied[i] :
       k <= Len(log'[i]) /\ log'[i][k] = log[i][k]]_vars

\* cluster.rs, header: a write whose client was told success has been committed
\* and applied.
AckedIsApplied == \A v \in acked : \E a \in applied : a.entry.val = v

\* cluster.rs, replicate_round: what a leader has sent is on its own disk.
SentIsSynced ==
  \A i, j \in Server :
    exch[i][j].st = "sent" /\ role[i] = "Leader"
      => exch[i][j].req.prev + Len(exch[i][j].req.entries) <= persisted[i]
=============================================================================
