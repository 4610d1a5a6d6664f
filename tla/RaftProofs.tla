----------------------------- MODULE RaftProofs -----------------------------
(***************************************************************************)
(* Theorems about Raft, for any number of servers, any writes and any      *)
(* bounds.  Types and elections are proved for every choice of interleaved *)
(* operations, the replicated log for operations that are not interleaved. *)
(***************************************************************************)
EXTENDS Raft, TLAPS, FiniteSetTheorems, SequenceTheorems, NaturalRecursion

----------------------------------------------------------------------------
(* Sequences *)

\* A slice that starts at 1 or later and ends within the sequence.
LEMMA SliceType ==
  ASSUME NEW S, NEW s \in Seq(S), NEW m \in Nat \ {0}, NEW n \in Nat, n <= Len(s)
  PROVE  SubSeq(s, m, n) \in Seq(S)
<1>1. CASE m > n
  <2>1. SubSeq(s, m, n) = << >>
    BY <1>1, SubSeqEmpty
  <2> QED  BY <2>1
<1>2. CASE m <= n
  <2>1. m \in 1..Len(s) + 1 /\ n \in m - 1 .. Len(s)
    BY <1>2, LenProperties
  <2> QED  BY <2>1, SubSeqProperties
<1> QED  BY <1>1, <1>2

\* append_entries leaves a log: whatever it cuts and pushes.
LEMMA AppendedType ==
  ASSUME NEW l \in Seq(Entry), NEW es \in Seq(Entry), NEW prev \in Nat, prev <= Len(l)
  PROVE  Appended(l, prev, es) \in Seq(Entry)
<1> DEFINE C == FirstConflict(l, prev, es)
           k == CHOOSE c \in C : TRUE
<1>0. Len(l) \in Nat /\ Len(es) \in Nat
  BY LenProperties
<1>1. CASE C # {}
  <2>1. k \in C
    BY <1>1
  <2>2. k \in 1..Len(es) /\ prev + k <= Len(l)
    BY <2>1 DEF FirstConflict, Differs
  <2> HIDE DEF k
  <2>3. SubSeq(l, 1, prev + k - 1) \in Seq(Entry)
    BY <2>2, <1>0, SliceType
  <2>4. SubSeq(es, k, Len(es)) \in Seq(Entry)
    BY <2>2, <1>0, SliceType
  <2>5. SubSeq(l, 1, prev + k - 1) \o SubSeq(es, k, Len(es)) \in Seq(Entry)
    BY <2>3, <2>4, ConcatProperties
  <2> QED  BY <2>5, <1>1 DEF Appended, k
<1>2. CASE C = {} /\ Len(l) >= prev + Len(es)
  BY <1>2 DEF Appended
<1>3. CASE C = {} /\ ~(Len(l) >= prev + Len(es))
  <2>1. SubSeq(es, Len(l) - prev + 1, Len(es)) \in Seq(Entry)
    BY <1>0, SliceType
  <2>2. l \o SubSeq(es, Len(l) - prev + 1, Len(es)) \in Seq(Entry)
    BY <2>1, ConcatProperties
  <2> QED  BY <2>2, <1>3 DEF Appended
<1> QED  BY <1>1, <1>2, <1>3

----------------------------------------------------------------------------
(* Type correctness *)

\* The initial states have their types.
LEMMA InitType == Init => TypeOK
<1> SUFFICES ASSUME Init PROVE TypeOK
  OBVIOUS
<1>1. StateType /\ CursorType /\ LeadType /\ PendingType /\ LoopType /\ RoundType
  BY DEF Init, StateType, CursorType, LeadType, PendingType, LoopType, RoundType
<1>2. LogType
  BY EmptySeq DEF Init, LogType
<1>3. TaskType /\ EnvType /\ HistType
  BY BoundsAssumption DEF Init, TaskType, EnvType, HistType
<1>4. NetType
  BY DEF Init, NetType, Exchange, NoExchange
<1> QED  BY <1>1, <1>2, <1>3, <1>4 DEF TypeOK

\* What the helpers on logs return.
LEMMA LogFacts ==
  ASSUME LogType, CursorType, NEW i \in Server
  PROVE  /\ LastIndex(i) \in Nat
         /\ LastTerm(i) \in Nat
         /\ \A k \in Nat : TermAt(i, k) \in Int
         /\ \A k \in Nat : k > Len(log[i]) => TermAt(i, k) = -1
         /\ \A k \in 1..Len(log[i]) : log[i][k] \in Entry
<1>1. log[i] \in Seq(Entry) /\ snap[i] \in Nat
  BY DEF LogType, CursorType
<1>2. Len(log[i]) \in Nat /\ \A k \in 1..Len(log[i]) : log[i][k] \in Entry
  BY <1>1, LenProperties, ElementOfSeq
<1>3. LastTerm(i) \in Nat
  <2>1. CASE log[i] = << >>  BY <2>1 DEF LastTerm
  <2>2. CASE log[i] # << >>
    <3>1. Len(log[i]) \in 1..Len(log[i])
      BY <2>2, <1>1, <1>2, EmptySeq
    <3> QED  BY <2>2, <3>1, <1>2 DEF LastTerm, Entry
  <2> QED  BY <2>1, <2>2
<1> QED  BY <1>1, <1>2, <1>3 DEF LastIndex, TermAt, Entry

\* Requests still on their way when a round ends are requests.
LEMMA LeftoverType ==
  ASSUME NetType, NEW i \in Server, NEW J \in SUBSET Server
  PROVE  Leftover(i, J) \in SUBSET [from : Server, to : Server, req : Request]
<1>1. \A j \in J : exch[i][j].st = "sent" => exch[i][j].req \in Request
  BY DEF NetType, Exchange
<1> QED  BY <1>1 DEF NetType, Leftover

\* What a leader appends to its term's ledger is one more entry.
LEMMA LedgerAppendType ==
  ASSUME HistType, NEW t, NEW x \in Entry
  PROVE  [ledger EXCEPT ![t] = Append(@, x)] \in [{e.term : e \in elected} -> Seq(Entry)]
<1> DEFINE T == {e.term : e \in elected}
<1>1. ledger \in [T -> Seq(Entry)]
  BY DEF HistType
<1> HIDE DEF T
<1>2. \A u \in T : Append(ledger[u], x) \in Seq(Entry)
  BY <1>1, AppendProperties
<1>3. [ledger EXCEPT ![t] = Append(@, x)] \in [T -> Seq(Entry)]
  BY <1>1, <1>2
<1> QED  BY <1>3 DEF T

\* StartElection keeps the types.
LEMMA StartElectionType ==
  ASSUME TypeOK, NEW i \in Server, StartElection(i)  PROVE TypeOK'
<1> USE DEF TypeOK
<1>1. StateType' /\ LoopType' /\ EnvType'
  BY DEF StartElection, StateType, LoopType, EnvType
<1>2. NetType'
  <2>1. LastIndex(i) \in Nat /\ LastTerm(i) \in Nat /\ Peers(i) \subseteq Server
    BY LogFacts DEF Peers
  <2>2. late' \in SUBSET [from : Server, to : Server, req : Request]
    BY <2>1, LeftoverType DEF StartElection
  <2>3. ballots' \in SUBSET Ballot
    BY <2>1 DEF StartElection, NetType, StateType, Ballot
  <2>4. exch' \in [Server -> [Server -> Exchange]]
    BY DEF StartElection, NetType, Exchange, NoExchange
  <2> QED  BY <2>2, <2>3, <2>4 DEF NetType
<1>3. LogType' /\ CursorType' /\ LeadType' /\ PendingType' /\ RoundType' /\ TaskType'
        /\ HistType'
  BY DEF StartElection, LogType, CursorType, LeadType, PendingType, RoundType, TaskType,
         HistType, logVars, diskVars, cursorVars, leadVars, taskVars, histVars
<1> QED  BY <1>1, <1>2, <1>3

\* OnRequestVote keeps the types.
LEMMA OnRequestVoteType ==
  ASSUME TypeOK, NEW m \in ballots, OnRequestVote(m)  PROVE TypeOK'
<1> USE DEF TypeOK
<1>0. m \in Ballot /\ m.to \in Server /\ m.cand \in Server /\ m.term \in Nat
  BY DEF NetType, Ballot
<1>1. StateType'
  BY <1>0 DEF OnRequestVote, StateType, Max
<1>2. LoopType'
  <2>1. \E t \in Nat, g \in BOOLEAN :
          votes' = IF phase[m.cand] = "elect" /\ loopTerm[m.cand] = m.term
                   THEN [votes EXCEPT ![m.cand] =
                           @ \cup {[from |-> m.to, term |-> t, granted |-> g]}]
                   ELSE votes
    <3> DEFINE t == Max(m.term, term[m.to])
               v == IF m.term > term[m.to] THEN None ELSE votedFor[m.to]
               g == m.term = t /\ MayVote(v, m.cand)
                      /\ IsUpToDate(m.to, m.lastTerm, m.lastIndex)
    <3>1. t \in Nat
      BY <1>0 DEF StateType, Max
    <3>2. g \in BOOLEAN
      OBVIOUS
    <3>3. votes' = IF phase[m.cand] = "elect" /\ loopTerm[m.cand] = m.term
                   THEN [votes EXCEPT ![m.cand] =
                           @ \cup {[from |-> m.to, term |-> t, granted |-> g]}]
                   ELSE votes
      BY Zenon DEF OnRequestVote
    <3> HIDE DEF t, g
    <3> QED  BY <3>1, <3>2, <3>3
  <2>2. PICK t \in Nat, g \in BOOLEAN :
          votes' = IF phase[m.cand] = "elect" /\ loopTerm[m.cand] = m.term
                   THEN [votes EXCEPT ![m.cand] =
                           @ \cup {[from |-> m.to, term |-> t, granted |-> g]}]
                   ELSE votes
    BY <2>1
  <2>3. [from |-> m.to, term |-> t, granted |-> g] \in VoteReply
    BY <1>0 DEF VoteReply
  <2>4. phase' = phase /\ loopTerm' = loopTerm
    BY DEF OnRequestVote
  <2> QED  BY <1>0, <2>2, <2>3, <2>4 DEF LoopType
<1>3. NetType'
  BY DEF OnRequestVote, NetType
<1>4. LogType' /\ CursorType' /\ LeadType' /\ PendingType' /\ RoundType' /\ TaskType' /\ EnvType' /\ HistType'
  BY DEF OnRequestVote, LogType, CursorType, LeadType, PendingType, RoundType, TaskType, EnvType, HistType,
         logVars, diskVars, cursorVars, leadVars, loopVars, roundVars, taskVars, netVars,
         envVars, histVars, stateVars
<1> QED  BY <1>1, <1>2, <1>3, <1>4

\* Tally keeps the types.
LEMMA TallyType ==
  ASSUME TypeOK, NEW i \in Server, Tally(i)  PROVE TypeOK'
<1> USE DEF TypeOK
<1>1. StateType' /\ LoopType'
  BY DEF Tally, StateType, LoopType, VoteReply
<1>2. HistType'
  <2> DEFINE e == [term |-> term[i], node |-> i, voters |-> Granted(i)]
             g == [t \in DOMAIN ledger \cup {term[i]} |->
                     IF t = term[i] THEN log[i] ELSE ledger[t]]
             T == {x.term : x \in elected}
  <2>1. /\ applied' = applied /\ acked' = acked /\ stored' = stored
        /\ \/ elected' = elected /\ ledger' = ledger
           \/ elected' = elected \cup {e} /\ ledger' = g
    BY DEF Tally
  <2>2. CASE elected' = elected /\ ledger' = ledger
    BY <2>1, <2>2 DEF HistType
  <2>3. CASE elected' = elected \cup {e} /\ ledger' = g
    <3>1. e \in [term : Nat, node : Server, voters : SUBSET Server]
      BY DEF StateType, LoopType, VoteReply, Granted
    <3>2. {x.term : x \in elected'} = T \cup {term[i]}
      <4>1. e.term = term[i]
        OBVIOUS
      <4> HIDE DEF e
      <4> QED  BY <2>3, <4>1
    <3>3. ledger \in [T -> Seq(Entry)] /\ log[i] \in Seq(Entry)
      BY DEF HistType, LogType
    <3> HIDE DEF T
    <3>4. g \in [T \cup {term[i]} -> Seq(Entry)]
      BY <3>3
    <3> HIDE DEF g, e
    <3> QED  BY <2>1, <2>3, <3>1, <3>2, <3>4 DEF HistType
  <2> QED  BY <2>1, <2>2, <2>3
<1>3. LogType' /\ CursorType' /\ LeadType' /\ PendingType' /\ RoundType' /\ TaskType' /\ NetType' /\ EnvType'
  BY DEF Tally, LogType, CursorType, LeadType, PendingType, RoundType, TaskType, NetType, EnvType,
         logVars, diskVars, cursorVars, leadVars, loopVars, roundVars, taskVars, netVars,
         envVars, histVars, stateVars
<1> QED  BY <1>1, <1>2, <1>3

\* TakeOffice keeps the types.
LEMMA TakeOfficeType ==
  ASSUME TypeOK, NEW i \in Server, TakeOffice(i)  PROVE TypeOK'
<1> USE DEF TypeOK
<1>0. LastIndex(i) \in Nat
  BY LogFacts
<1>1. LeadType' /\ LoopType'
  BY <1>0 DEF TakeOffice, LeadType, LoopType
<1>2. LogType'
  <2>1. log[i] \in Seq(Entry) /\ [term |-> loopTerm[i], val |-> Noop] \in Entry
    BY DEF LogType, LoopType, Entry
  <2> QED  BY <2>1, AppendProperties DEF TakeOffice, LogType
<1>3. HistType'
  <2>1. [term |-> loopTerm[i], val |-> Noop] \in Entry
    BY DEF LoopType, Entry
  <2> QED  BY <2>1, LedgerAppendType DEF TakeOffice, HistType
<1>4. StateType' /\ CursorType' /\ PendingType' /\ RoundType' /\ TaskType' /\ NetType' /\ EnvType'
  BY DEF TakeOffice, StateType, CursorType, PendingType, RoundType, TaskType, NetType, EnvType,
         logVars, diskVars, cursorVars, leadVars, loopVars, roundVars, taskVars, netVars,
         envVars, histVars, stateVars
<1> QED  BY <1>1, <1>2, <1>3, <1>4

\* Propose keeps the types.
LEMMA ProposeType ==
  ASSUME TypeOK, NEW i \in Server, NEW v \in Value, Propose(i, v)  PROVE TypeOK'
<1> USE DEF TypeOK
<1>1. TaskType' /\ EnvType'
  BY DEF Propose, TaskType, EnvType, StateType
<1>2. StateType' /\ LogType' /\ CursorType' /\ LeadType' /\ PendingType' /\ LoopType' /\ RoundType' /\ NetType' /\ HistType'
  BY DEF Propose, StateType, LogType, CursorType, LeadType, PendingType, LoopType, RoundType, NetType, HistType,
         logVars, diskVars, cursorVars, leadVars, loopVars, roundVars, taskVars, netVars,
         envVars, histVars, stateVars
<1> QED  BY <1>1, <1>2

\* ProposeAppend keeps the types.
LEMMA ProposeAppendType ==
  ASSUME TypeOK, NEW i \in Server, NEW p \in proposing[i], ProposeAppend(i, p)
  PROVE  TypeOK'
<1> USE DEF TypeOK
<1>0. LastIndex(i) \in Nat /\ p.term \in Nat /\ p.val \in Value
  BY LogFacts DEF TaskType
<1>1. LogType'
  <2>1. log[i] \in Seq(Entry) /\ [term |-> p.term, val |-> p.val] \in Entry
    BY <1>0 DEF LogType, Entry
  <2> QED  BY <2>1, AppendProperties DEF ProposeAppend, LogType
<1>2. PendingType'
  BY <1>0 DEF ProposeAppend, PendingType
<1>3. TaskType'
  BY DEF ProposeAppend, TaskType
<1>4. HistType'
  <2>1. [term |-> p.term, val |-> p.val] \in Entry
    BY <1>0 DEF Entry
  <2> QED  BY <2>1, LedgerAppendType DEF ProposeAppend, HistType
<1>5. StateType' /\ CursorType' /\ LeadType' /\ LoopType' /\ RoundType' /\ NetType' /\ EnvType'
  BY DEF ProposeAppend, StateType, CursorType, LeadType, LoopType, RoundType, NetType, EnvType,
         logVars, diskVars, cursorVars, leadVars, loopVars, roundVars, taskVars, netVars,
         envVars, histVars, stateVars
<1> QED  BY <1>1, <1>2, <1>3, <1>4, <1>5

\* RoundStart keeps the types.
LEMMA RoundStartType ==
  ASSUME TypeOK, NEW i \in Server, RoundStart(i)  PROVE TypeOK'
<1> USE DEF TypeOK
<1>1. LogType'
  BY LogFacts DEF RoundStart, LogType, Synced, LastIndex
<1>2. LoopType' /\ EnvType'
  BY DEF RoundStart, LoopType, StateType, EnvType
<1>3. RoundType'
  <2>1. CompactIndex(i) \in Nat
    BY DEF CompactIndex, Peers, LeadType, CursorType
  <2> QED  BY <2>1 DEF RoundStart, RoundType, CursorType, Peers
<1>4. HistType'
  <2>1. [term |-> term[i], node |-> i, index |-> Synced(i)] \in [term : Nat, node : Server, index : Nat]
    BY LogFacts DEF StateType, Synced
  <2> QED  BY <2>1 DEF RoundStart, HistType
<1>5. StateType' /\ CursorType' /\ LeadType' /\ PendingType' /\ TaskType' /\ NetType'
  BY DEF RoundStart, StateType, CursorType, LeadType, PendingType, TaskType, NetType,
         logVars, diskVars, cursorVars, leadVars, loopVars, roundVars, taskVars, netVars,
         envVars, histVars, stateVars
<1> QED  BY <1>1, <1>2, <1>3, <1>4, <1>5

\* Launch keeps the types.
LEMMA LaunchType ==
  ASSUME TypeOK, NEW i \in Server, NEW J \in SUBSET todo[i], Launch(i, J)
  PROVE  TypeOK'
<1> USE DEF TypeOK
<1> DEFINE prev(j) == next[i][j] - 1
           req(j) == [term |-> loopTerm[i], prev |-> prev(j),
                      prevTerm |-> Max(TermAt(i, prev(j)), 0),
                      entries |-> SubSeq(log[i], prev(j) + 1, LastIndex(i)),
                      commit |-> roundCommit[i], compact |-> compactTo[i]]
<1>1. \A j \in Server : req(j) \in Request
  <2> SUFFICES ASSUME NEW j \in Server PROVE req(j) \in Request
    OBVIOUS
  <2>1. prev(j) \in Nat
    BY DEF LeadType
  <2>2. Max(TermAt(i, prev(j)), 0) \in Nat
    <3> HIDE DEF prev
    <3>1. TermAt(i, prev(j)) \in Int
      BY <2>1, LogFacts
    <3> QED  BY <3>1 DEF Max
  <2>3. SubSeq(log[i], prev(j) + 1, LastIndex(i)) \in Seq(Entry)
    <3>1. log[i] \in Seq(Entry) /\ LastIndex(i) \in Nat /\ LastIndex(i) <= Len(log[i])
      BY LogFacts DEF LogType, LastIndex
    <3>2. prev(j) + 1 \in Nat \ {0}
      BY <2>1
    <3> HIDE DEF prev
    <3> QED  BY <3>1, <3>2, SliceType
  <2> QED  BY <2>1, <2>2, <2>3 DEF Request, LoopType, RoundType
<1>2. exch' = [exch EXCEPT ![i] =
        [j \in Server |-> IF j \in J THEN [st |-> "sent", req |-> req(j)] ELSE exch[i][j]]]
  BY DEF Launch, NetType
<1>3. NetType'
  <2> HIDE DEF req
  <2>1. \A j \in Server : [st |-> "sent", req |-> req(j)] \in Exchange
    BY <1>1 DEF Exchange
  <2>2. exch' \in [Server -> [Server -> Exchange]]
    BY <1>2, <2>1 DEF NetType
  <2>3. late' = late /\ ballots' = ballots
    BY DEF Launch
  <2> QED  BY <2>2, <2>3 DEF NetType
<1>4. RoundType'
  BY DEF Launch, RoundType
<1>5. StateType' /\ LogType' /\ CursorType' /\ LeadType' /\ PendingType' /\ LoopType' /\ TaskType' /\ EnvType' /\ HistType'
  BY DEF Launch, StateType, LogType, CursorType, LeadType, PendingType, LoopType, TaskType, EnvType, HistType,
         logVars, diskVars, cursorVars, leadVars, loopVars, roundVars, taskVars, netVars,
         envVars, histVars, stateVars
<1> QED  BY <1>3, <1>4, <1>5

\* TakeReply keeps the types.
LEMMA TakeReplyType ==
  ASSUME TypeOK, NEW i \in Server, NEW j \in Server, TakeReply(i, j)  PROVE TypeOK'
<1> USE DEF TypeOK
<1>0. exch[i][j].ack \in Ack
  BY DEF TakeReply, NetType, Exchange
<1>1. StateType'
  BY <1>0 DEF TakeReply, StateType, Ack, stateVars
<1>2. LeadType'
  <2> DEFINE a == exch[i][j].ack
  <2>1. a.matchIndex \in Nat /\ a.matchIndex + 1 \in Nat \ {0}
    BY <1>0 DEF Ack
  <2>2. BackOff(next[i][j]) \in Nat \ {0}
    BY DEF BackOff, LeadType
  <2>3. \/ UNCHANGED leadVars
        \/ /\ match' = [match EXCEPT ![i][j] = a.matchIndex]
           /\ next' = [next EXCEPT ![i][j] = a.matchIndex + 1]
        \/ /\ next' = [next EXCEPT ![i][j] = BackOff(@)]
           /\ UNCHANGED match
    BY DEF TakeReply
  <2> HIDE DEF a
  <2>4. CASE UNCHANGED leadVars
    BY <2>4 DEF LeadType, leadVars
  <2>5. CASE /\ match' = [match EXCEPT ![i][j] = a.matchIndex]
             /\ next' = [next EXCEPT ![i][j] = a.matchIndex + 1]
    BY <2>1, <2>5 DEF LeadType
  <2>6. CASE /\ next' = [next EXCEPT ![i][j] = BackOff(@)]
             /\ UNCHANGED match
    BY <2>2, <2>6 DEF LeadType
  <2> QED  BY <2>3, <2>4, <2>5, <2>6
<1>3. PendingType' /\ LoopType'
  BY DEF TakeReply, PendingType, LoopType
<1>4. NetType'
  BY DEF TakeReply, NetType, Exchange, NoExchange
<1>5. LogType' /\ CursorType' /\ RoundType' /\ TaskType' /\ EnvType' /\ HistType'
  BY DEF TakeReply, LogType, CursorType, RoundType, TaskType, EnvType, HistType,
         logVars, diskVars, cursorVars, leadVars, loopVars, roundVars, taskVars, netVars,
         envVars, histVars, stateVars
<1> QED  BY <1>1, <1>2, <1>3, <1>4, <1>5

\* Timeout keeps the types.
LEMMA TimeoutType ==
  ASSUME TypeOK, NEW i \in Server, NEW j \in Server, Timeout(i, j)  PROVE TypeOK'
<1> USE DEF TypeOK
<1>1. late' \in SUBSET [from : Server, to : Server, req : Request]
  BY LeftoverType DEF Timeout
<1>2. NetType'
  BY <1>1 DEF Timeout, NetType, Exchange, NoExchange
<1>3. StateType' /\ LogType' /\ CursorType' /\ LeadType' /\ PendingType' /\ LoopType' /\ RoundType' /\ TaskType' /\ EnvType' /\ HistType'
  BY DEF Timeout, StateType, LogType, CursorType, LeadType, PendingType, LoopType, RoundType, TaskType, EnvType, HistType,
         logVars, diskVars, cursorVars, leadVars, loopVars, roundVars, taskVars, netVars,
         envVars, histVars, stateVars
<1> QED  BY <1>2, <1>3

\* Resend keeps the types.
LEMMA ResendType ==
  ASSUME TypeOK, NEW i \in Server, NEW j \in Server, Resend(i, j)  PROVE TypeOK'
<1> USE DEF TypeOK
<1>1. exch[i][j].req \in Request
  BY DEF Resend, NetType, Exchange
<1>2. NetType'
  BY <1>1 DEF Resend, NetType
<1>3. StateType' /\ LogType' /\ CursorType' /\ LeadType' /\ PendingType' /\ LoopType' /\ RoundType' /\ TaskType' /\ EnvType' /\ HistType'
  BY DEF Resend, StateType, LogType, CursorType, LeadType, PendingType, LoopType, RoundType, TaskType, EnvType, HistType,
         logVars, diskVars, cursorVars, leadVars, loopVars, roundVars, taskVars, netVars,
         envVars, histVars, stateVars
<1> QED  BY <1>2, <1>3

\* Taken keeps the types.
LEMMA TakenType ==
  ASSUME NEW l \in Seq(Entry), NEW from \in Nat, NEW c \in Nat
  PROVE  Taken(l, from, c) \in SUBSET [index : Nat, entry : Entry]
<1>1. Len(l) \in Nat /\ \A k \in 1..Len(l) : l[k] \in Entry
  BY LenProperties, ElementOfSeq
<1> QED  BY <1>1 DEF Taken, Min

\* RoundEnd keeps the types.
LEMMA RoundEndType ==
  ASSUME TypeOK, NEW i \in Server, RoundEnd(i)  PROVE TypeOK'
<1> USE DEF TypeOK
<1> DEFINE c == MaybeCommit(i, loopTerm[i])
           took == Taken(log[i], lastApplied[i], c)
           done == {p \in pending[i] : \E a \in took : a.index = p.index}
           la == Max(lastApplied[i], Min(c, LastIndex(i)))
           s == Compacted(i, compactTo[i], la)
<1>1. c \in Nat /\ LastIndex(i) \in Nat /\ la \in Nat
  <2>1. LastIndex(i) \in Nat /\ commitIndex[i] \in Nat /\ lastApplied[i] \in Nat
    BY LogFacts DEF CursorType
  <2>2. \A x \in Server : MatchOf(i, x) \in Nat
    BY <2>1 DEF MatchOf, LeadType
  <2>3. c \in Nat
    BY <2>1, <2>2 DEF MaybeCommit
  <2> HIDE DEF c
  <2> QED  BY <2>1, <2>3 DEF Max, Min
<1>2. took \in SUBSET [index : Nat, entry : Entry]
  <2> HIDE DEF c
  <2> QED  BY <1>1, TakenType DEF LogType, CursorType
<1>3. s \in Nat
  <2> HIDE DEF la
  <2> QED  BY <1>1 DEF Compacted, CursorType, RoundType
<1>4. /\ commitIndex' = [commitIndex EXCEPT ![i] = c]
      /\ lastApplied' = [lastApplied EXCEPT ![i] = la]
      /\ snap' = [snap EXCEPT ![i] = s]
      /\ applied' = applied \cup took
      /\ acked' = acked \cup {p.val : p \in done}
      /\ pending' = [pending EXCEPT ![i] = @ \ done]
      /\ persisted' = [persisted EXCEPT ![i] = IF s # snap[i] THEN LastIndex(i) ELSE @]
      /\ log' = log /\ elected' = elected /\ ledger' = ledger /\ stored' = stored
  BY DEF RoundEnd
<1> HIDE DEF c, took, la, s
<1>5. CursorType'
  BY <1>1, <1>3, <1>4 DEF CursorType
<1>6. LogType'
  BY <1>1, <1>4 DEF LogType, LastIndex
<1>7. HistType' /\ PendingType'
  BY <1>2, <1>4 DEF HistType, PendingType
<1>8. LoopType'
  BY DEF RoundEnd, LoopType
<1>9. StateType' /\ LeadType' /\ RoundType' /\ TaskType' /\ NetType' /\ EnvType'
  BY DEF RoundEnd, StateType, LeadType, RoundType, TaskType, NetType, EnvType,
         logVars, diskVars, cursorVars, leadVars, loopVars, roundVars, taskVars, netVars,
         envVars, histVars, stateVars
<1> QED  BY <1>5, <1>6, <1>7, <1>8, <1>9

\* StepDown keeps the types.
LEMMA StepDownType ==
  ASSUME TypeOK, NEW i \in Server, StepDown(i)  PROVE TypeOK'
<1> USE DEF TypeOK
<1>1. StateType' /\ PendingType'
  BY DEF StepDown, StateType, PendingType
<1>2. LogType' /\ CursorType' /\ LeadType' /\ LoopType' /\ RoundType' /\ TaskType' /\ NetType' /\ EnvType' /\ HistType'
  BY DEF StepDown, LogType, CursorType, LeadType, LoopType, RoundType, TaskType, NetType, EnvType, HistType,
         logVars, diskVars, cursorVars, leadVars, loopVars, roundVars, taskVars, netVars,
         envVars, histVars, stateVars
<1> QED  BY <1>1, <1>2

\* EnterAppend keeps the types.
LEMMA EnterAppendType ==
  ASSUME TypeOK, NEW i \in Server, NEW l \in Server, NEW r \in Request,
         EnterAppend(i, l, r), UNCHANGED proposing
  PROVE  StateType' /\ PendingType' /\ TaskType'
<1>1. r.term \in Nat
  BY DEF Request
<1>2. StateType'
  BY <1>1 DEF TypeOK, EnterAppend, StateType, stateVars
<1>3. PendingType'
  BY DEF TypeOK, EnterAppend, PendingType
<1>4. TaskType'
  BY DEF TypeOK, EnterAppend, TaskType
<1> QED  BY <1>2, <1>3, <1>4

\* OnAppendEntries keeps the types.
LEMMA OnAppendEntriesType ==
  ASSUME TypeOK, NEW i \in Server, NEW l \in Server, OnAppendEntries(i, l)  PROVE TypeOK'
<1> USE DEF TypeOK
<1> DEFINE r == exch[l][i].req
<1>1. r \in Request
  BY DEF OnAppendEntries, NetType, Exchange
<1>2. StateType' /\ PendingType' /\ TaskType'
  <2>1. EnterAppend(i, l, r) /\ UNCHANGED proposing
    BY DEF OnAppendEntries
  <2> HIDE DEF r
  <2> QED  BY <1>1, <2>1, EnterAppendType
<1>3. NetType'
  <2> DEFINE x == IF r.term < term[i]
                  THEN [st |-> "acked", term |-> r.term,
                        ack |-> [term |-> term[i], success |-> FALSE, matchIndex |-> 0]]
                  ELSE [st |-> "handling", req |-> r]
  <2>1. exch' = [exch EXCEPT ![l][i] = x] /\ late' = late /\ ballots' = ballots
    BY DEF OnAppendEntries
  <2>2. [term |-> term[i], success |-> FALSE, matchIndex |-> 0] \in Ack
    BY DEF Ack, StateType
  <2>3. r.term \in Nat
    BY <1>1 DEF Request
  <2>4. x \in Exchange
    <3> HIDE DEF r
    <3> QED  BY <1>1, <2>2, <2>3 DEF Exchange
  <2> HIDE DEF x
  <2> QED  BY <2>1, <2>4 DEF NetType
<1>4. LogType' /\ CursorType' /\ LeadType' /\ LoopType' /\ RoundType' /\ EnvType' /\ HistType'
  BY DEF OnAppendEntries, LogType, CursorType, LeadType, LoopType, RoundType, EnvType, HistType,
         logVars, diskVars, cursorVars, leadVars, loopVars, roundVars, taskVars, netVars,
         envVars, histVars, stateVars
<1> QED  BY <1>2, <1>3, <1>4

\* OnLateAppendEntries keeps the types.
LEMMA OnLateAppendEntriesType ==
  ASSUME TypeOK, NEW m \in late, OnLateAppendEntries(m)  PROVE TypeOK'
<1> USE DEF TypeOK
<1>1. m.to \in Server /\ m.from \in Server /\ m.req \in Request
  BY DEF NetType
<1>2. StateType' /\ PendingType' /\ TaskType'
  BY <1>1, EnterAppendType DEF OnLateAppendEntries
<1>3. NetType'
  BY DEF OnLateAppendEntries, NetType
<1>4. LogType' /\ CursorType' /\ LeadType' /\ LoopType' /\ RoundType' /\ EnvType' /\ HistType'
  BY DEF OnLateAppendEntries, LogType, CursorType, LeadType, LoopType, RoundType, EnvType, HistType,
         logVars, diskVars, cursorVars, leadVars, loopVars, roundVars, taskVars, netVars,
         envVars, histVars, stateVars
<1> QED  BY <1>2, <1>3, <1>4

\* FinishAppend keeps the types.
LEMMA FinishAppendType ==
  ASSUME TypeOK, NEW i \in Server, NEW a \in appending[i], FinishAppend(i, a)
  PROVE  TypeOK'
<1> USE DEF TypeOK
<1> DEFINE r == a.req
           ok == TermAt(i, r.prev) = r.prevTerm
           l == IF ok THEN Appended(log[i], r.prev, r.entries) ELSE log[i]
           c == IF ok THEN Max(commitIndex[i], Min(r.commit, Len(l))) ELSE commitIndex[i]
           la == IF ok THEN Max(lastApplied[i], Min(c, Len(l))) ELSE lastApplied[i]
           s == IF ok THEN Compacted(i, r.compact, la) ELSE snap[i]
<1>0. a.from \in Server /\ r \in Request
  BY DEF TaskType
<1>1. /\ r.term \in Nat /\ r.prev \in Nat /\ r.prevTerm \in Nat /\ r.entries \in Seq(Entry)
      /\ r.commit \in Nat /\ r.compact \in Nat
  BY <1>0 DEF Request
<1>2. log[i] \in Seq(Entry) /\ Len(log[i]) \in Nat
  BY LenProperties DEF LogType
<1>3. l \in Seq(Entry) /\ Len(l) \in Nat
  <2>1. ok => r.prev <= Len(log[i])
    <3>1. r.prev > Len(log[i]) => TermAt(i, r.prev) = -1
      BY <1>1, LogFacts
    <3> HIDE DEF r
    <3> QED  BY <1>1, <1>2, <3>1
  <2>2. ok => Appended(log[i], r.prev, r.entries) \in Seq(Entry)
    BY <1>1, <1>2, <2>1, AppendedType
  <2>3. l \in Seq(Entry)
    BY <1>2, <2>2
  <2> QED  BY <2>3, LenProperties
<1>4. c \in Nat /\ la \in Nat /\ s \in Nat
  <2> HIDE DEF l, r, ok
  <2>1. c \in Nat
    BY <1>1, <1>3 DEF CursorType, Max, Min
  <2> HIDE DEF c
  <2>2. la \in Nat
    BY <1>3, <2>1 DEF CursorType, Max, Min
  <2> HIDE DEF la
  <2>3. s \in Nat
    BY <1>1, <2>2 DEF CursorType, Compacted
  <2> QED  BY <2>1, <2>2, <2>3
<1>5. Taken(l, lastApplied[i], c) \in SUBSET [index : Nat, entry : Entry]
  <2> HIDE DEF l, c
  <2> QED  BY <1>3, <1>4, TakenType DEF CursorType
<1>6. /\ log' = [log EXCEPT ![i] = l]
      /\ persisted' = [persisted EXCEPT ![i] = IF ok THEN Len(l) ELSE @]
      /\ commitIndex' = [commitIndex EXCEPT ![i] = c]
      /\ lastApplied' = [lastApplied EXCEPT ![i] = la]
      /\ snap' = [snap EXCEPT ![i] = s]
      /\ applied' = applied \cup IF ok THEN Taken(l, lastApplied[i], c) ELSE {}
      /\ elected' = elected /\ acked' = acked /\ ledger' = ledger
      /\ stored' = stored \cup
           IF ok THEN {[term |-> r.term, node |-> i, index |-> Len(l)]} ELSE {}
  BY DEF FinishAppend, CursorType
<1>7. LogType'
  <2>1. ~ok => l = log[i]
    OBVIOUS
  <2> HIDE DEF l, ok
  <2> QED  BY <1>3, <1>6, <2>1 DEF LogType
<1>8. CursorType' /\ HistType'
  <2> DEFINE x == [term |-> r.term, node |-> i, index |-> Len(l)]
  <2>1. stored' = stored \cup IF ok THEN {x} ELSE {}
    BY <1>6
  <2> HIDE DEF l, ok, c, la, s
  <2>2. x \in [term : Nat, node : Server, index : Nat]
    BY <1>1, <1>3
  <2> HIDE DEF x
  <2> QED  BY <1>4, <1>5, <1>6, <2>1, <2>2 DEF CursorType, HistType
<1>9. NetType'
  <2> DEFINE n == IF ok THEN Len(l) ELSE 0
             x == [st |-> "acked", term |-> r.term,
                   ack |-> [term |-> term[i], success |-> ok, matchIndex |-> n]]
  <2>1. \/ exch' = exch
        \/ exch' = [exch EXCEPT ![a.from][i] = x]
    BY DEF FinishAppend
  <2>2. late' = late /\ ballots' = ballots
    BY DEF FinishAppend
  <2>3. ok \in BOOLEAN
    OBVIOUS
  <2>4. n \in Nat
    <3> HIDE DEF l, ok
    <3> QED  BY <1>3
  <2>5. x \in Exchange
    <3> HIDE DEF ok, n, r
    <3>1. [term |-> term[i], success |-> ok, matchIndex |-> n] \in Ack
      BY <2>3, <2>4 DEF Ack, StateType
    <3> QED  BY <1>1, <3>1 DEF Exchange
  <2> HIDE DEF x
  <2> QED  BY <1>0, <2>1, <2>2, <2>5 DEF NetType
<1>10. TaskType'
  BY DEF FinishAppend, TaskType
<1>11. StateType' /\ LeadType' /\ PendingType' /\ LoopType' /\ RoundType' /\ EnvType'
  BY DEF FinishAppend, StateType, LeadType, PendingType, LoopType, RoundType, EnvType,
         logVars, diskVars, cursorVars, leadVars, loopVars, roundVars, taskVars, netVars,
         envVars, histVars, stateVars
<1> QED  BY <1>7, <1>8, <1>9, <1>10, <1>11

\* Crash keeps the types.
LEMMA CrashType ==
  ASSUME TypeOK, NEW i \in Server, Crash(i)  PROVE TypeOK'
<1> USE DEF TypeOK
<1>1. LogType'
  <2>1. log[i] \in Seq(Entry) /\ persisted[i] \in Nat /\ persisted[i] <= Len(log[i])
    BY DEF LogType
  <2>2. SubSeq(log[i], 1, persisted[i]) \in Seq(Entry)
    BY <2>1, SliceType
  <2>3. Len(SubSeq(log[i], 1, persisted[i])) = persisted[i]
    BY <2>1, SubSeqProperties, LenProperties
  <2> QED  BY <2>2, <2>3 DEF Crash, LogType
<1>2. StateType' /\ CursorType' /\ PendingType'
  BY DEF Crash, StateType, CursorType, PendingType
<1>3. LoopType' /\ RoundType' /\ TaskType' /\ EnvType'
  BY DEF Crash, LoopType, RoundType, TaskType, EnvType
<1>4. NetType'
  <2>1. late' \in SUBSET [from : Server, to : Server, req : Request]
    BY LeftoverType DEF Crash, Peers
  <2>2. exch' \in [Server -> [Server -> Exchange]]
    BY DEF Crash, NetType, Exchange, NoExchange
  <2> QED  BY <2>1, <2>2 DEF Crash, NetType
<1>5. LeadType' /\ HistType'
  BY DEF Crash, LeadType, HistType,
         logVars, diskVars, cursorVars, leadVars, loopVars, roundVars, taskVars, netVars,
         envVars, histVars, stateVars
<1> QED  BY <1>1, <1>2, <1>3, <1>4, <1>5

\* Every state any interleaving of the handlers, the main loop, client writes
\* and crashes can reach is well typed, and no log has more on disk than in
\* memory.
THEOREM TypeCorrect == Spec => []TypeOK
<1>1. Init => TypeOK
  BY InitType
<1>2. TypeOK /\ [Next]_vars => TypeOK'
  <2> SUFFICES ASSUME TypeOK, [Next]_vars PROVE TypeOK'
    OBVIOUS
  <2>1. ASSUME NEW i \in Server, StartElection(i) PROVE TypeOK'
    BY <2>1, StartElectionType
  <2>2. ASSUME NEW m \in ballots, OnRequestVote(m) PROVE TypeOK'
    BY <2>2, OnRequestVoteType
  <2>3. ASSUME NEW i \in Server, Tally(i) PROVE TypeOK'
    BY <2>3, TallyType
  <2>4. ASSUME NEW i \in Server, TakeOffice(i) PROVE TypeOK'
    BY <2>4, TakeOfficeType
  <2>5. ASSUME NEW i \in Server, NEW v \in Value, Propose(i, v) PROVE TypeOK'
    BY <2>5, ProposeType
  <2>6. ASSUME NEW i \in Server, NEW p \in proposing[i], ProposeAppend(i, p) PROVE TypeOK'
    BY <2>6, ProposeAppendType
  <2>7. ASSUME NEW i \in Server, RoundStart(i) PROVE TypeOK'
    BY <2>7, RoundStartType
  <2>8. ASSUME NEW i \in Server, NEW J \in SUBSET todo[i], Launch(i, J) PROVE TypeOK'
    BY <2>8, LaunchType
  <2>9. ASSUME NEW i \in Server, NEW j \in Server, TakeReply(i, j) PROVE TypeOK'
    BY <2>9, TakeReplyType
  <2>10. ASSUME NEW i \in Server, NEW j \in Server, Timeout(i, j) PROVE TypeOK'
    BY <2>10, TimeoutType
  <2>11. ASSUME NEW i \in Server, RoundEnd(i) PROVE TypeOK'
    BY <2>11, RoundEndType
  <2>12. ASSUME NEW i \in Server, StepDown(i) PROVE TypeOK'
    BY <2>12, StepDownType
  <2>13. ASSUME NEW i \in Server, NEW l \in Server, OnAppendEntries(i, l) PROVE TypeOK'
    BY <2>13, OnAppendEntriesType
  <2>14. ASSUME NEW m \in late, OnLateAppendEntries(m) PROVE TypeOK'
    BY <2>14, OnLateAppendEntriesType
  <2>15. ASSUME NEW i \in Server, NEW a \in appending[i], FinishAppend(i, a) PROVE TypeOK'
    BY <2>15, FinishAppendType
  <2>16. ASSUME NEW i \in Server, Crash(i) PROVE TypeOK'
    BY <2>16, CrashType
  <2>17. ASSUME NEW i \in Server, NEW j \in Server, Resend(i, j) PROVE TypeOK'
    BY <2>17, ResendType
  <2>18. CASE UNCHANGED vars
    BY <2>18 DEF TypeOK, StateType, LogType, CursorType, LeadType, PendingType, LoopType,
         RoundType, TaskType, NetType, EnvType, HistType, vars,
         logVars, diskVars, cursorVars, leadVars, loopVars, roundVars, taskVars, netVars,
         envVars, histVars, stateVars
  <2> QED
    BY <2>1, <2>2, <2>3, <2>4, <2>5, <2>6, <2>7, <2>8, <2>9, <2>10, <2>11, <2>12,
       <2>13, <2>14, <2>15, <2>16, <2>17, <2>18 DEF Next
<1> QED  BY <1>1, <1>2, PTL DEF Spec

----------------------------------------------------------------------------
(* Elections *)

\* Any two majorities of the cluster share a node.
LEMMA MajoritiesMeet ==
  ASSUME NEW Q \in SUBSET Server, NEW R \in SUBSET Server, IsMajority(Q), IsMajority(R)
  PROVE  Q \cap R # {}
<1>1. Cardinality(Server) \in Nat /\ Cardinality(Q) \in Nat /\ Cardinality(R) \in Nat
  BY ServerAssumption, FS_CardinalityType, FS_Subset
<1>2. Cardinality(Q) + Cardinality(R) > Cardinality(Server)
  BY <1>1 DEF IsMajority, Majority
<1> QED  BY <1>2, ServerAssumption, FS_MajoritiesIntersect

\* The steps that leave elections alone: terms only grow, a vote changes only
\* with the term, no candidate gains a vote and nobody wins.
LEMMA QuietStep ==
  ASSUME TypeOK, VoteInv, TypeOK',
         \A v \in Server : term'[v] >= term[v]
                            /\ (term'[v] = term[v] => votedFor'[v] = votedFor[v]),
         \A c \in Server : phase'[c] = "elect" =>
           phase[c] = "elect" /\ loopTerm'[c] = loopTerm[c] /\ votes'[c] = votes[c],
         elected' = elected
  PROVE  VoteInv'
<1>1. \A v \in Server, t \in Nat, c \in Server : BoundTo(v, t, c) => BoundTo(v, t, c)'
  BY DEF TypeOK, StateType, BoundTo
<1>2. \A c \in Server : phase'[c] = "elect" => Granted(c)' = Granted(c)
  BY DEF Granted
<1>3. \A c \in Server : Granted(c) \subseteq Server /\ loopTerm[c] \in Nat
  BY DEF TypeOK, LoopType, VoteReply, Granted
<1>4. \A e \in elected : e.voters \subseteq Server /\ e.term \in Nat /\ e.node \in Server
  BY DEF TypeOK, HistType
<1>5. VotesBind'
  BY <1>1, <1>2, <1>3 DEF VoteInv, VotesBind
<1>6. VotesExclude'
  BY <1>2 DEF VoteInv, VotesExclude
<1>7. WinsBind'
  BY <1>1, <1>4 DEF VoteInv, WinsBind
<1>8. WinsExclude'
  BY <1>2 DEF VoteInv, WinsExclude
<1>9. ElectionSafety'
  BY DEF VoteInv, ElectionSafety
<1> QED  BY <1>5, <1>6, <1>7, <1>8, <1>9 DEF VoteInv

\* Nobody has voted at the start.
LEMMA InitVote == Init => VoteInv
BY DEF Init, VoteInv, VotesBind, VotesExclude, WinsBind, WinsExclude, ElectionSafety

\* A new candidate: its own vote is for a term nobody has counted it in.
LEMMA StartElectionVote ==
  ASSUME TypeOK, VoteInv, NEW i \in Server, StartElection(i)  PROVE VoteInv'
<1>1. /\ term' = [term EXCEPT ![i] = term[i] + 1]
      /\ votedFor' = [votedFor EXCEPT ![i] = i]
      /\ phase' = [phase EXCEPT ![i] = "elect"]
      /\ loopTerm' = [loopTerm EXCEPT ![i] = term[i] + 1]
      /\ votes' = [votes EXCEPT ![i] = {}]
      /\ elected' = elected
      /\ phase[i] = "idle"
  BY DEF StartElection, histVars
<1>2. /\ term \in [Server -> Nat] /\ votedFor \in [Server -> Server \cup {None}]
      /\ phase \in [Server -> {"idle", "elect", "elected", "round"}]
      /\ loopTerm \in [Server -> Nat] /\ votes \in [Server -> SUBSET VoteReply]
  BY DEF TypeOK, StateType, LoopType
<1>3. Granted(i)' = {i}
  BY <1>1, <1>2 DEF Granted
<1>4. \A c \in Server \ {i} : /\ Granted(c)' = Granted(c) /\ loopTerm'[c] = loopTerm[c]
                               /\ phase'[c] = phase[c]
  BY <1>1, <1>2 DEF Granted
<1>5. \A v \in Server, t \in Nat, c \in Server : BoundTo(v, t, c) => BoundTo(v, t, c)'
  BY <1>1, <1>2 DEF BoundTo
<1>6. \A c \in Server : Granted(c) \subseteq Server
  BY <1>2 DEF VoteReply, Granted
<1>7. \A e \in elected : e.voters \subseteq Server /\ e.term \in Nat /\ e.node \in Server
  BY DEF TypeOK, HistType
<1>8. \A c \in Server : phase[c] = "elect" /\ i \in Granted(c) => loopTerm[c] <= term[i]
  BY <1>2 DEF VoteInv, VotesBind, BoundTo
<1>9. \A e \in elected : i \in e.voters => e.term <= term[i]
  BY <1>2, <1>7 DEF VoteInv, WinsBind, BoundTo
<1>10. VotesBind'
  <2> SUFFICES ASSUME NEW c \in Server, phase'[c] = "elect", NEW v \in Granted(c)'
               PROVE  BoundTo(v, loopTerm[c], c)'
    BY DEF VotesBind
  <2>1. CASE c = i
    BY <2>1, <1>1, <1>2, <1>3 DEF BoundTo
  <2>2. CASE c # i
    <3>1. BoundTo(v, loopTerm[c], c) /\ v \in Server
      BY <2>2, <1>4, <1>6 DEF VoteInv, VotesBind
    <3> QED  BY <3>1, <2>2, <1>1, <1>2 DEF BoundTo
  <2> QED  BY <2>1, <2>2
<1>11. VotesExclude'
  <2>1. \A c \in Server \ {i} : phase[c] = "elect" /\ i \in Granted(c)
          => loopTerm[c] # term[i] + 1
    BY <1>2, <1>8
  <2> QED  BY <2>1, <1>1, <1>2, <1>3, <1>4 DEF VoteInv, VotesExclude
<1>12. WinsBind'
  BY <1>1, <1>5, <1>7 DEF VoteInv, WinsBind
<1>13. WinsExclude'
  <2>1. \A e \in elected : i \in e.voters => e.term # term[i] + 1
    BY <1>2, <1>7, <1>9
  <2> QED  BY <2>1, <1>1, <1>2, <1>3, <1>4 DEF VoteInv, WinsExclude
<1>14. ElectionSafety'
  BY <1>1 DEF VoteInv, ElectionSafety
<1> QED  BY <1>10, <1>11, <1>12, <1>13, <1>14 DEF VoteInv

\* A vote: the voter was free of every other candidate of that term.
LEMMA OnRequestVoteVote ==
  ASSUME TypeOK, VoteInv, NEW m \in ballots, OnRequestVote(m)  PROVE VoteInv'
<1> DEFINE i == m.to
           w == m.cand
           t == Max(m.term, term[i])
           v == IF m.term > term[i] THEN None ELSE votedFor[i]
           granted == /\ m.term = t
                      /\ MayVote(v, w)
                      /\ IsUpToDate(i, m.lastTerm, m.lastIndex)
           live == phase[w] = "elect" /\ loopTerm[w] = m.term
           reply == [from |-> i, term |-> t, granted |-> granted]
<1>0. i \in Server /\ w \in Server /\ m.term \in Nat
  BY DEF TypeOK, NetType, Ballot
<1>1. /\ term' = [term EXCEPT ![i] = t]
      /\ votedFor' = [votedFor EXCEPT ![i] = IF granted THEN w ELSE v]
      /\ votes' = IF live THEN [votes EXCEPT ![w] = @ \cup {reply}] ELSE votes
      /\ phase' = phase /\ loopTerm' = loopTerm /\ elected' = elected
  BY Zenon DEF OnRequestVote, histVars
<1>2. /\ term \in [Server -> Nat] /\ votedFor \in [Server -> Server \cup {None}]
      /\ loopTerm \in [Server -> Nat] /\ votes \in [Server -> SUBSET VoteReply]
  BY DEF TypeOK, StateType, LoopType
<1>3. \A c \in Server : Granted(c) \subseteq Server
  BY <1>2 DEF VoteReply, Granted
<1>4. \A e \in elected : e.voters \subseteq Server /\ e.term \in Nat /\ e.node \in Server
  BY DEF TypeOK, HistType
<1>5. granted => m.term >= term[i] /\ (m.term = term[i] => votedFor[i] \in {None, w})
  BY <1>0, <1>2 DEF Max, MayVote
<1>6. \A u \in Server, n \in Nat, c \in Server : BoundTo(u, n, c) => BoundTo(u, n, c)'
  <2> SUFFICES ASSUME NEW u \in Server, NEW n \in Nat, NEW c \in Server, BoundTo(u, n, c)
               PROVE  BoundTo(u, n, c)'
    OBVIOUS
  <2>1. CASE u # i
    BY <2>1, <1>0, <1>1, <1>2 DEF BoundTo
  <2>2. CASE u = i /\ m.term > term[i]
    <3>1. t = m.term
      BY <2>2, <1>0, <1>2 DEF Max
    <3> HIDE DEF t, granted, v
    <3> QED  BY <2>2, <3>1, <1>0, <1>1, <1>2 DEF BoundTo
  <2>3. CASE u = i /\ ~(m.term > term[i])
    <3>1. t = term[i] /\ v = votedFor[i]
      BY <2>3, <1>0, <1>2 DEF Max
    <3>2. granted => m.term = term[i]
      BY <3>1
    <3> HIDE DEF t, granted, v
    <3> QED  BY <2>3, <3>1, <3>2, <1>0, <1>1, <1>2, <1>5, NoneAssumption DEF BoundTo
  <2> QED  BY <2>1, <2>2, <2>3
<1>7. granted => BoundTo(i, m.term, w)'
  <2>1. granted => t = m.term
    OBVIOUS
  <2> HIDE DEF t, granted, v
  <2> QED  BY <2>1, <1>0, <1>1, <1>2 DEF BoundTo
<1>8. \A c \in Server : \/ Granted(c)' = Granted(c)
                        \/ /\ c = w /\ live /\ granted
                           /\ Granted(c)' = Granted(c) \cup {i}
  <2> SUFFICES ASSUME NEW c \in Server
               PROVE  \/ Granted(c)' = Granted(c)
                      \/ c = w /\ live /\ granted /\ Granted(c)' = Granted(c) \cup {i}
    OBVIOUS
  <2>1. CASE ~(c = w /\ live)
    BY <2>1, <1>1, <1>2 DEF Granted
  <2>2. CASE c = w /\ live
    <3>1. votes'[c] = votes[c] \cup {reply}
      BY <2>2, <1>0, <1>1, <1>2
    <3>2. reply.from = i /\ reply.granted = granted
      BY Zenon
    <3> HIDE DEF reply, granted, live, t, v
    <3>3. CASE granted
      BY <3>1, <3>2, <3>3, <2>2 DEF Granted
    <3>4. CASE ~granted
      BY <3>1, <3>2, <3>4, <2>2 DEF Granted
    <3> QED  BY <3>3, <3>4
  <2> QED  BY <2>1, <2>2
<1> HIDE DEF reply, granted, t, v
<1>9. granted => \A n \in Nat, d \in Server : n = m.term /\ BoundTo(i, n, d) => d = w
  BY <1>0, <1>2, <1>5, NoneAssumption DEF BoundTo
<1>10. VotesBind'
  <2> SUFFICES ASSUME NEW c \in Server, phase'[c] = "elect", NEW u \in Granted(c)'
               PROVE  BoundTo(u, loopTerm[c], c)'
    BY DEF VotesBind
  <2>1. CASE u \in Granted(c)
    <3>1. BoundTo(u, loopTerm[c], c) /\ u \in Server /\ loopTerm[c] \in Nat
      BY <2>1, <1>1, <1>2, <1>3 DEF VoteInv, VotesBind
    <3>2. loopTerm'[c] = loopTerm[c]
      BY <1>1
    <3> QED  BY <3>1, <3>2, <1>6 DEF BoundTo
  <2>2. CASE u \notin Granted(c)
    <3>1. c = w /\ live /\ granted /\ u = i
      BY <2>2, <1>8
    <3> QED  BY <3>1, <1>1, <1>7 DEF BoundTo
  <2> QED  BY <2>1, <2>2
<1>11. VotesExclude'
  <2>1. \A d \in Server : granted /\ phase[d] = "elect" /\ loopTerm[d] = m.term /\ d # w
          => i \notin Granted(d)
    BY <1>2, <1>9 DEF VoteInv, VotesBind
  <2> QED  BY <2>1, <1>1, <1>8 DEF VoteInv, VotesExclude
<1>12. WinsBind'
  BY <1>1, <1>4, <1>6 DEF VoteInv, WinsBind
<1>13. WinsExclude'
  <2>1. \A e \in elected : granted /\ e.term = m.term /\ e.node # w => i \notin e.voters
    BY <1>4, <1>9 DEF VoteInv, WinsBind
  <2> QED  BY <2>1, <1>1, <1>8 DEF VoteInv, WinsExclude
<1>14. ElectionSafety'
  BY <1>1 DEF VoteInv, ElectionSafety
<1> QED  BY <1>10, <1>11, <1>12, <1>13, <1>14 DEF VoteInv

\* A count: the winner's voters are bound, so no other majority of that term is
\* left.
LEMMA TallyVote ==
  ASSUME TypeOK, VoteInv, TypeOK', NEW i \in Server, Tally(i)  PROVE VoteInv'
<1> DEFINE newer == {r \in votes[i] : r.term > term[i]}
           yes == Granted(i)
           won == role[i] = "Candidate" /\ term[i] = loopTerm[i] /\ IsMajority(yes)
<1>1. /\ term \in [Server -> Nat] /\ votedFor \in [Server -> Server \cup {None}]
      /\ phase \in [Server -> {"idle", "elect", "elected", "round"}]
      /\ loopTerm \in [Server -> Nat] /\ votes \in [Server -> SUBSET VoteReply]
  BY DEF TypeOK, StateType, LoopType
<1>2. \A c \in Server : Granted(c) \subseteq Server
  BY <1>1 DEF VoteReply, Granted
<1>3. \A e \in elected : e.voters \subseteq Server /\ e.term \in Nat /\ e.node \in Server
  BY DEF TypeOK, HistType
<1>4. phase[i] = "elect" /\ votes' = [votes EXCEPT ![i] = {}] /\ loopTerm' = loopTerm
  BY DEF Tally
<1>5. \/ \E r \in newer : /\ term' = [term EXCEPT ![i] = r.term]
                          /\ votedFor' = [votedFor EXCEPT ![i] = None]
                          /\ phase' = [phase EXCEPT ![i] = "idle"]
                          /\ elected' = elected
      \/ /\ phase' = [phase EXCEPT ![i] = IF won THEN "elected" ELSE "idle"]
         /\ elected' = IF won
                       THEN elected \cup {[term |-> term[i], node |-> i, voters |-> yes]}
                       ELSE elected
         /\ term' = term /\ votedFor' = votedFor
  BY Zenon DEF Tally
<1>6. CASE \E r \in newer : /\ term' = [term EXCEPT ![i] = r.term]
                            /\ votedFor' = [votedFor EXCEPT ![i] = None]
                            /\ phase' = [phase EXCEPT ![i] = "idle"]
                            /\ elected' = elected
  <2>1. PICK r \in newer : /\ term' = [term EXCEPT ![i] = r.term]
                           /\ votedFor' = [votedFor EXCEPT ![i] = None]
                           /\ phase' = [phase EXCEPT ![i] = "idle"]
                           /\ elected' = elected
    BY <1>6
  <2>2. r.term \in Nat /\ r.term > term[i]
    BY <1>1 DEF VoteReply
  <2> HIDE DEF newer
  <2> QED  BY <2>1, <2>2, <1>1, <1>4, QuietStep
<1>7. CASE ~won /\ phase' = [phase EXCEPT ![i] = "idle"] /\ elected' = elected
             /\ term' = term /\ votedFor' = votedFor
  BY <1>7, <1>1, <1>4, QuietStep
<1>8. CASE /\ won /\ phase' = [phase EXCEPT ![i] = "elected"]
           /\ elected' = elected \cup {[term |-> term[i], node |-> i, voters |-> yes]}
           /\ term' = term /\ votedFor' = votedFor
  <2>0. PICK new : new = [term |-> term[i], node |-> i, voters |-> yes]
    OBVIOUS
  <2>1. new.term = term[i] /\ new.node = i /\ new.voters = yes
    BY <2>0
  <2>2. elected' = elected \cup {new} /\ IsMajority(yes) /\ term[i] = loopTerm[i]
    BY <2>0, <1>8
  <2> HIDE DEF yes
  <2>3. \A v \in Server, t \in Nat, c \in Server : BoundTo(v, t, c)' = BoundTo(v, t, c)
    BY <1>8 DEF BoundTo
  <2>4. \A c \in Server : phase'[c] = "elect" =>
          c # i /\ phase[c] = "elect" /\ Granted(c)' = Granted(c)
    BY <1>1, <1>4, <1>8 DEF Granted
  <2>5. yes = Granted(i)
    BY DEF yes
  <2>6. VotesBind'
    BY <2>3, <2>4, <1>1, <1>2, <1>4 DEF VoteInv, VotesBind
  <2>7. VotesExclude'
    BY <2>4, <1>4 DEF VoteInv, VotesExclude
  <2>8. WinsBind'
    <3>1. \A v \in yes : BoundTo(v, term[i], i) /\ v \in Server
      BY <2>2, <2>5, <1>2, <1>4 DEF VoteInv, VotesBind
    <3>2. IsMajority(new.voters) /\ \A v \in new.voters : BoundTo(v, new.term, new.node)'
      BY <3>1, <2>1, <2>2, <1>1, <1>8 DEF BoundTo
    <3>3. \A e \in elected : \A v \in e.voters : BoundTo(v, e.term, e.node)'
      BY <2>3, <1>3 DEF VoteInv, WinsBind
    <3> QED  BY <3>2, <3>3, <2>2 DEF VoteInv, WinsBind, BoundTo
  <2>9. WinsExclude'
    <3>1. \A c \in Server : phase'[c] = "elect" /\ loopTerm[c] = new.term
            => new.voters \cap Granted(c)' = {}
      BY <2>1, <2>2, <2>4, <2>5, <1>4 DEF VoteInv, VotesExclude
    <3> QED  BY <3>1, <2>2, <2>4, <1>4 DEF VoteInv, WinsExclude
  <2>10. ElectionSafety'
    <3>1. \A e \in elected : e.term = new.term => e.node = new.node
      <4> SUFFICES ASSUME NEW e \in elected, e.term = new.term, e.node # i PROVE FALSE
        BY <2>1
      <4>1. e.voters \cap yes = {}
        BY <2>1, <2>2, <2>5, <1>4 DEF VoteInv, WinsExclude
      <4>2. IsMajority(e.voters) /\ e.voters \in SUBSET Server /\ yes \in SUBSET Server
        BY <2>5, <1>2, <1>3 DEF VoteInv, WinsBind
      <4> QED  BY <4>1, <4>2, <2>2, MajoritiesMeet
    <3> QED  BY <3>1, <2>2 DEF VoteInv, ElectionSafety
  <2> QED  BY <2>6, <2>7, <2>8, <2>9, <2>10 DEF VoteInv
<1> QED  BY <1>5, <1>6, <1>7, <1>8

\* What QuietStep asks of a step.
QuietVotes ==
  /\ \A v \in Server : term'[v] >= term[v]
                        /\ (term'[v] = term[v] => votedFor'[v] = votedFor[v])
  /\ \A c \in Server : phase'[c] = "elect" =>
       phase[c] = "elect" /\ loopTerm'[c] = loopTerm[c] /\ votes'[c] = votes[c]
  /\ elected' = elected

\* A step that leaves terms, votes and elections alone disturbs no vote.
LEMMA QuietWhenUntouched ==
  ASSUME TypeOK, UNCHANGED <<term, votedFor, phase, loopTerm, votes, elected>>
  PROVE  QuietVotes
BY DEF QuietVotes, TypeOK, StateType

\* A request from a leader raises the receiver's term or leaves its vote alone.
LEMMA EnterAppendQuiet ==
  ASSUME TypeOK, NEW i \in Server, NEW l, NEW r \in Request, EnterAppend(i, l, r),
         UNCHANGED <<phase, loopTerm, votes, elected>>
  PROVE  QuietVotes
<1>1. r.term \in Nat /\ term \in [Server -> Nat] /\ votedFor \in [Server -> Server \cup {None}]
  BY DEF Request, TypeOK, StateType
<1>2. CASE r.term < term[i]
  BY <1>2, QuietWhenUntouched DEF EnterAppend, stateVars
<1>3. CASE ~(r.term < term[i])
  <2>1. /\ term' = [term EXCEPT ![i] = r.term]
        /\ votedFor' = [votedFor EXCEPT ![i] = IF r.term > term[i] THEN None ELSE @]
    BY <1>3 DEF EnterAppend
  <2> QED  BY <2>1, <1>1, <1>3 DEF QuietVotes
<1> QED  BY <1>2, <1>3

\* A round's replies: the only term they set is a later one.
LEMMA TakeReplyQuiet ==
  ASSUME TypeOK, NEW i \in Server, NEW j \in Server, TakeReply(i, j)  PROVE QuietVotes
<1> DEFINE n == exch[i][j].ack.term
<1>1. n \in Nat /\ term \in [Server -> Nat]
      /\ phase \in [Server -> {"idle", "elect", "elected", "round"}]
      /\ votedFor \in [Server -> Server \cup {None}]
  <2>1. exch[i][j].ack \in Ack
    BY DEF TypeOK, TakeReply, NetType, Exchange
  <2> QED  BY <2>1 DEF TypeOK, StateType, LoopType, Ack
<1>2. UNCHANGED <<loopTerm, votes, elected>>
  BY DEF TakeReply, histVars
<1>3. phase' = phase \/ phase' = [phase EXCEPT ![i] = "idle"]
  BY DEF TakeReply
<1>4. \/ UNCHANGED <<term, votedFor>>
      \/ n > term[i] /\ term' = [term EXCEPT ![i] = n]
                     /\ votedFor' = [votedFor EXCEPT ![i] = None]
  BY DEF TakeReply, stateVars
<1> QED  BY <1>1, <1>2, <1>3, <1>4 DEF QuietVotes

\* Every step that is neither a vote nor the start or the end of an election.
LEMMA OtherStepsQuiet ==
  ASSUME TypeOK,
         \/ \E i \in Server : TakeOffice(i)
         \/ \E i \in Server, v \in Value : Propose(i, v)
         \/ \E i \in Server : \E p \in proposing[i] : ProposeAppend(i, p)
         \/ \E i \in Server : RoundStart(i)
         \/ \E i \in Server : \E J \in SUBSET todo[i] : Launch(i, J)
         \/ \E i, j \in Server : TakeReply(i, j)
         \/ \E i, j \in Server : Timeout(i, j)
         \/ \E i, j \in Server : Resend(i, j)
         \/ \E i \in Server : RoundEnd(i)
         \/ \E i \in Server : StepDown(i)
         \/ \E i, l \in Server : OnAppendEntries(i, l)
         \/ \E m \in late : OnLateAppendEntries(m)
         \/ \E i \in Server : \E a \in appending[i] : FinishAppend(i, a)
         \/ \E i \in Server : Crash(i)
         \/ UNCHANGED vars
  PROVE  QuietVotes
<1>0. term \in [Server -> Nat] /\ phase \in [Server -> {"idle", "elect", "elected", "round"}]
      /\ loopTerm \in [Server -> Nat] /\ votes \in [Server -> SUBSET VoteReply]
  BY DEF TypeOK, StateType, LoopType
<1> USE DEF stateVars, loopVars, histVars
<1>1. ASSUME NEW i \in Server, TakeOffice(i) PROVE QuietVotes
  BY <1>0, <1>1 DEF TakeOffice, QuietVotes
<1>2. ASSUME NEW i \in Server, NEW v \in Value, Propose(i, v) PROVE QuietVotes
  BY <1>2, QuietWhenUntouched DEF Propose
<1>3. ASSUME NEW i \in Server, NEW p \in proposing[i], ProposeAppend(i, p) PROVE QuietVotes
  BY <1>3, QuietWhenUntouched DEF ProposeAppend
<1>4. ASSUME NEW i \in Server, RoundStart(i) PROVE QuietVotes
  BY <1>0, <1>4 DEF RoundStart, QuietVotes
<1>5. ASSUME NEW i \in Server, NEW J \in SUBSET todo[i], Launch(i, J) PROVE QuietVotes
  BY <1>5, QuietWhenUntouched DEF Launch
<1>6. ASSUME NEW i \in Server, NEW j \in Server, TakeReply(i, j) PROVE QuietVotes
  BY <1>6, TakeReplyQuiet
<1>7. ASSUME NEW i \in Server, NEW j \in Server, Timeout(i, j) PROVE QuietVotes
  BY <1>7, QuietWhenUntouched DEF Timeout
<1>8. ASSUME NEW i \in Server, RoundEnd(i) PROVE QuietVotes
  <2>1. UNCHANGED <<term, votedFor, loopTerm, votes, elected>>
        /\ phase' = [phase EXCEPT ![i] = "idle"]
    BY <1>8 DEF RoundEnd
  <2> QED  BY <1>0, <2>1 DEF QuietVotes
<1>9. ASSUME NEW i \in Server, StepDown(i) PROVE QuietVotes
  BY <1>9, QuietWhenUntouched DEF StepDown
<1>10. ASSUME NEW i \in Server, NEW l \in Server, OnAppendEntries(i, l) PROVE QuietVotes
  <2>1. exch[l][i].req \in Request
    BY <1>10 DEF TypeOK, OnAppendEntries, NetType, Exchange
  <2> QED  BY <1>10, <2>1, EnterAppendQuiet DEF OnAppendEntries
<1>11. ASSUME NEW m \in late, OnLateAppendEntries(m) PROVE QuietVotes
  <2>1. m.to \in Server /\ m.req \in Request
    BY DEF TypeOK, NetType
  <2> QED  BY <1>11, <2>1, EnterAppendQuiet DEF OnLateAppendEntries
<1>12. ASSUME NEW i \in Server, NEW a \in appending[i], FinishAppend(i, a) PROVE QuietVotes
  BY <1>12, QuietWhenUntouched DEF FinishAppend
<1>13. ASSUME NEW i \in Server, Crash(i) PROVE QuietVotes
  BY <1>0, <1>13 DEF Crash, QuietVotes
<1>14. ASSUME NEW i \in Server, NEW j \in Server, Resend(i, j) PROVE QuietVotes
  BY <1>14, QuietWhenUntouched DEF Resend
<1>15. CASE UNCHANGED vars
  BY <1>15, QuietWhenUntouched DEF vars
<1> QED
  BY <1>1, <1>2, <1>3, <1>4, <1>5, <1>6, <1>7, <1>8, <1>9, <1>10, <1>11, <1>12, <1>13,
     <1>14, <1>15

\* cluster.rs, on_request_vote and start_election: whatever the cluster's size,
\* the number of crashes and the interleaving of the handlers' critical
\* sections, a counted vote binds its voter for the rest of the term.
THEOREM VotesHold == Spec => []VoteInv
<1>1. TypeOK /\ TypeOK' /\ VoteInv /\ [Next]_vars => VoteInv'
  <2> SUFFICES ASSUME TypeOK, TypeOK', VoteInv, [Next]_vars PROVE VoteInv'
    OBVIOUS
  <2>1. ASSUME NEW i \in Server, StartElection(i) PROVE VoteInv'
    BY <2>1, StartElectionVote
  <2>2. ASSUME NEW m \in ballots, OnRequestVote(m) PROVE VoteInv'
    BY <2>2, OnRequestVoteVote
  <2>3. ASSUME NEW i \in Server, Tally(i) PROVE VoteInv'
    BY <2>3, TallyVote
  <2>4. ASSUME QuietVotes PROVE VoteInv'
    BY <2>4, QuietStep DEF QuietVotes
  <2> QED  BY <2>1, <2>2, <2>3, <2>4, OtherStepsQuiet DEF Next
<1> QED  BY <1>1, InitVote, TypeCorrect, PTL DEF Spec

\* cluster.rs, start_election: no term ever has two leaders.
THEOREM Elections == Spec => []ElectionSafety
BY VotesHold, PTL DEF VoteInv

----------------------------------------------------------------------------
(* The replicated log.  The rest of the module is about runs whose critical   *)
(* sections are not interleaved (Races = {}) on two nodes or more.            *)

\* l and m are the same up to n.
Agree(l, m, n) == n <= Len(l) /\ n <= Len(m) /\ \A k \in 1..n : l[k] = m[k]

\* The terms with a leader; who led them; how much of the leader's log a node has
\* had on disk in its term.
Terms == DOMAIN ledger
WonBy(t, i) == \E e \in elected : e.term = t /\ e.node = i
HasStored(t, s, k) == \E a \in stored : a.term = t /\ a.node = s /\ a.index >= k
LeaderStored(t, k) == \E e \in elected : e.term = t /\ HasStored(t, e.node, k)

\* A majority, or every node, has stored the leader's log up to k in its term.
Chosen(t, k) == IsMajority({s \in Server : HasStored(t, s, k)})
Everywhere(t, k) == \A s \in Server : HasStored(t, s, k)

(* What holds of the history. *)

\* A leader's log up to an entry of term w is that of the leader of w.
LedgersAgree ==
  \A t \in Terms : \A k \in 1..Len(ledger[t]) :
    /\ ledger[t][k].term \in Terms
    /\ ledger[t][k].term <= t
    /\ Agree(ledger[t], ledger[ledger[t][k].term], k)

\* What a node stores for a leader ends with an entry of the leader's own term,
\* and the leader has stored it too.
RecordShape(a) ==
  /\ a.term \in Terms
  /\ a.index \in 1..Len(ledger[a.term]) /\ ledger[a.term][a.index].term = a.term
  /\ LeaderStored(a.term, a.index)
StoredShape == \A a \in stored : RecordShape(a)

\* A leader was elected with what its voters had stored in an earlier term, or with
\* an entry of a term in between.
Passed(l, t, u) == \E n \in 1..Len(l) : l[n].term > t /\ l[n].term < u
VoterCovered(e, a) ==
  a.node \in e.voters /\ a.term < e.term =>
    \/ Passed(ledger[e.term], a.term, e.term)
    \/ Agree(ledger[e.term], ledger[a.term], a.index)
VotersCovered ==
  \A e \in elected : e.node \in e.voters /\ \A a \in stored : VoterCovered(e, a)
HistoryInv == LedgersAgree /\ StoredShape /\ VotersCovered

(* What holds of the nodes. *)

\* A log up to an entry of term w is that of the leader of w.
LogAgrees(i) ==
  \A k \in 1..Len(log[i]) :
    /\ log[i][k].term \in Terms
    /\ log[i][k].term <= term[i]
    /\ Agree(log[i], ledger[log[i][k].term], k)
LogsAgree == \A i \in Server : LogAgrees(i)

\* A follower has nothing of its leader's that the leader has not synced.
LogStored(i) ==
  \A k \in 1..Len(log[i]) :
    log[i][k].term = term[i] => WonBy(term[i], i) \/ LeaderStored(term[i], k)
LogsStored == \A i \in Server : LogStored(i)

\* What a node has stored stays on its disk until a later leader replaces it.
Held(s, t, k) ==
  \/ k <= persisted[s] /\ Agree(log[s], ledger[t], k)
  \/ persisted[s] > 0 /\ log[s][persisted[s]].term > t
RecordHeld(a) == a.term <= term[a.node] /\ Held(a.node, a.term, a.index)
StoredHeld == \A a \in stored : RecordHeld(a)

\* A leader's log is the ledger of its term; its no-op is there once it has taken
\* office.
LeaderHolds(i) ==
  role[i] = "Leader" =>
    /\ WonBy(term[i], i)
    /\ phase[i] # "elect"
    /\ ledger[term[i]] = log[i]
    /\ phase[i] = "elected" =>
         loopTerm[i] = term[i] /\ \A k \in 1..Len(log[i]) : log[i][k].term < term[i]
    /\ phase[i] # "elected" => log[i] # << >> /\ LastTerm(i) = term[i]
LeadersHold == \A i \in Server : LeaderHolds(i)

\* The main loop runs for a term of the node's own.
PhaseHolds(i) ==
  /\ phase[i] = "elected" => role[i] = "Leader"
  /\ phase[i] = "round" =>
       /\ loopTerm[i] <= term[i] /\ WonBy(loopTerm[i], i)
       /\ loopTerm[i] = term[i] => role[i] = "Leader"
  /\ phase[i] = "elect" => loopTerm[i] <= term[i] /\ ~WonBy(loopTerm[i], i)
  /\ phase[i] \in {"elect", "elected"} => \A j \in Server : exch[i][j].st = "idle"
PhasesHold == \A i \in Server : PhaseHolds(i)

\* A candidate still standing has the log it asked votes for, and what the nodes
\* that voted for it had stored, or something later.
Standing(c) == phase[c] = "elect" /\ role[c] = "Candidate" /\ term[c] = loopTerm[c]
GrantCovered(c, a) ==
  a.node \in Granted(c) /\ a.term < loopTerm[c] =>
    LastTerm(c) > a.term \/ Agree(log[c], ledger[a.term], a.index)
CandidateCovers(c) ==
  Standing(c) =>
    /\ \A m \in ballots : m.cand = c /\ m.term = loopTerm[c] =>
         m.lastTerm = LastTerm(c) /\ m.lastIndex = LastIndex(c)
    /\ \A a \in stored : GrantCovered(c, a)
CandidatesCover ==
  /\ \A m \in ballots : m.term <= term[m.cand]
  /\ \A c \in Server : CandidateCovers(c)

\* What a node has committed is chosen, and on its disk.
CommitHolds(s) ==
  /\ snap[s] <= lastApplied[s] /\ lastApplied[s] <= commitIndex[s]
  /\ commitIndex[s] <= persisted[s]
  /\ commitIndex[s] = 0 \/
       \E t \in Terms : /\ t <= term[s] /\ Chosen(t, commitIndex[s])
                        /\ Agree(log[s], ledger[t], commitIndex[s])
CommitsHold == \A s \in Server : CommitHolds(s)
AppliedHolds(a) ==
  a.index > 0 /\ \E t \in Terms : Chosen(t, a.index) /\ a.entry = ledger[t][a.index]
AppliedHold == \A a \in applied : AppliedHolds(a)
NodeInv ==
  /\ LogsAgree /\ LogsStored /\ StoredHeld /\ LeadersHold /\ PhasesHold
  /\ CandidatesCover /\ CommitsHold /\ AppliedHold

(* What holds of messages, of operations in their gaps and of a leader's progress. *)

\* A commit index and a compaction point that may be sent in term t.
GoodCommit(t, c) == c = 0 \/ \E u \in Terms : u <= t /\ Chosen(u, c)
GoodPoint(t, c) ==
  \/ c = 0
  \/ /\ Everywhere(t, c)
     /\ \A i \in Server : role[i] = "Leader" /\ term[i] = t => \A j \in Peers(i) : c <= match[i][j]

\* A request carries a part of its leader's log that the leader has synced, up to an
\* entry of its own term.
GoodRequest(l, r) ==
  /\ WonBy(r.term, l)
  /\ r.prev + Len(r.entries) \in 1..Len(ledger[r.term])
  /\ ledger[r.term][r.prev + Len(r.entries)].term = r.term
  /\ LeaderStored(r.term, r.prev + Len(r.entries))
  /\ r.prevTerm = IF r.prev = 0 THEN 0 ELSE ledger[r.term][r.prev].term
  /\ \A k \in 1..Len(r.entries) : r.entries[k] = ledger[r.term][r.prev + k]
  /\ GoodCommit(r.term, r.commit)
  /\ GoodPoint(r.term, r.compact)
SentGood(l, i) ==
  exch[l][i].st \in {"sent", "handling"} => l # i /\ GoodRequest(l, exch[l][i].req)
LateGood(m) == m.from # m.to /\ GoodRequest(m.from, m.req)
AppendGood(i, a) ==
  /\ a.from # i /\ GoodRequest(a.from, a.req)
  /\ a.req.term = term[i] /\ role[i] = "Follower"
RequestsGood ==
  /\ \A l, i \in Server : SentGood(l, i)
  /\ \A m \in late : LateGood(m)
  /\ \A i \in Server : \A a \in appending[i] : AppendGood(i, a)

\* Between its sections an operation still finds what its first section saw.
ProposeGap(i) ==
  \A p \in proposing[i] : role[i] = "Leader" /\ term[i] = p.term /\ phase[i] # "elected"
LaunchGap(i) ==
  todo[i] # {} =>
    /\ phase[i] = "round" /\ role[i] = "Leader" /\ loopTerm[i] = term[i]
    /\ HasStored(term[i], i, Len(log[i])) /\ roundCommit[i] = commitIndex[i]
    /\ \A j \in todo[i] : j # i /\ exch[i][j].st = "idle"
GapsHold == \A i \in Server : ProposeGap(i) /\ LaunchGap(i)

\* A match index is one the peer has reported in the term of the leader.
GoodMatch(t, i, j) == match[i][j] = 0 \/ HasStored(t, j, match[i][j])
MatchHolds(i, j) ==
  /\ role[i] = "Leader" /\ phase[i] # "elected" => GoodMatch(term[i], i, j)
  /\ phase[i] = "round" => GoodMatch(loopTerm[i], i, j)
MatchesHold == \A i \in Server : \A j \in Peers(i) : MatchHolds(i, j)
AckHolds(i, j) ==
  exch[i][j].st = "acked" =>
    /\ i # j
    /\ exch[i][j].ack.success =>
         [term |-> exch[i][j].term, node |-> j, index |-> exch[i][j].ack.matchIndex] \in stored
AcksHold == \A i, j \in Server : AckHolds(i, j)

\* A next index of n for peer j is above everything j has acknowledged to this leader
\* and everything it has stored in an earlier term that no later leader has replaced.
Lost(t, n, u) == \E w \in Terms : t < w /\ w <= u /\ ~Agree(ledger[w], ledger[t], n)
Floor(i, j, n) ==
  /\ match[i][j] < n
  /\ term[j] < term[i] => \A k \in n..Len(log[i]) : log[i][k].term = term[i]
  /\ \A a \in stored : a.node = j /\ a.term < term[i] /\ n <= a.index => Lost(a.term, n, term[i])
NextHolds(i, j) ==
  role[i] = "Leader" /\ phase[i] # "elected" =>
    /\ next[i][j] <= Len(log[i]) + 1
    /\ Floor(i, j, next[i][j])
    /\ exch[i][j].st \in {"sent", "handling"} =>
         exch[i][j].req.term = term[i] /\ exch[i][j].req.prev = next[i][j] - 1
    /\ exch[i][j].st = "acked" =>
         /\ exch[i][j].term = term[i]
         /\ exch[i][j].ack.success => match[i][j] <= exch[i][j].ack.matchIndex
         /\ ~exch[i][j].ack.success /\ exch[i][j].ack.term <= term[i] =>
              Floor(i, j, next[i][j] - 1) /\ term[j] >= term[i]
NextHold == \A i \in Server : \A j \in Peers(i) : NextHolds(i, j)

\* A log is compacted no further than every node has stored.
SnapHolds(s) == snap[s] = 0 \/ \E t \in Terms : GoodPoint(t, snap[s])
RoundHolds(i) == phase[i] = "round" => GoodPoint(loopTerm[i], compactTo[i])
PointsHold == \A s \in Server : SnapHolds(s) /\ RoundHolds(s)
NetInv ==
  RequestsGood /\ GapsHold /\ MatchesHold /\ AcksHold /\ NextHold /\ PointsHold

\* The inductive invariant of the replicated log.
SafeInv == TypeOK /\ VoteInv /\ HistoryInv /\ NodeInv /\ NetInv
----------------------------------------------------------------------------

\* A ledger is a log.
LEMMA LedgerType ==
  ASSUME TypeOK, NEW t \in Terms
  PROVE  /\ t \in Nat /\ ledger[t] \in Seq(Entry) /\ Len(ledger[t]) \in Nat
         /\ \A k \in 1..Len(ledger[t]) : ledger[t][k] \in Entry /\ ledger[t][k].term \in Nat
<1>1. t \in Nat /\ ledger[t] \in Seq(Entry)
  BY DEF TypeOK, HistType, Terms
<1>2. Len(ledger[t]) \in Nat /\ \A k \in 1..Len(ledger[t]) : ledger[t][k] \in Entry
  BY <1>1, LenProperties, ElementOfSeq
<1> QED  BY <1>1, <1>2 DEF Entry

\* A term has a ledger exactly when it had a leader.
LEMMA TermsAreWon ==
  ASSUME TypeOK, NEW t
  PROVE  /\ t \in Terms => \E e \in elected : e.term = t
         /\ \A i : WonBy(t, i) => t \in Terms
BY DEF TypeOK, HistType, Terms, WonBy

\* The types of what a node has in its log.
LEMMA LogElements ==
  ASSUME TypeOK, NEW i \in Server
  PROVE  /\ log[i] \in Seq(Entry) /\ Len(log[i]) \in Nat
         /\ \A k \in 1..Len(log[i]) : log[i][k] \in Entry /\ log[i][k].term \in Nat
         /\ term[i] \in Nat /\ persisted[i] \in Nat /\ persisted[i] <= Len(log[i])
<1>1. log[i] \in Seq(Entry)
  BY DEF TypeOK, LogType
<1>2. Len(log[i]) \in Nat /\ \A k \in 1..Len(log[i]) : log[i][k] \in Entry
  BY <1>1, LenProperties, ElementOfSeq
<1>3. term[i] \in Nat /\ persisted[i] \in Nat /\ persisted[i] <= Len(log[i])
  BY DEF TypeOK, LogType, StateType
<1> QED  BY <1>1, <1>2, <1>3 DEF Entry

\* Terms grow along a ledger and along a log.
LEMMA LedgerOrder ==
  ASSUME TypeOK, LedgersAgree, NEW t \in Terms, NEW n \in 1..Len(ledger[t]), NEW k \in 1..n
  PROVE  ledger[t][k].term <= ledger[t][n].term
<1> DEFINE w == ledger[t][n].term
<1>1. Len(ledger[t]) \in Nat /\ w \in Terms /\ Agree(ledger[t], ledger[w], n)
  BY LedgerType DEF LedgersAgree
<1> HIDE DEF w
<1>2. k \in 1..Len(ledger[w]) /\ ledger[t][k] = ledger[w][k]
  BY <1>1, LedgerType DEF Agree
<1>3. ledger[w][k].term <= w
  BY <1>1, <1>2 DEF LedgersAgree
<1> QED  BY <1>2, <1>3 DEF w

\* The same along a log.
LEMMA LogOrder ==
  ASSUME TypeOK, LedgersAgree, LogsAgree, NEW i \in Server, NEW n \in 1..Len(log[i]), NEW k \in 1..n
  PROVE  log[i][k].term <= log[i][n].term
<1> DEFINE w == log[i][n].term
<1>1. Len(log[i]) \in Nat /\ w \in Terms /\ Agree(log[i], ledger[w], n)
  BY LogElements DEF LogsAgree, LogAgrees
<1> HIDE DEF w
<1>2. k \in 1..Len(ledger[w]) /\ log[i][k] = ledger[w][k]
  BY <1>1, LedgerType DEF Agree
<1>3. ledger[w][k].term <= w
  BY <1>1, <1>2 DEF LedgersAgree
<1> QED  BY <1>2, <1>3 DEF w

\* Logs that agree up to n agree up to less.
LEMMA AgreeShorter ==
  ASSUME NEW l, NEW m, NEW n \in Nat, NEW k \in Nat, k <= n, Agree(l, m, n),
         Len(l) \in Nat, Len(m) \in Nat
  PROVE  Agree(l, m, k)
BY DEF Agree

\* Two logs that agree with a third agree with each other.
LEMMA AgreeMeet ==
  ASSUME NEW l, NEW m, NEW p, NEW n \in Nat, Agree(l, m, n), Agree(p, m, n)
  PROVE  Agree(l, p, n)
BY DEF Agree

\* Agreement of logs is transitive.
LEMMA AgreeThrough ==
  ASSUME NEW l, NEW m, NEW p, NEW n \in Nat, Agree(l, m, n), Agree(m, p, n)
  PROVE  Agree(l, p, n)
BY DEF Agree

\* What a node has told the leader of t it has, up to k, is in its ledger.
LEMMA StoredRange ==
  ASSUME TypeOK, StoredShape, NEW t, NEW s, NEW k \in Nat, HasStored(t, s, k)
  PROVE  t \in Terms /\ s \in Server /\ k <= Len(ledger[t])
<1>1. PICK a \in stored : a.term = t /\ a.node = s /\ a.index >= k
  BY DEF HasStored
<1>2. a.index \in Nat /\ a.node \in Server
  BY DEF TypeOK, HistType
<1> QED  BY <1>1, <1>2, LedgerType DEF StoredShape, RecordShape

\* Every majority has a node that has stored what is chosen.
LEMMA ChosenStored ==
  ASSUME TypeOK, StoredShape, NEW t, NEW k \in Nat, NEW Q \in SUBSET Server, IsMajority(Q), Chosen(t, k)
  PROVE  \E s \in Q : HasStored(t, s, k)
<1> DEFINE R == {s \in Server : HasStored(t, s, k)}
<1>1. Q \cap R # {}
  BY MajoritiesMeet DEF Chosen
<1> QED  BY <1>1

\* Leader completeness over the history.
LEMMA Complete ==
  ASSUME TypeOK, VoteInv, HistoryInv, NEW t \in Terms, NEW k \in Nat, Chosen(t, k),
         NEW u \in Terms, t <= u
  PROVE  Agree(ledger[u], ledger[t], k)
<1> USE DEF HistoryInv
<1>0. PICK e0 \in elected : e0.term = t
  BY TermsAreWon
<1>00. e0.voters \in SUBSET Server /\ IsMajority(e0.voters)
  BY DEF TypeOK, HistType, VoteInv, WinsBind
<1>1. PICK s0 \in Server : HasStored(t, s0, k)
  BY <1>00, ChosenStored
<1>2. k <= Len(ledger[t])
  BY <1>1, StoredRange
<1> DEFINE B == {w \in Terms : t <= w /\ ~Agree(ledger[w], ledger[t], k)}
<1> SUFFICES ASSUME B # {} PROVE FALSE
  OBVIOUS
<1>3. B \in SUBSET Nat
  BY LedgerType
<1>4. PICK w \in B : \A x \in B : w <= x
  BY <1>3, LeastNatural
<1>5. w \in Terms /\ t <= w /\ ~Agree(ledger[w], ledger[t], k) /\ w \in Nat /\ t \in Nat
  BY LedgerType
<1>6. \A x \in Terms : t <= x /\ x < w => Agree(ledger[x], ledger[t], k)
  BY <1>4, <1>5, LedgerType
<1> HIDE DEF B
<1>7. w # t
  BY <1>2, <1>5 DEF Agree
<1>8. PICK e \in elected : e.term = w
  BY <1>5, TermsAreWon
<1>9. e.voters \in SUBSET Server /\ IsMajority(e.voters)
  BY DEF TypeOK, HistType, VoteInv, WinsBind
<1>10. PICK s \in e.voters : HasStored(t, s, k)
  BY <1>9, ChosenStored
<1>11. PICK a \in stored : a.term = t /\ a.node = s /\ a.index >= k
  BY <1>10 DEF HasStored
<1>12. \/ Passed(ledger[w], t, w)
       \/ Agree(ledger[w], ledger[t], a.index)
  BY <1>5, <1>7, <1>8, <1>10, <1>11 DEF VotersCovered, VoterCovered
<1>13. a.index \in Nat
  BY DEF TypeOK, HistType
<1>14. Passed(ledger[w], t, w)
  <2>1. Len(ledger[w]) \in Nat /\ Len(ledger[t]) \in Nat
    BY <1>5, LedgerType
  <2> QED  BY <1>5, <1>11, <1>12, <1>13, <2>1, AgreeShorter
<1>15. PICK n \in 1..Len(ledger[w]) : ledger[w][n].term > t /\ ledger[w][n].term < w
  BY <1>14 DEF Passed
<1> DEFINE x == ledger[w][n].term
<1>16. x \in Terms /\ Agree(ledger[w], ledger[x], n) /\ x \in Nat
  BY <1>5, LedgerType DEF LedgersAgree
<1>17. x > t /\ x < w
  BY <1>15
<1>18. ledger[x][n].term = x /\ n \in 1..Len(ledger[x]) /\ n \in Nat
  <2>1. Len(ledger[w]) \in Nat /\ Len(ledger[x]) \in Nat
    BY <1>5, <1>16, LedgerType
  <2>2. n \in 1..n /\ n <= Len(ledger[x])
    BY <1>16, <2>1 DEF Agree
  <2>3. ledger[w][n] = ledger[x][n]
    BY <1>16, <2>2 DEF Agree
  <2> QED  BY <2>1, <2>2, <2>3
<1> HIDE DEF x
<1>19. Agree(ledger[x], ledger[t], k)
  BY <1>6, <1>16, <1>17, <1>5
<1>20. k <= n
  <2> SUFFICES ASSUME k > n PROVE FALSE
    BY <1>18
  <2>1. n \in 1..k /\ n \in 1..Len(ledger[t])
    BY <1>2, <1>18, LedgerType
  <2>2. ledger[x][n] = ledger[t][n]
    BY <1>19, <2>1 DEF Agree
  <2>3. ledger[t][n].term <= t
    BY <2>1 DEF LedgersAgree
  <2> QED  BY <2>2, <2>3, <1>5, <1>16, <1>17, <1>18
<1>21. Agree(ledger[w], ledger[x], k)
  <2>1. Len(ledger[w]) \in Nat /\ Len(ledger[x]) \in Nat
    BY <1>5, <1>16, LedgerType
  <2> QED  BY <1>16, <1>18, <1>20, <2>1, AgreeShorter
<1> QED  BY <1>5, <1>19, <1>21, AgreeThrough
----------------------------------------------------------------------------

\* What contains a majority is one.
LEMMA MoreIsMajority ==
  ASSUME NEW Q \in SUBSET Server, NEW R \in SUBSET Server, Q \subseteq R, IsMajority(Q)
  PROVE  IsMajority(R)
<1>1. Cardinality(Server) \in Nat /\ Cardinality(Q) \in Nat /\ Cardinality(R) \in Nat
      /\ Cardinality(Q) <= Cardinality(R)
  BY ServerAssumption, FS_CardinalityType, FS_Subset
<1> QED  BY <1>1 DEF IsMajority, Majority

\* What is chosen is on the disk of every node that has reported it.
LEMMA ChosenIsHeld ==
  ASSUME TypeOK, VoteInv, HistoryInv, LogsAgree, StoredHeld, NEW t, NEW k \in Nat, NEW s,
         Chosen(t, k), HasStored(t, s, k)
  PROVE  /\ t \in Terms /\ s \in Server
         /\ k <= persisted[s] /\ Agree(log[s], ledger[t], k)
<1> USE DEF HistoryInv
<1>1. PICK a \in stored : a.term = t /\ a.node = s /\ a.index >= k
  BY DEF HasStored
<1>2. a.index \in Nat /\ t \in Terms /\ s \in Server /\ k <= Len(ledger[t])
  BY <1>1, StoredRange DEF TypeOK, HistType
<1>3. Held(s, t, a.index)
  BY <1>1 DEF StoredHeld, RecordHeld
<1>4. /\ Len(log[s]) \in Nat /\ Len(ledger[t]) \in Nat /\ persisted[s] \in Nat
      /\ persisted[s] <= Len(log[s]) /\ t \in Nat
  BY <1>2, LogElements, LedgerType
<1>5. CASE a.index <= persisted[s] /\ Agree(log[s], ledger[t], a.index)
  BY <1>1, <1>2, <1>4, <1>5, AgreeShorter
<1>6. CASE persisted[s] > 0 /\ log[s][persisted[s]].term > t
  <2> DEFINE p == persisted[s]
             w == log[s][p].term
  <2>1. p \in 1..Len(log[s])
    BY <1>4, <1>6
  <2>2. w \in Terms /\ Agree(log[s], ledger[w], p) /\ w > t
    BY <1>2, <1>6, <2>1 DEF LogsAgree, LogAgrees
  <2>3. Len(ledger[w]) \in Nat /\ w \in Nat
    BY <2>2, LedgerType
  <2>4. log[s][p].term = w
    OBVIOUS
  <2>5. p \in Nat
    BY <1>4
  <2> HIDE DEF w, p
  <2>6. Agree(ledger[w], ledger[t], k)
    BY <1>2, <1>4, <2>2, <2>3, Complete
  <2>7. k <= p
    <3> SUFFICES ASSUME k > p PROVE FALSE
      BY <2>5
    <3>1. p \in 1..k /\ p \in 1..p /\ p \in 1..Len(ledger[t])
      BY <1>2, <1>4, <2>1, <2>5
    <3>2. log[s][p] = ledger[w][p] /\ ledger[w][p] = ledger[t][p]
      BY <2>2, <2>6, <3>1 DEF Agree
    <3>3. ledger[t][p].term <= t
      BY <1>2, <3>1 DEF LedgersAgree
    <3> QED  BY <1>4, <2>2, <2>3, <2>4, <3>2, <3>3
  <2>8. Agree(log[s], ledger[w], k)
    BY <1>4, <2>2, <2>3, <2>5, <2>7, AgreeShorter
  <2>9. Agree(log[s], ledger[t], k)
    BY <2>6, <2>8, AgreeThrough
  <2> QED  BY <1>2, <2>7, <2>9 DEF p
<1> QED  BY <1>3, <1>5, <1>6 DEF Held

\* The invariant gives log matching: both logs are that of the leader of the term.
LEMMA SafeLogMatching == SafeInv => LogMatching
<1> SUFFICES ASSUME SafeInv, NEW i \in Server, NEW j \in Server,
                    NEW k \in 1..Min(Len(log[i]), Len(log[j])),
                    log[i][k].term = log[j][k].term, NEW m \in 1..k
             PROVE  log[i][m] = log[j][m]
  BY DEF LogMatching
<1>1. Len(log[i]) \in Nat /\ Len(log[j]) \in Nat
  BY LogElements DEF SafeInv
<1>2. k \in Nat /\ k \in 1..Len(log[i]) /\ k \in 1..Len(log[j])
  BY <1>1 DEF Min
<1>3. Agree(log[i], ledger[log[i][k].term], k) /\ Agree(log[j], ledger[log[i][k].term], k)
  BY <1>2 DEF SafeInv, NodeInv, LogsAgree, LogAgrees
<1> QED  BY <1>3 DEF Agree

\* The invariant gives state machine safety: what is chosen at an index is unique.
LEMMA SafeStateMachine == SafeInv => StateMachineSafety
<1> SUFFICES ASSUME SafeInv, NEW a \in applied, NEW b \in applied, a.index = b.index
             PROVE  a = b
  BY DEF StateMachineSafety
<1>1. a \in [index : Nat, entry : Entry] /\ b \in [index : Nat, entry : Entry]
  BY DEF SafeInv, TypeOK, HistType
<1>2. PICK t \in Terms : Chosen(t, a.index) /\ a.entry = ledger[t][a.index]
  BY DEF SafeInv, NodeInv, AppliedHold, AppliedHolds
<1>3. PICK u \in Terms : Chosen(u, a.index) /\ b.entry = ledger[u][a.index]
  BY DEF SafeInv, NodeInv, AppliedHold, AppliedHolds
<1>4. a.index \in 1..a.index /\ a.index \in Nat
  BY <1>1 DEF SafeInv, NodeInv, AppliedHold, AppliedHolds
<1>5. t \in Nat /\ u \in Nat
  BY LedgerType DEF SafeInv
<1>6. Agree(ledger[u], ledger[t], a.index) \/ Agree(ledger[t], ledger[u], a.index)
  <2>1. CASE t <= u  BY <1>2, <1>4, <2>1, Complete DEF SafeInv
  <2>2. CASE u <= t  BY <1>3, <1>4, <2>2, Complete DEF SafeInv
  <2> QED  BY <1>5, <2>1, <2>2
<1>7. a.entry = b.entry
  BY <1>2, <1>3, <1>4, <1>6 DEF Agree
<1> QED  BY <1>1, <1>7

\* The invariant puts what is applied on the disks of a majority.
LEMMA SafeOnQuorum == SafeInv => AppliedOnQuorum
<1> SUFFICES ASSUME SafeInv, NEW a \in applied
             PROVE  IsMajority({s \in Server : OnDisk(s, a)})
  BY DEF AppliedOnQuorum
<1>1. a.index \in Nat /\ a.index > 0
  BY DEF SafeInv, TypeOK, HistType, NodeInv, AppliedHold, AppliedHolds
<1>2. PICK t \in Terms : Chosen(t, a.index) /\ a.entry = ledger[t][a.index]
  BY DEF SafeInv, NodeInv, AppliedHold, AppliedHolds
<1> DEFINE Q == {s \in Server : HasStored(t, s, a.index)}
           R == {s \in Server : OnDisk(s, a)}
<1>3. ASSUME NEW s \in Server, HasStored(t, s, a.index) PROVE OnDisk(s, a)
  <2>1. a.index <= persisted[s] /\ Agree(log[s], ledger[t], a.index)
    BY <1>1, <1>2, <1>3, ChosenIsHeld DEF SafeInv, NodeInv
  <2>2. a.index \in 1..a.index
    BY <1>1
  <2> QED  BY <1>2, <2>1, <2>2 DEF OnDisk, Agree
<1>4. Q \in SUBSET Server /\ R \in SUBSET Server /\ Q \subseteq R /\ IsMajority(Q)
  BY <1>2, <1>3 DEF Chosen
<1> QED  BY <1>4, MoreIsMajority

\* The invariant gives leader completeness.
LEMMA SafeLeader == SafeInv => LeaderCompleteness
<1> SUFFICES ASSUME SafeInv, NEW i \in Server, role[i] = "Leader",
                    \A e \in elected : e.term <= term[i], NEW a \in applied
             PROVE  a.index <= Len(log[i]) /\ log[i][a.index] = a.entry
  BY DEF LeaderCompleteness
<1>1. a.index \in Nat /\ a.index > 0
  BY DEF SafeInv, TypeOK, HistType, NodeInv, AppliedHold, AppliedHolds
<1>2. PICK t \in Terms : Chosen(t, a.index) /\ a.entry = ledger[t][a.index]
  BY DEF SafeInv, NodeInv, AppliedHold, AppliedHolds
<1>3. t <= term[i] /\ term[i] \in Terms /\ ledger[term[i]] = log[i]
  BY TermsAreWon DEF SafeInv, NodeInv, LeadersHold, LeaderHolds
<1>4. Agree(log[i], ledger[t], a.index)
  BY <1>1, <1>2, <1>3, Complete DEF SafeInv
<1> QED  BY <1>1, <1>2, <1>4 DEF Agree

\* A leader has more to send to no peer than what compaction keeps.
LEMMA PointBelowNext ==
  ASSUME TypeOK, VoteInv, HistoryInv, StoredHeld, LeadersHold, NextHold,
         NEW i \in Server, role[i] = "Leader", phase[i] # "elected",
         NEW j \in Peers(i), NEW t, NEW c \in Nat, GoodPoint(t, c)
  PROVE  c < next[i][j]
<1>0. j \in Server /\ next[i][j] \in Nat /\ next[i][j] > 0 /\ match[i][j] \in Nat /\ term[i] \in Nat
  BY DEF TypeOK, LeadType, StateType, Peers
<1>1. CASE c = 0
  BY <1>0, <1>1
<1>2. CASE c # 0
  <2>1. Everywhere(t, c)
    BY <1>2 DEF GoodPoint
  <2>2. HasStored(t, i, c) /\ HasStored(t, j, c)
    BY <1>0, <2>1 DEF Everywhere
  <2>3. t \in Terms /\ t \in Nat
    BY <2>2, StoredRange, LedgerType DEF HistoryInv
  <2>4. t <= term[i]
    BY <2>2 DEF HasStored, StoredHeld, RecordHeld
  <2>5. CASE t = term[i]
    <3>1. c <= match[i][j]
      BY <1>2, <2>5 DEF GoodPoint
    <3>2. match[i][j] < next[i][j]
      BY DEF NextHold, NextHolds, Floor
    <3> QED  BY <1>0, <3>1, <3>2
  <2>6. CASE t < term[i]
    <3> SUFFICES ASSUME next[i][j] <= c PROVE FALSE
      BY <1>0
    <3>1. PICK a \in stored : a.term = t /\ a.node = j /\ a.index >= c
      BY <2>2 DEF HasStored
    <3>2. a.index \in Nat
      BY DEF TypeOK, HistType
    <3>3. Lost(t, next[i][j], term[i])
      BY <1>0, <2>6, <3>1, <3>2 DEF NextHold, NextHolds, Floor
    <3>4. PICK w \in Terms : t < w /\ w <= term[i] /\ ~Agree(ledger[w], ledger[t], next[i][j])
      BY <3>3 DEF Lost
    <3>5. Server \in SUBSET Server /\ IsMajority(Server)
      <4>1. PICK e \in elected : e.term = t
        BY <2>3, TermsAreWon
      <4>2. e.voters \in SUBSET Server /\ IsMajority(e.voters)
        BY DEF TypeOK, HistType, VoteInv, WinsBind
      <4> QED  BY <4>2, MoreIsMajority
    <3>6. Chosen(t, c)
      <4>1. {s \in Server : HasStored(t, s, c)} = Server
        BY <2>1 DEF Everywhere
      <4> QED  BY <3>5, <4>1 DEF Chosen
    <3>7. w \in Nat /\ Len(ledger[w]) \in Nat /\ Len(ledger[t]) \in Nat
      BY <2>3, LedgerType
    <3>8. Agree(ledger[w], ledger[t], c)
      BY <2>3, <3>4, <3>6, <3>7, Complete
    <3> QED  BY <1>0, <3>4, <3>7, <3>8, AgreeShorter
  <2> QED  BY <1>0, <2>3, <2>4, <2>5, <2>6
<1> QED  BY <1>1, <1>2

\* The invariant keeps every next index above the snapshot.
LEMMA SafeNoStranded == SafeInv => NoStrandedPeer
<1> SUFFICES ASSUME SafeInv, NEW i \in Server, NEW j \in Server,
                    role[i] = "Leader", phase[i] # "elected", i # j
             PROVE  next[i][j] > snap[i]
  BY DEF NoStrandedPeer
<1>1. snap[i] \in Nat /\ j \in Peers(i) /\ next[i][j] \in Nat /\ next[i][j] > 0
  BY DEF SafeInv, TypeOK, CursorType, LeadType, Peers
<1>2. CASE snap[i] = 0
  BY <1>1, <1>2
<1>3. CASE snap[i] # 0
  <2>1. PICK t \in Terms : GoodPoint(t, snap[i])
    BY <1>3 DEF SafeInv, NetInv, PointsHold, SnapHolds
  <2>2. snap[i] < next[i][j]
    BY <1>1, <2>1, PointBelowNext DEF SafeInv, NodeInv, NetInv
  <2> QED  BY <1>1, <2>2
<1> QED  BY <1>2, <1>3
----------------------------------------------------------------------------

\* What a step may do to the history, and to the terms of nodes.
HistoryGrows ==
  /\ elected \subseteq elected' /\ stored \subseteq stored'
  /\ \A t \in Terms :
       /\ t \in Terms' /\ Len(ledger[t]) <= Len(ledger'[t])
       /\ \A k \in 1..Len(ledger[t]) : ledger'[t][k] = ledger[t][k]
       /\ \A k \in Len(ledger[t]) + 1..Len(ledger'[t]) : ledger'[t][k].term = t
  /\ \A s \in Server : term[s] <= term'[s]
LeadershipKept ==
  \A i \in Server : role'[i] = "Leader" =>
    \/ role[i] = "Leader" /\ term'[i] = term[i] /\ \A j \in Peers(i) : match[i][j] <= match'[i][j]
    \/ \A a \in stored : a.term # term'[i]

\* What a step may do to a ledger: extend it with entries of its own term.
LEMMA GrowLedger ==
  ASSUME TypeOK, TypeOK', HistoryGrows, NEW t \in Terms
  PROVE  /\ t \in Terms' /\ t \in Nat /\ Len(ledger[t]) \in Nat /\ Len(ledger'[t]) \in Nat
         /\ Len(ledger[t]) <= Len(ledger'[t])
         /\ \A k \in 1..Len(ledger[t]) : k \in 1..Len(ledger'[t]) /\ ledger'[t][k] = ledger[t][k]
         /\ \A k \in Len(ledger[t]) + 1..Len(ledger'[t]) : ledger'[t][k].term = t
<1>1. /\ t \in Terms' /\ Len(ledger[t]) <= Len(ledger'[t])
      /\ \A k \in 1..Len(ledger[t]) : ledger'[t][k] = ledger[t][k]
      /\ \A k \in Len(ledger[t]) + 1..Len(ledger'[t]) : ledger'[t][k].term = t
  BY DEF HistoryGrows
<1>2. t \in Nat /\ Len(ledger[t]) \in Nat
  BY LedgerType
<1>3. Len(ledger'[t]) \in Nat
  <2>1. ledger'[t] \in Seq(Entry)
    BY <1>1 DEF TypeOK, HistType, Terms
  <2> QED  BY <2>1, LenProperties
<1> QED  BY <1>1, <1>2, <1>3

\* A log that agrees with a ledger still does.
LEMMA GrowAgree ==
  ASSUME TypeOK, TypeOK', HistoryGrows, NEW t \in Terms, NEW l, NEW n \in Nat,
         Agree(l, ledger[t], n)
  PROVE  Agree(l, ledger'[t], n)
BY GrowLedger DEF Agree

\* Agreement of two ledgers up to n.
LEMMA GrowAgreeBoth ==
  ASSUME TypeOK, TypeOK', HistoryGrows, NEW t \in Terms, NEW u \in Terms, NEW n \in Nat,
         Agree(ledger[u], ledger[t], n)
  PROVE  Agree(ledger'[u], ledger'[t], n)
<1>1. Len(ledger[u]) \in Nat /\ Len(ledger'[u]) \in Nat /\ Len(ledger[u]) <= Len(ledger'[u])
      /\ \A k \in 1..Len(ledger[u]) : ledger'[u][k] = ledger[u][k]
  BY GrowLedger
<1>2. Len(ledger[t]) \in Nat /\ Len(ledger'[t]) \in Nat /\ Len(ledger[t]) <= Len(ledger'[t])
      /\ \A k \in 1..Len(ledger[t]) : ledger'[t][k] = ledger[t][k]
  BY GrowLedger
<1>3. n <= Len(ledger[u]) /\ n <= Len(ledger[t]) /\ \A k \in 1..n : ledger[u][k] = ledger[t][k]
  BY DEF Agree
<1>4. n <= Len(ledger'[u]) /\ n <= Len(ledger'[t])
  BY <1>1, <1>2, <1>3
<1>5. ASSUME NEW k \in 1..n PROVE ledger'[u][k] = ledger'[t][k]
  <2>1. k \in 1..Len(ledger[u]) /\ k \in 1..Len(ledger[t])
    BY <1>1, <1>2, <1>3
  <2> QED  BY <1>1, <1>2, <1>3, <2>1
<1> QED  BY <1>4, <1>5 DEF Agree

\* An election won stays won.
LEMMA GrowWon ==
  ASSUME HistoryGrows, NEW t, NEW i, WonBy(t, i)  PROVE WonBy(t, i)'
BY DEF HistoryGrows, WonBy

\* What a node has stored in a term is not forgotten by the history.
LEMMA GrowStored ==
  ASSUME HistoryGrows, NEW t, NEW s, NEW k, HasStored(t, s, k)  PROVE HasStored(t, s, k)'
BY DEF HistoryGrows, HasStored

\* The same for the leader of the term.
LEMMA GrowLeaderStored ==
  ASSUME HistoryGrows, NEW t, NEW k, LeaderStored(t, k)  PROVE LeaderStored(t, k)'
<1>1. PICK e \in elected : e.term = t /\ HasStored(t, e.node, k)
  BY DEF LeaderStored
<1>2. e \in elected' /\ HasStored(t, e.node, k)'
  BY <1>1, GrowStored DEF HistoryGrows
<1> QED  BY <1>1, <1>2 DEF LeaderStored

\* What is chosen stays chosen.
LEMMA GrowChosen ==
  ASSUME HistoryGrows, NEW t, NEW k, Chosen(t, k)  PROVE Chosen(t, k)'
<1> DEFINE Q == {s \in Server : HasStored(t, s, k)}
           R == {s \in Server : HasStored(t, s, k)'}
<1>1. Q \in SUBSET Server /\ R \in SUBSET Server /\ Q \subseteq R
  BY GrowStored
<1>2. IsMajority(Q)
  BY DEF Chosen
<1>3. IsMajority(R)
  BY <1>1, <1>2, MoreIsMajority
<1> QED  BY <1>3 DEF Chosen

\* What every node has stored stays so.
LEMMA GrowEverywhere ==
  ASSUME HistoryGrows, NEW t, NEW k, Everywhere(t, k)  PROVE Everywhere(t, k)'
BY GrowStored DEF Everywhere

\* A commit index that may be sent stays one.
LEMMA GrowCommit ==
  ASSUME HistoryGrows, NEW t, NEW c, GoodCommit(t, c)  PROVE GoodCommit(t, c)'
<1>1. CASE c = 0
  BY <1>1 DEF GoodCommit
<1>2. CASE c # 0
  <2>1. PICK u \in Terms : u <= t /\ Chosen(u, c)
    BY <1>2 DEF GoodCommit
  <2>2. u \in Terms' /\ Chosen(u, c)'
    BY <2>1, GrowChosen DEF HistoryGrows
  <2> QED  BY <2>1, <2>2 DEF GoodCommit
<1> QED  BY <1>1, <1>2

\* A compaction point that may be sent stays one.
LEMMA GrowPoint ==
  ASSUME TypeOK, TypeOK', HistoryGrows, LeadershipKept, NEW t, NEW c \in Nat, GoodPoint(t, c)
  PROVE  GoodPoint(t, c)'
<1>1. CASE c = 0
  BY <1>1 DEF GoodPoint
<1>2. CASE c # 0
  <2>1. Everywhere(t, c)
    BY <1>2 DEF GoodPoint
  <2>2. Everywhere(t, c)'
    BY <2>1, GrowEverywhere
  <2>3. ASSUME NEW i \in Server, role'[i] = "Leader", term'[i] = t, NEW j \in Peers(i)
        PROVE  c <= match'[i][j]
    <3>1. HasStored(t, i, c)
      BY <2>1 DEF Everywhere
    <3>2. role[i] = "Leader" /\ term[i] = t /\ match[i][j] <= match'[i][j]
      BY <2>3, <3>1 DEF LeadershipKept, HasStored
    <3>3. c <= match[i][j]
      BY <1>2, <3>2 DEF GoodPoint
    <3>4. match[i][j] \in Nat /\ match'[i][j] \in Nat
      BY DEF TypeOK, LeadType, Peers
    <3> QED  BY <3>2, <3>3, <3>4
  <2> QED  BY <2>2, <2>3 DEF GoodPoint
<1> QED  BY <1>1, <1>2

\* A request that was right when sent is right whenever it arrives.
LEMMA GrowRequest ==
  ASSUME TypeOK, TypeOK', HistoryGrows, LeadershipKept, NEW l, NEW r \in Request, GoodRequest(l, r)
  PROVE  GoodRequest(l, r)'
<1>0. /\ r.term \in Nat /\ r.prev \in Nat /\ r.compact \in Nat /\ r.entries \in Seq(Entry)
      /\ Len(r.entries) \in Nat
  BY LenProperties DEF Request
<1> DEFINE N == r.prev + Len(r.entries)
<1>1. /\ WonBy(r.term, l) /\ N \in 1..Len(ledger[r.term]) /\ ledger[r.term][N].term = r.term
      /\ LeaderStored(r.term, N)
      /\ r.prevTerm = IF r.prev = 0 THEN 0 ELSE ledger[r.term][r.prev].term
      /\ \A k \in 1..Len(r.entries) : r.entries[k] = ledger[r.term][r.prev + k]
      /\ GoodCommit(r.term, r.commit) /\ GoodPoint(r.term, r.compact)
  BY DEF GoodRequest
<1>2. r.term \in Terms
  BY <1>1, TermsAreWon
<1>3. /\ Len(ledger[r.term]) \in Nat
      /\ \A k \in 1..Len(ledger[r.term]) :
           k \in 1..Len(ledger'[r.term]) /\ ledger'[r.term][k] = ledger[r.term][k]
  BY <1>2, GrowLedger
<1>4. N \in 1..Len(ledger'[r.term]) /\ ledger'[r.term][N].term = r.term
  BY <1>1, <1>3
<1>5. r.prevTerm = IF r.prev = 0 THEN 0 ELSE ledger'[r.term][r.prev].term
  <2>1. r.prev # 0 => r.prev \in 1..Len(ledger[r.term])
    BY <1>0, <1>1, <1>3
  <2>2. r.prev # 0 => ledger'[r.term][r.prev] = ledger[r.term][r.prev]
    BY <1>3, <2>1
  <2> QED  BY <1>1, <2>2
<1>6. ASSUME NEW k \in 1..Len(r.entries) PROVE r.entries[k] = ledger'[r.term][r.prev + k]
  <2>1. r.prev + k \in 1..Len(ledger[r.term])
    BY <1>0, <1>1, <1>3
  <2> QED  BY <1>1, <1>3, <2>1
<1>7. WonBy(r.term, l)' /\ LeaderStored(r.term, N)' /\ GoodCommit(r.term, r.commit)'
      /\ GoodPoint(r.term, r.compact)'
  BY <1>0, <1>1, GrowWon, GrowLeaderStored, GrowCommit, GrowPoint
<1> QED  BY <1>4, <1>5, <1>6, <1>7 DEF GoodRequest

\* What a later leader has replaced stays replaced.
LEMMA GrowLost ==
  ASSUME TypeOK, TypeOK', LedgersAgree, HistoryGrows, NEW t \in Terms, NEW n \in 1..Len(ledger[t]),
         NEW u, Lost(t, n, u)
  PROVE  Lost(t, n, u)'
<1>1. PICK w \in Terms : t < w /\ w <= u /\ ~Agree(ledger[w], ledger[t], n)
  BY DEF Lost
<1>2. /\ t \in Nat /\ Len(ledger[t]) \in Nat /\ Len(ledger'[t]) \in Nat
      /\ Len(ledger[t]) <= Len(ledger'[t])
      /\ \A k \in 1..Len(ledger[t]) : ledger'[t][k] = ledger[t][k]
  BY GrowLedger
<1>3. /\ w \in Terms' /\ w \in Nat /\ Len(ledger[w]) \in Nat /\ Len(ledger'[w]) \in Nat
      /\ Len(ledger[w]) <= Len(ledger'[w])
      /\ \A k \in 1..Len(ledger[w]) : ledger'[w][k] = ledger[w][k]
      /\ \A k \in Len(ledger[w]) + 1..Len(ledger'[w]) : ledger'[w][k].term = w
  BY GrowLedger
<1>4. ASSUME Agree(ledger'[w], ledger'[t], n) PROVE FALSE
  <2>1. n <= Len(ledger'[w]) /\ \A k \in 1..n : ledger'[w][k] = ledger'[t][k]
    BY <1>4 DEF Agree
  <2>2. CASE n <= Len(ledger[w])
    <3>1. \A k \in 1..n : ledger[w][k] = ledger[t][k]
      <4> SUFFICES ASSUME NEW k \in 1..n PROVE ledger[w][k] = ledger[t][k]
        OBVIOUS
      <4>1. k \in 1..Len(ledger[w]) /\ k \in 1..Len(ledger[t])
        BY <1>2, <1>3, <2>2
      <4> QED  BY <1>2, <1>3, <2>1, <4>1
    <3> QED  BY <1>1, <1>2, <2>2, <3>1 DEF Agree
  <2>3. CASE n > Len(ledger[w])
    <3>1. ledger'[w][n].term = w /\ ledger'[w][n] = ledger[t][n]
      BY <1>2, <1>3, <2>1, <2>3
    <3>2. ledger[t][n].term <= t
      BY DEF LedgersAgree
    <3> QED  BY <1>1, <1>2, <1>3, <3>1, <3>2
  <2> QED  BY <1>2, <1>3, <2>2, <2>3
<1> QED  BY <1>1, <1>3, <1>4 DEF Lost
----------------------------------------------------------------------------
(* What a step leaves true. *)

\* A record of something stored keeps its shape.
LEMMA KeepShape ==
  ASSUME TypeOK, TypeOK', HistoryGrows, NEW a, RecordShape(a)
  PROVE  RecordShape(a)'
<1>1. LeaderStored(a.term, a.index)'
  BY GrowLeaderStored DEF RecordShape
<1>2. a.term \in Terms /\ a.index \in 1..Len(ledger[a.term])
  BY DEF RecordShape
<1>3. /\ a.term \in Terms' /\ a.index \in 1..Len(ledger'[a.term])
      /\ ledger'[a.term][a.index] = ledger[a.term][a.index]
  BY <1>2, GrowLedger
<1> QED  BY <1>1, <1>3 DEF RecordShape

\* New records do not concern the voters of past elections: they are of later
\* terms.
LEMMA KeepVoters ==
  ASSUME TypeOK, TypeOK', VoteInv, StoredShape, VotersCovered, HistoryGrows,
         \A a \in stored' \ stored : a.term >= term[a.node], NEW e \in elected
  PROVE  e.node \in e.voters /\ \A a \in stored' : VoterCovered(e, a)'
<1> SUFFICES ASSUME NEW a \in stored' PROVE VoterCovered(e, a)'
  BY DEF VotersCovered
<1>0. /\ e.term \in Nat /\ e.term \in Terms /\ a.node \in Server
      /\ a.term \in Nat /\ a.index \in Nat /\ term[a.node] \in Nat
  BY DEF TypeOK, HistType, Terms, StateType
<1>1. CASE a \notin stored
  <2>1. a.node \in e.voters => term[a.node] >= e.term
    BY <1>0 DEF VoteInv, WinsBind, BoundTo
  <2> QED  BY <1>0, <1>1, <2>1 DEF VoterCovered
<1>2. CASE a \in stored
  <2>1. a.term \in Terms
    BY <1>2 DEF StoredShape, RecordShape
  <2>2. VoterCovered(e, a)
    BY <1>2 DEF VotersCovered
  <2>3. Passed(ledger[e.term], a.term, e.term) => Passed(ledger'[e.term], a.term, e.term)
    BY <1>0, GrowLedger DEF Passed
  <2>4. Agree(ledger[e.term], ledger[a.term], a.index) => Agree(ledger'[e.term], ledger'[a.term], a.index)
    BY <1>0, <2>1, GrowAgreeBoth
  <2> QED  BY <2>2, <2>3, <2>4 DEF VoterCovered
<1> QED  BY <1>1, <1>2

\* A log that is cut or left alone still agrees with the ledgers.
LEMMA KeepLog ==
  ASSUME TypeOK, TypeOK', HistoryGrows, NEW i \in Server, LogAgrees(i), LogStored(i),
         Len(log'[i]) <= Len(log[i]), \A k \in 1..Len(log'[i]) : log'[i][k] = log[i][k]
  PROVE  LogAgrees(i)' /\ LogStored(i)'
<1>1. Len(log[i]) \in Nat /\ term[i] \in Nat
  BY LogElements
<1>2. Len(log'[i]) \in Nat /\ term'[i] \in Nat /\ term[i] <= term'[i]
  <2>1. log'[i] \in Seq(Entry)
    BY DEF TypeOK, LogType
  <2> QED  BY <2>1, LenProperties DEF TypeOK, StateType, HistoryGrows
<1>3. ASSUME NEW k \in 1..Len(log'[i])
      PROVE  /\ log'[i][k].term \in Terms' /\ log'[i][k].term <= term'[i]
             /\ Agree(log'[i], ledger'[log'[i][k].term], k)
             /\ log'[i][k].term = term'[i] => (WonBy(term[i], i) \/ LeaderStored(term[i], k))'
  <2> DEFINE w == log[i][k].term
  <2>1. k \in 1..Len(log[i]) /\ k \in Nat /\ log'[i][k] = log[i][k]
    BY <1>1, <1>2
  <2>2. w \in Terms /\ w <= term[i] /\ Agree(log[i], ledger[w], k) /\ log'[i][k].term = w
    BY <2>1 DEF LogAgrees
  <2>3. w = term[i] => WonBy(term[i], i) \/ LeaderStored(term[i], k)
    BY <2>1 DEF LogStored
  <2> HIDE DEF w
  <2>4. w \in Nat /\ w \in Terms'
    BY <2>2, GrowLedger
  <2>5. Agree(log'[i], ledger[w], k)
    BY <1>1, <1>2, <2>1, <2>2 DEF Agree
  <2>6. Agree(log'[i], ledger'[w], k)
    BY <2>1, <2>2, <2>5, GrowAgree
  <2>7. w = term'[i] => term'[i] = term[i]
    BY <1>1, <1>2, <2>2, <2>4
  <2>8. w = term'[i] => (WonBy(term[i], i) \/ LeaderStored(term[i], k))'
    <3> SUFFICES ASSUME w = term'[i] PROVE (WonBy(term[i], i) \/ LeaderStored(term[i], k))'
      OBVIOUS
    <3>1. WonBy(term[i], i) \/ LeaderStored(term[i], k)
      BY <2>3, <2>7
    <3>2. PICK t : t = term[i]
      OBVIOUS
    <3>3. t = term'[i]
      BY <2>7, <3>2
    <3>4. CASE WonBy(term[i], i)
      <4>1. WonBy(t, i)'
        BY <3>2, <3>4, GrowWon
      <4> QED  BY <3>3, <4>1 DEF WonBy
    <3>5. CASE LeaderStored(term[i], k)
      <4>1. LeaderStored(t, k)'
        BY <3>2, <3>5, GrowLeaderStored
      <4> QED  BY <3>3, <4>1 DEF LeaderStored, HasStored
    <3> QED  BY <3>1, <3>4, <3>5
  <2> QED  BY <1>1, <1>2, <2>2, <2>4, <2>6, <2>8
<1> QED  BY <1>3 DEF LogAgrees, LogStored

\* What is held stays held where the disk is left alone.
LEMMA KeepHeld ==
  ASSUME TypeOK, TypeOK', HistoryGrows, NEW a \in stored, RecordShape(a), RecordHeld(a),
         persisted'[a.node] = persisted[a.node],
         \A k \in 1..persisted[a.node] : log'[a.node][k] = log[a.node][k]
  PROVE  RecordHeld(a)'
<1> DEFINE s == a.node
<1>0. s \in Server /\ a.term \in Nat /\ a.index \in Nat /\ a.term \in Terms
  BY DEF TypeOK, HistType, RecordShape
<1>1. Len(log[s]) \in Nat /\ persisted[s] \in Nat /\ persisted[s] <= Len(log[s]) /\ term[s] \in Nat
  BY <1>0, LogElements
<1>2. persisted'[s] <= Len(log'[s]) /\ term[s] <= term'[s] /\ term'[s] \in Nat
  BY <1>0 DEF TypeOK, LogType, StateType, HistoryGrows
<1>21. Len(log'[s]) \in Nat
  <2>1. log'[s] \in Seq(Entry)
    BY <1>0 DEF TypeOK, LogType
  <2> QED  BY <2>1, LenProperties
<1>3. CASE a.index <= persisted[s] /\ Agree(log[s], ledger[a.term], a.index)
  <2>1. Agree(log'[s], ledger[a.term], a.index)
    <3>1. a.index <= Len(log'[s]) /\ a.index <= Len(ledger[a.term])
      BY <1>0, <1>1, <1>2, <1>21, <1>3 DEF Agree
    <3>2. \A k \in 1..a.index : k \in 1..persisted[s]
      BY <1>0, <1>1, <1>3
    <3>3. \A k \in 1..a.index : log'[s][k] = log[s][k] /\ log[s][k] = ledger[a.term][k]
      BY <1>3, <3>2 DEF Agree
    <3> QED  BY <3>1, <3>3 DEF Agree
  <2>2. Agree(log'[s], ledger'[a.term], a.index)
    BY <1>0, <2>1, GrowAgree
  <2> QED  BY <1>0, <1>1, <1>2, <1>3, <2>2 DEF RecordHeld, Held
<1>4. CASE persisted[s] > 0 /\ log[s][persisted[s]].term > a.term
  <2>1. log'[s][persisted'[s]] = log[s][persisted[s]]
    BY <1>1, <1>4
  <2> QED  BY <1>0, <1>1, <1>2, <1>4, <2>1 DEF RecordHeld, Held
<1> QED  BY <1>3, <1>4 DEF RecordHeld, Held

\* What is held stays held where more of the log is written to disk.
LEMMA KeepHeldSynced ==
  ASSUME TypeOK, TypeOK', HistoryGrows, LedgersAgree, LogsAgree, NEW a \in stored, RecordShape(a),
         RecordHeld(a), log'[a.node] = log[a.node], persisted[a.node] <= persisted'[a.node]
  PROVE  RecordHeld(a)'
<1> DEFINE s == a.node
<1>0. s \in Server /\ a.term \in Nat /\ a.index \in Nat /\ a.term \in Terms
  BY DEF TypeOK, HistType, RecordShape
<1>1. Len(log[s]) \in Nat /\ persisted[s] \in Nat /\ persisted[s] <= Len(log[s]) /\ term[s] \in Nat
      /\ \A k \in 1..Len(log[s]) : log[s][k].term \in Nat
  BY <1>0, LogElements
<1>2. /\ persisted'[s] <= Len(log'[s]) /\ persisted'[s] \in Nat
      /\ term[s] <= term'[s] /\ term'[s] \in Nat
  BY <1>0 DEF TypeOK, LogType, StateType, HistoryGrows
<1>3. CASE a.index <= persisted[s] /\ Agree(log[s], ledger[a.term], a.index)
  <2>1. Agree(log'[s], ledger'[a.term], a.index)
    BY <1>0, <1>3, GrowAgree
  <2> QED  BY <1>0, <1>1, <1>2, <1>3, <2>1 DEF RecordHeld, Held
<1>4. CASE persisted[s] > 0 /\ log[s][persisted[s]].term > a.term
  <2>1. persisted'[s] \in 1..Len(log[s]) /\ persisted[s] \in 1..persisted'[s]
    BY <1>1, <1>2, <1>4
  <2>2. log[s][persisted[s]].term <= log[s][persisted'[s]].term
    BY <1>0, <2>1, LogOrder
  <2>3. log'[s][persisted'[s]].term > a.term /\ persisted'[s] > 0
    <3>1. persisted[s] \in 1..Len(log[s]) /\ persisted'[s] > 0
      BY <1>1, <1>2, <1>4, <2>1
    <3>2. log[s][persisted[s]].term \in Nat /\ log[s][persisted'[s]].term \in Nat
      BY <1>1, <2>1, <3>1
    <3>3. log'[s][persisted'[s]] = log[s][persisted'[s]]
      OBVIOUS
    <3> QED  BY <1>0, <1>4, <2>2, <3>1, <3>2, <3>3
  <2> QED  BY <1>0, <1>1, <1>2, <2>3 DEF RecordHeld, Held
<1> QED  BY <1>3, <1>4 DEF RecordHeld, Held

\* A node that keeps its committed entries on disk keeps what its commit index
\* promises.
LEMMA KeepCommit ==
  ASSUME TypeOK, TypeOK', HistoryGrows, NEW s \in Server, CommitHolds(s),
         snap'[s] = snap[s], lastApplied'[s] = lastApplied[s], commitIndex'[s] = commitIndex[s],
         persisted[s] <= persisted'[s],
         \A k \in 1..commitIndex[s] : log'[s][k] = log[s][k]
  PROVE  CommitHolds(s)'
<1>0. /\ commitIndex[s] \in Nat /\ persisted[s] \in Nat /\ persisted'[s] \in Nat
      /\ persisted'[s] <= Len(log'[s]) /\ term[s] \in Nat /\ term'[s] \in Nat /\ term[s] <= term'[s]
  BY DEF TypeOK, CursorType, LogType, StateType, HistoryGrows
<1>1. commitIndex[s] <= persisted'[s]
  BY <1>0 DEF CommitHolds
<1>2. CASE commitIndex[s] = 0
  BY <1>1, <1>2 DEF CommitHolds
<1>3. CASE commitIndex[s] # 0
  <2>1. PICK t \in Terms : /\ t <= term[s] /\ Chosen(t, commitIndex[s])
                           /\ Agree(log[s], ledger[t], commitIndex[s])
    BY <1>3 DEF CommitHolds
  <2>2. t \in Terms' /\ t \in Nat /\ Chosen(t, commitIndex[s])'
    <3>1. PICK c : c = commitIndex[s]
      OBVIOUS
    <3>2. Chosen(t, c)'
      BY <2>1, <3>1, GrowChosen
    <3> QED  BY <3>1, <3>2, GrowLedger DEF Chosen, HasStored
  <2>21. Len(log'[s]) \in Nat
    <3>1. log'[s] \in Seq(Entry)
      BY DEF TypeOK, LogType
    <3> QED  BY <3>1, LenProperties
  <2>3. Agree(log'[s], ledger[t], commitIndex[s])
    BY <1>0, <1>1, <2>1, <2>21 DEF Agree
  <2>4. Agree(log'[s], ledger'[t], commitIndex[s])
    BY <1>0, <2>3, GrowAgree
  <2> QED  BY <1>0, <1>1, <2>1, <2>2, <2>4 DEF CommitHolds
<1> QED  BY <1>2, <1>3

\* What was applied stays chosen.
LEMMA KeepApplied ==
  ASSUME TypeOK, TypeOK', StoredShape, VoteInv, HistoryGrows, NEW a \in applied, AppliedHolds(a)
  PROVE  AppliedHolds(a)'
<1>0. a.index \in Nat
  BY DEF TypeOK, HistType
<1>1. PICK t \in Terms : Chosen(t, a.index) /\ a.entry = ledger[t][a.index]
  BY DEF AppliedHolds
<1>2. PICK e \in elected : e.term = t
  BY TermsAreWon
<1>3. e.voters \in SUBSET Server /\ IsMajority(e.voters)
  BY DEF TypeOK, HistType, VoteInv, WinsBind
<1>4. a.index \in 1..Len(ledger[t])
  <2>1. PICK s \in Server : HasStored(t, s, a.index)
    BY <1>0, <1>1, <1>3, ChosenStored
  <2> QED  BY <1>0, <2>1, StoredRange, LedgerType DEF AppliedHolds
<1>5. Chosen(t, a.index)' /\ t \in Terms' /\ ledger'[t][a.index] = ledger[t][a.index]
  BY <1>1, <1>4, GrowChosen, GrowLedger
<1> QED  BY <1>1, <1>5 DEF AppliedHolds
----------------------------------------------------------------------------
(* Without races nothing comes between the sections of an operation. *)

\* Outside the gaps of operations, nobody is in one.
LEMMA FreeMeans ==
  ASSUME Races = {}, Free
  PROVE  \A i \in Server : /\ proposing[i] = {} /\ phase[i] # "elected"
                           /\ appending[i] = {} /\ todo[i] = {}
<1>1. \A o \in Operation : ~InGap(o)
  BY DEF Free
<1>2. ~InGap("propose") /\ ~InGap("elected") /\ ~InGap("append") /\ ~InGap("launch")
  BY <1>1 DEF Operation
<1> QED  BY <1>2 DEF InGap

\* The operation that finishes is the only one in its gap.
LEMMA FinishMeans ==
  ASSUME Races = {}, NEW op, MayFinish(op)
  PROVE  \A i \in Server : /\ op # "propose" => proposing[i] = {}
                           /\ op # "elected" => phase[i] # "elected"
                           /\ op # "append" => appending[i] = {}
                           /\ op # "launch" => todo[i] = {}
<1>1. \A o \in Operation : o # op => ~InGap(o)
  BY DEF MayFinish
<1>2. /\ op # "propose" => ~InGap("propose")
      /\ op # "elected" => ~InGap("elected")
      /\ op # "append" => ~InGap("append")
      /\ op # "launch" => ~InGap("launch")
  BY <1>1 DEF Operation
<1> QED  BY <1>2 DEF InGap

\* A leader that stays leader with its log.
LEMMA KeepLeader ==
  ASSUME HistoryGrows, NEW s \in Server, LeaderHolds(s),
         role'[s] = "Leader" =>
           /\ role[s] = "Leader" /\ term'[s] = term[s] /\ log'[s] = log[s]
           /\ ledger'[term[s]] = ledger[term[s]] /\ phase'[s] # "elect"
           /\ (phase'[s] = "elected" <=> phase[s] = "elected")
           /\ (phase'[s] = "elected" => loopTerm'[s] = loopTerm[s])
  PROVE  LeaderHolds(s)'
<1> SUFFICES ASSUME role'[s] = "Leader" PROVE LeaderHolds(s)'
  BY DEF LeaderHolds
<1>1. PICK t : t = term[s]
  OBVIOUS
<1>2. WonBy(t, s)
  BY <1>1 DEF LeaderHolds
<1>3. WonBy(t, s)'
  BY <1>2, GrowWon
<1>4. WonBy(term[s], s)'
  BY <1>1, <1>3 DEF WonBy
<1>5. LastTerm(s)' = LastTerm(s)
  BY DEF LastTerm
<1> QED  BY <1>4, <1>5 DEF LeaderHolds

\* A main loop that goes on in its phase or ends it.
LEMMA KeepPhase ==
  ASSUME TypeOK, TypeOK', HistoryGrows, NEW s \in Server, PhaseHolds(s),
         phase'[s] = phase[s] \/ phase'[s] = "idle",
         phase'[s] # "idle" => loopTerm'[s] = loopTerm[s],
         phase'[s] = "elected" => role'[s] = role[s],
         phase'[s] = "round" /\ term'[s] = term[s] /\ role[s] = "Leader" => role'[s] = "Leader",
         \A e \in elected' \ elected : e.node # s,
         phase'[s] \in {"elect", "elected"} =>
            \A j \in Server : exch'[s][j] = exch[s][j] \/ exch'[s][j].st = "idle"
  PROVE  PhaseHolds(s)'
<1>0. /\ term[s] \in Nat /\ term'[s] \in Nat /\ term[s] <= term'[s]
      /\ loopTerm[s] \in Nat
  BY DEF TypeOK, StateType, LoopType, HistoryGrows
<1>1. phase'[s] = "elected" => role'[s] = "Leader"
  BY DEF PhaseHolds
<1>2. PICK t : t = loopTerm[s]
  OBVIOUS
<1>3. phase'[s] = "round" =>
        /\ loopTerm'[s] <= term'[s] /\ WonBy(loopTerm[s], s)'
        /\ loopTerm'[s] = term'[s] => role'[s] = "Leader"
  <2> SUFFICES ASSUME phase'[s] = "round"
               PROVE  /\ loopTerm'[s] <= term'[s] /\ WonBy(loopTerm[s], s)'
                      /\ loopTerm'[s] = term'[s] => role'[s] = "Leader"
    OBVIOUS
  <2>1. loopTerm[s] <= term[s] /\ WonBy(t, s) /\ (loopTerm[s] = term[s] => role[s] = "Leader")
    BY <1>2 DEF PhaseHolds
  <2>2. WonBy(t, s)'
    BY <2>1, GrowWon
  <2>3. WonBy(loopTerm[s], s)'
    BY <1>2, <2>2 DEF WonBy
  <2> QED  BY <1>0, <2>1, <2>3
<1>4. phase'[s] = "elect" => loopTerm'[s] <= term'[s] /\ ~WonBy(loopTerm[s], s)'
  <2> SUFFICES ASSUME phase'[s] = "elect" PROVE loopTerm'[s] <= term'[s] /\ ~WonBy(loopTerm[s], s)'
    OBVIOUS
  <2>1. loopTerm[s] <= term[s] /\ ~WonBy(loopTerm[s], s)
    BY DEF PhaseHolds
  <2> QED  BY <1>0, <2>1 DEF WonBy
<1>5. phase'[s] \in {"elect", "elected"} => \A j \in Server : exch'[s][j].st = "idle"
  BY DEF PhaseHolds
<1> QED  BY <1>1, <1>3, <1>4, <1>5 DEF PhaseHolds

\* A candidate that still stands with its log and its votes.
LEMMA KeepCandidate ==
  ASSUME TypeOK, TypeOK', VoteInv, StoredShape, HistoryGrows, NEW c \in Server, CandidateCovers(c),
         Standing(c)' => /\ Standing(c) /\ log'[c] = log[c]
                         /\ loopTerm'[c] = loopTerm[c] /\ votes'[c] = votes[c],
         \A m \in ballots' : m.cand = c => m \in ballots,
         \A a \in stored' \ stored : a.term >= term[a.node]
  PROVE  CandidateCovers(c)'
<1> SUFFICES ASSUME Standing(c)' PROVE CandidateCovers(c)'
  BY DEF CandidateCovers
<1>1. LastTerm(c)' = LastTerm(c) /\ LastIndex(c)' = LastIndex(c) /\ Granted(c)' = Granted(c)
  BY DEF LastTerm, LastIndex, Granted
<1>2. \A m \in ballots' : m.cand = c /\ m.term = loopTerm'[c] =>
        m.lastTerm = LastTerm(c) /\ m.lastIndex = LastIndex(c)
  BY DEF CandidateCovers
<1>3. ASSUME NEW a \in stored' PROVE GrantCovered(c, a)'
  <2>0. a.node \in Server /\ a.term \in Nat /\ a.index \in Nat /\ term[a.node] \in Nat /\ loopTerm[c] \in Nat
    BY DEF TypeOK, HistType, StateType, LoopType
  <2>1. CASE a \in stored
    <3>1. a.term \in Terms
      BY <2>1 DEF StoredShape, RecordShape
    <3>2. GrantCovered(c, a)
      BY <2>1 DEF CandidateCovers
    <3>3. Agree(log[c], ledger[a.term], a.index) => Agree(log[c], ledger'[a.term], a.index)
      BY <2>0, <3>1, GrowAgree
    <3> QED  BY <1>1, <3>2, <3>3 DEF GrantCovered
  <2>2. CASE a \notin stored
    <3>1. a.node \in Granted(c) => term[a.node] >= loopTerm[c]
      BY <2>0 DEF VoteInv, VotesBind, BoundTo, Standing
    <3> QED  BY <1>1, <2>0, <2>2, <3>1 DEF GrantCovered
  <2> QED  BY <2>1, <2>2
<1> QED  BY <1>1, <1>2, <1>3 DEF CandidateCovers

\* A request that is still under way.
LEMMA KeepSent ==
  ASSUME TypeOK, TypeOK', HistoryGrows, LeadershipKept, NEW l \in Server, NEW i \in Server,
         SentGood(l, i),
         exch'[l][i].st \in {"sent", "handling"} =>
           exch[l][i].st \in {"sent", "handling"} /\ exch'[l][i].req = exch[l][i].req
  PROVE  SentGood(l, i)'
<1> SUFFICES ASSUME exch'[l][i].st \in {"sent", "handling"} PROVE SentGood(l, i)'
  BY DEF SentGood
<1>1. PICK r : r = exch[l][i].req
  OBVIOUS
<1>2. r \in Request
  BY <1>1 DEF TypeOK, NetType, Exchange
<1>3. l # i /\ GoodRequest(l, r)
  BY <1>1 DEF SentGood
<1>4. GoodRequest(l, r)'
  BY <1>2, <1>3, GrowRequest
<1>5. r = exch'[l][i].req
  BY <1>1
<1>6. GoodRequest(l, exch[l][i].req)'
  BY <1>4, <1>5 DEF GoodRequest, WonBy, LeaderStored, HasStored, GoodCommit, Chosen, GoodPoint, Everywhere
<1> QED  BY <1>3, <1>6 DEF SentGood

\* A late request was late before or has just been given up.
LEMMA KeepLate ==
  ASSUME TypeOK, TypeOK', RequestsGood, HistoryGrows, LeadershipKept, NEW m \in late',
         m \in late \/ (/\ exch[m.from][m.to].st = "sent" /\ m.from \in Server /\ m.to \in Server
                        /\ m.req = exch[m.from][m.to].req)
  PROVE  LateGood(m)'
<1>1. m.req \in Request
  BY DEF TypeOK, NetType
<1>2. m.from # m.to /\ GoodRequest(m.from, m.req)
  <2>1. CASE m \in late
    BY <2>1 DEF RequestsGood, LateGood
  <2>2. CASE m \notin late
    <3>1. SentGood(m.from, m.to)
      BY <2>2 DEF RequestsGood
    <3> QED  BY <2>2, <3>1 DEF SentGood
  <2> QED  BY <2>1, <2>2
<1>3. GoodRequest(m.from, m.req)'
  BY <1>1, <1>2, GrowRequest
<1> QED  BY <1>2, <1>3 DEF LateGood

\* What a leader gives up was sent.
LEMMA LeftoverFrom ==
  ASSUME NEW i \in Server, NEW J \in SUBSET Server, NEW m \in Leftover(i, J)
  PROVE  m \in late \/ (/\ exch[m.from][m.to].st = "sent" /\ m.from \in Server /\ m.to \in Server
                        /\ m.req = exch[m.from][m.to].req)
<1> SUFFICES ASSUME m \notin late
             PROVE  exch[m.from][m.to].st = "sent" /\ m.from \in Server /\ m.to \in Server
                    /\ m.req = exch[m.from][m.to].req
  OBVIOUS
<1>1. PICK j \in J : exch[i][j].st = "sent" /\ m = [from |-> i, to |-> j, req |-> exch[i][j].req]
  BY DEF Leftover
<1> QED  BY <1>1

\* A match index that does not change.
LEMMA KeepMatch ==
  ASSUME HistoryGrows, NEW i \in Server, NEW j \in Server, MatchHolds(i, j),
         match'[i][j] = match[i][j],
         role'[i] = "Leader" /\ phase'[i] # "elected" =>
           role[i] = "Leader" /\ phase[i] # "elected" /\ term'[i] = term[i],
         phase'[i] = "round" => phase[i] = "round" /\ loopTerm'[i] = loopTerm[i]
  PROVE  MatchHolds(i, j)'
<1>1. ASSUME NEW t, GoodMatch(t, i, j) PROVE GoodMatch(t, i, j)'
  <2>1. PICK k : k = match[i][j]
    OBVIOUS
  <2>2. k # 0 => HasStored(t, j, k)
    BY <1>1, <2>1 DEF GoodMatch
  <2>3. k # 0 => HasStored(t, j, k)'
    BY <2>2, GrowStored
  <2> QED  BY <2>1, <2>3 DEF GoodMatch, HasStored
<1>2. PICK t, u : t = term[i] /\ u = loopTerm[i]
  OBVIOUS
<1>3. ASSUME role'[i] = "Leader", phase'[i] # "elected" PROVE GoodMatch(term[i], i, j)'
  <2>1. GoodMatch(t, i, j) /\ t = term'[i]
    BY <1>2, <1>3 DEF MatchHolds
  <2>2. GoodMatch(t, i, j)'
    BY <1>1, <2>1
  <2> QED  BY <2>1, <2>2 DEF GoodMatch, HasStored
<1>4. ASSUME phase'[i] = "round" PROVE GoodMatch(loopTerm[i], i, j)'
  <2>1. GoodMatch(u, i, j) /\ u = loopTerm'[i]
    BY <1>2, <1>4 DEF MatchHolds
  <2>2. GoodMatch(u, i, j)'
    BY <1>1, <2>1
  <2> QED  BY <2>1, <2>2 DEF GoodMatch, HasStored
<1> QED  BY <1>3, <1>4 DEF MatchHolds

\* An answer that waits to be read.
LEMMA KeepAck ==
  ASSUME stored \subseteq stored', NEW i \in Server, NEW j \in Server, AckHolds(i, j),
         exch'[i][j].st = "acked" => exch'[i][j] = exch[i][j]
  PROVE  AckHolds(i, j)'
BY DEF AckHolds

\* A next index stays above what the peer has, while the leader only appends.
LEMMA KeepFloor ==
  ASSUME TypeOK, TypeOK', HistoryInv, HistoryInv', HistoryGrows, NEW i \in Server, NEW j \in Peers(i),
         role[i] = "Leader", role'[i] = "Leader", term'[i] = term[i], LeaderHolds(i)',
         \A a \in stored' \ stored : a.term >= term[a.node],
         Len(log[i]) <= Len(log'[i]), \A k \in 1..Len(log[i]) : log'[i][k] = log[i][k],
         \A k \in Len(log[i]) + 1..Len(log'[i]) : log'[i][k].term = term[i],
         match'[i][j] = match[i][j], NEW n \in Nat, Floor(i, j, n)
  PROVE  Floor(i, j, n)'
<1> USE DEF HistoryInv
<1>0. /\ j \in Server /\ match[i][j] \in Nat /\ term[i] \in Nat /\ term[j] \in Nat /\ term'[j] \in Nat
      /\ term[j] <= term'[j] /\ Len(log[i]) \in Nat
  BY LogElements DEF TypeOK, LeadType, StateType, Peers, HistoryGrows
<1>1. match[i][j] < n /\ n > 0
  BY <1>0 DEF Floor
<1>11. Len(log'[i]) \in Nat
  <2>1. log'[i] \in Seq(Entry)
    BY DEF TypeOK, LogType
  <2> QED  BY <2>1, LenProperties
<1>2. ASSUME term[j] < term[i], NEW k \in n..Len(log'[i]) PROVE log'[i][k].term = term[i]
  <2>1. CASE k <= Len(log[i])
    <3>1. k \in n..Len(log[i]) /\ k \in 1..Len(log[i])
      BY <1>0, <1>1, <1>11, <2>1
    <3>2. log[i][k].term = term[i]
      BY <1>2, <3>1 DEF Floor
    <3> QED  BY <3>1, <3>2
  <2>2. CASE k > Len(log[i])
    <3>1. k \in Len(log[i]) + 1..Len(log'[i])
      BY <1>0, <1>1, <1>11, <2>2
    <3> QED  BY <3>1
  <2> QED  BY <1>0, <2>1, <2>2
<1>3. term'[j] < term'[i] => \A k \in n..Len(log'[i]) : log'[i][k].term = term'[i]
  BY <1>0, <1>2
<1>4. PICK T : T = term[i]
  OBVIOUS
<1>5. ASSUME NEW a \in stored', a.node = j, a.term < term[i], n <= a.index
      PROVE  Lost(a.term, n, T)'
  <2>0. a.index \in Nat /\ a.term \in Nat
    BY DEF TypeOK, HistType
  <2>1. CASE a \in stored
    <3>1. Lost(a.term, n, T)
      BY <1>4, <1>5, <2>1 DEF Floor
    <3>2. a.term \in Terms /\ n \in 1..Len(ledger[a.term])
      <4>1. a.term \in Terms /\ a.index \in 1..Len(ledger[a.term])
        BY <2>1 DEF StoredShape, RecordShape
      <4>2. Len(ledger[a.term]) \in Nat
        BY <4>1, LedgerType
      <4> QED  BY <1>1, <1>5, <4>1, <4>2
    <3> QED  BY <3>1, <3>2, GrowLost
  <2>2. CASE a \notin stored
    <3>1. term[j] < term[i]
      BY <1>0, <1>5, <2>0, <2>2
    <3>2. a.term \in Terms' /\ a.index \in 1..Len(ledger'[a.term])
      BY DEF StoredShape, RecordShape
    <3>3. T \in Terms' /\ ledger'[T] = log'[i]
      <4>1. WonBy(term[i], i)' /\ ledger'[term'[i]] = log'[i]
        BY DEF LeaderHolds
      <4> QED  BY <1>4, <4>1 DEF WonBy, Terms, TypeOK, HistType
    <3>4. ASSUME Agree(ledger'[T], ledger'[a.term], n) PROVE FALSE
      <4>1. n \in n..Len(log'[i]) /\ n \in 1..n /\ n \in 1..Len(ledger'[a.term])
        BY <1>1, <1>11, <3>3, <3>4, <3>2, <1>5, <2>0 DEF Agree
      <4>2. log'[i][n].term = term[i]
        BY <1>2, <3>1, <4>1
      <4>3. log'[i][n] = ledger'[a.term][n]
        BY <3>3, <3>4, <4>1 DEF Agree
      <4>4. ledger'[a.term][n].term <= a.term
        BY <3>2, <4>1 DEF LedgersAgree
      <4> QED  BY <1>0, <1>5, <2>0, <4>2, <4>3, <4>4
    <3>5. a.term < T /\ T <= T
      BY <1>0, <1>4, <1>5
    <3> QED  BY <3>3, <3>4, <3>5 DEF Lost
  <2> QED  BY <2>1, <2>2
<1>6. \A a \in stored' : a.node = j /\ a.term < term'[i] /\ n <= a.index => Lost(a.term, n, term[i])'
  BY <1>4, <1>5 DEF Lost
<1> QED  BY <1>1, <1>3, <1>6 DEF Floor

\* A leader whose progress for a peer does not change.
LEMMA KeepNext ==
  ASSUME TypeOK, TypeOK', HistoryInv, HistoryInv', HistoryGrows, NEW i \in Server, NEW j \in Peers(i),
         NextHolds(i, j), LeaderHolds(i)',
         \A a \in stored' \ stored : a.term >= term[a.node],
         role'[i] = "Leader" /\ phase'[i] # "elected" =>
           /\ role[i] = "Leader" /\ phase[i] # "elected" /\ term'[i] = term[i]
           /\ Len(log[i]) <= Len(log'[i])
           /\ \A k \in 1..Len(log[i]) : log'[i][k] = log[i][k]
           /\ \A k \in Len(log[i]) + 1..Len(log'[i]) : log'[i][k].term = term[i]
           /\ match'[i][j] = match[i][j] /\ next'[i][j] = next[i][j]
           /\ \/ exch'[i][j] = exch[i][j] \/ exch'[i][j].st = "idle"
              \/ /\ exch[i][j].st = "sent" /\ exch'[i][j].st = "handling"
                 /\ exch'[i][j].req = exch[i][j].req
  PROVE  NextHolds(i, j)'
<1> SUFFICES ASSUME role'[i] = "Leader", phase'[i] # "elected" PROVE NextHolds(i, j)'
  BY DEF NextHolds
<1>0. /\ j \in Server /\ next[i][j] \in Nat /\ next[i][j] > 0 /\ Len(log[i]) \in Nat
      /\ term[j] \in Nat /\ term'[j] \in Nat /\ term[j] <= term'[j] /\ term[i] \in Nat
  <2>1. j \in Server /\ next[i][j] \in Nat /\ next[i][j] > 0
    BY DEF TypeOK, LeadType, Peers
  <2>2. Len(log[i]) \in Nat /\ term[i] \in Nat /\ term[j] \in Nat
    BY <2>1, LogElements
  <2>3. term'[j] \in Nat /\ term[j] <= term'[j]
    BY <2>1 DEF TypeOK, StateType, HistoryGrows
  <2> QED  BY <2>1, <2>2, <2>3
<1>1. Len(log'[i]) \in Nat
  <2>1. log'[i] \in Seq(Entry)
    BY DEF TypeOK, LogType
  <2> QED  BY <2>1, LenProperties
<1>2. next[i][j] <= Len(log[i]) + 1 /\ Floor(i, j, next[i][j])
  BY DEF NextHolds
<1>3. PICK n \in Nat : n = next[i][j] /\ n > 0
  BY <1>0
<1>4. Floor(i, j, n)'
  BY <1>2, <1>3, KeepFloor
<1>5. next'[i][j] <= Len(log'[i]) + 1 /\ Floor(i, j, next[i][j])'
  <2>1. n = next'[i][j]
    BY <1>3
  <2>2. Floor(i, j, next[i][j])'
    BY <1>4, <2>1 DEF Floor, Lost
  <2> QED  BY <1>0, <1>1, <1>2, <2>2
<1>6. exch'[i][j].st \in {"sent", "handling"} =>
        exch'[i][j].req.term = term'[i] /\ exch'[i][j].req.prev = next'[i][j] - 1
  BY DEF NextHolds
<1>7. ASSUME exch'[i][j].st = "acked"
      PROVE  /\ exch'[i][j].term = term'[i]
             /\ exch'[i][j].ack.success => match'[i][j] <= exch'[i][j].ack.matchIndex
             /\ ~exch'[i][j].ack.success /\ exch'[i][j].ack.term <= term'[i] =>
                  Floor(i, j, next[i][j] - 1)' /\ term'[j] >= term'[i]
  <2>1. exch'[i][j] = exch[i][j] /\ exch[i][j].st = "acked"
    BY <1>7
  <2>2. /\ exch'[i][j].term = term'[i]
        /\ exch'[i][j].ack.success => match'[i][j] <= exch'[i][j].ack.matchIndex
    BY <2>1 DEF NextHolds
  <2>3. ASSUME ~exch'[i][j].ack.success, exch'[i][j].ack.term <= term'[i]
        PROVE  Floor(i, j, next[i][j] - 1)' /\ term'[j] >= term'[i]
    <3>1. Floor(i, j, next[i][j] - 1) /\ term[j] >= term[i]
      BY <2>1, <2>3 DEF NextHolds
    <3>2. PICK m \in Nat : m = next[i][j] - 1
      BY <1>0
    <3>3. Floor(i, j, m)'
      BY <3>1, <3>2, KeepFloor
    <3>4. m = next'[i][j] - 1
      BY <3>2
    <3>5. Floor(i, j, next[i][j] - 1)'
      BY <3>3, <3>4 DEF Floor, Lost
    <3> QED  BY <1>0, <3>1, <3>5
  <2> QED  BY <2>2, <2>3
<1> QED  BY <1>5, <1>6, <1>7 DEF NextHolds

\* A snapshot index that does not change.
LEMMA KeepSnap ==
  ASSUME TypeOK, TypeOK', HistoryGrows, LeadershipKept, NEW s \in Server, SnapHolds(s), snap'[s] = snap[s]
  PROVE  SnapHolds(s)'
<1>1. CASE snap[s] = 0
  BY <1>1 DEF SnapHolds
<1>2. CASE snap[s] # 0
  <2>1. PICK t \in Terms : GoodPoint(t, snap[s])
    BY <1>2 DEF SnapHolds
  <2>2. PICK c \in Nat : c = snap[s]
    BY DEF TypeOK, CursorType
  <2>3. GoodPoint(t, c)' /\ t \in Terms'
    BY <2>1, <2>2, GrowPoint DEF HistoryGrows
  <2>4. c = snap'[s]
    BY <2>2
  <2>5. GoodPoint(t, snap[s])'
    BY <2>3, <2>4 DEF GoodPoint, Everywhere, HasStored
  <2> QED  BY <2>3, <2>5 DEF SnapHolds
<1> QED  BY <1>1, <1>2

\* The compaction point of a round.
LEMMA KeepRound ==
  ASSUME TypeOK, TypeOK', HistoryGrows, LeadershipKept, NEW i \in Server, RoundHolds(i),
         phase'[i] = "round" => /\ phase[i] = "round" /\ loopTerm'[i] = loopTerm[i]
                                /\ compactTo'[i] = compactTo[i]
  PROVE  RoundHolds(i)'
<1> SUFFICES ASSUME phase'[i] = "round" PROVE RoundHolds(i)'
  BY DEF RoundHolds
<1>1. PICK t, c : t = loopTerm[i] /\ c = compactTo[i]
  OBVIOUS
<1>2. c \in Nat /\ GoodPoint(t, c)
  BY <1>1 DEF RoundHolds, TypeOK, RoundType
<1>3. GoodPoint(t, c)'
  BY <1>2, GrowPoint
<1>4. t = loopTerm'[i] /\ c = compactTo'[i]
  BY <1>1
<1> QED  BY <1>3, <1>4 DEF RoundHolds, GoodPoint, Everywhere, HasStored
----------------------------------------------------------------------------
(* Steps that leave logs, disks, cursors and the history alone. *)

\* No log, no cursor and no history changes.
DataSame ==
  /\ UNCHANGED <<log, persisted, snap, commitIndex, lastApplied>>
  /\ UNCHANGED <<elected, applied, ledger, stored>>
  /\ \A s \in Server : term[s] <= term'[s]

\* A step that changes no log and no history keeps what holds of them.
LEMMA QuietData ==
  ASSUME SafeInv, TypeOK', DataSame
  PROVE  /\ HistoryGrows /\ HistoryInv' /\ LogsAgree' /\ LogsStored' /\ StoredHeld'
         /\ CommitsHold' /\ AppliedHold'
<1>1. /\ log' = log /\ persisted' = persisted /\ snap' = snap /\ commitIndex' = commitIndex
      /\ lastApplied' = lastApplied /\ elected' = elected /\ applied' = applied
      /\ ledger' = ledger /\ stored' = stored /\ \A s \in Server : term[s] <= term'[s]
  BY DEF DataSame
<1>2. HistoryGrows
  <2>1. \A t \in Terms : Len(ledger[t]) \in Nat
    BY LedgerType DEF SafeInv
  <2> QED  BY <1>1, <2>1 DEF HistoryGrows, Terms
<1>3. HistoryInv'
  BY <1>1 DEF SafeInv, HistoryInv, LedgersAgree, StoredShape, VotersCovered, RecordShape, VoterCovered,
              LeaderStored, HasStored, Terms
<1>4. ASSUME NEW i \in Server PROVE LogAgrees(i)' /\ LogStored(i)'
  <2>1. LogAgrees(i) /\ LogStored(i) /\ TypeOK
    BY DEF SafeInv, NodeInv, LogsAgree, LogsStored
  <2>2. Len(log'[i]) <= Len(log[i]) /\ \A k \in 1..Len(log'[i]) : log'[i][k] = log[i][k]
    BY <1>1, <2>1, LogElements
  <2> QED  BY <1>2, <2>1, <2>2, KeepLog
<1>5. ASSUME NEW a \in stored PROVE RecordHeld(a)'
  <2>1. RecordShape(a) /\ RecordHeld(a)
    BY DEF SafeInv, HistoryInv, NodeInv, StoredShape, StoredHeld
  <2> QED  BY <1>1, <1>2, <2>1, KeepHeld DEF SafeInv
<1>6. ASSUME NEW s \in Server PROVE CommitHolds(s)'
  <2>1. CommitHolds(s) /\ persisted[s] \in Nat
    BY DEF SafeInv, NodeInv, CommitsHold, TypeOK, LogType
  <2>2. persisted[s] <= persisted'[s]
    BY <1>1, <2>1
  <2> QED  BY <1>1, <1>2, <2>1, <2>2, KeepCommit DEF SafeInv
<1>7. ASSUME NEW a \in applied PROVE AppliedHolds(a)'
  BY <1>2, KeepApplied DEF SafeInv, HistoryInv, NodeInv, AppliedHold
<1> QED  BY <1>1, <1>2, <1>3, <1>4, <1>5, <1>6, <1>7
           DEF LogsAgree, LogsStored, StoredHeld, CommitsHold, AppliedHold

\* The node takes no office, starts no round and keeps its role within a round.
Quiet(s) ==
  /\ role'[s] = "Leader" => role[s] = "Leader" /\ term'[s] = term[s]
  /\ phase'[s] = phase[s] \/ phase'[s] = "idle"
  /\ phase[s] = "elected" => phase'[s] = "elected" /\ role'[s] = role[s]
  /\ phase'[s] # "idle" => loopTerm'[s] = loopTerm[s] /\ compactTo'[s] = compactTo[s]
  /\ phase'[s] = "round" /\ term'[s] = term[s] /\ role[s] = "Leader" => role'[s] = "Leader"
  /\ phase'[s] \in {"elect", "elected"} =>
       \A j \in Server : exch'[s][j] = exch[s][j] \/ exch'[s][j].st = "idle"

\* A quiet node keeps what holds of its role and phase.
LEMMA QuietNode ==
  ASSUME SafeInv, TypeOK', DataSame, HistoryGrows, LeadershipKept, NEW s \in Server, Quiet(s)
  PROVE  LeaderHolds(s)' /\ PhaseHolds(s)' /\ SnapHolds(s)' /\ RoundHolds(s)'
<1>1. /\ LeaderHolds(s) /\ PhaseHolds(s) /\ SnapHolds(s) /\ RoundHolds(s)
      /\ TypeOK
  BY DEF SafeInv, NodeInv, NetInv, LeadersHold, PhasesHold, PointsHold
<1>2. log' = log /\ ledger' = ledger /\ elected' = elected /\ snap' = snap
  BY DEF DataSame
<1>3. LeaderHolds(s)'
  <2>1. role'[s] = "Leader" => phase'[s] # "elect" /\ (phase'[s] = "elected" <=> phase[s] = "elected")
    BY <1>1 DEF Quiet, LeaderHolds
  <2> QED  BY <1>1, <1>2, <2>1, KeepLeader DEF Quiet
<1>4. PhaseHolds(s)'
  BY <1>1, <1>2, KeepPhase DEF Quiet
<1>5. SnapHolds(s)' /\ RoundHolds(s)'
  BY <1>1, <1>2, KeepSnap, KeepRound DEF Quiet
<1> QED  BY <1>3, <1>4, <1>5

\* Exchanges, requests and acknowledgements that are given up or go on.
NetQuiet(l, i) ==
  \/ exch'[l][i] = exch[l][i] \/ exch'[l][i].st = "idle"
  \/ /\ exch[l][i].st = "sent" /\ exch'[l][i].st = "handling"
     /\ exch'[l][i].req = exch[l][i].req

\* A quiet exchange keeps what holds of it.
LEMMA QuietNet ==
  ASSUME SafeInv, TypeOK', HistoryGrows, LeadershipKept, NEW l \in Server, NEW i \in Server,
         NetQuiet(l, i)
  PROVE  SentGood(l, i)' /\ AckHolds(l, i)'
<1>1. SentGood(l, i) /\ AckHolds(l, i) /\ TypeOK
  BY DEF SafeInv, NetInv, RequestsGood, AcksHold
<1> QED  BY <1>1, KeepSent, KeepAck DEF NetQuiet, HistoryGrows

\* Late requests of a step that only gives up exchanges.
LEMMA QuietLate ==
  ASSUME SafeInv, TypeOK', HistoryGrows, LeadershipKept,
         late' \subseteq late \/ \E i \in Server, J \in SUBSET Server : late' \subseteq Leftover(i, J)
  PROVE  \A m \in late' : LateGood(m)'
<1> SUFFICES ASSUME NEW m \in late' PROVE LateGood(m)'
  OBVIOUS
<1>1. m \in late \/ (/\ exch[m.from][m.to].st = "sent" /\ m.from \in Server /\ m.to \in Server
                     /\ m.req = exch[m.from][m.to].req)
  BY LeftoverFrom
<1> QED  BY <1>1, KeepLate DEF SafeInv, NetInv

\* A candidate in a step that changes no log.
LEMMA QuietCandidate ==
  ASSUME SafeInv, TypeOK', DataSame, HistoryGrows, NEW c \in Server,
         Standing(c)' => Standing(c) /\ loopTerm'[c] = loopTerm[c] /\ votes'[c] = votes[c],
         \A m \in ballots' : m.cand = c => m \in ballots
  PROVE  CandidateCovers(c)'
<1>1. log' = log /\ stored' = stored
  BY DEF DataSame
<1>2. CandidateCovers(c) /\ TypeOK /\ VoteInv /\ StoredShape
  BY DEF SafeInv, NodeInv, HistoryInv, CandidatesCover
<1> QED  BY <1>1, <1>2, KeepCandidate

\* The progress of a quiet leader.
LEMMA QuietNext ==
  ASSUME SafeInv, TypeOK', DataSame, HistoryGrows, HistoryInv', NEW i \in Server, NEW j \in Peers(i),
         Quiet(i), LeaderHolds(i)',
         role'[i] = "Leader" =>
           match'[i][j] = match[i][j] /\ next'[i][j] = next[i][j] /\ NetQuiet(i, j)
  PROVE  NextHolds(i, j)'
<1>1. log' = log /\ stored' = stored /\ Len(log[i]) \in Nat
  BY LogElements DEF DataSame, SafeInv
<1>2. NextHolds(i, j) /\ TypeOK /\ HistoryInv
  BY DEF SafeInv, NetInv, NextHold
<1>3. role'[i] = "Leader" /\ phase'[i] # "elected" =>
           /\ role[i] = "Leader" /\ phase[i] # "elected" /\ term'[i] = term[i]
           /\ Len(log[i]) <= Len(log'[i])
           /\ \A k \in 1..Len(log[i]) : log'[i][k] = log[i][k]
           /\ \A k \in Len(log[i]) + 1..Len(log'[i]) : log'[i][k].term = term[i]
           /\ match'[i][j] = match[i][j] /\ next'[i][j] = next[i][j]
           /\ \/ exch'[i][j] = exch[i][j] \/ exch'[i][j].st = "idle"
              \/ /\ exch[i][j].st = "sent" /\ exch'[i][j].st = "handling"
                 /\ exch'[i][j].req = exch[i][j].req
  BY <1>1 DEF Quiet, NetQuiet
<1> QED  BY <1>1, <1>2, <1>3, KeepNext

\* The match index of a quiet leader.
LEMMA QuietMatch ==
  ASSUME SafeInv, HistoryGrows, NEW i \in Server, NEW j \in Peers(i), Quiet(i),
         match'[i][j] = match[i][j]
  PROVE  MatchHolds(i, j)'
<1>1. MatchHolds(i, j) /\ j \in Server
  BY DEF SafeInv, NetInv, MatchesHold, Peers
<1> QED  BY <1>1, KeepMatch DEF Quiet

\* A state in which no operation is in its gap.
LEMMA NoGaps ==
  ASSUME \A i \in Server : proposing'[i] = {} /\ todo'[i] = {}
  PROVE  GapsHold'
BY DEF GapsHold, ProposeGap, LaunchGap

\* Nobody becomes leader in a quiet step.
LEMMA QuietLeadership ==
  ASSUME TypeOK, \A s \in Server : Quiet(s), match' = match
  PROVE  LeadershipKept
<1>1. \A i, j \in Server : match[i][j] \in Nat
  BY DEF TypeOK, LeadType
<1> QED  BY <1>1 DEF LeadershipKept, Quiet, Peers

\* Nor in a step that changes no role, no term and no match index.
LEMMA SameLeadership ==
  ASSUME TypeOK, role' = role, term' = term, match' = match
  PROVE  LeadershipKept
<1>1. \A i, j \in Server : match[i][j] \in Nat
  BY DEF TypeOK, LeadType
<1>2. \A i, j \in Server : match[i][j] <= match'[i][j]
  BY <1>1
<1> QED  BY <1>2 DEF LeadershipKept, Peers

\* What is left to show of a step that leaves the data alone.
LEMMA QuietSafe ==
  ASSUME SafeInv, TypeOK', VoteInv', DataSame, LeadershipKept, CandidatesCover', GapsHold',
         \A s \in Server :
           Quiet(s) \/ (PhaseHolds(s)' /\ role'[s] # "Leader" /\ phase'[s] # "round"),
         \A l, i \in Server :
           \/ NetQuiet(l, i) /\ next'[l][i] = next[l][i] /\ match'[l][i] = match[l][i]
           \/ SentGood(l, i)' /\ AckHolds(l, i)' /\ NextHolds(l, i)' /\ MatchHolds(l, i)',
         \A m \in late' : LateGood(m)',
         \A i \in Server : \A a \in appending'[i] : AppendGood(i, a)'
  PROVE  SafeInv'
<1>1. /\ HistoryGrows /\ HistoryInv' /\ LogsAgree' /\ LogsStored' /\ StoredHeld'
      /\ CommitsHold' /\ AppliedHold'
  BY QuietData
<1>2. ASSUME NEW s \in Server PROVE LeaderHolds(s)' /\ PhaseHolds(s)' /\ SnapHolds(s)' /\ RoundHolds(s)'
  <2>1. CASE Quiet(s)
    BY <1>1, <2>1, QuietNode
  <2>2. CASE PhaseHolds(s)' /\ role'[s] # "Leader" /\ phase'[s] # "round"
    <3>1. SnapHolds(s)'
      <4>1. SnapHolds(s) /\ TypeOK /\ snap' = snap
        BY DEF SafeInv, NetInv, PointsHold, DataSame
      <4> QED  BY <1>1, <4>1, KeepSnap
    <3> QED  BY <2>2, <3>1 DEF LeaderHolds, RoundHolds
  <2> QED  BY <2>1, <2>2
<1>3. ASSUME NEW l \in Server, NEW i \in Server PROVE SentGood(l, i)' /\ AckHolds(l, i)'
  BY <1>1, QuietNet
<1>4. ASSUME NEW i \in Server, NEW j \in Peers(i) PROVE NextHolds(i, j)' /\ MatchHolds(i, j)'
  <2>0. j \in Server
    BY DEF Peers
  <2>1. CASE ~Quiet(i)
    BY <2>1 DEF NextHolds, MatchHolds
  <2>2. CASE ~(NetQuiet(i, j) /\ next'[i][j] = next[i][j] /\ match'[i][j] = match[i][j])
    BY <2>0, <2>2
  <2>3. CASE Quiet(i) /\ NetQuiet(i, j) /\ next'[i][j] = next[i][j] /\ match'[i][j] = match[i][j]
    BY <1>1, <1>2, <2>3, QuietNext, QuietMatch
  <2> QED  BY <2>1, <2>2, <2>3
<1>5. NodeInv'
  BY <1>1, <1>2 DEF NodeInv, LeadersHold, PhasesHold
<1>6. NetInv'
  BY <1>2, <1>3, <1>4 DEF NetInv, RequestsGood, MatchesHold, AcksHold, NextHold, PointsHold
<1> QED  BY <1>1, <1>5, <1>6 DEF SafeInv

\* All candidates in a step that changes no log and sends no ballot.
LEMMA QuietCandidates ==
  ASSUME SafeInv, TypeOK', DataSame, ballots' \subseteq ballots,
         \A c \in Server :
           Standing(c)' => Standing(c) /\ loopTerm'[c] = loopTerm[c] /\ votes'[c] = votes[c]
  PROVE  CandidatesCover'
<1>1. HistoryGrows
  BY QuietData
<1>2. \A c \in Server : CandidateCovers(c)'
  BY <1>1, QuietCandidate
<1>3. ASSUME NEW m \in ballots' PROVE m.term <= term'[m.cand]
  <2>1. m.cand \in Server /\ m.term \in Nat /\ m.term <= term[m.cand] /\ term[m.cand] \in Nat
    BY DEF SafeInv, NodeInv, CandidatesCover, TypeOK, NetType, Ballot, StateType
  <2>2. term'[m.cand] \in Nat /\ term[m.cand] <= term'[m.cand]
    BY <2>1 DEF DataSame, TypeOK, StateType
  <2> QED  BY <2>1, <2>2
<1> QED  BY <1>2, <1>3 DEF CandidatesCover

\* propose, first section.
LEMMA ProposeSafe ==
  ASSUME Races = {}, SafeInv, TypeOK', VoteInv', NEW i \in Server, NEW v \in Value, Propose(i, v)
  PROVE  SafeInv'
<1>0. \A s \in Server : proposing[s] = {} /\ phase[s] # "elected" /\ appending[s] = {} /\ todo[s] = {}
  BY FreeMeans DEF Propose
<1>1. /\ UNCHANGED <<term, votedFor, role, next, match, phase, loopTerm, votes, compactTo, roundCommit, todo>>
      /\ UNCHANGED <<appending, exch, late, ballots>>
      /\ proposing' = [proposing EXCEPT ![i] = @ \cup {[term |-> term[i], val |-> v]}]
      /\ role[i] = "Leader"
  BY DEF Propose, stateVars, leadVars, loopVars, roundVars, netVars
<1>2. DataSame
  <2>1. \A s \in Server : term[s] \in Nat
    BY DEF SafeInv, TypeOK, StateType
  <2> QED  BY <1>1, <2>1 DEF Propose, DataSame, logVars, diskVars, cursorVars, histVars
<1>3. \A s \in Server : Quiet(s)
  BY <1>0, <1>1 DEF Quiet
<1>4. LeadershipKept
  BY <1>1, <1>3, QuietLeadership DEF SafeInv
<1>5. CandidatesCover'
  BY <1>1, <1>2, QuietCandidates DEF Standing
<1>6. GapsHold'
  <2>1. proposing \in [Server -> SUBSET [term : Nat, val : Value]]
    BY DEF SafeInv, TypeOK, TaskType
  <2>2. ASSUME NEW s \in Server, NEW p \in proposing'[s]
        PROVE  role'[s] = "Leader" /\ term'[s] = p.term /\ phase'[s] # "elected"
    BY <1>0, <1>1, <2>1
  <2> QED  BY <1>0, <1>1, <2>2 DEF GapsHold, ProposeGap, LaunchGap
<1>7. \A m \in late' : LateGood(m)'
  BY <1>1, <1>2, <1>4, QuietData, QuietLate
<1>8. \A l, s \in Server : NetQuiet(l, s) /\ next'[l][s] = next[l][s] /\ match'[l][s] = match[l][s]
  BY <1>1 DEF NetQuiet
<1> QED  BY <1>0, <1>1, <1>2, <1>3, <1>4, <1>5, <1>6, <1>7, <1>8, QuietSafe

\* An exchange that misses its deadline.
LEMMA TimeoutSafe ==
  ASSUME Races = {}, SafeInv, TypeOK', VoteInv', NEW i \in Server, NEW j \in Server, Timeout(i, j)
  PROVE  SafeInv'
<1>0. \A s \in Server : proposing[s] = {} /\ phase[s] # "elected" /\ appending[s] = {} /\ todo[s] = {}
  BY FreeMeans DEF Timeout
<1>1. /\ UNCHANGED <<term, votedFor, role, next, match, phase, loopTerm, votes, compactTo, roundCommit, todo>>
      /\ UNCHANGED <<proposing, appending, ballots>>
      /\ exch' = [exch EXCEPT ![i][j] = NoExchange]
      /\ late' = Leftover(i, {j})
  BY DEF Timeout, stateVars, leadVars, loopVars, roundVars, taskVars
<1>2. DataSame
  <2>1. \A s \in Server : term[s] \in Nat
    BY DEF SafeInv, TypeOK, StateType
  <2> QED  BY <1>1, <2>1 DEF Timeout, DataSame, logVars, diskVars, cursorVars, histVars
<1>3. exch \in [Server -> [Server -> Exchange]]
  BY DEF SafeInv, TypeOK, NetType
<1>4. \A l, s \in Server : exch'[l][s] = exch[l][s] \/ exch'[l][s].st = "idle"
  BY <1>1, <1>3 DEF NoExchange
<1>5. \A s \in Server : Quiet(s)
  BY <1>0, <1>1, <1>4 DEF Quiet
<1>6. LeadershipKept
  BY <1>1, <1>5, QuietLeadership DEF SafeInv
<1>7. CandidatesCover'
  BY <1>1, <1>2, QuietCandidates DEF Standing
<1>8. GapsHold'
  BY <1>0, <1>1, NoGaps
<1>9. \A m \in late' : LateGood(m)'
  <2>1. {j} \in SUBSET Server
    OBVIOUS
  <2> QED  BY <1>1, <1>2, <1>6, <2>1, QuietData, QuietLate
<1>10. \A l, s \in Server : NetQuiet(l, s) /\ next'[l][s] = next[l][s] /\ match'[l][s] = match[l][s]
  BY <1>1, <1>4 DEF NetQuiet
<1> QED  BY <1>0, <1>1, <1>2, <1>5, <1>6, <1>7, <1>8, <1>9, <1>10, QuietSafe

\* append_exchange sends a request again.
LEMMA ResendSafe ==
  ASSUME Races = {}, SafeInv, TypeOK', VoteInv', NEW i \in Server, NEW j \in Server, Resend(i, j)
  PROVE  SafeInv'
<1>0. \A s \in Server : proposing[s] = {} /\ phase[s] # "elected" /\ appending[s] = {} /\ todo[s] = {}
  BY FreeMeans DEF Resend
<1>1. /\ UNCHANGED <<term, votedFor, role, next, match, phase, loopTerm, votes, compactTo, roundCommit, todo>>
      /\ UNCHANGED <<proposing, appending, exch, ballots>>
      /\ exch[i][j].st = "sent"
      /\ late' = late \cup {[from |-> i, to |-> j, req |-> exch[i][j].req]}
  BY DEF Resend, stateVars, leadVars, loopVars, roundVars, taskVars
<1>2. DataSame
  <2>1. \A s \in Server : term[s] \in Nat
    BY DEF SafeInv, TypeOK, StateType
  <2> QED  BY <1>1, <2>1 DEF Resend, DataSame, logVars, diskVars, cursorVars, histVars
<1>3. \A s \in Server : Quiet(s)
  BY <1>0, <1>1 DEF Quiet
<1>4. LeadershipKept
  BY <1>1, <1>3, QuietLeadership DEF SafeInv
<1>5. CandidatesCover'
  BY <1>1, <1>2, QuietCandidates DEF Standing
<1>6. GapsHold'
  BY <1>0, <1>1, NoGaps
<1>7. ASSUME NEW m \in late' PROVE LateGood(m)'
  <2>1. m \in late \/ (/\ exch[m.from][m.to].st = "sent" /\ m.from \in Server /\ m.to \in Server
                       /\ m.req = exch[m.from][m.to].req)
    BY <1>1
  <2> QED  BY <1>2, <1>4, <2>1, QuietData, KeepLate DEF SafeInv, NetInv
<1>8. \A l, s \in Server : NetQuiet(l, s) /\ next'[l][s] = next[l][s] /\ match'[l][s] = match[l][s]
  BY <1>1 DEF NetQuiet
<1> QED  BY <1>0, <1>1, <1>2, <1>3, <1>4, <1>5, <1>6, <1>7, <1>8, QuietSafe

\* step_down.
LEMMA StepDownSafe ==
  ASSUME Races = {}, SafeInv, TypeOK', VoteInv', NEW i \in Server, StepDown(i)
  PROVE  SafeInv'
<1>0. \A s \in Server : proposing[s] = {} /\ phase[s] # "elected" /\ appending[s] = {} /\ todo[s] = {}
  BY FreeMeans DEF StepDown
<1>1. /\ UNCHANGED <<term, votedFor, next, match, phase, loopTerm, votes, compactTo, roundCommit, todo>>
      /\ UNCHANGED <<proposing, appending, exch, late, ballots>>
      /\ role' = [role EXCEPT ![i] = "Follower"] /\ phase[i] = "idle"
  BY DEF StepDown, leadVars, loopVars, roundVars, taskVars, netVars
<1>2. DataSame
  <2>1. \A s \in Server : term[s] \in Nat
    BY DEF SafeInv, TypeOK, StateType
  <2> QED  BY <1>1, <2>1 DEF StepDown, DataSame, logVars, diskVars, cursorVars, histVars
<1>3. role \in [Server -> {"Follower", "Candidate", "Leader"}]
  BY DEF SafeInv, TypeOK, StateType
<1>4. \A s \in Server : Quiet(s)
  BY <1>0, <1>1, <1>3 DEF Quiet
<1>5. LeadershipKept
  BY <1>1, <1>4, QuietLeadership DEF SafeInv
<1>6. CandidatesCover'
  BY <1>1, <1>2, <1>3, QuietCandidates DEF Standing
<1>7. GapsHold'
  BY <1>0, <1>1, NoGaps
<1>8. \A m \in late' : LateGood(m)'
  BY <1>1, <1>2, <1>5, QuietData, QuietLate
<1>9. \A l, s \in Server : NetQuiet(l, s) /\ next'[l][s] = next[l][s] /\ match'[l][s] = match[l][s]
  BY <1>1 DEF NetQuiet
<1> QED  BY <1>0, <1>1, <1>2, <1>4, <1>5, <1>6, <1>7, <1>8, <1>9, QuietSafe

\* A node's last term is at least that of what it has stored.
LEMMA HeldAtEnd ==
  ASSUME SafeInv, NEW a \in stored, NEW i \in Server, a.node = i
  PROVE  \/ LastTerm(i) > a.term
         \/ LastTerm(i) = a.term /\ a.index <= LastIndex(i) /\ Agree(log[i], ledger[a.term], a.index)
<1>0. /\ a.term \in Nat /\ a.index \in Nat /\ Len(log[i]) \in Nat /\ persisted[i] \in Nat
      /\ persisted[i] <= Len(log[i]) /\ \A k \in 1..Len(log[i]) : log[i][k].term \in Nat
      /\ log[i] \in Seq(Entry)
  BY LogElements DEF SafeInv, TypeOK, HistType
<1>1. RecordShape(a) /\ Held(i, a.term, a.index)
  BY DEF SafeInv, HistoryInv, NodeInv, StoredShape, StoredHeld, RecordHeld
<1>2. ASSUME NEW k \in 1..Len(log[i]) PROVE LastTerm(i) >= log[i][k].term /\ LastTerm(i) \in Nat
  <2>1. Len(log[i]) \in 1..Len(log[i]) /\ k \in 1..Len(log[i]) /\ log[i] # << >>
    BY <1>0, EmptySeq
  <2>2. log[i][k].term <= log[i][Len(log[i])].term
    BY <2>1, LogOrder DEF SafeInv, HistoryInv, NodeInv
  <2> QED  BY <1>0, <2>1, <2>2 DEF LastTerm
<1>3. CASE a.index <= persisted[i] /\ Agree(log[i], ledger[a.term], a.index)
  <2>1. a.index \in 1..a.index /\ a.index \in 1..Len(log[i])
    BY <1>0, <1>1, <1>3 DEF RecordShape
  <2>2. log[i][a.index].term = a.term
    BY <1>1, <1>3, <2>1 DEF RecordShape, Agree
  <2> QED  BY <1>0, <1>2, <1>3, <2>1, <2>2 DEF LastIndex
<1>4. CASE persisted[i] > 0 /\ log[i][persisted[i]].term > a.term
  <2>1. persisted[i] \in 1..Len(log[i])
    BY <1>0, <1>4
  <2> QED  BY <1>0, <1>2, <1>4, <2>1
<1> QED  BY <1>1, <1>3, <1>4 DEF Held

\* start_election, up to its calls: the candidate votes for itself, and covers what
\* it has stored itself.
LEMMA StartElectionSafe ==
  ASSUME Races = {}, SafeInv, TypeOK', VoteInv', NEW i \in Server, StartElection(i)
  PROVE  SafeInv'
<1>0. \A s \in Server : proposing[s] = {} /\ phase[s] # "elected" /\ appending[s] = {} /\ todo[s] = {}
  BY FreeMeans DEF StartElection
<1> DEFINE B == {[term |-> term[i] + 1, cand |-> i, to |-> j, lastTerm |-> LastTerm(i),
                  lastIndex |-> LastIndex(i)] : j \in Peers(i)}
<1>1. /\ UNCHANGED <<next, match, compactTo, roundCommit, todo, proposing, appending>>
      /\ term' = [term EXCEPT ![i] = @ + 1]
      /\ role' = [role EXCEPT ![i] = "Candidate"]
      /\ phase' = [phase EXCEPT ![i] = "elect"]
      /\ loopTerm' = [loopTerm EXCEPT ![i] = term[i] + 1]
      /\ votes' = [votes EXCEPT ![i] = {}]
      /\ ballots' = ballots \cup B
      /\ late' = Leftover(i, Peers(i))
      /\ exch' = [exch EXCEPT ![i] = [j \in Server |-> NoExchange]]
  BY DEF StartElection, leadVars, taskVars
<1>2. /\ term \in [Server -> Nat] /\ role \in [Server -> {"Follower", "Candidate", "Leader"}]
      /\ phase \in [Server -> {"idle", "elect", "elected", "round"}] /\ loopTerm \in [Server -> Nat]
      /\ votes \in [Server -> SUBSET VoteReply] /\ exch \in [Server -> [Server -> Exchange]]
      /\ ballots \subseteq Ballot
  BY DEF SafeInv, TypeOK, StateType, LoopType, NetType
<1>3. DataSame
  <2>1. \A s \in Server : term[s] <= term'[s]
    BY <1>1, <1>2
  <2> QED  BY <2>1 DEF StartElection, DataSame, logVars, diskVars, cursorVars, histVars
<1>4. log' = log /\ elected' = elected /\ stored' = stored /\ ledger' = ledger
  BY <1>3 DEF DataSame
<1>5. \A s \in Server \ {i} : Quiet(s)
  BY <1>0, <1>1, <1>2 DEF Quiet
<1>6. PhaseHolds(i)' /\ role'[i] # "Leader" /\ phase'[i] # "round"
  <2>1. ASSUME NEW e \in elected, e.node = i PROVE e.term <= term[i]
    <3>1. i \in e.voters /\ e.term \in Nat
      BY <2>1 DEF SafeInv, HistoryInv, VotersCovered, TypeOK, HistType
    <3> QED  BY <1>2, <2>1, <3>1 DEF SafeInv, VoteInv, WinsBind, BoundTo
  <2>2. ~WonBy(loopTerm[i], i)'
    <3>1. \A e \in elected : e.term \in Nat
      BY DEF SafeInv, TypeOK, HistType
    <3> QED  BY <1>1, <1>2, <1>4, <2>1, <3>1 DEF WonBy
  <2> QED  BY <1>1, <1>2, <2>2 DEF PhaseHolds, NoExchange
<1>7. LeadershipKept
  <2>1. \A s, j \in Server : match[s][j] \in Nat
    BY DEF SafeInv, TypeOK, LeadType
  <2> QED  BY <1>1, <1>2, <2>1 DEF LeadershipKept, Peers
<1>8. CandidatesCover'
  <2>0. LastTerm(i)' = LastTerm(i) /\ LastIndex(i)' = LastIndex(i) /\ Granted(i)' = {i}
    BY <1>1, <1>2, <1>4 DEF LastTerm, LastIndex, Granted
  <2>1. ASSUME NEW m \in ballots' PROVE m.term <= term'[m.cand]
    <3>1. CASE m \in B
      BY <1>1, <1>2, <3>1
    <3>2. CASE m \in ballots
      <4>1. m.cand \in Server /\ m.term \in Nat /\ m.term <= term[m.cand]
        BY <1>2, <3>2 DEF SafeInv, NodeInv, CandidatesCover, Ballot
      <4> QED  BY <1>1, <1>2, <4>1
    <3> QED  BY <1>1, <3>1, <3>2
  <2>2. ASSUME NEW m \in ballots', m.cand = i, m.term = loopTerm'[i]
        PROVE  m.lastTerm = LastTerm(i) /\ m.lastIndex = LastIndex(i)
    <3>1. CASE m \in B
      BY <3>1
    <3>2. CASE m \in ballots
      <4>1. m.term \in Nat /\ m.term <= term[i]
        BY <1>2, <2>2, <3>2 DEF SafeInv, NodeInv, CandidatesCover, Ballot
      <4> QED  BY <1>1, <1>2, <2>2, <4>1
    <3> QED  BY <1>1, <3>1, <3>2
  <2>3. ASSUME NEW a \in stored' PROVE GrantCovered(i, a)'
    <3> SUFFICES ASSUME a.node = i
                 PROVE  LastTerm(i) > a.term \/ Agree(log[i], ledger[a.term], a.index)
      BY <1>4, <2>0 DEF GrantCovered
    <3> QED  BY <1>4, HeldAtEnd
  <2>4. CandidateCovers(i)'
    BY <2>0, <2>2, <2>3 DEF CandidateCovers
  <2>5. ASSUME NEW c \in Server, c # i PROVE CandidateCovers(c)'
    <3>1. Standing(c)' => Standing(c) /\ loopTerm'[c] = loopTerm[c] /\ votes'[c] = votes[c]
      BY <1>1, <1>2, <2>5 DEF Standing
    <3>2. \A m \in ballots' : m.cand = c => m \in ballots
      BY <1>1, <2>5
    <3> QED  BY <1>3, <3>1, <3>2, QuietData, QuietCandidate
  <2> QED  BY <2>1, <2>4, <2>5 DEF CandidatesCover
<1>9. GapsHold'
  BY <1>0, <1>1, NoGaps
<1>10. \A m \in late' : LateGood(m)'
  <2>1. Peers(i) \in SUBSET Server
    BY DEF Peers
  <2> QED  BY <1>1, <1>3, <1>7, <2>1, QuietData, QuietLate
<1>11. \A l, s \in Server : NetQuiet(l, s) /\ next'[l][s] = next[l][s] /\ match'[l][s] = match[l][s]
  BY <1>1, <1>2 DEF NetQuiet, NoExchange
<1>12. \A s \in Server : Quiet(s) \/ (PhaseHolds(s)' /\ role'[s] # "Leader" /\ phase'[s] # "round")
  BY <1>5, <1>6
<1> QED  BY <1>0, <1>1, <1>3, <1>7, <1>8, <1>9, <1>10, <1>11, <1>12, QuietSafe

\* on_request_vote: a voter grants only to a candidate that has what the voter has
\* stored.
LEMMA OnRequestVoteSafe ==
  ASSUME Races = {}, SafeInv, TypeOK', VoteInv', NEW m \in ballots, OnRequestVote(m)
  PROVE  SafeInv'
<1>0. \A s \in Server : proposing[s] = {} /\ phase[s] # "elected" /\ appending[s] = {} /\ todo[s] = {}
  BY FreeMeans DEF OnRequestVote
<1>1. /\ term \in [Server -> Nat] /\ role \in [Server -> {"Follower", "Candidate", "Leader"}]
      /\ phase \in [Server -> {"idle", "elect", "elected", "round"}] /\ loopTerm \in [Server -> Nat]
      /\ votes \in [Server -> SUBSET VoteReply] /\ m \in Ballot
  BY DEF SafeInv, TypeOK, StateType, LoopType, NetType
<1>2. m.to \in Server /\ m.cand \in Server /\ m.term \in Nat
  BY <1>1 DEF Ballot
<1>3. PICK i \in Server, c \in Server : i = m.to /\ c = m.cand
  BY <1>2
<1> DEFINE t == Max(m.term, term[i])
           v == IF m.term > term[i] THEN None ELSE votedFor[i]
           g == m.term = t /\ MayVote(v, m.cand) /\ IsUpToDate(i, m.lastTerm, m.lastIndex)
<1>4. /\ UNCHANGED <<next, match, phase, loopTerm, compactTo, roundCommit, todo, proposing, appending>>
      /\ UNCHANGED <<exch, late>>
      /\ term' = [term EXCEPT ![i] = t]
      /\ role' = [role EXCEPT ![i] = IF m.term > term[i] THEN "Follower" ELSE @]
      /\ ballots' = ballots \ {m}
  BY <1>3 DEF OnRequestVote, leadVars, taskVars
<1>5. votes' = IF phase[c] = "elect" /\ loopTerm[c] = m.term
               THEN [votes EXCEPT ![c] = @ \cup {[from |-> i, term |-> t, granted |-> g]}]
               ELSE votes
  BY <1>3, Zenon DEF OnRequestVote
<1>6. t \in Nat /\ t >= term[i] /\ t >= m.term /\ (m.term > term[i] => t = m.term)
      /\ (~(m.term > term[i]) => t = term[i])
  BY <1>1, <1>2 DEF Max
<1>7. g => m.term = t /\ IsUpToDate(i, m.lastTerm, m.lastIndex)
  OBVIOUS
<1>70. PICK b \in BOOLEAN : b = g
  OBVIOUS
<1> HIDE DEF t, g
<1>8. DataSame
  <2>1. \A s \in Server : term[s] <= term'[s]
    BY <1>1, <1>4, <1>6
  <2> QED  BY <2>1 DEF OnRequestVote, DataSame, logVars, diskVars, cursorVars, histVars
<1>9. log' = log /\ elected' = elected /\ stored' = stored /\ ledger' = ledger
  BY <1>8 DEF DataSame
<1>10. \A s \in Server : Quiet(s)
  BY <1>0, <1>1, <1>4, <1>6 DEF Quiet
<1>11. LeadershipKept
  BY <1>4, <1>10, QuietLeadership DEF SafeInv
<1>12. \A d \in Server : Standing(d)' => Standing(d) /\ loopTerm'[d] = loopTerm[d]
  BY <1>1, <1>4, <1>6 DEF Standing
<1>13. ASSUME NEW d \in Server, votes'[d] = votes[d] PROVE CandidateCovers(d)'
  BY <1>4, <1>8, <1>12, <1>13, QuietData, QuietCandidate
<1>14. ASSUME phase[c] = "elect", loopTerm[c] = m.term PROVE CandidateCovers(c)'
  <2> SUFFICES ASSUME Standing(c)' PROVE CandidateCovers(c)'
    BY DEF CandidateCovers
  <2>1. Standing(c) /\ loopTerm'[c] = loopTerm[c] /\ CandidateCovers(c)
    BY <1>12 DEF SafeInv, NodeInv, CandidatesCover
  <2>2. LastTerm(c)' = LastTerm(c) /\ LastIndex(c)' = LastIndex(c)
    BY <1>9 DEF LastTerm, LastIndex
  <2>3. votes'[c] = votes[c] \cup {[from |-> i, term |-> t, granted |-> b]}
    BY <1>1, <1>5, <1>14, <1>70
  <2>4. \A n \in Granted(c)' : n \in Granted(c) \/ (n = i /\ b = TRUE)
    <3> SUFFICES ASSUME NEW n \in Granted(c)', n # c
                 PROVE  n \in Granted(c) \/ (n = i /\ b = TRUE)
      BY DEF Granted
    <3>1. PICK q \in votes'[c] : q.granted /\ n = q.from
      BY DEF Granted
    <3>2. CASE q \in votes[c]
      BY <3>1, <3>2 DEF Granted
    <3>3. CASE q = [from |-> i, term |-> t, granted |-> b]
      <4>1. q.from = i /\ q.granted = b
        BY <3>3
      <4> QED  BY <3>1, <4>1
    <3> QED  BY <2>3, <3>1, <3>2, <3>3
  <2>5. ASSUME NEW a \in stored, g, a.node = i
        PROVE  LastTerm(c) > a.term \/ Agree(log[c], ledger[a.term], a.index)
    <3>1. m.lastTerm = LastTerm(c) /\ m.lastIndex = LastIndex(c)
      BY <1>3, <1>14, <2>1 DEF CandidateCovers
    <3>2. \/ LastTerm(c) > LastTerm(i)
          \/ LastTerm(c) = LastTerm(i) /\ LastIndex(c) >= LastIndex(i)
      BY <1>7, <2>5, <3>1 DEF IsUpToDate
    <3>3. /\ LastTerm(c) \in Nat /\ LastTerm(i) \in Nat /\ LastIndex(c) \in Nat /\ LastIndex(i) \in Nat
          /\ a.term \in Nat /\ a.index \in Nat
      BY LogFacts DEF SafeInv, TypeOK, HistType
    <3>4. CASE LastTerm(i) > a.term
      BY <3>2, <3>3, <3>4
    <3>5. CASE LastTerm(i) = a.term /\ a.index <= LastIndex(i) /\ Agree(log[i], ledger[a.term], a.index)
      <4> SUFFICES ASSUME ~(LastTerm(c) > a.term) PROVE Agree(log[c], ledger[a.term], a.index)
        OBVIOUS
      <4>1. LastTerm(c) = a.term /\ a.index <= LastIndex(c)
        BY <3>2, <3>3, <3>5
      <4>2. a.index >= 1 /\ a.term \in Terms
        BY DEF SafeInv, HistoryInv, StoredShape, RecordShape
      <4>3. Len(log[c]) \in 1..Len(log[c]) /\ log[c] # << >>
        BY <3>3, <4>1, <4>2, EmptySeq DEF LastIndex
      <4>4. log[c][Len(log[c])].term = a.term
        BY <4>1, <4>3 DEF LastTerm
      <4>5. Agree(log[c], ledger[a.term], Len(log[c]))
        BY <4>3, <4>4 DEF SafeInv, NodeInv, LogsAgree, LogAgrees
      <4>6. Len(log[c]) \in Nat /\ Len(ledger[a.term]) \in Nat
        BY <4>2, LogElements, LedgerType DEF SafeInv
      <4> QED  BY <3>3, <4>1, <4>5, <4>6, AgreeShorter DEF LastIndex
    <3> QED  BY <2>5, <3>4, <3>5, HeldAtEnd
  <2>6. ASSUME NEW a \in stored' PROVE GrantCovered(c, a)'
    <3>1. GrantCovered(c, a)
      BY <1>9, <2>1 DEF CandidateCovers
    <3> QED  BY <1>9, <1>70, <2>1, <2>2, <2>4, <2>5, <3>1 DEF GrantCovered
  <2> QED  BY <1>4, <2>1, <2>2, <2>6 DEF CandidateCovers
<1>15. CandidatesCover'
  <2>1. \A d \in Server : CandidateCovers(d)'
    <3>1. CASE phase[c] = "elect" /\ loopTerm[c] = m.term
      <4>1. \A d \in Server \ {c} : votes'[d] = votes[d]
        BY <1>1, <1>5, <3>1
      <4> QED  BY <1>13, <1>14, <3>1, <4>1
    <3>2. CASE ~(phase[c] = "elect" /\ loopTerm[c] = m.term)
      <4>1. \A d \in Server : votes'[d] = votes[d]
        BY <1>5, <3>2
      <4> QED  BY <1>13, <4>1
    <3> QED  BY <3>1, <3>2
  <2>2. ASSUME NEW n \in ballots' PROVE n.term <= term'[n.cand]
    <3>1. n.cand \in Server /\ n.term \in Nat /\ n.term <= term[n.cand]
      BY <1>4 DEF SafeInv, NodeInv, CandidatesCover, TypeOK, NetType, Ballot
    <3> QED  BY <1>1, <1>4, <1>6, <3>1
  <2> QED  BY <2>1, <2>2 DEF CandidatesCover
<1>16. GapsHold'
  BY <1>0, <1>4, NoGaps
<1>17. \A n \in late' : LateGood(n)'
  BY <1>4, <1>8, <1>11, QuietData, QuietLate
<1>18. \A l, s \in Server : NetQuiet(l, s) /\ next'[l][s] = next[l][s] /\ match'[l][s] = match[l][s]
  BY <1>4 DEF NetQuiet
<1> QED  BY <1>0, <1>4, <1>8, <1>10, <1>11, <1>15, <1>16, <1>17, <1>18, QuietSafe

\* The first section of on_append_entries, for a request that is not refused.
LEMMA EnterQuiet ==
  ASSUME Races = {}, SafeInv, TypeOK', DataSame, NEW i \in Server, NEW l, l # i, NEW r \in Request,
         GoodRequest(l, r), EnterAppend(i, l, r), \A s \in Server : phase[s] # "elected" /\ appending[s] = {},
         UNCHANGED <<phase, loopTerm, compactTo, match, votes, ballots>>,
         \A s, j \in Server :
            exch'[s][j] = exch[s][j] \/ (exch[s][j].st = "sent" /\ exch'[s][j].st # "idle")
  PROVE  /\ \A s \in Server : Quiet(s)
         /\ LeadershipKept /\ CandidatesCover'
         /\ \A s \in Server : \A a \in appending'[s] : AppendGood(s, a)'
<1>0. /\ term \in [Server -> Nat] /\ role \in [Server -> {"Follower", "Candidate", "Leader"}]
      /\ appending \in [Server -> SUBSET [from : Server, req : Request]] /\ r.term \in Nat
  BY DEF SafeInv, TypeOK, StateType, TaskType, Request
<1>1. \/ UNCHANGED <<term, role, appending>>
      \/ /\ r.term >= term[i]
         /\ term' = [term EXCEPT ![i] = r.term] /\ role' = [role EXCEPT ![i] = "Follower"]
         /\ appending' = [appending EXCEPT ![i] = @ \cup {[from |-> l, req |-> r]}]
  BY <1>0 DEF EnterAppend, stateVars
<1>2. r.term = term[i] => role[i] # "Leader"
  <2>1. PICK e \in elected : e.term = r.term /\ e.node = l
    BY DEF GoodRequest, WonBy
  <2>2. role[i] = "Leader" => \E f \in elected : f.term = term[i] /\ f.node = i
    BY DEF SafeInv, NodeInv, LeadersHold, LeaderHolds, WonBy
  <2> QED  BY <2>1, <2>2 DEF SafeInv, VoteInv, ElectionSafety
<1>3. ASSUME NEW s \in Server PROVE Quiet(s)
  <2>1. phase[s] = "elect" => \A j \in Server : exch[s][j].st = "idle"
    BY DEF SafeInv, NodeInv, PhasesHold, PhaseHolds
  <2>2. phase'[s] = "elect" => \A j \in Server : exch'[s][j] = exch[s][j]
    BY <2>1
  <2>3. CASE UNCHANGED <<term, role, appending>>
    BY <2>2, <2>3 DEF Quiet
  <2>4. CASE /\ r.term >= term[i]
             /\ term' = [term EXCEPT ![i] = r.term] /\ role' = [role EXCEPT ![i] = "Follower"]
    <3>1. CASE s = i
      BY <1>0, <1>2, <2>2, <2>4, <3>1 DEF Quiet
    <3>2. CASE s # i
      BY <1>0, <2>2, <2>4, <3>2 DEF Quiet
    <3> QED  BY <3>1, <3>2
  <2> QED  BY <1>1, <2>3, <2>4
<1>4. LeadershipKept
  BY <1>3, QuietLeadership DEF SafeInv
<1>5. CandidatesCover'
  <2>1. \A c \in Server : Standing(c)' => Standing(c)
    BY <1>0, <1>1 DEF Standing
  <2> QED  BY <2>1, QuietCandidates
<1>6. ASSUME NEW s \in Server, NEW a \in appending'[s] PROVE AppendGood(s, a)'
  <2>1. appending' # appending
    BY <1>6
  <2>2. s = i /\ a = [from |-> l, req |-> r] /\ term'[i] = r.term /\ role'[i] = "Follower"
    BY <1>0, <1>1, <1>6, <2>1
  <2>3. GoodRequest(l, r)'
    BY <1>4, QuietData, GrowRequest DEF SafeInv
  <2>4. a.from = l /\ a.req = r
    BY <2>2
  <2> QED  BY <2>2, <2>3, <2>4 DEF AppendGood
<1> QED  BY <1>3, <1>4, <1>5, <1>6

\* on_append_entries, first section.
LEMMA OnAppendEntriesSafe ==
  ASSUME Races = {}, SafeInv, TypeOK', VoteInv', NEW i \in Server, NEW l \in Server, OnAppendEntries(i, l)
  PROVE  SafeInv'
<1>0. \A s \in Server : proposing[s] = {} /\ phase[s] # "elected" /\ appending[s] = {} /\ todo[s] = {}
  BY FreeMeans DEF OnAppendEntries
<1>1. PICK r : r = exch[l][i].req
  OBVIOUS
<1> DEFINE x == IF r.term < term[i]
                THEN [st |-> "acked", term |-> r.term,
                      ack |-> [term |-> term[i], success |-> FALSE, matchIndex |-> 0]]
                ELSE [st |-> "handling", req |-> r]
<1>2. /\ UNCHANGED <<next, match, phase, loopTerm, votes, compactTo, roundCommit, todo, proposing>>
      /\ UNCHANGED <<late, ballots>>
      /\ exch[l][i].st = "sent" /\ EnterAppend(i, l, r)
      /\ exch' = [exch EXCEPT ![l][i] = x]
  BY <1>1 DEF OnAppendEntries, leadVars, loopVars, roundVars
<1>3. /\ term \in [Server -> Nat] /\ exch \in [Server -> [Server -> Exchange]]
      /\ match \in [Server -> [Server -> Nat]]
  BY DEF SafeInv, TypeOK, StateType, NetType, LeadType
<1>4. r \in Request /\ r.term \in Nat
  BY <1>1, <1>2, <1>3 DEF Exchange, Request
<1>5. l # i /\ GoodRequest(l, r)
  BY <1>1, <1>2 DEF SafeInv, NetInv, RequestsGood, SentGood
<1>6. DataSame
  <2>0. EnterAppend(i, l, r)
    BY <1>2
  <2>1. term' = term \/ (r.term >= term[i] /\ term' = [term EXCEPT ![i] = r.term])
    BY <1>3, <1>4, <2>0 DEF EnterAppend, stateVars
  <2>2. \A s \in Server : term[s] <= term'[s]
    <3>1. CASE term' = term
      BY <1>3, <3>1
    <3>2. CASE r.term >= term[i] /\ term' = [term EXCEPT ![i] = r.term]
      BY <1>3, <1>4, <3>2
    <3> QED  BY <2>1, <3>1, <3>2
  <2> QED  BY <2>2 DEF OnAppendEntries, DataSame, logVars, diskVars, cursorVars, histVars
<1>7. \A s, j \in Server : (s # l \/ j # i) => exch'[s][j] = exch[s][j]
  BY <1>2, <1>3
<1>8. exch'[l][i] = x /\ x.st # "idle"
  BY <1>2, <1>3
<1> HIDE DEF x
<1>9. /\ \A s \in Server : Quiet(s)
      /\ LeadershipKept /\ CandidatesCover'
      /\ \A s \in Server : \A a \in appending'[s] : AppendGood(s, a)'
  <2>1. \A s, j \in Server :
          exch'[s][j] = exch[s][j] \/ (exch[s][j].st = "sent" /\ exch'[s][j].st # "idle")
    BY <1>2, <1>7, <1>8
  <2> QED  BY <1>0, <1>2, <1>4, <1>5, <1>6, <2>1, EnterQuiet
<1>10. GapsHold'
  BY <1>0, <1>2, NoGaps
<1>11. \A m \in late' : LateGood(m)'
  BY <1>2, <1>6, <1>9, QuietData, QuietLate
<1>12. ASSUME NEW s \in Server, NEW j \in Server, s # l \/ j # i
       PROVE  NetQuiet(s, j) /\ next'[s][j] = next[s][j] /\ match'[s][j] = match[s][j]
  BY <1>2, <1>7, <1>12 DEF NetQuiet
<1>13. \/ NetQuiet(l, i) /\ next'[l][i] = next[l][i] /\ match'[l][i] = match[l][i]
       \/ SentGood(l, i)' /\ AckHolds(l, i)' /\ NextHolds(l, i)' /\ MatchHolds(l, i)'
  <2>1. CASE ~(r.term < term[i])
    <3>1. x.st = "handling" /\ x.req = r
      BY <2>1 DEF x
    <3> QED  BY <1>1, <1>2, <1>8, <3>1 DEF NetQuiet
  <2>2. CASE r.term < term[i]
    <3>1. x.st = "acked" /\ x.term = r.term /\ x.ack.success = FALSE /\ x.ack.term = term[i]
      BY <2>2 DEF x
    <3>2. SentGood(l, i)' /\ AckHolds(l, i)'
      BY <1>5, <1>8, <3>1 DEF SentGood, AckHolds
    <3>3. i \in Peers(l) /\ HistoryGrows
      BY <1>5, <1>6, QuietData DEF Peers
    <3>4. MatchHolds(l, i)'
      BY <1>2, <1>9, <3>3, QuietMatch
    <3>5. NextHolds(l, i)'
      <4> SUFFICES ASSUME role'[l] = "Leader", phase'[l] # "elected" PROVE NextHolds(l, i)'
        BY DEF NextHolds
      <4>1. role[l] = "Leader" /\ phase[l] # "elected" /\ term' = term
        BY <1>0, <1>2, <1>9, <2>2 DEF Quiet, EnterAppend, stateVars
      <4>2. NextHolds(l, i)
        BY <3>3 DEF SafeInv, NetInv, NextHold
      <4>3. r.term = term[l]
        BY <1>1, <1>2, <4>1, <4>2 DEF NextHolds
      <4>4. ~(x.ack.term <= term[l])
        BY <1>3, <1>4, <2>2, <3>1, <4>3
      <4>5. log' = log /\ stored' = stored /\ ledger' = ledger
        BY <1>6 DEF DataSame
      <4>6. next'[l][i] <= Len(log'[l]) + 1 /\ Floor(l, i, next[l][i])'
        BY <1>2, <4>1, <4>2, <4>5 DEF NextHolds, Floor, Lost, Terms
      <4> QED  BY <1>8, <3>1, <4>1, <4>3, <4>4, <4>6 DEF NextHolds
    <3> QED  BY <3>2, <3>4, <3>5
  <2> QED  BY <2>1, <2>2
<1>14. \A s, j \in Server :
         \/ NetQuiet(s, j) /\ next'[s][j] = next[s][j] /\ match'[s][j] = match[s][j]
         \/ SentGood(s, j)' /\ AckHolds(s, j)' /\ NextHolds(s, j)' /\ MatchHolds(s, j)'
  BY <1>12, <1>13
<1> QED  BY <1>6, <1>9, <1>10, <1>11, <1>14, QuietSafe

\* on_append_entries, first section, for a request its leader gave up.
LEMMA OnLateAppendEntriesSafe ==
  ASSUME Races = {}, SafeInv, TypeOK', VoteInv', NEW m \in late, OnLateAppendEntries(m)
  PROVE  SafeInv'
<1>0. \A s \in Server : proposing[s] = {} /\ phase[s] # "elected" /\ appending[s] = {} /\ todo[s] = {}
  BY FreeMeans DEF OnLateAppendEntries
<1>1. PICK i \in Server, l \in Server, r \in Request : i = m.to /\ l = m.from /\ r = m.req
  BY DEF SafeInv, TypeOK, NetType
<1>2. /\ UNCHANGED <<next, match, phase, loopTerm, votes, compactTo, roundCommit, todo, proposing>>
      /\ UNCHANGED <<exch, ballots>>
      /\ EnterAppend(i, l, r) /\ late' = late \ {m}
  BY <1>1 DEF OnLateAppendEntries, leadVars, loopVars, roundVars
<1>3. term \in [Server -> Nat] /\ r.term \in Nat
  BY DEF SafeInv, TypeOK, StateType, Request
<1>4. l # i /\ GoodRequest(l, r)
  BY <1>1 DEF SafeInv, NetInv, RequestsGood, LateGood
<1>5. DataSame
  <2>1. \A s \in Server : term[s] <= term'[s]
    BY <1>2, <1>3 DEF EnterAppend, stateVars
  <2> QED  BY <2>1 DEF OnLateAppendEntries, DataSame, logVars, diskVars, cursorVars, histVars
<1>6. /\ \A s \in Server : Quiet(s)
      /\ LeadershipKept /\ CandidatesCover'
      /\ \A s \in Server : \A a \in appending'[s] : AppendGood(s, a)'
  BY <1>0, <1>2, <1>4, <1>5, EnterQuiet
<1>7. GapsHold'
  BY <1>0, <1>2, NoGaps
<1>8. \A n \in late' : LateGood(n)'
  BY <1>2, <1>5, <1>6, QuietData, QuietLate
<1>9. \A s, j \in Server : NetQuiet(s, j) /\ next'[s][j] = next[s][j] /\ match'[s][j] = match[s][j]
  BY <1>2 DEF NetQuiet
<1> QED  BY <1>5, <1>6, <1>7, <1>8, <1>9, QuietSafe

\* What a leader sends in its round.
LEMMA LaunchedRequest ==
  ASSUME SafeInv, NEW i \in Server, NEW j \in Peers(i), role[i] = "Leader", phase[i] = "round",
         loopTerm[i] = term[i], HasStored(term[i], i, Len(log[i])), roundCommit[i] = commitIndex[i],
         NEW r, r = [term |-> loopTerm[i], prev |-> next[i][j] - 1,
                     prevTerm |-> Max(TermAt(i, next[i][j] - 1), 0),
                     entries |-> SubSeq(log[i], next[i][j] - 1 + 1, LastIndex(i)),
                     commit |-> roundCommit[i], compact |-> compactTo[i]]
  PROVE  GoodRequest(i, r)
<1> DEFINE L == log[i]
           n == next[i][j]
           p == n - 1
<1>0. /\ L \in Seq(Entry) /\ Len(L) \in Nat /\ n \in Nat /\ n > 0 /\ snap[i] \in Nat /\ j \in Server
      /\ \A k \in 1..Len(L) : L[k].term \in Nat
  <2>1. TypeOK /\ j \in Server
    BY DEF SafeInv, Peers
  <2>2. L \in Seq(Entry) /\ Len(L) \in Nat /\ \A k \in 1..Len(L) : L[k].term \in Nat
    BY <2>1, LogElements
  <2>3. n \in Nat /\ n > 0 /\ snap[i] \in Nat
    BY <2>1 DEF TypeOK, LeadType, CursorType
  <2> QED  BY <2>1, <2>2, <2>3
<1>1. /\ WonBy(term[i], i) /\ ledger[term[i]] = L /\ L # << >> /\ LastTerm(i) = term[i]
  BY DEF SafeInv, NodeInv, LeadersHold, LeaderHolds
<1>2. n <= Len(L) + 1
  BY DEF SafeInv, NetInv, NextHold, NextHolds
<1>3. Len(L) \in 1..Len(L) /\ L[Len(L)].term = term[i]
  BY <1>0, <1>1, EmptySeq DEF LastTerm
<1>4. snap[i] < n
  <2>1. NoStrandedPeer
    BY SafeNoStranded
  <2>2. i # j
    BY DEF Peers
  <2> QED  BY <1>0, <2>1, <2>2 DEF NoStrandedPeer
<1>5. r.term = term[i] /\ r.prev = p /\ r.entries = SubSeq(L, n, Len(L)) /\ r.commit = commitIndex[i]
      /\ r.compact = compactTo[i] /\ r.prevTerm = Max(TermAt(i, p), 0) /\ p \in Nat /\ p + 1 = n
  <2>1. p \in Nat /\ p + 1 = n
    BY <1>0
  <2>2. /\ r.term = loopTerm[i] /\ r.prev = p /\ r.commit = roundCommit[i] /\ r.compact = compactTo[i]
        /\ r.prevTerm = Max(TermAt(i, p), 0) /\ r.entries = SubSeq(L, p + 1, LastIndex(i))
    OBVIOUS
  <2> QED  BY <2>1, <2>2 DEF LastIndex
<1> HIDE DEF L, n, p
<1>6. Len(r.entries) = Len(L) - p /\ \A k \in 1..Len(L) - p : r.entries[k] = L[p + k]
  <2>1. n \in 1..Len(L) + 1 /\ Len(L) \in n - 1 .. Len(L)
    BY <1>0, <1>2
  <2>2. Len(SubSeq(L, n, Len(L))) = Len(L) - n + 1
        /\ \A k \in 1..Len(L) - n + 1 : SubSeq(L, n, Len(L))[k] = L[n + k - 1]
    BY <1>0, <2>1, SubSeqProperties
  <2>3. Len(L) - n + 1 = Len(L) - p
    BY <1>0, <1>5
  <2>4. ASSUME NEW k \in 1..Len(L) - p PROVE r.entries[k] = L[p + k]
    <3>1. n + k - 1 = p + k /\ k \in 1..Len(L) - n + 1
      BY <1>0, <1>5
    <3> QED  BY <1>5, <2>2, <3>1
  <2> QED  BY <1>5, <2>2, <2>3, <2>4
<1>7. r.prev + Len(r.entries) = Len(L)
  <2>1. r.prev = p /\ p \in Nat /\ Len(r.entries) = Len(L) - p
    BY <1>5, <1>6
  <2>2. p + (Len(L) - p) = Len(L)
    BY <1>0, <2>1
  <2> QED  BY <2>1, <2>2, Zenon
<1>8. LeaderStored(term[i], Len(L))
  BY <1>1 DEF LeaderStored, WonBy, L
<1>9. r.prevTerm = IF r.prev = 0 THEN 0 ELSE ledger[r.term][r.prev].term
  <2>1. ~(p < snap[i] \/ p > Len(L))
    <3>1. p \in Nat /\ p + 1 = n
      BY <1>5
    <3> QED  BY <1>0, <1>2, <1>4, <3>1
  <2>2. TermAt(i, p) = IF p = 0 THEN 0 ELSE L[p].term
    BY <2>1 DEF TermAt, L
  <2>3. p # 0 => L[p].term \in Nat
    BY <1>0, <1>5, <2>1
  <2>4. Max(TermAt(i, p), 0) = IF p = 0 THEN 0 ELSE L[p].term
    BY <2>2, <2>3 DEF Max
  <2> QED  BY <1>1, <1>5, <2>4
<1>10. GoodCommit(term[i], commitIndex[i])
  BY DEF SafeInv, NodeInv, CommitsHold, CommitHolds, GoodCommit
<1>11. GoodPoint(term[i], compactTo[i])
  BY DEF SafeInv, NetInv, PointsHold, RoundHolds
<1>12. \A k \in 1..Len(r.entries) : r.entries[k] = ledger[r.term][r.prev + k]
  <2>1. r.prev = p /\ ledger[r.term] = L /\ Len(r.entries) = Len(L) - p
    BY <1>1, <1>5, <1>6
  <2> QED  BY <1>6, <2>1
<1> QED  BY <1>1, <1>3, <1>5, <1>7, <1>8, <1>9, <1>10, <1>11, <1>12 DEF GoodRequest

\* replicate_round's requests.
LEMMA LaunchSafe ==
  ASSUME Races = {}, SafeInv, TypeOK', VoteInv', NEW i \in Server, NEW J \in SUBSET todo[i], Launch(i, J)
  PROVE  SafeInv'
<1>0. \A s \in Server : proposing[s] = {} /\ phase[s] # "elected" /\ appending[s] = {}
  BY FinishMeans DEF Launch
<1> DEFINE req(j) == [term |-> loopTerm[i], prev |-> next[i][j] - 1,
                      prevTerm |-> Max(TermAt(i, next[i][j] - 1), 0),
                      entries |-> SubSeq(log[i], next[i][j] - 1 + 1, LastIndex(i)),
                      commit |-> roundCommit[i], compact |-> compactTo[i]]
<1>1. /\ UNCHANGED <<term, role, next, match, phase, loopTerm, votes, compactTo, roundCommit>>
      /\ UNCHANGED <<proposing, appending, late, ballots>>
      /\ J # {} /\ J = todo[i]
      /\ todo' = [todo EXCEPT ![i] = @ \ J]
  BY DEF Launch, stateVars, leadVars, taskVars
<1>2. exch' = [exch EXCEPT ![i] =
                [j \in Server |-> IF j \in J THEN [st |-> "sent", req |-> req(j)] ELSE exch[i][j]]]
  BY DEF Launch
<1>3. /\ exch \in [Server -> [Server -> Exchange]] /\ todo \in [Server -> SUBSET Server]
      /\ match \in [Server -> [Server -> Nat]]
  BY DEF SafeInv, TypeOK, NetType, RoundType, LeadType
<1>4. DataSame
  <2>1. \A s \in Server : term[s] \in Nat
    BY DEF SafeInv, TypeOK, StateType
  <2> QED  BY <1>1, <2>1 DEF Launch, DataSame, logVars, diskVars, cursorVars, histVars
<1>5. /\ phase[i] = "round" /\ role[i] = "Leader" /\ loopTerm[i] = term[i]
      /\ HasStored(term[i], i, Len(log[i])) /\ roundCommit[i] = commitIndex[i]
      /\ \A j \in J : j # i /\ exch[i][j].st = "idle"
  <2>1. LaunchGap(i)
    BY DEF SafeInv, NetInv, GapsHold
  <2> QED  BY <1>1, <2>1 DEF LaunchGap
<1>6. ASSUME NEW s \in Server, NEW j \in Server PROVE (s # i \/ j \notin J) => exch'[s][j] = exch[s][j]
  BY <1>2, <1>3
<1>7. ASSUME NEW j \in J PROVE j \in Peers(i) /\ exch'[i][j] = [st |-> "sent", req |-> req(j)]
  BY <1>2, <1>3, <1>5 DEF Peers
<1> HIDE DEF req
<1>8. \A s \in Server : Quiet(s)
  BY <1>0, <1>1, <1>5, <1>6 DEF Quiet
<1>9. LeadershipKept
  BY <1>1, <1>8, QuietLeadership DEF SafeInv
<1>10. CandidatesCover'
  BY <1>1, <1>4, QuietCandidates DEF Standing
<1>11. GapsHold'
  <2>1. commitIndex' = commitIndex /\ log' = log /\ stored' = stored
    BY <1>4 DEF DataSame
  <2>2. ASSUME NEW s \in Server PROVE LaunchGap(s)'
    <3>1. CASE s = i
      <4>1. todo'[s] = {}
        BY <1>1, <1>3, <3>1
      <4> QED  BY <4>1 DEF LaunchGap
    <3>2. CASE s # i
      <4>1. todo'[s] = todo[s] /\ (\A j \in Server : exch'[s][j] = exch[s][j]) /\ todo[s] \in SUBSET Server
        BY <1>1, <1>3, <1>6, <3>2
      <4>2. LaunchGap(s)
        BY DEF SafeInv, NetInv, GapsHold
      <4> QED  BY <1>1, <2>1, <4>1, <4>2 DEF LaunchGap, HasStored
    <3> QED  BY <3>1, <3>2
  <2> QED  BY <1>0, <1>1, <2>2 DEF GapsHold, ProposeGap
<1>12. \A m \in late' : LateGood(m)'
  BY <1>1, <1>4, <1>9, QuietData, QuietLate
<1>13. ASSUME NEW j \in J
       PROVE  SentGood(i, j)' /\ AckHolds(i, j)' /\ NextHolds(i, j)' /\ MatchHolds(i, j)'
  <2>1. PICK r : r = req(j)
    OBVIOUS
  <2>2. exch'[i][j].st = "sent" /\ exch'[i][j].req = r /\ j \in Peers(i) /\ j \in Server
    <3>1. exch'[i][j] = [st |-> "sent", req |-> r] /\ j \in Peers(i)
      BY <1>7, <2>1
    <3>2. j \in Server
      BY <3>1 DEF Peers
    <3> QED  BY <3>1, <3>2
  <2>3. GoodRequest(i, r)
    BY <1>5, <2>1, <2>2, LaunchedRequest DEF req
  <2>4. r \in Request
    BY <2>2 DEF TypeOK, NetType, Exchange
  <2>5. GoodRequest(i, r)'
    BY <1>4, <1>9, <2>3, <2>4, QuietData, GrowRequest DEF SafeInv
  <2>6. GoodRequest(i, exch[i][j].req)'
    BY <2>2, <2>5 DEF GoodRequest, WonBy, LeaderStored, HasStored, GoodCommit, Chosen, GoodPoint, Everywhere
  <2>7. SentGood(i, j)' /\ AckHolds(i, j)'
    BY <1>5, <2>2, <2>6 DEF SentGood, AckHolds
  <2>8. MatchHolds(i, j)'
    BY <1>1, <1>4, <1>8, <2>2, QuietData, QuietMatch
  <2>9. NextHolds(i, j)'
    <3>1. log' = log /\ stored' = stored /\ ledger' = ledger
      BY <1>4 DEF DataSame
    <3>2. NextHolds(i, j)
      BY <2>2 DEF SafeInv, NetInv, NextHold
    <3>3. next'[i][j] <= Len(log'[i]) + 1 /\ Floor(i, j, next[i][j])'
      BY <1>0, <1>1, <1>5, <3>1, <3>2 DEF NextHolds, Floor, Lost, Terms
    <3>4. r.term = loopTerm[i] /\ r.prev = next[i][j] - 1
      BY <2>1 DEF req
    <3> QED  BY <1>1, <1>5, <2>2, <3>3, <3>4 DEF NextHolds
  <2> QED  BY <2>7, <2>8, <2>9
<1>14. \A s, j \in Server :
         \/ NetQuiet(s, j) /\ next'[s][j] = next[s][j] /\ match'[s][j] = match[s][j]
         \/ SentGood(s, j)' /\ AckHolds(s, j)' /\ NextHolds(s, j)' /\ MatchHolds(s, j)'
  BY <1>1, <1>6, <1>13 DEF NetQuiet
<1> QED  BY <1>0, <1>1, <1>4, <1>8, <1>9, <1>10, <1>11, <1>12, <1>14, QuietSafe

\* take_reply.
LEMMA TakeReplySafe ==
  ASSUME Races = {}, SafeInv, TypeOK', VoteInv', NEW i \in Server, NEW j \in Server, TakeReply(i, j)
  PROVE  SafeInv'
<1>0. \A s \in Server : proposing[s] = {} /\ phase[s] # "elected" /\ appending[s] = {} /\ todo[s] = {}
  BY FreeMeans DEF TakeReply
<1>1. PICK a : a = exch[i][j].ack
  OBVIOUS
<1>2. /\ UNCHANGED <<loopTerm, votes, compactTo, roundCommit, todo, proposing, appending, late, ballots>>
      /\ phase[i] = "round" /\ exch[i][j].st = "acked" /\ exch[i][j].term = loopTerm[i]
      /\ exch' = [exch EXCEPT ![i][j] = NoExchange]
  BY DEF TakeReply, taskVars
<1>3. \/ /\ a.term > loopTerm[i] /\ phase' = [phase EXCEPT ![i] = "idle"] /\ UNCHANGED <<next, match>>
         /\ \/ UNCHANGED <<term, role>>
            \/ a.term > term[i] /\ term' = [term EXCEPT ![i] = a.term]
               /\ role' = [role EXCEPT ![i] = "Follower"]
      \/ /\ a.term <= loopTerm[i] /\ a.success /\ UNCHANGED <<term, role, phase>>
         /\ match' = [match EXCEPT ![i][j] = a.matchIndex]
         /\ next' = [next EXCEPT ![i][j] = a.matchIndex + 1]
      \/ /\ a.term <= loopTerm[i] /\ ~a.success /\ UNCHANGED <<term, role, phase, match>>
         /\ next' = [next EXCEPT ![i][j] = BackOff(@)]
  BY <1>1 DEF TakeReply, stateVars, leadVars
<1>4. /\ term \in [Server -> Nat] /\ role \in [Server -> {"Follower", "Candidate", "Leader"}]
      /\ exch \in [Server -> [Server -> Exchange]]
      /\ phase \in [Server -> {"idle", "elect", "elected", "round"}]
      /\ match \in [Server -> [Server -> Nat]] /\ next \in [Server -> [Server -> Nat \ {0}]]
      /\ loopTerm \in [Server -> Nat]
  BY DEF SafeInv, TypeOK, StateType, NetType, LoopType, LeadType
<1>5. a \in Ack /\ a.term \in Nat /\ a.matchIndex \in Nat
  <2>1. exch[i][j] \in Exchange /\ exch[i][j].st = "acked"
    BY <1>2, <1>4
  <2>2. exch[i][j].ack \in Ack
    BY <2>1 DEF Exchange
  <2> QED  BY <1>1, <2>2 DEF Ack
<1>6. DataSame
  <2>1. term' = term \/ (a.term > term[i] /\ term' = [term EXCEPT ![i] = a.term])
    BY <1>3, Zenon
  <2>2. \A s \in Server : term[s] <= term'[s]
    <3>1. \A s \in Server : term[s] \in Nat
      BY <1>4
    <3>2. CASE term' = term
      BY <3>1, <3>2
    <3>3. CASE a.term > term[i] /\ term' = [term EXCEPT ![i] = a.term]
      <4>1. \A s \in Server : term'[s] = IF s = i THEN a.term ELSE term[s]
        BY <1>4, <3>3
      <4> QED  BY <1>5, <3>1, <3>3, <4>1
    <3> QED  BY <2>1, <3>2, <3>3
  <2> QED  BY <2>2 DEF TakeReply, DataSame, logVars, diskVars, cursorVars, histVars
<1>7. HistoryGrows /\ HistoryInv'
  BY <1>6, QuietData
<1>8. \A l, s \in Server : exch'[l][s] = exch[l][s] \/ exch'[l][s].st = "idle"
  BY <1>2, <1>4 DEF NoExchange
<1>9. \A s \in Server : Quiet(s)
  <2>1. ASSUME NEW s \in Server, s # i PROVE Quiet(s)
    <3>1. role'[s] = role[s] /\ term'[s] = term[s] /\ phase'[s] = phase[s]
      BY <1>3, <1>4, <2>1
    <3> QED  BY <1>0, <1>2, <1>8, <3>1 DEF Quiet
  <2>2. Quiet(i)
    <3>1. \/ phase'[i] = "idle" /\ (role'[i] = "Leader" => role[i] = "Leader" /\ term'[i] = term[i])
          \/ phase'[i] = phase[i] /\ role'[i] = role[i] /\ term'[i] = term[i]
      BY <1>3, <1>4
    <3> QED  BY <1>0, <1>2, <1>8, <3>1 DEF Quiet
  <2> QED  BY <2>1, <2>2
<1>10. i # j /\ j \in Peers(i)
       /\ (a.success => [term |-> loopTerm[i], node |-> j, index |-> a.matchIndex] \in stored)
  <2>1. AckHolds(i, j)
    BY DEF SafeInv, NetInv, AcksHold
  <2> QED  BY <1>1, <1>2, <2>1 DEF AckHolds, Peers
<1>11. role[i] = "Leader" =>
         /\ loopTerm[i] = term[i] /\ next[i][j] <= Len(log[i]) + 1
         /\ a.success => match[i][j] <= a.matchIndex
         /\ ~a.success /\ a.term <= term[i] => Floor(i, j, next[i][j] - 1) /\ term[j] >= term[i]
  <2>1. NextHolds(i, j)
    BY <1>10 DEF SafeInv, NetInv, NextHold
  <2> QED  BY <1>0, <1>1, <1>2, <2>1 DEF NextHolds
<1>12. LeadershipKept
  <2>1. CASE match' = match
    BY <1>9, <2>1, QuietLeadership DEF SafeInv
  <2>2. CASE a.success /\ UNCHANGED <<term, role>> /\ match' = [match EXCEPT ![i][j] = a.matchIndex]
    <3>1. ASSUME NEW s \in Server, role'[s] = "Leader", NEW k \in Peers(s)
          PROVE  match[s][k] <= match'[s][k]
      <4>1. k \in Server
        BY DEF Peers
      <4>2. match[s][k] \in Nat /\ role[s] = "Leader"
        BY <1>4, <2>2, <3>1, <4>1
      <4>3. CASE s = i /\ k = j
        BY <1>4, <1>11, <2>2, <4>2, <4>3
      <4>4. CASE ~(s = i /\ k = j)
        <5>1. match'[s][k] = match[s][k]
          BY <1>4, <2>2, <4>1, <4>4
        <5> QED  BY <4>2, <5>1
      <4> QED  BY <4>3, <4>4
    <3> QED  BY <2>2, <3>1 DEF LeadershipKept
  <2> QED  BY <1>3, <2>1, <2>2
<1>13. CandidatesCover'
  <2>1. \A c \in Server : Standing(c)' => Standing(c)
    BY <1>2, <1>3, <1>4 DEF Standing
  <2> QED  BY <1>2, <1>6, <2>1, QuietCandidates
<1>14. GapsHold'
  BY <1>0, <1>2, NoGaps
<1>15. \A m \in late' : LateGood(m)'
  BY <1>2, <1>6, <1>7, <1>12, QuietLate
<1>16. ASSUME NEW s \in Server, NEW k \in Server, s # i \/ k # j
       PROVE  NetQuiet(s, k) /\ next'[s][k] = next[s][k] /\ match'[s][k] = match[s][k]
  <2>1. next'[s][k] = next[s][k] /\ match'[s][k] = match[s][k]
    BY <1>3, <1>4, <1>16
  <2> QED  BY <1>8, <2>1 DEF NetQuiet
<1>17. exch'[i][j].st = "idle" /\ SentGood(i, j)' /\ AckHolds(i, j)'
  BY <1>2, <1>4 DEF SentGood, AckHolds, NoExchange
<1>18. log' = log /\ stored' = stored /\ ledger' = ledger
  BY <1>6 DEF DataSame
<1>19. ASSUME a.term > loopTerm[i], UNCHANGED <<next, match>>
       PROVE  NetQuiet(i, j) /\ next'[i][j] = next[i][j] /\ match'[i][j] = match[i][j]
  BY <1>17, <1>19 DEF NetQuiet
<1>20. ASSUME a.success, UNCHANGED <<term, role, phase>>,
              match' = [match EXCEPT ![i][j] = a.matchIndex],
              next' = [next EXCEPT ![i][j] = a.matchIndex + 1]
       PROVE  NextHolds(i, j)' /\ MatchHolds(i, j)'
  <2>1. match'[i][j] = a.matchIndex /\ next'[i][j] = a.matchIndex + 1
    BY <1>4, <1>20
  <2>2. PICK b \in stored : b.term = loopTerm[i] /\ b.node = j /\ b.index = a.matchIndex
    BY <1>10, <1>20
  <2>3. HasStored(loopTerm[i], j, a.matchIndex)
    BY <1>5, <2>2 DEF HasStored
  <2>4. MatchHolds(i, j)'
    BY <1>2, <1>11, <1>18, <1>20, <2>1, <2>3 DEF MatchHolds, GoodMatch, HasStored
  <2>5. NextHolds(i, j)'
    <3> SUFFICES ASSUME role'[i] = "Leader" PROVE NextHolds(i, j)'
      BY DEF NextHolds
    <3>1. role[i] = "Leader" /\ loopTerm[i] = term[i]
      BY <1>11, <1>20
    <3>2. RecordShape(b) /\ RecordHeld(b)
      BY DEF SafeInv, HistoryInv, NodeInv, StoredShape, StoredHeld
    <3>3. ledger[term[i]] = log[i]
      BY <3>1 DEF SafeInv, NodeInv, LeadersHold, LeaderHolds
    <3>4. a.matchIndex \in 1..Len(log[i]) /\ log[i][a.matchIndex].term = term[i] /\ Len(log[i]) \in Nat
          /\ term[i] \in Terms
      BY <2>2, <3>1, <3>2, <3>3, LogElements DEF RecordShape, SafeInv
    <3>5. term[i] <= term[j]
      BY <2>2, <3>1, <3>2 DEF RecordHeld
    <3>6. next'[i][j] <= Len(log'[i]) + 1
      BY <1>18, <2>1, <3>4
    <3>7. ASSUME NEW c \in stored, c.node = j, c.term < term[i], a.matchIndex + 1 <= c.index
          PROVE  Lost(c.term, a.matchIndex + 1, term[i])
      <4>1. /\ c.term \in Terms /\ c.index \in 1..Len(ledger[c.term]) /\ c.index \in Nat /\ c.term \in Nat
            /\ Len(ledger[c.term]) \in Nat
        BY LedgerType DEF SafeInv, HistoryInv, StoredShape, RecordShape, TypeOK, HistType
      <4>2. a.matchIndex \in 1..Len(ledger[c.term])
        BY <1>5, <3>4, <3>7, <4>1
      <4>3. ledger[c.term][a.matchIndex].term <= c.term
        BY <4>1, <4>2 DEF SafeInv, HistoryInv, LedgersAgree
      <4>4. a.matchIndex \in 1..a.matchIndex + 1
        BY <1>5, <3>4
      <4>5. ledger[c.term][a.matchIndex] # ledger[term[i]][a.matchIndex]
        <5>1. term[i] \in Nat /\ ledger[term[i]][a.matchIndex].term = term[i]
          BY <1>4, <3>3, <3>4
        <5>2. ledger[c.term][a.matchIndex].term # term[i]
          BY <3>7, <4>1, <4>3, <5>1
        <5> QED  BY <5>1, <5>2
      <4>6. ~Agree(ledger[term[i]], ledger[c.term], a.matchIndex + 1)
        BY <4>4, <4>5 DEF Agree
      <4> QED  BY <1>4, <3>4, <3>7, <4>6 DEF Lost
    <3>8. Floor(i, j, next[i][j])'
      <4>1. match'[i][j] < next'[i][j]
        BY <1>5, <2>1
      <4>2. ~(term'[j] < term'[i])
        BY <1>4, <1>20, <3>5
      <4>3. \A c \in stored' : c.node = j /\ c.term < term'[i] /\ next'[i][j] <= c.index
              => Lost(c.term, next[i][j], term[i])'
        BY <1>18, <1>20, <2>1, <3>7 DEF Lost, Terms
      <4> QED  BY <4>1, <4>2, <4>3 DEF Floor
    <3> QED  BY <1>17, <3>6, <3>8 DEF NextHolds
  <2> QED  BY <2>4, <2>5
<1>21. ASSUME a.term <= loopTerm[i], ~a.success, UNCHANGED <<term, role, phase, match>>,
              next' = [next EXCEPT ![i][j] = BackOff(@)]
       PROVE  NextHolds(i, j)' /\ MatchHolds(i, j)'
  <2>1. MatchHolds(i, j)'
    BY <1>7, <1>9, <1>10, <1>21, QuietMatch
  <2>2. NextHolds(i, j)'
    <3> SUFFICES ASSUME role'[i] = "Leader" PROVE NextHolds(i, j)'
      BY DEF NextHolds
    <3>1. role[i] = "Leader" /\ loopTerm[i] = term[i] /\ next[i][j] <= Len(log[i]) + 1
      BY <1>11, <1>21
    <3>2. Floor(i, j, next[i][j] - 1)
      BY <1>11, <1>21, <3>1
    <3>3. next[i][j] \in Nat /\ next[i][j] > 0 /\ match[i][j] \in Nat
      BY <1>4
    <3>4. next[i][j] > 1
      BY <3>2, <3>3 DEF Floor
    <3>5. next'[i][j] = next[i][j] - 1
      BY <1>4, <1>21, <3>4 DEF BackOff
    <3>6. Floor(i, j, next[i][j])'
      BY <1>18, <1>21, <3>2, <3>5 DEF Floor, Lost, Terms
    <3>7. next'[i][j] <= Len(log'[i]) + 1
      <4>1. Len(log[i]) \in Nat
        BY LogElements DEF SafeInv
      <4> QED  BY <1>18, <3>1, <3>3, <3>5, <4>1
    <3> QED  BY <1>17, <3>6, <3>7 DEF NextHolds
  <2> QED  BY <2>1, <2>2
<1>22. \/ NetQuiet(i, j) /\ next'[i][j] = next[i][j] /\ match'[i][j] = match[i][j]
       \/ SentGood(i, j)' /\ AckHolds(i, j)' /\ NextHolds(i, j)' /\ MatchHolds(i, j)'
  BY <1>3, <1>17, <1>19, <1>20, <1>21
<1>23. \A s, k \in Server :
         \/ NetQuiet(s, k) /\ next'[s][k] = next[s][k] /\ match'[s][k] = match[s][k]
         \/ SentGood(s, k)' /\ AckHolds(s, k)' /\ NextHolds(s, k)' /\ MatchHolds(s, k)'
  BY <1>16, <1>22
<1> QED  BY <1>0, <1>2, <1>6, <1>9, <1>12, <1>13, <1>14, <1>15, <1>23, QuietSafe
----------------------------------------------------------------------------
(* Steps that change a log, a disk, a cursor or the history. *)

\* The node's log and the ledger of its term stay, and it wins no election.
Kept(s) ==
  /\ log'[s] = log[s]
  /\ role'[s] = "Leader" => ledger'[term[s]] = ledger[term[s]]
  /\ \A e \in elected' \ elected : e.node # s

\* The invariant, from its parts: each is kept or proved anew by the step.
LEMMA StepSafe ==
  ASSUME SafeInv, TypeOK', VoteInv', HistoryGrows, LeadershipKept, HistoryInv',
         LogsAgree', LogsStored', StoredHeld', CommitsHold', AppliedHold', CandidatesCover', GapsHold',
         \A a \in stored' \ stored : a.term >= term[a.node],
         \A s \in Server : SnapHolds(s)',
         \A s \in Server :
           (Quiet(s) /\ Kept(s)) \/ (LeaderHolds(s)' /\ PhaseHolds(s)' /\ RoundHolds(s)'),
         \A l, i \in Server : NetQuiet(l, i) \/ (SentGood(l, i)' /\ AckHolds(l, i)'),
         \A i \in Server : \A j \in Peers(i) :
           \/ /\ Quiet(i) /\ Kept(i) /\ NetQuiet(i, j)
              /\ next'[i][j] = next[i][j] /\ match'[i][j] = match[i][j]
           \/ NextHolds(i, j)' /\ MatchHolds(i, j)',
         \A m \in late' : LateGood(m)',
         \A i \in Server : \A a \in appending'[i] : AppendGood(i, a)'
  PROVE  SafeInv'
<1>1. ASSUME NEW s \in Server PROVE LeaderHolds(s)' /\ PhaseHolds(s)' /\ RoundHolds(s)'
  <2>1. /\ LeaderHolds(s) /\ PhaseHolds(s) /\ RoundHolds(s) /\ TypeOK
    BY DEF SafeInv, NodeInv, NetInv, LeadersHold, PhasesHold, PointsHold
  <2> SUFFICES ASSUME Quiet(s), Kept(s) PROVE LeaderHolds(s)' /\ PhaseHolds(s)' /\ RoundHolds(s)'
    OBVIOUS
  <2>2. LeaderHolds(s)'
    <3>1. role'[s] = "Leader" => phase'[s] # "elect" /\ (phase'[s] = "elected" <=> phase[s] = "elected")
      BY <2>1 DEF Quiet, LeaderHolds
    <3> QED  BY <2>1, <3>1, KeepLeader DEF Quiet, Kept
  <2>3. PhaseHolds(s)'
    BY <2>1, KeepPhase DEF Quiet, Kept
  <2>4. RoundHolds(s)'
    BY <2>1, KeepRound DEF Quiet
  <2> QED  BY <2>2, <2>3, <2>4
<1>2. ASSUME NEW l \in Server, NEW i \in Server PROVE SentGood(l, i)' /\ AckHolds(l, i)'
  BY QuietNet
<1>3. ASSUME NEW i \in Server, NEW j \in Peers(i) PROVE NextHolds(i, j)' /\ MatchHolds(i, j)'
  <2> SUFFICES ASSUME Quiet(i), Kept(i), NetQuiet(i, j),
                      next'[i][j] = next[i][j], match'[i][j] = match[i][j]
               PROVE  NextHolds(i, j)' /\ MatchHolds(i, j)'
    OBVIOUS
  <2>1. MatchHolds(i, j)'
    BY QuietMatch
  <2>2. NextHolds(i, j) /\ TypeOK /\ HistoryInv /\ Len(log[i]) \in Nat
    BY LogElements DEF SafeInv, NetInv, NextHold
  <2>3. role'[i] = "Leader" /\ phase'[i] # "elected" =>
           /\ role[i] = "Leader" /\ phase[i] # "elected" /\ term'[i] = term[i]
           /\ Len(log[i]) <= Len(log'[i])
           /\ \A k \in 1..Len(log[i]) : log'[i][k] = log[i][k]
           /\ \A k \in Len(log[i]) + 1..Len(log'[i]) : log'[i][k].term = term[i]
           /\ match'[i][j] = match[i][j] /\ next'[i][j] = next[i][j]
           /\ \/ exch'[i][j] = exch[i][j] \/ exch'[i][j].st = "idle"
              \/ /\ exch[i][j].st = "sent" /\ exch'[i][j].st = "handling"
                 /\ exch'[i][j].req = exch[i][j].req
    BY <2>2 DEF Quiet, Kept, NetQuiet
  <2>4. NextHolds(i, j)'
    BY <1>1, <2>2, <2>3, KeepNext
  <2> QED  BY <2>1, <2>4
<1>4. NodeInv'
  BY <1>1 DEF NodeInv, LeadersHold, PhasesHold
<1>5. NetInv'
  BY <1>1, <1>2, <1>3 DEF NetInv, RequestsGood, MatchesHold, AcksHold, NextHold, PointsHold
<1> QED  BY <1>4, <1>5 DEF SafeInv

\* Ledgers that grow only with entries of their own terms still agree.
LEMMA KeepLedgers ==
  ASSUME TypeOK, TypeOK', HistoryGrows, LedgersAgree, Terms' = Terms
  PROVE  LedgersAgree'
<1> SUFFICES ASSUME NEW t \in Terms, NEW k \in 1..Len(ledger'[t])
             PROVE  /\ ledger'[t][k].term \in Terms /\ ledger'[t][k].term <= t
                    /\ Agree(ledger'[t], ledger'[ledger'[t][k].term], k)
  BY DEF LedgersAgree
<1>1. /\ t \in Nat /\ Len(ledger[t]) \in Nat /\ Len(ledger'[t]) \in Nat
      /\ Len(ledger[t]) <= Len(ledger'[t])
      /\ \A n \in 1..Len(ledger[t]) : ledger'[t][n] = ledger[t][n]
      /\ \A n \in Len(ledger[t]) + 1..Len(ledger'[t]) : ledger'[t][n].term = t
  BY GrowLedger
<1>2. CASE k <= Len(ledger[t])
  <2>1. PICK w : w = ledger[t][k].term
    OBVIOUS
  <2>2. k \in 1..Len(ledger[t]) /\ k \in Nat /\ ledger'[t][k].term = w
    BY <1>1, <1>2, <2>1
  <2>3. w \in Terms /\ w <= t /\ Agree(ledger[t], ledger[w], k)
    BY <2>1, <2>2 DEF LedgersAgree
  <2>4. Agree(ledger'[t], ledger'[w], k)
    BY <2>2, <2>3, GrowAgreeBoth
  <2> QED  BY <2>2, <2>3, <2>4
<1>3. CASE k > Len(ledger[t])
  <2>1. ledger'[t][k].term = t /\ k <= Len(ledger'[t])
    BY <1>1, <1>3
  <2> QED  BY <1>1, <2>1 DEF Agree
<1> QED  BY <1>1, <1>2, <1>3

\* What is chosen up to n is chosen up to any k before n.
LEMMA ChosenShorter ==
  ASSUME TypeOK, NEW t, NEW n \in Nat, NEW k \in Nat, k <= n, Chosen(t, n)
  PROVE  Chosen(t, k)
<1> DEFINE Q == {s \in Server : HasStored(t, s, n)}
           R == {s \in Server : HasStored(t, s, k)}
<1>1. \A a \in stored : a.index \in Nat
  BY DEF TypeOK, HistType
<1>2. ASSUME NEW s, HasStored(t, s, n) PROVE HasStored(t, s, k)
  BY <1>1, <1>2 DEF HasStored
<1>3. Q \in SUBSET Server /\ R \in SUBSET Server /\ Q \subseteq R /\ IsMajority(Q)
  BY <1>2 DEF Chosen
<1> QED  BY <1>3, MoreIsMajority DEF Chosen

\* A crash: what the node has stored and committed is on its disk.
LEMMA CrashSafe ==
  ASSUME Races = {}, SafeInv, TypeOK', VoteInv', NEW i \in Server, Crash(i)
  PROVE  SafeInv'
<1>0. \A s \in Server : proposing[s] = {} /\ phase[s] # "elected" /\ appending[s] = {} /\ todo[s] = {}
  BY FreeMeans DEF Crash
<1>1. /\ UNCHANGED <<term, persisted, snap, next, match, loopTerm, compactTo, roundCommit, ballots>>
      /\ UNCHANGED <<elected, applied, ledger, stored>>
      /\ role' = [role EXCEPT ![i] = "Follower"]
      /\ log' = [log EXCEPT ![i] = SubSeq(@, 1, persisted[i])]
      /\ commitIndex' = [commitIndex EXCEPT ![i] = snap[i]]
      /\ lastApplied' = [lastApplied EXCEPT ![i] = snap[i]]
      /\ phase' = [phase EXCEPT ![i] = "idle"]
      /\ votes' = [votes EXCEPT ![i] = {}]
  BY DEF Crash, leadVars, histVars
<1>2. /\ todo' = [todo EXCEPT ![i] = {}]
      /\ proposing' = [proposing EXCEPT ![i] = {}]
      /\ appending' = [appending EXCEPT ![i] = {}]
      /\ late' = Leftover(i, Peers(i))
      /\ exch' = [exch EXCEPT ![i] = [j \in Server |-> NoExchange]]
  BY DEF Crash
<1>3. /\ term \in [Server -> Nat] /\ role \in [Server -> {"Follower", "Candidate", "Leader"}]
      /\ log \in [Server -> Seq(Entry)] /\ persisted \in [Server -> Nat] /\ snap \in [Server -> Nat]
      /\ commitIndex \in [Server -> Nat] /\ lastApplied \in [Server -> Nat]
      /\ phase \in [Server -> {"idle", "elect", "elected", "round"}]
      /\ votes \in [Server -> SUBSET VoteReply] /\ match \in [Server -> [Server -> Nat]]
  BY DEF SafeInv, TypeOK, StateType, LogType, CursorType, LoopType, LeadType
<1>4. /\ todo \in [Server -> SUBSET Server]
      /\ proposing \in [Server -> SUBSET [term : Nat, val : Value]]
      /\ appending \in [Server -> SUBSET [from : Server, req : Request]]
      /\ exch \in [Server -> [Server -> Exchange]]
  BY DEF SafeInv, TypeOK, RoundType, TaskType, NetType
<1>5. TypeOK /\ VoteInv /\ HistoryInv
  BY DEF SafeInv
<1>6. HistoryGrows /\ HistoryInv'
  <2>1. \A t \in Terms : Len(ledger[t]) \in Nat
    BY <1>5, LedgerType
  <2>2. HistoryGrows
    BY <1>1, <1>3, <2>1 DEF HistoryGrows, Terms
  <2>3. HistoryInv'
    BY <1>1 DEF SafeInv, HistoryInv, LedgersAgree, StoredShape, VotersCovered, RecordShape, VoterCovered,
                LeaderStored, HasStored, Terms
  <2> QED  BY <2>2, <2>3
<1>7. /\ Len(log'[i]) = persisted[i] /\ persisted[i] <= Len(log[i]) /\ Len(log[i]) \in Nat
      /\ \A k \in 1..persisted[i] : log'[i][k] = log[i][k]
  <2>1. log[i] \in Seq(Entry) /\ persisted[i] \in Nat /\ persisted[i] <= Len(log[i]) /\ Len(log[i]) \in Nat
    BY <1>5, LogElements
  <2>2. log'[i] = SubSeq(log[i], 1, persisted[i])
    BY <1>1, <1>3
  <2>3. 1 \in 1..Len(log[i]) + 1 /\ persisted[i] \in 1 - 1 .. Len(log[i])
    BY <2>1
  <2>4. /\ Len(SubSeq(log[i], 1, persisted[i])) = persisted[i] - 1 + 1
        /\ \A k \in 1..persisted[i] - 1 + 1 : SubSeq(log[i], 1, persisted[i])[k] = log[i][1 + k - 1]
    BY <2>1, <2>3, SubSeqProperties
  <2>5. persisted[i] - 1 + 1 = persisted[i] /\ \A k \in 1..persisted[i] : 1 + k - 1 = k
    BY <2>1
  <2> QED  BY <2>1, <2>2, <2>4, <2>5
<1>8. \A s \in Server \ {i} : log'[s] = log[s] /\ commitIndex'[s] = commitIndex[s]
                              /\ lastApplied'[s] = lastApplied[s]
  BY <1>1, <1>3
<1>9. LeadershipKept
  BY <1>1, <1>3 DEF LeadershipKept, Peers
<1>10. LogsAgree' /\ LogsStored'
  <2>1. ASSUME NEW s \in Server PROVE LogAgrees(s)' /\ LogStored(s)'
    <3>1. LogAgrees(s) /\ LogStored(s) /\ Len(log[s]) \in Nat
      BY <1>5, LogElements DEF SafeInv, NodeInv, LogsAgree, LogsStored
    <3>2. Len(log'[s]) <= Len(log[s]) /\ \A k \in 1..Len(log'[s]) : log'[s][k] = log[s][k]
      <4>1. CASE s = i
        BY <1>7, <4>1
      <4>2. CASE s # i
        BY <1>8, <3>1, <4>2
      <4> QED  BY <4>1, <4>2
    <3> QED  BY <1>5, <1>6, <3>1, <3>2, KeepLog
  <2> QED  BY <2>1 DEF LogsAgree, LogsStored
<1>11. StoredHeld'
  <2>1. ASSUME NEW a \in stored PROVE RecordHeld(a)'
    <3>1. RecordShape(a) /\ RecordHeld(a) /\ a.node \in Server
      BY <1>5 DEF SafeInv, HistoryInv, NodeInv, StoredShape, StoredHeld, TypeOK, HistType
    <3>2. persisted'[a.node] = persisted[a.node] /\ \A k \in 1..persisted[a.node] : log'[a.node][k] = log[a.node][k]
      BY <1>1, <1>7, <1>8, <3>1
    <3> QED  BY <1>5, <1>6, <3>1, <3>2, KeepHeld
  <2> QED  BY <1>1, <2>1 DEF StoredHeld
<1>12. CommitsHold'
  <2>1. ASSUME NEW s \in Server, s # i PROVE CommitHolds(s)'
    <3>1. CommitHolds(s) /\ persisted[s] <= persisted'[s]
      BY <1>1, <1>3 DEF SafeInv, NodeInv, CommitsHold
    <3> QED  BY <1>1, <1>5, <1>6, <1>8, <2>1, <3>1, KeepCommit
  <2>2. CommitHolds(i)'
    <3>0. commitIndex'[i] = snap[i] /\ lastApplied'[i] = snap[i] /\ snap'[i] = snap[i]
          /\ snap[i] \in Nat /\ commitIndex[i] \in Nat /\ lastApplied[i] \in Nat /\ persisted[i] \in Nat
      BY <1>1, <1>3
    <3>1. CommitHolds(i)
      BY DEF SafeInv, NodeInv, CommitsHold
    <3>2. snap[i] <= commitIndex[i] /\ snap[i] <= persisted[i]
      BY <3>0, <3>1 DEF CommitHolds
    <3>3. CASE snap[i] = 0
      BY <1>1, <3>0, <3>3 DEF CommitHolds
    <3>4. CASE snap[i] # 0
      <4>1. PICK t \in Terms : /\ t <= term[i] /\ Chosen(t, commitIndex[i])
                               /\ Agree(log[i], ledger[t], commitIndex[i])
        BY <3>0, <3>1, <3>2, <3>4 DEF CommitHolds
      <4>2. PICK n \in Nat : n = snap[i]
        BY <3>0
      <4>3. Chosen(t, n)
        BY <1>5, <3>0, <3>2, <4>1, <4>2, ChosenShorter
      <4>4. Chosen(t, n)' /\ t \in Terms'
        BY <1>6, <4>3, GrowChosen DEF HistoryGrows
      <4>5. Chosen(t, commitIndex[i])'
        BY <3>0, <4>2, <4>4 DEF Chosen, HasStored
      <4>6. Len(ledger[t]) \in Nat
        BY <1>5, LedgerType
      <4>7. Agree(log'[i], ledger[t], snap[i])
        BY <1>7, <3>0, <3>2, <4>1, <4>6 DEF Agree
      <4> QED  BY <1>1, <3>0, <3>2, <4>1, <4>4, <4>5, <4>7 DEF CommitHolds
    <3> QED  BY <3>3, <3>4
  <2> QED  BY <2>1, <2>2 DEF CommitsHold
<1>13. AppliedHold'
  <2>1. ASSUME NEW a \in applied PROVE AppliedHolds(a)'
    BY <1>5, <1>6, KeepApplied DEF SafeInv, HistoryInv, NodeInv, AppliedHold
  <2> QED  BY <1>1, <2>1 DEF AppliedHold
<1>14. CandidatesCover'
  <2>1. ASSUME NEW c \in Server PROVE CandidateCovers(c)'
    <3>1. Standing(c)' => /\ Standing(c) /\ log'[c] = log[c]
                          /\ loopTerm'[c] = loopTerm[c] /\ votes'[c] = votes[c]
      BY <1>1, <1>3 DEF Standing
    <3>2. CandidateCovers(c) /\ StoredShape
      BY DEF SafeInv, NodeInv, HistoryInv, CandidatesCover
    <3> QED  BY <1>1, <1>5, <1>6, <3>1, <3>2, KeepCandidate
  <2> QED  BY <1>1, <2>1 DEF SafeInv, NodeInv, CandidatesCover
<1>15. (\A s \in Server : proposing'[s] = {} /\ todo'[s] = {} /\ appending'[s] = {}) /\ GapsHold'
  <2>1. \A s \in Server : proposing'[s] = {} /\ todo'[s] = {} /\ appending'[s] = {}
    BY <1>0, <1>2, <1>4
  <2> QED  BY <2>1, NoGaps
<1>16. \A s \in Server : SnapHolds(s)'
  BY <1>1, <1>5, <1>6, <1>9, KeepSnap DEF SafeInv, NetInv, PointsHold
<1>17. \A l, s \in Server : NetQuiet(l, s)
  BY <1>2, <1>4 DEF NetQuiet, NoExchange
<1>18. ASSUME NEW s \in Server, s # i PROVE Quiet(s) /\ Kept(s)
  <2>1. \A j \in Server : exch'[s][j] = exch[s][j]
    BY <1>2, <1>4, <1>18
  <2> QED  BY <1>0, <1>1, <1>3, <1>8, <1>18, <2>1 DEF Quiet, Kept
<1>19. /\ LeaderHolds(i)' /\ PhaseHolds(i)' /\ RoundHolds(i)'
       /\ \A j \in Peers(i) : NextHolds(i, j)' /\ MatchHolds(i, j)'
  <2>1. role'[i] = "Follower" /\ phase'[i] = "idle"
    BY <1>1, <1>3
  <2> QED  BY <2>1 DEF LeaderHolds, PhaseHolds, RoundHolds, NextHolds, MatchHolds
<1>20. \A m \in late' : LateGood(m)'
  <2>1. Peers(i) \in SUBSET Server
    BY DEF Peers
  <2> QED  BY <1>2, <1>6, <1>9, <2>1, QuietLate
<1>21. \A s \in Server : (Quiet(s) /\ Kept(s)) \/ (LeaderHolds(s)' /\ PhaseHolds(s)' /\ RoundHolds(s)')
  BY <1>18, <1>19
<1>22. \A s \in Server : \A j \in Peers(s) :
           \/ /\ Quiet(s) /\ Kept(s) /\ NetQuiet(s, j)
              /\ next'[s][j] = next[s][j] /\ match'[s][j] = match[s][j]
           \/ NextHolds(s, j)' /\ MatchHolds(s, j)'
  BY <1>1, <1>17, <1>18, <1>19 DEF Peers
<1>23. \A s \in Server : \A a \in appending'[s] : AppendGood(s, a)'
  BY <1>15
<1>24. \A a \in stored' \ stored : a.term >= term[a.node]
  BY <1>1
<1> QED  BY <1>6, <1>9, <1>10, <1>11, <1>12, <1>13, <1>14, <1>15, <1>16, <1>17, <1>20, <1>21, <1>22, <1>23,
            <1>24, StepSafe

\* A log that a step leaves alone, on every node.
LEMMA DiskSame ==
  ASSUME SafeInv, TypeOK', HistoryGrows, HistoryInv', UNCHANGED <<log, persisted, snap, commitIndex, lastApplied, applied, stored>>
  PROVE  LogsAgree' /\ LogsStored' /\ StoredHeld' /\ CommitsHold' /\ AppliedHold'
<1>0. TypeOK /\ VoteInv /\ HistoryInv
  BY DEF SafeInv
<1>1. ASSUME NEW s \in Server PROVE LogAgrees(s)' /\ LogStored(s)'
  <2>1. LogAgrees(s) /\ LogStored(s) /\ Len(log[s]) \in Nat
    BY <1>0, LogElements DEF SafeInv, NodeInv, LogsAgree, LogsStored
  <2>2. Len(log'[s]) <= Len(log[s]) /\ \A k \in 1..Len(log'[s]) : log'[s][k] = log[s][k]
    BY <2>1
  <2> QED  BY <1>0, <2>1, <2>2, KeepLog
<1>2. ASSUME NEW a \in stored PROVE RecordHeld(a)'
  BY <1>0, KeepHeld DEF SafeInv, HistoryInv, NodeInv, StoredShape, StoredHeld
<1>3. ASSUME NEW s \in Server PROVE CommitHolds(s)'
  <2>1. CommitHolds(s) /\ persisted[s] \in Nat
    BY DEF SafeInv, NodeInv, CommitsHold, TypeOK, LogType
  <2>2. persisted[s] <= persisted'[s]
    BY <2>1
  <2> QED  BY <1>0, <2>1, <2>2, KeepCommit
<1>4. ASSUME NEW a \in applied PROVE AppliedHolds(a)'
  BY <1>0, KeepApplied DEF SafeInv, HistoryInv, NodeInv, AppliedHold
<1> QED  BY <1>1, <1>2, <1>3, <1>4 DEF LogsAgree, LogsStored, StoredHeld, CommitsHold, AppliedHold

\* An election lost, or given up for a later term.
LEMMA TallyLostSafe ==
  ASSUME Races = {}, SafeInv, TypeOK', VoteInv', NEW i \in Server, Tally(i), elected' = elected, ledger' = ledger,
         role'[i] # "Leader" \/ role'[i] = role[i], phase'[i] = "idle"
  PROVE  SafeInv'
<1>0. \A s \in Server : proposing[s] = {} /\ phase[s] # "elected" /\ appending[s] = {} /\ todo[s] = {}
  BY FreeMeans DEF Tally
<1>1. /\ UNCHANGED <<next, match, loopTerm, compactTo, roundCommit, todo, proposing, appending>>
      /\ UNCHANGED <<exch, late, ballots>>
      /\ votes' = [votes EXCEPT ![i] = {}] /\ phase[i] = "elect"
  BY DEF Tally, leadVars, taskVars, netVars
<1>2. \/ \E n \in {r.term : r \in votes[i]} :
            n > term[i] /\ term' = [term EXCEPT ![i] = n] /\ role' = [role EXCEPT ![i] = "Follower"]
            /\ phase' = [phase EXCEPT ![i] = "idle"]
      \/ term' = term /\ (\E x : role' = [role EXCEPT ![i] = x]) /\ (\E x : phase' = [phase EXCEPT ![i] = x])
  BY DEF Tally
<1>3. /\ term \in [Server -> Nat] /\ role \in [Server -> {"Follower", "Candidate", "Leader"}]
      /\ phase \in [Server -> {"idle", "elect", "elected", "round"}]
      /\ votes \in [Server -> SUBSET VoteReply]
  BY DEF SafeInv, TypeOK, StateType, LoopType
<1>4. \A n \in {r.term : r \in votes[i]} : n \in Nat
  BY <1>3 DEF VoteReply
<1>5. role[i] # "Leader"
  BY <1>1 DEF SafeInv, NodeInv, LeadersHold, LeaderHolds
<1>6. phase'[i] = "idle"
  OBVIOUS
<1>7. DataSame
  <2>1. \A s \in Server : term[s] <= term'[s]
    <3>1. CASE term' = term
      BY <1>3, <3>1
    <3>2. CASE \E n \in {r.term : r \in votes[i]} : n > term[i] /\ term' = [term EXCEPT ![i] = n]
      BY <1>3, <1>4, <3>2
    <3> QED  BY <1>2, <3>1, <3>2
  <2> QED  BY <2>1 DEF Tally, DataSame, logVars, diskVars, cursorVars
<1>8. \A s \in Server \ {i} : role'[s] = role[s] /\ term'[s] = term[s] /\ phase'[s] = phase[s]
                              /\ votes'[s] = votes[s]
  BY <1>1, <1>2, <1>3
<1>9. \A s \in Server : Quiet(s)
  BY <1>0, <1>1, <1>5, <1>6, <1>8 DEF Quiet
<1>10. LeadershipKept
  BY <1>1, <1>9, QuietLeadership DEF SafeInv
<1>11. CandidatesCover'
  <2>1. \A c \in Server : Standing(c)' => Standing(c) /\ votes'[c] = votes[c]
    BY <1>1, <1>6, <1>8 DEF Standing
  <2> QED  BY <1>1, <1>7, <2>1, QuietCandidates
<1>12. GapsHold'
  BY <1>0, <1>1, NoGaps
<1>13. \A n \in late' : LateGood(n)'
  BY <1>1, <1>7, <1>10, QuietData, QuietLate
<1>14. \A l, s \in Server : NetQuiet(l, s) /\ next'[l][s] = next[l][s] /\ match'[l][s] = match[l][s]
  BY <1>1 DEF NetQuiet
<1> QED  BY <1>0, <1>1, <1>7, <1>9, <1>10, <1>11, <1>12, <1>13, <1>14, QuietSafe

\* An election won: nobody has led the term, and the voters' records are covered.
LEMMA TallyWonSafe ==
  ASSUME Races = {}, SafeInv, TypeOK', VoteInv', NEW i \in Server, Tally(i),
         role[i] = "Candidate", term[i] = loopTerm[i], IsMajority(Granted(i)),
         role' = [role EXCEPT ![i] = "Leader"], phase' = [phase EXCEPT ![i] = "elected"],
         elected' = elected \cup {[term |-> term[i], node |-> i, voters |-> Granted(i)]},
         ledger' = [t \in DOMAIN ledger \cup {term[i]} |-> IF t = term[i] THEN log[i] ELSE ledger[t]],
         UNCHANGED <<term, votedFor>>
  PROVE  SafeInv'
<1>0. \A s \in Server : proposing[s] = {} /\ phase[s] # "elected" /\ appending[s] = {} /\ todo[s] = {}
  BY FreeMeans DEF Tally
<1>1. /\ UNCHANGED <<log, persisted, snap, commitIndex, lastApplied, applied, stored>>
      /\ UNCHANGED <<next, match, loopTerm, compactTo, roundCommit, todo, proposing, appending>>
      /\ UNCHANGED <<exch, late, ballots>>
      /\ votes' = [votes EXCEPT ![i] = {}] /\ phase[i] = "elect"
  BY DEF Tally, leadVars, taskVars, netVars, logVars, diskVars, cursorVars
<1>2. PICK T, e : T = term[i] /\ e = [term |-> term[i], node |-> i, voters |-> Granted(i)]
  OBVIOUS
<1>3. e.term = T /\ e.node = i /\ e.voters = Granted(i) /\ elected' = elected \cup {e}
  BY <1>2
<1>4. /\ term \in [Server -> Nat] /\ role \in [Server -> {"Follower", "Candidate", "Leader"}]
      /\ phase \in [Server -> {"idle", "elect", "elected", "round"}] /\ T \in Nat
      /\ votes \in [Server -> SUBSET VoteReply] /\ match \in [Server -> [Server -> Nat]]
  BY <1>2 DEF SafeInv, TypeOK, StateType, LoopType, LeadType
<1>5. TypeOK /\ VoteInv /\ HistoryInv /\ LedgersAgree /\ StoredShape /\ VotersCovered
  BY DEF SafeInv, HistoryInv
<1>6. T \notin Terms
  <2> SUFFICES ASSUME T \in Terms PROVE FALSE
    OBVIOUS
  <2>1. PICK f \in elected : f.term = T
    BY <1>5, TermsAreWon
  <2>2. ~WonBy(T, i)
    BY <1>1, <1>2 DEF SafeInv, NodeInv, PhasesHold, PhaseHolds
  <2>3. f.node # i
    BY <2>1, <2>2 DEF WonBy
  <2>4. f.voters \cap Granted(i) = {}
    BY <1>1, <1>2, <1>5, <2>1, <2>3 DEF VoteInv, WinsExclude
  <2>5. f.voters \in SUBSET Server /\ IsMajority(f.voters) /\ Granted(i) \in SUBSET Server
    BY <1>5 DEF TypeOK, HistType, LoopType, VoteReply, Granted, VoteInv, WinsBind
  <2> QED  BY <2>4, <2>5, MajoritiesMeet
<1>7. Terms' = Terms \cup {T} /\ ledger'[T] = log[i] /\ \A t \in Terms : ledger'[t] = ledger[t] /\ t # T
  BY <1>2, <1>6 DEF Terms
<1>8. HistoryGrows
  <2>1. \A t \in Terms : Len(ledger[t]) \in Nat
    BY <1>5, LedgerType
  <2>2. elected \subseteq elected' /\ stored \subseteq stored'
    BY <1>1, <1>3
  <2>3. ASSUME NEW t \in Terms PROVE ledger'[t] = ledger[t] /\ t \in Terms'
    BY <1>7
  <2>4. \A s \in Server : term[s] <= term'[s]
    BY <1>4
  <2>5. ASSUME NEW t \in Terms
        PROVE  /\ t \in Terms' /\ Len(ledger[t]) <= Len(ledger'[t])
               /\ \A k \in 1..Len(ledger[t]) : ledger'[t][k] = ledger[t][k]
               /\ \A k \in Len(ledger[t]) + 1 .. Len(ledger'[t]) : ledger'[t][k].term = t
    <3>1. PICK n \in Nat : n = Len(ledger[t])
      BY <2>1
    <3>2. n <= n /\ (n + 1)..n = {}
      BY <3>1
    <3>3. ledger'[t] = ledger[t] /\ t \in Terms' /\ Len(ledger'[t]) = n
      BY <2>3, <3>1
    <3> QED  BY <3>1, <3>2, <3>3
  <2> QED  BY <2>2, <2>4, <2>5 DEF HistoryGrows
<1>9. \A a \in stored : a.term # T /\ a.term \in Terms
  BY <1>5, <1>6 DEF StoredShape, RecordShape
<1>10. LeadershipKept
  <2>1. \A s \in Server : role'[s] = "Leader" => s = i \/ role[s] = "Leader"
    BY <1>4
  <2> QED  BY <1>1, <1>2, <1>4, <1>9, <2>1 DEF LeadershipKept, Peers
<1>11. ASSUME NEW k \in 1..Len(log[i])
       PROVE  log[i][k].term \in Terms /\ log[i][k].term < T /\ Agree(log[i], ledger[log[i][k].term], k)
  <2>1. /\ log[i][k].term \in Terms /\ log[i][k].term <= T
        /\ Agree(log[i], ledger[log[i][k].term], k)
    BY <1>2 DEF SafeInv, NodeInv, LogsAgree, LogAgrees
  <2>2. log[i][k].term \in Nat
    BY <1>5, LogElements
  <2> QED  BY <1>4, <1>6, <2>1, <2>2
<1>12. HistoryInv'
  <2>1. LedgersAgree'
    <3> SUFFICES ASSUME NEW t \in Terms', NEW k \in 1..Len(ledger'[t])
                 PROVE  /\ ledger'[t][k].term \in Terms' /\ ledger'[t][k].term <= t
                        /\ Agree(ledger'[t], ledger'[ledger'[t][k].term], k)
      BY DEF LedgersAgree
    <3>1. CASE t \in Terms
      <4>1. /\ ledger[t][k].term \in Terms /\ ledger[t][k].term <= t
            /\ Agree(ledger[t], ledger[ledger[t][k].term], k)
        BY <1>5, <1>7, <3>1 DEF LedgersAgree
      <4>2. PICK w : w = ledger[t][k].term
        OBVIOUS
      <4>3. ledger'[t] = ledger[t] /\ ledger'[w] = ledger[w] /\ w \in Terms' /\ w <= t
            /\ Agree(ledger[t], ledger[w], k)
        BY <1>7, <3>1, <4>1, <4>2
      <4>4. ledger'[t][k].term = w
        BY <4>2, <4>3
      <4> QED  BY <4>3, <4>4
    <3>2. CASE t = T
      <4>1. /\ log[i][k].term \in Terms /\ log[i][k].term < T /\ Agree(log[i], ledger[log[i][k].term], k)
        BY <1>7, <1>11, <3>2
      <4>2. log[i][k].term \in Nat
        BY <1>5, <4>1, LedgerType
      <4>3. PICK w : w = log[i][k].term
        OBVIOUS
      <4>4. ledger'[t] = log[i] /\ ledger'[w] = ledger[w] /\ w \in Terms'
            /\ Agree(log[i], ledger[w], k)
        BY <1>7, <3>2, <4>1, <4>3
      <4>5. w <= t
        BY <1>4, <3>2, <4>1, <4>2, <4>3
      <4>6. ledger'[t][k].term = w
        BY <4>3, <4>4
      <4> QED  BY <4>4, <4>5, <4>6
    <3> QED  BY <1>7, <3>1, <3>2
  <2>2. StoredShape'
    BY <1>1, <1>5, <1>8, KeepShape DEF StoredShape
  <2>3. VotersCovered'
    <3>1. ASSUME NEW f \in elected PROVE f.node \in f.voters /\ \A a \in stored' : VoterCovered(f, a)'
      BY <1>1, <1>5, <1>8, KeepVoters
    <3>2. ASSUME NEW a \in stored PROVE VoterCovered(e, a)'
      <4> SUFFICES ASSUME a.node \in Granted(i), a.term < T
                   PROVE  Passed(log[i], a.term, T) \/ Agree(log[i], ledger[a.term], a.index)
        BY <1>3, <1>7, <1>9 DEF VoterCovered
      <4>1. Standing(i) /\ CandidateCovers(i)
        BY <1>1 DEF Standing, SafeInv, NodeInv, CandidatesCover
      <4>2. LastTerm(i) > a.term \/ Agree(log[i], ledger[a.term], a.index)
        BY <1>2, <4>1 DEF CandidateCovers, GrantCovered
      <4>3. ASSUME LastTerm(i) > a.term PROVE Passed(log[i], a.term, T)
        <5>0. a.term \in Nat /\ log[i] \in Seq(Entry) /\ Len(log[i]) \in Nat
          BY <1>5, LogElements DEF TypeOK, HistType
        <5>1. log[i] # << >>
          BY <4>3, <5>0 DEF LastTerm
        <5>2. Len(log[i]) \in 1..Len(log[i])
          BY <5>0, <5>1, EmptySeq
        <5>3. log[i][Len(log[i])].term > a.term
          BY <4>3, <5>1 DEF LastTerm
        <5> QED  BY <1>11, <5>2, <5>3 DEF Passed
      <4> QED  BY <4>2, <4>3
    <3>3. e.node \in e.voters
      BY <1>3 DEF Granted
    <3> QED  BY <1>1, <1>3, <3>1, <3>2, <3>3 DEF VotersCovered
  <2> QED  BY <2>1, <2>2, <2>3 DEF HistoryInv
<1>13. LogsAgree' /\ LogsStored' /\ StoredHeld' /\ CommitsHold' /\ AppliedHold'
  BY <1>1, <1>8, <1>12, DiskSame
<1>14. \A s \in Server \ {i} : role'[s] = role[s] /\ phase'[s] = phase[s] /\ votes'[s] = votes[s]
  BY <1>1, <1>4
<1>15. CandidatesCover'
  <2>1. ASSUME NEW c \in Server PROVE CandidateCovers(c)'
    <3>1. Standing(c)' => Standing(c) /\ votes'[c] = votes[c]
      BY <1>1, <1>4, <1>14 DEF Standing
    <3>2. CandidateCovers(c)
      BY DEF SafeInv, NodeInv, CandidatesCover
    <3> QED  BY <1>1, <1>5, <1>8, <3>1, <3>2, KeepCandidate
  <2> QED  BY <1>1, <2>1 DEF SafeInv, NodeInv, CandidatesCover
<1>16. GapsHold'
  BY <1>0, <1>1, NoGaps
<1>17. \A s \in Server : SnapHolds(s)'
  BY <1>1, <1>5, <1>8, <1>10, KeepSnap DEF SafeInv, NetInv, PointsHold
<1>18. ASSUME NEW s \in Server, s # i PROVE Quiet(s) /\ Kept(s)
  <2>1. role'[s] = "Leader" => term[s] \in Terms
    BY <1>5, <1>14, <1>18, TermsAreWon DEF SafeInv, NodeInv, LeadersHold, LeaderHolds
  <2>2. Kept(s)
    BY <1>1, <1>3, <1>7, <1>18, <2>1 DEF Kept
  <2> QED  BY <1>0, <1>1, <1>14, <1>18, <2>2 DEF Quiet
<1>19. phase'[i] = "elected" /\ role'[i] = "Leader"
  BY <1>4
<1>20. LeaderHolds(i)' /\ PhaseHolds(i)' /\ RoundHolds(i)'
  <2>1. WonBy(term[i], i)'
    BY <1>2, <1>3 DEF WonBy
  <2>2. LeaderHolds(i)'
    BY <1>1, <1>2, <1>7, <1>11, <1>19, <2>1 DEF LeaderHolds
  <2>3. PhaseHolds(i)' /\ RoundHolds(i)'
    BY <1>1, <1>19 DEF PhaseHolds, RoundHolds, SafeInv, NodeInv, PhasesHold
  <2> QED  BY <2>2, <2>3
<1>21. \A j \in Peers(i) : NextHolds(i, j)' /\ MatchHolds(i, j)'
  BY <1>19 DEF NextHolds, MatchHolds
<1>22. \A l, s \in Server : NetQuiet(l, s)
  BY <1>1 DEF NetQuiet
<1>23. \A m \in late' : LateGood(m)'
  BY <1>1, <1>8, <1>10, QuietLate
<1>24. \A s \in Server : (Quiet(s) /\ Kept(s)) \/ (LeaderHolds(s)' /\ PhaseHolds(s)' /\ RoundHolds(s)')
  BY <1>18, <1>20
<1>25. \A s \in Server : \A j \in Peers(s) :
           \/ /\ Quiet(s) /\ Kept(s) /\ NetQuiet(s, j)
              /\ next'[s][j] = next[s][j] /\ match'[s][j] = match[s][j]
           \/ NextHolds(s, j)' /\ MatchHolds(s, j)'
  BY <1>1, <1>18, <1>21, <1>22 DEF Peers
<1>26. \A s \in Server : \A a \in appending'[s] : AppendGood(s, a)'
  BY <1>0, <1>1
<1>27. \A a \in stored' \ stored : a.term >= term[a.node]
  BY <1>1
<1> QED  BY <1>8, <1>10, <1>12, <1>13, <1>15, <1>16, <1>17, <1>22, <1>23, <1>24, <1>25, <1>26, <1>27, StepSafe

\* start_election after its calls.
LEMMA TallySafe ==
  ASSUME Races = {}, SafeInv, TypeOK', VoteInv', NEW i \in Server, Tally(i)
  PROVE  SafeInv'
<1> DEFINE won == role[i] = "Candidate" /\ term[i] = loopTerm[i] /\ IsMajority(Granted(i))
<1>1. role \in [Server -> {"Follower", "Candidate", "Leader"}] /\ DOMAIN phase = Server
  BY DEF SafeInv, TypeOK, StateType, LoopType
<1>2. CASE /\ role' = [role EXCEPT ![i] = "Follower"] /\ UNCHANGED <<elected, ledger>>
           /\ phase' = [phase EXCEPT ![i] = "idle"]
  <2>1. role'[i] # "Leader" /\ phase'[i] = "idle"
    BY <1>1, <1>2
  <2> QED  BY <1>2, <2>1, TallyLostSafe
<1>3. CASE /\ role' = [role EXCEPT ![i] = IF won THEN "Leader" ELSE @]
           /\ phase' = [phase EXCEPT ![i] = IF won THEN "elected" ELSE "idle"]
           /\ elected' = IF won
                         THEN elected \cup {[term |-> term[i], node |-> i, voters |-> Granted(i)]}
                         ELSE elected
           /\ ledger' = IF won
                        THEN [t \in DOMAIN ledger \cup {term[i]} |->
                                IF t = term[i] THEN log[i] ELSE ledger[t]]
                        ELSE ledger
           /\ UNCHANGED <<term, votedFor>>
  <2>1. CASE won
    BY <1>3, <2>1, TallyWonSafe
  <2>2. CASE ~won
    <3>1. role'[i] = role[i] /\ phase'[i] = "idle"
      BY <1>1, <1>3, <2>2
    <3> QED  BY <1>3, <2>2, <3>1, TallyLostSafe
  <2> QED  BY <2>1, <2>2
<1> QED  BY <1>2, <1>3, Zenon DEF Tally
----------------------------------------------------------------------------
(* A leader appends to its log, and so to the ledger of its term. *)

\* A leader appends x to its log, and so to the ledger of its term T.
LeaderAppended(i, T, x) ==
  /\ log' = [log EXCEPT ![i] = Append(@, x)]
  /\ ledger' = [ledger EXCEPT ![T] = Append(@, x)]
  /\ UNCHANGED <<term, elected, stored, persisted, applied, snap, commitIndex, lastApplied>>

\* The log and the ledger are one longer, and still the same.
LEMMA AppendedLedger ==
  ASSUME SafeInv, NEW i \in Server, NEW T, NEW x \in Entry, role[i] = "Leader",
         T = term[i], x.term = T, LeaderAppended(i, T, x)
  PROVE  /\ T \in Nat /\ T \in Terms /\ WonBy(T, i) /\ Terms' = Terms /\ ledger'[T] = log'[i]
         /\ ledger[T] = log[i]
         /\ \A t \in Terms : t # T => ledger'[t] = ledger[t]
         /\ Len(log[i]) \in Nat /\ Len(log'[i]) = Len(log[i]) + 1
         /\ \A k \in 1..Len(log[i]) : log'[i][k] = log[i][k]
         /\ log'[i][Len(log[i]) + 1] = x
         /\ \A s \in Server : s # i => log'[s] = log[s]
<1>1. TypeOK /\ LeaderHolds(i)
  BY DEF SafeInv, NodeInv, LeadersHold
<1>2. T \in Nat /\ WonBy(T, i) /\ ledger[T] = log[i] /\ DOMAIN log = Server
  BY <1>1 DEF LeaderHolds, TypeOK, StateType, LogType
<1>3. T \in Terms
  BY <1>1, <1>2, TermsAreWon
<1>4. log'[i] = Append(log[i], x) /\ \A s \in Server : s # i => log'[s] = log[s]
  BY <1>2 DEF LeaderAppended
<1>5. Terms' = Terms /\ ledger'[T] = Append(ledger[T], x) /\ \A t \in Terms : t # T => ledger'[t] = ledger[t]
  BY <1>3 DEF Terms, LeaderAppended
<1>6. log[i] \in Seq(Entry) /\ Len(log[i]) \in Nat
  BY <1>1, LogElements
<1>7. /\ Len(Append(log[i], x)) = Len(log[i]) + 1
      /\ \A k \in 1..Len(log[i]) : Append(log[i], x)[k] = log[i][k]
      /\ Append(log[i], x)[Len(log[i]) + 1] = x
  BY <1>6, AppendProperties
<1> QED  BY <1>2, <1>3, <1>4, <1>5, <1>6, <1>7

\* What holds of logs, disks and the history still does.
LEMMA AppendedData ==
  ASSUME SafeInv, TypeOK', NEW i \in Server, NEW T, NEW x \in Entry, role[i] = "Leader",
         T = term[i], x.term = T, LeaderAppended(i, T, x)
  PROVE  /\ HistoryGrows /\ HistoryInv' /\ LogsAgree' /\ LogsStored' /\ StoredHeld'
         /\ CommitsHold' /\ AppliedHold'
<1>0. TypeOK /\ VoteInv /\ HistoryInv /\ LedgersAgree /\ StoredShape /\ VotersCovered
  BY DEF SafeInv, HistoryInv
<1>1. /\ T \in Nat /\ T \in Terms /\ WonBy(T, i) /\ Terms' = Terms /\ ledger'[T] = log'[i]
      /\ ledger[T] = log[i]
      /\ \A t \in Terms : t # T => ledger'[t] = ledger[t]
      /\ Len(log[i]) \in Nat /\ Len(log'[i]) = Len(log[i]) + 1
      /\ \A k \in 1..Len(log[i]) : log'[i][k] = log[i][k]
      /\ log'[i][Len(log[i]) + 1] = x
      /\ \A s \in Server : s # i => log'[s] = log[s]
  BY AppendedLedger
<1>2. /\ term' = term /\ elected' = elected /\ stored' = stored /\ persisted' = persisted
      /\ applied' = applied /\ snap' = snap /\ commitIndex' = commitIndex /\ lastApplied' = lastApplied
  BY DEF LeaderAppended
<1>3. HistoryGrows
  <2>1. ASSUME NEW t \in Terms
        PROVE  /\ t \in Terms' /\ Len(ledger[t]) <= Len(ledger'[t])
               /\ \A k \in 1..Len(ledger[t]) : ledger'[t][k] = ledger[t][k]
               /\ \A k \in Len(ledger[t]) + 1 .. Len(ledger'[t]) : ledger'[t][k].term = t
    <3>1. CASE t = T
      <4>1. Len(log[i]) <= Len(log[i]) + 1 /\ \A k \in Len(log[i]) + 1 .. Len(log[i]) + 1 : k = Len(log[i]) + 1
        BY <1>1
      <4> QED  BY <1>1, <3>1, <4>1
    <3>2. CASE t # T
      <4>1. PICK n \in Nat : n = Len(ledger[t])
        BY <1>0, LedgerType
      <4>2. n <= n /\ (n + 1)..n = {} /\ ledger'[t] = ledger[t] /\ Len(ledger'[t]) = n
        BY <1>1, <3>2, <4>1
      <4> QED  BY <1>1, <4>1, <4>2
    <3> QED  BY <3>1, <3>2
  <2>2. \A s \in Server : term[s] <= term'[s]
    BY <1>0, <1>2 DEF TypeOK, StateType
  <2> QED  BY <1>2, <2>1, <2>2 DEF HistoryGrows
<1>4. HistoryInv'
  <2>1. LedgersAgree'
    BY <1>0, <1>1, <1>3, KeepLedgers
  <2>2. StoredShape'
    BY <1>0, <1>2, <1>3, KeepShape DEF StoredShape
  <2>3. VotersCovered'
    <3>1. \A e \in elected : e.node \in e.voters /\ \A a \in stored' : VoterCovered(e, a)'
      BY <1>0, <1>2, <1>3, KeepVoters
    <3> QED  BY <1>2, <3>1 DEF VotersCovered
  <2> QED  BY <2>1, <2>2, <2>3 DEF HistoryInv
<1>5. ASSUME NEW s \in Server, s # i PROVE LogAgrees(s)' /\ LogStored(s)'
  <2>1. LogAgrees(s) /\ LogStored(s) /\ Len(log[s]) \in Nat
    BY <1>0, LogElements DEF SafeInv, NodeInv, LogsAgree, LogsStored
  <2>2. Len(log'[s]) <= Len(log[s]) /\ \A k \in 1..Len(log'[s]) : log'[s][k] = log[s][k]
    BY <1>1, <1>5, <2>1
  <2> QED  BY <1>0, <1>3, <2>1, <2>2, KeepLog
<1>6. LogAgrees(i)'
  <2> SUFFICES ASSUME NEW k \in 1..Len(log'[i])
               PROVE  /\ log'[i][k].term \in Terms' /\ log'[i][k].term <= term'[i]
                      /\ Agree(log'[i], ledger'[log'[i][k].term], k)
    BY DEF LogAgrees
  <2>1. CASE k <= Len(log[i])
    <3>1. k \in 1..Len(log[i]) /\ k \in Nat
      BY <1>1, <2>1
    <3>2. PICK w : w = log[i][k].term
      OBVIOUS
    <3>3. w \in Terms /\ w <= term[i] /\ Agree(log[i], ledger[w], k)
      BY <3>1, <3>2 DEF SafeInv, NodeInv, LogsAgree, LogAgrees
    <3>4. Agree(log'[i], ledger[w], k)
      BY <1>1, <3>1, <3>3 DEF Agree
    <3>5. Agree(log'[i], ledger'[w], k)
      BY <1>0, <1>3, <3>1, <3>3, <3>4, GrowAgree
    <3> QED  BY <1>1, <1>2, <3>1, <3>2, <3>3, <3>5
  <2>2. CASE k > Len(log[i])
    <3>1. log'[i][k].term = T /\ k <= Len(log'[i])
      BY <1>1, <2>2
    <3>2. Agree(log'[i], ledger'[T], k)
      BY <1>1, <3>1 DEF Agree
    <3> QED  BY <1>1, <1>2, <3>1, <3>2
  <2> QED  BY <1>1, <2>1, <2>2
<1>7. LogStored(i)'
  <2>1. WonBy(T, i)'
    BY <1>1, <1>3, GrowWon
  <2>2. T = term'[i]
    BY <1>2
  <2>3. WonBy(term[i], i)'
    BY <2>1, <2>2 DEF WonBy
  <2> QED  BY <2>3 DEF LogStored
<1>8. LogsAgree' /\ LogsStored'
  BY <1>5, <1>6, <1>7 DEF LogsAgree, LogsStored
<1>9. ASSUME NEW s \in Server, NEW k \in 1..persisted[s] PROVE log'[s][k] = log[s][k]
  <2>1. persisted[s] <= Len(log[s]) /\ persisted[s] \in Nat /\ Len(log[s]) \in Nat
    BY <1>0, LogElements
  <2>2. k \in 1..Len(log[s])
    BY <2>1
  <2> QED  BY <1>1, <2>2
<1>10. StoredHeld'
  <2>1. ASSUME NEW a \in stored PROVE RecordHeld(a)'
    <3>1. RecordShape(a) /\ RecordHeld(a) /\ a.node \in Server
      BY <1>0 DEF SafeInv, NodeInv, StoredShape, StoredHeld, TypeOK, HistType
    <3>2. persisted'[a.node] = persisted[a.node] /\ \A k \in 1..persisted[a.node] : log'[a.node][k] = log[a.node][k]
      BY <1>2, <1>9, <3>1
    <3> QED  BY <1>0, <1>3, <3>1, <3>2, KeepHeld
  <2> QED  BY <1>2, <2>1 DEF StoredHeld
<1>11. CommitsHold'
  <2>1. ASSUME NEW s \in Server PROVE CommitHolds(s)'
    <3>1. CommitHolds(s) /\ persisted[s] \in Nat /\ commitIndex[s] \in Nat
      BY <1>0 DEF SafeInv, NodeInv, CommitsHold, TypeOK, LogType, CursorType
    <3>2. persisted[s] <= persisted'[s] /\ \A k \in 1..commitIndex[s] : k \in 1..persisted[s]
      BY <1>2, <3>1 DEF CommitHolds
    <3>3. \A k \in 1..commitIndex[s] : log'[s][k] = log[s][k]
      BY <1>9, <3>2
    <3> QED  BY <1>0, <1>2, <1>3, <3>1, <3>2, <3>3, KeepCommit
  <2> QED  BY <2>1 DEF CommitsHold
<1>12. AppliedHold'
  <2>1. ASSUME NEW a \in applied PROVE AppliedHolds(a)'
    BY <1>0, <1>3, KeepApplied DEF SafeInv, NodeInv, AppliedHold
  <2> QED  BY <1>2, <2>1 DEF AppliedHold
<1> QED  BY <1>3, <1>4, <1>8, <1>10, <1>11, <1>12

\* The other nodes keep their logs and the ledgers of their terms.
LEMMA AppendedOthers ==
  ASSUME SafeInv, NEW i \in Server, NEW T, NEW x \in Entry, role[i] = "Leader",
         T = term[i], x.term = T, LeaderAppended(i, T, x), NEW s \in Server, s # i, role' = role
  PROVE  Kept(s)
<1>1. WonBy(T, i) /\ log'[s] = log[s] /\ \A t \in Terms : t # T => ledger'[t] = ledger[t]
  BY AppendedLedger
<1>2. role[s] = "Leader" => term[s] # T /\ term[s] \in Terms
  <2> SUFFICES ASSUME role[s] = "Leader" PROVE term[s] # T /\ term[s] \in Terms
    OBVIOUS
  <2>1. WonBy(term[s], s)
    BY DEF SafeInv, NodeInv, LeadersHold, LeaderHolds
  <2>2. term[s] # T
    BY <1>1, <2>1 DEF SafeInv, VoteInv, ElectionSafety, WonBy
  <2> QED  BY <2>1, <2>2, TermsAreWon DEF SafeInv
<1> QED  BY <1>1, <1>2 DEF Kept, LeaderAppended

\* The new leader's no-op.
LEMMA TakeOfficeSafe ==
  ASSUME Races = {}, SafeInv, TypeOK', VoteInv', NEW i \in Server, TakeOffice(i)
  PROVE  SafeInv'
<1>0. \A s \in Server : proposing[s] = {} /\ appending[s] = {} /\ todo[s] = {}
  BY FinishMeans DEF TakeOffice
<1>1. /\ UNCHANGED <<term, votedFor, role, persisted, snap, commitIndex, lastApplied>>
      /\ UNCHANGED <<loopTerm, votes, compactTo, roundCommit, todo, proposing, appending>>
      /\ UNCHANGED <<exch, late, ballots, elected, applied, stored>>
      /\ phase' = [phase EXCEPT ![i] = "idle"] /\ phase[i] = "elected"
  BY DEF TakeOffice, stateVars, taskVars, netVars
<1>2. TypeOK /\ VoteInv /\ HistoryInv /\ LeaderHolds(i) /\ PhaseHolds(i)
  BY DEF SafeInv, NodeInv, LeadersHold, PhasesHold
<1>3. /\ role[i] = "Leader" /\ loopTerm[i] = term[i] /\ WonBy(term[i], i) /\ ledger[term[i]] = log[i]
      /\ \A k \in 1..Len(log[i]) : log[i][k].term < term[i]
      /\ \A j \in Server : exch[i][j].st = "idle"
  BY <1>1, <1>2 DEF LeaderHolds, PhaseHolds
<1>4. PICK T, x : T = term[i] /\ x = [term |-> T, val |-> Noop]
  OBVIOUS
<1>5. T \in Nat /\ x \in Entry /\ x.term = T
  BY <1>2, <1>4 DEF TypeOK, StateType, Entry
<1>6. LeaderAppended(i, T, x)
  BY <1>1, <1>3, <1>4 DEF TakeOffice, LeaderAppended
<1>7. /\ T \in Terms /\ WonBy(T, i) /\ Terms' = Terms /\ ledger'[T] = log'[i] /\ ledger[T] = log[i]
      /\ Len(log[i]) \in Nat /\ Len(log'[i]) = Len(log[i]) + 1
      /\ log'[i][Len(log[i]) + 1] = x
      /\ \A s \in Server : s # i => log'[s] = log[s]
  BY <1>3, <1>4, <1>5, <1>6, AppendedLedger
<1>8. HistoryGrows /\ HistoryInv' /\ LogsAgree' /\ LogsStored' /\ StoredHeld' /\ CommitsHold' /\ AppliedHold'
  BY <1>3, <1>4, <1>5, <1>6, AppendedData
<1>9. /\ phase \in [Server -> {"idle", "elect", "elected", "round"}]
      /\ next \in [Server -> [Server -> Nat \ {0}]] /\ match \in [Server -> [Server -> Nat]]
  BY <1>2 DEF TypeOK, LoopType, LeadType
<1>10. PICK n \in Nat : n = Len(log[i]) + 1
  BY <1>7
<1>11. /\ \A j \in Server : next'[i][j] = n /\ match'[i][j] = 0
       /\ \A s \in Server : s # i => next'[s] = next[s] /\ match'[s] = match[s] /\ phase'[s] = phase[s]
       /\ phase'[i] = "idle"
  BY <1>1, <1>9, <1>10 DEF TakeOffice, LastIndex
<1>12. \A a \in stored : a.term # T
  <2> SUFFICES ASSUME NEW a \in stored, a.term = T PROVE FALSE
    OBVIOUS
  <2>1. a.index \in 1..Len(log[i]) /\ log[i][a.index].term = T
    BY <1>2, <1>7 DEF HistoryInv, StoredShape, RecordShape
  <2> QED  BY <1>3, <1>4, <1>5, <2>1
<1>13. LeadershipKept
  <2>1. ASSUME NEW s \in Server, s # i, NEW j \in Peers(s) PROVE match[s][j] <= match'[s][j]
    BY <1>9, <1>11, <2>1 DEF Peers
  <2> QED  BY <1>1, <1>4, <1>12, <2>1 DEF LeadershipKept
<1>14. CandidatesCover'
  <2>1. ASSUME NEW c \in Server PROVE CandidateCovers(c)'
    <3>1. Standing(c)' => /\ Standing(c) /\ log'[c] = log[c]
                          /\ loopTerm'[c] = loopTerm[c] /\ votes'[c] = votes[c]
      BY <1>1, <1>7, <1>11 DEF Standing
    <3>2. CandidateCovers(c) /\ StoredShape
      BY DEF SafeInv, NodeInv, HistoryInv, CandidatesCover
    <3> QED  BY <1>1, <1>2, <1>8, <3>1, <3>2, KeepCandidate
  <2> QED  BY <1>1, <2>1 DEF SafeInv, NodeInv, CandidatesCover
<1>15. GapsHold'
  BY <1>0, <1>1, NoGaps
<1>16. \A s \in Server : SnapHolds(s)'
  BY <1>1, <1>2, <1>8, <1>13, KeepSnap DEF SafeInv, NetInv, PointsHold
<1>17. ASSUME NEW s \in Server, s # i PROVE Quiet(s) /\ Kept(s)
  <2>1. Kept(s)
    BY <1>1, <1>3, <1>4, <1>5, <1>6, <1>17, AppendedOthers
  <2> QED  BY <1>1, <1>11, <1>17, <2>1 DEF Quiet
<1>18. LeaderHolds(i)' /\ PhaseHolds(i)' /\ RoundHolds(i)'
  <2>1. WonBy(T, i)' /\ T = term'[i]
    BY <1>1, <1>4, <1>7, <1>8, GrowWon
  <2>2. WonBy(term[i], i)'
    BY <2>1 DEF WonBy
  <2>3. log'[i] # << >>
    BY <1>7, EmptySeq
  <2>4. LastTerm(i)' = T
    BY <1>5, <1>7, <2>3 DEF LastTerm
  <2>5. LeaderHolds(i)'
    BY <1>7, <1>11, <2>1, <2>2, <2>3, <2>4 DEF LeaderHolds
  <2> QED  BY <1>11, <2>5 DEF PhaseHolds, RoundHolds
<1>19. ASSUME NEW j \in Peers(i) PROVE NextHolds(i, j)' /\ MatchHolds(i, j)'
  <2>0. j \in Server /\ next'[i][j] = n /\ match'[i][j] = 0 /\ exch'[i][j].st = "idle" /\ T = term'[i]
    BY <1>1, <1>3, <1>4, <1>11 DEF Peers
  <2>1. ledger'[T][n].term = T /\ n > 0 /\ n \in 1..n /\ n..Len(log'[i]) = {n}
    BY <1>5, <1>7, <1>10
  <2>2. ASSUME NEW a \in stored', a.term < T, n <= a.index PROVE Lost(a.term, n, T)'
    <3>0. a.term \in Nat /\ a.index \in Nat
      BY <2>2 DEF TypeOK, HistType
    <3>1. a.index \in 1..Len(ledger'[a.term]) /\ a.term \in Terms'
      BY <1>8, <2>2 DEF HistoryInv, StoredShape, RecordShape
    <3>2. n \in 1..Len(ledger'[a.term])
      BY <1>10, <2>1, <2>2, <3>0, <3>1
    <3>3. ledger'[a.term][n].term <= a.term
      BY <1>8, <3>1, <3>2 DEF HistoryInv, LedgersAgree
    <3>4. ~Agree(ledger'[T], ledger'[a.term], n)
      BY <1>5, <2>1, <2>2, <3>0, <3>3 DEF Agree
    <3> QED  BY <1>5, <1>7, <2>2, <3>4 DEF Lost
  <2>3. Floor(i, j, n)'
    <3>1. match'[i][j] < n
      BY <1>10, <2>0, <2>1
    <3>2. \A k \in n..Len(log'[i]) : log'[i][k].term = term'[i]
      BY <1>7, <2>0, <2>1
    <3>3. \A a \in stored' : a.node = j /\ a.term < term'[i] /\ n <= a.index => Lost(a.term, n, term[i])'
      BY <2>0, <2>2 DEF Lost
    <3> QED  BY <3>1, <3>2, <3>3 DEF Floor
  <2>4. Floor(i, j, next[i][j])'
    BY <2>0, <2>3 DEF Floor, Lost
  <2>5. next'[i][j] <= Len(log'[i]) + 1
    BY <1>7, <1>10, <2>0
  <2>6. NextHolds(i, j)'
    BY <2>0, <2>4, <2>5 DEF NextHolds
  <2> QED  BY <2>0, <2>6 DEF MatchHolds, GoodMatch
<1>20. \A l, s \in Server : NetQuiet(l, s)
  BY <1>1 DEF NetQuiet
<1>21. \A m \in late' : LateGood(m)'
  BY <1>1, <1>8, <1>13, QuietLate
<1>22. \A s \in Server : (Quiet(s) /\ Kept(s)) \/ (LeaderHolds(s)' /\ PhaseHolds(s)' /\ RoundHolds(s)')
  BY <1>17, <1>18
<1>23. \A s \in Server : \A j \in Peers(s) :
           \/ /\ Quiet(s) /\ Kept(s) /\ NetQuiet(s, j)
              /\ next'[s][j] = next[s][j] /\ match'[s][j] = match[s][j]
           \/ NextHolds(s, j)' /\ MatchHolds(s, j)'
  BY <1>11, <1>17, <1>19, <1>20 DEF Peers
<1>24. \A s \in Server : \A a \in appending'[s] : AppendGood(s, a)'
  BY <1>0, <1>1
<1>25. \A a \in stored' \ stored : a.term >= term[a.node]
  BY <1>1
<1> QED  BY <1>8, <1>13, <1>14, <1>15, <1>16, <1>20, <1>21, <1>22, <1>23, <1>24, <1>25, StepSafe

\* A client's write.
LEMMA ProposeAppendSafe ==
  ASSUME Races = {}, SafeInv, TypeOK', VoteInv', NEW i \in Server, NEW p \in proposing[i], ProposeAppend(i, p)
  PROVE  SafeInv'
<1>0. \A s \in Server : phase[s] # "elected" /\ appending[s] = {} /\ todo[s] = {}
  BY FinishMeans DEF ProposeAppend
<1>1. /\ UNCHANGED <<term, votedFor, role, persisted, snap, commitIndex, lastApplied, next, match>>
      /\ UNCHANGED <<phase, loopTerm, votes, compactTo, roundCommit, todo, appending>>
      /\ UNCHANGED <<exch, late, ballots, elected, applied, stored>>
      /\ proposing' = [proposing EXCEPT ![i] = @ \ {p}]
  BY DEF ProposeAppend, stateVars, leadVars, loopVars, roundVars, netVars
<1>2. TypeOK /\ VoteInv /\ HistoryInv /\ LeaderHolds(i) /\ PhaseHolds(i) /\ RoundHolds(i) /\ ProposeGap(i)
  BY DEF SafeInv, NodeInv, NetInv, LeadersHold, PhasesHold, PointsHold, GapsHold
<1>3. role[i] = "Leader" /\ p.term = term[i]
  BY <1>2 DEF ProposeGap
<1>4. PICK T, x : T = term[i] /\ x = [term |-> p.term, val |-> p.val]
  OBVIOUS
<1>5. T \in Nat /\ x \in Entry /\ x.term = T
  <2>1. p.term \in Nat /\ p.val \in Value
    BY <1>2 DEF TypeOK, TaskType
  <2> QED  BY <1>3, <1>4, <2>1 DEF Entry
<1>6. LeaderAppended(i, T, x)
  BY <1>1, <1>3, <1>4 DEF ProposeAppend, LeaderAppended
<1>7. /\ T \in Terms /\ WonBy(T, i) /\ Terms' = Terms /\ ledger'[T] = log'[i] /\ ledger[T] = log[i]
      /\ Len(log[i]) \in Nat /\ Len(log'[i]) = Len(log[i]) + 1
      /\ \A k \in 1..Len(log[i]) : log'[i][k] = log[i][k]
      /\ log'[i][Len(log[i]) + 1] = x
      /\ \A s \in Server : s # i => log'[s] = log[s]
  BY <1>3, <1>4, <1>5, <1>6, AppendedLedger
<1>8. HistoryGrows /\ HistoryInv' /\ LogsAgree' /\ LogsStored' /\ StoredHeld' /\ CommitsHold' /\ AppliedHold'
  BY <1>3, <1>4, <1>5, <1>6, AppendedData
<1>9. LeadershipKept
  <2>1. \A s, j \in Server : match[s][j] \in Nat
    BY <1>2 DEF TypeOK, LeadType
  <2> QED  BY <1>1, <2>1 DEF LeadershipKept, Peers
<1>10. CandidatesCover'
  <2>1. ASSUME NEW c \in Server PROVE CandidateCovers(c)'
    <3>1. Standing(c)' => /\ Standing(c) /\ log'[c] = log[c]
                          /\ loopTerm'[c] = loopTerm[c] /\ votes'[c] = votes[c]
      BY <1>1, <1>3, <1>7 DEF Standing
    <3>2. CandidateCovers(c) /\ StoredShape
      BY DEF SafeInv, NodeInv, HistoryInv, CandidatesCover
    <3> QED  BY <1>1, <1>2, <1>8, <3>1, <3>2, KeepCandidate
  <2> QED  BY <1>1, <2>1 DEF SafeInv, NodeInv, CandidatesCover
<1>11. GapsHold'
  <2>1. \A s \in Server : proposing'[s] \subseteq proposing[s]
    BY <1>1, <1>2 DEF TypeOK, TaskType
  <2>2. \A s \in Server : ProposeGap(s)
    BY DEF SafeInv, NetInv, GapsHold
  <2>3. \A s \in Server : ProposeGap(s)' /\ LaunchGap(s)'
    BY <1>0, <1>1, <2>1, <2>2 DEF ProposeGap, LaunchGap
  <2> QED  BY <2>3 DEF GapsHold
<1>12. \A s \in Server : SnapHolds(s)'
  BY <1>1, <1>2, <1>8, <1>9, KeepSnap DEF SafeInv, NetInv, PointsHold
<1>13. ASSUME NEW s \in Server PROVE Quiet(s)
  BY <1>1 DEF Quiet
<1>14. ASSUME NEW s \in Server, s # i PROVE Kept(s)
  BY <1>1, <1>3, <1>4, <1>5, <1>6, <1>14, AppendedOthers
<1>15. LeaderHolds(i)'
  <2>1. WonBy(T, i)' /\ T = term'[i]
    BY <1>1, <1>4, <1>7, <1>8, GrowWon
  <2>2. WonBy(term[i], i)'
    BY <2>1 DEF WonBy
  <2>3. log'[i] # << >>
    BY <1>7, EmptySeq
  <2>4. LastTerm(i)' = T
    BY <1>5, <1>7, <2>3 DEF LastTerm
  <2>5. phase'[i] # "elect" /\ phase'[i] # "elected"
    BY <1>0, <1>1, <1>2, <1>3 DEF LeaderHolds
  <2> QED  BY <1>7, <2>1, <2>2, <2>3, <2>4, <2>5 DEF LeaderHolds
<1>16. PhaseHolds(i)' /\ RoundHolds(i)'
  BY <1>1, <1>2, <1>8, <1>9, KeepPhase, KeepRound
<1>17. ASSUME NEW j \in Peers(i) PROVE NextHolds(i, j)' /\ MatchHolds(i, j)'
  <2>1. NextHolds(i, j) /\ MatchHolds(i, j) /\ j \in Server
    BY DEF SafeInv, NetInv, NextHold, MatchesHold, Peers
  <2>2. /\ Len(log[i]) <= Len(log'[i])
        /\ \A k \in Len(log[i]) + 1..Len(log'[i]) : log'[i][k].term = term[i]
    BY <1>4, <1>5, <1>7
  <2>3. NextHolds(i, j)'
    BY <1>0, <1>1, <1>2, <1>3, <1>7, <1>8, <1>15, <2>1, <2>2, KeepNext
  <2> QED  BY <1>1, <1>8, <2>1, <2>3, KeepMatch
<1>18. \A l, s \in Server : NetQuiet(l, s)
  BY <1>1 DEF NetQuiet
<1>19. \A m \in late' : LateGood(m)'
  BY <1>1, <1>8, <1>9, QuietLate
<1>20. \A s \in Server : (Quiet(s) /\ Kept(s)) \/ (LeaderHolds(s)' /\ PhaseHolds(s)' /\ RoundHolds(s)')
  BY <1>13, <1>14, <1>15, <1>16
<1>21. \A s \in Server : \A j \in Peers(s) :
           \/ /\ Quiet(s) /\ Kept(s) /\ NetQuiet(s, j)
              /\ next'[s][j] = next[s][j] /\ match'[s][j] = match[s][j]
           \/ NextHolds(s, j)' /\ MatchHolds(s, j)'
  BY <1>1, <1>13, <1>14, <1>17, <1>18 DEF Peers
<1>22. \A s \in Server : \A a \in appending'[s] : AppendGood(s, a)'
  BY <1>0, <1>1
<1>23. \A a \in stored' \ stored : a.term >= term[a.node]
  BY <1>1
<1> QED  BY <1>8, <1>9, <1>10, <1>11, <1>12, <1>18, <1>19, <1>20, <1>21, <1>22, <1>23, StepSafe
----------------------------------------------------------------------------
(* Replication rounds. *)

\* The compaction point is the match index of the slowest peer.
LEMMA CompactLeast ==
  ASSUME TypeOK, Cardinality(Server) >= 2, NEW i \in Server
  PROVE  \E j \in Peers(i) : /\ CompactIndex(i) = match[i][j]
                             /\ \A p \in Peers(i) : match[i][j] <= match[i][p]
<1> DEFINE M == {match[i][j] : j \in Peers(i)}
           slowest == {j \in Peers(i) : \A p \in Peers(i) : match[i][j] <= match[i][p]}
<1>1. Peers(i) # {}
  <2>1. IsFiniteSet(Server) /\ Cardinality(Server) \in Nat
    BY ServerAssumption, FS_CardinalityType
  <2>2. Cardinality(Peers(i)) = Cardinality(Server) - 1
    BY <2>1, FS_RemoveElement DEF Peers
  <2> QED  BY <2>1, <2>2, FS_EmptySet
<1>2. M \in SUBSET Nat /\ M # {}
  BY <1>1 DEF TypeOK, LeadType, Peers
<1>3. PICK n \in M : \A m \in M : n <= m
  BY <1>2, LeastNatural
<1>4. slowest # {}
  BY <1>3
<1>5. PICK j : j = CHOOSE k \in slowest : TRUE
  OBVIOUS
<1>6. j \in slowest
  BY <1>4, <1>5
<1>7. CompactIndex(i) = match[i][j]
  BY <1>4, <1>5 DEF CompactIndex
<1> QED  BY <1>6, <1>7

\* A leader's own log, once it is on its disk, is a record.
LEMMA RoundStartSafe ==
  ASSUME Races = {}, Cardinality(Server) >= 2, SafeInv, TypeOK', VoteInv', NEW i \in Server, RoundStart(i)
  PROVE  SafeInv'
<1>0. \A s \in Server : proposing[s] = {} /\ phase[s] # "elected" /\ appending[s] = {} /\ todo[s] = {}
  BY FreeMeans DEF RoundStart
<1>1. /\ UNCHANGED <<term, votedFor, role, log, snap, commitIndex, lastApplied, next, match>>
      /\ UNCHANGED <<votes, proposing, appending, exch, late, ballots, elected, applied, ledger>>
      /\ persisted' = [persisted EXCEPT ![i] = Len(log[i])]
      /\ phase' = [phase EXCEPT ![i] = "round"] /\ loopTerm' = [loopTerm EXCEPT ![i] = term[i]]
      /\ phase[i] = "idle" /\ role[i] = "Leader"
  BY DEF RoundStart, stateVars, leadVars, taskVars, netVars, Synced, LastIndex
<1>2. /\ roundCommit' = [roundCommit EXCEPT ![i] = commitIndex[i]]
      /\ compactTo' = [compactTo EXCEPT ![i] = CompactIndex(i)]
      /\ todo' = [todo EXCEPT ![i] = {j \in Peers(i) : exch[i][j].st = "idle"}]
  BY DEF RoundStart
<1>3. TypeOK /\ VoteInv /\ HistoryInv /\ LeaderHolds(i) /\ LedgersAgree /\ StoredShape /\ VotersCovered
  BY DEF SafeInv, HistoryInv, NodeInv, LeadersHold
<1>4. PICK T, N, b : T = term[i] /\ N = Len(log[i]) /\ b = [term |-> T, node |-> i, index |-> N]
  OBVIOUS
<1>5. b.term = T /\ b.node = i /\ b.index = N /\ stored' = stored \cup {b}
  BY <1>4 DEF RoundStart, Synced, LastIndex
<1>6. /\ T \in Nat /\ N \in Nat /\ N > 0 /\ N \in 1..N /\ WonBy(T, i) /\ T \in Terms
      /\ ledger[T] = log[i] /\ log[i][N].term = T
  <2>1. log[i] \in Seq(Entry) /\ N \in Nat /\ T \in Nat
    BY <1>3, <1>4, LogElements
  <2>2. WonBy(T, i) /\ ledger[T] = log[i] /\ log[i] # << >> /\ LastTerm(i) = T
    BY <1>1, <1>3, <1>4 DEF LeaderHolds
  <2>3. N > 0 /\ log[i][N].term = T
    BY <1>4, <2>1, <2>2, EmptySeq DEF LastTerm
  <2> QED  BY <1>3, <2>1, <2>2, <2>3, TermsAreWon
<1>7. /\ persisted \in [Server -> Nat] /\ phase \in [Server -> {"idle", "elect", "elected", "round"}]
      /\ loopTerm \in [Server -> Nat] /\ roundCommit \in [Server -> Nat] /\ compactTo \in [Server -> Nat]
      /\ todo \in [Server -> SUBSET Server] /\ term \in [Server -> Nat] /\ match \in [Server -> [Server -> Nat]]
  BY <1>3 DEF TypeOK, LogType, LoopType, RoundType, StateType, LeadType
<1>8. /\ persisted'[i] = N /\ phase'[i] = "round" /\ loopTerm'[i] = T /\ roundCommit'[i] = commitIndex[i]
      /\ compactTo'[i] = CompactIndex(i) /\ todo'[i] = {j \in Peers(i) : exch[i][j].st = "idle"}
  BY <1>1, <1>2, <1>4, <1>7
<1>9. \A s \in Server : s # i =>
        /\ persisted'[s] = persisted[s] /\ phase'[s] = phase[s] /\ loopTerm'[s] = loopTerm[s]
        /\ compactTo'[s] = compactTo[s] /\ todo'[s] = todo[s]
  BY <1>1, <1>2, <1>7
<1>10. HistoryGrows
  <2>1. \A t \in Terms : Len(ledger[t]) \in Nat
    BY <1>3, LedgerType
  <2>2. Terms' = Terms /\ stored \subseteq stored' /\ \A s \in Server : term[s] <= term'[s]
    BY <1>1, <1>5, <1>7 DEF Terms
  <2> QED  BY <1>1, <2>1, <2>2 DEF HistoryGrows
<1>11. \A a \in stored' \ stored : a.term >= term[a.node]
  BY <1>4, <1>5, <1>6
<1>12. HasStored(T, i, N)'
  BY <1>5, <1>6 DEF HasStored
<1>13. HistoryInv'
  <2>1. LedgersAgree'
    BY <1>1, <1>3 DEF LedgersAgree, Terms
  <2>2. LeaderStored(T, N)'
    <3>1. PICK e \in elected : e.term = T /\ e.node = i
      BY <1>6 DEF WonBy
    <3> QED  BY <1>1, <1>12, <3>1 DEF LeaderStored
  <2>3. RecordShape(b)'
    BY <1>1, <1>4, <1>5, <1>6, <2>2 DEF RecordShape, Terms
  <2>4. StoredShape'
    <3>1. ASSUME NEW a \in stored PROVE RecordShape(a)'
      BY <1>3, <1>10, KeepShape DEF StoredShape
    <3> QED  BY <1>5, <2>3, <3>1 DEF StoredShape
  <2>5. VotersCovered'
    <3>1. \A e \in elected : e.node \in e.voters /\ \A a \in stored' : VoterCovered(e, a)'
      BY <1>3, <1>10, <1>11, KeepVoters
    <3> QED  BY <1>1, <3>1 DEF VotersCovered
  <2> QED  BY <2>1, <2>4, <2>5 DEF HistoryInv
<1>14. LogsAgree' /\ LogsStored'
  <2>1. ASSUME NEW s \in Server PROVE LogAgrees(s)' /\ LogStored(s)'
    <3>1. LogAgrees(s) /\ LogStored(s) /\ Len(log[s]) \in Nat
      BY <1>3, LogElements DEF SafeInv, NodeInv, LogsAgree, LogsStored
    <3>2. Len(log'[s]) <= Len(log[s]) /\ \A k \in 1..Len(log'[s]) : log'[s][k] = log[s][k]
      BY <1>1, <3>1
    <3> QED  BY <1>3, <1>10, <3>1, <3>2, KeepLog
  <2> QED  BY <2>1 DEF LogsAgree, LogsStored
<1>15. \A s \in Server : persisted[s] <= persisted'[s]
  <2>1. persisted[i] <= N
    BY <1>3, <1>4, LogElements
  <2> QED  BY <1>7, <1>8, <1>9, <2>1
<1>16. StoredHeld'
  <2>1. ASSUME NEW a \in stored PROVE RecordHeld(a)'
    <3>1. RecordShape(a) /\ RecordHeld(a) /\ a.node \in Server /\ LogsAgree
      BY <1>3 DEF SafeInv, NodeInv, StoredShape, StoredHeld, TypeOK, HistType
    <3> QED  BY <1>1, <1>3, <1>10, <1>15, <3>1, KeepHeldSynced
  <2>2. RecordHeld(b)'
    <3>1. N <= persisted'[i] /\ T <= term'[i] /\ Agree(log'[i], ledger'[T], N)
      BY <1>1, <1>4, <1>6, <1>8 DEF Agree
    <3> QED  BY <1>5, <3>1 DEF RecordHeld, Held
  <2> QED  BY <1>5, <2>1, <2>2 DEF StoredHeld
<1>17. CommitsHold'
  <2>1. ASSUME NEW s \in Server PROVE CommitHolds(s)'
    <3>1. CommitHolds(s)
      BY DEF SafeInv, NodeInv, CommitsHold
    <3> QED  BY <1>1, <1>3, <1>10, <1>15, <3>1, KeepCommit
  <2> QED  BY <2>1 DEF CommitsHold
<1>18. AppliedHold'
  <2>1. ASSUME NEW a \in applied PROVE AppliedHolds(a)'
    BY <1>3, <1>10, KeepApplied DEF SafeInv, NodeInv, AppliedHold
  <2> QED  BY <1>1, <2>1 DEF AppliedHold
<1>19. LeadershipKept
  BY <1>1, <1>7 DEF LeadershipKept, Peers
<1>20. CandidatesCover'
  <2>1. ASSUME NEW c \in Server PROVE CandidateCovers(c)'
    <3>1. Standing(c)' => /\ Standing(c) /\ log'[c] = log[c]
                          /\ loopTerm'[c] = loopTerm[c] /\ votes'[c] = votes[c]
      BY <1>1, <1>9 DEF Standing
    <3>2. CandidateCovers(c)
      BY DEF SafeInv, NodeInv, CandidatesCover
    <3> QED  BY <1>1, <1>3, <1>10, <1>11, <3>1, <3>2, KeepCandidate
  <2> QED  BY <1>1, <2>1 DEF SafeInv, NodeInv, CandidatesCover
<1>21. GapsHold'
  <2>1. \A s \in Server : ProposeGap(s)'
    BY <1>0, <1>1 DEF ProposeGap
  <2>2. ASSUME NEW s \in Server, s # i PROVE LaunchGap(s)'
    BY <1>0, <1>9, <2>2 DEF LaunchGap
  <2>3. LaunchGap(i)'
    <3>1. HasStored(term[i], i, Len(log[i]))'
      BY <1>1, <1>4, <1>12 DEF HasStored
    <3>2. \A j \in todo'[i] : j # i /\ exch'[i][j].st = "idle"
      BY <1>1, <1>8 DEF Peers
    <3> QED  BY <1>1, <1>4, <1>8, <3>1, <3>2 DEF LaunchGap
  <2> QED  BY <2>1, <2>2, <2>3 DEF GapsHold
<1>22. \A s \in Server : SnapHolds(s)'
  BY <1>1, <1>3, <1>10, <1>19, KeepSnap DEF SafeInv, NetInv, PointsHold
<1>23. ASSUME NEW s \in Server, s # i PROVE Quiet(s) /\ Kept(s)
  BY <1>0, <1>1, <1>9, <1>23 DEF Quiet, Kept
<1>24. LeaderHolds(i)'
  BY <1>0, <1>1, <1>3, <1>8, <1>10, KeepLeader
<1>25. PhaseHolds(i)'
  <2>1. WonBy(T, i)' /\ T = loopTerm'[i] /\ T = term'[i]
    BY <1>1, <1>4, <1>6, <1>8, <1>10, GrowWon
  <2>2. WonBy(loopTerm[i], i)'
    BY <2>1 DEF WonBy
  <2> QED  BY <1>1, <1>6, <1>8, <2>1, <2>2 DEF PhaseHolds
<1>26. ASSUME NEW j \in Peers(i) PROVE match[i][j] \in Nat /\ (match[i][j] = 0 \/ HasStored(T, j, match[i][j])) /\ j \in Server
  BY <1>0, <1>1, <1>4, <1>7 DEF SafeInv, NetInv, MatchesHold, MatchHolds, GoodMatch, Peers
<1>27. RoundHolds(i)'
  <2>1. PICK j \in Peers(i) : /\ CompactIndex(i) = match[i][j]
                              /\ \A p \in Peers(i) : match[i][j] <= match[i][p]
    BY <1>3, CompactLeast
  <2>2. PICK c \in Nat : c = match[i][j]
    BY <1>26
  <2>3. ASSUME c # 0 PROVE Everywhere(T, c)'
    <3>1. ASSUME NEW s \in Peers(i) PROVE HasStored(T, s, c)
      <4>1. match[i][s] \in Nat /\ c <= match[i][s]
        BY <1>26, <2>1, <2>2
      <4>2. HasStored(T, s, match[i][s])
        BY <1>26, <2>3, <4>1
      <4>3. \A a \in stored : a.index \in Nat
        BY <1>3 DEF TypeOK, HistType
      <4> QED  BY <4>1, <4>2, <4>3 DEF HasStored
    <3>2. ASSUME NEW s \in Peers(i) PROVE HasStored(T, s, c)'
      BY <1>10, <3>1, GrowStored
    <3>3. HasStored(T, i, c)'
      <4>1. c <= N
        BY <1>3, <1>4, <1>6, <3>1, StoredRange
      <4>2. b.index >= c
        BY <1>5, <1>6, <4>1
      <4> QED  BY <1>5, <4>2 DEF HasStored
    <3> QED  BY <3>2, <3>3 DEF Everywhere, Peers
  <2>4. ASSUME NEW s \in Server, role'[s] = "Leader", term'[s] = T, NEW p \in Peers(s) PROVE c <= match'[s][p]
    <3>1. WonBy(T, s)
      BY <1>1, <2>4 DEF SafeInv, NodeInv, LeadersHold, LeaderHolds
    <3>2. s = i
      BY <1>3, <1>6, <3>1 DEF VoteInv, ElectionSafety, WonBy
    <3> QED  BY <1>1, <2>1, <2>2, <2>4, <3>2
  <2>5. GoodPoint(T, c)'
    BY <2>3, <2>4 DEF GoodPoint
  <2>6. T = loopTerm'[i] /\ c = compactTo'[i]
    BY <1>8, <2>1, <2>2
  <2> QED  BY <2>5, <2>6 DEF RoundHolds, GoodPoint, Everywhere, HasStored
<1>28. ASSUME NEW j \in Peers(i) PROVE NextHolds(i, j)' /\ MatchHolds(i, j)'
  <2>1. NextHolds(i, j) /\ j \in Server /\ Len(log[i]) \in Nat
    BY <1>3, LogElements DEF SafeInv, NetInv, NextHold, Peers
  <2>2. NextHolds(i, j)'
    <3>1. Len(log[i]) <= Len(log'[i]) /\ \A k \in Len(log[i]) + 1..Len(log'[i]) : log'[i][k].term = term[i]
      BY <1>1, <2>1
    <3> QED  BY <1>0, <1>1, <1>3, <1>10, <1>11, <1>13, <1>24, <2>1, <3>1, KeepNext
  <2>3. PICK m : m = match[i][j]
    OBVIOUS
  <2>4. m # 0 => HasStored(T, j, m)
    BY <1>26, <2>3
  <2>5. m # 0 => HasStored(T, j, m)'
    BY <1>10, <2>4, GrowStored
  <2>6. m = match'[i][j] /\ T = term'[i] /\ T = loopTerm'[i]
    BY <1>1, <1>4, <1>8, <2>3
  <2>7. GoodMatch(term[i], i, j)' /\ GoodMatch(loopTerm[i], i, j)'
    BY <2>5, <2>6 DEF GoodMatch, HasStored
  <2> QED  BY <2>2, <2>7 DEF MatchHolds
<1>29. \A l, s \in Server : NetQuiet(l, s)
  BY <1>1 DEF NetQuiet
<1>30. \A m \in late' : LateGood(m)'
  BY <1>1, <1>10, <1>19, QuietLate
<1>31. \A s \in Server : (Quiet(s) /\ Kept(s)) \/ (LeaderHolds(s)' /\ PhaseHolds(s)' /\ RoundHolds(s)')
  BY <1>23, <1>24, <1>25, <1>27
<1>32. \A s \in Server : \A j \in Peers(s) :
           \/ /\ Quiet(s) /\ Kept(s) /\ NetQuiet(s, j)
              /\ next'[s][j] = next[s][j] /\ match'[s][j] = match[s][j]
           \/ NextHolds(s, j)' /\ MatchHolds(s, j)'
  BY <1>1, <1>23, <1>28, <1>29 DEF Peers
<1>33. \A s \in Server : \A a \in appending'[s] : AppendGood(s, a)'
  BY <1>0, <1>1
<1> QED  BY <1>10, <1>11, <1>13, <1>14, <1>16, <1>17, <1>18, <1>19, <1>20, <1>21, <1>22, <1>29, <1>30, <1>31,
            <1>32, <1>33, StepSafe

\* What a leader finds on a majority is chosen, and on its own disk: with two nodes
\* or more a peer has stored it, so the leader has.
LEMMA MajorityMatched ==
  ASSUME SafeInv, Cardinality(Server) >= 2, NEW i \in Server, phase[i] = "round", NEW k \in Nat, k > 0,
         IsMajorityMatch(i, k)
  PROVE  Chosen(loopTerm[i], k) /\ HasStored(loopTerm[i], i, k)
<1> DEFINE Q == {s \in Server : MatchOf(i, s) >= k}
           L == {s \in Server : MatchOf(i, s) < k}
           half == (Cardinality(Server) - 1) \div 2
<1>0. TypeOK /\ VoteInv /\ HistoryInv /\ PhaseHolds(i)
  BY DEF SafeInv, NodeInv, PhasesHold
<1>1. IsFiniteSet(Server) /\ Cardinality(Server) \in Nat
  BY ServerAssumption, FS_CardinalityType
<1>2. \A s \in Server : MatchOf(i, s) \in Nat
  BY <1>0, LogElements DEF MatchOf, LastIndex, TypeOK, LeadType
<1>3. Q = Server \ L /\ L \in SUBSET Server /\ Q \in SUBSET Server
  BY <1>2
<1>4. IsFiniteSet(L) /\ IsFiniteSet(Q) /\ Cardinality(L) \in Nat /\ Cardinality(Q) \in Nat
  BY <1>1, <1>3, FS_Subset, FS_CardinalityType
<1>5. Cardinality(L) <= half
  BY DEF IsMajorityMatch
<1>6. Cardinality(Q) = Cardinality(Server) - Cardinality(L)
  <2>1. Server \cap L = L
    BY <1>3
  <2>2. Cardinality(Server \ L) = Cardinality(Server) - Cardinality(Server \cap L)
    BY <1>1, FS_Difference
  <2> QED  BY <1>3, <2>1, <2>2
<1> HIDE DEF Q, L
<1>7. Cardinality(Q) >= Majority /\ Cardinality(Q) >= 2
  BY <1>1, <1>4, <1>5, <1>6 DEF Majority
<1>8. PICK t : t = loopTerm[i]
  OBVIOUS
<1>9. WonBy(t, i)
  BY <1>0, <1>8 DEF PhaseHolds
<1>10. ASSUME NEW s \in Q, s # i PROVE HasStored(t, s, k)
  <2>1. s \in Peers(i) /\ MatchOf(i, s) >= k /\ MatchOf(i, s) = match[i][s] /\ match[i][s] \in Nat
    BY <1>2, <1>3, <1>10 DEF Q, MatchOf, Peers
  <2>2. match[i][s] # 0
    BY <2>1
  <2>3. HasStored(t, s, match[i][s])
    BY <1>8, <2>1, <2>2 DEF SafeInv, NetInv, MatchesHold, MatchHolds, GoodMatch
  <2>4. \A a \in stored : a.index \in Nat
    BY <1>0 DEF TypeOK, HistType
  <2> QED  BY <2>1, <2>3, <2>4 DEF HasStored
<1>11. PICK s \in Q : s # i
  <2> SUFFICES ASSUME Q \subseteq {i} PROVE FALSE
    OBVIOUS
  <2>1. IsFiniteSet({i}) /\ Cardinality({i}) = 1
    BY FS_Singleton
  <2>2. Cardinality(Q) <= 1
    BY <2>1, FS_Subset
  <2> QED  BY <1>4, <1>7, <2>2
<1>12. HasStored(t, i, k)
  <2>1. PICK a \in stored : a.term = t /\ a.node = s /\ a.index >= k
    BY <1>10, <1>11 DEF HasStored
  <2>2. LeaderStored(t, a.index)
    BY <1>0, <2>1 DEF HistoryInv, StoredShape, RecordShape
  <2>3. PICK e \in elected : e.term = t /\ HasStored(t, e.node, a.index)
    BY <2>2 DEF LeaderStored
  <2>4. e.node = i
    BY <1>0, <1>9, <2>3 DEF VoteInv, ElectionSafety, WonBy
  <2>5. PICK d \in stored : d.term = t /\ d.node = i /\ d.index >= a.index
    BY <2>3, <2>4 DEF HasStored
  <2>6. d.index >= k
    BY <1>0, <2>1, <2>5 DEF TypeOK, HistType
  <2> QED  BY <2>5, <2>6 DEF HasStored
<1>13. IsMajority({s2 \in Server : HasStored(t, s2, k)})
  <2>1. Q \subseteq {s2 \in Server : HasStored(t, s2, k)}
    BY <1>3, <1>10, <1>12
  <2>2. IsMajority(Q)
    BY <1>7 DEF IsMajority
  <2> HIDE DEF half
  <2> QED  BY <1>3, <2>1, <2>2, MoreIsMajority
<1> QED  BY <1>8, <1>12, <1>13 DEF Chosen

\* The commit index a round ends with.
LEMMA CommitChosen ==
  ASSUME SafeInv, Cardinality(Server) >= 2, NEW i \in Server, phase[i] = "round",
         NEW c, c = MaybeCommit(i, loopTerm[i])
  PROVE  /\ c \in Nat /\ commitIndex[i] <= c /\ c <= persisted[i]
         /\ c = 0 \/ \E t \in Terms : t <= term[i] /\ Chosen(t, c) /\ Agree(log[i], ledger[t], c)
<1> DEFINE new == {k \in {MatchOf(i, s) : s \in Server} :
                IsMajorityMatch(i, k) /\ k > commitIndex[i] /\ TermAt(i, k) = loopTerm[i]}
<1>0. TypeOK /\ VoteInv /\ HistoryInv /\ LogsAgree /\ StoredHeld /\ PhaseHolds(i) /\ CommitHolds(i)
  BY DEF SafeInv, NodeInv, PhasesHold, CommitsHold
<1>1. CASE new = {}
  <2>1. c = commitIndex[i] /\ c \in Nat
    BY <1>0, <1>1 DEF MaybeCommit, TypeOK, CursorType
  <2> QED  BY <1>0, <2>1 DEF CommitHolds
<1>2. CASE new # {}
  <2>1. c \in new
    BY <1>2 DEF MaybeCommit
  <2>2. PICK s \in Server : c = MatchOf(i, s)
    BY <2>1
  <2>3. c \in Nat /\ commitIndex[i] \in Nat
    BY <1>0, <2>2, LogElements DEF MatchOf, LastIndex, TypeOK, LeadType, CursorType
  <2>4. c > commitIndex[i] /\ IsMajorityMatch(i, c)
    BY <2>1
  <2>5. Chosen(loopTerm[i], c) /\ HasStored(loopTerm[i], i, c)
    BY <2>3, <2>4, MajorityMatched
  <2>6. loopTerm[i] \in Terms /\ c <= persisted[i] /\ Agree(log[i], ledger[loopTerm[i]], c)
    BY <1>0, <2>3, <2>5, ChosenIsHeld
  <2>7. loopTerm[i] <= term[i]
    BY <1>0 DEF PhaseHolds
  <2> QED  BY <2>3, <2>4, <2>5, <2>6, <2>7
<1> QED  BY <1>1, <1>2

\* Commit, apply and compact at the end of a round.
LEMMA RoundEndSafe ==
  ASSUME Races = {}, Cardinality(Server) >= 2, SafeInv, TypeOK', VoteInv', NEW i \in Server, RoundEnd(i)
  PROVE  SafeInv'
<1>0. \A s \in Server : proposing[s] = {} /\ phase[s] # "elected" /\ appending[s] = {} /\ todo[s] = {}
  BY FreeMeans DEF RoundEnd
<1>1. PICK c : c = MaybeCommit(i, loopTerm[i])
  OBVIOUS
<1>2. PICK la : la = Max(lastApplied[i], Min(c, Len(log[i])))
  OBVIOUS
<1>3. PICK z : z = Compacted(i, compactTo[i], la)
  OBVIOUS
<1>4. /\ UNCHANGED <<term, votedFor, role, log, next, match, loopTerm, votes, compactTo, roundCommit, todo>>
      /\ UNCHANGED <<proposing, appending, exch, late, ballots, elected, ledger, stored>>
      /\ phase[i] = "round" /\ phase' = [phase EXCEPT ![i] = "idle"]
      /\ commitIndex' = [commitIndex EXCEPT ![i] = c]
      /\ lastApplied' = [lastApplied EXCEPT ![i] = la]
      /\ snap' = [snap EXCEPT ![i] = z]
      /\ persisted' = [persisted EXCEPT ![i] = IF z # snap[i] THEN Len(log[i]) ELSE @]
      /\ applied' = applied \cup Taken(log[i], lastApplied[i], c)
  BY <1>1, <1>2, <1>3 DEF RoundEnd, stateVars, leadVars, taskVars, netVars, LastIndex
<1>5. TypeOK /\ VoteInv /\ HistoryInv /\ LogsAgree /\ StoredShape /\ CommitHolds(i) /\ RoundHolds(i) /\ PhaseHolds(i)
  BY DEF SafeInv, HistoryInv, NodeInv, NetInv, PhasesHold, CommitsHold, PointsHold
<1>6. /\ c \in Nat /\ commitIndex[i] <= c /\ c <= persisted[i]
      /\ c = 0 \/ \E t \in Terms : t <= term[i] /\ Chosen(t, c) /\ Agree(log[i], ledger[t], c)
  BY <1>1, <1>4, CommitChosen
<1>7. /\ persisted \in [Server -> Nat] /\ snap \in [Server -> Nat] /\ commitIndex \in [Server -> Nat]
      /\ lastApplied \in [Server -> Nat] /\ compactTo \in [Server -> Nat]
      /\ phase \in [Server -> {"idle", "elect", "elected", "round"}]
      /\ term \in [Server -> Nat] /\ match \in [Server -> [Server -> Nat]]
      /\ Len(log[i]) \in Nat /\ persisted[i] <= Len(log[i])
  <2>1. Len(log[i]) \in Nat /\ persisted[i] <= Len(log[i])
    BY <1>5, LogElements
  <2> QED  BY <1>5, <2>1 DEF TypeOK, LogType, CursorType, LoopType, RoundType, StateType, LeadType
<1>8. snap[i] <= lastApplied[i] /\ lastApplied[i] <= commitIndex[i]
  BY <1>5 DEF CommitHolds
<1>9. la = c /\ Min(c, Len(log[i])) = c
  BY <1>2, <1>6, <1>7, <1>8 DEF Max, Min
<1>10. z \in Nat /\ z <= c /\ (z = snap[i] \/ z = compactTo[i])
  BY <1>3, <1>6, <1>7, <1>8, <1>9 DEF Compacted
<1>11. /\ commitIndex'[i] = c /\ lastApplied'[i] = c /\ snap'[i] = z /\ phase'[i] = "idle"
       /\ persisted[i] <= persisted'[i] /\ persisted'[i] \in Nat
  <2>1. commitIndex'[i] = c /\ lastApplied'[i] = c /\ snap'[i] = z /\ phase'[i] = "idle"
    BY <1>4, <1>7, <1>9
  <2>2. persisted'[i] = IF z # snap[i] THEN Len(log[i]) ELSE persisted[i]
    BY <1>4, <1>7
  <2> QED  BY <1>7, <2>1, <2>2
<1>12. \A s \in Server : s # i =>
         /\ commitIndex'[s] = commitIndex[s] /\ lastApplied'[s] = lastApplied[s] /\ snap'[s] = snap[s]
         /\ phase'[s] = phase[s] /\ persisted'[s] = persisted[s]
  BY <1>4, <1>7
<1>13. ASSUME NEW s \in Server PROVE persisted[s] <= persisted'[s]
  <2>1. CASE s = i
    BY <1>11, <2>1
  <2>2. CASE s # i
    BY <1>7, <1>12, <2>2
  <2> QED  BY <2>1, <2>2
<1>14. HistoryGrows /\ HistoryInv'
  <2>1. \A t \in Terms : Len(ledger[t]) \in Nat
    BY <1>5, LedgerType
  <2>2. HistoryGrows
    BY <1>4, <1>7, <2>1 DEF HistoryGrows, Terms
  <2>3. HistoryInv'
    BY <1>4 DEF SafeInv, HistoryInv, LedgersAgree, StoredShape, VotersCovered, RecordShape, VoterCovered,
                LeaderStored, HasStored, Terms
  <2> QED  BY <2>2, <2>3
<1>15. LogsAgree' /\ LogsStored'
  <2>1. ASSUME NEW s \in Server PROVE LogAgrees(s)' /\ LogStored(s)'
    <3>1. LogAgrees(s) /\ LogStored(s) /\ Len(log[s]) \in Nat
      BY <1>5, LogElements DEF SafeInv, NodeInv, LogsAgree, LogsStored
    <3>2. Len(log'[s]) <= Len(log[s]) /\ \A k \in 1..Len(log'[s]) : log'[s][k] = log[s][k]
      BY <1>4, <3>1
    <3> QED  BY <1>5, <1>14, <3>1, <3>2, KeepLog
  <2> QED  BY <2>1 DEF LogsAgree, LogsStored
<1>16. StoredHeld'
  <2>1. ASSUME NEW a \in stored PROVE RecordHeld(a)'
    <3>1. RecordShape(a) /\ RecordHeld(a) /\ a.node \in Server /\ LedgersAgree
      BY <1>5 DEF SafeInv, HistoryInv, NodeInv, StoredShape, StoredHeld, TypeOK, HistType
    <3> QED  BY <1>4, <1>5, <1>13, <1>14, <3>1, KeepHeldSynced
  <2> QED  BY <1>4, <2>1 DEF StoredHeld
<1>17. CommitsHold'
  <2>1. ASSUME NEW s \in Server, s # i PROVE CommitHolds(s)'
    <3>1. CommitHolds(s)
      BY DEF SafeInv, NodeInv, CommitsHold
    <3> QED  BY <1>4, <1>5, <1>12, <1>13, <1>14, <2>1, <3>1, KeepCommit
  <2>2. CommitHolds(i)'
    <3>1. snap'[i] <= lastApplied'[i] /\ lastApplied'[i] <= commitIndex'[i] /\ commitIndex'[i] <= persisted'[i]
      BY <1>6, <1>7, <1>10, <1>11
    <3>2. CASE c = 0
      BY <1>11, <3>1, <3>2 DEF CommitHolds
    <3>3. CASE c # 0
      <4>1. PICK t \in Terms : t <= term[i] /\ Chosen(t, c) /\ Agree(log[i], ledger[t], c)
        BY <1>6, <3>3
      <4>2. Chosen(t, c)' /\ t \in Terms'
        BY <1>14, <4>1, GrowChosen DEF HistoryGrows
      <4>3. Chosen(t, commitIndex[i])'
        BY <1>11, <4>2 DEF Chosen, HasStored
      <4> QED  BY <1>4, <1>11, <3>1, <4>1, <4>2, <4>3 DEF CommitHolds
    <3> QED  BY <3>2, <3>3
  <2> QED  BY <2>1, <2>2 DEF CommitsHold
<1>18. AppliedHold'
  <2>1. ASSUME NEW a \in applied PROVE AppliedHolds(a)'
    BY <1>5, <1>14, KeepApplied DEF SafeInv, NodeInv, AppliedHold
  <2>2. ASSUME NEW a \in Taken(log[i], lastApplied[i], c) PROVE AppliedHolds(a)'
    <3>1. PICK k \in lastApplied[i] + 1 .. c : a = [index |-> k, entry |-> log[i][k]]
      BY <1>9, <2>2 DEF Taken
    <3>2. a.index = k /\ a.entry = log[i][k]
      BY <3>1
    <3>3. k \in Nat /\ k > 0 /\ k <= c /\ c # 0 /\ k \in 1..c
      BY <1>6, <1>7, <3>1
    <3>4. PICK t \in Terms : t <= term[i] /\ Chosen(t, c) /\ Agree(log[i], ledger[t], c)
      BY <1>6, <3>3
    <3>5. Chosen(t, k) /\ log[i][k] = ledger[t][k]
      BY <1>5, <1>6, <3>3, <3>4, ChosenShorter DEF Agree
    <3>6. Chosen(t, k)' /\ t \in Terms'
      BY <1>14, <3>5, GrowChosen DEF HistoryGrows
    <3> QED  BY <1>4, <3>2, <3>3, <3>5, <3>6 DEF AppliedHolds
  <2> QED  BY <1>4, <2>1, <2>2 DEF AppliedHold
<1>19. LeadershipKept
  BY <1>4, SameLeadership DEF SafeInv
<1>20. CandidatesCover'
  <2>1. ASSUME NEW d \in Server PROVE CandidateCovers(d)'
    <3>1. Standing(d)' => /\ Standing(d) /\ log'[d] = log[d]
                          /\ loopTerm'[d] = loopTerm[d] /\ votes'[d] = votes[d]
      BY <1>4, <1>11, <1>12 DEF Standing
    <3>2. CandidateCovers(d)
      BY DEF SafeInv, NodeInv, CandidatesCover
    <3> QED  BY <1>4, <1>5, <1>14, <3>1, <3>2, KeepCandidate
  <2> QED  BY <1>4, <2>1 DEF SafeInv, NodeInv, CandidatesCover
<1>21. GapsHold'
  BY <1>0, <1>4, NoGaps
<1>22. ASSUME NEW s \in Server PROVE SnapHolds(s)'
  <2>1. CASE snap'[s] = snap[s]
    BY <1>5, <1>14, <1>19, <2>1, KeepSnap DEF SafeInv, NetInv, PointsHold
  <2>2. CASE snap'[s] # snap[s]
    <3>1. s = i /\ snap'[i] = compactTo[i]
      BY <1>10, <1>11, <1>12, <2>2
    <3>2. PICK t, n : t = loopTerm[i] /\ n = compactTo[i]
      OBVIOUS
    <3>3. n \in Nat /\ GoodPoint(t, n) /\ t \in Terms
      BY <1>4, <1>5, <1>7, <3>2, TermsAreWon DEF RoundHolds, PhaseHolds
    <3>4. GoodPoint(t, n)' /\ t \in Terms'
      BY <1>5, <1>14, <1>19, <3>3, GrowPoint DEF HistoryGrows
    <3>5. n = snap'[s]
      BY <3>1, <3>2
    <3>6. GoodPoint(t, snap[s])'
      BY <3>4, <3>5 DEF GoodPoint, Everywhere, HasStored
    <3> QED  BY <3>4, <3>6 DEF SnapHolds
  <2> QED  BY <2>1, <2>2
<1>23. \A s \in Server : Quiet(s) /\ Kept(s)
  BY <1>0, <1>4, <1>11, <1>12 DEF Quiet, Kept
<1>24. \A l, s \in Server : NetQuiet(l, s)
  BY <1>4 DEF NetQuiet
<1>25. \A m \in late' : LateGood(m)'
  BY <1>4, <1>14, <1>19, QuietLate
<1>26. \A s \in Server : \A j \in Peers(s) :
           /\ Quiet(s) /\ Kept(s) /\ NetQuiet(s, j)
           /\ next'[s][j] = next[s][j] /\ match'[s][j] = match[s][j]
  BY <1>4, <1>23, <1>24 DEF Peers
<1>27. \A s \in Server : \A a \in appending'[s] : AppendGood(s, a)'
  BY <1>0, <1>4
<1>28. \A a \in stored' \ stored : a.term >= term[a.node]
  BY <1>4
<1> QED  BY <1>14, <1>15, <1>16, <1>17, <1>18, <1>19, <1>20, <1>21, <1>22, <1>23, <1>24, <1>25, <1>26, <1>27, <1>28,
            StepSafe
----------------------------------------------------------------------------
(* What append_entries makes of a log. *)

\* If any entry differs, one is the first.
LEMMA NoConflict ==
  ASSUME NEW l, NEW es \in Seq(Entry), NEW prev, FirstConflict(l, prev, es) = {}, NEW k \in 1..Len(es)
  PROVE  ~Differs(l, prev, es, k)
<1> DEFINE D == {n \in 1..Len(es) : Differs(l, prev, es, n)}
<1> SUFFICES ASSUME k \in D PROVE FALSE
  OBVIOUS
<1>0. Len(es) \in Nat
  BY LenProperties
<1>1. D \in SUBSET Nat /\ D # {}
  BY <1>0
<1>2. PICK n \in D : \A m \in D : n <= m
  BY <1>1, LeastNatural
<1>3. \A m \in 1..n-1 : m \in 1..Len(es) /\ m < n
  BY <1>0, <1>2
<1>4. \A m \in 1..n-1 : ~Differs(l, prev, es, m)
  BY <1>1, <1>2, <1>3
<1>5. n \in FirstConflict(l, prev, es)
  BY <1>2, <1>4 DEF FirstConflict
<1> QED  BY <1>5

\* A log that agrees with a leader's where the terms agree: the entries the leader
\* sends leave it agreeing up to their end, and cut nothing that agreed.
LEMMA AppendedAgrees ==
  ASSUME NEW l \in Seq(Entry), NEW m \in Seq(Entry), NEW es \in Seq(Entry), NEW prev \in Nat,
         NEW E \in Nat, E = prev + Len(es), E <= Len(m), \A k \in 1..Len(es) : es[k] = m[prev + k],
         \A n \in 1..Len(l) : n <= Len(m) /\ l[n].term = m[n].term => Agree(l, m, n),
         Agree(l, m, prev), NEW x, x = Appended(l, prev, es)
  PROVE  /\ \/ x = l /\ E <= Len(l) /\ Agree(l, m, E)
            \/ Len(x) = E /\ Agree(x, m, E)
         /\ \A n \in Nat : Agree(l, m, n) => n <= Len(x)
<1> DEFINE C == FirstConflict(l, prev, es)
<1>0. /\ Len(l) \in Nat /\ Len(m) \in Nat /\ Len(es) \in Nat /\ prev <= Len(l)
  BY LenProperties DEF Agree
<1>1. ASSUME NEW k \in 1..Len(es), prev + k <= Len(l), ~Differs(l, prev, es, k)
      PROVE  Agree(l, m, prev + k)
  <2>1. prev + k \in 1..Len(l) /\ prev + k <= Len(m)
    BY <1>0, <1>1
  <2>2. l[prev + k].term = m[prev + k].term
    BY <1>1 DEF Differs
  <2> QED  BY <2>1, <2>2
<1>2. CASE C # {}
  <2>1. PICK k : k = CHOOSE c \in C : TRUE
    OBVIOUS
  <2>2. k \in C
    BY <1>2, <2>1
  <2>3. /\ k \in 1..Len(es) /\ prev + k <= Len(l) /\ l[prev + k].term # es[k].term
        /\ \A n \in 1..k-1 : ~Differs(l, prev, es, n)
    BY <2>2 DEF FirstConflict, Differs
  <2>4. PICK p \in Nat : p = prev + k - 1
    BY <1>0, <2>3
  <2>5. p <= Len(l) /\ p < E /\ E <= Len(m) /\ prev <= p /\ 1 \in 1..Len(l) + 1 /\ p \in 1 - 1 .. Len(l)
    BY <1>0, <2>3, <2>4
  <2>6. Agree(l, m, p)
    <3>1. CASE k = 1
      BY <1>0, <2>3, <2>4, <3>1
    <3>2. CASE k # 1
      <4>1. k - 1 \in 1..k-1 /\ k - 1 \in 1..Len(es) /\ prev + (k - 1) <= Len(l) /\ p = prev + (k - 1)
        BY <1>0, <2>3, <2>4, <3>2
      <4>2. ~Differs(l, prev, es, k - 1)
        BY <2>3, <4>1
      <4> QED  BY <1>1, <4>1, <4>2
    <3> QED  BY <3>1, <3>2
  <2>7. PICK f, g : f = SubSeq(l, 1, p) /\ g = SubSeq(es, k, Len(es))
    OBVIOUS
  <2>8. f \in Seq(Entry) /\ Len(f) = p /\ \A n \in 1..p : f[n] = l[n]
    <3>1. /\ SubSeq(l, 1, p) \in Seq(Entry) /\ Len(SubSeq(l, 1, p)) = p - 1 + 1
          /\ \A n \in 1..p - 1 + 1 : SubSeq(l, 1, p)[n] = l[1 + n - 1]
      BY <2>5, SubSeqProperties
    <3>2. p - 1 + 1 = p /\ \A n \in 1..p : 1 + n - 1 = n
      BY <2>4
    <3> QED  BY <2>7, <3>1, <3>2
  <2>9. g \in Seq(Entry) /\ Len(g) = E - p /\ \A n \in 1..E - p : g[n] = m[p + n]
    <3>1. k \in 1..Len(es) + 1 /\ Len(es) \in k - 1 .. Len(es)
      BY <1>0, <2>3
    <3>2. /\ SubSeq(es, k, Len(es)) \in Seq(Entry) /\ Len(SubSeq(es, k, Len(es))) = Len(es) - k + 1
          /\ \A n \in 1..Len(es) - k + 1 : SubSeq(es, k, Len(es))[n] = es[k + n - 1]
      BY <3>1, SubSeqProperties
    <3>3. Len(es) - k + 1 = E - p
      BY <1>0, <2>3, <2>4
    <3>4. ASSUME NEW n \in 1..E - p PROVE es[k + n - 1] = m[p + n]
      <4>1. k + n - 1 \in 1..Len(es) /\ prev + (k + n - 1) = p + n
        BY <1>0, <2>3, <2>4, <3>3
      <4> QED  BY <4>1
    <3> QED  BY <2>7, <3>2, <3>3, <3>4
  <2>10. x = f \o g
    <3>1. x = SubSeq(l, 1, prev + k - 1) \o SubSeq(es, k, Len(es))
      BY <1>2, <2>1 DEF Appended
    <3> QED  BY <2>4, <2>7, <3>1
  <2>11. /\ Len(x) = p + (E - p)
         /\ \A n \in 1..p + (E - p) : x[n] = IF n <= p THEN f[n] ELSE g[n - p]
    BY <2>8, <2>9, <2>10, ConcatProperties
  <2>12. p + (E - p) = E
    BY <2>4
  <2>13. ASSUME NEW n \in 1..E PROVE x[n] = m[n]
    <3>1. CASE n <= p
      <4>1. n \in 1..p
        BY <2>4, <3>1
      <4> QED  BY <2>6, <2>8, <2>11, <2>12, <3>1, <4>1 DEF Agree
    <3>2. CASE ~(n <= p)
      <4>1. n - p \in 1..E - p /\ p + (n - p) = n
        BY <2>4, <2>5, <3>2
      <4> QED  BY <2>9, <2>11, <2>12, <3>2, <4>1
    <3> QED  BY <3>1, <3>2
  <2>14. Len(x) = E /\ Agree(x, m, E)
    BY <2>11, <2>12, <2>13 DEF Agree
  <2>15. ASSUME NEW n \in Nat, Agree(l, m, n) PROVE n <= E
    <3> SUFFICES ASSUME n > E PROVE FALSE
      OBVIOUS
    <3>1. prev + k \in 1..n
      BY <1>0, <2>3, <2>4, <2>5
    <3>2. l[prev + k] = m[prev + k]
      BY <2>15, <3>1 DEF Agree
    <3> QED  BY <2>3, <3>2
  <2> QED  BY <2>14, <2>15
<1>3. CASE C = {} /\ Len(l) >= E
  <2>1. x = l
    BY <1>3 DEF Appended
  <2>2. Agree(l, m, E)
    <3>1. CASE Len(es) = 0
      BY <1>0, <3>1
    <3>2. CASE Len(es) # 0
      <4>1. Len(es) \in 1..Len(es)
        BY <1>0, <3>2
      <4>2. ~Differs(l, prev, es, Len(es))
        BY <1>3, <4>1, NoConflict
      <4> QED  BY <1>1, <1>3, <4>1, <4>2
    <3> QED  BY <3>1, <3>2
  <2> QED  BY <1>3, <2>1, <2>2 DEF Agree
<1>4. CASE C = {} /\ ~(Len(l) >= E)
  <2>1. PICK p \in Nat : p = Len(l)
    BY <1>0
  <2>2. p < E /\ prev <= p
    BY <1>0, <1>4, <2>1
  <2>3. Agree(l, m, p)
    <3>1. CASE p = prev
      BY <3>1
    <3>2. CASE p # prev
      <4>1. p - prev \in 1..Len(es) /\ prev + (p - prev) = p
        BY <1>0, <2>1, <2>2, <3>2
      <4>2. ~Differs(l, prev, es, p - prev)
        BY <1>4, <4>1, NoConflict
      <4>3. prev + (p - prev) <= Len(l)
        BY <2>1, <4>1
      <4> QED  BY <1>1, <4>1, <4>2, <4>3
    <3> QED  BY <3>1, <3>2
  <2>4. PICK g : g = SubSeq(es, p - prev + 1, Len(es))
    OBVIOUS
  <2>5. g \in Seq(Entry) /\ Len(g) = E - p /\ \A n \in 1..E - p : g[n] = m[p + n]
    <3>0. PICK k \in Nat : k = p - prev + 1
      BY <2>1, <2>2
    <3>1. k \in 1..Len(es) + 1 /\ Len(es) \in k - 1 .. Len(es)
      BY <1>0, <2>1, <2>2, <3>0
    <3>2. /\ SubSeq(es, k, Len(es)) \in Seq(Entry) /\ Len(SubSeq(es, k, Len(es))) = Len(es) - k + 1
          /\ \A n \in 1..Len(es) - k + 1 : SubSeq(es, k, Len(es))[n] = es[k + n - 1]
      BY <3>1, SubSeqProperties
    <3>3. Len(es) - k + 1 = E - p
      BY <1>0, <2>1, <2>2, <3>0
    <3>4. ASSUME NEW n \in 1..E - p PROVE es[k + n - 1] = m[p + n]
      <4>1. k + n - 1 \in 1..Len(es) /\ prev + (k + n - 1) = p + n
        BY <1>0, <2>1, <2>2, <3>0
      <4> QED  BY <4>1
    <3> QED  BY <2>4, <3>0, <3>2, <3>3, <3>4
  <2>6. x = l \o g
    BY <1>4, <2>1, <2>4 DEF Appended
  <2>7. /\ Len(x) = p + (E - p)
        /\ \A n \in 1..p + (E - p) : x[n] = IF n <= p THEN l[n] ELSE g[n - p]
    BY <2>1, <2>5, <2>6, ConcatProperties
  <2>8. p + (E - p) = E
    BY <2>1
  <2>9. ASSUME NEW n \in 1..E PROVE x[n] = m[n]
    <3>1. CASE n <= p
      <4>1. n \in 1..p
        BY <2>1, <3>1
      <4> QED  BY <2>3, <2>7, <2>8, <3>1, <4>1 DEF Agree
    <3>2. CASE ~(n <= p)
      <4>1. n - p \in 1..E - p /\ p + (n - p) = n
        BY <2>1, <2>2, <3>2
      <4> QED  BY <2>5, <2>7, <2>8, <3>2, <4>1
    <3> QED  BY <3>1, <3>2
  <2>10. Len(x) = E /\ Agree(x, m, E)
    BY <2>7, <2>8, <2>9 DEF Agree
  <2>11. ASSUME NEW n \in Nat, Agree(l, m, n) PROVE n <= E
    BY <2>1, <2>2, <2>11 DEF Agree
  <2> QED  BY <2>10, <2>11
<1> QED  BY <1>2, <1>3, <1>4

\* Where a log and a ledger have the same term they agree.
LEMMA SameTermAgrees ==
  ASSUME SafeInv, NEW i \in Server, NEW t \in Terms, NEW n \in 1..Len(log[i]), n \in 1..Len(ledger[t]),
         log[i][n].term = ledger[t][n].term
  PROVE  Agree(log[i], ledger[t], n)
<1>1. PICK w : w = log[i][n].term
  OBVIOUS
<1>2. Agree(log[i], ledger[w], n)
  BY <1>1 DEF SafeInv, NodeInv, LogsAgree, LogAgrees
<1>3. Agree(ledger[t], ledger[w], n)
  BY <1>1 DEF SafeInv, HistoryInv, LedgersAgree
<1>4. n \in Nat
  BY LogElements DEF SafeInv
<1> QED  BY <1>2, <1>3, <1>4, AgreeMeet

\* What the leader's entries leave a follower with: x agrees with the leader's log,
\* and is no shorter than what did before.
Result(i, T, r, x) ==
  /\ T \in Terms /\ Len(x) \in Nat /\ Len(x) > 0
  /\ Agree(x, ledger[T], Len(x)) /\ x[Len(x)].term = T
  /\ x = log[i] \/ Len(x) = r.prev + Len(r.entries)
  /\ \A n \in Nat : Agree(log[i], ledger[T], n) => n <= Len(x)

\* A node that takes its leader's entries: its log is then a part of the leader's
\* that ends in the leader's term, and keeps all they had in common.
LEMMA AppendResult ==
  ASSUME SafeInv, NEW i \in Server, NEW r \in Request, NEW f, GoodRequest(f, r), r.term = term[i],
         TermAt(i, r.prev) = r.prevTerm, NEW x, x = Appended(log[i], r.prev, r.entries), NEW T, T = r.term
  PROVE  Result(i, T, r, x)
<1> SUFFICES /\ T \in Terms /\ Len(x) \in Nat /\ Len(x) > 0
             /\ Agree(x, ledger[T], Len(x)) /\ x[Len(x)].term = T
             /\ x = log[i] \/ Len(x) = r.prev + Len(r.entries)
             /\ \A n \in Nat : Agree(log[i], ledger[T], n) => n <= Len(x)
  BY DEF Result
<1>0. /\ r.term \in Nat /\ r.prev \in Nat /\ r.prevTerm \in Nat /\ r.entries \in Seq(Entry)
      /\ Len(r.entries) \in Nat
  BY LenProperties DEF Request
<1>1. PICK E \in Nat : E = r.prev + Len(r.entries)
  BY <1>0
<1>2. /\ WonBy(T, f) /\ E \in 1..Len(ledger[T]) /\ ledger[T][E].term = T
      /\ r.prevTerm = IF r.prev = 0 THEN 0 ELSE ledger[T][r.prev].term
      /\ \A k \in 1..Len(r.entries) : r.entries[k] = ledger[T][r.prev + k]
  BY <1>1 DEF GoodRequest
<1>3. TypeOK /\ T \in Terms
  BY <1>2, TermsAreWon DEF SafeInv
<1>4. ledger[T] \in Seq(Entry) /\ Len(ledger[T]) \in Nat /\ T \in Nat
  BY <1>3, LedgerType
<1>5. log[i] \in Seq(Entry) /\ Len(log[i]) \in Nat /\ term[i] = T
      /\ \A k \in 1..Len(log[i]) : log[i][k].term \in Nat
  BY <1>3, LogElements
<1>6. r.prev <= Len(log[i]) /\ (r.prev # 0 => log[i][r.prev].term = r.prevTerm)
  BY <1>0, <1>5 DEF TermAt
<1>7. Agree(log[i], ledger[T], r.prev)
  <2>1. CASE r.prev = 0
    BY <1>4, <1>5, <2>1 DEF Agree
  <2>2. CASE r.prev # 0
    <3>1. r.prev \in 1..Len(log[i]) /\ r.prev \in 1..Len(ledger[T])
      BY <1>0, <1>1, <1>2, <1>4, <1>5, <1>6, <2>2
    <3>2. log[i][r.prev].term = ledger[T][r.prev].term
      BY <1>2, <1>6, <2>2
    <3> QED  BY <1>3, <3>1, <3>2, SameTermAgrees
  <2> QED  BY <2>1, <2>2
<1>8. \A n \in 1..Len(log[i]) : n <= Len(ledger[T]) /\ log[i][n].term = ledger[T][n].term =>
        Agree(log[i], ledger[T], n)
  <2> SUFFICES ASSUME NEW n \in 1..Len(log[i]), n <= Len(ledger[T]), log[i][n].term = ledger[T][n].term
               PROVE  Agree(log[i], ledger[T], n)
    OBVIOUS
  <2>1. n \in 1..Len(ledger[T])
    BY <1>4, <1>5
  <2> QED  BY <1>3, <2>1, SameTermAgrees
<1>9. E <= Len(ledger[T]) /\ E > 0 /\ E \in 1..E
  BY <1>2, <1>4
<1>10. /\ \/ x = log[i] /\ E <= Len(log[i]) /\ Agree(log[i], ledger[T], E)
          \/ Len(x) = E /\ Agree(x, ledger[T], E)
       /\ \A n \in Nat : Agree(log[i], ledger[T], n) => n <= Len(x)
  <2>1. PICK l, m, es, p : l = log[i] /\ m = ledger[T] /\ es = r.entries /\ p = r.prev
    OBVIOUS
  <2>2. l \in Seq(Entry) /\ m \in Seq(Entry) /\ es \in Seq(Entry) /\ p \in Nat /\ E = p + Len(es) /\ E <= Len(m)
    BY <1>0, <1>1, <1>4, <1>5, <1>9, <2>1
  <2>3. /\ \A k \in 1..Len(es) : es[k] = m[p + k]
        /\ \A n \in 1..Len(l) : n <= Len(m) /\ l[n].term = m[n].term => Agree(l, m, n)
        /\ Agree(l, m, p) /\ x = Appended(l, p, es)
    BY <1>2, <1>7, <1>8, <2>1
  <2>4. /\ \/ x = l /\ E <= Len(l) /\ Agree(l, m, E)
           \/ Len(x) = E /\ Agree(x, m, E)
        /\ \A n \in Nat : Agree(l, m, n) => n <= Len(x)
    BY <2>2, <2>3, AppendedAgrees
  <2> QED  BY <2>1, <2>4
<1>11. CASE Len(x) = E /\ Agree(x, ledger[T], E)
  <2>1. x[E].term = T
    BY <1>2, <1>9, <1>11 DEF Agree
  <2> QED  BY <1>1, <1>3, <1>9, <1>10, <1>11, <2>1
<1>12. CASE x = log[i] /\ E <= Len(log[i]) /\ Agree(log[i], ledger[T], E)
  <2>1. PICK N \in Nat : N = Len(log[i])
    BY <1>5
  <2>2. N \in 1..Len(log[i]) /\ E \in 1..N /\ E \in 1..Len(log[i]) /\ N > 0
    BY <1>1, <1>9, <1>12, <2>1
  <2>3. log[i][E].term = T
    BY <1>2, <1>9, <1>12 DEF Agree
  <2>4. log[i][E].term <= log[i][N].term
    BY <1>3, <2>2, LogOrder DEF SafeInv, HistoryInv, NodeInv
  <2>5. log[i][N].term <= T /\ Agree(log[i], ledger[log[i][N].term], N)
    BY <1>5, <2>2 DEF SafeInv, NodeInv, LogsAgree, LogAgrees
  <2>6. log[i][N].term = T
    BY <1>4, <1>5, <2>2, <2>3, <2>4, <2>5
  <2> QED  BY <1>3, <1>10, <1>12, <2>1, <2>2, <2>5, <2>6
<1> QED  BY <1>10, <1>11, <1>12
----------------------------------------------------------------------------
(* A follower answers its leader. *)

\* What a node has stored in its present term is on its disk.
LEMMA CurrentHeld ==
  ASSUME SafeInv, NEW i \in Server, NEW k \in Nat, HasStored(term[i], i, k)
  PROVE  k <= persisted[i] /\ Agree(log[i], ledger[term[i]], k) /\ term[i] \in Terms
<1>0. TypeOK
  BY DEF SafeInv
<1>1. PICK a \in stored : a.term = term[i] /\ a.node = i /\ a.index >= k
  BY DEF HasStored
<1>2. a.index \in Nat /\ term[i] \in Terms
  BY <1>0, <1>1 DEF SafeInv, HistoryInv, StoredShape, RecordShape, TypeOK, HistType
<1>3. Held(i, term[i], a.index)
  BY <1>1 DEF SafeInv, NodeInv, StoredHeld, RecordHeld
<1>4. /\ Len(log[i]) \in Nat /\ persisted[i] \in Nat /\ persisted[i] <= Len(log[i]) /\ term[i] \in Nat
      /\ \A n \in 1..Len(log[i]) : log[i][n].term \in Nat
  BY <1>0, LogElements
<1>5. ~(persisted[i] > 0 /\ log[i][persisted[i]].term > term[i])
  <2> SUFFICES ASSUME persisted[i] > 0, log[i][persisted[i]].term > term[i] PROVE FALSE
    OBVIOUS
  <2>1. persisted[i] \in 1..Len(log[i])
    BY <1>4
  <2>2. log[i][persisted[i]].term <= term[i]
    BY <2>1 DEF SafeInv, NodeInv, LogsAgree, LogAgrees
  <2> QED  BY <1>4, <2>1, <2>2
<1>6. a.index <= persisted[i] /\ Agree(log[i], ledger[term[i]], a.index)
  BY <1>3, <1>5 DEF Held
<1>7. Len(ledger[term[i]]) \in Nat
  BY <1>0, <1>2, LedgerType
<1> QED  BY <1>1, <1>2, <1>4, <1>6, <1>7, AgreeShorter

\* A request refused by a node of the leader's term: the next index may go down to
\* the refused one.
LEMMA RefusalFloor ==
  ASSUME SafeInv, NEW l \in Server, NEW i \in Peers(l), NEW r \in Request, GoodRequest(l, r),
         r.term = term[i], TermAt(i, r.prev) # r.prevTerm,
         role[l] = "Leader", phase[l] # "elected", term[l] = r.term, r.prev = next[l][i] - 1
  PROVE  Floor(l, i, r.prev)
<1>0. TypeOK /\ VoteInv /\ HistoryInv /\ StoredHeld /\ LeadersHold /\ NextHold /\ i \in Server
  BY DEF SafeInv, NodeInv, NetInv, Peers
<1>1. PICK T, n : T = r.term /\ n = r.prev
  OBVIOUS
<1>2. /\ T \in Nat /\ n \in Nat /\ r.prevTerm \in Nat /\ r.entries \in Seq(Entry) /\ Len(r.entries) \in Nat
  BY <1>1, LenProperties DEF Request
<1>3. /\ WonBy(T, l) /\ n + Len(r.entries) \in 1..Len(ledger[T])
      /\ r.prevTerm = IF n = 0 THEN 0 ELSE ledger[T][n].term
  BY <1>1 DEF GoodRequest
<1>4. T \in Terms /\ Len(ledger[T]) \in Nat
  <2>1. T \in Terms
    BY <1>0, <1>3, TermsAreWon
  <2> QED  BY <1>0, <2>1, LedgerType
<1>5. /\ Len(log[i]) \in Nat /\ term[i] = T /\ persisted[i] \in Nat /\ persisted[i] <= Len(log[i])
      /\ \A k \in 1..Len(log[i]) : log[i][k].term \in Nat
  BY <1>0, <1>1, LogElements
<1>6. snap[i] \in Nat /\ snap[i] <= n
  <2>1. snap[i] \in Nat /\ next[l][i] \in Nat /\ next[l][i] > 0
    BY <1>0 DEF TypeOK, CursorType, LeadType
  <2>2. CASE snap[i] = 0
    BY <1>2, <2>2
  <2>3. CASE snap[i] # 0
    <3>1. PICK t \in Terms : GoodPoint(t, snap[i])
      BY <1>0, <2>3 DEF SafeInv, NetInv, PointsHold, SnapHolds
    <3>2. snap[i] < next[l][i]
      BY <1>0, <2>1, <3>1, PointBelowNext
    <3> QED  BY <1>1, <1>2, <2>1, <3>2
  <2> QED  BY <2>1, <2>2, <2>3
<1>7. ASSUME n <= Len(log[i]), n # 0 => log[i][n] = ledger[T][n] PROVE FALSE
  <2>1. TermAt(i, n) # r.prevTerm
    BY <1>1
  <2>2. TermAt(i, n) = IF n = 0 THEN 0 ELSE log[i][n].term
    BY <1>2, <1>5, <1>6, <1>7 DEF TermAt
  <2> QED  BY <1>3, <1>7, <2>1, <2>2
<1>8. n # 0 /\ n \in 1..Len(ledger[T])
  <2>1. n # 0
    BY <1>5, <1>7
  <2> QED  BY <1>2, <1>3, <1>4, <2>1
<1>9. ASSUME Agree(log[i], ledger[T], n) PROVE FALSE
  <2>1. n \in 1..n /\ n <= Len(log[i])
    BY <1>2, <1>8, <1>9 DEF Agree
  <2>2. log[i][n] = ledger[T][n]
    BY <1>9, <2>1 DEF Agree
  <2> QED  BY <1>7, <2>1, <2>2
<1>10. match[l][i] < n
  <2> SUFFICES ASSUME ~(match[l][i] < n) PROVE FALSE
    OBVIOUS
  <2>1. match[l][i] \in Nat /\ match[l][i] >= n /\ match[l][i] # 0
    <3>1. match[l][i] \in Nat
      BY <1>0 DEF TypeOK, LeadType
    <3> QED  BY <1>2, <1>8, <3>1
  <2>2. HasStored(T, i, match[l][i])
    BY <1>1, <2>1 DEF SafeInv, NetInv, MatchesHold, MatchHolds, GoodMatch
  <2>3. Agree(log[i], ledger[T], match[l][i])
    BY <1>0, <1>5, <2>1, <2>2, CurrentHeld
  <2>4. Agree(log[i], ledger[T], n)
    BY <1>2, <1>4, <1>5, <2>1, <2>3, AgreeShorter
  <2> QED  BY <1>9, <2>4
<1>11. ASSUME NEW b \in stored, b.node = i, b.term < T, n <= b.index PROVE Lost(b.term, n, T)
  <2> SUFFICES ASSUME ~Lost(b.term, n, T) PROVE FALSE
    OBVIOUS
  <2>0. b.term \in Nat /\ b.index \in Nat /\ b.term \in Terms /\ b.index \in 1..Len(ledger[b.term])
    BY <1>0 DEF TypeOK, HistType, HistoryInv, StoredShape, RecordShape
  <2>1. Len(ledger[b.term]) \in Nat
    BY <1>0, <2>0, LedgerType
  <2>2. \A w \in Terms : b.term < w /\ w <= T => Agree(ledger[w], ledger[b.term], n)
    BY DEF Lost
  <2>3. Agree(ledger[T], ledger[b.term], n)
    BY <1>2, <1>4, <1>11, <2>2
  <2>4. ASSUME Agree(log[i], ledger[b.term], n) PROVE FALSE
    BY <1>2, <1>9, <2>3, <2>4, AgreeMeet
  <2>5. Held(i, b.term, b.index)
    BY <1>0, <1>11 DEF StoredHeld, RecordHeld
  <2>6. CASE Agree(log[i], ledger[b.term], b.index)
    <3>1. Agree(log[i], ledger[b.term], n)
      BY <1>2, <1>5, <1>11, <2>0, <2>1, <2>6, AgreeShorter
    <3> QED  BY <2>4, <3>1
  <2>7. CASE persisted[i] > 0 /\ log[i][persisted[i]].term > b.term
    <3>1. PICK q, w : q = persisted[i] /\ w = log[i][q].term
      OBVIOUS
    <3>2. q \in 1..Len(log[i]) /\ q \in Nat /\ w \in Nat /\ w > b.term
      BY <1>5, <2>7, <3>1
    <3>3. w \in Terms /\ w <= T /\ Agree(log[i], ledger[w], q)
      BY <1>0, <1>5, <3>1, <3>2 DEF SafeInv, NodeInv, LogsAgree, LogAgrees
    <3>4. Agree(ledger[w], ledger[b.term], n) /\ Len(ledger[w]) \in Nat
      BY <1>0, <2>0, <2>2, <3>2, <3>3, LedgerType
    <3>5. CASE n <= q
      <4>1. Agree(log[i], ledger[w], n)
        BY <1>2, <1>5, <3>2, <3>3, <3>4, <3>5, AgreeShorter
      <4>2. Agree(log[i], ledger[b.term], n)
        BY <1>2, <3>4, <4>1, AgreeThrough
      <4> QED  BY <2>4, <4>2
    <3>6. CASE q < n
      <4>1. q \in 1..n /\ q \in 1..q /\ q \in 1..Len(ledger[b.term])
        BY <1>2, <1>11, <2>0, <2>1, <3>2, <3>6
      <4>2. log[i][q] = ledger[b.term][q]
        BY <3>3, <3>4, <4>1 DEF Agree
      <4>3. ledger[b.term][q].term <= b.term
        BY <1>0, <2>0, <4>1 DEF HistoryInv, LedgersAgree
      <4> QED  BY <2>0, <3>1, <3>2, <4>2, <4>3
    <3> QED  BY <1>2, <3>2, <3>5, <3>6
  <2> QED  BY <2>5, <2>6, <2>7 DEF Held
<1> QED  BY <1>1, <1>2, <1>5, <1>10, <1>11 DEF Floor

\* A follower takes its leader's entries, commits, applies and compacts.
Accepts(i, r, x, c, la) ==
  /\ TermAt(i, r.prev) = r.prevTerm
  /\ x = Appended(log[i], r.prev, r.entries)
  /\ c = Max(commitIndex[i], Min(r.commit, Len(x)))
  /\ la = Max(lastApplied[i], Min(c, Len(x)))
  /\ log' = [log EXCEPT ![i] = x]
  /\ persisted' = [persisted EXCEPT ![i] = Len(x)]
  /\ commitIndex' = [commitIndex EXCEPT ![i] = c]
  /\ lastApplied' = [lastApplied EXCEPT ![i] = la]
  /\ applied' = applied \cup Taken(x, lastApplied[i], c)
  /\ stored' = stored \cup {[term |-> r.term, node |-> i, index |-> Len(x)]}
  /\ snap' = [snap EXCEPT ![i] = Compacted(i, r.compact, la)]
  /\ UNCHANGED <<term, role, match, elected, ledger>>

\* What was committed is still there, and what is committed now is chosen.
LEMMA AcceptCommit ==
  ASSUME SafeInv, NEW i \in Server, NEW r \in Request, NEW f, GoodRequest(f, r), r.term = term[i],
         NEW x, NEW c, NEW la, Accepts(i, r, x, c, la)
  PROVE  /\ c \in Nat /\ commitIndex[i] <= c /\ c <= Len(x) /\ la = c /\ Min(c, Len(x)) = c
         /\ commitIndex[i] <= Len(x) /\ \A k \in 1..commitIndex[i] : x[k] = log[i][k]
         /\ c = 0 \/ \E t \in Terms : t <= term[i] /\ Chosen(t, c) /\ Agree(x, ledger[t], c)
<1>0. TypeOK /\ VoteInv /\ HistoryInv /\ CommitHolds(i)
  BY DEF SafeInv, NodeInv, CommitsHold
<1>1. PICK T : T = r.term
  OBVIOUS
<1>2. TermAt(i, r.prev) = r.prevTerm /\ x = Appended(log[i], r.prev, r.entries)
  BY DEF Accepts
<1>3. /\ T \in Terms /\ Len(x) \in Nat /\ Len(x) > 0 /\ Agree(x, ledger[T], Len(x))
      /\ \A n \in Nat : Agree(log[i], ledger[T], n) => n <= Len(x)
  <2>1. Result(i, T, r, x)
    BY <1>1, <1>2, AppendResult
  <2> QED  BY <2>1 DEF Result
<1>4. /\ commitIndex[i] \in Nat /\ lastApplied[i] \in Nat /\ r.commit \in Nat /\ T \in Nat
      /\ Len(ledger[T]) \in Nat
  BY <1>0, <1>1, <1>3, LedgerType DEF TypeOK, CursorType, Request
<1>5. ASSUME NEW n \in Nat, n <= Len(x), NEW t \in Terms, t <= T, Chosen(t, n)
      PROVE  Agree(x, ledger[t], n)
  <2>1. Agree(ledger[T], ledger[t], n)
    BY <1>0, <1>3, <1>5, Complete
  <2>2. Agree(x, ledger[T], n)
    BY <1>3, <1>4, <1>5, AgreeShorter
  <2> QED  BY <2>1, <2>2, AgreeThrough
<1>6. commitIndex[i] <= Len(x) /\ \A k \in 1..commitIndex[i] : x[k] = log[i][k]
  <2>1. CASE commitIndex[i] = 0
    BY <1>3, <2>1
  <2>2. CASE commitIndex[i] # 0
    <3>1. PICK t \in Terms : /\ t <= term[i] /\ Chosen(t, commitIndex[i])
                             /\ Agree(log[i], ledger[t], commitIndex[i])
      BY <1>0, <2>2 DEF CommitHolds
    <3>2. Agree(ledger[T], ledger[t], commitIndex[i])
      BY <1>0, <1>1, <1>3, <1>4, <3>1, Complete
    <3>3. Agree(log[i], ledger[T], commitIndex[i])
      BY <1>4, <3>1, <3>2, AgreeMeet
    <3>4. commitIndex[i] <= Len(x)
      BY <1>3, <1>4, <3>3
    <3>5. Agree(x, ledger[T], commitIndex[i])
      BY <1>3, <1>4, <3>4, AgreeShorter
    <3> QED  BY <3>3, <3>4, <3>5 DEF Agree
  <2> QED  BY <2>1, <2>2
<1>7. c = Max(commitIndex[i], Min(r.commit, Len(x))) /\ la = Max(lastApplied[i], Min(c, Len(x)))
  BY DEF Accepts
<1>8. /\ c \in Nat /\ commitIndex[i] <= c /\ c <= Len(x)
      /\ c = commitIndex[i] \/ c <= r.commit
  BY <1>3, <1>4, <1>6, <1>7 DEF Max, Min
<1>9. la = c /\ Min(c, Len(x)) = c
  <2>1. lastApplied[i] <= commitIndex[i]
    BY <1>0 DEF CommitHolds
  <2> QED  BY <1>3, <1>4, <1>7, <1>8, <2>1 DEF Max, Min
<1>10. ASSUME c # 0 PROVE \E t \in Terms : t <= term[i] /\ Chosen(t, c)
  <2>1. CASE c = commitIndex[i]
    BY <1>0, <1>10, <2>1 DEF CommitHolds
  <2>2. CASE c # commitIndex[i]
    <3>1. c <= r.commit /\ r.commit # 0
      BY <1>4, <1>8, <1>10, <2>2
    <3>2. PICK t \in Terms : t <= r.term /\ Chosen(t, r.commit)
      BY <3>1 DEF GoodRequest, GoodCommit
    <3>3. Chosen(t, c)
      BY <1>0, <1>4, <1>8, <3>1, <3>2, ChosenShorter
    <3> QED  BY <3>2, <3>3
  <2> QED  BY <2>1, <2>2
<1>11. ASSUME c # 0 PROVE \E t \in Terms : t <= term[i] /\ Chosen(t, c) /\ Agree(x, ledger[t], c)
  BY <1>1, <1>5, <1>8, <1>10, <1>11
<1> QED  BY <1>6, <1>8, <1>9, <1>11

\* What holds of the history, the logs, the disks and the cursors after it.
LEMMA AcceptData ==
  ASSUME SafeInv, TypeOK', NEW i \in Server, NEW r \in Request, NEW f, f # i, GoodRequest(f, r), r.term = term[i],
         NEW x, NEW c, NEW la, Accepts(i, r, x, c, la)
  PROVE  /\ HistoryGrows /\ LeadershipKept /\ HistoryInv' /\ LogsAgree' /\ LogsStored' /\ StoredHeld'
         /\ CommitsHold' /\ AppliedHold'
         /\ \A s \in Server : SnapHolds(s)'
         /\ \A a \in stored' \ stored : a.term >= term[a.node]
<1>0. TypeOK /\ VoteInv /\ HistoryInv /\ LedgersAgree /\ StoredShape /\ VotersCovered /\ CommitHolds(i)
  BY DEF SafeInv, HistoryInv, NodeInv, CommitsHold
<1>1. PICK T, N, b : T = r.term /\ N = Len(x) /\ b = [term |-> T, node |-> i, index |-> N]
  OBVIOUS
<1>2. /\ TermAt(i, r.prev) = r.prevTerm /\ x = Appended(log[i], r.prev, r.entries)
      /\ log' = [log EXCEPT ![i] = x] /\ persisted' = [persisted EXCEPT ![i] = N]
      /\ commitIndex' = [commitIndex EXCEPT ![i] = c] /\ lastApplied' = [lastApplied EXCEPT ![i] = la]
      /\ snap' = [snap EXCEPT ![i] = Compacted(i, r.compact, la)]
      /\ applied' = applied \cup Taken(x, lastApplied[i], c) /\ stored' = stored \cup {b}
      /\ UNCHANGED <<term, role, match, elected, ledger>>
  BY <1>1 DEF Accepts
<1>3. b.term = T /\ b.node = i /\ b.index = N
  BY <1>1
<1>4. /\ T \in Terms /\ N \in Nat /\ N > 0 /\ N \in 1..N
      /\ Agree(x, ledger[T], N) /\ x[N].term = T
      /\ x = log[i] \/ N = r.prev + Len(r.entries)
      /\ \A n \in Nat : Agree(log[i], ledger[T], n) => n <= N
  <2>1. /\ T \in Terms /\ Len(x) \in Nat /\ Len(x) > 0
        /\ Agree(x, ledger[T], Len(x)) /\ x[Len(x)].term = T
        /\ x = log[i] \/ Len(x) = r.prev + Len(r.entries)
        /\ \A n \in Nat : Agree(log[i], ledger[T], n) => n <= Len(x)
    <3>1. T = r.term /\ x = Appended(log[i], r.prev, r.entries) /\ TermAt(i, r.prev) = r.prevTerm
      BY <1>1, <1>2
    <3>2. Result(i, T, r, x)
      BY <3>1, AppendResult
    <3> QED  BY <3>2 DEF Result
  <2>2. N \in Nat /\ N > 0 /\ N \in 1..N
    BY <1>1, <2>1
  <2> QED  BY <1>1, <2>1, <2>2
<1>5. /\ c \in Nat /\ commitIndex[i] <= c /\ c <= N /\ la = c /\ Min(c, N) = c
      /\ commitIndex[i] <= N /\ \A k \in 1..commitIndex[i] : x[k] = log[i][k]
      /\ c = 0 \/ \E t \in Terms : t <= term[i] /\ Chosen(t, c) /\ Agree(x, ledger[t], c)
  BY <1>1, AcceptCommit
<1>6. /\ T \in Nat /\ ledger[T] \in Seq(Entry) /\ Len(ledger[T]) \in Nat /\ N \in 1..Len(ledger[T])
      /\ ledger[T][N].term = T /\ term[i] = T
  <2>1. T \in Nat /\ ledger[T] \in Seq(Entry) /\ Len(ledger[T]) \in Nat
    BY <1>0, <1>4, LedgerType
  <2>2. N \in 1..Len(ledger[T])
    BY <1>4, <2>1 DEF Agree
  <2>3. ledger[T][N] = x[N]
    BY <1>4 DEF Agree
  <2> QED  BY <1>1, <1>4, <2>1, <2>2, <2>3
<1>7. /\ term \in [Server -> Nat] /\ log \in [Server -> Seq(Entry)] /\ persisted \in [Server -> Nat]
      /\ snap \in [Server -> Nat] /\ commitIndex \in [Server -> Nat] /\ lastApplied \in [Server -> Nat]
      /\ match \in [Server -> [Server -> Nat]] /\ r.compact \in Nat
  BY <1>0 DEF TypeOK, StateType, LogType, CursorType, LeadType, Request
<1>8. /\ log'[i] = x /\ persisted'[i] = N /\ commitIndex'[i] = c /\ lastApplied'[i] = c
      /\ snap'[i] = Compacted(i, r.compact, c)
  BY <1>2, <1>5, <1>7
<1>9. \A s \in Server : s # i =>
        /\ log'[s] = log[s] /\ persisted'[s] = persisted[s] /\ commitIndex'[s] = commitIndex[s]
        /\ lastApplied'[s] = lastApplied[s] /\ snap'[s] = snap[s]
  BY <1>2, <1>7
<1>10. HistoryGrows
  <2>1. \A t \in Terms : Len(ledger[t]) \in Nat
    BY <1>0, LedgerType
  <2>2. Terms' = Terms /\ stored \subseteq stored' /\ \A s \in Server : term[s] <= term'[s]
    BY <1>2, <1>7 DEF Terms
  <2> QED  BY <1>2, <2>1, <2>2 DEF HistoryGrows
<1>11. LeadershipKept
  BY <1>2, SameLeadership DEF SafeInv
<1>12. \A a \in stored' \ stored : a.term >= term[a.node]
  BY <1>2, <1>3, <1>6
<1>13. LeaderStored(T, N)
  <2>1. CASE N = r.prev + Len(r.entries)
    BY <1>1, <2>1 DEF GoodRequest
  <2>2. CASE x = log[i]
    <3>1. WonBy(T, i) \/ LeaderStored(T, N)
      <4>1. N \in 1..Len(log[i]) /\ log[i][N].term = term[i]
        BY <1>1, <1>4, <1>6, <2>2
      <4> QED  BY <1>6, <4>1 DEF SafeInv, NodeInv, LogsStored, LogStored
    <3>2. WonBy(T, f)
      BY <1>1 DEF GoodRequest
    <3>3. ~WonBy(T, i)
      BY <1>0, <3>2 DEF VoteInv, ElectionSafety, WonBy
    <3> QED  BY <3>1, <3>3
  <2> QED  BY <1>4, <2>1, <2>2
<1>14. HistoryInv'
  <2>1. LedgersAgree'
    BY <1>0, <1>2 DEF LedgersAgree, Terms
  <2>2. RecordShape(b)'
    <3>1. LeaderStored(T, N)'
      BY <1>10, <1>13, GrowLeaderStored
    <3>2. T \in Terms' /\ N \in 1..Len(ledger'[T]) /\ ledger'[T][N].term = T
      BY <1>2, <1>4, <1>6 DEF Terms
    <3> QED  BY <1>3, <3>1, <3>2 DEF RecordShape
  <2>3. StoredShape'
    <3>1. ASSUME NEW a \in stored PROVE RecordShape(a)'
      BY <1>0, <1>10, KeepShape DEF StoredShape
    <3> QED  BY <1>2, <2>2, <3>1 DEF StoredShape
  <2>4. VotersCovered'
    <3>1. \A e \in elected : e.node \in e.voters /\ \A a \in stored' : VoterCovered(e, a)'
      BY <1>0, <1>10, <1>12, KeepVoters
    <3> QED  BY <1>2, <3>1 DEF VotersCovered
  <2> QED  BY <2>1, <2>3, <2>4 DEF HistoryInv
<1>15. LogAgrees(i)' /\ LogStored(i)'
  <2>1. ASSUME NEW k \in 1..N
        PROVE  /\ x[k].term \in Terms /\ x[k].term <= T /\ Agree(x, ledger[x[k].term], k)
               /\ LeaderStored(T, k)'
    <3>1. k \in Nat /\ k <= N /\ k \in 1..Len(ledger[T])
      BY <1>4, <1>6
    <3>2. x[k] = ledger[T][k] /\ Agree(x, ledger[T], k)
      BY <1>1, <1>4, <1>6, <3>1, AgreeShorter DEF Agree
    <3>3. PICK w : w = ledger[T][k].term
      OBVIOUS
    <3>4. w \in Terms /\ w <= T /\ Agree(ledger[T], ledger[w], k)
      BY <1>0, <1>4, <3>1, <3>3 DEF LedgersAgree
    <3>5. Agree(x, ledger[w], k)
      BY <3>1, <3>2, <3>4, AgreeThrough
    <3>6. LeaderStored(T, k)'
      <4>1. \A a \in stored : a.index \in Nat
        BY <1>0 DEF TypeOK, HistType
      <4>2. LeaderStored(T, k)
        BY <1>4, <1>13, <3>1, <4>1 DEF LeaderStored, HasStored
      <4> QED  BY <1>10, <4>2, GrowLeaderStored
    <3> QED  BY <3>2, <3>3, <3>4, <3>5, <3>6
  <2>2. LogAgrees(i)'
    <3>1. ASSUME NEW k \in 1..N
          PROVE  /\ x[k].term \in Terms' /\ x[k].term <= term'[i] /\ Agree(x, ledger'[x[k].term], k)
      BY <1>2, <1>6, <2>1 DEF Terms
    <3> QED  BY <1>1, <1>8, <3>1 DEF LogAgrees
  <2>3. LogStored(i)'
    <3>1. T = term'[i]
      BY <1>2, <1>6
    <3>2. \A k \in 1..Len(log'[i]) : LeaderStored(term[i], k)'
      BY <1>1, <1>8, <2>1, <3>1 DEF LeaderStored, HasStored
    <3> QED  BY <3>2 DEF LogStored
  <2> QED  BY <2>2, <2>3
<1>16. LogsAgree' /\ LogsStored'
  <2>1. ASSUME NEW s \in Server, s # i PROVE LogAgrees(s)' /\ LogStored(s)'
    <3>1. LogAgrees(s) /\ LogStored(s) /\ Len(log[s]) \in Nat
      BY <1>0, LogElements DEF SafeInv, NodeInv, LogsAgree, LogsStored
    <3>2. Len(log'[s]) <= Len(log[s]) /\ \A k \in 1..Len(log'[s]) : log'[s][k] = log[s][k]
      BY <1>9, <2>1, <3>1
    <3> QED  BY <1>0, <1>10, <3>1, <3>2, KeepLog
  <2> QED  BY <1>15, <2>1 DEF LogsAgree, LogsStored
<1>17. StoredHeld'
  <2>1. ASSUME NEW a \in stored PROVE RecordHeld(a)'
    <3>1. RecordShape(a) /\ RecordHeld(a) /\ a.node \in Server /\ a.term \in Nat /\ a.index \in Nat
      BY <1>0 DEF SafeInv, NodeInv, StoredShape, StoredHeld, TypeOK, HistType
    <3>2. CASE a.node # i
      BY <1>0, <1>9, <1>10, <3>1, <3>2, KeepHeld
    <3>3. CASE a.node = i /\ a.term # T
      <4>1. a.term < T /\ a.term <= term'[i]
        BY <1>2, <1>6, <3>1, <3>3 DEF RecordHeld
      <4>2. persisted'[i] > 0 /\ log'[i][persisted'[i]].term > a.term
        BY <1>4, <1>6, <1>8, <3>1, <4>1
      <4> QED  BY <3>3, <4>1, <4>2 DEF RecordHeld, Held
    <3>4. CASE a.node = i /\ a.term = T
      <4>1. HasStored(term[i], i, a.index)
        BY <1>6, <3>1, <3>4 DEF HasStored
      <4>2. Agree(log[i], ledger[T], a.index)
        BY <1>6, <3>1, <4>1, CurrentHeld
      <4>3. a.index <= N
        BY <1>4, <3>1, <4>2
      <4>4. Agree(x, ledger[T], a.index)
        BY <1>1, <1>4, <1>6, <3>1, <4>3, AgreeShorter
      <4>5. a.index <= persisted'[i] /\ Agree(log'[i], ledger'[T], a.index) /\ T <= term'[i]
        BY <1>2, <1>6, <1>8, <4>3, <4>4
      <4> QED  BY <3>4, <4>5 DEF RecordHeld, Held
    <3> QED  BY <3>2, <3>3, <3>4
  <2>2. RecordHeld(b)'
    <3>1. N <= persisted'[i] /\ Agree(log'[i], ledger'[T], N) /\ T <= term'[i]
      BY <1>2, <1>4, <1>6, <1>8
    <3> QED  BY <1>3, <3>1 DEF RecordHeld, Held
  <2> QED  BY <1>2, <2>1, <2>2 DEF StoredHeld
<1>18. CommitsHold'
  <2>1. ASSUME NEW s \in Server, s # i PROVE CommitHolds(s)'
    <3>1. CommitHolds(s) /\ persisted[s] <= persisted'[s]
      BY <1>7, <1>9, <2>1 DEF SafeInv, NodeInv, CommitsHold
    <3> QED  BY <1>0, <1>9, <1>10, <2>1, <3>1, KeepCommit
  <2>2. CommitHolds(i)'
    <3>1. snap'[i] <= lastApplied'[i]
      <4>1. snap[i] <= c
        BY <1>0, <1>5, <1>7 DEF CommitHolds
      <4> QED  BY <1>5, <1>7, <1>8, <4>1 DEF Compacted
    <3>2. lastApplied'[i] <= commitIndex'[i] /\ commitIndex'[i] <= persisted'[i]
      BY <1>5, <1>8
    <3>3. CASE c = 0
      BY <1>8, <3>1, <3>2, <3>3 DEF CommitHolds
    <3>4. CASE c # 0
      <4>1. PICK t \in Terms : t <= term[i] /\ Chosen(t, c) /\ Agree(x, ledger[t], c)
        BY <1>5, <3>4
      <4>2. Chosen(t, c)' /\ t \in Terms'
        BY <1>10, <4>1, GrowChosen DEF HistoryGrows
      <4>3. Chosen(t, commitIndex[i])'
        BY <1>8, <4>2 DEF Chosen, HasStored
      <4> QED  BY <1>2, <1>8, <3>1, <3>2, <4>1, <4>2, <4>3 DEF CommitHolds
    <3> QED  BY <3>3, <3>4
  <2> QED  BY <2>1, <2>2 DEF CommitsHold
<1>19. AppliedHold'
  <2>1. ASSUME NEW a \in applied PROVE AppliedHolds(a)'
    BY <1>0, <1>10, KeepApplied DEF SafeInv, NodeInv, AppliedHold
  <2>2. ASSUME NEW a \in Taken(x, lastApplied[i], c) PROVE AppliedHolds(a)'
    <3>1. PICK k \in lastApplied[i] + 1 .. c : a = [index |-> k, entry |-> x[k]]
      BY <1>1, <1>5, <2>2 DEF Taken
    <3>2. a.index = k /\ a.entry = x[k]
      BY <3>1
    <3>3. k \in Nat /\ k > 0 /\ k <= c /\ c # 0 /\ k \in 1..c
      BY <1>5, <1>7, <3>1
    <3>4. PICK t \in Terms : t <= term[i] /\ Chosen(t, c) /\ Agree(x, ledger[t], c)
      BY <1>5, <3>3
    <3>5. Chosen(t, k) /\ x[k] = ledger[t][k]
      BY <1>0, <1>5, <3>3, <3>4, ChosenShorter DEF Agree
    <3>6. Chosen(t, k)' /\ t \in Terms'
      BY <1>10, <3>5, GrowChosen DEF HistoryGrows
    <3> QED  BY <1>2, <3>2, <3>3, <3>5, <3>6 DEF AppliedHolds
  <2> QED  BY <1>2, <2>1, <2>2 DEF AppliedHold
<1>20. ASSUME NEW s \in Server PROVE SnapHolds(s)'
  <2>1. CASE snap'[s] = snap[s]
    BY <1>0, <1>10, <1>11, <2>1, KeepSnap DEF SafeInv, NetInv, PointsHold
  <2>2. CASE snap'[s] # snap[s]
    <3>1. s = i /\ snap'[i] = r.compact
      BY <1>8, <1>9, <2>2 DEF Compacted
    <3>2. PICK n \in Nat : n = r.compact
      BY <1>7
    <3>3. GoodPoint(T, n)
      BY <1>1, <3>2 DEF GoodRequest
    <3>4. GoodPoint(T, n)' /\ T \in Terms'
      BY <1>0, <1>4, <1>10, <1>11, <3>3, GrowPoint DEF HistoryGrows
    <3>5. n = snap'[s]
      BY <3>1, <3>2
    <3>6. GoodPoint(T, snap[s])'
      BY <3>4, <3>5 DEF GoodPoint, Everywhere, HasStored
    <3> QED  BY <3>4, <3>6 DEF SnapHolds
  <2> QED  BY <2>1, <2>2
<1> QED  BY <1>10, <1>11, <1>12, <1>14, <1>16, <1>17, <1>18, <1>19, <1>20

\* The answer a leader that still waits gets.
Answered(i, f, r, n) ==
  /\ exch[f][i].st = "handling" /\ exch[f][i].req = r
  /\ exch'[f][i].st = "acked" /\ exch'[f][i].term = r.term /\ exch'[f][i].ack.term = term[i]
  /\ exch'[f][i].ack.success => TermAt(i, r.prev) = r.prevTerm /\ exch'[f][i].ack.matchIndex = n
  /\ ~exch'[f][i].ack.success => TermAt(i, r.prev) # r.prevTerm

\* What the leader then knows of the follower.
LEMMA AnswerSafe ==
  ASSUME SafeInv, TypeOK', HistoryGrows, HistoryInv', NEW i \in Server, NEW f \in Peers(i), NEW r \in Request,
         GoodRequest(f, r), r.term = term[i], NEW n, Answered(i, f, r, n),
         TermAt(i, r.prev) = r.prevTerm =>
           /\ [term |-> r.term, node |-> i, index |-> n] \in stored' /\ n \in Nat
           /\ \A k \in Nat : Agree(log[i], ledger[r.term], k) => k <= n,
         UNCHANGED <<term, role, phase, next, match>>, log'[f] = log[f], LeaderHolds(f)',
         \A a \in stored' \ stored : a.term >= term[a.node]
  PROVE  SentGood(f, i)' /\ AckHolds(f, i)' /\ NextHolds(f, i)'
<1>0. TypeOK /\ VoteInv /\ HistoryInv /\ f \in Server /\ f # i /\ i \in Peers(f)
  BY DEF SafeInv, Peers
<1>1. /\ exch[f][i].st = "handling" /\ exch[f][i].req = r
      /\ exch'[f][i].st = "acked" /\ exch'[f][i].term = r.term /\ exch'[f][i].ack.term = term[i]
      /\ exch'[f][i].ack.success => TermAt(i, r.prev) = r.prevTerm /\ exch'[f][i].ack.matchIndex = n
      /\ ~exch'[f][i].ack.success => TermAt(i, r.prev) # r.prevTerm
  BY DEF Answered
<1>2. SentGood(f, i)' /\ AckHolds(f, i)'
  <2>1. SentGood(f, i)'
    BY <1>1 DEF SentGood
  <2>2. AckHolds(f, i)'
    BY <1>0, <1>1 DEF AckHolds
  <2> QED  BY <2>1, <2>2
<1>3. NextHolds(f, i)'
  <2> SUFFICES ASSUME role[f] = "Leader", phase[f] # "elected" PROVE NextHolds(f, i)'
    BY DEF NextHolds
  <2>1. /\ next[f][i] <= Len(log[f]) + 1 /\ Floor(f, i, next[f][i])
        /\ r.term = term[f] /\ r.prev = next[f][i] - 1
    BY <1>0, <1>1 DEF SafeInv, NetInv, NextHold, NextHolds
  <2>2. /\ next[f][i] \in Nat /\ next[f][i] > 0 /\ match[f][i] \in Nat /\ Len(log[f]) \in Nat /\ r.prev \in Nat
    BY <1>0, LogElements DEF TypeOK, LeadType, Request
  <2>3. ASSUME NEW m \in Nat, Floor(f, i, m) PROVE Floor(f, i, m)'
    <3>1. /\ Len(log[f]) <= Len(log'[f]) /\ \A k \in 1..Len(log[f]) : log'[f][k] = log[f][k]
          /\ \A k \in Len(log[f]) + 1..Len(log'[f]) : log'[f][k].term = term[f]
      BY <2>2
    <3> QED  BY <1>0, <2>3, <3>1, KeepFloor
  <2>4. PICK m \in Nat : m = next[f][i]
    BY <2>2
  <2>5. Floor(f, i, next[f][i])'
    <3>1. Floor(f, i, m)' /\ m = next'[f][i]
      BY <2>1, <2>3, <2>4
    <3> QED  BY <3>1 DEF Floor, Lost
  <2>6. ASSUME exch'[f][i].ack.success PROVE match'[f][i] <= exch'[f][i].ack.matchIndex
    <3>1. n \in Nat /\ (\A k \in Nat : Agree(log[i], ledger[r.term], k) => k <= n) /\ exch'[f][i].ack.matchIndex = n
      BY <1>1, <2>6
    <3>2. CASE match[f][i] = 0
      BY <3>1, <3>2
    <3>3. CASE match[f][i] # 0
      <4>1. HasStored(term[i], i, match[f][i])
        BY <1>0, <2>1, <3>3 DEF SafeInv, NetInv, MatchesHold, MatchHolds, GoodMatch
      <4>2. Agree(log[i], ledger[term[i]], match[f][i])
        BY <1>0, <2>2, <4>1, CurrentHeld
      <4> QED  BY <2>2, <3>1, <4>2
    <3> QED  BY <3>2, <3>3
  <2>7. ASSUME ~exch'[f][i].ack.success PROVE Floor(f, i, next[f][i] - 1)' /\ term'[i] >= term'[f]
    <3>1. Floor(f, i, r.prev)
      BY <1>0, <1>1, <2>1, <2>7, RefusalFloor
    <3>2. PICK p \in Nat : p = r.prev
      BY <2>2
    <3>3. Floor(f, i, p)' /\ p = next'[f][i] - 1
      BY <2>1, <2>3, <3>1, <3>2
    <3>4. Floor(f, i, next[f][i] - 1)'
      BY <3>3 DEF Floor, Lost
    <3>5. term'[i] >= term'[f]
      BY <1>0, <2>1 DEF TypeOK, StateType
    <3> QED  BY <3>4, <3>5
  <2>8. next'[f][i] <= Len(log'[f]) + 1 /\ exch'[f][i].term = term'[f]
    BY <1>1, <2>1
  <2> QED  BY <1>1, <2>5, <2>6, <2>7, <2>8 DEF NextHolds
<1> QED  BY <1>2, <1>3

\* A request refused leaves the data alone; one taken is AcceptData.
LEMMA FinishData ==
  ASSUME SafeInv, TypeOK', NEW i \in Server, NEW a \in appending[i], FinishAppend(i, a),
         NEW r, r = a.req, NEW f, f = a.from
  PROVE  /\ HistoryGrows /\ LeadershipKept /\ HistoryInv' /\ LogsAgree' /\ LogsStored' /\ StoredHeld'
         /\ CommitsHold' /\ AppliedHold'
         /\ \A s \in Server : SnapHolds(s)' /\ (s # i => log'[s] = log[s])
         /\ \A b \in stored' \ stored : b.term >= term[b.node]
         /\ \A k \in 1..commitIndex[i] : k <= Len(log'[i]) /\ log'[i][k] = log[i][k]
         /\ TermAt(i, r.prev) = r.prevTerm =>
              /\ [term |-> r.term, node |-> i, index |-> Len(log'[i])] \in stored' /\ Len(log'[i]) \in Nat
              /\ \A k \in Nat : Agree(log[i], ledger[r.term], k) => k <= Len(log'[i])
<1>0. TypeOK /\ CommitHolds(i) /\ AppendGood(i, a)
  BY DEF SafeInv, NodeInv, NetInv, CommitsHold, RequestsGood
<1>1. f # i /\ GoodRequest(f, r) /\ r.term = term[i] /\ r \in Request
  BY <1>0 DEF AppendGood, TypeOK, TaskType
<1>2. UNCHANGED <<term, role, match, elected, ledger>>
  BY DEF FinishAppend, stateVars, leadVars
<1>3. /\ log \in [Server -> Seq(Entry)] /\ persisted \in [Server -> Nat] /\ snap \in [Server -> Nat]
      /\ commitIndex \in [Server -> Nat] /\ lastApplied \in [Server -> Nat] /\ term \in [Server -> Nat]
      /\ match \in [Server -> [Server -> Nat]] /\ Len(log[i]) \in Nat /\ persisted[i] <= Len(log[i])
  <2>1. Len(log[i]) \in Nat /\ persisted[i] <= Len(log[i])
    BY <1>0, LogElements
  <2> QED  BY <1>0, <2>1 DEF TypeOK, LogType, CursorType, StateType, LeadType
<1>4. CASE TermAt(i, r.prev) = r.prevTerm
  <2>1. PICK x : x = Appended(log[i], r.prev, r.entries)
    OBVIOUS
  <2>2. PICK c : c = Max(commitIndex[i], Min(r.commit, Len(x)))
    OBVIOUS
  <2>3. PICK la : la = Max(lastApplied[i], Min(c, Len(x)))
    OBVIOUS
  <2>4. Accepts(i, r, x, c, la)
    BY <1>2, <1>4, <2>1, <2>2, <2>3 DEF FinishAppend, Accepts
  <2>5. /\ HistoryGrows /\ LeadershipKept /\ HistoryInv' /\ LogsAgree' /\ LogsStored' /\ StoredHeld'
        /\ CommitsHold' /\ AppliedHold'
        /\ \A s \in Server : SnapHolds(s)'
        /\ \A b \in stored' \ stored : b.term >= term[b.node]
    BY <1>1, <2>4, AcceptData
  <2>6. log' = [log EXCEPT ![i] = x] /\ stored' = stored \cup {[term |-> r.term, node |-> i, index |-> Len(x)]}
    BY <2>4 DEF Accepts
  <2>7. log'[i] = x /\ \A s \in Server : s # i => log'[s] = log[s]
    BY <1>3, <2>6
  <2>8. commitIndex[i] <= Len(x) /\ \A k \in 1..commitIndex[i] : x[k] = log[i][k]
    BY <1>1, <2>4, AcceptCommit
  <2>9. Len(x) \in Nat /\ \A k \in Nat : Agree(log[i], ledger[r.term], k) => k <= Len(x)
    <3>1. PICK T : T = r.term
      OBVIOUS
    <3>2. Result(i, T, r, x)
      BY <1>1, <1>4, <2>1, <3>1, AppendResult
    <3> QED  BY <3>1, <3>2 DEF Result
  <2>10. \A k \in 1..commitIndex[i] : k <= Len(x)
    BY <1>3, <2>8, <2>9
  <2> QED  BY <2>5, <2>6, <2>7, <2>8, <2>9, <2>10
<1>5. CASE TermAt(i, r.prev) # r.prevTerm
  <2>1. /\ log' = [log EXCEPT ![i] = log[i]] /\ persisted' = [persisted EXCEPT ![i] = @]
        /\ commitIndex' = [commitIndex EXCEPT ![i] = commitIndex[i]]
        /\ lastApplied' = [lastApplied EXCEPT ![i] = lastApplied[i]]
        /\ snap' = [snap EXCEPT ![i] = @]
        /\ applied' = applied \cup {} /\ stored' = stored \cup {}
    BY <1>5 DEF FinishAppend
  <2>2. log' = log /\ persisted' = persisted /\ commitIndex' = commitIndex /\ lastApplied' = lastApplied
        /\ snap' = snap /\ applied' = applied /\ stored' = stored
    BY <1>3, <2>1
  <2>3. DataSame
    BY <1>2, <1>3, <2>2 DEF DataSame
  <2>4. /\ HistoryGrows /\ HistoryInv' /\ LogsAgree' /\ LogsStored' /\ StoredHeld'
        /\ CommitsHold' /\ AppliedHold'
    BY <2>3, QuietData
  <2>5. LeadershipKept
    BY <1>2, SameLeadership DEF SafeInv
  <2>6. \A s \in Server : SnapHolds(s)'
    BY <1>0, <2>2, <2>4, <2>5, KeepSnap DEF SafeInv, NetInv, PointsHold
  <2>7. \A k \in 1..commitIndex[i] : k <= Len(log[i])
    BY <1>0, <1>3 DEF CommitHolds
  <2> QED  BY <1>5, <2>2, <2>4, <2>5, <2>6, <2>7
<1> QED  BY <1>4, <1>5

\* on_append_entries, second section.
LEMMA FinishAppendSafe ==
  ASSUME Races = {}, SafeInv, TypeOK', VoteInv', NEW i \in Server, NEW a \in appending[i], FinishAppend(i, a)
  PROVE  SafeInv'
<1>0. \A s \in Server : proposing[s] = {} /\ phase[s] # "elected" /\ todo[s] = {}
  BY FinishMeans DEF FinishAppend
<1>1. /\ UNCHANGED <<term, votedFor, role, next, match, phase, loopTerm, votes, compactTo, roundCommit, todo>>
      /\ UNCHANGED <<proposing, late, ballots, elected, ledger>>
      /\ appending' = [appending EXCEPT ![i] = @ \ {a}]
  BY DEF FinishAppend, stateVars, leadVars, loopVars, roundVars
<1>2. PICK r, f : r = a.req /\ f = a.from
  OBVIOUS
<1>3. TypeOK /\ VoteInv /\ HistoryInv /\ StoredShape /\ AppendGood(i, a)
  BY DEF SafeInv, HistoryInv, NetInv, RequestsGood
<1>4. f \in Server /\ f # i /\ GoodRequest(f, r) /\ r.term = term[i] /\ r \in Request /\ role[i] = "Follower"
      /\ f \in Peers(i)
  BY <1>2, <1>3 DEF AppendGood, TypeOK, TaskType, Peers
<1>5. /\ HistoryGrows /\ LeadershipKept /\ HistoryInv' /\ LogsAgree' /\ LogsStored' /\ StoredHeld'
      /\ CommitsHold' /\ AppliedHold'
      /\ \A s \in Server : SnapHolds(s)' /\ (s # i => log'[s] = log[s])
      /\ \A b \in stored' \ stored : b.term >= term[b.node]
      /\ TermAt(i, r.prev) = r.prevTerm =>
           /\ [term |-> r.term, node |-> i, index |-> Len(log'[i])] \in stored' /\ Len(log'[i]) \in Nat
           /\ \A k \in Nat : Agree(log[i], ledger[r.term], k) => k <= Len(log'[i])
  BY <1>2, <1>3, FinishData DEF SafeInv
<1>6. /\ exch \in [Server -> [Server -> Exchange]] /\ log \in [Server -> Seq(Entry)]
      /\ appending \in [Server -> SUBSET [from : Server, req : Request]]
  BY <1>3 DEF TypeOK, NetType, LogType, TaskType
<1>7. \/ exch' = exch
      \/ /\ Answered(i, f, r, Len(log'[i]))
         /\ \A l, s \in Server : ~(l = f /\ s = i) => exch'[l][s] = exch[l][s]
  <2> DEFINE ok == TermAt(i, r.prev) = r.prevTerm
             x == IF ok THEN Appended(log[i], r.prev, r.entries) ELSE log[i]
             e == [st |-> "acked", term |-> r.term,
                   ack |-> [term |-> term[i], success |-> ok, matchIndex |-> IF ok THEN Len(x) ELSE 0]]
  <2>1. CASE exch[f][i] = [st |-> "handling", req |-> r]
    <3>1. exch' = [exch EXCEPT ![f][i] = e] /\ log' = [log EXCEPT ![i] = x]
      BY <1>2, <2>1 DEF FinishAppend
    <3>2. log'[i] = x
      BY <1>6, <3>1
    <3>3. e.st = "acked" /\ e.term = r.term /\ e.ack.term = term[i] /\ e.ack.success = ok
          /\ (ok => e.ack.matchIndex = Len(x))
      OBVIOUS
    <3>4. exch[f][i].st = "handling" /\ exch[f][i].req = r
      BY <2>1
    <3> HIDE DEF e, x
    <3>5. exch'[f][i] = e /\ \A l, s \in Server : ~(l = f /\ s = i) => exch'[l][s] = exch[l][s]
      BY <1>4, <1>6, <3>1
    <3>6. Answered(i, f, r, Len(log'[i]))
      BY <3>2, <3>3, <3>4, <3>5, Zenon DEF Answered
    <3> QED  BY <3>5, <3>6
  <2>2. CASE exch[f][i] # [st |-> "handling", req |-> r]
    BY <1>2, <2>2 DEF FinishAppend
  <2> QED  BY <2>1, <2>2
<1>8. CandidatesCover'
  <2>1. ASSUME NEW c \in Server PROVE CandidateCovers(c)'
    <3>1. Standing(c)' => /\ Standing(c) /\ log'[c] = log[c]
                          /\ loopTerm'[c] = loopTerm[c] /\ votes'[c] = votes[c]
      BY <1>1, <1>4, <1>5 DEF Standing
    <3>2. CandidateCovers(c)
      BY DEF SafeInv, NodeInv, CandidatesCover
    <3> QED  BY <1>1, <1>3, <1>5, <3>1, <3>2, KeepCandidate
  <2> QED  BY <1>1, <2>1 DEF SafeInv, NodeInv, CandidatesCover
<1>9. GapsHold'
  BY <1>0, <1>1, NoGaps
<1>10. ASSUME NEW s \in Server PROVE Quiet(s)
  <2>1. phase[s] \in {"elect", "elected"} => \A j \in Server : exch'[s][j] = exch[s][j]
    <3> SUFFICES ASSUME phase[s] \in {"elect", "elected"}, NEW j \in Server PROVE exch'[s][j] = exch[s][j]
      OBVIOUS
    <3>1. exch[s][j].st = "idle"
      BY DEF SafeInv, NodeInv, PhasesHold, PhaseHolds
    <3> QED  BY <1>7, <3>1 DEF Answered
  <2> QED  BY <1>1, <2>1 DEF Quiet
<1>11. ASSUME NEW s \in Server, s # i PROVE Kept(s)
  BY <1>1, <1>5, <1>11 DEF Kept
<1>12. LeaderHolds(i)' /\ PhaseHolds(i)' /\ RoundHolds(i)'
  <2>1. PhaseHolds(i) /\ RoundHolds(i)
    BY DEF SafeInv, NodeInv, NetInv, PhasesHold, PointsHold
  <2>2. LeaderHolds(i)'
    BY <1>1, <1>4 DEF LeaderHolds
  <2>3. PhaseHolds(i)'
    BY <1>1, <1>3, <1>5, <1>10, <2>1, KeepPhase DEF Quiet
  <2>4. RoundHolds(i)'
    BY <1>1, <1>3, <1>5, <2>1, KeepRound
  <2> QED  BY <2>2, <2>3, <2>4
<1>13. ASSUME NEW j \in Peers(i) PROVE NextHolds(i, j)' /\ MatchHolds(i, j)'
  <2>1. NextHolds(i, j)'
    BY <1>1, <1>4 DEF NextHolds
  <2>2. MatchHolds(i, j)'
    BY <1>1, <1>5, <1>10, QuietMatch
  <2> QED  BY <2>1, <2>2
<1>14. LeaderHolds(f)'
  <2>1. LeaderHolds(f)
    BY <1>4 DEF SafeInv, NodeInv, LeadersHold
  <2> QED  BY <1>1, <1>4, <1>5, <2>1, KeepLeader DEF LeaderHolds
<1>15. ASSUME NEW l \in Server, NEW s \in Server
       PROVE  NetQuiet(l, s) \/ (SentGood(l, s)' /\ AckHolds(l, s)' /\ NextHolds(l, s)' /\ MatchHolds(l, s)')
  <2>1. CASE exch'[l][s] = exch[l][s]
    BY <2>1 DEF NetQuiet
  <2>2. CASE exch'[l][s] # exch[l][s]
    <3>1. l = f /\ s = i /\ Answered(i, f, r, Len(log'[i]))
      BY <1>7, <2>2
    <3>2. PICK n : n = Len(log'[i])
      OBVIOUS
    <3>3. Answered(i, f, r, n)
      BY <3>1, <3>2
    <3>4. TermAt(i, r.prev) = r.prevTerm =>
           /\ [term |-> r.term, node |-> i, index |-> n] \in stored' /\ n \in Nat
           /\ \A k \in Nat : Agree(log[i], ledger[r.term], k) => k <= n
      BY <1>5, <3>2
    <3>5. SentGood(f, i)' /\ AckHolds(f, i)' /\ NextHolds(f, i)'
      BY <1>1, <1>4, <1>5, <1>14, <3>3, <3>4, AnswerSafe
    <3>6. MatchHolds(f, i)'
      <4>1. i \in Peers(f)
        BY <1>4 DEF Peers
      <4> QED  BY <1>1, <1>4, <1>5, <1>10, <4>1, QuietMatch
    <3> QED  BY <3>1, <3>5, <3>6
  <2> QED  BY <2>1, <2>2
<1>16. \A m \in late' : LateGood(m)'
  BY <1>1, <1>5, QuietLate
<1>17. ASSUME NEW s \in Server, NEW d \in appending'[s] PROVE AppendGood(s, d)'
  <2>1. d \in appending[s]
    BY <1>1, <1>6
  <2>2. d.from # s /\ GoodRequest(d.from, d.req) /\ d.req.term = term[s] /\ role[s] = "Follower" /\ d.req \in Request
    BY <1>6, <2>1 DEF SafeInv, NetInv, RequestsGood, AppendGood
  <2>3. GoodRequest(d.from, d.req)'
    BY <1>3, <1>5, <2>2, GrowRequest
  <2> QED  BY <1>1, <2>2, <2>3 DEF AppendGood
<1>18. \A s \in Server : (Quiet(s) /\ Kept(s)) \/ (LeaderHolds(s)' /\ PhaseHolds(s)' /\ RoundHolds(s)')
  BY <1>10, <1>11, <1>12
<1>19. \A l, s \in Server : NetQuiet(l, s) \/ (SentGood(l, s)' /\ AckHolds(l, s)')
  BY <1>15
<1>20. \A s \in Server : \A j \in Peers(s) :
           \/ /\ Quiet(s) /\ Kept(s) /\ NetQuiet(s, j)
              /\ next'[s][j] = next[s][j] /\ match'[s][j] = match[s][j]
           \/ NextHolds(s, j)' /\ MatchHolds(s, j)'
  BY <1>1, <1>10, <1>11, <1>13, <1>15 DEF Peers
<1> QED  BY <1>5, <1>8, <1>9, <1>16, <1>17, <1>18, <1>19, <1>20, StepSafe

\* The initial state: no term has had a leader, nothing is stored and nothing sent.
LEMMA InitSafe == Init => SafeInv
<1> SUFFICES ASSUME Init PROVE SafeInv
  OBVIOUS
<1>1. /\ Terms = {} /\ stored = {} /\ elected = {} /\ applied = {} /\ late = {} /\ ballots = {}
      /\ \A i \in Server : /\ log[i] = << >> /\ role[i] = "Follower" /\ phase[i] = "idle"
                           /\ snap[i] = 0 /\ commitIndex[i] = 0 /\ lastApplied[i] = 0
                           /\ persisted[i] = 0 /\ Len(log[i]) = 0
                           /\ todo[i] = {} /\ proposing[i] = {} /\ appending[i] = {}
      /\ \A i, j \in Server : exch[i][j].st = "idle"
  BY DEF Init, Terms, NoExchange
<1>2. HistoryInv
  BY <1>1 DEF HistoryInv, LedgersAgree, StoredShape, VotersCovered
<1>3. NodeInv
  <2>1. LogsAgree /\ LogsStored
    BY <1>1 DEF LogsAgree, LogAgrees, LogsStored, LogStored
  <2>2. StoredHeld /\ LeadersHold /\ PhasesHold
    BY <1>1 DEF StoredHeld, LeadersHold, LeaderHolds, PhasesHold, PhaseHolds
  <2>3. CandidatesCover /\ CommitsHold /\ AppliedHold
    BY <1>1 DEF CandidatesCover, CandidateCovers, Standing, CommitsHold, CommitHolds, AppliedHold
  <2> QED  BY <2>1, <2>2, <2>3 DEF NodeInv
<1>4. NetInv
  <2>1. RequestsGood /\ GapsHold /\ AcksHold
    BY <1>1 DEF RequestsGood, SentGood, GapsHold, ProposeGap, LaunchGap, AcksHold, AckHolds
  <2>2. MatchesHold /\ NextHold /\ PointsHold
    BY <1>1 DEF MatchesHold, MatchHolds, NextHold, NextHolds, PointsHold, SnapHolds, RoundHolds
  <2> QED  BY <2>1, <2>2 DEF NetInv
<1> QED  BY <1>2, <1>3, <1>4, InitType, InitVote DEF SafeInv

\* A step that changes no variable.
LEMMA StutterSafe ==
  ASSUME SafeInv, TypeOK', VoteInv', UNCHANGED vars
  PROVE  SafeInv'
<1>1. /\ UNCHANGED <<term, role, log, persisted, snap, commitIndex, lastApplied, next, match>>
      /\ UNCHANGED <<phase, loopTerm, votes, compactTo, roundCommit, todo, proposing, appending>>
      /\ UNCHANGED <<exch, late, ballots, elected, applied, ledger, stored>>
  BY DEF vars, stateVars, logVars, diskVars, cursorVars, leadVars, loopVars, roundVars, taskVars,
         netVars, histVars
<1>2. HistoryInv'
  <2>1. LedgersAgree'
    BY <1>1 DEF SafeInv, HistoryInv, LedgersAgree, Agree, Terms
  <2>2. StoredShape'
    BY <1>1 DEF SafeInv, HistoryInv, StoredShape, RecordShape, Terms, LeaderStored, HasStored
  <2>3. VotersCovered'
    BY <1>1 DEF SafeInv, HistoryInv, VotersCovered, VoterCovered, Passed, Agree
  <2> QED  BY <2>1, <2>2, <2>3 DEF HistoryInv
<1>3. LogsAgree' /\ LogsStored' /\ StoredHeld'
  <2>1. LogsAgree'
    BY <1>1 DEF SafeInv, NodeInv, LogsAgree, LogAgrees, Agree, Terms
  <2>2. LogsStored'
    BY <1>1 DEF SafeInv, NodeInv, LogsStored, LogStored, WonBy, LeaderStored, HasStored
  <2>3. StoredHeld'
    BY <1>1 DEF SafeInv, NodeInv, StoredHeld, RecordHeld, Held, Agree
  <2> QED  BY <2>1, <2>2, <2>3
<1>4. LeadersHold' /\ PhasesHold'
  BY <1>1 DEF SafeInv, NodeInv, LeadersHold, LeaderHolds, PhasesHold, PhaseHolds, WonBy, LastTerm
<1>5. CandidatesCover'
  BY <1>1 DEF SafeInv, NodeInv, CandidatesCover, CandidateCovers, Standing, GrantCovered, Granted,
              LastTerm, LastIndex, Agree
<1>0. ASSUME NEW t, NEW k PROVE Chosen(t, k)' <=> Chosen(t, k)
  <2>1. {s \in Server : HasStored(t, s, k)}' = {s \in Server : HasStored(t, s, k)}
    BY <1>1 DEF HasStored
  <2> QED  BY <2>1 DEF Chosen, IsMajority
<1>6. CommitsHold' /\ AppliedHold'
  <2>2. CommitsHold'
    BY <1>0, <1>1 DEF SafeInv, NodeInv, CommitsHold, CommitHolds, Terms, Agree
  <2>3. AppliedHold'
    BY <1>0, <1>1 DEF SafeInv, NodeInv, AppliedHold, AppliedHolds, Terms
  <2> QED  BY <2>2, <2>3
<1>7. RequestsGood'
  <2>1. ASSUME NEW l, NEW r PROVE GoodRequest(l, r)' <=> GoodRequest(l, r)
    <3>1. GoodCommit(r.term, r.commit)' <=> GoodCommit(r.term, r.commit)
      BY <1>0, <1>1 DEF GoodCommit, Terms
    <3>2. GoodPoint(r.term, r.compact)' <=> GoodPoint(r.term, r.compact)
      BY <1>1 DEF GoodPoint, Everywhere, HasStored
    <3> QED  BY <1>1, <3>1, <3>2 DEF GoodRequest, WonBy, LeaderStored, HasStored
  <2>2. \A l, i \in Server : SentGood(l, i)'
    BY <1>1, <2>1 DEF SafeInv, NetInv, RequestsGood, SentGood
  <2>3. \A m \in late' : LateGood(m)'
    BY <1>1, <2>1 DEF SafeInv, NetInv, RequestsGood, LateGood
  <2>4. \A i \in Server : \A a \in appending'[i] : AppendGood(i, a)'
    BY <1>1, <2>1 DEF SafeInv, NetInv, RequestsGood, AppendGood
  <2> QED  BY <2>2, <2>3, <2>4 DEF RequestsGood
<1>8. GapsHold' /\ MatchesHold' /\ AcksHold'
  BY <1>1 DEF SafeInv, NetInv, GapsHold, ProposeGap, LaunchGap, MatchesHold, MatchHolds, GoodMatch,
              AcksHold, AckHolds, HasStored
<1>9. NextHold'
  BY <1>1 DEF SafeInv, NetInv, NextHold, NextHolds, Floor, Lost, Terms, Agree
<1>10. PointsHold'
  BY <1>1 DEF SafeInv, NetInv, PointsHold, SnapHolds, RoundHolds, GoodPoint, Everywhere, HasStored, Terms
<1> QED  BY <1>2, <1>3, <1>4, <1>5, <1>6, <1>7, <1>8, <1>9, <1>10 DEF SafeInv, NodeInv, NetInv

\* Every step of a node keeps the invariant of the replicated log.
LEMMA NextSafe ==
  ASSUME Races = {}, Cardinality(Server) >= 2, SafeInv, TypeOK', VoteInv', [Next]_vars
  PROVE  SafeInv'
<1>1. ASSUME NEW i \in Server, StartElection(i) PROVE SafeInv'
  BY <1>1, StartElectionSafe
<1>2. ASSUME NEW m \in ballots, OnRequestVote(m) PROVE SafeInv'
  BY <1>2, OnRequestVoteSafe
<1>3. ASSUME NEW i \in Server, Tally(i) PROVE SafeInv'
  BY <1>3, TallySafe
<1>4. ASSUME NEW i \in Server, TakeOffice(i) PROVE SafeInv'
  BY <1>4, TakeOfficeSafe
<1>5. ASSUME NEW i \in Server, NEW v \in Value, Propose(i, v) PROVE SafeInv'
  BY <1>5, ProposeSafe
<1>6. ASSUME NEW i \in Server, NEW p \in proposing[i], ProposeAppend(i, p) PROVE SafeInv'
  BY <1>6, ProposeAppendSafe
<1>7. ASSUME NEW i \in Server, RoundStart(i) PROVE SafeInv'
  BY <1>7, RoundStartSafe
<1>8. ASSUME NEW i \in Server, NEW J \in SUBSET todo[i], Launch(i, J) PROVE SafeInv'
  BY <1>8, LaunchSafe
<1>9. ASSUME NEW i \in Server, NEW j \in Server, TakeReply(i, j) PROVE SafeInv'
  BY <1>9, TakeReplySafe
<1>10. ASSUME NEW i \in Server, NEW j \in Server, Timeout(i, j) PROVE SafeInv'
  BY <1>10, TimeoutSafe
<1>11. ASSUME NEW i \in Server, NEW j \in Server, Resend(i, j) PROVE SafeInv'
  BY <1>11, ResendSafe
<1>12. ASSUME NEW i \in Server, RoundEnd(i) PROVE SafeInv'
  BY <1>12, RoundEndSafe
<1>13. ASSUME NEW i \in Server, StepDown(i) PROVE SafeInv'
  BY <1>13, StepDownSafe
<1>14. ASSUME NEW i \in Server, NEW l \in Server, OnAppendEntries(i, l) PROVE SafeInv'
  BY <1>14, OnAppendEntriesSafe
<1>15. ASSUME NEW m \in late, OnLateAppendEntries(m) PROVE SafeInv'
  BY <1>15, OnLateAppendEntriesSafe
<1>16. ASSUME NEW i \in Server, NEW a \in appending[i], FinishAppend(i, a) PROVE SafeInv'
  BY <1>16, FinishAppendSafe
<1>17. ASSUME NEW i \in Server, Crash(i) PROVE SafeInv'
  BY <1>17, CrashSafe
<1>18. CASE UNCHANGED vars
  BY <1>18, StutterSafe
<1> QED
  BY <1>1, <1>2, <1>3, <1>4, <1>5, <1>6, <1>7, <1>8, <1>9, <1>10, <1>11, <1>12, <1>13,
     <1>14, <1>15, <1>16, <1>17, <1>18 DEF Next

----------------------------------------------------------------------------
(* The theorems about the replicated log. *)

\* The inductive invariant holds of every behaviour.
THEOREM LogInvariant ==
  ASSUME Races = {}, Cardinality(Server) >= 2
  PROVE  Spec => []SafeInv
<1>1. SafeInv /\ TypeOK' /\ VoteInv' /\ [Next]_vars => SafeInv'
  BY NextSafe
<1> QED  BY <1>1, InitSafe, TypeCorrect, VotesHold, PTL DEF Spec

\* raftlog.rs, append_entries and leader_append: two logs that have an entry of the same
\* index and term are the same up to it, whatever the number of nodes, of crashes
\* and of lost, late and repeated messages.
THEOREM LogsMatch ==
  ASSUME Races = {}, Cardinality(Server) >= 2
  PROVE  Spec => []LogMatching
BY LogInvariant, SafeLogMatching, PTL

\* cluster.rs, apply_ready: no two nodes ever apply different entries at one index.
THEOREM StateMachines ==
  ASSUME Races = {}, Cardinality(Server) >= 2
  PROVE  Spec => []StateMachineSafety
BY LogInvariant, SafeStateMachine, PTL

\* cluster.rs, advance_commit_and_apply: what any node has applied is on the disks
\* of a majority, so no minority of crashes loses it.
THEOREM AppliedDurable ==
  ASSUME Races = {}, Cardinality(Server) >= 2
  PROVE  Spec => []AppliedOnQuorum
BY LogInvariant, SafeOnQuorum, PTL

\* raftlog.rs, is_up_to_date, with maybe_commit's rule that only an entry of the leader's own
\* term commits: a leader has what earlier leaders' clusters have applied.
THEOREM LeadersComplete ==
  ASSUME Races = {}, Cardinality(Server) >= 2
  PROVE  Spec => []LeaderCompleteness
BY LogInvariant, SafeLeader, PTL

\* cluster.rs, compact_index: compaction never drops an entry a peer has still to
\* be sent.
THEOREM PeersNotStranded ==
  ASSUME Races = {}, Cardinality(Server) >= 2
  PROVE  Spec => []NoStrandedPeer
BY LogInvariant, SafeNoStranded, PTL

\* A leader's append leaves the entries it had.
LEMMA AppendKeeps ==
  ASSUME SafeInv, NEW i \in Server, NEW x \in Entry, role[i] = "Leader", x.term = term[i],
         LeaderAppended(i, term[i], x), NEW s \in Server, NEW k \in 1..Len(log[s])
  PROVE  k <= Len(log'[s]) /\ log'[s][k] = log[s][k]
<1>1. PICK T : T = term[i]
  OBVIOUS
<1>2. LeaderAppended(i, T, x) /\ x.term = T
  BY <1>1
<1>3. /\ Len(log[i]) \in Nat /\ Len(log'[i]) = Len(log[i]) + 1
      /\ \A n \in 1..Len(log[i]) : log'[i][n] = log[i][n]
      /\ \A r \in Server : r # i => log'[r] = log[r]
  BY <1>1, <1>2, AppendedLedger
<1>4. CASE s = i
  BY <1>3, <1>4
<1>5. CASE s # i
  <2>1. Len(log[s]) \in Nat
    BY LogElements DEF SafeInv
  <2> QED  BY <1>3, <1>5, <2>1
<1> QED  BY <1>4, <1>5

\* A step that leaves the applied entries of every node where they are.
AppliedStay ==
  \A i \in Server : \A k \in 1..lastApplied[i] : k <= Len(log'[i]) /\ log'[i][k] = log[i][k]

\* Every step does, since what a node has applied is on its disk and chosen.
LEMMA NextAppliedStay ==
  ASSUME SafeInv, TypeOK', [Next]_vars  PROVE [AppliedStay]_vars
<1>1. \A s \in Server : /\ lastApplied[s] \in Nat /\ commitIndex[s] \in Nat /\ persisted[s] \in Nat
                        /\ Len(log[s]) \in Nat /\ lastApplied[s] <= commitIndex[s]
                        /\ commitIndex[s] <= persisted[s] /\ persisted[s] <= Len(log[s])
                        /\ log[s] \in Seq(Entry)
  <2> SUFFICES ASSUME NEW s \in Server
               PROVE  /\ lastApplied[s] \in Nat /\ commitIndex[s] \in Nat /\ persisted[s] \in Nat
                      /\ Len(log[s]) \in Nat /\ lastApplied[s] <= commitIndex[s]
                      /\ commitIndex[s] <= persisted[s] /\ persisted[s] <= Len(log[s])
                      /\ log[s] \in Seq(Entry)
    OBVIOUS
  <2>1. TypeOK /\ CommitHolds(s)
    BY DEF SafeInv, NodeInv, CommitsHold
  <2>2. log[s] \in Seq(Entry) /\ Len(log[s]) \in Nat /\ persisted[s] \in Nat /\ persisted[s] <= Len(log[s])
    BY <2>1, LogElements
  <2>3. lastApplied[s] \in Nat /\ commitIndex[s] \in Nat
    BY <2>1 DEF TypeOK, CursorType
  <2> QED  BY <2>1, <2>2, <2>3 DEF CommitHolds
<1>2. ASSUME NEW i \in Server, TakeOffice(i) PROVE AppliedStay
  <2>1. TypeOK /\ LeaderHolds(i) /\ PhaseHolds(i) /\ phase[i] = "elected"
    BY <1>2 DEF SafeInv, NodeInv, LeadersHold, PhasesHold, TakeOffice
  <2>2. role[i] = "Leader" /\ loopTerm[i] = term[i] /\ term[i] \in Nat
    BY <2>1 DEF LeaderHolds, PhaseHolds, TypeOK, StateType
  <2>3. PICK x : x = [term |-> term[i], val |-> Noop]
    OBVIOUS
  <2>4. x \in Entry /\ x.term = term[i]
    BY <2>2, <2>3 DEF Entry
  <2>5. LeaderAppended(i, term[i], x)
    BY <1>2, <2>2, <2>3 DEF TakeOffice, LeaderAppended, stateVars
  <2>6. \A s \in Server : \A k \in 1..Len(log[s]) : k <= Len(log'[s]) /\ log'[s][k] = log[s][k]
    BY <2>2, <2>4, <2>5, AppendKeeps
  <2> QED  BY <1>1, <2>6 DEF AppliedStay
<1>3. ASSUME NEW i \in Server, NEW p \in proposing[i], ProposeAppend(i, p) PROVE AppliedStay
  <2>1. TypeOK /\ ProposeGap(i)
    BY DEF SafeInv, NetInv, GapsHold
  <2>2. role[i] = "Leader" /\ p.term = term[i] /\ p.term \in Nat /\ p.val \in Value
    BY <2>1 DEF ProposeGap, TypeOK, TaskType
  <2>3. PICK x : x = [term |-> p.term, val |-> p.val]
    OBVIOUS
  <2>4. x \in Entry /\ x.term = term[i]
    BY <2>2, <2>3 DEF Entry
  <2>5. LeaderAppended(i, term[i], x)
    BY <1>3, <2>2, <2>3 DEF ProposeAppend, LeaderAppended, stateVars
  <2>6. \A s \in Server : \A k \in 1..Len(log[s]) : k <= Len(log'[s]) /\ log'[s][k] = log[s][k]
    BY <2>2, <2>4, <2>5, AppendKeeps
  <2> QED  BY <1>1, <2>6 DEF AppliedStay
<1>4. ASSUME NEW i \in Server, NEW a \in appending[i], FinishAppend(i, a) PROVE AppliedStay
  <2>1. PICK r, f : r = a.req /\ f = a.from
    OBVIOUS
  <2>2. /\ \A s \in Server : s # i => log'[s] = log[s]
        /\ \A k \in 1..commitIndex[i] : k <= Len(log'[i]) /\ log'[i][k] = log[i][k]
    BY <1>4, <2>1, FinishData
  <2> QED  BY <1>1, <2>2 DEF AppliedStay
<1>5. ASSUME NEW i \in Server, Crash(i) PROVE AppliedStay
  <2>1. DOMAIN log = Server /\ log' = [log EXCEPT ![i] = SubSeq(log[i], 1, persisted[i])]
    BY <1>5 DEF Crash, SafeInv, TypeOK, LogType
  <2>2. log'[i] = SubSeq(log[i], 1, persisted[i]) /\ \A s \in Server : s # i => log'[s] = log[s]
    BY <2>1
  <2>3. Len(log'[i]) = persisted[i] /\ \A k \in 1..persisted[i] : log'[i][k] = log[i][k]
    BY <1>1, <2>2, SubSeqProperties
  <2>4. \A k \in 1..lastApplied[i] : k \in 1..persisted[i] /\ k <= persisted[i]
    BY <1>1
  <2>5. ASSUME NEW s \in Server, NEW k \in 1..lastApplied[s]
        PROVE  k <= Len(log'[s]) /\ log'[s][k] = log[s][k]
    <3>1. CASE s = i
      BY <2>3, <2>4, <3>1
    <3>2. CASE s # i
      BY <1>1, <2>2, <3>2
    <3> QED  BY <3>1, <3>2
  <2> QED  BY <2>5 DEF AppliedStay
<1>6. ASSUME log' = log PROVE AppliedStay
  BY <1>1, <1>6 DEF AppliedStay
<1>7. ASSUME NEW i \in Server,
             \/ StartElection(i) \/ Tally(i) \/ RoundStart(i) \/ RoundEnd(i) \/ StepDown(i)
             \/ \E v \in Value : Propose(i, v)
             \/ \E J \in SUBSET todo[i] : Launch(i, J)
             \/ \E j \in Server : TakeReply(i, j) \/ Timeout(i, j) \/ Resend(i, j) \/ OnAppendEntries(i, j)
      PROVE  log' = log
  BY <1>7 DEF StartElection, Tally, RoundStart, RoundEnd, StepDown, Propose, Launch, TakeReply,
              Timeout, Resend, OnAppendEntries, logVars, diskVars
<1>8. ASSUME \/ \E m \in ballots : OnRequestVote(m)
             \/ \E m \in late : OnLateAppendEntries(m)
      PROVE  log' = log
  BY <1>8 DEF OnRequestVote, OnLateAppendEntries, logVars, diskVars
<1>9. CASE UNCHANGED vars
  BY <1>9
<1> QED  BY <1>2, <1>3, <1>4, <1>5, <1>6, <1>7, <1>8, <1>9 DEF Next

\* raftlog.rs, append_entries and RaftLog::open: no step truncates or replaces an
\* entry its node has applied.
THEOREM AppliedEntriesStay ==
  ASSUME Races = {}, Cardinality(Server) >= 2
  PROVE  Spec => AppliedPrefixStable
<1>1. SafeInv /\ TypeOK' /\ [Next]_vars => [AppliedStay]_vars
  BY NextAppliedStay
<1> QED  BY <1>1, LogInvariant, TypeCorrect, PTL DEF Spec, AppliedPrefixStable, AppliedStay
=============================================================================
