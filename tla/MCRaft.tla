------------------------------- MODULE MCRaft -------------------------------
(* Instances of Raft for TLC. *)
EXTENDS Raft, TLC

CONSTANTS s1, s2, s3, v1, v2

\* A view that blanks what nothing can read any more: the main loop's locals
\* outside the phase that uses them; that a node was a candidate, once its
\* election is over; progress of a node that leads no round, and the answers such
\* a node will throw away; late requests that will be refused; refused votes, and
\* vote requests that can only be refused by a voter of a term the candidate
\* already has, or whose candidate no longer waits.
Leads(i) == role[i] = "Leader" \/ phase[i] = "round"
Waits(m) == phase[m.cand] = "elect" /\ loopTerm[m.cand] = m.term
LiveBallots ==
  {m \in ballots :
     \/ m.term > term[m.to]
     \/ m.term = term[m.to] /\ votedFor[m.to] \in {None, m.cand}
     \/ m.term < term[m.to] /\ Waits(m)}
LiveLate == {m \in late : m.req.term >= term[m.to]}
LiveNodes ==
  <<term, votedFor, logVars, phase, todo, taskVars, elections, rounds, crashes, unproposed,
    [i \in Server |-> IF role[i] = "Candidate" /\ phase[i] # "elect"
                      THEN "Follower" ELSE role[i]],
    [i \in Server |-> {r \in votes[i] : r.granted \/ r.term > loopTerm[i]}],
    [i \in Server |-> IF phase[i] = "idle" THEN 0 ELSE loopTerm[i]],
    [i \in Server |-> IF phase[i] = "round" THEN compactTo[i] ELSE 0],
    [i \in Server |-> IF todo[i] # {} THEN roundCommit[i] ELSE 0],
    [i \in Server |-> IF Leads(i) THEN <<next[i], match[i]>> ELSE << >>],
    [i \in Server |-> [j \in Server |->
       IF exch[i][j].st = "acked" /\ ~Leads(i) THEN NoExchange ELSE exch[i][j]]],
    LiveLate, LiveBallots>>

\* LiveNodes is enough for properties of logs and progress, which neither the history
\* nor the clients waiting for answers can change.  The others need them; of an
\* election won, the term and the winner.  VoteInv reads its voters too, and is checked
\* on one state of each class.
Live == <<LiveNodes, pending, applied, acked, {<<e.term, e.node>> : e \in elected}>>

\* Every variable except the two histories that only the proofs read.
Plain == <<stateVars, logVars, leadVars, pending, loopVars, taskVars, netVars, envVars, elected,
           applied, acked>>

\* One election at a time, each to the last answer that can matter.  Constraints read
\* only what the views keep.
ElectionsApart ==
  /\ Cardinality({i \in Server : phase[i] = "elect"}) <= 1
  /\ \A m \in LiveBallots : Waits(m)

\* Bounds that a run does not reach together: a crash and a client's write within two
\* elections that may overlap, or a third election after them; requests delivered late
\* within two rounds, or a third round.
CrashOrThirdTerm == elections <= 2 \/ (crashes = 0 /\ unproposed = Value /\ ElectionsApart)
LateOrThirdRound == ElectionsApart /\ (rounds <= 2 \/ LiveLate = {})

Symmetry == Permutations(Server)
=============================================================================
