---------------------------- MODULE SerialStore -----------------------------
(***************************************************************************)
(* What the write path of the database promises its callers, whatever the  *)
(* writer thread does to be fast: the jobs take effect one after another,  *)
(* each on what the ones before it left, between its call and its return,  *)
(* and the caller is told what its job met there.  Jobs may take effect in *)
(* one step together, but only if some order of them explains every        *)
(* result.  A job that could not be carried out leaves no trace.  After a  *)
(* crash what took effect is still there, told or not.                     *)
(***************************************************************************)
EXTENDS Integers, Sequences, FiniteSets

CONSTANTS Client, Key, Absent, NoJob

VARIABLES
  db,     \* the state of the store
  call,   \* the job each client waits for, or NoJob
  done,   \* what the job has met, if it has taken effect
  reply   \* the last answer each client got

vars == <<db, call, done, reply>>

\* The job read what is in the store.
Current(s, j) ==
  /\ \A k \in DOMAIN j.keys : s[k] = j.keys[k]
  /\ \A r \in j.ranges : \A k \in r.range :
       s[k] = IF k \in DOMAIN r.content THEN r.content[k] ELSE Absent

\* A key to be new is there, or is inserted twice.
Clashes(s, j) ==
  \E n \in 1..Len(j.new) :
    \/ s[j.new[n].key] # Absent /\ j.new[n].key \notin j.deletes
    \/ \E m \in 1..n-1 : j.new[m].key = j.new[n].key

Meets(s, j) ==
  IF ~Current(s, j) THEN "conflict"
  ELSE IF Clashes(s, j) THEN "duplicate" ELSE "ok"

\* A put beats an insertion, which beats a deletion.
Becomes(s, j, k) ==
  LET ins == {n \in 1..Len(j.new) : j.new[n].key = k}
  IN  IF k \in DOMAIN j.puts THEN j.puts[k]
      ELSE IF ins # {} THEN j.new[CHOOSE n \in ins : TRUE].val
      ELSE IF k \in j.deletes THEN Absent ELSE s[k]

Leaves(s, j) == IF Meets(s, j) = "ok" THEN [k \in Key |-> Becomes(s, j, k)] ELSE s

\* The states a sequence of jobs goes through, starting at s.
Through(s, js) ==
  LET f[n \in 0..Len(js)] == IF n = 0 THEN s ELSE Leaves(f[n - 1], js[n])
  IN  f

Waiting == {c \in Client : call[c] # NoJob /\ done[c] = "none"}
Orders(S) == {o \in [1..Cardinality(S) -> S] : \A m, n \in DOMAIN o : o[m] = o[n] => m = n}

Init ==
  /\ db = [k \in Key |-> Absent]
  /\ call = [c \in Client |-> NoJob]
  /\ done = [c \in Client |-> "none"]
  /\ reply = [c \in Client |-> "none"]

\* A call may bring any job.
Call(c) ==
  /\ call[c] = NoJob
  /\ call'[c] # NoJob
  /\ call' = [call EXCEPT ![c] = call'[c]]
  /\ UNCHANGED <<db, done, reply>>

TakeEffect(o) ==
  LET js == [n \in DOMAIN o |-> call[o[n]]]
      ss == Through(db, js)
  IN  /\ db' = ss[Len(js)]
      /\ done' = [c \in Client |->
                    IF \E n \in DOMAIN o : o[n] = c
                    THEN LET n == CHOOSE n \in DOMAIN o : o[n] = c IN Meets(ss[n - 1], js[n])
                    ELSE done[c]]
      /\ UNCHANGED <<call, reply>>

Fail(S) ==
  /\ done' = [c \in Client |-> IF c \in S THEN "error" ELSE done[c]]
  /\ UNCHANGED <<db, call, reply>>

Return(c) ==
  /\ done[c] # "none"
  /\ reply' = [reply EXCEPT ![c] = done[c]]
  /\ done' = [done EXCEPT ![c] = "none"]
  /\ call' = [call EXCEPT ![c] = NoJob]
  /\ UNCHANGED db

Crash ==
  /\ reply' = [c \in Client |-> IF call[c] # NoJob THEN "lost" ELSE reply[c]]
  /\ call' = [c \in Client |-> NoJob]
  /\ done' = [c \in Client |-> "none"]
  /\ UNCHANGED db

Next ==
  \/ \E c \in Client : Call(c) \/ Return(c)
  \/ \E S \in SUBSET Waiting : S # {} /\ (Fail(S) \/ \E o \in Orders(S) : TakeEffect(o))
  \/ Crash

Spec == Init /\ [][Next]_vars
=============================================================================
