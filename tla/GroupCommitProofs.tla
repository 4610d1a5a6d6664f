------------------------- MODULE GroupCommitProofs --------------------------
(***************************************************************************)
(* What TLAPS proves about GroupCommit, for any clients, keys, values,     *)
(* jobs and limits.                                                        *)
(***************************************************************************)
EXTENDS GroupCommit, NaturalRecursion, FiniteSetTheorems, SequenceTheorems, TLAPS

Value == Val \cup {Absent}
State == [Key -> Value]

----------------------------------------------------------------------------
(* Storage operations *)

\* Deleting, inserting and putting lead from states to states.
LEMMA OperationTypes ==
  ASSUME NEW s \in State
  PROVE  /\ \A D \in SUBSET Key : Remove(s, D) \in State
         /\ \A kv \in Row : Insert(s, kv) \in State
         /\ \A f \in Pairs : Put(s, f) \in State
<1>1. \A D \in SUBSET Key : Remove(s, D) \in State
  BY DEF Remove, State, Value
<1>2. \A kv \in Row : Insert(s, kv) \in State
  BY DEF Insert, State, Value, Row
<1>3. ASSUME NEW f \in Pairs PROVE Put(s, f) \in State
  <2>1. PICK D \in SUBSET Key : f \in [D -> Val]
    BY DEF Pairs
  <2> QED  BY <2>1 DEF Put, State, Value
<1> QED  BY <1>1, <1>2, <1>3

\* The states an insertion of several keys goes through.
LEMMA InsertedFacts ==
  ASSUME NEW s \in State, NEW new \in Seq(Row)
  PROVE  /\ Inserted(s, new) \in [0..Len(new) -> State]
         /\ Inserted(s, new)[0] = s
         /\ \A n \in 1..Len(new) : Inserted(s, new)[n] = Insert(Inserted(s, new)[n - 1], new[n])
<1> DEFINE N == Len(new)
           F == [p \in Nat \X State |-> IF p[1] \in 1..N THEN Insert(p[2], new[p[1]]) ELSE p[2]]
           g == Inserted(s, new)
<1>1. N \in Nat /\ \A n \in 1..N : new[n] \in Row
  OBVIOUS
<1>2. F \in [Nat \X State -> State]
  BY <1>1, OperationTypes
<1> HIDE DEF N
<1>3. \A n \in Nat : \A x \in State : n \in 1..N => F[<<n, x>>] = Insert(x, new[n])
  OBVIOUS
<1> HIDE DEF F
<1>4. PICK f \in [0..N -> State] : GoesOn(f, s, F, N)
  BY <1>1, <1>2, Recursion
<1>5. \A n \in 1..N : f[n] = Insert(f[n-1], new[n])
  <2> TAKE n \in 1..N
  <2>1. n \in Nat /\ f[n-1] \in State /\ f[n] = F[<<n, f[n-1]>>]
    BY <1>1, <1>4 DEF GoesOn
  <2> QED  BY <1>3, <2>1
<1>6. f = [n \in 0..N |-> IF n = 0 THEN s ELSE Insert(f[n - 1], new[n])]
  BY <1>1, <1>4, <1>5 DEF GoesOn
<1>7. g = [n \in 0..N |-> IF n = 0 THEN s ELSE Insert(g[n - 1], new[n])]
  BY <1>6 DEF Inserted, N
<1> HIDE DEF g
<1>8. g[0] = s /\ \A n \in 1..N : g[n] = Insert(g[n - 1], new[n])
  BY <1>1, <1>7
<1> DEFINE P == {n \in Nat : n <= N => g[n] \in State}
<1>9. 0 \in P
  BY <1>8
<1>10. ASSUME NEW n \in Nat, n \in P PROVE n + 1 \in P
  <2>1. CASE n + 1 <= N
    <3>1. n + 1 \in 1..N /\ n + 1 - 1 = n /\ g[n] \in State
      BY <1>1, <1>10, <2>1
    <3>2. g[n + 1] = Insert(g[n], new[n + 1])
      BY <1>8, <3>1
    <3>3. g[n + 1] \in State
      BY <1>1, <3>1, <3>2, OperationTypes
    <3> QED  BY <3>3
  <2>2. CASE ~(n + 1 <= N)
    BY <2>2
  <2> QED  BY <2>1, <2>2
<1> HIDE DEF P
<1>11. Nat \subseteq P
  BY <1>9, <1>10, SetInduction
<1>12. \A n \in 0..N : g[n] \in State
  BY <1>1, <1>11 DEF P
<1>13. g \in [0..N -> State]
  BY <1>7, <1>12
<1> QED  BY <1>8, <1>13 DEF N, g

\* After n insertions a key has what it had, if none of them is of that key, or else the
\* value of one that is.
LEMMA InsertedAt ==
  ASSUME NEW s \in State, NEW new \in Seq(Row), NEW k \in Key
  PROVE  \A n \in 0..Len(new) :
           \/ /\ \A m \in 1..n : new[m].key # k
              /\ Inserted(s, new)[n][k] = s[k]
           \/ \E m \in 1..n : new[m].key = k /\ Inserted(s, new)[n][k] = new[m].val
<1> DEFINE N == Len(new)
           g == Inserted(s, new)
           Kept(n) == (\A m \in 1..n : new[m].key # k) /\ g[n][k] = s[k]
           Taken(n) == \E m \in 1..n : new[m].key = k /\ g[n][k] = new[m].val
           P == {n \in Nat : n <= N => Kept(n) \/ Taken(n)}
<1>1. N \in Nat /\ \A n \in 1..N : new[n] \in Row
  OBVIOUS
<1>2. /\ g \in [0..N -> State] /\ g[0] = s
      /\ \A n \in 1..N : g[n] = Insert(g[n - 1], new[n])
  BY InsertedFacts
<1> HIDE DEF N, g
<1>3. 0 \in P
  BY <1>2
<1>4. ASSUME NEW n \in Nat, n \in P PROVE n + 1 \in P
  <2>1. CASE n + 1 <= N
    <3>1. n + 1 \in 1..N /\ n + 1 - 1 = n /\ n \in 0..N
      BY <1>1, <2>1
    <3>2. g[n + 1] = Insert(g[n], new[n + 1]) /\ g[n] \in State /\ new[n + 1] \in Row
      BY <1>1, <1>2, <3>1
    <3>3. g[n + 1][k] = IF new[n + 1].key = k THEN new[n + 1].val ELSE g[n][k]
      BY <3>2 DEF Insert, State, Row
    <3>4. 1..(n + 1) = 1..n \cup {n + 1}
      OBVIOUS
    <3>5. Kept(n) \/ Taken(n)
      BY <1>4, <2>1, <1>1
    <3>6. CASE new[n + 1].key = k
      <4>1. Taken(n + 1)
        BY <3>3, <3>4, <3>6
      <4> QED  BY <4>1
    <3>7. CASE new[n + 1].key # k
      <4>1. g[n + 1][k] = g[n][k]
        BY <3>3, <3>7
      <4>2. CASE Kept(n)
        <5>1. \A m \in 1..(n + 1) : new[m].key # k
          BY <3>4, <3>7, <4>2
        <5>2. Kept(n + 1)
          BY <4>1, <4>2, <5>1
        <5> QED  BY <5>2
      <4>3. CASE Taken(n)
        <5>1. PICK m \in 1..n : new[m].key = k /\ g[n][k] = new[m].val
          BY <4>3
        <5>2. m \in 1..(n + 1)
          BY <3>4, <5>1
        <5>3. Taken(n + 1)
          BY <4>1, <5>1, <5>2
        <5> QED  BY <5>3
      <4> QED  BY <3>5, <4>2, <4>3
    <3> QED  BY <3>6, <3>7
  <2>2. CASE ~(n + 1 <= N)
    BY <2>2
  <2> QED  BY <2>1, <2>2
<1> HIDE DEF P
<1>5. Nat \subseteq P
  BY <1>3, <1>4, SetInduction
<1>6. \A n \in 0..N : Kept(n) \/ Taken(n)
  BY <1>1, <1>5 DEF P
<1> QED  BY <1>6 DEF N, g

\* The parts of a job.
LEMMA JobFacts ==
  ASSUME NEW j \in Job
  PROVE  /\ j.kind \in Kind /\ j.new \in Seq(Row) /\ j.puts \in Pairs /\ j.deletes \in SUBSET Key
         /\ j.kind # "insert" => j.new = << >>
         /\ j.kind # "validated" => DOMAIN j.keys = {} /\ j.ranges = {}
         /\ DOMAIN j.keys \subseteq Key
         /\ \A r \in j.ranges : /\ r.range \in SUBSET Key /\ r.content \in Pairs
                                /\ DOMAIN r.content \subseteq r.range
<1>1. DOMAIN j.keys \subseteq Key
  BY DEF Job
<1> QED  BY <1>1 DEF Job

\* Partial functions from keys to values.
LEMMA PairsFacts ==
  ASSUME NEW f \in Pairs
  PROVE  /\ DOMAIN f \subseteq Key /\ f = [k \in DOMAIN f |-> f[k]]
         /\ \A k \in DOMAIN f : f[k] \in Val /\ f[k] # Absent
<1>1. PICK D \in SUBSET Key : f \in [D -> Val]
  BY DEF Pairs
<1> QED  BY <1>1, AbsentAssumption

\* A job alone in its transaction (apply_insert) is refused exactly if it would be refused in
\* a group (apply_jobs): two different checks of the code agree.
LEMMA AloneAsInGroup ==
  ASSUME NEW s \in State, NEW j \in Job
  PROVE  OutcomeAlone(s, j) = Outcome(s, j)
<1> DEFINE b == Remove(s, j.deletes)
           g == Inserted(b, j.new)
           N == Len(j.new)
<1>1. j.new \in Seq(Row) /\ j.deletes \in SUBSET Key
  BY JobFacts
<1>2. b \in State
  BY <1>1, OperationTypes
<1>3. N \in Nat /\ \A n \in 1..N : j.new[n].key \in Key /\ j.new[n].val # Absent
  <2>1. N \in Nat /\ \A n \in 1..N : j.new[n] \in Row
    BY <1>1
  <2>2. \A x \in Row : x.key \in Key /\ x.val # Absent
    BY AbsentAssumption DEF Row
  <2> HIDE DEF N
  <2> QED  BY <2>1, <2>2
<1>4. \A k \in Key : b[k] # Absent <=> k \notin j.deletes /\ s[k] # Absent
  BY <1>1 DEF Remove
<1>5. \A k \in Key : \A n \in 0..N :
        \/ (\A m \in 1..n : j.new[m].key # k) /\ g[n][k] = b[k]
        \/ \E m \in 1..n : j.new[m].key = k /\ g[n][k] = j.new[m].val
  BY <1>1, <1>2, InsertedAt
<1> HIDE DEF b, g, N
<1>6. ASSUME NEW n \in 1..N
      PROVE  g[n - 1][j.new[n].key] # Absent
               <=> \/ j.new[n].key \notin j.deletes /\ s[j.new[n].key] # Absent
                   \/ j.new[n].key \in {j.new[m].key : m \in 1..n-1}
  <2> DEFINE k == j.new[n].key
  <2>1. k \in Key /\ n - 1 \in 0..N /\ 1..n-1 \subseteq 1..N
    BY <1>3
  <2> HIDE DEF k
  <2>2. \/ (\A m \in 1..n-1 : j.new[m].key # k) /\ g[n - 1][k] = b[k]
        \/ \E m \in 1..n-1 : j.new[m].key = k /\ g[n - 1][k] = j.new[m].val
    BY <1>5, <2>1
  <2>3. CASE (\A m \in 1..n-1 : j.new[m].key # k) /\ g[n - 1][k] = b[k]
    BY <1>4, <2>1, <2>3 DEF k
  <2>4. CASE \E m \in 1..n-1 : j.new[m].key = k /\ g[n - 1][k] = j.new[m].val
    BY <1>3, <2>1, <2>4 DEF k
  <2> QED  BY <2>2, <2>3, <2>4
<1>7. InsertReplaces(s, j) <=> Duplicate(s, j)
  BY <1>6 DEF InsertReplaces, Duplicate, g, N, b
<1> QED  BY <1>7 DEF OutcomeAlone, Outcome

\* A range has the content read exactly if every key of it has what was read.
LEMMA ContentFacts ==
  ASSUME NEW s \in State, NEW R \in SUBSET Key, NEW f \in Pairs, DOMAIN f \subseteq R
  PROVE  Content(s, R) = f <=> \A k \in R : s[k] = IF k \in DOMAIN f THEN f[k] ELSE Absent
<1>1. DOMAIN f \subseteq Key /\ f = [k \in DOMAIN f |-> f[k]] /\ \A k \in DOMAIN f : f[k] # Absent
  BY PairsFacts
<1>2. ASSUME Content(s, R) = f
      PROVE  \A k \in R : s[k] = IF k \in DOMAIN f THEN f[k] ELSE Absent
  <2>1. DOMAIN f = {k \in R : s[k] # Absent}
    BY <1>2 DEF Content
  <2>2. \A k \in DOMAIN f : f[k] = s[k]
    BY <1>2, <2>1 DEF Content
  <2> QED  BY <2>1, <2>2
<1>3. ASSUME \A k \in R : s[k] = IF k \in DOMAIN f THEN f[k] ELSE Absent
      PROVE  Content(s, R) = f
  <2>1. DOMAIN f = {k \in R : s[k] # Absent}
    BY <1>1, <1>3
  <2>2. \A k \in DOMAIN f : f[k] = s[k]
    BY <1>3, <2>1
  <2>3. Content(s, R) = [k \in DOMAIN f |-> f[k]]
    BY <2>1, <2>2 DEF Content
  <2> QED  BY <1>1, <2>3
<1> QED  BY <1>2, <1>3

\* What a job of a group meets is what the serial store says it meets.
LEMMA OutcomeIsMeets ==
  ASSUME NEW s \in State, NEW j \in Job
  PROVE  Outcome(s, j) = Serial!Meets(s, j)
<1>1. Validates(s, j) <=> Serial!Current(s, j)
  <2>1. ASSUME NEW r \in j.ranges
        PROVE  Content(s, r.range) = r.content
                 <=> \A k \in r.range : s[k] = IF k \in DOMAIN r.content THEN r.content[k] ELSE Absent
    BY JobFacts, ContentFacts
  <2> QED  BY <2>1 DEF Validates, Serial!Current
<1>2. Duplicate(s, j) <=> Serial!Clashes(s, j)
  BY DEF Duplicate, Serial!Clashes
<1>3. j.kind # "insert" => ~Serial!Clashes(s, j)
  BY JobFacts DEF Serial!Clashes
<1>4. j.kind # "validated" => Serial!Current(s, j)
  BY JobFacts DEF Serial!Current
<1>5. j.kind \in Kind
  BY JobFacts
<1> QED  BY <1>1, <1>2, <1>3, <1>4, <1>5 DEF Outcome, IsValidated, Serial!Meets, Kind

\* The write-set of a job, as it is published.
WriteSet(j) == [puts |-> JobPuts(j), deletes |-> j.deletes]

\* The write-set of a job is made of keys and values.
LEMMA WriteSetType ==
  ASSUME NEW j \in Job
  PROVE  JobPuts(j) \in Pairs /\ WriteSet(j).puts \in Pairs /\ WriteSet(j).deletes \in SUBSET Key
<1> DEFINE D == DOMAIN j.puts \cup {j.new[n].key : n \in 1..Len(j.new)}
<1>1. /\ j.puts \in Pairs /\ j.new \in Seq(Row) /\ j.deletes \in SUBSET Key
      /\ DOMAIN j.puts \subseteq Key /\ \A k \in DOMAIN j.puts : j.puts[k] \in Val
  BY JobFacts, PairsFacts
<1>2. \A n \in 1..Len(j.new) : j.new[n].key \in Key /\ j.new[n].val \in Val
  <2>1. \A n \in 1..Len(j.new) : j.new[n] \in Row
    BY <1>1
  <2> QED  BY <2>1 DEF Row
<1>3. ASSUME NEW k \in D PROVE JobPuts(j)[k] \in Val
  <2>1. CASE k \in DOMAIN j.puts
    BY <1>1, <2>1 DEF JobPuts
  <2>2. CASE k \notin DOMAIN j.puts
    <3> DEFINE m == CHOOSE n \in 1..Len(j.new) : j.new[n].key = k
    <3>1. m \in 1..Len(j.new)
      BY <1>3, <2>2
    <3>2. JobPuts(j)[k] = j.new[m].val
      BY <2>2 DEF JobPuts
    <3> QED  BY <1>2, <3>1, <3>2
  <2> QED  BY <2>1, <2>2
<1>4. D \in SUBSET Key /\ JobPuts(j) = [k \in D |-> JobPuts(j)[k]]
  BY <1>1, <1>2 DEF JobPuts
<1>5. JobPuts(j) \in [D -> Val]
  BY <1>3, <1>4
<1>6. JobPuts(j) \in Pairs
  BY <1>4, <1>5 DEF Pairs
<1> QED  BY <1>1, <1>6 DEF WriteSet

\* The state a job that is not refused leaves, key by key: what the serial store says, and
\* what replaying the job's write-set gives.
LEMMA WrittenFacts ==
  ASSUME NEW s \in State, NEW j \in Job, Outcome(s, j) = "ok"
  PROVE  /\ Written(s, j) \in State
         /\ Written(s, j) = [k \in Key |-> Serial!Becomes(s, j, k)]
         /\ Written(s, j) = ReplayRecord(s, WriteSet(j))
<1> DEFINE b == Remove(s, j.deletes)
           N == Len(j.new)
           t == Inserted(b, j.new)[N]
           W == Written(s, j)
<1>1. j.new \in Seq(Row) /\ j.deletes \in SUBSET Key /\ j.puts \in Pairs
  BY JobFacts
<1>2. b \in State
  BY <1>1, OperationTypes
<1>3. N \in Nat
  BY <1>1
<1>4. t \in State
  BY <1>1, <1>2, <1>3, InsertedFacts
<1>5. W \in State
  BY <1>1, <1>4, OperationTypes DEF Written
<1>6. \A m, n \in 1..N : j.new[m].key = j.new[n].key => m = n
  <2>1. CASE j.kind = "insert"
    <3>1. ~Duplicate(s, j)
      BY <2>1 DEF Outcome, IsValidated
    <3>2. ASSUME NEW m \in 1..N, NEW n \in 1..N, j.new[m].key = j.new[n].key, m < n PROVE FALSE
      <4>1. m \in 1..n-1
        BY <3>2
      <4> QED  BY <3>1, <3>2, <4>1 DEF Duplicate
    <3> HIDE DEF N
    <3> QED  BY <1>3, <3>2
  <2>2. CASE j.kind # "insert"
    <3>1. N = 0
      BY <2>2, JobFacts
    <3> QED  BY <3>1
  <2> QED  BY <2>1, <2>2
<1>7. ASSUME NEW k \in Key
      PROVE  \/ (\A m \in 1..N : j.new[m].key # k) /\ t[k] = b[k]
             \/ \E m \in 1..N : j.new[m].key = k /\ t[k] = j.new[m].val
  BY <1>1, <1>2, <1>3, InsertedAt
<1>8. W = [k \in Key |-> IF k \in DOMAIN j.puts THEN j.puts[k] ELSE t[k]]
  BY DEF Written, Put
<1>9. b = [k \in Key |-> IF k \in j.deletes THEN Absent ELSE s[k]]
  BY DEF Remove
<1> HIDE DEF b, t, W, N
<1>10. ASSUME NEW k \in Key
       PROVE  W[k] = Serial!Becomes(s, j, k)
  <2> DEFINE ins == {n \in 1..N : j.new[n].key = k}
  <2>1. Serial!Becomes(s, j, k) =
          IF k \in DOMAIN j.puts THEN j.puts[k]
          ELSE IF ins # {} THEN j.new[CHOOSE n \in ins : TRUE].val
          ELSE IF k \in j.deletes THEN Absent ELSE s[k]
    BY DEF Serial!Becomes, N
  <2>2. CASE ins # {}
    <3> DEFINE m == CHOOSE n \in ins : TRUE
    <3>1. m \in 1..N /\ j.new[m].key = k
      BY <2>2
    <3> HIDE DEF m
    <3>2. t[k] = j.new[m].val
      BY <1>6, <1>7, <3>1
    <3> QED  BY <1>8, <2>1, <2>2, <3>2 DEF m
  <2>3. CASE ins = {}
    <3>1. t[k] = b[k]
      BY <1>7, <2>3
    <3> QED  BY <1>8, <1>9, <2>1, <2>3, <3>1
  <2> QED  BY <2>2, <2>3
<1>11. ASSUME NEW k \in Key
       PROVE  W[k] = ReplayRecord(s, WriteSet(j))[k]
  <2> DEFINE K == {j.new[n].key : n \in 1..N}
  <2>1. ReplayRecord(s, WriteSet(j))[k] = IF k \in DOMAIN JobPuts(j) THEN JobPuts(j)[k] ELSE b[k]
    BY DEF ReplayRecord, WriteSet, Put, b
  <2>2. DOMAIN JobPuts(j) = DOMAIN j.puts \cup K
    BY DEF JobPuts, N
  <2>3. CASE k \in DOMAIN j.puts
    <3>1. JobPuts(j)[k] = j.puts[k]
      BY <2>3 DEF JobPuts
    <3> QED  BY <1>8, <2>1, <2>2, <2>3, <3>1
  <2>4. CASE k \notin DOMAIN j.puts /\ k \in K
    <3> DEFINE m == CHOOSE n \in 1..N : j.new[n].key = k
    <3>1. m \in 1..N /\ j.new[m].key = k
      BY <2>4
    <3>2. JobPuts(j)[k] = j.new[m].val
      BY <2>2, <2>4 DEF JobPuts, N
    <3> HIDE DEF m
    <3>3. t[k] = j.new[m].val
      BY <1>6, <1>7, <3>1
    <3> QED  BY <1>8, <2>1, <2>2, <2>4, <3>2, <3>3
  <2>5. CASE k \notin DOMAIN j.puts /\ k \notin K
    <3>1. t[k] = b[k]
      BY <1>7, <2>5
    <3> QED  BY <1>8, <2>1, <2>2, <2>5, <3>1
  <2> QED  BY <2>3, <2>4, <2>5
<1>12. W = [k \in Key |-> Serial!Becomes(s, j, k)]
  BY <1>8, <1>10
<1>13. ReplayRecord(s, WriteSet(j)) = [k \in Key |-> ReplayRecord(s, WriteSet(j))[k]]
  BY DEF ReplayRecord, Put
<1>14. W = ReplayRecord(s, WriteSet(j))
  BY <1>8, <1>11, <1>13
<1> QED  BY <1>5, <1>12, <1>14 DEF W

----------------------------------------------------------------------------
(* Groups and logs *)

\* The state after one more job of a group.
Folded(s, j) == IF Outcome(s, j) = "ok" THEN Written(s, j) ELSE s

\* A job leads from states to states, as in the serial store.
LEMMA FoldedFacts ==
  ASSUME NEW s \in State, NEW j \in Job
  PROVE  Folded(s, j) \in State /\ Folded(s, j) = Serial!Leaves(s, j)
<1>1. Outcome(s, j) = Serial!Meets(s, j)
  BY OutcomeIsMeets
<1>2. CASE Outcome(s, j) = "ok"
  BY <1>1, <1>2, WrittenFacts DEF Folded, Serial!Leaves
<1>3. CASE Outcome(s, j) # "ok"
  BY <1>1, <1>3 DEF Folded, Serial!Leaves
<1> QED  BY <1>2, <1>3

\* The states the transaction of a group goes through.
LEMMA GroupStatesFacts ==
  ASSUME NEW s \in State, NEW js \in Seq(Job)
  PROVE  /\ GroupStates(s, js) \in [0..Len(js) -> State]
         /\ GroupStates(s, js)[0] = s
         /\ \A n \in 1..Len(js) : GroupStates(s, js)[n] = Folded(GroupStates(s, js)[n - 1], js[n])
<1> DEFINE N == Len(js)
           F == [p \in Nat \X State |-> IF p[1] \in 1..N THEN Folded(p[2], js[p[1]]) ELSE p[2]]
           g == GroupStates(s, js)
<1>1. N \in Nat /\ \A n \in 1..N : js[n] \in Job
  OBVIOUS
<1>2. F \in [Nat \X State -> State]
  BY <1>1, FoldedFacts
<1> HIDE DEF N
<1>3. \A n \in Nat : \A x \in State : n \in 1..N => F[<<n, x>>] = Folded(x, js[n])
  OBVIOUS
<1> HIDE DEF F
<1>4. PICK f \in [0..N -> State] : GoesOn(f, s, F, N)
  BY <1>1, <1>2, Recursion
<1>5. \A n \in 1..N : f[n] = Folded(f[n-1], js[n])
  <2> TAKE n \in 1..N
  <2>1. n \in Nat /\ f[n-1] \in State /\ f[n] = F[<<n, f[n-1]>>]
    BY <1>1, <1>4 DEF GoesOn
  <2> QED  BY <1>3, <2>1
<1>6. f = [n \in 0..N |-> IF n = 0 THEN s ELSE Folded(f[n - 1], js[n])]
  BY <1>1, <1>4, <1>5 DEF GoesOn
<1>7. g = [n \in 0..N |-> IF n = 0 THEN s ELSE Folded(g[n - 1], js[n])]
  BY <1>6 DEF GroupStates, N, Folded
<1> HIDE DEF g
<1>8. g[0] = s /\ \A n \in 1..N : g[n] = Folded(g[n - 1], js[n])
  BY <1>1, <1>7
<1> DEFINE P == {n \in Nat : n <= N => g[n] \in State}
<1>9. 0 \in P
  BY <1>8
<1>10. ASSUME NEW n \in Nat, n \in P PROVE n + 1 \in P
  <2>1. CASE n + 1 <= N
    <3>1. n + 1 \in 1..N /\ n + 1 - 1 = n /\ g[n] \in State
      BY <1>1, <1>10, <2>1
    <3>2. g[n + 1] = Folded(g[n], js[n + 1])
      BY <1>8, <3>1
    <3>3. g[n + 1] \in State
      BY <1>1, <3>1, <3>2, FoldedFacts
    <3> QED  BY <3>3
  <2>2. CASE ~(n + 1 <= N)
    BY <2>2
  <2> QED  BY <2>1, <2>2
<1> HIDE DEF P
<1>11. Nat \subseteq P
  BY <1>9, <1>10, SetInduction
<1>12. \A n \in 0..N : g[n] \in State
  BY <1>1, <1>11 DEF P
<1>13. g \in [0..N -> State]
  BY <1>7, <1>12
<1> QED  BY <1>8, <1>13 DEF N, g

\* The serial store goes through the same states.
LEMMA GroupIsSerial ==
  ASSUME NEW s \in State, NEW js \in Seq(Job)
  PROVE  Serial!Through(s, js) = GroupStates(s, js)
<1> DEFINE N == Len(js)
           g == GroupStates(s, js)
           h == Serial!Through(s, js)
<1>1. N \in Nat /\ \A n \in 1..N : js[n] \in Job
  OBVIOUS
<1>2. g \in [0..N -> State] /\ g[0] = s /\ \A n \in 1..N : g[n] = Folded(g[n - 1], js[n])
  BY GroupStatesFacts
<1> HIDE DEF N, g
<1>3. \A n \in 1..N : g[n] = Serial!Leaves(g[n - 1], js[n])
  <2> TAKE n \in 1..N
  <2>1. n - 1 \in 0..N
    BY <1>1
  <2> QED  BY <1>1, <1>2, <2>1, FoldedFacts
<1>4. g = [n \in 0..N |-> IF n = 0 THEN s ELSE Serial!Leaves(g[n - 1], js[n])]
  BY <1>1, <1>2, <1>3
<1>5. h = [n \in 0..N |-> IF n = 0 THEN s ELSE Serial!Leaves(h[n - 1], js[n])]
  BY <1>4 DEF Serial!Through, N
<1> HIDE DEF h
<1>6. h[0] = s /\ \A n \in 1..N : h[n] = Serial!Leaves(h[n - 1], js[n])
  BY <1>1, <1>5
<1> DEFINE P == {n \in Nat : n <= N => h[n] = g[n]}
<1>7. 0 \in P
  BY <1>2, <1>6
<1>8. ASSUME NEW n \in Nat, n \in P PROVE n + 1 \in P
  <2>1. CASE n + 1 <= N
    <3>1. n + 1 \in 1..N /\ n + 1 \in 0..N /\ n + 1 # 0 /\ n + 1 - 1 = n /\ h[n] = g[n]
      BY <1>1, <1>8, <2>1
    <3>2. h[n + 1] = Serial!Leaves(h[n + 1 - 1], js[n + 1])
      BY <1>6, <3>1
    <3>3. g[n + 1] = Serial!Leaves(g[n + 1 - 1], js[n + 1])
      BY <1>3, <3>1
    <3>4. h[n + 1] = g[n + 1]
      BY <3>1, <3>2, <3>3
    <3> QED  BY <3>4
  <2>2. CASE ~(n + 1 <= N)
    BY <2>2
  <2> QED  BY <2>1, <2>2
<1> HIDE DEF P
<1>9. Nat \subseteq P
  BY <1>7, <1>8, SetInduction
<1>10. \A n \in 0..N : h[n] = g[n]
  BY <1>1, <1>9 DEF P
<1>11. h = g
  BY <1>2, <1>5, <1>10
<1> QED  BY <1>11 DEF h, g

\* Records of the binary log and write-sets still to be published.
Pending == [puts : Pairs, deletes : SUBSET Key]
WriteSets == Logged \cup Pending

\* The states a replay goes through.
Replays(s, recs) ==
  LET f[n \in 0..Len(recs)] == IF n = 0 THEN s ELSE ReplayRecord(f[n - 1], recs[n])
  IN  f

\* Replaying a write-set leads from states to states.
LEMMA ReplayRecordType ==
  ASSUME NEW s \in State, NEW r \in WriteSets
  PROVE  ReplayRecord(s, r) \in State
<1>1. r.puts \in Pairs /\ r.deletes \in SUBSET Key
  BY DEF WriteSets, Logged, Pending
<1> QED  BY <1>1, OperationTypes DEF ReplayRecord

\* The states a replay goes through, one write-set after another.
LEMMA ReplaysFacts ==
  ASSUME NEW s \in State, NEW recs \in Seq(WriteSets)
  PROVE  /\ Replays(s, recs) \in [0..Len(recs) -> State]
         /\ Replays(s, recs)[0] = s
         /\ \A n \in 1..Len(recs) : Replays(s, recs)[n] = ReplayRecord(Replays(s, recs)[n - 1], recs[n])
         /\ Replayed(s, recs) = Replays(s, recs)[Len(recs)]
<1> DEFINE N == Len(recs)
           F == [p \in Nat \X State |-> IF p[1] \in 1..N THEN ReplayRecord(p[2], recs[p[1]]) ELSE p[2]]
           g == Replays(s, recs)
<1>0. Replayed(s, recs) = g[N]
  BY DEF Replayed, Replays
<1>1. N \in Nat /\ \A n \in 1..N : recs[n] \in WriteSets
  OBVIOUS
<1>2. F \in [Nat \X State -> State]
  BY <1>1, ReplayRecordType
<1> HIDE DEF N
<1>3. \A n \in Nat : \A x \in State : n \in 1..N => F[<<n, x>>] = ReplayRecord(x, recs[n])
  OBVIOUS
<1> HIDE DEF F
<1>4. PICK f \in [0..N -> State] : GoesOn(f, s, F, N)
  BY <1>1, <1>2, Recursion
<1>5. \A n \in 1..N : f[n] = ReplayRecord(f[n-1], recs[n])
  <2> TAKE n \in 1..N
  <2>1. n \in Nat /\ f[n-1] \in State /\ f[n] = F[<<n, f[n-1]>>]
    BY <1>1, <1>4 DEF GoesOn
  <2> QED  BY <1>3, <2>1
<1>6. f = [n \in 0..N |-> IF n = 0 THEN s ELSE ReplayRecord(f[n - 1], recs[n])]
  BY <1>1, <1>4, <1>5 DEF GoesOn
<1>7. g = [n \in 0..N |-> IF n = 0 THEN s ELSE ReplayRecord(g[n - 1], recs[n])]
  BY <1>6 DEF Replays, N
<1> HIDE DEF g
<1>8. g[0] = s /\ \A n \in 1..N : g[n] = ReplayRecord(g[n - 1], recs[n])
  BY <1>1, <1>7
<1> DEFINE P == {n \in Nat : n <= N => g[n] \in State}
<1>9. 0 \in P
  BY <1>8
<1>10. ASSUME NEW n \in Nat, n \in P PROVE n + 1 \in P
  <2>1. CASE n + 1 <= N
    <3>1. n + 1 \in 1..N /\ n + 1 - 1 = n /\ g[n] \in State
      BY <1>1, <1>10, <2>1
    <3>2. g[n + 1] = ReplayRecord(g[n], recs[n + 1])
      BY <1>8, <3>1
    <3>3. g[n + 1] \in State
      BY <1>1, <3>1, <3>2, ReplayRecordType
    <3> QED  BY <3>3
  <2>2. CASE ~(n + 1 <= N)
    BY <2>2
  <2> QED  BY <2>1, <2>2
<1> HIDE DEF P
<1>11. Nat \subseteq P
  BY <1>9, <1>10, SetInduction
<1>12. \A n \in 0..N : g[n] \in State
  BY <1>1, <1>11 DEF P
<1>13. g \in [0..N -> State]
  BY <1>7, <1>12
<1> QED  BY <1>0, <1>8, <1>13 DEF N, g

\* A replay ends in a state, and an empty one where it begins.
LEMMA ReplayedType ==
  ASSUME NEW s \in State, NEW recs \in Seq(WriteSets)
  PROVE  Replayed(s, recs) \in State /\ (Len(recs) = 0 => Replayed(s, recs) = s)
<1> DEFINE N == Len(recs)
<1>1. N \in Nat
  OBVIOUS
<1>2. /\ Replays(s, recs) \in [0..N -> State] /\ Replays(s, recs)[0] = s
      /\ Replayed(s, recs) = Replays(s, recs)[N]
  BY ReplaysFacts
<1> HIDE DEF N
<1>3. N \in 0..N
  BY <1>1
<1> QED  BY <1>2, <1>3 DEF N

\* Two replays that begin alike and agree on the write-sets they replay agree.
LEMMA ReplaysAgree ==
  ASSUME NEW s \in State, NEW a \in Seq(WriteSets), NEW b \in Seq(WriteSets),
         NEW M \in Nat, M <= Len(a), M <= Len(b),
         \A n \in 1..M : ReplayRecord(Replays(s, a)[n - 1], a[n])
                           = ReplayRecord(Replays(s, a)[n - 1], b[n])
  PROVE  \A n \in 0..M : Replays(s, a)[n] = Replays(s, b)[n]
<1> DEFINE f == Replays(s, a)
           g == Replays(s, b)
           P == {n \in Nat : n <= M => f[n] = g[n]}
<1>1. f[0] = s /\ \A n \in 1..M : f[n] = ReplayRecord(f[n - 1], a[n])
  BY ReplaysFacts
<1>2. g[0] = s /\ \A n \in 1..M : g[n] = ReplayRecord(g[n - 1], b[n])
  BY ReplaysFacts
<1> HIDE DEF f, g
<1>3. 0 \in P
  BY <1>1, <1>2
<1>4. ASSUME NEW n \in Nat, n \in P PROVE n + 1 \in P
  <2>1. CASE n + 1 <= M
    <3>1. n + 1 \in 1..M /\ n + 1 - 1 = n /\ f[n] = g[n]
      BY <1>4, <2>1
    <3>2. /\ f[n + 1] = ReplayRecord(f[n], a[n + 1])
          /\ g[n + 1] = ReplayRecord(g[n], b[n + 1])
          /\ ReplayRecord(f[n], a[n + 1]) = ReplayRecord(f[n], b[n + 1])
      BY <1>1, <1>2, <3>1 DEF f
    <3>3. f[n + 1] = g[n + 1]
      BY <3>1, <3>2
    <3> QED  BY <3>3
  <2>2. CASE ~(n + 1 <= M)
    BY <2>2
  <2> QED  BY <2>1, <2>2
<1> HIDE DEF P
<1>5. Nat \subseteq P
  BY <1>3, <1>4, SetInduction
<1> QED  BY <1>5 DEF P, f, g

\* One more record at the end.
LEMMA ReplayedAppend ==
  ASSUME NEW s \in State, NEW recs \in Seq(WriteSets), NEW r \in WriteSets
  PROVE  Replayed(s, Append(recs, r)) = ReplayRecord(Replayed(s, recs), r)
<1> DEFINE N == Len(recs)
           b == Append(recs, r)
<1>1. N \in Nat /\ b \in Seq(WriteSets) /\ Len(b) = N + 1 /\ b[N + 1] = r
  OBVIOUS
<1>2. \A n \in 1..N : recs[n] = b[n]
  OBVIOUS
<1> HIDE DEF b
<1>3. \A n \in 0..N : Replays(s, recs)[n] = Replays(s, b)[n]
  <2>1. N <= Len(b)
    <3> HIDE DEF N
    <3> QED  BY <1>1
  <2>2. N <= Len(recs)
    BY <1>1
  <2> QED  BY <1>1, <1>2, <2>1, <2>2, ReplaysAgree
<1>4. /\ Replayed(s, b) = Replays(s, b)[Len(b)]
      /\ \A n \in 1..Len(b) : Replays(s, b)[n] = ReplayRecord(Replays(s, b)[n - 1], b[n])
  BY <1>1, ReplaysFacts
<1>5. Replayed(s, recs) = Replays(s, recs)[N]
  BY ReplaysFacts
<1> HIDE DEF N
<1>6. N + 1 \in 1..Len(b) /\ N + 1 - 1 = N /\ N \in 0..N
  BY <1>1
<1>7. Replays(s, b)[N + 1] = ReplayRecord(Replays(s, b)[N], r)
  BY <1>1, <1>4, <1>6
<1> QED  BY <1>1, <1>3, <1>4, <1>5, <1>6, <1>7 DEF b

\* The first record first.
LEMMA ReplayedHead ==
  ASSUME NEW s \in State, NEW recs \in Seq(WriteSets), recs # << >>
  PROVE  Replayed(s, recs) = Replayed(ReplayRecord(s, recs[1]), Tail(recs))
<1> DEFINE N == Len(recs)
           t == Tail(recs)
           x == ReplayRecord(s, recs[1])
           f == Replays(s, recs)
           g == Replays(x, t)
           P == {n \in Nat : n + 1 <= N => f[n + 1] = g[n]}
<1>1. /\ N \in Nat /\ N >= 1 /\ t \in Seq(WriteSets) /\ Len(t) = N - 1
      /\ recs[1] \in WriteSets
  OBVIOUS
<1>2. \A n \in 1..N-1 : t[n] = recs[n + 1]
  OBVIOUS
<1> HIDE DEF t
<1>3. x \in State
  BY <1>1, ReplayRecordType
<1>4. /\ f[0] = s /\ Replayed(s, recs) = f[N]
      /\ \A n \in 1..N : f[n] = ReplayRecord(f[n - 1], recs[n])
  BY ReplaysFacts
<1>5. /\ g[0] = x /\ Replayed(x, t) = g[Len(t)]
      /\ \A n \in 1..Len(t) : g[n] = ReplayRecord(g[n - 1], t[n])
  <2> HIDE DEF x, g
  <2>1. /\ Replays(x, t)[0] = x /\ Replayed(x, t) = Replays(x, t)[Len(t)]
        /\ \A n \in 1..Len(t) : Replays(x, t)[n] = ReplayRecord(Replays(x, t)[n - 1], t[n])
    BY <1>1, <1>3, ReplaysFacts
  <2> QED  BY <2>1 DEF g
<1> HIDE DEF N, f, g
<1>6. 0 \in P
  <2>1. f[1] = ReplayRecord(f[1 - 1], recs[1]) /\ 1 - 1 = 0 /\ 0 + 1 = 1
    BY <1>1, <1>4
  <2>2. f[0 + 1] = g[0]
    BY <1>4, <1>5, <2>1
  <2> QED  BY <2>2
<1> HIDE DEF x
<1>7. ASSUME NEW n \in Nat, n \in P PROVE n + 1 \in P
  <2>1. CASE n + 1 + 1 <= N
    <3>1. /\ n + 1 \in 1..N-1 /\ n + 1 + 1 \in 1..N /\ n + 1 + 1 - 1 = n + 1
          /\ n + 1 - 1 = n /\ n + 1 \in 1..Len(t) /\ f[n + 1] = g[n]
      BY <1>1, <1>7, <2>1
    <3>2. f[n + 1 + 1] = ReplayRecord(f[n + 1], recs[n + 1 + 1])
      BY <1>4, <3>1
    <3>3. g[n + 1] = ReplayRecord(g[n], t[n + 1]) /\ t[n + 1] = recs[n + 1 + 1]
      BY <1>2, <1>5, <3>1
    <3>4. f[n + 1 + 1] = g[n + 1]
      BY <3>1, <3>2, <3>3
    <3> QED  BY <3>4
  <2>2. CASE ~(n + 1 + 1 <= N)
    BY <2>2
  <2> QED  BY <2>1, <2>2
<1> HIDE DEF P
<1>8. Nat \subseteq P
  BY <1>6, <1>7, SetInduction
<1>9. N - 1 \in P /\ N - 1 + 1 = N
  BY <1>1, <1>8
<1>10. f[N] = g[N - 1]
  BY <1>1, <1>9 DEF P
<1> QED  BY <1>1, <1>4, <1>5, <1>10 DEF x, t

\* Replaying what a group writes, job by job, gives the state its transaction commits.
LEMMA GroupReplay ==
  ASSUME NEW s \in State, NEW js \in Seq(Job), NEW recs \in Seq(WriteSets),
         Len(recs) = Len(js),
         \A n \in 1..Len(js) :
           ReplayRecord(GroupStates(s, js)[n - 1], recs[n]) = Folded(GroupStates(s, js)[n - 1], js[n])
  PROVE  Replayed(s, recs) = GroupStates(s, js)[Len(js)]
<1> DEFINE N == Len(js)
           f == GroupStates(s, js)
           g == Replays(s, recs)
           P == {n \in Nat : n <= N => f[n] = g[n]}
<1>0. N \in Nat /\ Len(recs) = N
  OBVIOUS
<1>1. f[0] = s /\ \A n \in 1..N : f[n] = Folded(f[n - 1], js[n])
  BY GroupStatesFacts
<1>2. /\ g[0] = s /\ Replayed(s, recs) = g[N]
      /\ \A n \in 1..N : g[n] = ReplayRecord(g[n - 1], recs[n])
  BY <1>0, ReplaysFacts
<1>3. \A n \in 1..N : ReplayRecord(f[n - 1], recs[n]) = Folded(f[n - 1], js[n])
  OBVIOUS
<1> HIDE DEF f, g, N
<1>4. 0 \in P
  BY <1>1, <1>2
<1>5. ASSUME NEW n \in Nat, n \in P PROVE n + 1 \in P
  <2>1. CASE n + 1 <= N
    <3>1. n + 1 \in 1..N /\ n + 1 - 1 = n /\ f[n] = g[n]
      BY <1>0, <1>5, <2>1
    <3>2. /\ f[n + 1] = Folded(f[n], js[n + 1])
          /\ g[n + 1] = ReplayRecord(g[n], recs[n + 1])
          /\ ReplayRecord(f[n], recs[n + 1]) = Folded(f[n], js[n + 1])
      BY <1>1, <1>2, <1>3, <3>1
    <3>3. f[n + 1] = g[n + 1]
      BY <3>1, <3>2
    <3> QED  BY <3>3
  <2>2. CASE ~(n + 1 <= N)
    BY <2>2
  <2> QED  BY <2>1, <2>2
<1> HIDE DEF P
<1>6. Nat \subseteq P
  BY <1>4, <1>5, SetInduction
<1>7. f[N] = g[N]
  BY <1>0, <1>6 DEF P
<1> QED  BY <1>2, <1>7 DEF f, N

\* The records of the first segments, for every number of them.
Prefixes(b) ==
  LET f[n \in 0..Len(b)] == IF n = 0 THEN << >> ELSE f[n - 1] \o b[n]
  IN  f

\* Concatenation, kept as a name.
Joined(x, y) == x \o y

\* The records of a log, segment after segment.
LEMMA RecordsFacts ==
  ASSUME NEW R, NEW b \in Seq(Seq(R))
  PROVE  /\ Prefixes(b) \in [0..Len(b) -> Seq(R)]
         /\ Prefixes(b)[0] = << >>
         /\ \A n \in 1..Len(b) : Prefixes(b)[n] = Joined(Prefixes(b)[n - 1], b[n])
         /\ Records(b) = Prefixes(b)[Len(b)]
<1> DEFINE N == Len(b)
           S == Seq(R)
           F == [p \in Nat \X S |-> IF p[1] \in 1..N THEN Joined(p[2], b[p[1]]) ELSE p[2]]
           g == Prefixes(b)
<1>1. Records(b) = g[N]
  BY DEF Records, Prefixes
<1>2. N \in Nat /\ (\A n \in 1..N : b[n] \in S) /\ << >> \in S
  OBVIOUS
<1>3. \A x, y \in S : Joined(x, y) \in S
  BY DEF Joined
<1> HIDE DEF N, S
<1>4. F \in [Nat \X S -> S]
  BY <1>2, <1>3
<1>5. \A n \in Nat : \A x \in S : n \in 1..N => F[<<n, x>>] = Joined(x, b[n])
  OBVIOUS
<1> HIDE DEF F
<1>6. PICK f \in [0..N -> S] : GoesOn(f, << >>, F, N)
  BY <1>2, <1>4, Recursion
<1>7. f[0] = << >> /\ \A n \in 1..N : f[n] = Joined(f[n - 1], b[n])
  <2>0. f[0] = << >>
    BY <1>6 DEF GoesOn
  <2> SUFFICES ASSUME NEW n \in 1..N PROVE f[n] = Joined(f[n - 1], b[n])
    BY <2>0
  <2>1. n \in Nat /\ f[n-1] \in S /\ f[n] = F[<<n, f[n-1]>>]
    BY <1>2, <1>6 DEF GoesOn
  <2> QED  BY <1>5, <2>1
<1>8. f = [n \in 0..N |-> IF n = 0 THEN << >> ELSE Joined(f[n - 1], b[n])]
  BY <1>2, <1>6, <1>7
<1>9. g = [n \in 0..N |-> IF n = 0 THEN << >> ELSE Joined(g[n - 1], b[n])]
  BY <1>8 DEF Prefixes, N, Joined
<1> HIDE DEF g
<1>10. g[0] = << >> /\ \A n \in 1..N : g[n] = Joined(g[n - 1], b[n])
  BY <1>2, <1>9
<1> DEFINE P == {n \in Nat : n <= N => g[n] \in S}
<1>11. 0 \in P
  BY <1>2, <1>10
<1>12. ASSUME NEW n \in Nat, n \in P PROVE n + 1 \in P
  <2>1. CASE n + 1 <= N
    <3>1. n + 1 \in 1..N /\ n + 1 - 1 = n /\ g[n] \in S
      BY <1>2, <1>12, <2>1
    <3>2. g[n + 1] = Joined(g[n], b[n + 1])
      BY <1>10, <3>1
    <3>3. g[n + 1] \in S
      BY <1>2, <1>3, <3>1, <3>2
    <3> QED  BY <3>3
  <2>2. CASE ~(n + 1 <= N)
    BY <2>2
  <2> QED  BY <2>1, <2>2
<1> HIDE DEF P
<1>13. Nat \subseteq P
  BY <1>11, <1>12, SetInduction
<1>14. \A n \in 0..N : g[n] \in S
  BY <1>2, <1>13 DEF P
<1>15. g \in [0..N -> S]
  BY <1>9, <1>14
<1> QED  BY <1>1, <1>10, <1>15 DEF N, g, S

\* Logs with the same first segments have the same records there.
LEMMA PrefixesAgree ==
  ASSUME NEW R, NEW a \in Seq(Seq(R)), NEW b \in Seq(Seq(R)),
         NEW M \in Nat, M <= Len(a), M <= Len(b), \A n \in 1..M : a[n] = b[n]
  PROVE  Prefixes(a)[M] = Prefixes(b)[M]
<1> DEFINE f == Prefixes(a)
           g == Prefixes(b)
           P == {n \in Nat : n <= M => f[n] = g[n]}
<1>1. f[0] = << >> /\ \A n \in 1..M : f[n] = Joined(f[n - 1], a[n])
  BY RecordsFacts
<1>2. g[0] = << >> /\ \A n \in 1..M : g[n] = Joined(g[n - 1], b[n])
  BY RecordsFacts
<1> HIDE DEF f, g
<1>3. 0 \in P
  BY <1>1, <1>2
<1>4. ASSUME NEW n \in Nat, n \in P PROVE n + 1 \in P
  <2>1. CASE n + 1 <= M
    <3>1. n + 1 \in 1..M /\ n + 1 - 1 = n /\ f[n] = g[n]
      BY <1>4, <2>1
    <3>2. f[n + 1] = Joined(f[n], a[n + 1]) /\ g[n + 1] = Joined(g[n], b[n + 1]) /\ a[n + 1] = b[n + 1]
      BY <1>1, <1>2, <3>1
    <3>3. f[n + 1] = g[n + 1]
      BY <3>1, <3>2
    <3> QED  BY <3>3
  <2>2. CASE ~(n + 1 <= M)
    BY <2>2
  <2> QED  BY <2>1, <2>2
<1> HIDE DEF P
<1>5. Nat \subseteq P
  BY <1>3, <1>4, SetInduction
<1> QED  BY <1>5 DEF P, f, g

\* A fresh segment adds no record.
LEMMA RecordsOpen ==
  ASSUME NEW R, NEW b \in Seq(Seq(R))
  PROVE  /\ OpenSegment(b) \in Seq(Seq(R)) /\ Len(OpenSegment(b)) = Len(b) + 1
         /\ Records(OpenSegment(b)) = Records(b)
<1> DEFINE N == Len(b)
           c == OpenSegment(b)
<1>0. << >> \in Seq(R)
  OBVIOUS
<1>1. /\ N \in Nat /\ c \in Seq(Seq(R)) /\ Len(c) = N + 1 /\ c[N + 1] = << >>
      /\ \A n \in 1..N : b[n] = c[n]
  BY <1>0 DEF OpenSegment
<1>2. Records(b) = Prefixes(b)[N] /\ Prefixes(b) \in [0..N -> Seq(R)]
  BY RecordsFacts
<1> HIDE DEF c
<1>3. N <= Len(b)
  BY <1>1
<1>4. /\ Records(c) = Prefixes(c)[Len(c)]
      /\ \A n \in 1..Len(c) : Prefixes(c)[n] = Joined(Prefixes(c)[n - 1], c[n])
  BY <1>1, RecordsFacts
<1> HIDE DEF N
<1>5. Prefixes(b)[N] = Prefixes(c)[N]
  <2>1. N <= Len(c)
    BY <1>1
  <2> QED  BY <1>1, <1>3, <2>1, PrefixesAgree DEF N
<1>6. N + 1 \in 1..Len(c) /\ N + 1 - 1 = N /\ N \in 0..N
  BY <1>1
<1>7. Records(c) = Joined(Prefixes(b)[N], << >>)
  BY <1>1, <1>4, <1>5, <1>6
<1>8. Prefixes(b)[N] \in Seq(R)
  BY <1>2, <1>6
<1> QED  BY <1>1, <1>2, <1>7, <1>8 DEF c, N, Joined

\* An appended record is the last of the log, in the same segment or the log's last.
LEMMA RecordsAppend ==
  ASSUME NEW R, NEW b \in Seq(Seq(R)), b # << >>, NEW r \in R
  PROVE  /\ AppendRecord(b, r) \in Seq(Seq(R)) /\ AppendRecord(b, r) # << >>
         /\ Records(AppendRecord(b, r)) = Append(Records(b), r)
<1> DEFINE N == Len(b)
           seg == Append(b[N], r)
           c == [b EXCEPT ![N] = seg]
<1>1. N \in Nat /\ N >= 1 /\ N \in 1..N /\ b[N] \in Seq(R)
  OBVIOUS
<1>2. seg \in Seq(R)
  BY <1>1
<1>3. /\ c \in Seq(Seq(R)) /\ Len(c) = N /\ c[N] = seg
      /\ \A n \in 1..N-1 : b[n] = c[n]
  <2> HIDE DEF seg
  <2> QED  BY <1>1, <1>2
<1> HIDE DEF c
<1>4. /\ Records(c) = Prefixes(c)[N] /\ \A n \in 1..N : Prefixes(c)[n] = Joined(Prefixes(c)[n - 1], c[n])
  BY <1>3, RecordsFacts
<1>5. /\ Records(b) = Prefixes(b)[N] /\ \A n \in 1..N : Prefixes(b)[n] = Joined(Prefixes(b)[n - 1], b[n])
      /\ Prefixes(b) \in [0..N -> Seq(R)]
  BY RecordsFacts
<1>6. Prefixes(b)[N - 1] = Prefixes(c)[N - 1]
  <2>1. N - 1 \in Nat /\ N - 1 <= Len(b) /\ N - 1 <= Len(c)
    BY <1>1, <1>3
  <2> QED  BY <1>3, <2>1, PrefixesAgree
<1>7. Prefixes(b)[N - 1] \in Seq(R)
  <2> HIDE DEF N
  <2>1. N - 1 \in 0..N
    BY <1>1
  <2> QED  BY <1>5, <2>1
<1>8. /\ Records(c) = Joined(Prefixes(b)[N - 1], Append(b[N], r))
      /\ Records(b) = Joined(Prefixes(b)[N - 1], b[N])
  BY <1>1, <1>3, <1>4, <1>5, <1>6
<1>9. \A x, y \in Seq(R) : x \o Append(y, r) = Append(x \o y, r)
  <2> TAKE x, y \in Seq(R)
  <2>1. x \o Append(y, r) \in Seq(R) /\ Append(x \o y, r) \in Seq(R)
    OBVIOUS
  <2>2. Len(x \o Append(y, r)) = Len(x) + Len(y) + 1 /\ Len(Append(x \o y, r)) = Len(x) + Len(y) + 1
    OBVIOUS
  <2>3. \A n \in 1..Len(x) + Len(y) + 1 : (x \o Append(y, r))[n] = Append(x \o y, r)[n]
    OBVIOUS
  <2> QED  BY <2>1, <2>2, <2>3, SeqEqual
<1>10. Records(c) = Append(Records(b), r)
  BY <1>1, <1>7, <1>8, <1>9 DEF Joined
<1>11. /\ OpenSegment(c) \in Seq(Seq(R)) /\ Len(OpenSegment(c)) = N + 1
       /\ Records(OpenSegment(c)) = Records(c)
  BY <1>3, RecordsOpen
<1>12. AppendRecord(b, r) = c \/ AppendRecord(b, r) = OpenSegment(c)
  BY DEF AppendRecord, c
<1>13. c # << >> /\ OpenSegment(c) # << >>
  <2>1. Len(<< >>) = 0
    OBVIOUS
  <2> HIDE DEF N
  <2> QED  BY <1>1, <1>3, <1>11, <2>1
<1> QED  BY <1>3, <1>10, <1>11, <1>12, <1>13

----------------------------------------------------------------------------
(* The inductive invariant *)

\* The clients in a sequence of jobs, and that none is there twice.
In(q) == {q[n] : n \in 1..Len(q)}
Distinct(q) == \A m, n \in 1..Len(q) : q[m] = q[n] => m = n

\* The binary log has a segment to append to; only a crash tears a record.
LogInv ==
  /\ binlog \in Seq(Seq(Logged \cup {Torn})) /\ binlog # << >>
  /\ crashes \in Nat
  /\ crashes = 0 => binlog \in Seq(Seq(Logged))

\* The queue, the group and the carry share no job, and hold those that clients wait for.
\* While the group is collected nothing is carried.
HeldInv ==
  /\ Distinct(queue) /\ Distinct(group)
  /\ In(queue) \cap In(group) = {}
  /\ carry \notin In(queue) \cup In(group)
  /\ at = "drain" => carry = NoClient
  /\ \A c \in Client : job[c] # NoJob <=> c \in In(queue) \cup In(group) \cup {carry}

\* Every state committed so far has a write sequence of its own, not above the last one
\* handed out.
WseqInv ==
  /\ states \subseteq Nat \X State
  /\ <<wseq, store>> \in states
  /\ \A x \in states : x[1] <= wseq
  /\ \A x, y \in states : x[1] = y[1] => x[2] = y[2]
  /\ wseq <= wseqLast

\* Nothing is cached, or about to be, under a generation that is still to come.
CacheInv ==
  /\ cache.gen <= schemaGen /\ loading <= schemaGen
  /\ ServedSchemaIsCurrent

\* The log of a process that never crashed replays to the store.
ReplayInv == crashes = 0 => Replayed(Replayed(Empty, Records(binlog)), Unpublished) = store

IInv ==
  /\ TypeOK /\ LogInv /\ HeldInv /\ WseqInv /\ CacheInv /\ ReplayInv

----------------------------------------------------------------------------
(* Sequences of jobs, and the jobs themselves *)

\* One more job at the end.
LEMMA InAppend ==
  ASSUME NEW q \in Seq(Client), NEW c \in Client
  PROVE  /\ In(Append(q, c)) = In(q) \cup {c}
         /\ Distinct(q) /\ c \notin In(q) => Distinct(Append(q, c))
<1> DEFINE N == Len(q)
           p == Append(q, c)
<1>1. N \in Nat /\ Len(p) = N + 1 /\ p[N + 1] = c /\ \A n \in 1..N : p[n] = q[n]
  OBVIOUS
<1> HIDE DEF p, N
<1>2. 1..Len(p) = 1..N \cup {N + 1}
  BY <1>1
<1>3. In(p) = In(q) \cup {c}
  BY <1>1, <1>2 DEF In, N
<1>4. ASSUME Distinct(q), c \notin In(q), NEW m \in 1..Len(p), NEW n \in 1..Len(p), p[m] = p[n]
      PROVE  m = n
  <2>1. ASSUME NEW x \in 1..N PROVE p[x] = q[x] /\ q[x] # c
    BY <1>1, <1>4 DEF In, N
  <2> QED  BY <1>1, <1>2, <1>4, <2>1 DEF Distinct, N
<1>5. Distinct(q) /\ c \notin In(q) => Distinct(p)
  BY <1>4 DEF Distinct
<1> QED  BY <1>3, <1>5 DEF p

\* The first job taken off.
LEMMA InTail ==
  ASSUME NEW q \in Seq(Client), q # << >>, Distinct(q)
  PROVE  /\ Head(q) = q[1] /\ Head(q) \in Client /\ Head(q) \in In(q)
         /\ Tail(q) \in Seq(Client) /\ Len(Tail(q)) = Len(q) - 1
         /\ In(Tail(q)) = In(q) \ {Head(q)}
         /\ Distinct(Tail(q))
<1> DEFINE N == Len(q)
           t == Tail(q)
<1>1. /\ N \in Nat /\ N >= 1 /\ Head(q) = q[1] /\ q[1] \in Client /\ t \in Seq(Client)
      /\ Len(t) = N - 1 /\ \A n \in 1..N-1 : t[n] = q[n + 1]
  OBVIOUS
<1> HIDE DEF N, t
<1>2. Head(q) \in In(q)
  BY <1>1 DEF In, N
<1>3. In(t) = In(q) \ {q[1]}
  <2>1. ASSUME NEW n \in 1..N-1 PROVE t[n] \in In(q) /\ t[n] # q[1]
    <3>1. n + 1 \in 1..N /\ n + 1 # 1 /\ 1 \in 1..N /\ t[n] = q[n + 1]
      BY <1>1
    <3> QED  BY <3>1 DEF In, Distinct, N
  <2>2. ASSUME NEW n \in 1..N, q[n] # q[1] PROVE q[n] \in In(t)
    <3>1. n - 1 \in 1..N-1 /\ n - 1 + 1 = n
      BY <1>1, <2>2
    <3>2. q[n] = t[n - 1]
      BY <1>1, <3>1
    <3> QED  BY <1>1, <3>1, <3>2 DEF In
  <2>3. \A x : x \in In(q) <=> \E n \in 1..N : x = q[n]
    BY DEF In, N
  <2>4. \A x : x \in In(t) <=> \E n \in 1..N-1 : x = t[n]
    BY <1>1 DEF In
  <2> QED  BY <2>1, <2>2, <2>3, <2>4
<1>4. ASSUME NEW m \in 1..N-1, NEW n \in 1..N-1, t[m] = t[n] PROVE m = n
  <2>1. m + 1 \in 1..N /\ n + 1 \in 1..N /\ q[m + 1] = q[n + 1]
    BY <1>1, <1>4
  <2>2. m + 1 = n + 1
    BY <2>1 DEF Distinct, N
  <2> QED  BY <2>2
<1>5. Distinct(t)
  BY <1>1, <1>4 DEF Distinct
<1> QED  BY <1>1, <1>2, <1>3, <1>5 DEF t, N

\* A sequence is empty if its length is 0, and otherwise has a first member.
LEMMA FirstOf ==
  ASSUME NEW S, NEW q \in Seq(S)
  PROVE  (q = << >> <=> Len(q) = 0) /\ (q # << >> => q[1] \in S)
OBVIOUS

\* No job, and one job.
LEMMA InFew ==
  /\ In(<< >>) = {} /\ Distinct(<< >>)
  /\ \A c : In(<<c>>) = {c} /\ Distinct(<<c>>)
<1>1. In(<< >>) = {} /\ Distinct(<< >>)
  BY DEF In, Distinct
<1>2. ASSUME NEW c PROVE In(<<c>>) = {c} /\ Distinct(<<c>>)
  <2>1. Len(<<c>>) = 1 /\ 1..1 = {1} /\ <<c>>[1] = c
    OBVIOUS
  <2> QED  BY <2>1 DEF In, Distinct
<1> QED  BY <1>1, <1>2

\* A client makes a job of a template.
LEMMA JobOfType ==
  ASSUME NEW t \in Template, NEW s, t.kind = "validated" => s \in State
  PROVE  JobOf(t, s) \in Job
<1>1. /\ t.kind \in Kind /\ t.new \in Seq(Row) /\ t.puts \in Pairs /\ t.deletes \subseteq Key
      /\ t.reads \subseteq Key /\ t.scans \subseteq SUBSET Key
      /\ t.kind # "insert" => t.new = << >>
      /\ t.kind # "validated" => t.reads = {} /\ t.scans = {}
  BY TemplateAssumption
<1> DEFINE K == [k \in t.reads |-> s[k]]
           Rg == {[range |-> R, content |-> Content(s, R)] : R \in t.scans}
<1>2. K \in UNION {[D -> Val \cup {Absent}] : D \in SUBSET Key} /\ DOMAIN K = t.reads
  <2>1. K \in [t.reads -> Val \cup {Absent}]
    BY <1>1 DEF State, Value
  <2> QED  BY <1>1, <2>1
<1>3. ASSUME NEW R \in t.scans
      PROVE  /\ R \in SUBSET Key /\ Content(s, R) \in Pairs /\ DOMAIN Content(s, R) \subseteq R
  <2>1. s \in State /\ R \in SUBSET Key
    BY <1>1
  <2>2. Content(s, R) \in [{k \in R : s[k] # Absent} -> Val]
    BY <2>1 DEF Content, State, Value
  <2>3. {k \in R : s[k] # Absent} \in SUBSET Key
    BY <2>1
  <2> QED  BY <2>1, <2>2, <2>3 DEF Pairs
<1>4. /\ Rg \in SUBSET [range : SUBSET Key, content : Pairs]
      /\ \A r \in Rg : DOMAIN r.content \subseteq r.range
  BY <1>3
<1>5. t.kind # "validated" => DOMAIN K = {} /\ Rg = {}
  BY <1>1, <1>2
<1> HIDE DEF K, Rg
<1>6. JobOf(t, s) = [kind |-> t.kind, new |-> t.new, puts |-> t.puts, deletes |-> t.deletes,
                     keys |-> K, ranges |-> Rg]
  BY DEF JobOf, K, Rg
<1> QED  BY <1>1, <1>2, <1>4, <1>5, <1>6 DEF Job

\* The jobs of the group.
LEMMA JobsFacts ==
  ASSUME TypeOK, HeldInv
  PROVE  /\ Jobs \in Seq(Job) /\ Len(Jobs) = Len(group)
         /\ \A n \in 1..Len(group) : Jobs[n] = job[group[n]] /\ Jobs[n] \in Job
<1>1. ASSUME NEW n \in 1..Len(group) PROVE job[group[n]] \in Job
  <2>1. group[n] \in Client /\ group[n] \in In(group)
    BY DEF TypeOK, In
  <2>2. job[group[n]] # NoJob
    BY <2>1 DEF HeldInv
  <2> QED  BY <2>1, <2>2 DEF TypeOK
<1>2. Len(group) \in Nat
  BY DEF TypeOK
<1>3. \A n \in 1..Len(group) : Jobs[n] = job[group[n]]
  BY DEF Jobs
<1>4. Jobs \in Seq(Job) /\ Len(Jobs) = Len(group)
  <2>1. Jobs \in [1..Len(group) -> Job]
    BY <1>1 DEF Jobs
  <2> QED  BY <1>2, <2>1
<1> QED  BY <1>1, <1>3, <1>4

----------------------------------------------------------------------------
(* Every action keeps the invariant *)

\* Actions that leave the writer, its jobs and the store alone.
LEMMA QuietInv ==
  ASSUME IInv, UNCHANGED <<store, wseq, states, queue, carry, group, results, at, job, lsn, binlog, crashes>>
  PROVE  LogInv' /\ HeldInv' /\ ReplayInv' /\ (wseqLast' = wseqLast => WseqInv')
<1>1. LogInv'
  BY DEF IInv, LogInv
<1>2. HeldInv'
  BY DEF IInv, HeldInv
<1>3. Unpublished' = Unpublished
  BY DEF Unpublished, Decided, Jobs
<1>4. ReplayInv'
  BY <1>3 DEF IInv, ReplayInv
<1>5. wseqLast' = wseqLast => WseqInv'
  BY DEF IInv, WseqInv
<1> QED  BY <1>1, <1>2, <1>4, <1>5

\* A transaction takes its snapshot.
LEMMA BeginInv ==
  ASSUME IInv, NEW c \in Client, Begin(c)
  PROVE  IInv'
<1>1. /\ UNCHANGED <<store, wseq, states, queue, carry, group, results, at, job, lsn, binlog, crashes>>
      /\ UNCHANGED <<wseqLast, schemaGen, cache, loading, reply>>
      /\ snap' = [snap EXCEPT ![c] = store]
  BY DEF Begin, storeVars, loopVars, replVars, cacheVars, envVars
<1>2. LogInv' /\ HeldInv' /\ ReplayInv' /\ WseqInv'
  BY <1>1, QuietInv
<1>3. TypeOK'
  BY <1>1 DEF IInv, TypeOK, Decided
<1>4. CacheInv'
  BY <1>1 DEF IInv, CacheInv, ServedSchemaIsCurrent
<1> QED  BY <1>2, <1>3, <1>4 DEF IInv

\* A read of the schema finds another generation in the cache.
LEMMA CacheMissInv ==
  ASSUME IInv, CacheMiss
  PROVE  IInv'
<1>1. /\ UNCHANGED <<store, wseq, states, queue, carry, group, results, at, job, lsn, binlog, crashes>>
      /\ UNCHANGED <<wseqLast, schemaGen, cache, reply, snap>>
      /\ loading' = schemaGen
  BY DEF CacheMiss, storeVars, loopVars, replVars, clientVars, envVars
<1>2. LogInv' /\ HeldInv' /\ ReplayInv' /\ WseqInv'
  BY <1>1, QuietInv
<1>3. TypeOK'
  BY <1>1 DEF IInv, TypeOK, Decided
<1>4. CacheInv'
  BY <1>1 DEF IInv, CacheInv, ServedSchemaIsCurrent, TypeOK
<1> QED  BY <1>2, <1>3, <1>4 DEF IInv

\* The read enters the cache under the generation loaded before it.
LEMMA CacheFillInv ==
  ASSUME IInv, CacheFill
  PROVE  IInv'
<1>1. /\ UNCHANGED <<store, wseq, states, queue, carry, group, results, at, job, lsn, binlog, crashes>>
      /\ UNCHANGED <<wseqLast, schemaGen, reply, snap>>
      /\ loading' = -1 /\ cache' = [gen |-> loading, val |-> store[CachedKey]] /\ loading # -1
  BY DEF CacheFill, storeVars, loopVars, replVars, clientVars, envVars
<1>2. LogInv' /\ HeldInv' /\ ReplayInv' /\ WseqInv'
  BY <1>1, QuietInv
<1>3. cache'.gen = loading /\ cache'.val = store[CachedKey] /\ CachedKey \in Key
  BY <1>1, KeysAssumption
<1>4. TypeOK'
  BY <1>1, <1>3 DEF IInv, TypeOK, Decided
<1>5. CacheInv'
  BY <1>1, <1>3 DEF IInv, CacheInv, ServedSchemaIsCurrent, TypeOK
<1> QED  BY <1>2, <1>4, <1>5 DEF IInv

\* A job enters the queue.
LEMMA SubmitInv ==
  ASSUME IInv, NEW c \in Client, Submit(c)
  PROVE  IInv'
<1>1. /\ UNCHANGED <<store, wseq, states, carry, group, results, at, lsn, binlog, crashes>>
      /\ UNCHANGED <<wseqLast, schemaGen, reply, cache, loading>>
      /\ queue' = Append(queue, c) /\ snap' = [snap EXCEPT ![c] = NoSnap]
      /\ job[c] = NoJob /\ Len(queue) < QueueDepth
  BY DEF Submit, storeVars, replVars, cacheVars
<1>2. PICK t \in Template : (t.kind = "validated") = (snap[c] # NoSnap)
                            /\ job' = [job EXCEPT ![c] = JobOf(t, snap[c])]
  BY DEF Submit
<1> DEFINE j == JobOf(t, snap[c])
<1>3. j \in Job
  <2>1. t.kind = "validated" => snap[c] \in State
    BY <1>2 DEF IInv, TypeOK, State, Value
  <2> QED  BY <2>1, JobOfType
<1>4. /\ job' \in [Client -> Job \cup {NoJob}] /\ job'[c] # NoJob
      /\ \A d \in Client : d # c => job'[d] = job[d]
  <2> HIDE DEF j
  <2> QED  BY <1>2, <1>3, NoJobAssumption DEF j, IInv, TypeOK
<1>5. TypeOK'
  <2>1. queue' \in Seq(Client) /\ Len(queue') <= QueueDepth
    <3>1. queue \in Seq(Client)
      BY DEF IInv, TypeOK
    <3>2. Len(queue') = Len(queue) + 1 /\ queue' \in Seq(Client) /\ Len(queue) \in Nat
      BY <1>1, <3>1
    <3>3. QueueDepth \in Nat
      BY LimitsAssumption
    <3> QED  BY <1>1, <3>2, <3>3
  <2>2. snap' \in [Client -> [Key -> Val \cup {Absent}] \cup {NoSnap}]
    BY <1>1 DEF IInv, TypeOK
  <2> QED  BY <1>1, <1>4, <2>1, <2>2 DEF IInv, TypeOK, Decided
<1>6. LogInv'
  BY <1>1 DEF IInv, LogInv
<1>7. HeldInv'
  <2>1. c \notin In(queue) \cup In(group) \cup {carry}
    BY <1>1 DEF IInv, HeldInv
  <2>2. queue \in Seq(Client)
    BY DEF IInv, TypeOK
  <2>3. In(queue') = In(queue) \cup {c} /\ Distinct(queue')
    BY <1>1, <2>1, <2>2, InAppend DEF IInv, HeldInv
  <2>4. In(group)' = In(group) /\ Distinct(group)' /\ carry' = carry
    BY <1>1 DEF IInv, HeldInv
  <2>5. \A d \in Client : job'[d] # NoJob <=> d \in In(queue') \cup In(group') \cup {carry'}
    BY <1>1, <1>4, <2>1, <2>3 DEF IInv, HeldInv
  <2> QED  BY <1>1, <2>1, <2>3, <2>4, <2>5 DEF IInv, HeldInv
<1>8. WseqInv'
  BY <1>1 DEF IInv, WseqInv
<1>9. CacheInv'
  BY <1>1 DEF IInv, CacheInv, ServedSchemaIsCurrent
<1>10. ReplayInv'
  <2>1. ASSUME NEW n \in 1..Len(group) PROVE job'[group[n]] = job[group[n]]
    <3>1. group[n] \in In(group) /\ group[n] \in Client
      BY DEF In, IInv, TypeOK
    <3>2. group[n] # c
      BY <1>1, <3>1 DEF IInv, HeldInv
    <3> QED  BY <1>4, <3>1, <3>2
  <2>2. Jobs' = Jobs
    BY <1>1, <2>1 DEF Jobs
  <2>3. Unpublished' = Unpublished
    BY <1>1, <2>2 DEF Unpublished, Decided
  <2> QED  BY <1>1, <2>3 DEF IInv, ReplayInv
<1> QED  BY <1>5, <1>6, <1>7, <1>8, <1>9, <1>10 DEF IInv

\* What the writer does before the transaction leaves the store and the log alone.
LEMMA CollectInv ==
  ASSUME IInv, at \in {"recv", "drain"}, at' \in {"drain", "apply"},
         UNCHANGED <<storeVars, schemaGen, results, replVars, clientVars, cacheVars, envVars>>
  PROVE  LogInv' /\ WseqInv' /\ CacheInv' /\ ReplayInv'
<1> USE DEF storeVars, replVars, clientVars, cacheVars, envVars
<1>1. LogInv'
  BY DEF IInv, LogInv
<1>2. WseqInv'
  BY DEF IInv, WseqInv
<1>3. CacheInv'
  BY DEF IInv, CacheInv, ServedSchemaIsCurrent
<1>4. Unpublished = << >> /\ Unpublished' = << >>
  BY DEF Unpublished, Decided
<1>5. ReplayInv'
  BY <1>4 DEF IInv, ReplayInv
<1> QED  BY <1>1, <1>2, <1>3, <1>5

\* The carried job, or the first of the queue, begins a group.
LEMMA ReceiveInv ==
  ASSUME IInv, Receive
  PROVE  IInv'
<1>1. /\ at = "recv" /\ at' = "drain"
      /\ UNCHANGED <<storeVars, schemaGen, results, replVars, clientVars, cacheVars, envVars>>
  BY DEF Receive
<1>2. LogInv' /\ WseqInv' /\ CacheInv' /\ ReplayInv'
  BY <1>1, CollectInv
<1>3. group = << >> /\ Len(results) = 0 /\ queue \in Seq(Client) /\ carry \in Client \cup {NoClient}
  BY <1>1 DEF IInv, TypeOK, Decided
<1>4. In(group) = {}
  BY <1>3, InFew
<1>5. PICK d \in Client :
        /\ group' = <<d>> /\ carry' = NoClient
        /\ queue' \in Seq(Client) /\ Len(queue') <= QueueDepth /\ Distinct(queue')
        /\ In(queue') \cup {d} = In(queue) \cup ({carry} \ {NoClient}) /\ d \notin In(queue')
  <2>1. CASE carry # NoClient
    <3>1. group' = <<carry>> /\ carry' = NoClient /\ queue' = queue
      BY <2>1 DEF Receive
    <3>2. carry \in Client
      BY <1>3, <2>1
    <3>3. In(queue') = In(queue) /\ Distinct(queue') /\ carry \notin In(queue) /\ Len(queue') <= QueueDepth
      BY <3>1 DEF IInv, HeldInv, TypeOK
    <3>4. In(queue') \cup {carry} = In(queue) \cup ({carry} \ {NoClient}) /\ carry \notin In(queue')
      BY <2>1, <3>3
    <3> QED  BY <1>3, <3>1, <3>2, <3>3, <3>4
  <2>2. CASE carry = NoClient
    <3>1. queue # << >> /\ group' = <<Head(queue)>> /\ carry' = NoClient /\ queue' = Tail(queue)
      BY <2>2 DEF Receive
    <3>2. Distinct(queue) /\ Len(queue) <= QueueDepth
      BY DEF IInv, HeldInv, TypeOK
    <3>3. /\ Head(queue) \in Client /\ Head(queue) \in In(queue)
          /\ Tail(queue) \in Seq(Client) /\ Len(Tail(queue)) = Len(queue) - 1
          /\ In(Tail(queue)) = In(queue) \ {Head(queue)} /\ Distinct(Tail(queue))
      BY <1>3, <3>1, <3>2, InTail
    <3>4. Len(queue') <= QueueDepth
      <4>1. Len(queue) \in Nat /\ QueueDepth \in Nat
        BY <1>3, LimitsAssumption
      <4> QED  BY <3>1, <3>2, <3>3, <4>1
    <3>5. In(queue') \cup {Head(queue)} = In(queue) \cup ({carry} \ {NoClient}) /\ Head(queue) \notin In(queue')
      BY <2>2, <3>1, <3>3
    <3> QED  BY <3>1, <3>3, <3>4, <3>5
  <2> QED  BY <2>1, <2>2
<1>6. In(group') = {d} /\ Distinct(group') /\ group' \in Seq(Client) /\ Len(group') = 1 /\ group' # << >>
  <2>1. In(group') = {d} /\ Distinct(group')
    BY <1>5, InFew
  <2>2. group' \in Seq(Client) /\ Len(group') = 1 /\ group' # << >>
    BY <1>5
  <2> QED  BY <2>1, <2>2
<1>7. TypeOK'
  <2>1. Len(group') <= GroupMax
    BY <1>6, LimitsAssumption
  <2> QED  BY <1>1, <1>3, <1>5, <1>6, <2>1
           DEF IInv, TypeOK, Decided, storeVars, replVars, clientVars, cacheVars
<1>8. HeldInv'
  <2>1. NoClient \notin In(queue')
    BY <1>5, NoClientAssumption DEF In
  <2>2. job' = job
    BY <1>1 DEF clientVars
  <2>3. \A c \in Client : job'[c] # NoJob <=> c \in In(queue') \cup In(group') \cup {carry'}
    BY <1>4, <1>5, <1>6, <2>2, NoClientAssumption DEF IInv, HeldInv
  <2>4. In(queue') \cap In(group') = {} /\ carry' \notin In(queue') \cup In(group')
    BY <1>5, <1>6, <2>1, NoClientAssumption
  <2> QED  BY <1>5, <1>6, <2>3, <2>4 DEF HeldInv
<1> QED  BY <1>2, <1>7, <1>8 DEF IInv

\* A job of the group's kind joins it, another is carried.
LEMMA DrainInv ==
  ASSUME IInv, Drain
  PROVE  IInv'
<1>1. /\ at = "drain" /\ queue # << >> /\ queue' = Tail(queue) /\ Len(group) < GroupMax
      /\ UNCHANGED <<storeVars, schemaGen, results, replVars, clientVars, cacheVars, envVars>>
  BY DEF Drain
<1> DEFINE h == Head(queue)
<1>2. \/ group' = Append(group, h) /\ carry' = carry /\ at' = at
      \/ group' = group /\ carry' = h /\ at' = "apply"
  BY DEF Drain
<1>3. LogInv' /\ WseqInv' /\ CacheInv' /\ ReplayInv'
  BY <1>1, <1>2, CollectInv
<1>4. /\ queue \in Seq(Client) /\ Distinct(queue) /\ group \in Seq(Client) /\ group # << >>
      /\ carry = NoClient /\ Len(queue) <= QueueDepth /\ Len(results) = 0
  BY <1>1 DEF IInv, TypeOK, HeldInv, Decided
<1>5. /\ h \in Client /\ h \in In(queue)
      /\ queue' \in Seq(Client) /\ Len(queue') = Len(queue) - 1
      /\ In(queue') = In(queue) \ {h} /\ Distinct(queue')
  BY <1>1, <1>4, InTail
<1>6. Len(queue') <= QueueDepth
  <2>1. Len(queue) \in Nat /\ QueueDepth \in Nat
    BY <1>4, LimitsAssumption
  <2> QED  BY <1>4, <1>5, <2>1
<1> HIDE DEF h
<1>7. h \notin In(group) /\ h # NoClient /\ NoClient \notin In(queue) /\ NoClient \notin In(group)
  BY <1>4, <1>5, NoClientAssumption DEF IInv, HeldInv
<1>8. job' = job /\ \A c \in Client : job[c] # NoJob <=> c \in In(queue) \cup In(group)
  BY <1>1, <1>4, NoClientAssumption DEF clientVars, IInv, HeldInv
<1>9. CASE group' = Append(group, h) /\ carry' = carry /\ at' = at
  <2>1. In(group') = In(group) \cup {h} /\ Distinct(group')
    BY <1>4, <1>5, <1>7, <1>9, InAppend DEF IInv, HeldInv
  <2>2. group' \in Seq(Client) /\ Len(group') = Len(group) + 1 /\ group' # << >>
    BY <1>4, <1>5, <1>9
  <2>3. Len(group') <= GroupMax
    <3>1. Len(group) \in Nat /\ GroupMax \in Nat
      BY <1>4, LimitsAssumption
    <3> QED  BY <1>1, <2>2, <3>1
  <2>4. TypeOK'
    BY <1>1, <1>4, <1>5, <1>6, <1>9, <2>2, <2>3
       DEF IInv, TypeOK, Decided, storeVars, replVars, clientVars, cacheVars
  <2>5. HeldInv'
    <3>1. \A c \in Client : job'[c] # NoJob <=> c \in In(queue') \cup In(group') \cup {carry'}
      BY <1>4, <1>5, <1>8, <1>9, <2>1, NoClientAssumption
    <3>2. In(queue') \cap In(group') = {}
      BY <1>5, <1>7, <2>1 DEF IInv, HeldInv
    <3>3. carry' \notin In(queue') \cup In(group')
      BY <1>4, <1>5, <1>7, <1>9, <2>1
    <3> QED  BY <1>4, <1>5, <1>9, <2>1, <3>1, <3>2, <3>3 DEF HeldInv
  <2> QED  BY <1>3, <2>4, <2>5 DEF IInv
<1>10. CASE group' = group /\ carry' = h /\ at' = "apply"
  <2>1. TypeOK'
    BY <1>1, <1>4, <1>5, <1>6, <1>10
       DEF IInv, TypeOK, Decided, storeVars, replVars, clientVars, cacheVars
  <2>2. HeldInv'
    <3>1. \A c \in Client : job'[c] # NoJob <=> c \in In(queue') \cup In(group') \cup {carry'}
      BY <1>5, <1>8, <1>10
    <3>2. In(queue') \cap In(group') = {} /\ Distinct(group')
      BY <1>5, <1>10 DEF IInv, HeldInv
    <3>3. carry' \notin In(queue') \cup In(group')
      BY <1>5, <1>7, <1>10
    <3> QED  BY <1>5, <1>10, <3>1, <3>2, <3>3 DEF HeldInv
  <2> QED  BY <1>3, <2>1, <2>2 DEF IInv
<1> QED  BY <1>2, <1>9, <1>10

\* The group is complete.
LEMMA DrainEndInv ==
  ASSUME IInv, DrainEnd
  PROVE  IInv'
<1>1. /\ at = "drain" /\ at' = "apply" /\ UNCHANGED <<queue, carry, group>>
      /\ UNCHANGED <<storeVars, schemaGen, results, replVars, clientVars, cacheVars, envVars>>
  BY DEF DrainEnd
<1>2. LogInv' /\ WseqInv' /\ CacheInv' /\ ReplayInv'
  BY <1>1, CollectInv
<1>3. TypeOK'
  BY <1>1 DEF IInv, TypeOK, Decided, storeVars, replVars, clientVars, cacheVars
<1>4. HeldInv'
  BY <1>1 DEF IInv, HeldInv, clientVars
<1> QED  BY <1>2, <1>3, <1>4 DEF IInv

\* Both ways to apply a group do the same: the jobs in turn, each on what the ones before it
\* left.
LEMMA ApplyFacts ==
  ASSUME IInv, ApplyAlone \/ ApplyGroup
  PROVE  LET N == Len(group)
             SS == GroupStates(store, Jobs)
         IN  /\ N \in Nat /\ N >= 1 /\ N = Len(Jobs) /\ Jobs \in Seq(Job)
             /\ SS \in [0..N -> State] /\ SS[0] = store
             /\ store' = SS[N] /\ SS[N] \in State
             /\ CommitState(SS[N]) \/ UNCHANGED storeVars
             /\ results' \in Seq(Result) /\ Len(results') = N
             /\ \A n \in 1..N : results'[n] = Outcome(SS[n - 1], Jobs[n])
             /\ at = "apply" /\ at' \in {"bump", "publish"}
             /\ at' = "publish" => \A n \in 1..N : TouchesSchema(Jobs[n]) => results'[n] # "ok"
             /\ UNCHANGED <<schemaGen, queue, carry, group, replVars, clientVars, cacheVars, envVars>>
<1> DEFINE N == Len(group)
           SS == GroupStates(store, Jobs)
<1>1. at = "apply"
  BY DEF ApplyAlone, ApplyGroup
<1>2. N \in Nat /\ N >= 1
  <2>1. group \in Seq(Client) /\ group # << >>
    BY <1>1 DEF IInv, TypeOK
  <2> QED  BY <2>1
<1>3. Jobs \in Seq(Job) /\ Len(Jobs) = N /\ \A n \in 1..N : Jobs[n] \in Job
  BY JobsFacts DEF IInv
<1>4. store \in State
  BY DEF IInv, TypeOK, State, Value
<1>5. SS \in [0..N -> State] /\ SS[0] = store /\ \A n \in 1..N : SS[n] = Folded(SS[n - 1], Jobs[n])
  BY <1>3, <1>4, GroupStatesFacts
<1>6. UNCHANGED <<schemaGen, queue, carry, group, replVars, clientVars, cacheVars, envVars>>
  BY DEF ApplyAlone, ApplyGroup
<1>7. \A s, j : Outcome(s, j) \in Result
  BY DEF Outcome, Result
<1>8. CASE ApplyAlone
  <2> DEFINE j == Jobs[1]
             r == OutcomeAlone(store, j)
  <2>1. N = 1 /\ j \in Job
    BY <1>3, <1>8 DEF ApplyAlone
  <2>2. /\ results' = <<r>>
        /\ IF r = "ok" THEN CommitState(Written(store, j)) ELSE UNCHANGED storeVars
        /\ at' = IF r = "ok" /\ TouchesSchema(j) THEN "bump" ELSE "publish"
    BY <1>8 DEF ApplyAlone
  <2>3. r = Outcome(store, j)
    BY <1>4, <2>1, AloneAsInGroup
  <2> HIDE DEF SS, N
  <2>4. SS[1] = Folded(store, j)
    <3>1. 1 \in 1..N /\ 1 - 1 = 0
      BY <2>1
    <3>2. SS[1] = Folded(SS[1 - 1], Jobs[1])
      BY <1>5, <3>1
    <3> QED  BY <1>5, <3>1, <3>2
  <2> HIDE DEF r
  <2>5. results' \in Seq(Result) /\ Len(results') = 1 /\ results'[1] = r
    <3>1. r \in Result
      BY <1>7, <2>3
    <3> QED  BY <2>2, <3>1
  <2>6. \A n \in 1..N : results'[n] = Outcome(SS[n - 1], Jobs[n])
    <3> SUFFICES ASSUME NEW n \in 1..N PROVE results'[n] = Outcome(SS[n - 1], Jobs[n])
      OBVIOUS
    <3>1. n = 1 /\ n - 1 = 0
      BY <2>1
    <3> QED  BY <1>5, <2>3, <2>5, <3>1
  <2>7. store' = SS[1] /\ (CommitState(SS[1]) \/ UNCHANGED storeVars)
    <3>1. CASE r = "ok"
      <4>1. SS[1] = Written(store, j)
        BY <2>3, <2>4, <3>1 DEF Folded
      <4> QED  BY <2>2, <3>1, <4>1 DEF CommitState
    <3>2. CASE r # "ok"
      <4>1. SS[1] = store
        BY <2>3, <2>4, <3>2 DEF Folded
      <4> QED  BY <2>2, <3>2, <4>1 DEF storeVars
    <3> QED  BY <3>1, <3>2
  <2>8. at' \in {"bump", "publish"} /\ (at' = "publish" => (TouchesSchema(j) => r # "ok"))
    BY <2>2
  <2>9. at' = "publish" => \A n \in 1..N : TouchesSchema(Jobs[n]) => results'[n] # "ok"
    <3> SUFFICES ASSUME at' = "publish", NEW n \in 1..N, TouchesSchema(Jobs[n])
                 PROVE  results'[n] # "ok"
      OBVIOUS
    <3>1. n = 1
      BY <2>1
    <3> QED  BY <2>5, <2>8, <3>1
  <2>10. SS[1] \in State /\ SS \in [0..N -> State]
    BY <1>5, <2>1
  <2> QED  BY <1>1, <1>2, <1>3, <1>5, <1>6, <2>1, <2>5, <2>6, <2>7, <2>8, <2>9, <2>10 DEF SS, N
<1>9. CASE ApplyGroup
  <2> DEFINE rs == [n \in 1..Len(Jobs) |-> Outcome(SS[n - 1], Jobs[n])]
  <2>1. /\ results' = rs
        /\ CommitState(SS[Len(Jobs)])
        /\ at' = IF \E n \in 1..Len(Jobs) :
                       TouchesSchema(Jobs[n]) /\ (rs[n] = "ok" \/ IsValidated(Jobs[n]))
                 THEN "bump" ELSE "publish"
    BY <1>9 DEF ApplyGroup
  <2> HIDE DEF SS, N
  <2>2. results' = [n \in 1..N |-> Outcome(SS[n - 1], Jobs[n])]
    BY <1>3, <2>1
  <2>3. results' \in Seq(Result) /\ Len(results') = N
    <3>1. results' \in [1..N -> Result]
      BY <1>7, <2>2
    <3> QED  BY <1>2, <3>1
  <2>4. \A n \in 1..N : results'[n] = Outcome(SS[n - 1], Jobs[n])
    BY <2>2
  <2>5. store' = SS[N] /\ CommitState(SS[N])
    BY <1>3, <2>1 DEF CommitState
  <2>6. N \in 0..N
    BY <1>2
  <2>7. at' \in {"bump", "publish"}
    BY <2>1
  <2>8. at' = "publish" => \A n \in 1..N : TouchesSchema(Jobs[n]) => results'[n] # "ok"
    BY <1>3, <2>1
  <2> QED  BY <1>1, <1>2, <1>3, <1>5, <1>6, <2>3, <2>4, <2>5, <2>6, <2>7, <2>8 DEF SS, N
<1> QED  BY <1>8, <1>9

\* A commit takes a new write sequence.
LEMMA CommitWseq ==
  ASSUME IInv, NEW s \in State, CommitState(s)
  PROVE  WseqInv' /\ store' = s /\ wseq' \in Nat /\ wseqLast' \in Nat
<1>1. /\ store' = s /\ wseq' = wseqLast + 1 /\ wseqLast' = wseqLast + 1
      /\ states' = states \cup {<<wseqLast + 1, s>>}
  BY DEF CommitState
<1>2. wseq \in Nat /\ wseqLast \in Nat /\ wseq <= wseqLast
  BY DEF IInv, TypeOK, WseqInv
<1>3. \A x \in states : x[1] \in Nat /\ x[1] <= wseq
  BY DEF IInv, WseqInv
<1>4. \A x \in states : x[1] < wseqLast + 1
  <2> TAKE x \in states
  <2>1. x[1] \in Nat /\ x[1] <= wseq
    BY <1>3
  <2> QED  BY <1>2, <2>1
<1>5. \A x \in states' : x[1] <= wseq'
  BY <1>1, <1>2, <1>3, <1>4
<1>6. \A x, y \in states' : x[1] = y[1] => x[2] = y[2]
  <2> SUFFICES ASSUME NEW x \in states', NEW y \in states', x[1] = y[1] PROVE x[2] = y[2]
    OBVIOUS
  <2>1. CASE x \in states /\ y \in states
    BY <2>1 DEF IInv, WseqInv
  <2>2. CASE x = <<wseqLast + 1, s>> /\ y \in states
    <3>1. x[1] = wseqLast + 1 /\ y[1] < wseqLast + 1 /\ y[1] \in Nat
      BY <1>3, <1>4, <2>2
    <3> QED  BY <1>2, <3>1
  <2>3. CASE y = <<wseqLast + 1, s>> /\ x \in states
    <3>1. y[1] = wseqLast + 1 /\ x[1] < wseqLast + 1 /\ x[1] \in Nat
      BY <1>3, <1>4, <2>3
    <3> QED  BY <1>2, <3>1
  <2>4. CASE x = <<wseqLast + 1, s>> /\ y = <<wseqLast + 1, s>>
    BY <2>4
  <2> QED  BY <1>1, <2>1, <2>2, <2>3, <2>4
<1>7. states' \subseteq Nat \X State
  BY <1>1, <1>2 DEF IInv, WseqInv
<1>8. <<wseq', store'>> \in states'
  BY <1>1
<1>9. wseq' <= wseqLast'
  BY <1>1, <1>2
<1>10. WseqInv'
  BY <1>5, <1>6, <1>7, <1>8, <1>9 DEF WseqInv
<1> QED  BY <1>1, <1>2, <1>10

\* A job that touches no schema key, or is refused, leaves the schema as it was.
LEMMA SchemaUntouched ==
  ASSUME NEW s \in State, NEW j \in Job, NEW k \in SchemaKey,
         TouchesSchema(j) => Outcome(s, j) # "ok"
  PROVE  Folded(s, j)[k] = s[k]
<1>1. CASE Outcome(s, j) = "ok"
  <2>1. Written(s, j) = [x \in Key |-> Serial!Becomes(s, j, x)] /\ k \in Key
    BY <1>1, WrittenFacts, KeysAssumption
  <2>2. /\ k \notin DOMAIN j.puts /\ k \notin j.deletes
        /\ \A n \in 1..Len(j.new) : j.new[n].key # k
    BY <1>1 DEF TouchesSchema
  <2>3. Serial!Becomes(s, j, k) = s[k]
    BY <2>2 DEF Serial!Becomes
  <2> QED  BY <1>1, <2>1, <2>3 DEF Folded
<1>2. CASE Outcome(s, j) # "ok"
  BY <1>2 DEF Folded
<1> QED  BY <1>1, <1>2

\* The same for a group.
LEMMA SchemaUntouchedByGroup ==
  ASSUME NEW s \in State, NEW js \in Seq(Job), NEW k \in SchemaKey,
         \A n \in 1..Len(js) :
           TouchesSchema(js[n]) => Outcome(GroupStates(s, js)[n - 1], js[n]) # "ok"
  PROVE  GroupStates(s, js)[Len(js)][k] = s[k]
<1> DEFINE N == Len(js)
           g == GroupStates(s, js)
           P == {n \in Nat : n <= N => g[n][k] = s[k]}
<1>1. N \in Nat /\ \A n \in 1..N : js[n] \in Job
  OBVIOUS
<1>2. g \in [0..N -> State] /\ g[0] = s /\ \A n \in 1..N : g[n] = Folded(g[n - 1], js[n])
  BY GroupStatesFacts
<1>3. \A n \in 1..N : TouchesSchema(js[n]) => Outcome(g[n - 1], js[n]) # "ok"
  OBVIOUS
<1> HIDE DEF N, g
<1>4. 0 \in P
  BY <1>2
<1>5. ASSUME NEW n \in Nat, n \in P PROVE n + 1 \in P
  <2>1. CASE n + 1 <= N
    <3>1. n + 1 \in 1..N /\ n + 1 - 1 = n /\ n \in 0..N /\ g[n][k] = s[k]
      BY <1>1, <1>5, <2>1
    <3>2. /\ g[n + 1] = Folded(g[n], js[n + 1]) /\ g[n] \in State /\ js[n + 1] \in Job
          /\ TouchesSchema(js[n + 1]) => Outcome(g[n], js[n + 1]) # "ok"
      BY <1>1, <1>2, <1>3, <3>1
    <3>3. g[n + 1][k] = s[k]
      BY <3>1, <3>2, SchemaUntouched
    <3> QED  BY <3>3
  <2>2. CASE ~(n + 1 <= N)
    BY <2>2
  <2> QED  BY <2>1, <2>2
<1> HIDE DEF P
<1>6. Nat \subseteq P
  BY <1>4, <1>5, SetInduction
<1>7. g[N][k] = s[k]
  BY <1>1, <1>6 DEF P
<1> QED  BY <1>7 DEF g, N

\* What a job with result r still adds to the log.
Pend(r, j, still) ==
  IF Published(r, j) /\ still THEN WriteSet(j) ELSE [puts |-> << >>, deletes |-> {}]

\* It is a write-set, and replayed it does what the job did: nothing if the job was refused or
\* its write-set is empty.
LEMMA PendFacts ==
  ASSUME NEW s \in State, NEW j \in Job, NEW r, NEW still \in BOOLEAN
  PROVE  /\ Pend(r, j, still) \in WriteSets
         /\ r # "ok" \/ ~still => ReplayRecord(s, Pend(r, j, still)) = s
         /\ r = Outcome(s, j) /\ still => ReplayRecord(s, Pend(r, j, still)) = Folded(s, j)
<1> DEFINE none == [puts |-> << >>, deletes |-> {}]
<1>1. << >> \in Pairs /\ DOMAIN << >> = {}
  <2>1. << >> \in [{} -> Val] /\ DOMAIN << >> = {}
    OBVIOUS
  <2> QED  BY <2>1 DEF Pairs
<1>2. none \in WriteSets /\ none.puts = << >> /\ none.deletes = {}
  BY <1>1 DEF WriteSets, Pending
<1>3. WriteSet(j) \in WriteSets
  BY WriteSetType DEF WriteSets, WriteSet, Pending
<1>4. \A w \in WriteSets : DOMAIN w.puts = {} /\ w.deletes = {} => ReplayRecord(s, w) = s
  <2> SUFFICES ASSUME NEW w \in WriteSets, DOMAIN w.puts = {}, w.deletes = {}
               PROVE  ReplayRecord(s, w) = s
    OBVIOUS
  <2>1. Remove(s, w.deletes) = s
    BY DEF Remove, State
  <2>2. Put(s, w.puts) = s
    BY DEF Put, State
  <2> QED  BY <2>1, <2>2 DEF ReplayRecord
<1>5. ReplayRecord(s, none) = s
  BY <1>1, <1>2, <1>4
<1> HIDE DEF none
<1>6. Pend(r, j, still) = IF Published(r, j) /\ still THEN WriteSet(j) ELSE none
  BY DEF Pend, none
<1>7. r # "ok" \/ ~still => ReplayRecord(s, Pend(r, j, still)) = s
  BY <1>5, <1>6 DEF Published
<1>8. ASSUME r = Outcome(s, j), still PROVE ReplayRecord(s, Pend(r, j, still)) = Folded(s, j)
  <2>1. CASE r # "ok"
    BY <1>7, <1>8, <2>1 DEF Folded
  <2>2. CASE r = "ok"
    <3>1. Folded(s, j) = ReplayRecord(s, WriteSet(j))
      BY <1>8, <2>2, WrittenFacts DEF Folded
    <3>2. CASE ~IsEmpty(j)
      BY <1>6, <1>8, <2>2, <3>1, <3>2 DEF Published
    <3>3. CASE IsEmpty(j)
      <4>1. DOMAIN WriteSet(j).puts = {} /\ WriteSet(j).deletes = {}
        BY <3>3 DEF IsEmpty, WriteSet
      <4>2. ReplayRecord(s, WriteSet(j)) = s
        BY <1>3, <1>4, <4>1
      <4> QED  BY <1>5, <1>6, <3>1, <3>3, <4>2 DEF Published
    <3> QED  BY <3>2, <3>3
  <2> QED  BY <2>1, <2>2
<1> QED  BY <1>2, <1>3, <1>6, <1>7, <1>8

\* What the log replays to is a state.
LEMMA ReplayedLogType ==
  ASSUME LogInv, crashes = 0
  PROVE  /\ Empty \in State /\ Records(binlog) \in Seq(WriteSets)
         /\ Replayed(Empty, Records(binlog)) \in State
<1>1. Empty \in State
  BY DEF Empty, State, Value
<1>2. binlog \in Seq(Seq(WriteSets))
  <2>1. binlog \in Seq(Seq(Logged))
    BY DEF LogInv
  <2>2. Seq(Logged) \subseteq Seq(WriteSets)
    BY DEF WriteSets
  <2> HIDE DEF LogInv
  <2> QED  BY <2>1, <2>2
<1>3. Records(binlog) \in Seq(WriteSets)
  <2> DEFINE N == Len(binlog)
  <2>1. N \in 0..N
    <3>1. N \in Nat
      BY <1>2
    <3> HIDE DEF N
    <3> QED  BY <3>1
  <2>2. Prefixes(binlog) \in [0..N -> Seq(WriteSets)] /\ Records(binlog) = Prefixes(binlog)[N]
    BY <1>2, RecordsFacts
  <2> HIDE DEF N
  <2> QED  BY <2>1, <2>2
<1> QED  BY <1>1, <1>3, ReplayedType

\* The transaction of a group commits: alone or with others.
LEMMA ApplyInv ==
  ASSUME IInv, ApplyAlone \/ ApplyGroup
  PROVE  IInv'
<1> DEFINE N == Len(group)
           js == Jobs
           SS == GroupStates(store, js)
<1>1. /\ N \in Nat /\ N >= 1 /\ N = Len(js) /\ js \in Seq(Job)
      /\ SS \in [0..N -> State] /\ SS[0] = store
      /\ store' = SS[N] /\ SS[N] \in State
      /\ CommitState(SS[N]) \/ UNCHANGED storeVars
      /\ results' \in Seq(Result) /\ Len(results') = N
      /\ \A n \in 1..N : results'[n] = Outcome(SS[n - 1], js[n])
      /\ at = "apply" /\ at' \in {"bump", "publish"}
      /\ at' = "publish" => \A n \in 1..N : TouchesSchema(js[n]) => results'[n] # "ok"
      /\ UNCHANGED <<schemaGen, queue, carry, group, replVars, clientVars, cacheVars, envVars>>
  BY ApplyFacts
<1>2. store \in State
  BY DEF IInv, TypeOK, State, Value
<1>3. WseqInv' /\ wseq' \in Nat /\ wseqLast' \in Nat
  <2>1. CASE CommitState(SS[N])
    BY <1>1, <2>1, CommitWseq
  <2>2. CASE UNCHANGED storeVars
    BY <2>2 DEF storeVars, IInv, WseqInv, TypeOK
  <2> QED  BY <1>1, <2>1, <2>2
<1>4. TypeOK'
  <2>1. store' \in [Key -> Val \cup {Absent}]
    BY <1>1 DEF State, Value
  <2>2. at # "recv" /\ at' # "recv" /\ group' = group /\ Decided'
    BY <1>1 DEF Decided
  <2>3. at' \in {"recv", "drain", "apply", "bump", "publish", "ack"}
    BY <1>1
  <2>4. (at' = "recv") = (group' = << >>)
    BY <1>1, <2>2 DEF IInv, TypeOK
  <2>5. results' \in Seq(Result) /\ Len(results') = Len(group')
    BY <1>1
  <2> HIDE DEF SS, js, N
  <2> QED  BY <1>1, <1>3, <2>1, <2>2, <2>3, <2>4, <2>5
           DEF IInv, TypeOK, replVars, clientVars, cacheVars
<1>5. LogInv' /\ HeldInv'
  BY <1>1 DEF IInv, LogInv, HeldInv, replVars, clientVars, envVars
<1>6. CacheInv'
  <2>1. UNCHANGED <<schemaGen, cache, loading>>
    BY <1>1 DEF cacheVars
  <2>2. CASE at' = "bump"
    BY <2>1, <2>2 DEF IInv, CacheInv, ServedSchemaIsCurrent
  <2>3. CASE at' = "publish"
    <3>1. \A n \in 1..N : TouchesSchema(js[n]) => Outcome(SS[n - 1], js[n]) # "ok"
      BY <1>1, <2>3
    <3>2. SS[N][CachedKey] = store[CachedKey]
      BY <1>1, <1>2, <3>1, SchemaUntouchedByGroup, KeysAssumption
    <3>3. store'[CachedKey] = store[CachedKey] /\ at # "bump"
      BY <1>1, <3>2
    <3> QED  BY <2>1, <2>3, <3>3 DEF IInv, CacheInv, ServedSchemaIsCurrent
  <2> QED  BY <1>1, <2>2, <2>3
<1>7. ReplayInv'
  <2>1. UNCHANGED <<binlog, crashes, group, job>>
    BY <1>1 DEF replVars, envVars, clientVars
  <2> SUFFICES ASSUME crashes = 0
               PROVE  Replayed(Replayed(Empty, Records(binlog)), Unpublished') = store'
    BY <2>1 DEF ReplayInv
  <2>2. Unpublished = << >>
    BY <1>1 DEF Unpublished, Decided
  <2>3. Replayed(Empty, Records(binlog)) = store
    <3>1. Replayed(Empty, Records(binlog)) \in State
      BY ReplayedLogType DEF IInv
    <3>2. << >> \in Seq(WriteSets) /\ Len(<< >>) = 0
      OBVIOUS
    <3>3. Replayed(Replayed(Empty, Records(binlog)), << >>) = Replayed(Empty, Records(binlog))
      BY <3>1, <3>2, ReplayedType
    <3> QED  BY <2>2, <3>3 DEF IInv, ReplayInv
  <2> DEFINE us == [n \in 1..N |-> Pend(results'[n], js[n], TRUE)]
  <2>4. Unpublished' = us
    <3>1. Jobs' = js
      BY <2>1 DEF Jobs
    <3>2. Decided' /\ at' # "ack" /\ group' = group
      BY <1>1 DEF Decided
    <3> HIDE DEF js
    <3> QED  BY <3>1, <3>2 DEF Unpublished, Pend, WriteSet
  <2>5. ASSUME NEW n \in 1..N
        PROVE  us[n] \in WriteSets /\ ReplayRecord(SS[n - 1], us[n]) = Folded(SS[n - 1], js[n])
    <3>1. SS[n - 1] \in State /\ js[n] \in Job /\ us[n] = Pend(results'[n], js[n], TRUE)
      <4>1. js[n] \in Job
        BY <1>1
      <4> HIDE DEF js, N, SS
      <4>2. n - 1 \in 0..N
        BY <1>1
      <4> QED  BY <1>1, <4>1, <4>2
    <3>2. results'[n] = Outcome(SS[n - 1], js[n])
      BY <1>1
    <3> DEFINE r == results'[n]
    <3> HIDE DEF us, SS, js, r
    <3>3. /\ Pend(r, js[n], TRUE) \in WriteSets
          /\ r = Outcome(SS[n - 1], js[n])
               => ReplayRecord(SS[n - 1], Pend(r, js[n], TRUE)) = Folded(SS[n - 1], js[n])
      BY <3>1, PendFacts
    <3> QED  BY <3>1, <3>2, <3>3 DEF r
  <2>6. us \in Seq(WriteSets) /\ Len(us) = N
    <3>1. us \in [1..N -> WriteSets]
      BY <2>5
    <3> HIDE DEF us, N
    <3> QED  BY <1>1, <3>1
  <2>7. Replayed(store, us) = SS[N]
    <3> HIDE DEF us
    <3>1. Replayed(store, us) = GroupStates(store, js)[Len(js)]
      BY <1>1, <1>2, <2>5, <2>6, GroupReplay
    <3> QED  BY <1>1, <3>1
  <2> QED  BY <1>1, <2>3, <2>4, <2>7
<1> QED  BY <1>3, <1>4, <1>5, <1>6, <1>7 DEF IInv

\* Replaying write-sets that each do nothing leads nowhere.
LEMMA ReplayNothing ==
  ASSUME NEW s \in State, NEW recs \in Seq(WriteSets),
         \A n \in 1..Len(recs) : ReplayRecord(s, recs[n]) = s
  PROVE  Replayed(s, recs) = s
<1> DEFINE N == Len(recs)
           g == Replays(s, recs)
           P == {n \in Nat : n <= N => g[n] = s}
<1>0. N \in Nat
  OBVIOUS
<1>1. /\ g[0] = s /\ Replayed(s, recs) = g[N]
      /\ \A n \in 1..N : g[n] = ReplayRecord(g[n - 1], recs[n])
  BY ReplaysFacts
<1>2. \A n \in 1..N : ReplayRecord(s, recs[n]) = s
  OBVIOUS
<1> HIDE DEF N, g
<1>3. 0 \in P
  BY <1>1
<1>4. ASSUME NEW n \in Nat, n \in P PROVE n + 1 \in P
  <2>1. CASE n + 1 <= N
    <3>1. n + 1 \in 1..N /\ n + 1 - 1 = n /\ g[n] = s
      BY <1>0, <1>4, <2>1
    <3>2. g[n + 1] = s
      BY <1>1, <1>2, <3>1
    <3> QED  BY <3>2
  <2>2. CASE ~(n + 1 <= N)
    BY <2>2
  <2> QED  BY <2>1, <2>2
<1> HIDE DEF P
<1>5. Nat \subseteq P
  BY <1>3, <1>4, SetInduction
<1> QED  BY <1>0, <1>1, <1>5 DEF P

\* The transaction fails.
LEMMA ApplyFailsInv ==
  ASSUME IInv, ApplyFails
  PROVE  IInv'
<1> DEFINE N == Len(group)
<1>1. /\ at = "apply" /\ at' = "publish" /\ wseqLast' \in {wseqLast, wseqLast + 1}
      /\ results' = [n \in 1..N |-> "error"]
      /\ UNCHANGED <<store, wseq, states, schemaGen, queue, carry, group, lsn, binlog>>
      /\ UNCHANGED <<snap, job, reply, loading, cache, jobs, crashes>>
  BY DEF ApplyFails, replVars, clientVars, cacheVars
<1>2. N \in Nat /\ group # << >>
  BY <1>1 DEF IInv, TypeOK
<1>3. results' \in Seq(Result) /\ Len(results') = N
  <2>1. results' \in [1..N -> Result]
    BY <1>1 DEF Result
  <2> HIDE DEF N
  <2> QED  BY <1>2, <2>1
<1>4. TypeOK'
  <2>1. wseqLast' \in Nat
    BY <1>1 DEF IInv, TypeOK
  <2> QED  BY <1>1, <1>2, <1>3, <2>1 DEF IInv, TypeOK, Decided
<1>5. LogInv' /\ HeldInv'
  BY <1>1 DEF IInv, LogInv, HeldInv
<1>6. WseqInv'
  <2>1. wseq' <= wseqLast'
    BY <1>1 DEF IInv, WseqInv, TypeOK
  <2> QED  BY <1>1, <2>1 DEF IInv, WseqInv
<1>7. CacheInv'
  BY <1>1 DEF IInv, CacheInv, ServedSchemaIsCurrent
<1>8. ReplayInv'
  <2> SUFFICES ASSUME crashes = 0
               PROVE  Replayed(Replayed(Empty, Records(binlog)), Unpublished') = store
    BY <1>1 DEF ReplayInv
  <2> DEFINE s0 == Replayed(Empty, Records(binlog))
             js == Jobs
             us == [n \in 1..N |-> Pend("error", js[n], n = 1 => TRUE)]
  <2>1. s0 \in State
    BY ReplayedLogType DEF IInv
  <2>2. Unpublished = << >> /\ << >> \in Seq(WriteSets) /\ Len(<< >>) = 0
    BY <1>1 DEF Unpublished, Decided
  <2>3. s0 = store
    BY <2>1, <2>2, ReplayedType DEF IInv, ReplayInv
  <2>4. Unpublished' = us
    <3>1. Jobs' = js
      BY <1>1 DEF Jobs
    <3>2. Decided' /\ at' # "ack" /\ group' = group /\ \A n \in 1..N : results'[n] = "error"
      BY <1>1 DEF Decided
    <3> HIDE DEF js
    <3> QED  BY <3>1, <3>2 DEF Unpublished, Pend, WriteSet
  <2>5. ASSUME NEW n \in 1..N
        PROVE  us[n] \in WriteSets /\ ReplayRecord(s0, us[n]) = s0
    <3>1. js[n] \in Job
      BY JobsFacts DEF IInv
    <3> HIDE DEF s0, js
    <3> QED  BY <2>1, <3>1, PendFacts
  <2>6. us \in Seq(WriteSets) /\ Len(us) = N
    <3>1. us \in [1..N -> WriteSets]
      BY <2>5
    <3> HIDE DEF us, N
    <3> QED  BY <1>2, <3>1
  <2> HIDE DEF us, s0, N
  <2>7. Replayed(s0, us) = s0
    BY <2>1, <2>5, <2>6, ReplayNothing
  <2> QED  BY <2>3, <2>4, <2>7 DEF s0
<1> QED  BY <1>4, <1>5, <1>6, <1>7, <1>8 DEF IInv

\* The schema generation moves on.
LEMMA BumpInv ==
  ASSUME IInv, Bump
  PROVE  IInv'
<1>1. /\ at = "bump" /\ at' = "publish" /\ schemaGen' = schemaGen + 1
      /\ UNCHANGED <<store, wseq, wseqLast, states, queue, carry, group, results, lsn, binlog>>
      /\ UNCHANGED <<snap, job, reply, loading, cache, jobs, faults, crashes>>
  BY DEF Bump, storeVars, replVars, clientVars, cacheVars, envVars
<1>2. TypeOK'
  BY <1>1 DEF IInv, TypeOK, Decided
<1>3. LogInv' /\ HeldInv' /\ WseqInv'
  BY <1>1 DEF IInv, LogInv, HeldInv, WseqInv
<1>4. CacheInv'
  <2>1. schemaGen \in Nat /\ loading \in Nat \cup {-1} /\ cache.gen \in Nat \cup {-1}
    BY DEF IInv, TypeOK
  <2>2. cache.gen <= schemaGen /\ loading <= schemaGen
    BY DEF IInv, CacheInv
  <2>3. cache'.gen = cache.gen /\ cache.gen <= schemaGen' /\ loading' <= schemaGen' /\ cache.gen # schemaGen'
    BY <1>1, <2>1, <2>2
  <2> QED  BY <2>3 DEF CacheInv, ServedSchemaIsCurrent
<1>5. Unpublished' = Unpublished
  BY <1>1 DEF Unpublished, Decided, Jobs
<1>6. ReplayInv'
  BY <1>1, <1>5 DEF IInv, ReplayInv
<1> QED  BY <1>2, <1>3, <1>4, <1>6 DEF IInv

\* What is still to be published, as a sequence of write-sets.
LEMMA UnpublishedFacts ==
  ASSUME IInv, Decided
  PROVE  /\ Len(group) \in Nat /\ Len(group) >= 1
         /\ Unpublished = [n \in 1..Len(group) |-> Pend(results[n], Jobs[n], n = 1 => at # "ack")]
         /\ Unpublished \in Seq(WriteSets) /\ Len(Unpublished) = Len(group)
         /\ Unpublished # << >>
<1> DEFINE N == Len(group)
           js == Jobs
           us == [n \in 1..N |-> Pend(results[n], js[n], n = 1 => at # "ack")]
<1>1. N \in Nat /\ N >= 1
  <2>1. group \in Seq(Client) /\ group # << >>
    BY DEF IInv, TypeOK, Decided
  <2> QED  BY <2>1
<1>2. Unpublished = us
  <2> HIDE DEF js
  <2> QED  BY DEF Unpublished, Pend, WriteSet, js
<1>3. ASSUME NEW n \in 1..N PROVE us[n] \in WriteSets
  <2>1. js[n] \in Job
    BY JobsFacts DEF IInv
  <2>2. store \in State
    BY DEF IInv, TypeOK, State, Value
  <2> HIDE DEF js
  <2> QED  BY <2>1, <2>2, PendFacts
<1>4. us \in Seq(WriteSets) /\ Len(us) = N
  <2>1. us \in [1..N -> WriteSets]
    BY <1>3
  <2> HIDE DEF us, N
  <2> QED  BY <1>1, <2>1
<1>5. us # << >>
  <2>1. Len(<< >>) = 0
    OBVIOUS
  <2> HIDE DEF us, N
  <2> QED  BY <1>1, <1>4, <2>1
<1> QED  BY <1>1, <1>2, <1>4, <1>5

\* The tails of two sequences that agree after the first element are the same.
LEMMA SameTail ==
  ASSUME NEW S, NEW a \in Seq(S), NEW b \in Seq(S), Len(a) = Len(b), a # << >>, b # << >>,
         \A n \in 1..Len(a) : n # 1 => a[n] = b[n]
  PROVE  Tail(a) = Tail(b)
<1>1. Tail(a) \in Seq(S) /\ Tail(b) \in Seq(S) /\ Len(Tail(a)) = Len(Tail(b))
  OBVIOUS
<1>2. ASSUME NEW n \in 1..Len(Tail(a)) PROVE Tail(a)[n] = Tail(b)[n]
  OBVIOUS
<1> QED  BY <1>1, <1>2, SeqEqual

\* The first job of the group is published.
LEMMA PublishInv ==
  ASSUME IInv, Publish
  PROVE  IInv'
<1> DEFINE N == Len(group)
           js == Jobs
           j == js[1]
           r == results[1]
<1>1. /\ at = "publish" /\ at' = "ack"
      /\ UNCHANGED <<store, wseq, wseqLast, states, schemaGen, queue, carry, group, results>>
      /\ UNCHANGED <<snap, job, reply, loading, cache, jobs, faults, crashes>>
  BY DEF Publish, storeVars, clientVars, cacheVars, envVars
<1>2. IF Published(r, j)
      THEN lsn' = lsn + 1 /\ binlog' = AppendRecord(binlog, Record(j))
      ELSE UNCHANGED <<lsn, binlog>>
  BY DEF Publish, replVars
<1>3. /\ N \in Nat /\ N >= 1 /\ 1 \in 1..N
      /\ Unpublished = [n \in 1..N |-> Pend(results[n], js[n], n = 1 => at # "ack")]
      /\ Unpublished \in Seq(WriteSets) /\ Len(Unpublished) = N /\ Unpublished # << >>
  BY <1>1, UnpublishedFacts DEF Decided
<1>4. \A n \in 1..N : js[n] \in Job
  BY JobsFacts DEF IInv
<1>5. j \in Job
  BY <1>3, <1>4
<1>6. lsn \in Nat
  BY DEF IInv, TypeOK
<1>7. Record(j) \in Logged /\ Record(j) \in WriteSets /\ Record(j) \in Logged \cup {Torn}
  BY <1>5, <1>6, WriteSetType, JobFacts DEF Record, Logged, WriteSets
<1>8. Jobs' = Jobs /\ Decided' /\ Decided
  BY <1>1 DEF Jobs, Decided
<1>9. TypeOK'
  <2>1. lsn' \in Nat
    BY <1>2, <1>6
  <2> HIDE DEF js, j, r, N
  <2> QED  BY <1>1, <1>8, <2>1 DEF IInv, TypeOK
<1>10. LogInv'
  <2>1. binlog \in Seq(Seq(Logged \cup {Torn})) /\ binlog # << >>
    BY DEF IInv, LogInv
  <2>2. crashes = 0 => binlog \in Seq(Seq(Logged))
    BY DEF IInv, LogInv
  <2>3. CASE Published(r, j)
    <3> HIDE DEF j
    <3>1. binlog' \in Seq(Seq(Logged \cup {Torn})) /\ binlog' # << >>
      BY <1>2, <1>7, <2>1, <2>3, RecordsAppend
    <3>2. crashes = 0 => binlog' \in Seq(Seq(Logged))
      BY <1>2, <1>7, <2>1, <2>2, <2>3, RecordsAppend
    <3> QED  BY <1>1, <3>1, <3>2 DEF IInv, LogInv
  <2>4. CASE ~Published(r, j)
    BY <1>1, <1>2, <2>4 DEF IInv, LogInv
  <2> QED  BY <2>3, <2>4
<1>11. HeldInv' /\ WseqInv'
  BY <1>1 DEF IInv, HeldInv, WseqInv
<1>12. CacheInv'
  BY <1>1 DEF IInv, CacheInv, ServedSchemaIsCurrent
<1>13. ReplayInv'
  <2> SUFFICES ASSUME crashes = 0
               PROVE  Replayed(Replayed(Empty, Records(binlog')), Unpublished') = store
    BY <1>1 DEF ReplayInv
  <2> DEFINE us == Unpublished
             vs == [n \in 1..N |-> Pend(results[n], js[n], n # 1)]
             s0 == Replayed(Empty, Records(binlog))
             s1 == Replayed(Empty, Records(binlog'))
  <2>1. s0 \in State /\ Empty \in State /\ Records(binlog) \in Seq(WriteSets)
    BY ReplayedLogType DEF IInv
  <2>2. Unpublished' = vs
    <3> HIDE DEF js
    <3>1. Jobs' = js
      BY <1>8 DEF js
    <3>2. group' = group /\ results' = results /\ at' = "ack" /\ Decided'
      BY <1>1, <1>8
    <3> QED  BY <3>1, <3>2 DEF Unpublished, Pend, WriteSet
  <2>3. us \in Seq(WriteSets) /\ Len(us) = N /\ us # << >> /\ us[1] = Pend(r, j, TRUE)
        /\ \A n \in 1..N : n # 1 => us[n] = vs[n]
    <3> HIDE DEF js, N
    <3>1. us[1] = Pend(r, js[1], TRUE)
      BY <1>1, <1>3
    <3>2. \A n \in 1..N : n # 1 => us[n] = vs[n]
      BY <1>3
    <3> QED  BY <1>3, <3>1, <3>2
  <2>4. vs \in Seq(WriteSets) /\ Len(vs) = N /\ vs # << >> /\ vs[1] = Pend(r, j, FALSE)
    <3> HIDE DEF js, N
    <3>1. \A n \in 1..N : vs[n] \in WriteSets
      BY <1>4, <2>1, PendFacts
    <3>2. vs \in [1..N -> WriteSets] /\ vs[1] = Pend(r, js[1], FALSE)
      BY <1>3, <3>1
    <3> HIDE DEF vs
    <3>3. vs \in Seq(WriteSets) /\ Len(vs) = N
      BY <1>3, <3>2
    <3>4. Len(<< >>) = 0
      OBVIOUS
    <3> QED  BY <1>3, <3>2, <3>3, <3>4
  <2> HIDE DEF us, vs, s0, s1, r, j, js
  <2>5. Tail(us) = Tail(vs)
    <3>1. \A n \in 1..Len(us) : n # 1 => us[n] = vs[n]
      BY <2>3
    <3>2. Len(us) = Len(vs)
      BY <2>3, <2>4
    <3> QED  BY <2>3, <2>4, <3>1, <3>2, SameTail
  <2>6. s1 = ReplayRecord(s0, us[1])
    <3>1. CASE Published(r, j)
      <4>1. us[1] = WriteSet(j)
        BY <2>3, <3>1 DEF Pend
      <4>2. Records(binlog') = Append(Records(binlog), Record(j))
        <5>1. binlog \in Seq(Seq(Logged \cup {Torn})) /\ binlog # << >>
          BY DEF IInv, LogInv
        <5> QED  BY <1>2, <1>7, <3>1, <5>1, RecordsAppend
      <4>3. s1 = ReplayRecord(s0, Record(j))
        BY <1>7, <2>1, <4>2, ReplayedAppend DEF s0, s1
      <4>4. Record(j).puts = WriteSet(j).puts /\ Record(j).deletes = WriteSet(j).deletes
        BY DEF Record, WriteSet
      <4> QED  BY <4>1, <4>3, <4>4 DEF ReplayRecord
    <3>2. CASE ~Published(r, j)
      <4>1. s1 = s0
        BY <1>2, <3>2 DEF s0, s1
      <4>2. Pend(r, j, TRUE) = Pend(r, j, FALSE)
        BY <3>2 DEF Pend
      <4>3. ReplayRecord(s0, Pend(r, j, FALSE)) = s0
        BY <1>5, <2>1, PendFacts DEF j
      <4> QED  BY <2>3, <4>1, <4>2, <4>3
    <3> QED  BY <3>1, <3>2
  <2>7. us[1] \in WriteSets /\ s1 \in State
    <3>1. us[1] \in WriteSets
      BY <2>3, FirstOf
    <3> QED  BY <2>1, <2>6, <3>1, ReplayRecordType
  <2>8. ReplayRecord(s1, vs[1]) = s1
    <3>1. ReplayRecord(s1, Pend(r, j, FALSE)) = s1
      BY <1>5, <2>7, PendFacts DEF j
    <3> QED  BY <2>4, <3>1
  <2>9. Replayed(s0, us) = Replayed(s1, Tail(us))
    BY <2>1, <2>3, <2>6, ReplayedHead
  <2>10. Replayed(s1, vs) = Replayed(s1, Tail(vs))
    BY <2>4, <2>7, <2>8, ReplayedHead
  <2>11. Replayed(s0, us) = store
    BY DEF IInv, ReplayInv, s0, us
  <2> QED  BY <2>2, <2>5, <2>9, <2>10, <2>11 DEF s1
<1> QED  BY <1>9, <1>10, <1>11, <1>12, <1>13 DEF IInv

\* The first job of the group is answered.
LEMMA AckInv ==
  ASSUME IInv, Ack
  PROVE  IInv'
<1> DEFINE N == Len(group)
           js == Jobs
           d == group[1]
<1>1. /\ at = "ack" /\ at' = IF N = 1 THEN "recv" ELSE "publish"
      /\ reply' = [reply EXCEPT ![d] = results[1]] /\ job' = [job EXCEPT ![d] = NoJob]
      /\ group' = Tail(group) /\ results' = Tail(results)
      /\ UNCHANGED <<store, wseq, wseqLast, states, schemaGen, queue, carry, lsn, binlog>>
      /\ UNCHANGED <<snap, loading, cache, jobs, faults, crashes>>
  BY DEF Ack, storeVars, replVars, cacheVars, envVars
<1>2. /\ N \in Nat /\ N >= 1 /\ 1 \in 1..N
      /\ Unpublished = [n \in 1..N |-> Pend(results[n], js[n], n = 1 => at # "ack")]
      /\ Unpublished \in Seq(WriteSets) /\ Len(Unpublished) = N /\ Unpublished # << >>
  BY <1>1, UnpublishedFacts DEF Decided
<1>3. \A n \in 1..N : js[n] = job[group[n]] /\ js[n] \in Job
  BY JobsFacts DEF IInv
<1>4. /\ group \in Seq(Client) /\ group # << >> /\ Distinct(group) /\ Len(group) <= GroupMax
      /\ results \in Seq(Result) /\ Len(results) = N
  BY <1>1 DEF IInv, TypeOK, HeldInv, Decided
<1>5. /\ d \in Client /\ d \in In(group) /\ Tail(group) \in Seq(Client) /\ Len(Tail(group)) = N - 1
      /\ In(Tail(group)) = In(group) \ {d} /\ Distinct(Tail(group))
  BY <1>4, InTail
<1>6. /\ results[1] \in Result /\ Tail(results) \in Seq(Result) /\ Len(Tail(results)) = N - 1
      /\ \A n \in 1..N-1 : Tail(results)[n] = results[n + 1]
  BY <1>2, <1>4
<1>7. \A n \in 1..N-1 : Tail(group)[n] = group[n + 1]
  BY <1>2, <1>4
<1> HIDE DEF d, js
<1>8. job' \in [Client -> Job \cup {NoJob}] /\ job'[d] = NoJob /\ \A c \in Client : c # d => job'[c] = job[c]
  BY <1>1, <1>5 DEF IInv, TypeOK
<1>9. TypeOK'
  <2>1. (at' = "recv") = (group' = << >>)
    <3>1. group' = << >> <=> N - 1 = 0
      BY <1>1, <1>5, FirstOf
    <3> HIDE DEF N
    <3>2. N - 1 = 0 <=> N = 1
      BY <1>2
    <3> QED  BY <1>1, <3>1, <3>2
  <2>2. Len(results') = IF Decided' THEN Len(group') ELSE 0
    <3> HIDE DEF N
    <3>1. CASE N = 1
      <4>1. at' = "recv" /\ Len(results') = 0
        BY <1>1, <1>6, <3>1
      <4> QED  BY <4>1 DEF Decided
    <3>2. CASE N # 1
      <4>1. at' = "publish" /\ Len(results') = Len(group')
        BY <1>1, <1>5, <1>6, <3>2
      <4> QED  BY <4>1 DEF Decided
    <3> QED  BY <3>1, <3>2
  <2>3. Len(group') <= GroupMax
    <3>1. GroupMax \in Nat
      BY LimitsAssumption
    <3>2. Len(group') = N - 1 /\ N <= GroupMax
      BY <1>1, <1>4, <1>5
    <3> HIDE DEF N
    <3> QED  BY <1>2, <3>1, <3>2
  <2>4. reply' \in [Client -> Result \cup {"none", "lost"}]
    BY <1>1, <1>5, <1>6 DEF IInv, TypeOK
  <2>5. at' \in {"recv", "drain", "apply", "bump", "publish", "ack"}
    BY <1>1
  <2> HIDE DEF N
  <2> QED  BY <1>1, <1>5, <1>6, <1>8, <2>1, <2>2, <2>3, <2>4, <2>5 DEF IInv, TypeOK
<1>10. LogInv' /\ WseqInv'
  BY <1>1 DEF IInv, LogInv, WseqInv
<1>11. CacheInv'
  <2>1. at' # "bump" /\ at # "bump"
    BY <1>1
  <2> QED  BY <1>1, <2>1 DEF IInv, CacheInv, ServedSchemaIsCurrent
<1>12. HeldInv'
  <2>1. at' # "drain"
    BY <1>1
  <2>2. In(group') = In(group) \ {d} /\ Distinct(group')
    BY <1>1, <1>5
  <2>3. d \notin In(queue) /\ d # carry
    BY <1>5 DEF IInv, HeldInv
  <2>4. \A c \in Client : job'[c] # NoJob <=> c \in In(queue') \cup In(group') \cup {carry'}
    BY <1>1, <1>8, <2>2, <2>3 DEF IInv, HeldInv
  <2>5. In(queue') \cap In(group') = {} /\ carry' \notin In(queue') \cup In(group') /\ Distinct(queue')
    BY <1>1, <2>2 DEF IInv, HeldInv
  <2> QED  BY <2>1, <2>2, <2>4, <2>5 DEF HeldInv
<1>13. ReplayInv'
  <2> SUFFICES ASSUME crashes = 0
               PROVE  Replayed(Replayed(Empty, Records(binlog)), Unpublished') = store
    BY <1>1 DEF ReplayInv
  <2> DEFINE us == Unpublished
             s0 == Replayed(Empty, Records(binlog))
  <2>1. s0 \in State
    BY ReplayedLogType DEF IInv
  <2>2. us[1] = Pend(results[1], js[1], FALSE) /\ js[1] \in Job
    <3> HIDE DEF N
    <3> QED  BY <1>1, <1>2, <1>3
  <2>3. ReplayRecord(s0, us[1]) = s0
    <3> HIDE DEF s0, us
    <3>1. ReplayRecord(s0, Pend(results[1], js[1], FALSE)) = s0
      BY <2>1, <2>2, PendFacts
    <3> QED  BY <2>2, <3>1
  <2>4. Replayed(s0, us) = Replayed(s0, Tail(us))
    <3> HIDE DEF s0, us
    <3>1. us \in Seq(WriteSets) /\ us # << >>
      BY <1>2 DEF us
    <3> QED  BY <2>1, <2>3, <3>1, ReplayedHead
  <2>5. Tail(us) \in Seq(WriteSets) /\ Len(Tail(us)) = N - 1 /\ \A n \in 1..N-1 : Tail(us)[n] = us[n + 1]
    BY <1>2
  <2>6. Replayed(s0, us) = store
    BY DEF IInv, ReplayInv
  <2>7. CASE N = 1
    <3>1. Unpublished' = << >>
      BY <1>1, <2>7 DEF Unpublished, Decided
    <3>2. Tail(us) = << >>
      <4> HIDE DEF us, N
      <4>1. N - 1 = 0
        BY <2>7
      <4> QED  BY <2>5, <4>1, FirstOf
    <3> QED  BY <2>4, <2>6, <3>1, <3>2
  <2>8. CASE N # 1
    <3> DEFINE vs == [n \in 1..N-1 |-> Pend(results[n + 1], js[n + 1], TRUE)]
    <3>1. ASSUME NEW n \in 1..N-1 PROVE Jobs'[n] = js[n + 1] /\ results'[n] = results[n + 1]
      <4>1. n \in 1..Len(group') /\ Jobs'[n] = job'[group'[n]]
        BY <1>1, <1>5 DEF Jobs
      <4>2. group'[n] = group[n + 1] /\ results'[n] = results[n + 1]
        BY <1>1, <1>6, <1>7
      <4>3. group[n + 1] # d /\ group[n + 1] \in Client /\ n + 1 \in 1..N
        <5>1. n + 1 \in 1..N /\ n + 1 # 1
          <6> HIDE DEF N
          <6> QED  BY <1>2
        <5> QED  BY <1>2, <1>4, <5>1 DEF d, Distinct
      <4>4. Jobs'[n] = job[group[n + 1]]
        BY <1>8, <4>1, <4>2, <4>3
      <4> QED  BY <1>3, <4>2, <4>3, <4>4
    <3>2. at' = "publish" /\ Decided' /\ Len(group') = N - 1
      BY <1>1, <1>5, <2>8 DEF Decided
    <3>3. Unpublished' = [n \in 1..Len(group') |-> Pend(results'[n], Jobs'[n], n = 1 => at' # "ack")]
      <4> HIDE DEF N
      <4> QED  BY <3>2 DEF Unpublished, Pend, WriteSet
    <3>4. Unpublished' = vs
      <4>1. \A n \in 1..N-1 : Pend(results'[n], Jobs'[n], n = 1 => at' # "ack")
                               = Pend(results[n + 1], js[n + 1], TRUE)
        BY <3>1, <3>2
      <4> QED  BY <3>2, <3>3, <4>1
    <3>5. \A n \in 1..N-1 : us[n + 1] = vs[n]
      <4> HIDE DEF N
      <4>1. ASSUME NEW n \in 1..N-1 PROVE n + 1 \in 1..N /\ n + 1 # 1
        BY <1>2
      <4> QED  BY <1>2, <4>1
    <3>6. Tail(us) = vs
      <4>1. vs \in Seq(WriteSets) /\ Len(vs) = N - 1
        <5>1. ASSUME NEW n \in 1..N-1 PROVE vs[n] \in WriteSets
          <6> HIDE DEF vs, us
          <6>1. Tail(us)[n] \in WriteSets
            BY <2>5
          <6> QED  BY <2>5, <3>5, <6>1
        <5>2. vs \in [1..N-1 -> WriteSets]
          BY <5>1
        <5>3. N - 1 \in Nat
          <6> HIDE DEF N
          <6> QED  BY <1>2
        <5> HIDE DEF vs, N
        <5> QED  BY <5>2, <5>3
      <4>2. \A n \in 1..Len(Tail(us)) : Tail(us)[n] = vs[n]
        BY <2>5, <3>5
      <4> HIDE DEF us, vs
      <4> QED  BY <2>5, <4>1, <4>2, SeqEqual
    <3> QED  BY <2>4, <2>6, <3>4, <3>6
  <2> QED  BY <2>7, <2>8
<1> QED  BY <1>9, <1>10, <1>11, <1>12, <1>13 DEF IInv

\* The process dies and is started again.
LEMMA CrashInv ==
  ASSUME IInv, Crash
  PROVE  IInv'
<1> DEFINE R == Logged \cup {Torn}
<1>1. /\ crashes' = crashes + 1 /\ wseqLast' = wseq /\ schemaGen' = schemaGen + 1
      /\ queue' = << >> /\ carry' = NoClient /\ group' = << >> /\ results' = << >> /\ at' = "recv"
      /\ snap' = [c \in Client |-> NoSnap] /\ job' = [c \in Client |-> NoJob]
      /\ reply' = [c \in Client |-> IF job[c] # NoJob THEN "lost" ELSE reply[c]]
      /\ loading' = -1 /\ cache' = NoEntry
      /\ UNCHANGED <<store, wseq, states>>
  BY DEF Crash, WseqAtOpen
<1>2. PICK b \in {binlog, TearRecord(binlog)} : lsn' = MaxLsn(b) /\ binlog' = OpenSegment(b)
  BY DEF Crash
<1>3. crashes \in Nat /\ binlog \in Seq(Seq(R)) /\ binlog # << >>
  BY DEF IInv, LogInv
<1>4. b \in Seq(Seq(R)) /\ b # << >>
  <2>1. CASE b = binlog
    BY <1>3, <2>1
  <2>2. CASE b = TearRecord(binlog)
    <3> DEFINE n == Len(binlog)
               seg == Append(binlog[n], Torn)
    <3>1. n \in Nat /\ n >= 1 /\ n \in 1..n /\ binlog[n] \in Seq(R)
      BY <1>3
    <3>2. seg \in Seq(R)
      <4>1. Torn \in R
        OBVIOUS
      <4> HIDE DEF R
      <4> QED  BY <3>1, <4>1
    <3>3. b = [binlog EXCEPT ![n] = seg]
      BY <2>2 DEF TearRecord
    <3> HIDE DEF seg, R
    <3>4. b \in Seq(Seq(R)) /\ Len(b) = n
      BY <1>3, <3>1, <3>2, <3>3
    <3> HIDE DEF n
    <3>5. Len(<< >>) = 0
      OBVIOUS
    <3> QED  BY <3>1, <3>4, <3>5
  <2> QED  BY <2>1, <2>2
<1>5. MaxLsn(b) \in Nat
  <2> DEFINE n == Len(b)
             seg == b[n]
             m == Len(seg)
  <2>1. MaxLsn(b) = IF seg = << >> \/ ~Readable(seg) THEN 0 ELSE seg[m].lsn
    BY <1>4 DEF MaxLsn
  <2>2. seg \in Seq(R)
    <3> HIDE DEF R
    <3> QED  BY <1>4
  <2> HIDE DEF seg
  <2>3. CASE seg # << >> /\ Readable(seg)
    <3>1. m \in 1..m /\ m \in 1..Len(seg) /\ seg[m] \in R
      <4> HIDE DEF R
      <4> QED  BY <2>2, <2>3
    <3>2. seg[m] # Torn
      BY <2>3, <3>1 DEF Readable
    <3>3. seg[m] \in Logged
      BY <3>1, <3>2
    <3>4. seg[m].lsn \in Nat
      BY <3>3 DEF Logged
    <3> QED  BY <2>1, <2>3, <3>4
  <2>4. CASE seg = << >> \/ ~Readable(seg)
    BY <2>1, <2>4
  <2> QED  BY <2>3, <2>4
<1>6. TypeOK'
  <2>1. cache'.gen = -1 /\ cache'.val = Absent
    BY <1>1 DEF NoEntry
  <2>2. /\ << >> \in Seq(Client) /\ << >> \in Seq(Result) /\ Len(<< >>) = 0
        /\ QueueDepth \in Nat /\ GroupMax \in Nat
    BY LimitsAssumption
  <2>3. queue' \in Seq(Client) /\ Len(queue') <= QueueDepth /\ group' \in Seq(Client) /\ Len(group') <= GroupMax
    BY <1>1, <2>2
  <2>4. results' \in Seq(Result) /\ Len(results') = IF Decided' THEN Len(group') ELSE 0
    BY <1>1, <2>2
  <2>5. (at' = "recv") = (group' = << >>) /\ at' \in {"recv", "drain", "apply", "bump", "publish", "ack"}
    BY <1>1
  <2>6. reply' \in [Client -> Result \cup {"none", "lost"}]
    BY <1>1 DEF IInv, TypeOK
  <2>7. lsn' \in Nat /\ wseqLast' \in Nat /\ schemaGen' \in Nat
    BY <1>1, <1>2, <1>5 DEF IInv, TypeOK
  <2> QED  BY <1>1, <2>1, <2>3, <2>4, <2>5, <2>6, <2>7 DEF IInv, TypeOK
<1>7. LogInv'
  <2> HIDE DEF R
  <2>1. OpenSegment(b) \in Seq(Seq(R)) /\ Len(OpenSegment(b)) = Len(b) + 1
    BY <1>4, RecordsOpen
  <2>2. binlog' # << >>
    <3>1. Len(<< >>) = 0 /\ Len(b) \in Nat
      BY <1>4
    <3> QED  BY <1>2, <2>1, <3>1
  <2>3. crashes' \in Nat /\ crashes' # 0
    BY <1>1, <1>3
  <2> QED  BY <1>2, <2>1, <2>2, <2>3 DEF LogInv, R
<1>8. HeldInv'
  <2>1. In(queue') = {} /\ In(group') = {} /\ Distinct(queue') /\ Distinct(group')
    BY <1>1, InFew
  <2> QED  BY <1>1, <2>1, NoClientAssumption DEF HeldInv
<1>9. WseqInv'
  BY <1>1 DEF IInv, WseqInv, TypeOK
<1>10. CacheInv'
  <2>1. cache'.gen = -1 /\ schemaGen \in Nat
    BY <1>1 DEF NoEntry, IInv, TypeOK
  <2> QED  BY <1>1, <2>1 DEF CacheInv, ServedSchemaIsCurrent
<1>11. ReplayInv'
  BY <1>1, <1>3 DEF ReplayInv
<1> QED  BY <1>6, <1>7, <1>8, <1>9, <1>10, <1>11 DEF IInv

----------------------------------------------------------------------------
(* The theorems *)

\* The invariant holds at the start.
LEMMA InitInv ==
  ASSUME Init
  PROVE  IInv
<1>1. << >> \in Seq(Client) /\ << >> \in Seq(Result) /\ Len(<< >>) = 0 /\ << >> \in Seq(WriteSets)
  OBVIOUS
<1>2. Empty \in State
  BY DEF Empty, State, Value
<1>3. TypeOK
  <2>1. cache.gen = -1 /\ cache.val = Absent
    BY DEF Init, NoEntry
  <2>2. QueueDepth \in Nat /\ GroupMax \in Nat
    BY LimitsAssumption
  <2>3. store \in [Key -> Val \cup {Absent}]
    BY <1>2 DEF Init, State, Value
  <2> QED  BY <1>1, <2>1, <2>2, <2>3 DEF Init, TypeOK, Decided
<1>4. /\ binlog \in Seq(Seq(Logged)) /\ binlog \in Seq(Seq(Logged \cup {Torn})) /\ binlog # << >>
      /\ Records(binlog) = << >>
  <2>1. /\ << >> \in Seq(Seq(Logged)) /\ << >> \in Seq(Seq(Logged \cup {Torn}))
    OBVIOUS
  <2>2. /\ OpenSegment(<< >>) \in Seq(Seq(Logged)) /\ Len(OpenSegment(<< >>)) = Len(<< >>) + 1
        /\ Records(OpenSegment(<< >>)) = Records(<< >>)
        /\ OpenSegment(<< >>) \in Seq(Seq(Logged \cup {Torn}))
    BY <2>1, RecordsOpen
  <2>3. Records(<< >>) = << >>
    <3> DEFINE e == << >>
    <3>1. e \in Seq(Seq(Logged)) /\ Len(e) = 0
      BY <2>1
    <3> HIDE DEF e
    <3>2. Records(e) = Prefixes(e)[Len(e)] /\ Prefixes(e)[0] = << >>
      BY <3>1, RecordsFacts
    <3> QED  BY <3>1, <3>2 DEF e
  <2>4. OpenSegment(<< >>) # << >>
    <3> DEFINE b == OpenSegment(<< >>)
    <3>1. b \in Seq(Seq(Logged)) /\ Len(b) = 1
      BY <1>1, <2>2
    <3> HIDE DEF b
    <3>2. b # << >>
      BY <3>1
    <3> QED  BY <3>2 DEF b
  <2> QED  BY <2>2, <2>3, <2>4 DEF Init
<1>5. LogInv
  BY <1>4 DEF Init, LogInv
<1>6. HeldInv
  <2>1. In(queue) = {} /\ In(group) = {} /\ Distinct(queue) /\ Distinct(group)
    BY InFew DEF Init
  <2> QED  BY <2>1, NoClientAssumption DEF Init, HeldInv
<1>7. WseqInv
  BY <1>2 DEF Init, WseqInv
<1>8. CacheInv
  <2>1. cache.gen = -1
    BY DEF Init, NoEntry
  <2> QED  BY <2>1 DEF Init, CacheInv, ServedSchemaIsCurrent
<1>9. ReplayInv
  <2>1. Unpublished = << >> /\ store = Empty
    BY DEF Init, Unpublished, Decided
  <2>2. Replayed(Empty, << >>) = Empty
    BY <1>1, <1>2, ReplayedType
  <2> QED  BY <1>4, <2>1, <2>2 DEF ReplayInv
<1> QED  BY <1>3, <1>5, <1>6, <1>7, <1>8, <1>9 DEF IInv

\* A stuttering step keeps the invariant.
LEMMA StutterInv ==
  ASSUME IInv, UNCHANGED vars
  PROVE  IInv'
<1>1. /\ UNCHANGED <<store, wseq, states, queue, carry, group, results, at, job, lsn, binlog, crashes>>
      /\ UNCHANGED <<wseqLast, schemaGen, cache, loading, reply, snap>>
  BY DEF vars, storeVars, loopVars, replVars, clientVars, cacheVars, envVars
<1>2. LogInv' /\ HeldInv' /\ ReplayInv' /\ WseqInv'
  BY <1>1, QuietInv
<1>3. TypeOK'
  BY <1>1 DEF IInv, TypeOK, Decided
<1>4. CacheInv'
  BY <1>1 DEF IInv, CacheInv, ServedSchemaIsCurrent
<1> QED  BY <1>2, <1>3, <1>4 DEF IInv

\* Every step keeps the invariant.
LEMMA NextInv ==
  ASSUME IInv, [Next]_vars
  PROVE  IInv'
<1>1. CASE \E c \in Client : Begin(c) \/ Submit(c)
  BY <1>1, BeginInv, SubmitInv
<1>2. CASE Receive
  BY <1>2, ReceiveInv
<1>3. CASE Drain
  BY <1>3, DrainInv
<1>4. CASE DrainEnd
  BY <1>4, DrainEndInv
<1>5. CASE ApplyAlone \/ ApplyGroup
  BY <1>5, ApplyInv
<1>6. CASE ApplyFails
  BY <1>6, ApplyFailsInv
<1>7. CASE Bump
  BY <1>7, BumpInv
<1>8. CASE Publish
  BY <1>8, PublishInv
<1>9. CASE Ack
  BY <1>9, AckInv
<1>10. CASE CacheMiss
  BY <1>10, CacheMissInv
<1>11. CASE CacheFill
  BY <1>11, CacheFillInv
<1>12. CASE Crash
  BY <1>12, CrashInv
<1>13. CASE UNCHANGED vars
  BY <1>13, StutterInv
<1> QED  BY <1>1, <1>2, <1>3, <1>4, <1>5, <1>6, <1>7, <1>8, <1>9, <1>10, <1>11, <1>12, <1>13 DEF Next

\* The invariant holds always.
LEMMA InvHolds == Spec => []IInv
<1>1. Init => IInv
  BY InitInv
<1>2. IInv /\ [Next]_vars => IInv'
  BY NextInv
<1> QED  BY <1>1, <1>2, PTL DEF Spec

\* The state of the writer's loop and of what it maintains has its type at every step, with
\* a result for every job of a decided group.
THEOREM TypeCorrect == Spec => []TypeOK
<1>1. IInv => TypeOK
  BY DEF IInv
<1> QED  BY <1>1, InvHolds, PTL

\* A job a client waits for is in the queue, the carry or the group, in one of them and
\* once: writer_loop neither forgets a job nor applies it twice.
THEOREM JobsHeldOnce == Spec => []EveryJobHeldOnce
<1>1. ASSUME IInv PROVE EveryJobHeldOnce
  <2> SUFFICES ASSUME NEW c \in Client
               PROVE  Cardinality(InQueue(c)) + Cardinality(InGroup(c)) + (IF carry = c THEN 1 ELSE 0)
                        = IF job[c] = NoJob THEN 0 ELSE 1
    BY DEF EveryJobHeldOnce
  <2>1. ASSUME NEW q, Distinct(q)
        PROVE  LET S == {n \in 1..Len(q) : q[n] = c}
               IN  Cardinality(S) = IF c \in In(q) THEN 1 ELSE 0
    <3> DEFINE S == {n \in 1..Len(q) : q[n] = c}
    <3>1. CASE c \in In(q)
      <4>1. PICK n \in 1..Len(q) : q[n] = c
        BY <3>1 DEF In
      <4>2. S = {n}
        BY <2>1, <4>1 DEF Distinct
      <4> QED  BY <3>1, <4>2, FS_Singleton
    <3>2. CASE c \notin In(q)
      <4>1. S = {}
        BY <3>2 DEF In
      <4> QED  BY <3>2, <4>1, FS_EmptySet
    <3> QED  BY <3>1, <3>2
  <2>2. /\ Cardinality(InQueue(c)) = IF c \in In(queue) THEN 1 ELSE 0
        /\ Cardinality(InGroup(c)) = IF c \in In(group) THEN 1 ELSE 0
    BY <1>1, <2>1 DEF IInv, HeldInv, InQueue, InGroup
  <2>3. /\ job[c] # NoJob <=> c \in In(queue) \/ c \in In(group) \/ carry = c
        /\ ~(c \in In(queue) /\ c \in In(group))
        /\ carry = c => c \notin In(queue) /\ c \notin In(group)
    BY <1>1 DEF IInv, HeldInv
  <2> QED  BY <2>2, <2>3
<1> QED  BY <1>1, InvHolds, PTL

\* A write sequence stands for one committed state, restarts and failed commits included: what
\* a cache keeps under it cannot be served for another state.
THEOREM WseqTagsState == Spec => []WseqIdentifiesState
<1>1. IInv => WseqIdentifiesState
  BY DEF IInv, WseqInv, WseqIdentifiesState
<1> QED  BY <1>1, InvHolds, PTL

\* A cached schema read that is served is what is committed, except between a commit and its
\* bump_schema_generation.
THEOREM SchemaReadsCurrent == Spec => []ServedSchemaIsCurrent
<1>1. IInv => ServedSchemaIsCurrent
  BY DEF IInv, CacheInv
<1> QED  BY <1>1, InvHolds, PTL

\* As long as the process has not crashed, the binary log with what the writer is about to
\* publish replays to the committed state, whatever the grouping and the refused jobs.
THEOREM LogReplaysToStore == Spec => []BinlogReplaysToStore
<1>1. ASSUME IInv, crashes = 0 PROVE ReplaysToStore
  <2>1. binlog \in Seq(Seq(Logged))
    BY <1>1 DEF IInv, LogInv
  <2>2. AllReadable(binlog)
    <3> SUFFICES ASSUME NEW n \in 1..Len(binlog), NEW m \in 1..Len(binlog[n])
                 PROVE  binlog[n][m] # Torn
      BY DEF AllReadable, Readable
    <3>1. binlog[n] \in Seq(Logged)
      BY <2>1
    <3>2. binlog[n][m] \in Logged
      BY <3>1
    <3> QED  BY <3>2, TornAssumption
  <2> QED  BY <1>1, <2>2 DEF IInv, ReplayInv, ReplaysToStore
<1>2. IInv => BinlogReplaysToStore
  BY <1>1 DEF BinlogReplaysToStore
<1> QED  BY <1>2, InvHolds, PTL

----------------------------------------------------------------------------
(* The writer implements the serial store *)

\* DecidedFor, as a function of a decided group and its results.
DecidedOf(g, rs) ==
  [c \in Client |->
     IF {n \in 1..Len(g) : g[n] = c} # {}
     THEN rs[CHOOSE n \in {n \in 1..Len(g) : g[n] = c} : TRUE] ELSE "none"]

\* Every job of a decided group has its result, other clients have none.
LEMMA DecidedOfFacts ==
  ASSUME NEW g \in Seq(Client), Distinct(g), NEW rs
  PROVE  /\ \A n \in 1..Len(g) : DecidedOf(g, rs)[g[n]] = rs[n]
         /\ \A c \in Client : c \notin In(g) => DecidedOf(g, rs)[c] = "none"
<1>1. ASSUME NEW n \in 1..Len(g) PROVE DecidedOf(g, rs)[g[n]] = rs[n]
  <2>1. g[n] \in Client
    OBVIOUS
  <2> DEFINE S == {m \in 1..Len(g) : g[m] = g[n]}
  <2>2. S = {n}
    BY DEF Distinct
  <2>3. (CHOOSE m \in S : TRUE) = n
    BY <2>2
  <2> QED  BY <2>1, <2>2, <2>3 DEF DecidedOf
<1>2. \A c \in Client : c \notin In(g) => DecidedOf(g, rs)[c] = "none"
  BY DEF DecidedOf, In
<1> QED  BY <1>1, <1>2

\* The group is an order of the clients in it.
LEMMA GroupIsOrder ==
  ASSUME NEW g \in Seq(Client), Distinct(g)
  PROVE  g \in Serial!Orders(In(g)) /\ DOMAIN g = 1..Len(g)
<1> DEFINE N == Len(g)
<1>1. N \in Nat /\ DOMAIN g = 1..N /\ g = [n \in 1..N |-> g[n]]
  OBVIOUS
<1>2. g \in [1..N -> In(g)]
  BY <1>1 DEF In
<1>3. g \in Bijection(1..N, In(g))
  <2>1. \A m, n \in 1..N : g[m] = g[n] => m = n
    BY DEF Distinct
  <2>2. \A c \in In(g) : \E n \in 1..N : g[n] = c
    BY DEF In
  <2> HIDE DEF N
  <2> QED  BY <1>1, <1>2, <2>1, <2>2 DEF Bijection, Injection, IsInjective, Surjection
<1> HIDE DEF N
<1>4. IsFiniteSet(1..N) /\ Cardinality(1..N) = N
  BY <1>1, FS_Interval
<1>5. Cardinality(In(g)) = N
  <2>1. ExistsBijection(1..N, In(g))
    BY <1>3 DEF ExistsBijection
  <2> QED  BY <1>4, <2>1, FS_Bijection
<1>6. \A m, n \in DOMAIN g : g[m] = g[n] => m = n
  BY <1>1 DEF Distinct, N
<1>7. g \in [1..Cardinality(In(g)) -> In(g)]
  BY <1>2, <1>5
<1>8. Serial!Cardinality(In(g)) = Cardinality(In(g))
  BY DEF Serial!Cardinality, Cardinality
<1>9. g \in Serial!Orders(In(g))
  BY <1>6, <1>7, <1>8 DEF Serial!Orders
<1> QED  BY <1>1, <1>9 DEF N

\* DecidedFor now and after a step.
LEMMA DecidedForIs ==
  /\ Decided => DecidedFor = DecidedOf(group, results)
  /\ Decided' => DecidedFor' = DecidedOf(group', results')
BY DEF DecidedFor, DecidedOf, InGroup

\* A step that leaves the store, the jobs, the answers and the decisions alone is no step of
\* the serial store.
LEMMA QuietStep ==
  ASSUME UNCHANGED <<store, job, reply>>,
         (Decided' = Decided /\ UNCHANGED <<group, results>>) \/ (~Decided /\ ~Decided')
  PROVE  UNCHANGED Serial!vars
<1>1. DecidedFor' = DecidedFor
  <2>1. CASE Decided' = Decided /\ UNCHANGED <<group, results>>
    BY <2>1 DEF DecidedFor, InGroup
  <2>2. CASE ~Decided /\ ~Decided'
    BY <2>2 DEF DecidedFor
  <2> QED  BY <2>1, <2>2
<1> QED  BY <1>1 DEF Serial!vars

\* Submitting is calling.
LEMMA SubmitStep ==
  ASSUME IInv, NEW c \in Client, Submit(c)
  PROVE  Serial!Call(c)
<1>1. /\ UNCHANGED <<store, reply, group, results, at>> /\ job[c] = NoJob
      /\ queue' = Append(queue, c)
  BY DEF Submit, storeVars
<1>2. PICK t \in Template : job' = [job EXCEPT ![c] = JobOf(t, snap[c])]
  BY DEF Submit
<1>3. job'[c] # NoJob
  <2>1. IInv'
    BY SubmitInv
  <2>2. queue \in Seq(Client)
    BY DEF IInv, TypeOK
  <2>3. c \in In(queue')
    BY <1>1, <2>2, InAppend
  <2> QED  BY <2>1, <2>3 DEF IInv, HeldInv
<1>4. job' = [job EXCEPT ![c] = job'[c]]
  BY <1>2 DEF IInv, TypeOK
<1>5. DecidedFor' = DecidedFor
  BY <1>1 DEF DecidedFor, Decided, InGroup
<1> QED  BY <1>1, <1>3, <1>4, <1>5 DEF Serial!Call

\* The clients of a group that is not decided are waiting.
LEMMA GroupWaits ==
  ASSUME IInv, at = "apply"
  PROVE  In(group) \in SUBSET Serial!Waiting /\ In(group) # {}
<1>1. group \in Seq(Client) /\ group # << >>
  BY DEF IInv, TypeOK
<1>2. In(group) # {}
  <2>1. 1 \in 1..Len(group)
    BY <1>1
  <2> QED  BY <2>1 DEF In
<1>3. ASSUME NEW c \in In(group) PROVE c \in Client /\ job[c] # NoJob /\ DecidedFor[c] = "none"
  <2>1. c \in Client
    BY <1>1, <1>3 DEF In
  <2>2. job[c] # NoJob
    BY <1>3, <2>1 DEF IInv, HeldInv
  <2>3. DecidedFor[c] = "none"
    BY <2>1 DEF DecidedFor, Decided
  <2> QED  BY <2>1, <2>2, <2>3
<1> QED  BY <1>2, <1>3 DEF Serial!Waiting

\* The transaction of a group is an effect of its jobs, in the order of the group.
LEMMA ApplyStep ==
  ASSUME IInv, ApplyAlone \/ ApplyGroup
  PROVE  Serial!TakeEffect(group)
<1> DEFINE N == Len(group)
           js == Jobs
           SS == GroupStates(store, js)
<1>1. /\ N \in Nat /\ N = Len(js) /\ js \in Seq(Job)
      /\ SS \in [0..N -> State]
      /\ store' = SS[N]
      /\ \A n \in 1..N : results'[n] = Outcome(SS[n - 1], js[n])
      /\ at = "apply" /\ at' \in {"bump", "publish"}
      /\ UNCHANGED <<schemaGen, queue, carry, group, replVars, clientVars, cacheVars, envVars>>
  BY ApplyFacts
<1>2. store \in State /\ group \in Seq(Client) /\ Distinct(group)
  BY DEF IInv, TypeOK, State, Value, HeldInv
<1>3. DOMAIN group = 1..N
  BY <1>2
<1>4. js = [n \in DOMAIN group |-> job[group[n]]]
  BY <1>3 DEF Jobs
<1>5. Serial!Through(store, js) = SS
  BY <1>1, <1>2, GroupIsSerial
<1>6. \A n \in 1..N : js[n] \in Job
  BY <1>1
<1> HIDE DEF js, SS, N
<1>7. ASSUME NEW n \in 1..N PROVE results'[n] = Serial!Meets(SS[n - 1], js[n])
  <2>1. n - 1 \in 0..N
    BY <1>1
  <2>2. SS[n - 1] \in State
    BY <1>1, <2>1
  <2> QED  BY <1>1, <1>6, <2>2, OutcomeIsMeets
<1>8. ~Decided /\ Decided' /\ group' = group
  BY <1>1 DEF Decided
<1>9. ASSUME NEW c \in Client
      PROVE  DecidedFor'[c] = IF \E n \in DOMAIN group : group[n] = c
                              THEN LET n == CHOOSE n \in DOMAIN group : group[n] = c
                                   IN  Serial!Meets(SS[n - 1], js[n])
                              ELSE DecidedFor[c]
  <2>1. CASE \E n \in 1..N : group[n] = c
    <3> DEFINE m == CHOOSE n \in 1..N : group[n] = c
    <3>1. m \in 1..N /\ group[m] = c
      BY <2>1
    <3> HIDE DEF m
    <3>2. DecidedOf(group, results')[group[m]] = results'[m]
      BY <1>2, <3>1, DecidedOfFacts DEF N
    <3>3. DecidedFor'[c] = results'[m]
      BY <1>8, <3>1, <3>2, DecidedForIs
    <3>4. DecidedFor'[c] = Serial!Meets(SS[m - 1], js[m])
      BY <1>7, <3>1, <3>3
    <3> QED  BY <1>3, <2>1, <3>4 DEF m
  <2>2. CASE ~\E n \in 1..N : group[n] = c
    <3>1. c \notin In(group)
      BY <2>2 DEF In, N
    <3>2. DecidedFor'[c] = "none"
      <4>1. DecidedOf(group, results')[c] = "none"
        BY <1>2, <3>1, DecidedOfFacts
      <4> QED  BY <1>8, <4>1, DecidedForIs
    <3>3. DecidedFor[c] = "none"
      BY <1>8 DEF DecidedFor
    <3> QED  BY <1>3, <2>2, <3>2, <3>3
  <2> QED  BY <2>1, <2>2
<1>10. DecidedFor' = [c \in Client |-> DecidedFor'[c]]
  BY DEF DecidedFor
<1>11. DecidedFor' = [c \in Client |->
                        IF \E n \in DOMAIN group : group[n] = c
                        THEN LET n == CHOOSE n \in DOMAIN group : group[n] = c
                             IN  Serial!Meets(SS[n - 1], js[n])
                        ELSE DecidedFor[c]]
  BY <1>9, <1>10
<1>12. store' = SS[Len(js)] /\ UNCHANGED <<job, reply>>
  BY <1>1 DEF clientVars
<1> QED  BY <1>4, <1>5, <1>11, <1>12 DEF Serial!TakeEffect

\* A failed transaction is a failure of the jobs of the group.
LEMMA ApplyFailsStep ==
  ASSUME IInv, ApplyFails
  PROVE  Serial!Fail(In(group))
<1>1. /\ at = "apply" /\ at' = "publish" /\ results' = [n \in 1..Len(group) |-> "error"]
      /\ UNCHANGED <<store, group, job, reply>>
  BY DEF ApplyFails, clientVars
<1>2. group \in Seq(Client) /\ Distinct(group)
  BY DEF IInv, TypeOK, HeldInv
<1>3. ~Decided /\ Decided'
  BY <1>1 DEF Decided
<1>4. ASSUME NEW c \in Client
      PROVE  DecidedFor'[c] = IF c \in In(group) THEN "error" ELSE DecidedFor[c]
  <2>1. DecidedFor'[c] = DecidedOf(group, results')[c] /\ DecidedFor[c] = "none"
    <3>1. DecidedFor[c] = "none"
      BY <1>3 DEF DecidedFor
    <3> QED  BY <1>1, <1>3, <3>1, DecidedForIs
  <2>2. CASE c \in In(group)
    <3>1. PICK n \in 1..Len(group) : group[n] = c
      BY <2>2 DEF In
    <3>2. DecidedOf(group, results')[group[n]] = results'[n]
      BY <1>2, DecidedOfFacts
    <3> QED  BY <1>1, <2>1, <2>2, <3>1, <3>2
  <2>3. CASE c \notin In(group)
    BY <1>2, <2>1, <2>3, DecidedOfFacts
  <2> QED  BY <2>2, <2>3
<1>5. DecidedFor' = [c \in Client |-> DecidedFor'[c]]
  BY DEF DecidedFor
<1>6. DecidedFor' = [c \in Client |-> IF c \in In(group) THEN "error" ELSE DecidedFor[c]]
  BY <1>4, <1>5
<1> QED  BY <1>1, <1>6 DEF Serial!Fail

\* An answer is a return.
LEMMA AckStep ==
  ASSUME IInv, Ack
  PROVE  group[1] \in Client /\ Serial!Return(group[1])
<1> DEFINE N == Len(group)
           d == group[1]
<1>1. /\ at = "ack" /\ at' = IF N = 1 THEN "recv" ELSE "publish"
      /\ reply' = [reply EXCEPT ![d] = results[1]] /\ job' = [job EXCEPT ![d] = NoJob]
      /\ group' = Tail(group) /\ results' = Tail(results) /\ store' = store
  BY DEF Ack, storeVars
<1>2. /\ group \in Seq(Client) /\ group # << >> /\ Distinct(group)
      /\ results \in Seq(Result) /\ Len(results) = N
  BY <1>1 DEF IInv, TypeOK, HeldInv, Decided
<1>3. N \in Nat /\ N >= 1 /\ 1 \in 1..N
  BY <1>2
<1>4. /\ d \in Client /\ d \in In(group) /\ Tail(group) \in Seq(Client) /\ Len(Tail(group)) = N - 1
      /\ In(Tail(group)) = In(group) \ {d} /\ Distinct(Tail(group))
  BY <1>2, InTail
<1>5. /\ results[1] \in Result /\ \A n \in 1..N-1 : Tail(results)[n] = results[n + 1]
  BY <1>2, <1>3
<1>6. \A n \in 1..N-1 : Tail(group)[n] = group[n + 1]
  BY <1>2
<1>7. Decided
  BY <1>1 DEF Decided
<1>8. DecidedFor[d] = results[1]
  <2>1. DecidedOf(group, results)[group[1]] = results[1]
    BY <1>2, <1>3, DecidedOfFacts
  <2> QED  BY <1>7, <2>1, DecidedForIs
<1>9. results[1] # "none"
  BY <1>5 DEF Result
<1>10. ASSUME NEW c \in Client PROVE DecidedFor'[c] = IF c = d THEN "none" ELSE DecidedFor[c]
  <2>1. CASE c \in In(Tail(group))
    <3>1. PICK n \in 1..N-1 : Tail(group)[n] = c
      BY <1>4, <2>1 DEF In
    <3>2. n \in 1..Len(Tail(group)) /\ n + 1 \in 1..N /\ N # 1
      <4> HIDE DEF N
      <4> QED  BY <1>3, <1>4
    <3>3. Decided' /\ c # d
      BY <1>1, <1>4, <2>1, <3>2 DEF Decided
    <3>4. DecidedOf(Tail(group), Tail(results))[Tail(group)[n]] = Tail(results)[n]
      <4> DEFINE gt == Tail(group)
                 rt == Tail(results)
      <4>1. gt \in Seq(Client) /\ Distinct(gt) /\ n \in 1..Len(gt)
        BY <1>4, <3>2
      <4> HIDE DEF gt, rt
      <4>2. DecidedOf(gt, rt)[gt[n]] = rt[n]
        BY <4>1, DecidedOfFacts
      <4> QED  BY <4>2 DEF gt, rt
    <3>5. DecidedOf(group, results)[group[n + 1]] = results[n + 1]
      BY <1>2, <3>2, DecidedOfFacts
    <3>6. DecidedFor'[c] = Tail(results)[n]
      BY <1>1, <3>1, <3>3, <3>4, DecidedForIs
    <3>7. DecidedFor[c] = results[n + 1]
      BY <1>6, <1>7, <3>1, <3>5, DecidedForIs
    <3> QED  BY <1>5, <3>3, <3>6, <3>7
  <2>2. CASE c \notin In(Tail(group))
    <3>1. DecidedFor'[c] = "none"
      <4>1. DecidedOf(Tail(group), Tail(results))[c] = "none"
        <5> DEFINE gt == Tail(group)
                   rt == Tail(results)
        <5>1. gt \in Seq(Client) /\ Distinct(gt) /\ c \notin In(gt)
          BY <1>4, <2>2
        <5> HIDE DEF gt, rt
        <5>2. DecidedOf(gt, rt)[c] = "none"
          BY <5>1, DecidedOfFacts
        <5> QED  BY <5>2 DEF gt, rt
      <4>2. ~Decided' => DecidedFor'[c] = "none"
        BY DEF DecidedFor
      <4> QED  BY <1>1, <4>1, <4>2, DecidedForIs
    <3>2. c # d => DecidedFor[c] = "none"
      <4>1. c # d => c \notin In(group)
        BY <1>4, <2>2
      <4>2. c # d => DecidedOf(group, results)[c] = "none"
        BY <1>2, <4>1, DecidedOfFacts
      <4> QED  BY <1>7, <4>2, DecidedForIs
    <3> QED  BY <3>1, <3>2
  <2> QED  BY <2>1, <2>2
<1>11. DecidedFor' = [DecidedFor EXCEPT ![d] = "none"]
  BY <1>4, <1>10 DEF DecidedFor
<1>12. DecidedFor[d] # "none" /\ reply' = [reply EXCEPT ![d] = DecidedFor[d]]
  BY <1>1, <1>8, <1>9
<1> QED  BY <1>1, <1>4, <1>11, <1>12 DEF Serial!Return

\* A crash is a crash.
LEMMA CrashStep ==
  ASSUME IInv, Crash
  PROVE  Serial!Crash
<1>1. /\ job' = [c \in Client |-> NoJob] /\ at' = "recv" /\ store' = store
      /\ reply' = [c \in Client |-> IF job[c] # NoJob THEN "lost" ELSE reply[c]]
  BY DEF Crash
<1>2. DecidedFor' = [c \in Client |-> "none"]
  BY <1>1 DEF DecidedFor, Decided
<1> QED  BY <1>1, <1>2 DEF Serial!Crash

\* Every step of the writer, its clients and the process is a step of the serial store or
\* changes nothing of it.
LEMMA SerialStep ==
  ASSUME IInv, [Next]_vars
  PROVE  [Serial!Next]_(Serial!vars)
<1> USE DEF storeVars, loopVars, replVars, clientVars, cacheVars, envVars
<1>1. CASE \E c \in Client : Begin(c)
  BY <1>1, QuietStep DEF Begin, Decided
<1>2. CASE \E c \in Client : Submit(c)
  BY <1>2, SubmitStep DEF Serial!Next
<1>3. CASE Receive
  BY <1>3, QuietStep DEF Receive, Decided
<1>4. CASE Drain
  <2>1. UNCHANGED <<store, job, reply>> /\ ~Decided /\ ~Decided'
    BY <1>4 DEF Drain, Decided
  <2> QED  BY <2>1, QuietStep
<1>5. CASE DrainEnd
  BY <1>5, QuietStep DEF DrainEnd, Decided
<1>6. CASE ApplyAlone \/ ApplyGroup
  <2>1. Serial!TakeEffect(group)
    BY <1>6, ApplyStep
  <2>2. In(group) \in SUBSET Serial!Waiting /\ In(group) # {}
    BY <1>6, GroupWaits DEF ApplyAlone, ApplyGroup
  <2>3. group \in Serial!Orders(In(group))
    BY GroupIsOrder DEF IInv, TypeOK, HeldInv
  <2> QED  BY <2>1, <2>2, <2>3 DEF Serial!Next
<1>7. CASE ApplyFails
  <2>1. In(group) \in SUBSET Serial!Waiting /\ In(group) # {}
    BY <1>7, GroupWaits DEF ApplyFails
  <2>2. Serial!Fail(In(group))
    BY <1>7, ApplyFailsStep
  <2> QED  BY <2>1, <2>2 DEF Serial!Next
<1>8. CASE Bump
  BY <1>8, QuietStep DEF Bump, Decided
<1>9. CASE Publish
  <2>1. UNCHANGED <<store, job, reply, group, results>> /\ Decided' = Decided
    BY <1>9 DEF Publish, Decided
  <2> QED  BY <2>1, QuietStep
<1>10. CASE Ack
  BY <1>10, AckStep DEF Serial!Next
<1>11. CASE CacheMiss \/ CacheFill
  <2>1. UNCHANGED <<store, job, reply, group, results>> /\ Decided' = Decided
    BY <1>11 DEF CacheMiss, CacheFill, Decided
  <2> QED  BY <2>1, QuietStep
<1>12. CASE Crash
  BY <1>12, CrashStep DEF Serial!Next
<1>13. CASE UNCHANGED vars
  <2>1. UNCHANGED <<store, job, reply, group, results>> /\ Decided' = Decided
    BY <1>13 DEF vars, Decided
  <2> QED  BY <2>1, QuietStep
<1> QED  BY <1>1, <1>2, <1>3, <1>4, <1>5, <1>6, <1>7, <1>8, <1>9, <1>10, <1>11, <1>12, <1>13 DEF Next

\* What the callers of the database see is a serial store: the queue, the carry, the grouping
\* and the checks made inside one transaction do not show, whatever fails or crashes.
THEOREM ImplementsSerialStore == Spec => RefinesSerialStore
<1>1. Init => Serial!Init
  BY DEF Init, Serial!Init, Empty, DecidedFor, Decided
<1>2. IInv /\ [Next]_vars => [Serial!Next]_(Serial!vars)
  BY SerialStep
<1> QED  BY <1>1, <1>2, InvHolds, PTL DEF Spec, RefinesSerialStore, Serial!Spec

============================================================================
