-------------------------- MODULE TableLocksProofs --------------------------
(***************************************************************************)
(* Proofs about TableLocks: for any sessions, tables, commands and bounds, *)
(* guards that conflict are never held by two sessions, a running          *)
(* statement obeys the LOCK TABLES answered before it, and sessions do not *)
(* wait for each other in a circle.                                        *)
(***************************************************************************)
EXTENDS TableLocks, NaturalRecursion, FiniteSetTheorems, SequenceTheorems, TLAPS

----------------------------------------------------------------------------
(* The inductive invariant *)

\* How often a lock occurs in a sequence of guards.
Occurs(q, l) == Cardinality({i \in DOMAIN q : q[i] = l})

\* A pile per session: n[s] tokens of session s.
Tally(n) == {p \in Session \X Nat : 1 <= p[2] /\ p[2] <= n[p[1]]}
Counts(k, n) == IsFiniteSet(Tally(n)) /\ k = Cardinality(Tally(n))

\* How many guards of a session stand for lock l.
Claims(s, l) == Occurs(got[s], l) + Occurs(held[s], l) + Occurs(dropping[s], l)

\* How many of its guards are explicit, and how many of them the counter knows.
Own(s) == Len(held[s]) + (IF cmd[s].kind = "lock" THEN Len(got[s]) + Len(dropping[s]) ELSE 0)
Owed(s) == IF pc[s] = "count" THEN -1 ELSE IF pc[s] = "uncount" THEN 1 ELSE 0
Explicits(s) == Own(s) + Owed(s)

\* The manager's entry of a table counts the guards on it, and its counter the
\* explicit ones.
ManagerInv ==
  /\ \A t \in Table :
       /\ Counts(readers[t], [s \in Session |-> Claims(s, Lock(t, Shared))])
       /\ Counts(IF writer[t] THEN 1 ELSE 0, [s \in Session |-> Claims(s, Lock(t, Exclusive))])
       /\ writer[t] => readers[t] = 0
  /\ Counts(explicit, [s \in Session |-> Explicits(s)])

Waits == {"take", "parking", "parked"}

\* A command is a statement, its body running or not, or names locks in order.
CmdInv(s) ==
  \/ /\ cmd[s] \in [kind : {"stmt"}, writes : SUBSET Table, reads : SUBSET Table,
                    dml : BOOLEAN, body : {NoBody} \cup Statement({NoBody}), inBody : BOOLEAN]
     /\ cmd[s].inBody => cmd[s].body \in Statement({NoBody})
  \/ /\ cmd[s] \in [kind : {"lock"}, locks : Seq(Guard), global : BOOLEAN]
     /\ Ascending(cmd[s].locks)
     /\ cmd[s].global => Tables(cmd[s].locks) = Table

\* What a session has in hand at each point of its command.
PathInv(s) ==
  /\ pc[s] = "idle" => got[s] = << >> /\ want[s] = << >> /\ dropping[s] = << >>
  /\ pc[s] = "gate" => /\ cmd[s].kind = "stmt" /\ want[s] = << >> /\ dropping[s] = << >>
                       /\ ~cmd[s].inBody => got[s] = << >>
  /\ pc[s] \in Waits \cup {"count"} =>
       dropping[s] = << >> /\ (cmd[s].kind = "lock" => held[s] = << >>)
  /\ pc[s] \in {"parking", "parked"} => want[s] # << >>
  /\ pc[s] = "parking" => rounds[s] < MaxRounds
  /\ pc[s] = "count" => cmd[s].kind = "lock" /\ got[s] # << >>
  /\ pc[s] = "run" => cmd[s].kind = "stmt" /\ want[s] = << >> /\ dropping[s] = << >>
  /\ pc[s] \in {"drop", "uncount"} =>
       /\ got[s] = << >>
       /\ cmd[s].kind = "stmt" => want[s] = << >>
       /\ cmd[s].kind = "lock" => held[s] = << >>
  /\ pc[s] = "uncount" => cmd[s].kind = "lock"

\* Locks are taken in name order, but for a body's after its statement's.
OrderInv(s) ==
  /\ Ascending(want[s])
  /\ (cmd[s].kind = "stmt" => ~cmd[s].inBody) =>
       \A i \in DOMAIN got[s], j \in DOMAIN want[s] : got[s][i].table < want[s][j].table

\* FLUSH TABLES WITH READ LOCK locks, and then holds, every table.
GlobalInv(s) ==
  /\ global[s] => Tables(held[s]) = Table
  /\ cmd[s].kind = "lock" /\ cmd[s].global =>
       /\ pc[s] \in Waits \cup {"count"} => Tables(got[s]) \cup Tables(want[s]) = Table
       /\ pc[s] \in {"drop", "uncount"} => want[s] = << >> \/ Tables(want[s]) = Table

\* Under locks of its own a statement of the session takes no further one.
NoWaitInv(s) ==
  (cmd[s].kind = "stmt" /\ ~cmd[s].inBody /\ cmd[s].dml /\ held[s] # << >>
     /\ pc[s] \in Waits) => want[s] = << >>

Covers(k, u) == k.table = u.table /\ (u.mode = Exclusive => k.mode = Exclusive)

\* Past the gate, unless no lock binds the statement, each use has its lock, taken, to be
\* taken, or held by the session.
HonourInv(s) ==
  cmd[s].kind = "stmt" /\ pc[s] \in Waits \cup {"run"} /\ before[s] # {} =>
    \A u \in Uses(s) :
      \/ \E k \in ToSet(got[s]) \cup ToSet(want[s]) : Covers(k, u)
      \/ HeldOn(s, u.table) # {} /\ (cmd[s].inBody \/ ~cmd[s].dml)
      \/ \E k \in HeldOn(s, u.table) : Covers(k, u)

SeqInv ==
  /\ want \in [Session -> Seq(Guard)] /\ got \in [Session -> Seq(Guard)]
  /\ held \in [Session -> Seq(Guard)] /\ dropping \in [Session -> Seq(Guard)]
  /\ DOMAIN cmd = Session
  /\ \A s \in Session : s \notin before[s]

SessionInv(s) ==
  /\ CmdInv(s) /\ PathInv(s) /\ OrderInv(s) /\ GlobalInv(s) /\ NoWaitInv(s) /\ HonourInv(s)

IInv == TypeOK /\ SeqInv /\ ManagerInv /\ \A s \in Session : SessionInv(s)

----------------------------------------------------------------------------
(* Counting *)

\* The places of a lock in a sequence are finitely many.
LEMMA PlacesFinite ==
  ASSUME NEW q \in Seq(Guard), NEW l
  PROVE  /\ IsFiniteSet({i \in DOMAIN q : q[i] = l})
         /\ Occurs(q, l) \in Nat
<1>1. IsFiniteSet(DOMAIN q)
  BY FS_Interval, LenProperties, DOMAIN q = 1..Len(q)
<1>. QED
  BY <1>1, FS_Subset, FS_CardinalityType DEF Occurs

\* A lock is among the guards of a sequence when it occurs in it.
LEMMA OccursPositive ==
  ASSUME NEW q \in Seq(Guard), NEW l
  PROVE  l \in ToSet(q) <=> Occurs(q, l) > 0
<1>. DEFINE P == {i \in DOMAIN q : q[i] = l}
<1>1. IsFiniteSet(P) /\ Occurs(q, l) = Cardinality(P) /\ Occurs(q, l) \in Nat
  BY PlacesFinite DEF Occurs
<1>2. Cardinality(P) = 0 <=> P = {}
  BY <1>1, FS_EmptySet
<1>3. l \in ToSet(q) <=> P # {}
  BY DEF ToSet
<1>. QED
  BY <1>1, <1>2, <1>3

\* Nothing occurs in the empty sequence.
LEMMA OccursNone ==
  ASSUME NEW l
  PROVE  Occurs(<< >>, l) = 0
<1>1. {i \in DOMAIN << >> : << >>[i] = l} = {}
  OBVIOUS
<1>. QED
  BY <1>1, FS_EmptySet DEF Occurs

\* A guard taken adds one occurrence of its lock.
LEMMA OccursAppend ==
  ASSUME NEW q \in Seq(Guard), NEW k \in Guard, NEW l
  PROVE  Occurs(Append(q, k), l) = Occurs(q, l) + (IF k = l THEN 1 ELSE 0)
<1>. DEFINE n == Len(q) + 1
            P == {i \in DOMAIN q : q[i] = l}
            Q == {i \in DOMAIN Append(q, k) : Append(q, k)[i] = l}
<1>1. n \in Nat /\ DOMAIN q = 1..(n - 1) /\ DOMAIN Append(q, k) = 1..n
  BY LenProperties, AppendProperties
<1>2. Q = IF k = l THEN P \cup {n} ELSE P
  BY <1>1, AppendProperties
<1>3. IsFiniteSet(P) /\ n \notin P
  <2>1. n \notin P
    BY <1>1
  <2>. QED
    BY <2>1, PlacesFinite
<1>4. Cardinality(Q) = Cardinality(P) + (IF k = l THEN 1 ELSE 0)
  <2>1. Cardinality(P) \in Nat
    BY <1>3, FS_CardinalityType
  <2>2. Cardinality(P \cup {n}) = Cardinality(P) + 1
    BY <1>3, FS_AddElement
  <2>. HIDE DEF P, Q, n
  <2>. QED
    BY <2>1, <2>2, <1>2
<1>. QED
  BY <1>4 DEF Occurs

\* The first guard of a sequence is one occurrence of its lock.
LEMMA OccursTail ==
  ASSUME NEW q \in Seq(Guard), q # << >>, NEW l
  PROVE  Occurs(q, l) = Occurs(Tail(q), l) + (IF Head(q) = l THEN 1 ELSE 0)
<1>. DEFINE P == {i \in DOMAIN q : q[i] = l}
            Q == {i \in DOMAIN Tail(q) : Tail(q)[i] = l}
            f == [i \in Q |-> i + 1]
<1>1. /\ Len(q) \in Nat /\ DOMAIN q = 1..Len(q) /\ Tail(q) \in Seq(Guard)
      /\ DOMAIN Tail(q) = 1..(Len(q) - 1) /\ Head(q) = q[1] /\ Len(q) > 0
      /\ \A i \in 1..(Len(q) - 1) : Tail(q)[i] = q[i + 1]
  BY LenProperties, HeadTailProperties, EmptySeq
<1>2. f \in Bijection(Q, P \ {1})
  <2>1. \A i \in Q : i + 1 \in P \ {1}
    BY <1>1
  <2>2. \A i \in P \ {1} : i - 1 \in Q /\ i - 1 + 1 = i
    BY <1>1
  <2>3. \A i, j \in Q : i + 1 = j + 1 => i = j
    BY <1>1
  <2>. HIDE DEF P, Q
  <2>4. f \in Injection(Q, P \ {1})
    BY <2>1, <2>3 DEF Injection, IsInjective
  <2>5. \A i \in P \ {1} : \E j \in Q : f[j] = i
    BY <2>2
  <2>. QED
    BY <2>4, <2>5 DEF Bijection, Injection, Surjection
<1>3. IsFiniteSet(Q) /\ IsFiniteSet(P)
  BY <1>1, PlacesFinite
<1>4. Cardinality(P \ {1}) = Cardinality(Q)
  <2>. HIDE DEF P, Q, f
  <2>. QED
    BY <1>2, <1>3, FS_Bijection DEF ExistsBijection
<1>5. 1 \in P <=> Head(q) = l
  BY <1>1
<1>6. Cardinality(P) = Cardinality(Q) + (IF Head(q) = l THEN 1 ELSE 0)
  <2>1. Cardinality(P) \in Nat /\ Cardinality(Q) \in Nat
    BY <1>3, FS_CardinalityType
  <2>2. Cardinality(P \ {1}) = IF 1 \in P THEN Cardinality(P) - 1 ELSE Cardinality(P)
    BY <1>3, FS_RemoveElement
  <2>. HIDE DEF P, Q, f
  <2>. QED
    BY <2>1, <2>2, <1>4, <1>5
<1>. QED
  BY <1>6 DEF Occurs

\* The order of the guards does not matter.
LEMMA OccursReverse ==
  ASSUME NEW q \in Seq(Guard), NEW l
  PROVE  /\ Reverse(q) \in Seq(Guard) /\ Len(Reverse(q)) = Len(q)
         /\ ToSet(Reverse(q)) = ToSet(q)
         /\ Occurs(Reverse(q), l) = Occurs(q, l)
<1>. DEFINE n == Len(q)
            P == {i \in DOMAIN q : q[i] = l}
            Q == {i \in DOMAIN Reverse(q) : Reverse(q)[i] = l}
            f == [i \in Q |-> n - i + 1]
<1>1. n \in Nat /\ DOMAIN q = 1..n /\ q \in [1..n -> Guard]
  BY LenProperties
<1>2. Reverse(q) = [i \in 1..n |-> q[n - i + 1]]
  BY DEF Reverse
<1>3. \A i \in 1..n : n - i + 1 \in 1..n /\ n - (n - i + 1) + 1 = i
  BY <1>1
<1>4. Reverse(q) \in [1..n -> Guard]
  BY <1>1, <1>2, <1>3
<1>5. Reverse(q) \in Seq(Guard) /\ Len(Reverse(q)) = Len(q)
  <2>1. Reverse(q) \in Seq(Guard)
    BY <1>1, <1>4, SeqDef
  <2>2. DOMAIN Reverse(q) = 1..n
    BY <1>4
  <2>. QED
    BY <1>1, <2>1, <2>2, LenProperties
<1>6. \A i \in 1..n : Reverse(q)[i] = q[n - i + 1] /\ q[i] = Reverse(q)[n - i + 1]
  BY <1>2, <1>3
<1>7. DOMAIN Reverse(q) = 1..n
  BY <1>4
<1>8. ToSet(Reverse(q)) = ToSet(q)
  BY <1>1, <1>3, <1>6, <1>7 DEF ToSet
<1>9. f \in Bijection(Q, P)
  <2>1. \A i \in Q : i \in 1..n /\ n - i + 1 \in P
    BY <1>1, <1>3, <1>6, <1>7
  <2>2. \A i \in P : n - i + 1 \in Q /\ n - (n - i + 1) + 1 = i
    BY <1>1, <1>3, <1>6, <1>7
  <2>3. \A i, j \in Q : n - i + 1 = n - j + 1 => i = j
    BY <1>1, <2>1
  <2>. HIDE DEF P, Q, n
  <2>4. f \in Injection(Q, P)
    BY <2>1, <2>3 DEF Injection, IsInjective
  <2>5. \A i \in P : \E j \in Q : f[j] = i
    BY <2>2
  <2>. QED
    BY <2>4, <2>5 DEF Bijection, Injection, Surjection
<1>10. IsFiniteSet(Q)
  BY <1>5, PlacesFinite
<1>11. Cardinality(P) = Cardinality(Q)
  <2>. HIDE DEF P, Q, f
  <2>. QED
    BY <1>9, <1>10, FS_Bijection DEF ExistsBijection
<1>. QED
  BY <1>5, <1>8, <1>11 DEF Occurs

\* One more token of a session.
LEMMA TallyUp ==
  ASSUME NEW n \in [Session -> Nat], NEW m \in [Session -> Nat], NEW s \in Session,
         m[s] = n[s] + 1, \A r \in Session \ {s} : m[r] = n[r],
         NEW k, Counts(k, n)
  PROVE  Counts(k + 1, m) /\ k \in Nat
<1>1. Tally(m) = Tally(n) \cup {<<s, n[s] + 1>>}
  BY DEF Tally
<1>2. <<s, n[s] + 1>> \notin Tally(n)
  BY DEF Tally
<1>. QED
  BY <1>1, <1>2, FS_AddElement, FS_CardinalityType DEF Counts

\* One token less.
LEMMA TallyDown ==
  ASSUME NEW n \in [Session -> Nat], NEW m \in [Session -> Nat], NEW s \in Session,
         n[s] = m[s] + 1, \A r \in Session \ {s} : m[r] = n[r],
         NEW k, Counts(k, n)
  PROVE  Counts(k - 1, m) /\ k \in Nat \ {0}
<1>1. Tally(n) = Tally(m) \cup {<<s, m[s] + 1>>}
  BY DEF Tally
<1>2. <<s, m[s] + 1>> \notin Tally(m) /\ Tally(m) \subseteq Tally(n)
  BY <1>1 DEF Tally
<1>3. IsFiniteSet(Tally(m))
  BY <1>2, FS_Subset DEF Counts
<1>4. /\ Cardinality(Tally(m)) \in Nat
      /\ Cardinality(Tally(n)) = Cardinality(Tally(m)) + 1
  BY <1>1, <1>2, <1>3, FS_AddElement, FS_CardinalityType
<1>. QED
  BY <1>3, <1>4 DEF Counts

\* A session with tokens makes the count positive, two sessions make it more than one.
LEMMA TallyPositive ==
  ASSUME NEW n \in [Session -> Nat], NEW k, Counts(k, n), NEW s \in Session, n[s] > 0
  PROVE  /\ k \in Nat \ {0}
         /\ \A r \in Session : r # s /\ n[r] > 0 => k > 1
<1>1. <<s, 1>> \in Tally(n) /\ \A r \in Session : n[r] > 0 => <<r, 1>> \in Tally(n)
  BY DEF Tally
<1>2. k \in Nat /\ k # 0
  BY <1>1, FS_EmptySet, FS_CardinalityType DEF Counts
<1>3. ASSUME NEW r \in Session, r # s, n[r] > 0
      PROVE  k > 1
  <2>1. ASSUME k = 1
        PROVE  FALSE
    <3>1. PICK x : Tally(n) = {x}
      BY <2>1, FS_Singleton DEF Counts
    <3>2. <<s, 1>> = x /\ <<r, 1>> = x
      BY <3>1, <1>1, <1>3
    <3>. QED
      BY <3>2, <1>3
  <2>. QED
    BY <2>1, <1>2
<1>. QED
  BY <1>2, <1>3

\* The greatest of finitely many natural numbers.
LEMMA Greatest ==
  ASSUME NEW S \in SUBSET Nat, IsFiniteSet(S), S # {}
  PROVE  \E m \in S : \A k \in S : k <= m
<1>. DEFINE g == [k \in S |-> Cardinality({j \in S : j <= k})]
<1>1. \A k \in S : g[k] \in Nat /\ g[k] <= Cardinality(S)
  BY FS_Subset, FS_CardinalityType
<1>2. PICK m \in S : \A k \in S : g[k] <= g[m]
  <2>. DEFINE V == {Cardinality(S) - g[k] : k \in S}
  <2>. HIDE DEF g
  <2>1. V \subseteq Nat /\ V # {}
    <3>1. Cardinality(S) \in Nat
      BY FS_CardinalityType
    <3>2. \A k \in S : Cardinality(S) - g[k] \in Nat
      BY <1>1, <3>1
    <3>. QED
      BY <3>2
  <2>2. PICK v \in V : \A u \in V : v <= u
    <3>. HIDE DEF V
    <3>. QED
      BY <2>1, LeastNatural
  <2>3. PICK m \in S : v = Cardinality(S) - g[m]
    BY <2>2
  <2>4. \A k \in S : Cardinality(S) - g[m] <= Cardinality(S) - g[k]
    BY <2>2, <2>3
  <2>5. Cardinality(S) \in Nat /\ g[m] \in Nat /\ \A k \in S : g[k] \in Nat
    BY <1>1, FS_CardinalityType
  <2>6. \A k \in S : g[k] <= g[m]
    BY <2>4, <2>5
  <2>. QED
    BY <2>6
<1>3. ASSUME NEW k \in S, ~(k <= m)
      PROVE  FALSE
  <2>. DEFINE A == {j \in S : j <= m}
              B == {j \in S : j <= k}
  <2>1. A \subseteq B /\ k \in B /\ k \notin A
    <3>1. m \in Nat /\ k \in Nat /\ \A j \in S : j \in Nat
      BY <1>2, <1>3
    <3>2. \A j \in S : j <= m => j <= k
      BY <3>1, <1>3
    <3>3. k <= k
      BY <3>1
    <3>. QED
      BY <3>2, <3>3, <1>3
  <2>2. IsFiniteSet(B)
    BY FS_Subset
  <2>3. Cardinality(A) <= Cardinality(B) /\ Cardinality(A) # Cardinality(B)
    <3>. HIDE DEF A, B
    <3>. QED
      BY <2>1, <2>2, FS_Subset
  <2>4. g[m] = Cardinality(A) /\ g[k] = Cardinality(B)
    OBVIOUS
  <2>. QED
    BY <2>3, <2>4, <1>1, <1>2
<1>. QED
  BY <1>2, <1>3

\* InOrder lists each table of f once, in order, with its mode.
LEMMA InOrderFacts ==
  ASSUME NEW T \in SUBSET Table, NEW f \in [T -> {Shared, Exclusive}]
  PROVE  /\ InOrder(f) \in Seq(Guard)
         /\ Ascending(InOrder(f))
         /\ ToSet(InOrder(f)) = {Lock(t, f[t]) : t \in T}
<1>. DEFINE Rank(t) == Cardinality({u \in T : u <= t})
            Nth(i) == CHOOSE t \in T : Rank(t) = i
            n == Cardinality(T)
            g == [t \in T |-> Rank(t)]
            q == InOrder(f)
<1>1. T \subseteq Nat /\ IsFiniteSet(T) /\ n \in Nat
  BY TableAssumption, FS_Subset, FS_CardinalityType
<1>2. ASSUME NEW t \in T
      PROVE  Rank(t) \in 1..n
  <2>. DEFINE A == {u \in T : u <= t}
  <2>1. A \subseteq T /\ t \in A
    BY <1>1
  <2>. HIDE DEF A
  <2>2. IsFiniteSet(A) /\ Cardinality(A) <= n
    BY <1>1, <2>1, FS_Subset
  <2>3. Cardinality(A) \in Nat /\ Cardinality(A) # 0
    BY <2>1, <2>2, FS_EmptySet, FS_CardinalityType
  <2>4. Cardinality(A) \in 1..n
    BY <2>2, <2>3, <1>1
  <2>. QED
    BY <2>4 DEF A
<1>3. ASSUME NEW t \in T, NEW u \in T, t < u
      PROVE  Rank(t) < Rank(u)
  <2>. DEFINE A == {v \in T : v <= t}
              B == {v \in T : v <= u}
  <2>1. A \subseteq B /\ u \in B /\ u \notin A
    <3>1. t \in Nat /\ u \in Nat /\ \A v \in T : v \in Nat
      BY <1>1
    <3>2. \A v \in T : v <= t => v <= u
      BY <3>1, <1>3
    <3>3. u <= u /\ ~(u <= t)
      BY <3>1, <1>3
    <3>. QED
      BY <3>2, <3>3
  <2>2. IsFiniteSet(B)
    BY <1>1, FS_Subset
  <2>3. Cardinality(A) <= Cardinality(B) /\ Cardinality(A) # Cardinality(B)
    <3>. HIDE DEF A, B
    <3>. QED
      BY <2>1, <2>2, FS_Subset
  <2>4. Rank(t) = Cardinality(A) /\ Rank(u) = Cardinality(B)
    OBVIOUS
  <2>. HIDE DEF A, B, Rank
  <2>. QED
    BY <2>3, <2>4, <1>1, <1>2
<1>. HIDE DEF Rank
<1>4. g \in Injection(T, 1..n)
  <2>1. \A t, u \in T : Rank(t) = Rank(u) => t = u
    BY <1>1, <1>2, <1>3
  <2>. HIDE DEF n
  <2>. QED
    BY <1>2, <2>1 DEF Injection, IsInjective
<1>5. IsFiniteSet(1..n) /\ Cardinality(1..n) = n
  BY <1>1, FS_Interval
<1>6. g \in Surjection(T, 1..n)
  <2>. HIDE DEF g
  <2>. QED
    BY <1>4, <1>5, FS_Injection
<1>7. \A i \in 1..n : Nth(i) \in T /\ Rank(Nth(i)) = i
  BY <1>6 DEF Surjection
<1>8. \A t \in T : Nth(Rank(t)) = t
  BY <1>1, <1>2, <1>3, <1>7
<1>9. q = [i \in 1..n |-> Lock(Nth(i), f[Nth(i)])]
  BY DOMAIN f = T DEF InOrder, Rank
<1>. HIDE DEF Nth, q
<1>10. q \in [1..n -> Guard]
  BY <1>7, <1>9 DEF Lock, Guard
<1>11. q \in Seq(Guard)
  BY <1>1, <1>10, SeqDef
<1>12. Ascending(q)
  <2>1. ASSUME NEW i \in 1..n, NEW j \in 1..n, i < j
        PROVE  q[i].table < q[j].table
    <3>1. Nth(i) < Nth(j)
      <4>1. /\ Nth(i) \in T /\ Rank(Nth(i)) = i /\ Nth(i) \in Nat
            /\ Nth(j) \in T /\ Rank(Nth(j)) = j /\ Nth(j) \in Nat
        BY <1>1, <1>7
      <4>2. i \in Nat /\ j \in Nat /\ i # j /\ ~(j < i)
        BY <2>1
      <4>3. Nth(i) # Nth(j)
        BY <4>1, <4>2
      <4>4. ~(Nth(j) < Nth(i))
        BY <1>3, <4>1, <4>2
      <4>. QED
        BY <4>1, <4>3, <4>4
    <3>. QED
      BY <3>1, <1>9 DEF Lock
  <2>2. DOMAIN q = 1..n
    BY <1>10
  <2>. QED
    BY <2>1, <2>2 DEF Ascending
<1>13. ToSet(q) = {Lock(t, f[t]) : t \in T}
  <2>1. DOMAIN q = 1..n
    BY <1>10
  <2>2. \A i \in 1..n : q[i] = Lock(Nth(i), f[Nth(i)])
    BY <1>9
  <2>3. \A t \in T : q[Rank(t)] = Lock(t, f[t])
    BY <2>2, <1>2, <1>8
  <2>. QED
    BY <2>1, <2>2, <2>3, <1>2, <1>7 DEF ToSet
<1>. QED
  BY <1>11, <1>12, <1>13 DEF q

----------------------------------------------------------------------------
(* What a step leaves alone *)

\* A step of session s touches the other sessions only to wake them, or to say that s
\* has given up its locks.
Alone(s) ==
  \A r \in Session \ {s} :
    /\ cmd'[r] = cmd[r] /\ want'[r] = want[r] /\ got'[r] = got[r] /\ held'[r] = held[r]
    /\ global'[r] = global[r] /\ dropping'[r] = dropping[r] /\ rounds'[r] = rounds[r]
    /\ pc'[r] = pc[r] \/ (pc[r] = "parked" /\ pc'[r] = "take")
    /\ before'[r] \subseteq before[r]

\* What holds of a session still holds when another one moves.
LEMMA OthersKept ==
  ASSUME IInv, NEW s \in Session, Alone(s), NEW r \in Session, r # s
  PROVE  SessionInv(r)'
<1>. USE DEF Alone
<1>0. SessionInv(r)
  BY DEF IInv
<1>1. CmdInv(r)'
  BY <1>0 DEF SessionInv, CmdInv
<1>2. PathInv(r)'
  BY <1>0 DEF SessionInv, PathInv, Waits
<1>3. OrderInv(r)'
  BY <1>0 DEF SessionInv, OrderInv
<1>4. GlobalInv(r)'
  BY <1>0 DEF SessionInv, GlobalInv, Waits
<1>5. NoWaitInv(r)'
  BY <1>0 DEF SessionInv, NoWaitInv, Waits
<1>6. HonourInv(r)'
  BY <1>0 DEF SessionInv, HonourInv, Waits, Uses, Access, HeldOn
<1>. QED
  BY <1>1, <1>2, <1>3, <1>4, <1>5, <1>6 DEF SessionInv

\* Claims and counted guards are natural numbers.
LEMMA Naturals ==
  ASSUME IInv, NEW s \in Session
  PROVE  Explicits(s) \in Nat /\ Own(s) \in Nat /\ \A l : Claims(s, l) \in Nat
<1>1. got[s] \in Seq(Guard) /\ held[s] \in Seq(Guard) /\ dropping[s] \in Seq(Guard)
  BY DEF IInv, SeqInv
<1>2. Len(got[s]) \in Nat /\ Len(held[s]) \in Nat /\ Len(dropping[s]) \in Nat
  BY <1>1, LenProperties
<1>3. pc[s] = "count" => cmd[s].kind = "lock" /\ Len(got[s]) > 0
  <2>1. pc[s] = "count" => cmd[s].kind = "lock" /\ got[s] # << >>
    BY DEF IInv, SessionInv, PathInv
  <2>. QED
    BY <2>1, <1>1, EmptySeq
<1>4. Explicits(s) \in Nat /\ Own(s) \in Nat
  <2>1. Own(s) \in Nat /\ (pc[s] = "count" => Own(s) > 0)
    <3>. DEFINE a == Len(held[s])
                g == Len(got[s])
                d == Len(dropping[s])
    <3>1. Own(s) = a + (IF cmd[s].kind = "lock" THEN g + d ELSE 0)
      BY DEF Own
    <3>2. a \in Nat /\ g \in Nat /\ d \in Nat /\ (pc[s] = "count" => cmd[s].kind = "lock" /\ g > 0)
      BY <1>2, <1>3
    <3>. HIDE DEF a, g, d
    <3>. QED
      BY <3>1, <3>2
  <2>2. (Owed(s) = -1 /\ pc[s] = "count") \/ Owed(s) = 0 \/ Owed(s) = 1
    BY DEF Owed
  <2>. QED
    BY <2>1, <2>2 DEF Explicits
<1>5. ASSUME NEW l
      PROVE  Claims(s, l) \in Nat
  <2>1. Occurs(got[s], l) \in Nat /\ Occurs(held[s], l) \in Nat /\ Occurs(dropping[s], l) \in Nat
    BY <1>1, PlacesFinite
  <2>. QED
    BY <2>1 DEF Claims
<1>. QED
  BY <1>4, <1>5

\* What a step did to the claims of its session.
Claimed(s, k) == \A l : Claims(s, l)' = Claims(s, l) + (IF k = l THEN 1 ELSE 0)
GaveUp(s, k) == \A l : Claims(s, l) = Claims(s, l)' + (IF k = l THEN 1 ELSE 0)
SameClaims(s) == \A l : Claims(s, l)' = Claims(s, l)

\* The other sessions' claims and counted guards are as they were.
LEMMA OthersClaims ==
  ASSUME IInv, NEW s \in Session, Alone(s), NEW r \in Session \ {s}
  PROVE  Explicits(r)' = Explicits(r) /\ \A l : Claims(r, l)' = Claims(r, l)
<1>1. \A l : Claims(r, l)' = Claims(r, l)
  BY DEF Alone, Claims
<1>2. (pc'[r] = "count" <=> pc[r] = "count") /\ (pc'[r] = "uncount" <=> pc[r] = "uncount")
  BY DEF Alone
<1>3. Explicits(r)' = Explicits(r)
  BY <1>2 DEF Alone, Explicits, Own, Owed
<1>. QED
  BY <1>1, <1>3

\* The counter follows the explicit guards of the session.
LEMMA CounterKept ==
  ASSUME IInv, NEW s \in Session, Alone(s), Explicits(s)' \in Nat,
         \/ explicit' = explicit /\ Explicits(s)' = Explicits(s)
         \/ explicit' = explicit + 1 /\ Explicits(s)' = Explicits(s) + 1
         \/ explicit' = explicit - 1 /\ Explicits(s) = Explicits(s)' + 1
  PROVE  explicit' \in Nat /\ Counts(explicit', [r \in Session |-> Explicits(r)'])
<1>. DEFINE n == [r \in Session |-> Explicits(r)]
            m == [r \in Session |-> Explicits(r)']
<1>1. n \in [Session -> Nat] /\ m \in [Session -> Nat]
  BY Naturals, OthersClaims
<1>2. \A r \in Session \ {s} : m[r] = n[r]
  BY OthersClaims
<1>3. Counts(explicit, n) /\ explicit \in Nat /\ n[s] = Explicits(s) /\ m[s] = Explicits(s)'
  BY DEF IInv, ManagerInv, TypeOK
<1>4. CASE explicit' = explicit /\ Explicits(s)' = Explicits(s)
  <2>1. m = n
    BY <1>2, <1>4
  <2>. HIDE DEF m, n
  <2>. QED
    BY <1>3, <1>4, <2>1 DEF m
<1>5. CASE explicit' = explicit + 1 /\ Explicits(s)' = Explicits(s) + 1
  <2>. HIDE DEF m, n
  <2>1. Counts(explicit', m) /\ explicit' \in Nat
    BY <1>1, <1>2, <1>3, <1>5, TallyUp
  <2>. QED
    BY <2>1 DEF m
<1>6. CASE explicit' = explicit - 1 /\ Explicits(s) = Explicits(s)' + 1
  <2>. HIDE DEF m, n
  <2>1. Counts(explicit', m) /\ explicit' \in Nat
    BY <1>1, <1>2, <1>3, <1>6, TallyDown
  <2>. QED
    BY <2>1 DEF m
<1>. QED
  BY <1>4, <1>5, <1>6

\* The entry of a table that a step does not concern.
LEMMA EntryKept ==
  ASSUME IInv, NEW s \in Session, Alone(s), NEW l, Claims(s, l)' = Claims(s, l)
  PROVE  [r \in Session |-> Claims(r, l)'] = [r \in Session |-> Claims(r, l)]
BY OthersClaims

\* The entries of a step that takes or gives back no lock.
LEMMA EntriesKept ==
  ASSUME IInv, NEW s \in Session, Alone(s), SameClaims(s), UNCHANGED <<readers, writer>>,
         Counts(explicit', [r \in Session |-> Explicits(r)'])
  PROVE  ManagerInv'
<1>1. \A l : [r \in Session |-> Claims(r, l)'] = [r \in Session |-> Claims(r, l)]
  BY EntryKept DEF SameClaims
<1>. QED
  BY <1>1 DEF IInv, ManagerInv

\* A lock that is free is taken.
LEMMA EntryTaken ==
  ASSUME IInv, NEW s \in Session, Alone(s), NEW k \in Guard, Free(k), Take(k), Claimed(s, k),
         Counts(explicit', [r \in Session |-> Explicits(r)'])
  PROVE  /\ ManagerInv'
         /\ readers' \in [Table -> Nat] /\ writer' \in [Table -> BOOLEAN]
<1>. DEFINE N(l) == [r \in Session |-> Claims(r, l)]
            M(l) == [r \in Session |-> Claims(r, l)']
<1>1. readers \in [Table -> Nat] /\ writer \in [Table -> BOOLEAN] /\ k.table \in Table
  BY DEF IInv, TypeOK, Guard
<1>2. k.mode \in {Shared, Exclusive} /\ k = Lock(k.table, k.mode) /\ Shared # Exclusive
  BY DEF Guard, Lock, Shared, Exclusive
<1>3. \A l : N(l) \in [Session -> Nat]
  BY Naturals
<1>4. \A l : \A r \in Session \ {s} : M(l)[r] = N(l)[r]
  BY OthersClaims
<1>5. \A l : M(l)[s] = N(l)[s] + (IF k = l THEN 1 ELSE 0)
  BY DEF Claimed
<1>6. \A l : M(l) \in [Session -> Nat]
  <2>1. \A l : \A r \in Session : M(l)[r] \in Nat
    BY <1>3, <1>4, <1>5
  <2>. QED
    BY <2>1
<1>7. ASSUME NEW l, l # k
      PROVE  M(l) = N(l)
  BY <1>3, <1>4, <1>5, <1>7
<1>8. ASSUME NEW n, Counts(n, N(k))
      PROVE  Counts(n + 1, M(k))
  <2>1. M(k)[s] = N(k)[s] + 1
    BY <1>5
  <2>. HIDE DEF M, N
  <2>. QED
    BY <1>3, <1>4, <1>6, <1>8, <2>1, TallyUp
<1>9. ASSUME NEW t \in Table
      PROVE  /\ Counts(readers[t], N(Lock(t, Shared)))
             /\ Counts(IF writer[t] THEN 1 ELSE 0, N(Lock(t, Exclusive)))
             /\ writer[t] => readers[t] = 0
  BY DEF IInv, ManagerInv
<1>10. readers' \in [Table -> Nat] /\ writer' \in [Table -> BOOLEAN]
  BY <1>1 DEF Take
<1>11. ASSUME NEW t \in Table
       PROVE  /\ Counts(readers'[t], M(Lock(t, Shared)))
              /\ Counts(IF writer'[t] THEN 1 ELSE 0, M(Lock(t, Exclusive)))
              /\ writer'[t] => readers'[t] = 0
  <2>. HIDE DEF M, N
  <2>1. CASE t # k.table
    <3>1. Lock(t, Shared) # k /\ Lock(t, Exclusive) # k
      BY <2>1 DEF Lock
    <3>2. readers'[t] = readers[t] /\ writer'[t] = writer[t]
      BY <1>1, <2>1 DEF Take
    <3>. QED
      BY <3>1, <3>2, <1>7, <1>9
  <2>2. CASE t = k.table /\ k.mode = Shared
    <3>1. Lock(t, Shared) = k /\ Lock(t, Exclusive) # k
      BY <2>2, <1>2 DEF Lock
    <3>2. ~writer[t] /\ readers'[t] = readers[t] + 1 /\ writer'[t] = writer[t]
      BY <1>1, <1>2, <2>2 DEF Take, Free
    <3>. QED
      BY <3>1, <3>2, <1>7, <1>8, <1>9
  <2>3. CASE t = k.table /\ k.mode = Exclusive
    <3>1. Lock(t, Exclusive) = k /\ Lock(t, Shared) # k
      BY <2>3, <1>2 DEF Lock
    <3>2. ~writer[t] /\ readers[t] = 0 /\ readers'[t] = readers[t] /\ writer'[t]
      BY <1>1, <1>2, <2>3 DEF Take, Free
    <3>3. Counts(0 + 1, M(k))
      BY <3>1, <3>2, <1>8, <1>9
    <3>. QED
      BY <3>1, <3>2, <3>3, <1>7, <1>9
  <2>. QED
    BY <2>1, <2>2, <2>3, <1>2
<1>. QED
  BY <1>10, <1>11 DEF ManagerInv

\* A lock is given back.
LEMMA EntryGiven ==
  ASSUME IInv, NEW s \in Session, Alone(s), NEW k \in Guard, GiveBack(k), GaveUp(s, k),
         \A l : Claims(s, l)' \in Nat,
         Counts(explicit', [r \in Session |-> Explicits(r)'])
  PROVE  /\ ManagerInv'
         /\ readers' \in [Table -> Nat] /\ writer' \in [Table -> BOOLEAN]
<1>. DEFINE N(l) == [r \in Session |-> Claims(r, l)]
            M(l) == [r \in Session |-> Claims(r, l)']
<1>1. readers \in [Table -> Nat] /\ writer \in [Table -> BOOLEAN] /\ k.table \in Table
  BY DEF IInv, TypeOK, Guard
<1>2. k.mode \in {Shared, Exclusive} /\ k = Lock(k.table, k.mode) /\ Shared # Exclusive
  BY DEF Guard, Lock, Shared, Exclusive
<1>3. \A l : N(l) \in [Session -> Nat]
  BY Naturals
<1>4. \A l : \A r \in Session \ {s} : M(l)[r] = N(l)[r]
  BY OthersClaims
<1>5. \A l : N(l)[s] = M(l)[s] + (IF k = l THEN 1 ELSE 0)
  BY DEF GaveUp
<1>6. \A l : M(l) \in [Session -> Nat]
  <2>1. \A l : \A r \in Session : M(l)[r] \in Nat
    BY <1>3, <1>4
  <2>. QED
    BY <2>1
<1>7. ASSUME NEW l, l # k
      PROVE  M(l) = N(l)
  <2>1. M(l)[s] = N(l)[s]
    BY <1>3, <1>5, <1>6, <1>7
  <2>. QED
    BY <1>4, <2>1
<1>8. ASSUME NEW n, Counts(n, N(k))
      PROVE  Counts(n - 1, M(k)) /\ n \in Nat \ {0}
  <2>1. N(k)[s] = M(k)[s] + 1
    BY <1>5
  <2>. HIDE DEF M, N
  <2>. QED
    BY <1>3, <1>4, <1>6, <1>8, <2>1, TallyDown
<1>9. ASSUME NEW t \in Table
      PROVE  /\ Counts(readers[t], N(Lock(t, Shared)))
             /\ Counts(IF writer[t] THEN 1 ELSE 0, N(Lock(t, Exclusive)))
             /\ writer[t] => readers[t] = 0
  BY DEF IInv, ManagerInv
<1>10. readers' \in [Table -> Nat] /\ writer' \in [Table -> BOOLEAN]
  BY <1>1 DEF GiveBack
<1>11. ASSUME NEW t \in Table
       PROVE  /\ Counts(readers'[t], M(Lock(t, Shared)))
              /\ Counts(IF writer'[t] THEN 1 ELSE 0, M(Lock(t, Exclusive)))
              /\ writer'[t] => readers'[t] = 0
  <2>. HIDE DEF M, N
  <2>1. CASE t # k.table
    <3>1. Lock(t, Shared) # k /\ Lock(t, Exclusive) # k
      BY <2>1 DEF Lock
    <3>2. readers'[t] = readers[t] /\ writer'[t] = writer[t]
      BY <1>1, <2>1 DEF GiveBack
    <3>. QED
      BY <3>1, <3>2, <1>7, <1>9
  <2>2. CASE t = k.table /\ k.mode = Shared
    <3>1. Lock(t, Shared) = k /\ Lock(t, Exclusive) # k
      BY <2>2, <1>2 DEF Lock
    <3>2. Counts(readers[t] - 1, M(k)) /\ readers[t] \in Nat \ {0}
      BY <3>1, <1>8, <1>9
    <3>3. ~writer[t] /\ readers'[t] = readers[t] - 1 /\ writer'[t] = writer[t]
      BY <1>1, <1>2, <1>9, <2>2, <3>2 DEF GiveBack
    <3>. QED
      BY <3>1, <3>2, <3>3, <1>7, <1>9
  <2>3. CASE t = k.table /\ k.mode = Exclusive
    <3>1. Lock(t, Exclusive) = k /\ Lock(t, Shared) # k
      BY <2>3, <1>2 DEF Lock
    <3>2. writer[t] /\ Counts(1 - 1, M(k))
      <4>1. /\ Counts((IF writer[t] THEN 1 ELSE 0) - 1, M(k))
            /\ (IF writer[t] THEN 1 ELSE 0) \in Nat \ {0}
        BY <3>1, <1>8, <1>9
      <4>. QED
        BY <4>1
    <3>3. readers'[t] = readers[t] /\ ~writer'[t]
      BY <1>1, <1>2, <2>3 DEF GiveBack
    <3>. QED
      BY <3>1, <3>2, <3>3, <1>7, <1>9
  <2>. QED
    BY <2>1, <2>2, <2>3, <1>2
<1>. QED
  BY <1>10, <1>11 DEF ManagerInv

----------------------------------------------------------------------------
(* Steps preserve the invariant *)

Places == {"idle", "gate", "take", "count", "parking", "parked", "run", "drop", "uncount"}

\* The guards of sequences put together, and taken apart.
LEMMA ToSetFacts ==
  ASSUME NEW q \in Seq(Guard)
  PROVE  /\ ToSet(q) \subseteq Guard
         /\ \A k \in Guard : ToSet(Append(q, k)) = ToSet(q) \cup {k}
         /\ q # << >> => /\ Head(q) \in Guard /\ Head(q) = q[1] /\ 1 \in DOMAIN q
                         /\ ToSet(q) = ToSet(Tail(q)) \cup {Head(q)}
<1>1. ToSet(q) \subseteq Guard
  BY LenProperties DEF ToSet
<1>2. ASSUME NEW k \in Guard
      PROVE  ToSet(Append(q, k)) = ToSet(q) \cup {k}
  <2>1. /\ Len(q) \in Nat /\ DOMAIN q = 1..Len(q) /\ DOMAIN Append(q, k) = 1..(Len(q) + 1)
        /\ \A i \in 1..Len(q) : Append(q, k)[i] = q[i]
        /\ Append(q, k)[Len(q) + 1] = k
    BY AppendProperties, LenProperties
  <2>. QED
    BY <2>1 DEF ToSet
<1>3. ASSUME q # << >>
      PROVE  /\ Head(q) \in Guard /\ Head(q) = q[1] /\ 1 \in DOMAIN q
             /\ ToSet(q) = ToSet(Tail(q)) \cup {Head(q)}
  <2>1. /\ Len(q) \in Nat /\ Len(q) > 0 /\ DOMAIN q = 1..Len(q) /\ Tail(q) \in Seq(Guard)
        /\ DOMAIN Tail(q) = 1..(Len(q) - 1) /\ Head(q) = q[1] /\ Head(q) \in Guard
        /\ \A i \in 1..(Len(q) - 1) : Tail(q)[i] = q[i + 1]
    BY <1>3, HeadTailProperties, LenProperties, EmptySeq
  <2>2. \A i \in 1..Len(q) : i = 1 \/ (i - 1 \in 1..(Len(q) - 1) /\ i - 1 + 1 = i)
    BY <2>1
  <2>3. \A i \in 1..Len(q) : q[i] = Head(q) \/ \E j \in 1..(Len(q) - 1) : q[i] = Tail(q)[j]
    BY <2>1, <2>2
  <2>4. \A j \in 1..(Len(q) - 1) : \E i \in 1..Len(q) : Tail(q)[j] = q[i]
    BY <2>1
  <2>5. \E i \in 1..Len(q) : Head(q) = q[i]
    BY <2>1
  <2>6. ToSet(q) = ToSet(Tail(q)) \cup {Head(q)}
    <3>1. /\ ToSet(q) = {q[i] : i \in 1..Len(q)}
          /\ ToSet(Tail(q)) = {Tail(q)[j] : j \in 1..(Len(q) - 1)}
      BY <2>1 DEF ToSet
    <3>. QED
      BY <3>1, <2>3, <2>4, <2>5, Zenon
  <2>7. 1 \in DOMAIN q
    BY <2>1
  <2>. QED
    BY <2>1, <2>6, <2>7
<1>. QED
  BY <1>1, <1>2, <1>3

\* A guard more, and the first guard less.
LEMMA EndFacts ==
  ASSUME NEW q \in Seq(Guard)
  PROVE  /\ \A k \in Guard :
              /\ Append(q, k) \in Seq(Guard) /\ Append(q, k) # << >>
              /\ Len(q) \in Nat /\ Len(Append(q, k)) = Len(q) + 1
              /\ DOMAIN q = 1..Len(q) /\ DOMAIN Append(q, k) = 1..(Len(q) + 1)
              /\ \A i \in 1..Len(q) : Append(q, k)[i] = q[i]
              /\ Append(q, k)[Len(q) + 1] = k
         /\ q # << >> /\ Ascending(q) => Ascending(Tail(q))
<1>1. ASSUME NEW k \in Guard
      PROVE  /\ Append(q, k) \in Seq(Guard) /\ Append(q, k) # << >>
             /\ Len(q) \in Nat /\ Len(Append(q, k)) = Len(q) + 1
             /\ DOMAIN q = 1..Len(q) /\ DOMAIN Append(q, k) = 1..(Len(q) + 1)
             /\ \A i \in 1..Len(q) : Append(q, k)[i] = q[i]
             /\ Append(q, k)[Len(q) + 1] = k
  BY AppendProperties, LenProperties
<1>2. ASSUME q # << >>, Ascending(q)
      PROVE  Ascending(Tail(q))
  <2>1. /\ Len(q) \in Nat /\ DOMAIN q = 1..Len(q) /\ DOMAIN Tail(q) = 1..(Len(q) - 1)
        /\ \A i \in 1..(Len(q) - 1) : Tail(q)[i] = q[i + 1]
    BY <1>2, HeadTailProperties, LenProperties
  <2>2. \A i \in 1..(Len(q) - 1) : i + 1 \in 1..Len(q)
    BY <2>1
  <2>3. ASSUME NEW i \in 1..(Len(q) - 1), NEW j \in 1..(Len(q) - 1), i < j
        PROVE  Tail(q)[i].table < Tail(q)[j].table
    <3>1. i + 1 < j + 1
      BY <2>3
    <3>. QED
      BY <1>2, <2>1, <2>2, <3>1 DEF Ascending
  <2>. QED
    BY <2>1, <2>3 DEF Ascending
<1>. QED
  BY <1>1, <1>2

\* The parts of the invariant after a step of session s.
LEMMA StepInv ==
  ASSUME IInv, NEW s \in Session, Alone(s), SeqInv', ManagerInv', SessionInv(s)',
         readers' \in [Table -> Nat], writer' \in [Table -> BOOLEAN], explicit' \in Nat,
         pc' \in [Session -> Places], global' \in [Session -> BOOLEAN],
         rounds' \in [Session -> 0..MaxRounds], before' \in [Session -> SUBSET Session]
  PROVE  IInv'
<1>1. \A r \in Session : SessionInv(r)'
  BY OthersKept
<1>2. \A r \in Session :
        \A q \in {want'[r], got'[r], held'[r], dropping'[r]} : ToSet(q) \subseteq Guard
  <2>1. ASSUME NEW r \in Session
        PROVE  \A q \in {want'[r], got'[r], held'[r], dropping'[r]} : q \in Seq(Guard)
    BY DEF SeqInv
  <2>. QED
    BY <2>1, ToSetFacts
<1>3. TypeOK'
  BY <1>2 DEF TypeOK, Places
<1>. QED
  BY <1>1, <1>3 DEF IInv

\* What the invariant says of a session and of the manager.
LEMMA Known ==
  ASSUME IInv, NEW s \in Session
  PROVE  /\ readers \in [Table -> Nat] /\ writer \in [Table -> BOOLEAN] /\ explicit \in Nat
         /\ pc \in [Session -> Places] /\ global \in [Session -> BOOLEAN]
         /\ rounds \in [Session -> 0..MaxRounds] /\ before \in [Session -> SUBSET Session]
         /\ want \in [Session -> Seq(Guard)] /\ got \in [Session -> Seq(Guard)]
         /\ held \in [Session -> Seq(Guard)] /\ dropping \in [Session -> Seq(Guard)]
         /\ DOMAIN cmd = Session
         /\ Len(got[s]) \in Nat /\ Len(held[s]) \in Nat /\ Len(dropping[s]) \in Nat
         /\ \A r \in Session : r \notin before[r]
         /\ CmdInv(s) /\ PathInv(s) /\ OrderInv(s) /\ GlobalInv(s) /\ NoWaitInv(s)
         /\ HonourInv(s) /\ cmd[s].kind \in {"stmt", "lock"}
BY LenProperties DEF IInv, TypeOK, SeqInv, SessionInv, Places, CmdInv

\* Count, Park, Poll, Granted, Uncount and Dropped move the command on and leave the
\* guards as they are.
LEMMA CountInv ==
  ASSUME IInv, NEW s \in Session, Count(s)
  PROVE  IInv'
<1>. USE Known DEF Count, own, env
<1>1. Alone(s)
  BY DEF Alone
<1>2. SeqInv'
  BY DEF SeqInv
<1>3. SessionInv(s)'
  BY DEF SessionInv, CmdInv, PathInv, OrderInv, GlobalInv, NoWaitInv, HonourInv, Waits, Uses,
         Access, HeldOn
<1>4. SameClaims(s)
  BY DEF SameClaims, Claims
<1>5. Explicits(s)' = Explicits(s) + 1
  <2>1. pc[s] = "count" /\ pc'[s] = "take"
    OBVIOUS
  <2>2. Own(s)' = Own(s)
    BY DEF Own
  <2>3. Owed(s) = -1 /\ Owed(s)' = 0
    BY <2>1 DEF Owed
  <2>. QED
    BY <2>2, <2>3, Naturals DEF Explicits
<1>6. explicit' \in Nat /\ Counts(explicit', [r \in Session |-> Explicits(r)'])
  <2>1. Explicits(s)' \in Nat
    BY <1>5, Naturals
  <2>. QED
    BY <1>1, <1>5, <2>1, CounterKept
<1>7. ManagerInv'
  BY <1>1, <1>4, <1>6, EntriesKept
<1>8. pc' \in [Session -> Places]
  BY DEF Places
<1>. QED
  BY <1>1, <1>2, <1>3, <1>6, <1>7, <1>8, StepInv

\* A step that moves guards about without taking, giving back or counting one.
LEMMA SilentInv ==
  ASSUME IInv, NEW s \in Session, Alone(s), SeqInv', SessionInv(s)', UNCHANGED mgr,
         SameClaims(s), Own(s)' = Own(s), Owed(s)' = Owed(s),
         pc' \in [Session -> Places], global' \in [Session -> BOOLEAN],
         rounds' \in [Session -> 0..MaxRounds], before' \in [Session -> SUBSET Session]
  PROVE  IInv'
<1>1. Explicits(s)' = Explicits(s) /\ explicit' = explicit
  BY DEF Explicits, mgr
<1>2. explicit' \in Nat /\ Counts(explicit', [r \in Session |-> Explicits(r)'])
  BY <1>1, Naturals, CounterKept
<1>3. ManagerInv'
  BY <1>2, EntriesKept DEF mgr
<1>4. readers' \in [Table -> Nat] /\ writer' \in [Table -> BOOLEAN]
  BY Known DEF mgr
<1>. QED
  BY <1>2, <1>3, <1>4, StepInv

\* The count goes down only for an explicit guard that was counted.
LEMMA UncountInv ==
  ASSUME IInv, NEW s \in Session, Uncount(s)
  PROVE  IInv'
<1>. USE Known DEF Uncount, own, env
<1>1. Alone(s)
  BY DEF Alone
<1>2. SeqInv'
  BY DEF SeqInv
<1>3. SessionInv(s)'
  BY DEF SessionInv, CmdInv, PathInv, OrderInv, GlobalInv, NoWaitInv, HonourInv, Waits, Uses,
         Access, HeldOn
<1>4. SameClaims(s)
  BY DEF SameClaims, Claims
<1>5. Explicits(s) = Explicits(s)' + 1 /\ Explicits(s)' \in Nat
  <2>1. pc[s] = "uncount" /\ pc'[s] = "drop"
    OBVIOUS
  <2>2. Own(s)' = Own(s)
    BY DEF Own
  <2>3. Owed(s) = 1 /\ Owed(s)' = 0
    BY <2>1 DEF Owed
  <2>. QED
    BY <2>2, <2>3, Naturals DEF Explicits
<1>6. explicit' \in Nat /\ Counts(explicit', [r \in Session |-> Explicits(r)'])
  BY <1>1, <1>5, CounterKept
<1>7. ManagerInv'
  BY <1>1, <1>4, <1>6, EntriesKept
<1>8. pc' \in [Session -> Places]
  BY DEF Places
<1>. QED
  BY <1>1, <1>2, <1>3, <1>6, <1>7, <1>8, StepInv

\* Waiting, waking, and going on touch no lock.
LEMMA MoveOnInv ==
  ASSUME IInv, NEW s \in Session, Park(s) \/ Poll(s) \/ Granted(s) \/ Dropped(s)
  PROVE  IInv'
<1>. USE Known DEF Park, Poll, Granted, Dropped, mgr, own, env
<1>1. Alone(s)
  BY DEF Alone
<1>2. SeqInv'
  BY DEF SeqInv
<1>3. SessionInv(s)'
  <2>1. CASE Park(s)
    BY <2>1 DEF SessionInv, CmdInv, PathInv, OrderInv, GlobalInv, NoWaitInv, HonourInv, Waits,
                Uses, Access, HeldOn
  <2>2. CASE Poll(s)
    BY <2>2 DEF SessionInv, CmdInv, PathInv, OrderInv, GlobalInv, NoWaitInv, HonourInv, Waits,
                Uses, Access, HeldOn
  <2>3. CASE Granted(s)
    BY <2>3 DEF SessionInv, CmdInv, PathInv, OrderInv, GlobalInv, NoWaitInv, HonourInv, Waits,
                Uses, Access, HeldOn
  <2>4. CASE Dropped(s)
    <3>1. /\ cmd'[s] = cmd[s] /\ want'[s] = want[s] /\ got'[s] = got[s] /\ held'[s] = held[s]
          /\ global'[s] = global[s] /\ dropping'[s] = << >> /\ got[s] = << >>
          /\ pc[s] = "drop" /\ pc'[s] = IF want[s] # << >> THEN "take" ELSE "idle"
      BY <2>4 DEF PathInv
    <3>2. CmdInv(s)' /\ OrderInv(s)'
      BY <3>1 DEF CmdInv, OrderInv
    <3>3. PathInv(s)'
      BY <3>1 DEF PathInv, Waits
    <3>4. GlobalInv(s)'
      <4>1. Tables(got[s]) = {}
        BY <3>1 DEF Tables, ToSet
      <4>. QED
        BY <3>1, <4>1 DEF GlobalInv, Waits
    <3>5. cmd[s].kind = "stmt" => pc'[s] = "idle"
      BY <3>1 DEF PathInv
    <3>6. NoWaitInv(s)' /\ HonourInv(s)'
      BY <3>1, <3>5 DEF NoWaitInv, HonourInv, Waits
    <3>. QED
      BY <3>2, <3>3, <3>4, <3>6 DEF SessionInv
  <2>. QED
    BY <2>1, <2>2, <2>3, <2>4
<1>4. SameClaims(s) /\ Own(s)' = Own(s)
  BY DEF SameClaims, Claims, Own
<1>5. Owed(s)' = Owed(s)
  BY DEF Owed
<1>6. pc' \in [Session -> Places]
  BY DEF Places
<1>7. rounds' \in [Session -> 0..MaxRounds]
  <2>1. CASE Park(s)
    <3>1. rounds[s] \in 0..MaxRounds /\ rounds[s] < MaxRounds
      BY <2>1 DEF PathInv
    <3>2. rounds[s] + 1 \in 0..MaxRounds
      BY <3>1, BoundAssumption
    <3>. QED
      BY <2>1, <3>2
  <2>2. CASE ~Park(s)
    BY <2>2
  <2>. QED
    BY <2>1, <2>2
<1>. QED
  BY <1>1, <1>2, <1>3, <1>4, <1>5, <1>6, <1>7, SilentInv

\* A statement starts without locks and with its tables in order.
LEMMA StartStatementInv ==
  ASSUME IInv, NEW s \in Session, NEW c \in Command, StartStatement(s, c)
  PROVE  IInv'
<1>. USE Known DEF StartStatement, mgr
<1>1. Alone(s)
  BY DEF Alone
<1>2. SeqInv'
  BY DEF SeqInv
<1>3. /\ pc[s] = "idle" /\ pc'[s] = "gate" /\ cmd'[s] = c /\ want'[s] = << >>
      /\ got[s] = << >> /\ dropping[s] = << >> /\ got'[s] = << >> /\ dropping'[s] = << >>
      /\ held'[s] = held[s] /\ global'[s] = global[s]
  BY DEF PathInv
<1>4. c.kind = "stmt" /\ c \in Statement({NoBody} \cup Statement({NoBody}))
  BY CommandAssumption
<1>5. SessionInv(s)'
  <2>1. CmdInv(s)'
    BY <1>3, <1>4 DEF CmdInv, Statement
  <2>2. PathInv(s)'
    BY <1>3, <1>4 DEF PathInv, Waits
  <2>3. OrderInv(s)' /\ GlobalInv(s)' /\ NoWaitInv(s)' /\ HonourInv(s)'
    BY <1>3, <1>4 DEF OrderInv, GlobalInv, NoWaitInv, HonourInv, Waits, Ascending
  <2>. QED
    BY <2>1, <2>2, <2>3 DEF SessionInv
<1>6. SameClaims(s)
  BY DEF SameClaims, Claims
<1>7. Own(s)' = Own(s)
  <2>1. Len(got[s]) = 0 /\ Len(dropping[s]) = 0
    BY <1>3, EmptySeq
  <2>. QED
    BY <1>3, <2>1 DEF Own
<1>8. Owed(s)' = Owed(s)
  BY <1>3 DEF Owed
<1>9. pc' \in [Session -> Places]
  BY DEF Places
<1>. QED
  BY <1>1, <1>2, <1>5, <1>6, <1>7, <1>8, <1>9, SilentInv

\* Guards put away to be dropped are claimed as before.
LEMMA PutAway ==
  ASSUME IInv, NEW s \in Session, dropping[s] = << >>, got'[s] = << >>, held'[s] = held[s],
         dropping'[s] = got[s] \/ dropping'[s] = Reverse(got[s]),
         cmd'[s] = cmd[s], pc[s] \notin {"count", "uncount"}, pc'[s] = "drop"
  PROVE  /\ SameClaims(s) /\ Own(s)' = Own(s) /\ Owed(s)' = Owed(s)
         /\ dropping'[s] \in Seq(Guard)
<1>. USE Known
<1>1. dropping'[s] \in Seq(Guard) /\ Len(dropping'[s]) = Len(got[s])
  BY OccursReverse
<1>2. ASSUME NEW l
      PROVE  Claims(s, l)' = Claims(s, l)
  <2>1. Occurs(dropping'[s], l) = Occurs(got[s], l)
    BY OccursReverse
  <2>2. Occurs(got'[s], l) = 0 /\ Occurs(dropping[s], l) = 0
    BY OccursNone
  <2>3. Occurs(got[s], l) \in Nat /\ Occurs(held[s], l) \in Nat
    BY PlacesFinite
  <2>. QED
    BY <2>1, <2>2, <2>3 DEF Claims
<1>3. Own(s)' = Own(s)
  <2>1. Len(got'[s]) = 0 /\ Len(dropping[s]) = 0
    BY EmptySeq
  <2>. QED
    BY <1>1, <2>1 DEF Own
<1>4. Owed(s)' = Owed(s)
  BY DEF Owed
<1>. QED
  BY <1>1, <1>2, <1>3, <1>4 DEF SameClaims

\* A command that ends early, or a statement that is done, has only guards to drop.
LEMMA EndsInv ==
  ASSUME IInv, NEW s \in Session, pc'[s] = "drop", want'[s] = << >>, got'[s] = << >>,
         held'[s] = held[s], cmd'[s] = cmd[s], global'[s] = global[s],
         cmd[s].kind = "lock" => held[s] = << >>
  PROVE  SessionInv(s)'
<1>. USE Known
<1>1. CmdInv(s)'
  BY DEF CmdInv
<1>2. PathInv(s)'
  BY DEF PathInv, Waits
<1>3. OrderInv(s)' /\ GlobalInv(s)' /\ NoWaitInv(s)' /\ HonourInv(s)'
  BY DEF OrderInv, GlobalInv, NoWaitInv, HonourInv, Waits, Ascending
<1>. QED
  BY <1>1, <1>2, <1>3 DEF SessionInv

\* A command that is cut off drops the guards it has got and wants no more.
LEMMA CancelInv ==
  ASSUME IInv, NEW s \in Session, Cancel(s)
  PROVE  IInv'
<1>. USE Known DEF Cancel
<1>1. Alone(s)
  BY DEF Alone
<1>2. /\ pc[s] \in {"parked", "run"} /\ dropping[s] = << >> /\ got'[s] = << >>
      /\ held'[s] = held[s] /\ dropping'[s] = got[s] /\ cmd'[s] = cmd[s] /\ pc'[s] = "drop"
      /\ want'[s] = << >> /\ global'[s] = global[s]
      /\ (cmd[s].kind = "lock" => held[s] = << >>)
  BY DEF PathInv, Waits
<1>3. /\ SameClaims(s) /\ Own(s)' = Own(s) /\ Owed(s)' = Owed(s)
      /\ dropping'[s] \in Seq(Guard)
  BY <1>2, PutAway
<1>4. SeqInv'
  BY <1>2, <1>3, EmptySeq DEF SeqInv
<1>5. SessionInv(s)'
  BY <1>2, EndsInv
<1>6. pc' \in [Session -> Places] /\ rounds' \in [Session -> 0..MaxRounds]
  BY BoundAssumption DEF Places
<1>. QED
  BY <1>1, <1>3, <1>4, <1>5, <1>6, SilentInv DEF mgr

\* The body runs under the statement's locks; after it every guard is on its way out.
LEMMA RunInv ==
  ASSUME IInv, NEW s \in Session, Run(s)
  PROVE  IInv'
<1>. USE Known DEF Run
<1>1. Alone(s)
  BY DEF Alone, env
<1>2. pc' \in [Session -> Places]
  BY ZenonT(40) DEF Places
<1>3. /\ pc[s] = "run" /\ cmd[s].kind = "stmt" /\ want[s] = << >> /\ dropping[s] = << >>
      /\ held'[s] = held[s] /\ want'[s] = << >> /\ global'[s] = global[s]
  BY DEF PathInv
<1>4. CASE cmd[s].body # NoBody /\ ~cmd[s].inBody
  <2>1. /\ cmd'[s] = [cmd[s] EXCEPT !.inBody = TRUE] /\ pc'[s] = "gate"
        /\ got'[s] = got[s] /\ dropping'[s] = << >>
    BY <1>3, <1>4
  <2>2. CmdInv(s)' /\ cmd'[s].kind = "stmt" /\ cmd'[s].inBody
    <3>1. cmd[s] \in [kind : {"stmt"}, writes : SUBSET Table, reads : SUBSET Table,
                      dml : BOOLEAN, body : {NoBody} \cup Statement({NoBody}),
                      inBody : BOOLEAN]
      BY <1>3 DEF CmdInv
    <3>. QED
      BY <1>4, <2>1, <3>1 DEF CmdInv
  <2>3. PathInv(s)'
    BY <1>3, <2>1, <2>2 DEF PathInv, Waits
  <2>4. OrderInv(s)' /\ GlobalInv(s)' /\ NoWaitInv(s)' /\ HonourInv(s)'
    BY <1>3, <2>1, <2>2 DEF OrderInv, GlobalInv, NoWaitInv, HonourInv, Waits, Ascending
  <2>5. SessionInv(s)'
    BY <2>2, <2>3, <2>4 DEF SessionInv
  <2>6. SeqInv'
    BY <1>4 DEF SeqInv, env
  <2>7. SameClaims(s)
    BY <1>3, <2>1 DEF SameClaims, Claims
  <2>8. Own(s)' = Own(s) /\ Owed(s)' = Owed(s)
    BY <1>3, <2>1, <2>2 DEF Own, Owed
  <2>. QED
    BY <1>1, <1>2, <2>5, <2>6, <2>7, <2>8, SilentInv DEF env
<1>5. CASE ~(cmd[s].body # NoBody /\ ~cmd[s].inBody)
  <2>1. cmd'[s] = cmd[s] /\ pc'[s] = "drop" /\ got'[s] = << >> /\ dropping'[s] = Reverse(got[s])
    BY <1>5
  <2>2. /\ SameClaims(s) /\ Own(s)' = Own(s) /\ Owed(s)' = Owed(s)
        /\ dropping'[s] \in Seq(Guard)
    BY <1>3, <2>1, PutAway
  <2>3. SeqInv'
    <3>1. Reverse(got[s]) \in Seq(Guard)
      BY OccursReverse
    <3>2. /\ dropping' = [dropping EXCEPT ![s] = Reverse(got[s])]
          /\ got' = [got EXCEPT ![s] = << >>]
      BY <1>5
    <3>3. << >> \in Seq(Guard)
      BY EmptySeq
    <3>4. dropping' \in [Session -> Seq(Guard)] /\ got' \in [Session -> Seq(Guard)]
      BY <3>1, <3>2, <3>3
    <3>. QED
      BY <1>5, <3>4 DEF SeqInv, env
  <2>4. SessionInv(s)'
    BY <1>3, <2>1, EndsInv
  <2>. QED
    BY <1>1, <1>2, <2>2, <2>3, <2>4, SilentInv DEF env
<1>. QED
  BY <1>4, <1>5

\* LOCK TABLES drops what the session holds before it takes anything.
LEMMA StartLockInv ==
  ASSUME IInv, NEW s \in Session, NEW c \in Command, StartLock(s, c)
  PROVE  IInv'
<1>. USE Known DEF StartLock
<1>1. Alone(s)
  BY DEF Alone
<1>2. /\ c \in [kind : {"lock"}, locks : Seq(Guard), global : BOOLEAN] /\ c.kind = "lock"
      /\ Ascending(c.locks) /\ (c.global => Tables(c.locks) = Table)
  BY CommandAssumption DEF Statement
<1>3. /\ pc[s] = "idle" /\ pc'[s] = "drop" /\ cmd'[s] = c /\ want'[s] = c.locks
      /\ got[s] = << >> /\ dropping[s] = << >> /\ got'[s] = << >> /\ dropping'[s] = held[s]
      /\ held'[s] = << >> /\ ~global'[s]
  BY DEF PathInv
<1>4. SeqInv'
  BY <1>2, EmptySeq DEF SeqInv
<1>5. SessionInv(s)'
  <2>1. CmdInv(s)'
    BY <1>2, <1>3 DEF CmdInv
  <2>2. PathInv(s)'
    BY <1>2, <1>3 DEF PathInv, Waits
  <2>3. OrderInv(s)' /\ GlobalInv(s)' /\ NoWaitInv(s)' /\ HonourInv(s)'
    BY <1>2, <1>3 DEF OrderInv, GlobalInv, NoWaitInv, HonourInv, Waits
  <2>. QED
    BY <2>1, <2>2, <2>3 DEF SessionInv
<1>6. SameClaims(s)
  <2>1. ASSUME NEW l
        PROVE  Claims(s, l)' = Claims(s, l)
    <3>1. Occurs(<< >>, l) = 0 /\ Occurs(held[s], l) \in Nat
      BY OccursNone, PlacesFinite
    <3>. QED
      BY <1>3, <3>1 DEF Claims
  <2>. QED
    BY <2>1 DEF SameClaims
<1>7. Own(s)' = Own(s)
  <2>1. Own(s) = Len(held[s]) + (Len(<< >>) + Len(<< >>)) \/ Own(s) = Len(held[s]) + 0
    BY <1>3 DEF Own
  <2>2. Own(s)' = Len(<< >>) + (Len(<< >>) + Len(held[s]))
    BY <1>2, <1>3 DEF Own
  <2>. QED
    BY <2>1, <2>2, EmptySeq
<1>8. Owed(s)' = Owed(s)
  BY <1>3 DEF Owed
<1>9. /\ pc' \in [Session -> Places] /\ global' \in [Session -> BOOLEAN]
      /\ before' \in [Session -> SUBSET Session]
  BY DEF Places
<1>. QED
  BY <1>1, <1>4, <1>5, <1>6, <1>7, <1>8, <1>9, SilentInv

\* The guards LOCK TABLES got are the session's from now on.
LEMMA LockedInv ==
  ASSUME IInv, NEW s \in Session, Locked(s)
  PROVE  IInv'
<1>. USE Known DEF Locked, env
<1>1. Alone(s)
  BY DEF Alone
<1>2. /\ pc[s] = "take" /\ pc'[s] = "idle" /\ cmd'[s] = cmd[s] /\ cmd[s].kind = "lock"
      /\ want[s] = << >> /\ want'[s] = << >> /\ dropping[s] = << >> /\ dropping'[s] = << >>
      /\ got'[s] = << >> /\ held[s] = << >> /\ held'[s] = got[s] /\ global'[s] = cmd[s].global
  BY DEF PathInv, Waits
<1>3. SeqInv'
  BY EmptySeq DEF SeqInv
<1>4. SessionInv(s)'
  <2>1. CmdInv(s)' /\ PathInv(s)'
    BY <1>2 DEF CmdInv, PathInv, Waits
  <2>2. OrderInv(s)' /\ NoWaitInv(s)' /\ HonourInv(s)'
    BY <1>2 DEF OrderInv, NoWaitInv, HonourInv, Waits
  <2>3. GlobalInv(s)'
    <3>1. Tables(want[s]) = {}
      BY <1>2 DEF Tables, ToSet
    <3>. QED
      BY <1>2, <3>1 DEF GlobalInv, Waits
  <2>. QED
    BY <2>1, <2>2, <2>3 DEF SessionInv
<1>5. SameClaims(s)
  <2>1. ASSUME NEW l
        PROVE  Claims(s, l)' = Claims(s, l)
    <3>1. Occurs(<< >>, l) = 0 /\ Occurs(got[s], l) \in Nat
      BY OccursNone, PlacesFinite
    <3>. QED
      BY <1>2, <3>1 DEF Claims
  <2>. QED
    BY <2>1 DEF SameClaims
<1>6. Own(s)' = Own(s)
  <2>1. Own(s) = Len(<< >>) + (Len(got[s]) + Len(<< >>))
    BY <1>2 DEF Own
  <2>2. Own(s)' = Len(got[s]) + (Len(<< >>) + Len(<< >>))
    BY <1>2 DEF Own
  <2>. QED
    BY <2>1, <2>2, EmptySeq
<1>7. Owed(s)' = Owed(s)
  BY <1>2 DEF Owed
<1>8. cmd[s].global \in BOOLEAN
  BY <1>2 DEF CmdInv
<1>9. pc' \in [Session -> Places] /\ global' \in [Session -> BOOLEAN]
  BY <1>8 DEF Places
<1>. QED
  BY <1>1, <1>3, <1>4, <1>5, <1>6, <1>7, <1>9, SilentInv

\* A guard that is dropped frees one hold of its lock.
LEMMA DropGuardInv ==
  ASSUME IInv, NEW s \in Session, DropGuard(s)
  PROVE  IInv'
<1>. USE Known DEF DropGuard, env
<1>1. Alone(s)
  BY DEF Alone, Notified
<1>2. /\ pc[s] = "drop" /\ cmd'[s] = cmd[s] /\ want'[s] = want[s] /\ got[s] = << >>
      /\ got'[s] = << >> /\ held'[s] = held[s] /\ global'[s] = global[s]
      /\ dropping[s] # << >> /\ dropping'[s] = Tail(dropping[s])
      /\ pc'[s] = IF cmd[s].kind = "lock" THEN "uncount" ELSE "drop"
  BY DEF PathInv, Notified, Uncounts
<1>3. /\ dropping[s] \in Seq(Guard) /\ Head(dropping[s]) \in Guard
      /\ Tail(dropping[s]) \in Seq(Guard) /\ Len(Tail(dropping[s])) = Len(dropping[s]) - 1
  BY <1>2, HeadTailProperties
<1>4. SeqInv'
  BY <1>3 DEF SeqInv
<1>5. SessionInv(s)'
  <2>1. CmdInv(s)'
    BY <1>2 DEF CmdInv
  <2>2. PathInv(s)'
    BY <1>2 DEF PathInv, Waits
  <2>3. OrderInv(s)' /\ GlobalInv(s)' /\ NoWaitInv(s)' /\ HonourInv(s)'
    BY <1>2 DEF OrderInv, GlobalInv, NoWaitInv, HonourInv, Waits
  <2>. QED
    BY <2>1, <2>2, <2>3 DEF SessionInv
<1>6. PICK k \in Guard : k = Head(dropping[s])
  BY <1>3
<1>7. ASSUME NEW l
      PROVE  Claims(s, l) = Claims(s, l)' + (IF k = l THEN 1 ELSE 0) /\ Claims(s, l)' \in Nat
  <2>1. Occurs(dropping[s], l) = Occurs(Tail(dropping[s]), l) + (IF k = l THEN 1 ELSE 0)
    BY <1>2, <1>3, <1>6, OccursTail
  <2>2. /\ Occurs(got[s], l) \in Nat /\ Occurs(held[s], l) \in Nat
        /\ Occurs(Tail(dropping[s]), l) \in Nat
    BY <1>3, PlacesFinite
  <2>3. Claims(s, l)' = Occurs(got[s], l) + Occurs(held[s], l) + Occurs(Tail(dropping[s]), l)
    BY <1>2 DEF Claims
  <2>. QED
    BY <2>1, <2>2, <2>3 DEF Claims
<1>8. Explicits(s)' = Explicits(s)
  <2>1. CASE cmd[s].kind = "lock"
    <3>1. Own(s) = Len(held[s]) + (Len(got[s]) + Len(dropping[s]))
      BY <2>1 DEF Own
    <3>2. Own(s)' = Len(held[s]) + (Len(got[s]) + (Len(dropping[s]) - 1))
      BY <1>2, <1>3, <2>1 DEF Own
    <3>3. Owed(s) = 0 /\ Owed(s)' = 1
      BY <1>2, <2>1 DEF Owed
    <3>. QED
      BY <3>1, <3>2, <3>3 DEF Explicits
  <2>2. CASE cmd[s].kind # "lock"
    BY <1>2, <2>2 DEF Explicits, Own, Owed
  <2>. QED
    BY <2>1, <2>2
<1>9. explicit' \in Nat /\ Counts(explicit', [r \in Session |-> Explicits(r)'])
  BY <1>1, <1>8, Naturals, CounterKept
<1>10. /\ ManagerInv'
       /\ readers' \in [Table -> Nat] /\ writer' \in [Table -> BOOLEAN]
  BY <1>1, <1>6, <1>7, <1>9, EntryGiven DEF GaveUp
<1>11. pc' \in [Session -> Places]
  BY DEF Places, Notified
<1>. QED
  BY <1>1, <1>4, <1>5, <1>9, <1>10, <1>11, StepInv

\* A lock is taken only where nobody holds it in a way that excludes it.
LEMMA TryTakeInv ==
  ASSUME IInv, NEW s \in Session, TryTake(s)
  PROVE  IInv'
<1>. USE Known DEF TryTake, env
<1>1. Alone(s)
  BY DEF Alone
<1>2. /\ pc[s] = "take" /\ want[s] # << >> /\ dropping[s] = << >>
      /\ (cmd[s].kind = "lock" => held[s] = << >>)
      /\ cmd'[s] = cmd[s] /\ held'[s] = held[s] /\ global'[s] = global[s]
  BY DEF PathInv, Waits
<1>3. PICK k \in Guard : k = Head(want[s])
  BY <1>2, HeadTailProperties
<1>4. CASE Free(k)
  <2>1. /\ Take(k) /\ got' = [got EXCEPT ![s] = Append(@, k)]
        /\ want' = [want EXCEPT ![s] = Tail(@)] /\ rounds' = [rounds EXCEPT ![s] = 0]
        /\ pc' = [pc EXCEPT ![s] = IF cmd[s].kind = "lock" THEN "count" ELSE "take"]
        /\ dropping' = dropping
    BY <1>3, <1>4
  <2>2. /\ want[s] \in Seq(Guard) /\ Tail(want[s]) \in Seq(Guard)
        /\ Len(want[s]) \in Nat /\ DOMAIN want[s] = 1..Len(want[s])
        /\ DOMAIN Tail(want[s]) = 1..(Len(want[s]) - 1)
        /\ \A i \in 1..(Len(want[s]) - 1) : Tail(want[s])[i] = want[s][i + 1]
    BY <1>2, HeadTailProperties, LenProperties, SMTT(30)
  <2>3. /\ got[s] \in Seq(Guard) /\ Append(got[s], k) \in Seq(Guard)
        /\ Len(Append(got[s], k)) = Len(got[s]) + 1 /\ Append(got[s], k) # << >>
        /\ DOMAIN got[s] = 1..Len(got[s])
        /\ DOMAIN Append(got[s], k) = 1..(Len(got[s]) + 1)
        /\ \A i \in 1..Len(got[s]) : Append(got[s], k)[i] = got[s][i]
        /\ Append(got[s], k)[Len(got[s]) + 1] = k
    <3>1. got[s] \in Seq(Guard)
      OBVIOUS
    <3>. HIDE DEF TryTake
    <3>. QED
      BY <3>1, EndFacts
  <2>4. SeqInv'
    BY <2>1, <2>2, <2>3 DEF SeqInv
  <2>5. /\ got'[s] = Append(got[s], k) /\ want'[s] = Tail(want[s]) /\ dropping'[s] = << >>
        /\ pc'[s] = IF cmd[s].kind = "lock" THEN "count" ELSE "take"
    BY <1>2, <2>1
  <2>6. ToSet(got'[s]) \cup ToSet(want'[s]) = ToSet(got[s]) \cup ToSet(want[s])
    BY <1>2, <1>3, <2>5, ToSetFacts
  <2>7. SessionInv(s)'
    <3>1. CmdInv(s)'
      BY <1>2 DEF CmdInv
    <3>2. PathInv(s)'
      BY <1>2, <2>3, <2>5 DEF PathInv, Waits
    <3>3. OrderInv(s)'
      <4>1. k = want[s][1] /\ 1 \in DOMAIN want[s]
        BY <1>2, <1>3, <2>2, ToSetFacts
      <4>2. \A j \in 1..(Len(want[s]) - 1) : j + 1 \in DOMAIN want[s] /\ 1 < j + 1
        BY <2>2
      <4>3. Ascending(want'[s])
        BY <1>2, <2>2, <2>5, EndFacts DEF OrderInv
      <4>4. ASSUME cmd[s].kind = "stmt" => ~cmd[s].inBody,
                   NEW i \in DOMAIN got'[s], NEW j \in DOMAIN want'[s]
            PROVE  got'[s][i].table < want'[s][j].table
        <5>1. /\ want'[s][j] = want[s][j + 1] /\ j + 1 \in DOMAIN want[s] /\ 1 < j + 1
          BY <2>2, <2>5, <4>2
        <5>2. CASE i \in DOMAIN got[s]
          <6>1. got[s][i].table < want[s][j + 1].table
            BY <4>4, <5>1, <5>2 DEF OrderInv
          <6>2. got'[s][i] = got[s][i]
            BY <2>3, <2>5, <5>2
          <6>. QED
            BY <5>1, <6>1, <6>2
        <5>3. CASE i \notin DOMAIN got[s]
          <6>1. i = Len(got[s]) + 1
            BY <2>3, <2>5, <5>3
          <6>. QED
            BY <2>3, <2>5, <4>1, <5>1, <6>1 DEF OrderInv, Ascending
        <5>. QED
          BY <5>2, <5>3
      <4>. QED
        BY <1>2, <4>3, <4>4 DEF OrderInv
    <3>4. GlobalInv(s)'
      <4>1. Tables(got'[s]) \cup Tables(want'[s]) = Tables(got[s]) \cup Tables(want[s])
        BY <2>6 DEF Tables
      <4>. QED
        BY <1>2, <2>5, <4>1 DEF GlobalInv, Waits
    <3>5. NoWaitInv(s)'
      BY <1>2, <2>5 DEF NoWaitInv, Waits
    <3>6. HonourInv(s)'
      <4>1. Uses(s)' = Uses(s) /\ \A t : HeldOn(s, t)' = HeldOn(s, t)
        BY <1>2 DEF Uses, Access, HeldOn
      <4>2. before'[s] = before[s]
        OBVIOUS
      <4>3. ASSUME cmd[s].kind = "stmt", before[s] # {}, NEW u \in Uses(s)
            PROVE  \/ \E h \in ToSet(got'[s]) \cup ToSet(want'[s]) : Covers(h, u)
                   \/ HeldOn(s, u.table) # {} /\ (cmd[s].inBody \/ ~cmd[s].dml)
                   \/ \E h \in HeldOn(s, u.table) : Covers(h, u)
        BY <1>2, <2>6, <4>3 DEF HonourInv, Waits
      <4>. QED
        BY <1>2, <4>1, <4>2, <4>3, ZenonT(40) DEF HonourInv
    <3>. QED
      BY <3>1, <3>2, <3>3, <3>4, <3>5, <3>6 DEF SessionInv
  <2>8. Claimed(s, k)
    <3>1. ASSUME NEW l
          PROVE  Claims(s, l)' = Claims(s, l) + (IF k = l THEN 1 ELSE 0)
      <4>1. Occurs(Append(got[s], k), l) = Occurs(got[s], l) + (IF k = l THEN 1 ELSE 0)
        BY OccursAppend
      <4>2. /\ Occurs(got[s], l) \in Nat /\ Occurs(held[s], l) \in Nat
            /\ Occurs(dropping[s], l) \in Nat
        BY PlacesFinite
      <4>3. Claims(s, l)' = Occurs(Append(got[s], k), l) + Occurs(held[s], l)
                              + Occurs(dropping[s], l)
        BY <1>2, <2>5 DEF Claims
      <4>. QED
        BY <4>1, <4>2, <4>3 DEF Claims
    <3>. QED
      BY <3>1 DEF Claimed
  <2>9. Explicits(s)' = Explicits(s)
    <3>1. CASE cmd[s].kind = "lock"
      <4>1. Own(s) = Len(held[s]) + (Len(got[s]) + Len(dropping[s]))
        BY <3>1 DEF Own
      <4>2. Own(s)' = Len(held[s]) + ((Len(got[s]) + 1) + Len(dropping[s]))
        BY <1>2, <2>3, <2>5, <3>1 DEF Own
      <4>3. Owed(s) = 0 /\ Owed(s)' = -1
        BY <1>2, <2>5, <3>1 DEF Owed
      <4>4. Own(s)' = Own(s) + 1
        <5>1. PICK a \in Nat, g \in Nat, d \in Nat :
                a = Len(held[s]) /\ g = Len(got[s]) /\ d = Len(dropping[s])
          OBVIOUS
        <5>2. a + ((g + 1) + d) = (a + (g + d)) + 1
          OBVIOUS
        <5>. QED
          BY <4>1, <4>2, <5>1, <5>2
      <4>. QED
        BY <4>3, <4>4, Naturals DEF Explicits
    <3>2. CASE cmd[s].kind # "lock"
      BY <1>2, <2>5, <3>2 DEF Explicits, Own, Owed
    <3>. QED
      BY <3>1, <3>2
  <2>10. explicit' \in Nat /\ Counts(explicit', [r \in Session |-> Explicits(r)'])
    BY <1>1, <2>9, Naturals, CounterKept
  <2>11. /\ ManagerInv'
         /\ readers' \in [Table -> Nat] /\ writer' \in [Table -> BOOLEAN]
    BY <1>1, <1>4, <2>1, <2>8, <2>10, EntryTaken
  <2>12. pc' \in [Session -> Places] /\ rounds' \in [Session -> 0..MaxRounds]
    BY <2>1, BoundAssumption DEF Places
  <2>. QED
    BY <1>1, <2>4, <2>7, <2>10, <2>11, <2>12, StepInv
<1>5. CASE ~Free(k) /\ TimedOut(s)
  <2>1. /\ pc' = [pc EXCEPT ![s] = "drop"] /\ dropping' = [dropping EXCEPT ![s] = got[s]]
        /\ got' = [got EXCEPT ![s] = << >>] /\ want' = [want EXCEPT ![s] = << >>]
        /\ rounds' = [rounds EXCEPT ![s] = 0] /\ UNCHANGED <<readers, writer>>
    BY <1>3, <1>5
  <2>2. /\ pc'[s] = "drop" /\ dropping'[s] = got[s] /\ got'[s] = << >> /\ want'[s] = << >>
    BY <2>1
  <2>3. SameClaims(s) /\ Own(s)' = Own(s) /\ Owed(s)' = Owed(s)
    BY <1>2, <2>2, PutAway
  <2>4. SeqInv'
    BY <2>1, EmptySeq DEF SeqInv
  <2>5. SessionInv(s)'
    BY <1>2, <2>2, EndsInv
  <2>6. pc' \in [Session -> Places] /\ rounds' \in [Session -> 0..MaxRounds]
    BY <2>1, BoundAssumption DEF Places
  <2>. QED
    BY <1>1, <2>1, <2>3, <2>4, <2>5, <2>6, SilentInv DEF mgr
<1>6. CASE ~Free(k) /\ ~TimedOut(s)
  <2>1. /\ pc' = [pc EXCEPT ![s] = "parking"] /\ UNCHANGED <<dropping, got, want, rounds>>
        /\ UNCHANGED <<readers, writer>>
    BY <1>3, <1>6
  <2>2. rounds[s] < MaxRounds
    <3>1. rounds[s] \in 0..MaxRounds /\ ~(rounds[s] >= MaxRounds)
      BY <1>6 DEF TimedOut
    <3>. QED
      BY <3>1, BoundAssumption
  <2>3. SessionInv(s)'
    <3>1. /\ pc'[s] = "parking" /\ dropping'[s] = dropping[s] /\ got'[s] = got[s]
          /\ want'[s] = want[s] /\ rounds'[s] = rounds[s] /\ before'[s] = before[s]
      BY <2>1
    <3>2. CmdInv(s)' /\ OrderInv(s)'
      BY <1>2, <3>1 DEF CmdInv, OrderInv
    <3>3. PathInv(s)'
      BY <1>2, <2>2, <3>1 DEF PathInv, Waits
    <3>4. GlobalInv(s)' /\ NoWaitInv(s)'
      BY <1>2, <3>1 DEF GlobalInv, NoWaitInv, Waits
    <3>5. HonourInv(s)'
      BY <1>2, <3>1 DEF HonourInv, Waits, Uses, Access, HeldOn
    <3>. QED
      BY <3>2, <3>3, <3>4, <3>5 DEF SessionInv
  <2>4. SeqInv'
    BY <2>1 DEF SeqInv
  <2>5. SameClaims(s) /\ Own(s)' = Own(s)
    BY <2>1 DEF SameClaims, Claims, Own
  <2>6. Owed(s)' = Owed(s)
    BY <1>2, <2>1 DEF Owed
  <2>7. pc' \in [Session -> Places]
    BY <2>1 DEF Places
  <2>. QED
    BY <1>1, <2>1, <2>3, <2>4, <2>5, <2>6, <2>7, SilentInv DEF mgr
<1>. QED
  BY <1>4, <1>5, <1>6

\* With the counter of explicit locks at zero, no session holds any.
LEMMA NoExplicit ==
  ASSUME IInv, explicit = 0, NEW r \in Session
  PROVE  held[r] = << >>
<1>. DEFINE n == [s \in Session |-> Explicits(s)]
<1>1. n \in [Session -> Nat] /\ Counts(explicit, n)
  BY Naturals DEF IInv, ManagerInv
<1>2. ~(n[r] > 0)
  <2>. HIDE DEF n
  <2>. QED
    BY <1>1, TallyPositive
<1>3. Own(r) + Owed(r) = 0
  BY <1>1, <1>2 DEF Explicits
<1>4. ASSUME held[r] # << >>
      PROVE  FALSE
  <2>1. pc[r] # "count"
    BY <1>4, Known DEF PathInv, Waits
  <2>2. Owed(r) = 0 \/ Owed(r) = 1
    BY <2>1 DEF Owed
  <2>3. Own(r) > 0
    <3>1. PICK a \in Nat, g \in Nat, d \in Nat :
            a = Len(held[r]) /\ g = Len(got[r]) /\ d = Len(dropping[r])
      BY Known
    <3>2. a > 0
      BY <1>4, <3>1, Known, EmptySeq
    <3>3. Own(r) = a + (IF cmd[r].kind = "lock" THEN g + d ELSE 0)
      BY <3>1 DEF Own
    <3>. QED
      BY <3>2, <3>3
  <2>. QED
    BY <1>3, <2>2, <2>3, Naturals
<1>. QED
  BY <1>4

\* The locks a statement is to take: one for each table it uses and does not hold, in name
\* order, and exclusive where it writes.
LEMMA TransientFacts ==
  ASSUME IInv, NEW s \in Session, cmd[s].kind = "stmt"
  PROVE  /\ Access(s).writes \subseteq Table /\ Access(s).reads \subseteq Table
         /\ TransientLocks(s) \in Seq(Guard) /\ Ascending(TransientLocks(s))
         /\ ToSet(TransientLocks(s)) =
              {Lock(t, IF t \in Access(s).writes THEN Exclusive ELSE Shared) :
                 t \in {t \in Access(s).writes \cup Access(s).reads : HeldOn(s, t) = {}}}
<1>. DEFINE x == Access(s)
            T == {t \in x.writes \cup x.reads : HeldOn(s, t) = {}}
            f == [t \in T |-> IF t \in x.writes THEN Exclusive ELSE Shared]
<1>1. x.writes \subseteq Table /\ x.reads \subseteq Table
  BY Known DEF CmdInv, Access, Statement
<1>. HIDE DEF x
<1>2. T \in SUBSET Table /\ f \in [T -> {Shared, Exclusive}]
  BY <1>1
<1>3. TransientLocks(s) = InOrder(f)
  BY DEF TransientLocks, x
<1>4. \A t \in T : f[t] = IF t \in x.writes THEN Exclusive ELSE Shared
  OBVIOUS
<1>5. /\ InOrder(f) \in Seq(Guard) /\ Ascending(InOrder(f))
      /\ ToSet(InOrder(f)) = {Lock(t, f[t]) : t \in T}
  <2>. HIDE DEF T, f
  <2>. QED
    BY <1>2, InOrderFacts
<1>6. {Lock(t, f[t]) : t \in T} =
        {Lock(t, IF t \in x.writes THEN Exclusive ELSE Shared) : t \in T}
  <2>. HIDE DEF T, f
  <2>. QED
    BY <1>4
<1>. QED
  BY <1>1, <1>3, <1>5, <1>6 DEF x

\* The gate is skipped only while nobody holds an explicit lock; behind it locks are wanted in order.
LEMMA GateInv ==
  ASSUME IInv, NEW s \in Session, Gate(s)
  PROVE  IInv'
<1>. USE Known DEF Gate
<1>1. Alone(s)
  BY DEF Alone
<1>2. /\ pc[s] = "gate" /\ cmd[s].kind = "stmt" /\ want[s] = << >> /\ dropping[s] = << >>
      /\ (~cmd[s].inBody => got[s] = << >>)
      /\ cmd'[s] = cmd[s] /\ held'[s] = held[s] /\ global'[s] = global[s]
      /\ before'[s] = {r \in Session \ {s} : held[r] # << >>}
  BY DEF PathInv
<1>3. pc' \in [Session -> Places] /\ before' \in [Session -> SUBSET Session]
  BY DEF Places
<1>4. \A r \in Session : r \notin before'[r]
  BY <1>2
<1>5. CASE Open(s) /\ pc' = [pc EXCEPT ![s] = "run"] /\ UNCHANGED <<want, got, dropping>>
  <2>1. before'[s] = {}
    BY <1>2, <1>5, NoExplicit DEF Open
  <2>2. SessionInv(s)'
    <3>1. pc'[s] = "run" /\ want'[s] = want[s] /\ got'[s] = got[s] /\ dropping'[s] = dropping[s]
      BY <1>5
    <3>2. CmdInv(s)' /\ OrderInv(s)'
      BY <1>2, <3>1 DEF CmdInv, OrderInv
    <3>3. PathInv(s)'
      BY <1>2, <3>1 DEF PathInv, Waits
    <3>4. GlobalInv(s)' /\ NoWaitInv(s)' /\ HonourInv(s)'
      BY <1>2, <2>1, <3>1 DEF GlobalInv, NoWaitInv, HonourInv, Waits
    <3>. QED
      BY <3>2, <3>3, <3>4 DEF SessionInv
  <2>3. SeqInv'
    BY <1>4, <1>5 DEF SeqInv
  <2>4. SameClaims(s) /\ Own(s)' = Own(s)
    BY <1>5 DEF SameClaims, Claims, Own
  <2>5. Owed(s)' = Owed(s)
    BY <1>2, <1>5 DEF Owed
  <2>. QED
    BY <1>1, <1>3, <2>2, <2>3, <2>4, <2>5, SilentInv
<1>6. CASE /\ ~Open(s) /\ MayUse(s) /\ want' = [want EXCEPT ![s] = TransientLocks(s)]
           /\ pc' = [pc EXCEPT ![s] = "take"] /\ UNCHANGED <<got, dropping>>
  <2>. DEFINE x == Access(s)
  <2>1. /\ pc'[s] = "take" /\ want'[s] = TransientLocks(s) /\ got'[s] = got[s]
        /\ dropping'[s] = << >>
    BY <1>2, <1>6
  <2>2. /\ x.writes \subseteq Table /\ x.reads \subseteq Table
        /\ TransientLocks(s) \in Seq(Guard) /\ Ascending(TransientLocks(s))
    BY <1>2, TransientFacts
  <2>3. ToSet(TransientLocks(s)) =
          {Lock(t, IF t \in x.writes THEN Exclusive ELSE Shared) :
             t \in {t \in x.writes \cup x.reads : HeldOn(s, t) = {}}}
    BY <1>2, TransientFacts
  <2>4. /\ global[s] => x.writes = {}
        /\ (HoldsTableLocks(s) /\ x.dml /\ ~cmd[s].inBody) =>
             /\ \A t \in x.writes : Lock(t, Exclusive) \in HeldOn(s, t)
             /\ \A t \in x.reads : HeldOn(s, t) # {}
    BY <1>6 DEF MayUse
  <2>5. ~cmd[s].inBody => x = cmd[s]
    BY DEF Access
  <2>6. ASSUME global[s], NEW t \in Table
        PROVE  HeldOn(s, t) # {}
    <3>1. Tables(held[s]) = Table
      BY <2>6 DEF GlobalInv
    <3>. HIDE DEF Gate
    <3>2. PICK l \in ToSet(held[s]) : l.table = t
      BY <2>6, <3>1, Zenon DEF Tables
    <3>. QED
      BY <3>2 DEF HeldOn
  <2>7. \A t : HeldOn(s, t) # {} => held[s] # << >>
    BY DEF HeldOn, ToSet
  <2>. HIDE DEF x
  <2>8. ASSUME ~cmd[s].inBody, cmd[s].dml, held[s] # << >>
        PROVE  TransientLocks(s) = << >>
    <3>1. \A t \in x.writes \cup x.reads : HeldOn(s, t) # {}
      <4>1. CASE global[s]
        BY <2>2, <2>6, <4>1
      <4>2. CASE ~global[s]
        BY <2>4, <2>5, <2>8, <4>2 DEF HoldsTableLocks
      <4>. QED
        BY <4>1, <4>2
    <3>2. ToSet(TransientLocks(s)) = {}
      BY <2>3, <3>1
    <3>. QED
      BY <2>2, <3>2, ToSetFacts
  <2>9. HonourInv(s)'
    <3>1. Uses(s)' = Uses(s) /\ \A t : HeldOn(s, t)' = HeldOn(s, t)
      BY <1>2 DEF Uses, Access, HeldOn
    <3>2. ASSUME NEW u \in Uses(s)
          PROVE  \/ \E k \in ToSet(got'[s]) \cup ToSet(want'[s]) : Covers(k, u)
                 \/ HeldOn(s, u.table) # {} /\ (cmd[s].inBody \/ ~cmd[s].dml)
                 \/ \E k \in HeldOn(s, u.table) : Covers(k, u)
      <4>1. PICK t \in x.writes \cup x.reads :
              /\ u.table = t /\ u.mode \in {Shared, Exclusive}
              /\ u.mode = Exclusive => t \in x.writes
        BY DEF Uses, Lock, x, Shared, Exclusive
      <4>2. CASE HeldOn(s, t) = {}
        <5>1. PICK k \in ToSet(want'[s]) :
                k = Lock(t, IF t \in x.writes THEN Exclusive ELSE Shared)
          BY <2>1, <2>3, <4>2
        <5>2. Covers(k, u)
          BY <4>1, <5>1 DEF Covers, Lock
        <5>. QED
          BY <5>1, <5>2
      <4>3. CASE HeldOn(s, t) # {} /\ (cmd[s].inBody \/ ~cmd[s].dml)
        BY <4>1, <4>3
      <4>4. CASE HeldOn(s, t) # {} /\ ~cmd[s].inBody /\ cmd[s].dml
        <5>1. held[s] # << >> /\ x.dml
          BY <2>5, <2>7, <4>4
        <5>2. PICK k \in HeldOn(s, t) : u.mode = Exclusive => k = Lock(t, Exclusive)
          <6>1. CASE u.mode = Exclusive
            BY <2>4, <4>1, <4>4, <5>1, <6>1 DEF HoldsTableLocks
          <6>2. CASE u.mode # Exclusive
            BY <4>4, <6>2
          <6>. QED
            BY <6>1, <6>2
        <5>3. Covers(k, u)
          BY <4>1, <5>2 DEF Covers, Lock, HeldOn
        <5>. QED
          BY <4>1, <5>2, <5>3
      <4>. QED
        BY <4>2, <4>3, <4>4
    <3>. HIDE DEF Gate
    <3>3. cmd'[s].inBody = cmd[s].inBody /\ cmd'[s].dml = cmd[s].dml
      BY <1>2
    <3>. QED
      BY <3>1, <3>2, <3>3, Zenon DEF HonourInv
  <2>10. SessionInv(s)'
    <3>1. CmdInv(s)'
      BY <1>2 DEF CmdInv
    <3>2. PathInv(s)'
      BY <1>2, <2>1 DEF PathInv, Waits
    <3>3. OrderInv(s)'
      BY <1>2, <2>1, <2>2 DEF OrderInv
    <3>4. GlobalInv(s)'
      BY <1>2, <2>1 DEF GlobalInv, Waits
    <3>5. NoWaitInv(s)'
      BY <1>2, <2>1, <2>8 DEF NoWaitInv
    <3>. QED
      BY <2>9, <3>1, <3>2, <3>3, <3>4, <3>5 DEF SessionInv
  <2>11. SeqInv'
    BY <1>4, <1>6, <2>2 DEF SeqInv
  <2>12. SameClaims(s) /\ Own(s)' = Own(s)
    BY <1>6 DEF SameClaims, Claims, Own
  <2>13. Owed(s)' = Owed(s)
    BY <1>2, <2>1 DEF Owed
  <2>. QED
    BY <1>1, <1>3, <2>10, <2>11, <2>12, <2>13, SilentInv
<1>7. CASE /\ dropping' = [dropping EXCEPT ![s] = got[s]] /\ got' = [got EXCEPT ![s] = << >>]
           /\ pc' = [pc EXCEPT ![s] = "drop"] /\ UNCHANGED want
  <2>1. pc'[s] = "drop" /\ want'[s] = << >> /\ got'[s] = << >> /\ dropping'[s] = got[s]
    BY <1>2, <1>7
  <2>2. SameClaims(s) /\ Own(s)' = Own(s) /\ Owed(s)' = Owed(s)
    BY <1>2, <2>1, PutAway
  <2>3. SeqInv'
    BY <1>4, <1>7, EmptySeq DEF SeqInv
  <2>4. SessionInv(s)'
    BY <1>2, <2>1, EndsInv
  <2>. QED
    BY <1>1, <1>3, <2>2, <2>3, <2>4, SilentInv
<1>. QED
  BY <1>5, <1>6, <1>7

\* The invariant holds at the start.
LEMMA InitInv == Init => IInv
<1>. SUFFICES ASSUME Init
              PROVE  IInv
  OBVIOUS
<1>. USE DEF Init
<1>1. << >> \in Seq(Guard) /\ Len(<< >>) = 0 /\ 0 \in 0..MaxRounds
  BY EmptySeq, BoundAssumption
<1>2. SeqInv
  BY <1>1 DEF SeqInv
<1>3. TypeOK
  BY <1>1 DEF TypeOK, ToSet
<1>4. ASSUME NEW s \in Session
      PROVE  SessionInv(s)
  <2>1. CmdInv(s) /\ cmd[s].kind = "lock"
    BY CommandAssumption DEF CmdInv, Statement
  <2>2. PathInv(s) /\ OrderInv(s) /\ GlobalInv(s) /\ NoWaitInv(s) /\ HonourInv(s)
    BY <2>1 DEF PathInv, OrderInv, GlobalInv, NoWaitInv, HonourInv, Waits, Ascending
  <2>. QED
    BY <2>1, <2>2 DEF SessionInv
<1>5. ASSUME NEW n, n = [s \in Session |-> 0]
      PROVE  Counts(0, n)
  <2>1. Tally(n) = {}
    BY <1>5 DEF Tally
  <2>. QED
    BY <2>1, FS_EmptySet DEF Counts
<1>6. ASSUME NEW s \in Session
      PROVE  Explicits(s) = 0 /\ \A l : Claims(s, l) = 0
  <2>1. Own(s) = Len(<< >>) + (Len(<< >>) + Len(<< >>)) \/ Own(s) = Len(<< >>) + 0
    BY DEF Own
  <2>2. Owed(s) = 0
    BY DEF Owed
  <2>3. \A l : Claims(s, l) = 0
    BY OccursNone DEF Claims
  <2>. QED
    BY <1>1, <2>1, <2>2, <2>3 DEF Explicits
<1>7. \A l : [s \in Session |-> Claims(s, l)] = [s \in Session |-> 0]
  BY <1>6
<1>8. [s \in Session |-> Explicits(s)] = [s \in Session |-> 0]
  BY <1>6
<1>9. ManagerInv
  BY <1>5, <1>7, <1>8 DEF ManagerInv
<1>. QED
  BY <1>2, <1>3, <1>4, <1>9 DEF IInv

\* A stuttering step keeps the invariant.
LEMMA StutterInv ==
  ASSUME IInv, UNCHANGED vars
  PROVE  IInv'
<1>. USE DEF vars, mgr, own, env
<1>1. TypeOK' /\ SeqInv'
  BY DEF IInv, TypeOK, SeqInv
<1>2. \A s \in Session : \A l : Claims(s, l)' = Claims(s, l)
  BY DEF Claims
<1>3. \A s \in Session : Explicits(s)' = Explicits(s)
  BY DEF Explicits, Own, Owed
<1>4. ManagerInv'
  BY <1>2, <1>3 DEF IInv, ManagerInv
<1>5. ASSUME NEW s \in Session
      PROVE  SessionInv(s)'
  <2>1. CmdInv(s)' /\ PathInv(s)' /\ OrderInv(s)'
    BY Known DEF CmdInv, PathInv, OrderInv
  <2>2. GlobalInv(s)' /\ NoWaitInv(s)'
    BY Known DEF GlobalInv, NoWaitInv
  <2>3. HonourInv(s)'
    BY Known DEF HonourInv, Uses, Access, HeldOn
  <2>. QED
    BY <2>1, <2>2, <2>3 DEF SessionInv
<1>. QED
  BY <1>1, <1>4, <1>5 DEF IInv

\* Every step keeps the invariant.
LEMMA NextInv == IInv /\ [Next]_vars => IInv'
<1>. SUFFICES ASSUME IInv, [Next]_vars
              PROVE  IInv'
  OBVIOUS
<1>1. ASSUME NEW s \in Session, Step(s)
      PROVE  IInv'
  BY <1>1, GateInv, TryTakeInv, CountInv, MoveOnInv, RunInv, LockedInv, DropGuardInv,
     UncountInv DEF Step
<1>2. ASSUME NEW s \in Session, NEW c \in Command, Start(s, c)
      PROVE  IInv'
  BY <1>2, StartStatementInv, StartLockInv DEF Start
<1>3. ASSUME NEW s \in Session, Cancel(s)
      PROVE  IInv'
  BY <1>3, CancelInv
<1>4. CASE Next
  BY <1>1, <1>2, <1>3, <1>4 DEF Next
<1>5. CASE UNCHANGED vars
  BY <1>5, StutterInv
<1>. QED
  BY <1>4, <1>5

\* IInv holds in every reachable state.
LEMMA InvHolds == Spec => []IInv
BY InitInv, NextInv, PTL DEF Spec

----------------------------------------------------------------------------
(* What the invariant says *)

\* A guard a session has is one of its claims.
LEMMA GuardIsClaim ==
  ASSUME IInv, NEW s \in Session, NEW l \in Guards(s)
  PROVE  l \in Guard /\ Claims(s, l) > 0
<1>1. got[s] \in Seq(Guard) /\ held[s] \in Seq(Guard) /\ dropping[s] \in Seq(Guard)
  BY Known
<1>2. /\ Occurs(got[s], l) \in Nat /\ Occurs(held[s], l) \in Nat
      /\ Occurs(dropping[s], l) \in Nat
  BY <1>1, PlacesFinite
<1>3. Occurs(got[s], l) > 0 \/ Occurs(held[s], l) > 0 \/ Occurs(dropping[s], l) > 0
  BY <1>1, OccursPositive DEF Guards
<1>4. l \in Guard
  BY <1>1, ToSetFacts DEF Guards
<1>. QED
  BY <1>2, <1>3, <1>4 DEF Claims

\* Two sessions' claims do not conflict: the entry of the table would have to count a
\* writer together with a reader, or two writers.
LEMMA NoConflict ==
  ASSUME IInv, NEW s \in Session, NEW r \in Session, s # r,
         NEW l \in Guards(s), NEW k \in Guards(r)
  PROVE  ~Conflict(l, k)
<1>1. /\ l \in Guard /\ Claims(s, l) > 0 /\ k \in Guard /\ Claims(r, k) > 0
  BY GuardIsClaim
<1>2. ASSUME NEW t \in Table, NEW m \in {Shared, Exclusive}, NEW q \in Session,
             Claims(q, Lock(t, m)) > 0
      PROVE  /\ m = Shared => readers[t] # 0
             /\ m = Exclusive => writer[t]
             /\ m = Exclusive => \A p \in Session : p # q => ~(Claims(p, Lock(t, m)) > 0)
  <2>. DEFINE n == [p \in Session |-> Claims(p, Lock(t, m))]
  <2>1. n \in [Session -> Nat] /\ n[q] > 0
    BY <1>2, Naturals
  <2>2. /\ m = Shared => Counts(readers[t], n)
        /\ m = Exclusive => Counts(IF writer[t] THEN 1 ELSE 0, n)
    BY DEF IInv, ManagerInv
  <2>3. \A c : Counts(c, n) => c \in Nat \ {0} /\ \A p \in Session : p # q /\ n[p] > 0 => c > 1
    <3>. HIDE DEF n
    <3>. QED
      BY <2>1, TallyPositive
  <2>4. m = Shared => readers[t] # 0
    BY <2>2, <2>3
  <2>5. ASSUME m = Exclusive
        PROVE  /\ writer[t]
               /\ \A p \in Session : p # q => ~(n[p] > 0)
    <3>1. Counts(IF writer[t] THEN 1 ELSE 0, n)
      BY <2>2, <2>5
    <3>. HIDE DEF n
    <3>2. writer[t]
      BY <2>3, <3>1
    <3>. QED
      BY <2>3, <3>1, <3>2
  <2>. QED
    BY <2>4, <2>5
<1>3. /\ l.table \in Table /\ l.mode \in {Shared, Exclusive} /\ l = Lock(l.table, l.mode)
      /\ k.table \in Table /\ k.mode \in {Shared, Exclusive} /\ k = Lock(k.table, k.mode)
  BY <1>1 DEF Guard, Lock
<1>4. ASSUME l.table = k.table, l.mode = Exclusive \/ k.mode = Exclusive
      PROVE  FALSE
  <2>1. PICK t \in Table : t = l.table /\ t = k.table
    BY <1>3, <1>4
  <2>2. writer[t] => readers[t] = 0
    BY DEF IInv, ManagerInv
  <2>3. /\ (l.mode = Shared \/ k.mode = Shared) => readers[t] # 0
        /\ (l.mode = Exclusive \/ k.mode = Exclusive) => writer[t]
    BY <1>1, <1>2, <1>3, <2>1
  <2>4. l.mode = Exclusive /\ k.mode = Exclusive
    BY <1>3, <1>4, <2>2, <2>3
  <2>. QED
    BY <1>1, <1>2, <1>3, <2>1, <2>4
<1>. QED
  BY <1>4 DEF Conflict

\* Exclusion of sessions whose guards are taken, cut off and given back in any order
\* (lockmgr.rs, try_take and give_back).
THEOREM NoTwoHolders == Spec => []Exclusion
<1>1. IInv => Exclusion
  BY NoConflict DEF Exclusion
<1>. QED
  BY <1>1, InvHolds, PTL

\* A statement that passed the gate after a LOCK TABLES was answered does not run against
\* it (lib.rs, run_statements and check_own_locks).
THEOREM LocksObeyed == Spec => []LockHonoured
<1>1. ASSUME IInv, NEW s \in Session, pc[s] = "run", NEW u \in Uses(s), NEW l \in Binding(s),
             Conflict(u, l)
      PROVE  HeldOn(s, u.table) # {} /\ (cmd[s].inBody \/ ~cmd[s].dml)
  <2>1. PICK r \in before[s] : l \in ToSet(held[r])
    BY DEF Binding
  <2>2. r \in Session /\ r # s /\ l \in Guards(r)
    BY <1>1, <2>1, Known DEF Guards
  <2>3. /\ cmd[s].kind = "stmt" /\ want[s] = << >> /\ before[s] # {}
    BY <1>1, <2>1, Known DEF PathInv
  <2>4. \/ \E k \in ToSet(got[s]) : Covers(k, u)
        \/ HeldOn(s, u.table) # {} /\ (cmd[s].inBody \/ ~cmd[s].dml)
        \/ \E k \in HeldOn(s, u.table) : Covers(k, u)
    <3>1. ToSet(want[s]) = {}
      BY <2>3 DEF ToSet
    <3>2. HonourInv(s)
      BY <1>1, Known
    <3>. QED
      BY <1>1, <2>3, <3>1, <3>2 DEF HonourInv
  <2>5. ASSUME NEW k \in Guards(s), Covers(k, u)
        PROVE  FALSE
    <3>1. Conflict(k, l)
      BY <1>1, <2>5 DEF Conflict, Covers
    <3>. QED
      BY <1>1, <2>2, <3>1, NoConflict
  <2>6. ToSet(got[s]) \subseteq Guards(s) /\ HeldOn(s, u.table) \subseteq Guards(s)
    BY DEF Guards, HeldOn
  <2>. QED
    BY <2>4, <2>5, <2>6
<1>2. IInv => LockHonoured
  BY <1>1 DEF LockHonoured
<1>. QED
  BY <1>2, InvHolds, PTL

\* Of sessions that wait, the one whose next table is the last in name order waits for none
\* of the others, so they do not wait in a circle (lib.rs, strongest_locks).
THEOREM WaitsEnd == Spec => []NoCyclicWait
<1>. DEFINE W == {s \in Session : Waiting(s) /\
                   (cmd[s].kind = "stmt" => ~cmd[s].inBody /\ (cmd[s].dml \/ held[s] = << >>))}
            At(s) == Head(want[s]).table
<1>1. ASSUME IInv, NEW C \in SUBSET W, C # {}
      PROVE  \E s \in C : \A r \in C : ~WaitsFor(s, r)
  <2>1. ASSUME NEW s \in C
        PROVE  /\ s \in Session /\ want[s] # << >> /\ At(s) \in Table
               /\ Guards(s) = ToSet(got[s])
               /\ \A k \in ToSet(got[s]) : k.table < At(s)
    <3>1. s \in Session /\ Waiting(s)
               /\ (cmd[s].kind = "stmt" => ~cmd[s].inBody /\ (cmd[s].dml \/ held[s] = << >>))
      BY <1>1, <2>1
    <3>2. pc[s] \in {"parking", "parked"} /\ want[s] # << >>
      BY <3>1 DEF Waiting
    <3>3. dropping[s] = << >>
      BY <1>1, <3>1, <3>2, Known DEF PathInv, Waits
    <3>4. held[s] = << >>
      <4>1. CASE cmd[s].kind = "lock"
        BY <1>1, <3>1, <3>2, <4>1, Known DEF PathInv, Waits
      <4>2. CASE cmd[s].kind = "stmt"
        BY <1>1, <3>1, <3>2, <4>2, Known DEF NoWaitInv, Waits
      <4>. QED
        BY <1>1, <3>1, <4>1, <4>2, Known
    <3>5. Guards(s) = ToSet(got[s])
      BY <3>3, <3>4 DEF Guards, ToSet
    <3>6. Head(want[s]) \in Guard /\ Head(want[s]) = want[s][1] /\ 1 \in DOMAIN want[s]
      BY <1>1, <3>1, <3>2, Known, ToSetFacts
    <3>7. \A i \in DOMAIN got[s] : got[s][i].table < Head(want[s]).table
      BY <1>1, <3>1, <3>6, Known DEF OrderInv
    <3>8. \A k \in ToSet(got[s]) : k.table < Head(want[s]).table
      BY <3>7 DEF ToSet
    <3>9. Head(want[s]).table \in Table
      BY <3>6 DEF Guard
    <3>. QED
      BY <3>1, <3>2, <3>5, <3>8, <3>9
  <2>2. PICK s \in C : \A r \in C : At(r) <= At(s)
    <3>. DEFINE T == {At(r) : r \in C}
    <3>1. T \in SUBSET Nat /\ IsFiniteSet(T) /\ T # {}
      <4>1. T \subseteq Table /\ T # {}
        BY <1>1, <2>1
      <4>. HIDE DEF T
      <4>. QED
        BY <4>1, TableAssumption, FS_Subset
    <3>. HIDE DEF T, At
    <3>2. PICK m \in T : \A k \in T : k <= m
      BY <3>1, Greatest
    <3>. QED
      BY <3>2 DEF T
  <2>3. ASSUME NEW r \in C, WaitsFor(s, r)
        PROVE  FALSE
    <3>1. PICK l \in ToSet(got[r]) : Conflict(Head(want[s]), l)
      BY <2>1, <2>3 DEF WaitsFor
    <3>2. l.table = At(s)
      BY <3>1 DEF Conflict
    <3>3. At(s) \in Nat /\ At(r) \in Nat /\ l.table < At(r) /\ At(r) <= At(s)
      BY <2>1, <2>2, <3>1, TableAssumption
    <3>. HIDE DEF At
    <3>. QED
      BY <3>2, <3>3
  <2>. QED
    BY <2>3
<1>2. IInv => NoCyclicWait
  <2>1. ASSUME IInv
        PROVE  \A C \in (SUBSET W) \ {{}} : \E s \in C : \A r \in C : ~WaitsFor(s, r)
    BY <1>1, <2>1
  <2>. QED
    BY <2>1 DEF NoCyclicWait
<1>. QED
  BY <1>2, InvHolds, PTL

\* The variables keep their types; in particular the counter of explicit locks never goes
\* below zero, and no wait outlasts its deadline.
THEOREM TypeCorrect == Spec => []TypeOK
<1>1. IInv => TypeOK
  BY DEF IInv
<1>. QED
  BY <1>1, InvHolds, PTL

=============================================================================
