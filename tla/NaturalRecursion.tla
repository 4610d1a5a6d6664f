-------------------------- MODULE NaturalRecursion --------------------------
(***************************************************************************)
(* Induction over the natural numbers for a set of numbers, and definition *)
(* by recursion up to a number: what the proofs about replayed logs and    *)
(* groups of writes need.  Both are stated without operator parameters.    *)
(***************************************************************************)
EXTENDS Integers, WellFoundedInduction, TLAPS

\* A set of natural numbers that is not empty has a least member.
LEMMA LeastNatural ==
  ASSUME NEW T \in SUBSET Nat, T # {}
  PROVE  \E n \in T : \A m \in T : n <= m
<1>1. PICK n \in T : \A m \in T : ~(<<m, n>> \in OpToRel(<, Nat))
  BY WFMin, NatLessThanWellFounded
<1>2. \A m \in T : ~(m < n)
  BY <1>1 DEF OpToRel
<1> QED  BY <1>2

\* A set that has 0, and with a number also the next, has every natural number.
LEMMA SetInduction ==
  ASSUME NEW P, 0 \in P, \A n \in Nat : n \in P => n + 1 \in P
  PROVE  Nat \subseteq P
<1> SUFFICES ASSUME Nat \ P # {} PROVE FALSE
  OBVIOUS
<1>1. PICK n \in Nat \ P : \A m \in Nat \ P : n <= m
  BY LeastNatural
<1>2. n # 0
  OBVIOUS
<1>3. n - 1 \in Nat /\ n - 1 \in P /\ n - 1 + 1 = n
  BY <1>1, <1>2
<1> QED  BY <1>1, <1>3

\* f begins with s and goes on by F, up to N.
GoesOn(f, s, F, N) == f[0] = s /\ \A n \in 1..N : f[n] = F[<<n, f[n-1]>>]

\* For a first value and a step there is a function that begins with the one and goes on
\* by the other.
LEMMA Recursion ==
  ASSUME NEW S, NEW s \in S, NEW F \in [Nat \X S -> S], NEW N \in Nat
  PROVE  \E f \in [0..N -> S] : GoesOn(f, s, F, N)
<1> DEFINE Good(M, f) == f[0] = s /\ \A n \in 1..M : f[n] = F[<<n, f[n-1]>>]
           P == {M \in Nat : \E f \in [0..M -> S] : Good(M, f)}
<1>1. 0 \in P
  <2> DEFINE g == [n \in 0..0 |-> s]
  <2>1. g \in [0..0 -> S] /\ g[0] = s
    OBVIOUS
  <2>2. Good(0, g)
    BY <2>1
  <2> HIDE DEF g
  <2>3. \E f \in [0..0 -> S] : Good(0, f)
    BY <2>1, <2>2
  <2> QED  BY <2>3
<1>2. ASSUME NEW M \in Nat, M \in P PROVE M + 1 \in P
  <2>1. PICK f \in [0..M -> S] : Good(M, f)
    BY <1>2
  <2> DEFINE v == F[<<M+1, f[M]>>]
             g == [n \in 0..M+1 |-> IF n = M + 1 THEN v ELSE f[n]]
  <2>2. v \in S
    <3>1. <<M+1, f[M]>> \in Nat \X S
      OBVIOUS
    <3> QED  BY <3>1
  <2> HIDE DEF v
  <2>3. g \in [0..M+1 -> S]
    <3>1. ASSUME NEW n \in 0..M+1, n # M+1 PROVE f[n] \in S
      <4>1. n \in 0..M  BY <3>1
      <4> QED  BY <4>1
    <3> QED  BY <2>2, <3>1
  <2>4. g[0] = s
    BY <2>1
  <2>5. ASSUME NEW n \in 1..M+1 PROVE g[n] = F[<<n, g[n-1]>>]
    <3>1. n \in 0..M+1 /\ n-1 \in 0..M+1 /\ n - 1 # M+1
      OBVIOUS
    <3>2. g[n-1] = f[n-1]
      BY <3>1
    <3>3. CASE n = M+1
      <4>1. n - 1 = M  BY <3>3
      <4>2. g[n] = v   BY <3>1, <3>3
      <4> HIDE DEF g
      <4> QED  BY <3>2, <3>3, <4>1, <4>2 DEF v
    <3>4. CASE n # M+1
      <4>1. n \in 1..M     BY <3>4
      <4>2. g[n] = f[n]    BY <3>1, <3>4
      <4>3. f[n] = F[<<n, f[n-1]>>]  BY <4>1, <2>1
      <4> HIDE DEF g
      <4> QED  BY <4>2, <4>3, <3>2
    <3> QED  BY <3>3, <3>4
  <2> HIDE DEF g
  <2>6. Good(M+1, g)
    BY <2>4, <2>5
  <2>7. \E h \in [0..M+1 -> S] : Good(M+1, h)
    BY <2>3, <2>6
  <2> QED  BY <2>7
<1> HIDE DEF P
<1>3. N \in P
  BY <1>1, <1>2, SetInduction
<1> QED  BY <1>3 DEF P, GoesOn

\* What begins with a member of S and goes on by a step on S stays in S.
LEMMA RecursionType ==
  ASSUME NEW S, NEW s \in S, NEW F \in [Nat \X S -> S], NEW N \in Nat, NEW f,
         GoesOn(f, s, F, N)
  PROVE  \A n \in 0..N : f[n] \in S
<1> DEFINE P == {n \in Nat : n <= N => f[n] \in S}
<1>1. 0 \in P
  BY DEF GoesOn
<1>2. ASSUME NEW n \in Nat, n \in P PROVE n + 1 \in P
  <2>1. CASE n + 1 <= N
    <3>1. n + 1 \in 1..N /\ n + 1 - 1 = n /\ f[n] \in S
      BY <1>2, <2>1
    <3>2. f[n + 1] = F[<<n + 1, f[n]>>] /\ <<n + 1, f[n]>> \in Nat \X S
      BY <3>1 DEF GoesOn
    <3> QED  BY <3>2
  <2>2. CASE ~(n + 1 <= N)
    BY <2>2
  <2> QED  BY <2>1, <2>2
<1> HIDE DEF P
<1>3. Nat \subseteq P
  BY <1>1, <1>2, SetInduction
<1> QED  BY <1>3 DEF P

\* Two functions that begin alike and go on by the same step agree.
LEMMA RecursionUnique ==
  ASSUME NEW s, NEW F, NEW N \in Nat, NEW f, NEW g, GoesOn(f, s, F, N), GoesOn(g, s, F, N)
  PROVE  \A n \in 0..N : f[n] = g[n]
<1> DEFINE P == {n \in Nat : n <= N => f[n] = g[n]}
<1>1. 0 \in P
  BY DEF GoesOn
<1>2. ASSUME NEW n \in Nat, n \in P PROVE n + 1 \in P
  <2>1. CASE n + 1 <= N
    <3>1. n + 1 \in 1..N /\ n + 1 - 1 = n /\ f[n] = g[n]
      BY <1>2, <2>1
    <3>2. f[n + 1] = F[<<n + 1, f[n]>>] /\ g[n + 1] = F[<<n + 1, g[n]>>]
      BY <3>1 DEF GoesOn
    <3> QED  BY <3>1, <3>2
  <2>2. CASE ~(n + 1 <= N)
    BY <2>2
  <2> QED  BY <2>1, <2>2
<1> HIDE DEF P
<1>3. Nat \subseteq P
  BY <1>1, <1>2, SetInduction
<1> QED  BY <1>3 DEF P

=============================================================================
