------------------------- MODULE QueryCachesProofs --------------------------
(***************************************************************************)
(* Theorems about QueryCaches, for any tables, rows, filters, changes and  *)
(* sessions, any size of a chunk, of the cache and of the worker pool.     *)
(***************************************************************************)
EXTENDS QueryCaches, NaturalRecursion, FiniteSetTheorems

----------------------------------------------------------------------------
(* Numbers *)

\* What \div is.
LEMMA DivFacts ==
  ASSUME NEW a \in Nat, NEW b \in Nat \ {0}
  PROVE  /\ a \div b \in Nat
         /\ b * (a \div b) <= a /\ a < b * (a \div b) + b
OBVIOUS

\* The quotient of a number between two multiples.
LEMMA DivUnique ==
  ASSUME NEW a \in Nat, NEW b \in Nat \ {0}, NEW d \in Nat, b * d <= a, a < b * d + b
  PROVE  a \div b = d
<1> DEFINE e == a \div b
<1>1. e \in Nat /\ b * e <= a /\ a < b * e + b
  BY DivFacts
<1> HIDE DEF e
<1>2. ASSUME NEW x \in Nat, NEW y \in Nat, x < y PROVE b * x + b <= b * y
  BY <1>2
<1>3. ~(e < d) /\ ~(d < e)
  BY <1>1, <1>2
<1> QED  BY <1>1, <1>3 DEF e

\* The quotient grows with the number.
LEMMA DivMonotone ==
  ASSUME NEW a \in Nat, NEW c \in Nat, NEW b \in Nat \ {0}, a <= c
  PROVE  a \div b <= c \div b
<1> DEFINE e == a \div b
           g == c \div b
<1>1. e \in Nat /\ b * e <= a /\ a < b * e + b
  BY DivFacts
<1>2. g \in Nat /\ b * g <= c /\ c < b * g + b
  BY DivFacts
<1> HIDE DEF e, g
<1>3. ASSUME NEW x \in Nat, NEW y \in Nat, x < y PROVE b * x + b <= b * y
  BY <1>3
<1>4. ~(g < e)
  BY <1>1, <1>2, <1>3
<1> QED  BY <1>1, <1>2, <1>4 DEF e, g

\* A finite set of integers has a least and a greatest element.
LEMMA MinMax ==
  ASSUME NEW S \in SUBSET Int, IsFiniteSet(S), S # {}
  PROVE  /\ Min(S) \in S /\ \A x \in S : Min(S) <= x
         /\ Max(S) \in S /\ \A x \in S : x <= Max(S)
<1> DEFINE Bounded(X) == \E a, b \in X : \A x \in X : a <= x /\ x <= b
           P == {n \in Nat : \A X \in SUBSET Int :
                   IsFiniteSet(X) /\ Cardinality(X) = n + 1 => Bounded(X)}
<1>1. 0 \in P
  <2> SUFFICES ASSUME NEW X \in SUBSET Int, IsFiniteSet(X), Cardinality(X) = 0 + 1
               PROVE  Bounded(X)
    OBVIOUS
  <2>1. PICK x : X = {x}
    <3>1. Cardinality(X) = 1
      OBVIOUS
    <3>2. \E x : X = {x}
      BY <3>1, FS_Singleton, Zenon
    <3> QED  BY <3>2
  <2>2. x \in Int /\ x <= x
    BY <2>1
  <2> QED  BY <2>1, <2>2
<1>2. ASSUME NEW n \in Nat, n \in P PROVE n + 1 \in P
  <2> SUFFICES ASSUME NEW X \in SUBSET Int, IsFiniteSet(X), Cardinality(X) = n + 1 + 1
               PROVE  Bounded(X)
    OBVIOUS
  <2>1. X # {}
    BY FS_EmptySet
  <2>2. PICK y \in X : TRUE
    BY <2>1
  <2> DEFINE Y == X \ {y}
  <2>3. Y \in SUBSET Int /\ y \in Int
    OBVIOUS
  <2>4. IsFiniteSet(Y) /\ Cardinality(Y) = n + 1
    <3>1. IsFiniteSet(Y) /\ Cardinality(Y) = Cardinality(X) - 1
      BY FS_RemoveElement
    <3> QED  BY <3>1
  <2>5. Bounded(Y)
    <3> HIDE DEF Y, Bounded
    <3> QED  BY <1>2, <2>3, <2>4
  <2>6. PICK a \in Y, b \in Y : \A x \in Y : a <= x /\ x <= b
    BY <2>5
  <2> DEFINE lo == IF y < a THEN y ELSE a
             hi == IF y > b THEN y ELSE b
  <2>7. \A x \in X : x \in Int /\ (x = y \/ x \in Y)
    OBVIOUS
  <2>8. a \in Int /\ b \in Int /\ a \in X /\ b \in X /\ a <= b
    BY <2>6
  <2>9. \A x \in X : lo <= x /\ x <= hi
    <3> HIDE DEF Y
    <3> QED  BY <2>3, <2>6, <2>7, <2>8
  <2> QED  BY <2>8, <2>9
<1>3. Nat \subseteq P
  <2> HIDE DEF P
  <2> QED  BY <1>1, <1>2, SetInduction
<1>4. Cardinality(S) \in Nat /\ Cardinality(S) # 0
  BY FS_CardinalityType, FS_EmptySet
<1>5. Cardinality(S) - 1 \in P /\ Cardinality(S) = Cardinality(S) - 1 + 1
  BY <1>3, <1>4
<1>6. PICK a \in S, b \in S : \A x \in S : a <= x /\ x <= b
  BY <1>5
<1>7. \A x \in S : x \in Int
  OBVIOUS
<1>8. Min(S) \in S /\ \A x \in S : Min(S) <= x
  BY <1>6, <1>7 DEF Min
<1>9. Max(S) \in S /\ \A x \in S : Max(S) >= x
  <2>1. \A x \in S : b >= x
    BY <1>6, <1>7
  <2> QED  BY <2>1 DEF Max
<1> QED  BY <1>7, <1>8, <1>9

----------------------------------------------------------------------------
(* The chunks of a zone map *)

RankOf(R, k) == Cardinality({j \in Present(R) : j < k})
ChunkOf(R, k) == RankOf(R, k) \div ChunkRows + 1
KeysOf(R, c) == {k \in Present(R) : RankOf(R, k) \div ChunkRows = c - 1}
NumsOf(R, c) == {R[k] : k \in KeysOf(R, c)} \ {Null, Misread}
ChunkCount(R) == (Cardinality(Present(R)) + ChunkRows - 1) \div ChunkRows
ChunkRecord(R, c) ==
  [start |-> Min(KeysOf(R, c)), nums |-> NumsOf(R, c) # {},
   min |-> IF NumsOf(R, c) = {} THEN 0 ELSE Min(NumsOf(R, c)),
   max |-> IF NumsOf(R, c) = {} THEN 0 ELSE Max(NumsOf(R, c))]

\* The list of chunks, in the terms above.
LEMMA ChunksAre ==
  ASSUME NEW R
  PROVE  Chunks(R) = [c \in 1..ChunkCount(R) |-> ChunkRecord(R, c)]
BY DEF Chunks, ChunkCount, ChunkRecord, NumsOf, KeysOf, RankOf

\* A table has finitely many rows.
LEMMA PresentFacts ==
  ASSUME NEW R
  PROVE  /\ Present(R) \subseteq Nat /\ IsFiniteSet(Present(R))
         /\ Cardinality(Present(R)) \in Nat
<1>1. Key \subseteq 0..Top
  BY KeyAssumption
<1>2. Present(R) \subseteq 0..Top
  BY <1>1 DEF Present
<1>3. IsFiniteSet(0..Top)
  BY KeyAssumption, FS_Interval
<1>4. IsFiniteSet(Present(R))
  BY <1>2, <1>3, FS_Subset
<1> QED  BY <1>2, <1>4, KeyAssumption, FS_CardinalityType

\* Rows are numbered from 0 in the order of their keys.
LEMMA Ranks ==
  ASSUME NEW R
  PROVE  /\ \A k \in Present(R) : RankOf(R, k) \in 0..(Cardinality(Present(R)) - 1)
         /\ \A j, k \in Present(R) : j <= k => RankOf(R, j) <= RankOf(R, k)
         /\ \A r \in 0..(Cardinality(Present(R)) - 1) : \E k \in Present(R) : RankOf(R, k) = r
<1> DEFINE T == Present(R)
           n == Cardinality(T)
           g == [k \in T |-> RankOf(R, k)]
<1>1. T \subseteq Nat /\ IsFiniteSet(T) /\ n \in Nat
  BY PresentFacts
<1>2. ASSUME NEW k \in T PROVE RankOf(R, k) \in 0..(n - 1)
  <2> DEFINE A == {j \in T : j < k}
  <2>1. A \subseteq T /\ k \notin A /\ k \in T
    BY <1>1
  <2>2. IsFiniteSet(A) /\ Cardinality(A) <= n /\ Cardinality(A) # n
    <3> HIDE DEF A, T
    <3> QED  BY <1>1, <2>1, FS_Subset
  <2>3. Cardinality(A) \in Nat
    BY <2>2, FS_CardinalityType
  <2>4. RankOf(R, k) = Cardinality(A)
    BY DEF RankOf
  <2> HIDE DEF A, n
  <2> QED  BY <1>1, <2>2, <2>3, <2>4
<1>3. ASSUME NEW j \in T, NEW k \in T, j < k PROVE RankOf(R, j) < RankOf(R, k)
  <2> DEFINE A == {i \in T : i < j}
             B == {i \in T : i < k}
  <2>1. A \subseteq B /\ j \in B /\ j \notin A /\ B \subseteq T
    BY <1>1, <1>3
  <2>2. IsFiniteSet(B)
    BY <1>1, <2>1, FS_Subset
  <2>3. Cardinality(A) <= Cardinality(B) /\ Cardinality(A) # Cardinality(B)
    <3> HIDE DEF A, B
    <3> QED  BY <2>1, <2>2, FS_Subset
  <2>4. RankOf(R, j) = Cardinality(A) /\ RankOf(R, k) = Cardinality(B)
    BY DEF RankOf
  <2>5. RankOf(R, j) \in Int /\ RankOf(R, k) \in Int
    BY <1>2
  <2> HIDE DEF A, B
  <2> QED  BY <2>3, <2>4, <2>5
<1>4. \A j, k \in T : j <= k => RankOf(R, j) <= RankOf(R, k)
  <2> SUFFICES ASSUME NEW j \in T, NEW k \in T, j <= k
               PROVE  RankOf(R, j) <= RankOf(R, k)
    OBVIOUS
  <2>1. RankOf(R, j) \in Int /\ RankOf(R, k) \in Int /\ (j = k \/ j < k)
    BY <1>1, <1>2
  <2> QED  BY <1>3, <2>1
<1>5. g \in Injection(T, 0..(n - 1))
  <2>1. \A j, k \in T : RankOf(R, j) = RankOf(R, k) => j = k
    <3> SUFFICES ASSUME NEW j \in T, NEW k \in T, j # k
                 PROVE  RankOf(R, j) # RankOf(R, k)
      OBVIOUS
    <3>1. RankOf(R, j) \in Int /\ RankOf(R, k) \in Int /\ (k < j \/ j < k)
      BY <1>1, <1>2
    <3> QED  BY <1>3, <3>1
  <2> HIDE DEF n, T
  <2> QED  BY <1>2, <2>1 DEF Injection, IsInjective
<1>6. IsFiniteSet(0..(n - 1)) /\ Cardinality(0..(n - 1)) = n
  <2> HIDE DEF n
  <2>1. n - 1 \in Int
    BY <1>1
  <2>2. IsFiniteSet(0..(n - 1)) /\ Cardinality(0..(n - 1)) = IF 0 > n - 1 THEN 0 ELSE n - 1 - 0 + 1
    BY <2>1, FS_Interval
  <2> QED  BY <1>1, <2>2
<1>7. g \in Surjection(T, 0..(n - 1))
  <2> HIDE DEF g, T, n
  <2>1. n = Cardinality(T)
    BY DEF n
  <2> QED  BY <1>1, <1>5, <1>6, <2>1, FS_Injection
<1>8. \A r \in 0..(n - 1) : \E k \in T : RankOf(R, k) = r
  BY <1>7 DEF Surjection
<1> QED  BY <1>2, <1>4, <1>8

\* Every row is in a chunk, every chunk has a row, and a chunk's keys are before the next's.
LEMMA ChunkFacts ==
  ASSUME NEW R
  PROVE  /\ ChunkCount(R) \in Nat
         /\ \A k \in Present(R) : /\ ChunkOf(R, k) \in 1..ChunkCount(R)
                                  /\ k \in KeysOf(R, ChunkOf(R, k))
         /\ \A c \in 1..ChunkCount(R) : KeysOf(R, c) # {} /\ KeysOf(R, c) \subseteq Present(R)
         /\ \A c, d \in 1..ChunkCount(R) : c < d =>
              \A j \in KeysOf(R, c), k \in KeysOf(R, d) : j < k
<1> DEFINE n == Cardinality(Present(R))
           C == ChunkRows
           m == ChunkCount(R)
<1>1. /\ C \in Nat \ {0} /\ n \in Nat /\ n + C - 1 \in Nat
      /\ Present(R) \subseteq Nat
  BY SizeAssumption, PresentFacts
<1>2. m \in Nat /\ C * m <= n + C - 1 /\ n + C - 1 < C * m + C
  BY <1>1, DivFacts DEF ChunkCount
<1>3. \A k \in Present(R) : RankOf(R, k) \in 0..(n - 1)
  BY Ranks
<1> HIDE DEF C, m
<1>4. ASSUME NEW k \in Present(R)
      PROVE  ChunkOf(R, k) \in 1..m /\ k \in KeysOf(R, ChunkOf(R, k))
  <2> DEFINE r == RankOf(R, k)
             d == r \div C
  <2>1. r \in Nat /\ r <= n - 1
    BY <1>1, <1>3
  <2>2. d \in Nat /\ C * d <= r
    BY <1>1, <2>1, DivFacts
  <2>3. ChunkOf(R, k) = d + 1
    BY DEF ChunkOf, C
  <2> HIDE DEF d, r, n
  <2>4. C * d < C * m
    BY <1>1, <1>2, <2>1, <2>2
  <2>5. d < m
    <3>1. ASSUME NEW x \in Nat, NEW y \in Nat, x <= y PROVE C * x <= C * y
      BY <1>1, <3>1
    <3> QED  BY <1>1, <1>2, <2>2, <2>4, <3>1
  <2>6. d + 1 \in 1..m /\ d = d + 1 - 1
    BY <1>2, <2>2, <2>5
  <2>7. k \in KeysOf(R, d + 1)
    <3>1. \A c : RankOf(R, k) \div ChunkRows = c - 1 => k \in KeysOf(R, c)
      BY DEF KeysOf
    <3>2. RankOf(R, k) \div ChunkRows = d
      BY DEF d, r, C
    <3>3. PICK c : c = d + 1
      OBVIOUS
    <3>4. d = c - 1
      BY <2>2, <3>3
    <3>5. RankOf(R, k) \div ChunkRows = c - 1
      BY <3>2, <3>4, Zenon
    <3>6. k \in KeysOf(R, c)
      BY <3>1, <3>5, Zenon
    <3> QED  BY <3>3, <3>6, Zenon
  <2> QED  BY <2>3, <2>6, <2>7
<1>5. ASSUME NEW c \in 1..m PROVE KeysOf(R, c) # {}
  <2> HIDE DEF n
  <2> DEFINE d == c - 1
             r == C * d
  <2>1. c \in Nat /\ 1 <= c /\ c <= m /\ d \in Nat /\ c = d + 1 /\ d < m
    BY <1>2
  <2>2. C * d + C <= C * m
    <3>1. ASSUME NEW x \in Nat, NEW y \in Nat, x < y PROVE C * x + C <= C * y
      BY <1>1, <3>1
    <3> HIDE DEF d
    <3> QED  BY <1>2, <2>1, <3>1
  <2>3. r \in Nat
    <3> HIDE DEF d
    <3> QED  BY <1>1, <2>1
  <2> HIDE DEF d
  <2>4. r <= n - 1
    BY <1>1, <1>2, <2>1, <2>2
  <2>5. r \div C = d
    <3>1. r < C * d + C /\ C * d <= r
      BY <1>1, <2>1, <2>3
    <3> HIDE DEF r
    <3> QED  BY <1>1, <2>1, <2>3, <3>1, DivUnique
  <2> HIDE DEF r
  <2>6. r \in 0..(n - 1)
    BY <1>1, <2>3, <2>4
  <2>7. PICK k \in Present(R) : RankOf(R, k) = r
    BY <2>6, Ranks DEF n
  <2>8. k \in KeysOf(R, c)
    BY <2>5, <2>7 DEF KeysOf, C, d
  <2> QED  BY <2>8
<1>6. \A c : KeysOf(R, c) \subseteq Present(R)
  BY DEF KeysOf
<1>7. ASSUME NEW c \in 1..m, NEW d \in 1..m, c < d,
             NEW j \in KeysOf(R, c), NEW k \in KeysOf(R, d)
      PROVE  j < k
  <2>1. j \in Nat /\ k \in Nat /\ j \in Present(R) /\ k \in Present(R)
    BY <1>1, <1>6
  <2>2. RankOf(R, j) \in Nat /\ RankOf(R, k) \in Nat
    BY <1>1, <1>3, <2>1
  <2>3. RankOf(R, j) \div C = c - 1 /\ RankOf(R, k) \div C = d - 1
    BY DEF KeysOf, C
  <2>4. ASSUME k <= j PROVE FALSE
    <3>1. RankOf(R, k) <= RankOf(R, j)
      BY <2>1, <2>4, Ranks
    <3>2. RankOf(R, k) \div C <= RankOf(R, j) \div C
      BY <1>1, <2>2, <3>1, DivMonotone
    <3>3. c \in Int /\ d \in Int
      BY <1>2
    <3>4. d - 1 <= c - 1
      BY <2>3, <3>2
    <3> QED  BY <1>7, <3>3, <3>4
  <2> QED  BY <2>1, <2>4
<1> QED
  <2> HIDE DEF n
  <2> QED  BY <1>2, <1>4, <1>5, <1>6, <1>7 DEF m

Op == {"Eq", "Ne", "Lt", "Le", "Gt", "Ge"}
Bounds == SUBSET [op : Op, rhs : Int]

\* The numbers of a chunk are between its least and its greatest.
LEMMA ChunkNumbers ==
  ASSUME NEW R \in Rows, NEW c \in 1..ChunkCount(R), NEW k \in KeysOf(R, c), R[k] \in Num
  PROVE  LET z == Chunks(R)[c]
         IN  /\ z.nums /\ z.min \in Int /\ z.max \in Int
             /\ z.min <= R[k] /\ R[k] <= z.max
<1> DEFINE V == NumsOf(R, c)
<1>1. KeysOf(R, c) \subseteq Present(R)
  BY DEF KeysOf
<1>2. R[k] \in V
  BY ValueAssumption DEF NumsOf, Cell
<1>3. V \subseteq Num
  <2> SUFFICES ASSUME NEW j \in KeysOf(R, c), R[j] \notin {Null, Misread}
               PROVE  R[j] \in Num
    BY DEF NumsOf
  <2>1. j \in Key /\ R[j] # Absent
    BY <1>1 DEF Present
  <2>2. R[j] \in Cell \cup {Absent, Misread}
    BY <2>1 DEF Rows
  <2> QED  BY <2>1, <2>2 DEF Cell
<1>4. IsFiniteSet(V)
  <2>1. IsFiniteSet(KeysOf(R, c))
    BY <1>1, PresentFacts, FS_Subset
  <2>2. IsFiniteSet({R[j] : j \in KeysOf(R, c)})
    <3> DEFINE g == [j \in KeysOf(R, c) |-> R[j]]
    <3>1. g \in Surjection(KeysOf(R, c), {R[j] : j \in KeysOf(R, c)})
      BY DEF Surjection
    <3> QED  BY <2>1, <3>1, FS_Surjection
  <2>3. V \subseteq {R[j] : j \in KeysOf(R, c)}
    BY DEF NumsOf
  <2> HIDE DEF V
  <2> QED  BY <2>2, <2>3, FS_Subset
<1> HIDE DEF V
<1>5. V \in SUBSET Int /\ V # {}
  BY <1>2, <1>3, ValueAssumption
<1>6. Min(V) \in V /\ Max(V) \in V /\ Min(V) <= R[k] /\ R[k] <= Max(V)
  BY <1>2, <1>4, <1>5, MinMax
<1>7. Chunks(R)[c] = ChunkRecord(R, c)
  BY ChunksAre
<1>8. Chunks(R)[c].nums = (V # {}) /\ Chunks(R)[c].min = Min(V) /\ Chunks(R)[c].max = Max(V)
  BY <1>5, <1>7 DEF ChunkRecord, V
<1> QED  BY <1>5, <1>6, <1>8

\* chunk_survives keeps the chunk of every row that matches.
LEMMA MatchSurvives ==
  ASSUME NEW R \in Rows, NEW bounds \in Bounds, NEW k \in Present(R),
         \A b \in bounds : R[k] \in Num /\ Compare(b.op, R[k], b.rhs)
  PROVE  ChunkSurvives(Chunks(R)[ChunkOf(R, k)], bounds)
<1> DEFINE z == Chunks(R)[ChunkOf(R, k)]
<1> SUFFICES ASSUME NEW b \in bounds
             PROVE  z.nums /\
                    CASE b.op = "Gt" -> z.max > b.rhs [] b.op = "Ge" -> z.max >= b.rhs
                      [] b.op = "Lt" -> z.min < b.rhs [] b.op = "Le" -> z.min <= b.rhs
                      [] b.op = "Eq" -> z.min <= b.rhs /\ b.rhs <= z.max
                      [] b.op = "Ne" -> ~(z.min = b.rhs /\ z.max = b.rhs)
  BY DEF ChunkSurvives
<1> DEFINE v == R[k]
<1>1. v \in Num /\ Compare(b.op, v, b.rhs) /\ v \in Int
  BY ValueAssumption
<1>2. z.nums /\ z.min \in Int /\ z.max \in Int /\ z.min <= v /\ v <= z.max
  BY <1>1, ChunkFacts, ChunkNumbers
<1>3. b.op \in Op /\ b.rhs \in Int
  BY DEF Bounds
<1> HIDE DEF z, v
<1>4. CASE b.op = "Eq"
  BY <1>1, <1>2, <1>3, <1>4 DEF Compare
<1>5. CASE b.op = "Ne"
  BY <1>1, <1>2, <1>3, <1>5 DEF Compare
<1>6. CASE b.op = "Lt"
  BY <1>1, <1>2, <1>3, <1>6 DEF Compare
<1>7. CASE b.op = "Le"
  BY <1>1, <1>2, <1>3, <1>7 DEF Compare
<1>8. CASE b.op = "Gt"
  BY <1>1, <1>2, <1>3, <1>8 DEF Compare
<1>9. CASE b.op = "Ge"
  BY <1>1, <1>2, <1>3, <1>9 DEF Compare
<1> QED  BY <1>3, <1>4, <1>5, <1>6, <1>7, <1>8, <1>9 DEF Op

\* surviving_ranges covers every row of a surviving chunk.
LEMMA SurvivorCovered ==
  ASSUME NEW R, NEW bounds, NEW k \in Present(R),
         ChunkSurvives(Chunks(R)[ChunkOf(R, k)], bounds)
  PROVE  \E r \in SurvivingRanges(Chunks(R), bounds) : r.from <= k /\ k < r.to
<1> DEFINE ch == Chunks(R)
           n == Len(ch)
           c == ChunkOf(R, k)
           lives(i) == ChunkSurvives(ch[i], bounds)
           run(i, j) == /\ \A m \in i..j : lives(m)
                        /\ i > 1 => ~lives(i - 1)
                        /\ j < n => ~lives(j + 1)
           to(j) == IF j < n THEN ch[j + 1].start ELSE Top
<1>1. /\ n = ChunkCount(R) /\ n \in Nat /\ c \in 1..n /\ k \in KeysOf(R, c)
      /\ \A i \in 1..n : ch[i].start = Min(KeysOf(R, i))
  BY ChunksAre, ChunkFacts DEF ChunkRecord
<1>2. \A i \in 1..n : ch[i].start \in KeysOf(R, i) /\ \A j \in KeysOf(R, i) : ch[i].start <= j
  <2> SUFFICES ASSUME NEW i \in 1..n
               PROVE  /\ Min(KeysOf(R, i)) \in KeysOf(R, i)
                      /\ \A j \in KeysOf(R, i) : Min(KeysOf(R, i)) <= j
    BY <1>1
  <2>1. KeysOf(R, i) # {} /\ KeysOf(R, i) \subseteq Present(R)
    BY <1>1, ChunkFacts
  <2>2. KeysOf(R, i) \in SUBSET Int /\ IsFiniteSet(KeysOf(R, i))
    BY <2>1, PresentFacts, FS_Subset
  <2> QED  BY <2>1, <2>2, MinMax
<1>3. k \in Nat /\ k < Top /\ \A i \in 1..n : ch[i].start \in Nat
  <2>1. k \in Key
    BY DEF Present
  <2>2. \A i \in 1..n : KeysOf(R, i) \subseteq Nat
    BY <1>1, ChunkFacts, PresentFacts
  <2> QED  BY <1>2, <2>1, <2>2, KeyAssumption
<1>4. lives(c)
  OBVIOUS
<1>5. \A i, j \in 1..n : i < j => \A a \in KeysOf(R, i), b \in KeysOf(R, j) : a < b
  BY <1>1, ChunkFacts
<1>6. SurvivingRanges(ch, bounds) =
        {[from |-> ch[p[1]].start, to |-> to(p[2])] :
           p \in {p \in (1..n) \X (1..n) : p[1] <= p[2] /\ run(p[1], p[2])}}
  BY DEF SurvivingRanges
<1> HIDE DEF lives, ch, n, c
<1>7. PICK i \in 1..c : (\A m \in i..c : lives(m)) /\ (i > 1 => ~lives(i - 1))
  <2> DEFINE T == {x \in 1..c : \A m \in x..c : lives(m)}
  <2>1. c \in T /\ T \in SUBSET Nat
    BY <1>1, <1>4
  <2>2. PICK i \in T : \A x \in T : i <= x
    <3> HIDE DEF T
    <3> QED  BY <2>1, LeastNatural
  <2>3. i \in 1..c /\ \A m \in i..c : lives(m)
    BY <2>2
  <2>4. ASSUME i > 1, lives(i - 1) PROVE FALSE
    <3>1. i - 1 \in 1..c
      BY <1>1, <2>3, <2>4
    <3>2. \A m \in (i - 1)..c : m = i - 1 \/ m \in i..c
      BY <1>1, <2>3
    <3>3. i - 1 \in T
      BY <2>3, <2>4, <3>1, <3>2
    <3> QED  BY <1>1, <2>2, <2>3, <3>3
  <2> QED  BY <2>3, <2>4
<1>8. PICK j \in c..n : (\A m \in c..j : lives(m)) /\ (j < n => ~lives(j + 1))
  <2> DEFINE D == {x \in c..n : ~lives(x)}
  <2>1. CASE D = {}
    <3>1. n \in c..n /\ ~(n < n) /\ \A m \in c..n : lives(m)
      BY <1>1, <2>1
    <3> QED  BY <3>1
  <2>2. CASE D # {}
    <3>1. D \in SUBSET Nat
      BY <1>1
    <3>2. PICK d \in D : \A x \in D : d <= x
      BY <2>2, <3>1, LeastNatural
    <3>3. d \in c..n /\ ~lives(d) /\ d # c /\ d \in Nat
      BY <1>1, <1>4, <3>2
    <3>4. d - 1 \in c..n /\ d - 1 + 1 = d
      BY <1>1, <3>3
    <3>5. \A m \in c..(d - 1) : lives(m)
      <4> SUFFICES ASSUME NEW m \in c..(d - 1), ~lives(m) PROVE FALSE
        OBVIOUS
      <4>1. m \in c..n /\ m < d /\ m \in Nat
        BY <1>1, <3>3
      <4>2. m \in D
        BY <4>1
      <4> QED  BY <3>2, <3>3, <4>1, <4>2
    <3> QED  BY <3>3, <3>4, <3>5
  <2> QED  BY <2>1, <2>2
<1>9. i \in 1..n /\ j \in 1..n /\ i <= j /\ i <= c /\ c <= j /\ c \in Nat
  BY <1>1, <1>7, <1>8
<1>10. run(i, j)
  <2>1. \A m \in i..j : m \in i..c \/ m \in c..j
    BY <1>1, <1>9
  <2> QED  BY <1>7, <1>8, <2>1
<1> DEFINE r == [from |-> ch[i].start, to |-> to(j)]
<1>11. r \in SurvivingRanges(ch, bounds)
  <2> HIDE DEF run, to
  <2>1. <<i, j>> \in {p \in (1..n) \X (1..n) : p[1] <= p[2] /\ run(p[1], p[2])}
    BY <1>9, <1>10
  <2> QED  BY <1>6, <2>1
<1>12. ch[i].start <= k
  <2>1. CASE i = c
    BY <1>1, <1>2, <2>1
  <2>2. CASE i < c
    <3>1. ch[i].start < k
      BY <1>1, <1>2, <1>5, <1>9, <2>2
    <3> QED  BY <1>3, <1>9, <3>1
  <2> QED  BY <1>9, <2>1, <2>2
<1>13. k < to(j)
  <2>1. CASE j < n
    <3>1. j + 1 \in 1..n /\ c < j + 1
      BY <1>1, <1>9, <2>1
    <3>2. k < ch[j + 1].start
      BY <1>1, <1>2, <1>5, <3>1
    <3> QED  BY <2>1, <3>2
  <2>2. CASE ~(j < n)
    BY <1>3, <2>2
  <2> QED  BY <2>1, <2>2
<1> QED
  <2>1. r.from = ch[i].start /\ r.to = to(j)
    OBVIOUS
  <2> HIDE DEF r, to
  <2> QED  BY <1>11, <1>12, <1>13, <2>1 DEF ch

\* A scan of some ranges selects what a scan of all does, if they hold every row that
\* matches.
LEMMA RangesSuffice ==
  ASSUME NEW D, NEW f, NEW ranges,
         \A k \in Key : D[k] # Absent /\ Matches(f, k, D[k]) =>
           \E r \in ranges : r.from <= k /\ k < r.to
  PROVE  Selected(f, Within(D, ranges)) = Selected(f, D)
<1> DEFINE W == Within(D, ranges)
<1>1. \A k \in Key : W[k] = IF \E r \in ranges : r.from <= k /\ k < r.to THEN D[k] ELSE Absent
  BY DEF Within
<1>2. ASSUME NEW k \in Key, D[k] # Absent, Matches(f, k, D[k]) PROVE W[k] = D[k]
  BY <1>1, <1>2
<1>3. ASSUME NEW k \in Key PROVE W[k] = D[k] \/ W[k] = Absent
  BY <1>1
<1> HIDE DEF W
<1>4. ASSUME NEW k \in Key
      PROVE  (IF W[k] # Absent /\ Matches(f, k, W[k]) THEN W[k] ELSE Absent)
               = (IF D[k] # Absent /\ Matches(f, k, D[k]) THEN D[k] ELSE Absent)
  BY <1>2, <1>3
<1>5. Selected(f, W) = Selected(f, D)
  BY <1>4, Zenon DEF Selected
<1> QED  BY <1>5 DEF W

FilterOK(f) == f.bounds \in Bounds

\* Skipping by a zone map changes nothing: neither by the map of the rows as the query
\* decodes them, nor by one of the rows as they are.
LEMMA SkippingIsExact ==
  ASSUME NEW R \in Rows, NEW D \in Rows, Present(R) = Present(D),
         \A k \in Key : D[k] \in Num => R[k] = D[k],
         NEW f, FilterOK(f)
  PROVE  Selected(f, Within(D, SurvivingRanges(Chunks(R), f.bounds))) = Selected(f, D)
<1>1. ASSUME NEW k \in Key, D[k] # Absent, Matches(f, k, D[k])
      PROVE  \E r \in SurvivingRanges(Chunks(R), f.bounds) : r.from <= k /\ k < r.to
  <2>1. k \in Present(R)
    BY <1>1 DEF Present
  <2>2. \A b \in f.bounds : R[k] \in Num /\ Compare(b.op, R[k], b.rhs)
    BY <1>1 DEF Matches
  <2>3. ChunkSurvives(Chunks(R)[ChunkOf(R, k)], f.bounds)
    BY <2>1, <2>2, MatchSurvives DEF FilterOK
  <2> QED  BY <2>1, <2>3, SurvivorCovered
<1> QED  BY <1>1, RangesSuffice

----------------------------------------------------------------------------
(* Where a scan is cut *)

\* The parts leave out no key from the first row on that the filter asks for.
LEMMA SplitCovers ==
  ASSUME NEW R, Present(R) # {}, NEW f, f.key \in {<< >>} \cup (Int \X Int),
         NEW k \in Key, Min(Present(R)) <= k,
         f.key # << >> => f.key[1] <= k /\ k <= f.key[2]
  PROVE  \/ \E r \in SplitRanges(R, f) : r.from <= k /\ k < r.to
         \/ f.key # << >> /\ SplitRanges(R, f) = {}
            /\ \A j \in Present(R) : ~(f.key[1] <= j /\ j <= f.key[2])
<1> DEFINE first == Min(Present(R))
           last == Max(Present(R))
           lo == IF f.key = << >> \/ f.key[1] < first THEN first ELSE f.key[1]
           hi == IF f.key = << >> \/ f.key[2] > last THEN last ELSE f.key[2]
           end == IF hi >= last THEN Top ELSE hi + 1
           part(i) == IF i = Workers THEN [Cut(lo, hi, i) EXCEPT !.to = end] ELSE Cut(lo, hi, i)
           parts == {r \in {part(i) : i \in 1..Workers} : r.from < r.to}
           covered(S) == \E r \in S : r.from <= k /\ k < r.to
<1>1. /\ first \in Int /\ last \in Int /\ first <= k /\ k \in Nat /\ k < Top /\ Top \in Nat
      /\ \A j \in Present(R) : j \in Int /\ first <= j /\ j <= last
      /\ Workers \in Nat /\ Workers > 0
  BY PresentFacts, MinMax, KeyAssumption, SizeAssumption
<1>2. f.key # << >> => f.key[1] \in Int /\ f.key[2] \in Int
  OBVIOUS
<1>3. SplitRanges(R, f) =
        IF Present(R) = {} THEN Whole
        ELSE IF lo > hi THEN {}
        ELSE IF hi - lo < Workers \/ hi = lo
        THEN IF f.key = << >> THEN Whole ELSE {[from |-> lo, to |-> end]}
        ELSE IF f.key = << >> /\ Cardinality(parts) < 2 THEN Whole ELSE parts
  BY DEF SplitRanges
<1> HIDE DEF first, last
<1>4. lo \in Int /\ hi \in Int /\ end \in Int /\ lo <= k
  BY <1>1, <1>2
<1>5. k < end
  BY <1>1, <1>2
<1>6. covered(Whole)
  <2> DEFINE w == [from |-> 0, to |-> Top]
  <2>1. w \in Whole /\ w.from = 0 /\ w.to = Top
    BY DEF Whole
  <2> HIDE DEF w
  <2> QED  BY <1>1, <2>1
<1>7. CASE lo > hi
  <2>1. SplitRanges(R, f) = {}
    BY <1>3, <1>7
  <2>2. f.key # << >>
    <3>1. first <= last
      BY <1>1
    <3> QED  BY <1>1, <1>7, <3>1
  <2>3. ASSUME NEW j \in Present(R), f.key[1] <= j, j <= f.key[2] PROVE FALSE
    BY <1>1, <1>2, <1>7, <2>2, <2>3
  <2> QED  BY <2>1, <2>2, <2>3
<1> DEFINE one == [from |-> lo, to |-> end]
<1>8. covered({one})
  <2>1. one.from = lo /\ one.to = end
    OBVIOUS
  <2> HIDE DEF one, lo, end, hi
  <2> QED  BY <1>4, <1>5, <2>1
<1>9. ASSUME lo <= hi PROVE covered(parts)
  <2> HIDE DEF lo, hi, end
  <2> DEFINE upto(i) == lo + ((hi - lo) * i) \div Workers
             T == {i \in 1..Workers : i = Workers \/ k < upto(i)}
  <2>1. \A i \in 0..Workers : upto(i) \in Int
    <3> SUFFICES ASSUME NEW i \in 0..Workers PROVE upto(i) \in Int
      OBVIOUS
    <3>1. hi - lo \in Nat /\ i \in Nat
      BY <1>1, <1>4, <1>9
    <3>2. (hi - lo) * i \in Nat
      BY <3>1
    <3>3. ((hi - lo) * i) \div Workers \in Nat
      BY <1>1, <3>2, DivFacts
    <3> QED  BY <1>4, <3>3
  <2>2. upto(0) = lo
    <3>1. (hi - lo) * 0 = 0
      BY <1>4
    <3>2. 0 \div Workers = 0
      BY <1>1
    <3> QED  BY <1>4, <3>1, <3>2
  <2>3. \A i \in 1..Workers : Cut(lo, hi, i) = [from |-> upto(i - 1), to |-> upto(i)]
    BY DEF Cut
  <2>4. Workers \in T /\ T \in SUBSET Nat
    BY <1>1
  <2>5. PICK i \in T : \A x \in T : i <= x
    <3> HIDE DEF T
    <3> QED  BY <2>4, LeastNatural
  <2>6. i \in 1..Workers /\ i \in Nat /\ i - 1 \in 0..Workers /\ (i = Workers \/ k < upto(i))
    BY <1>1, <2>5
  <2> HIDE DEF upto
  <2>7. upto(i - 1) <= k
    <3>1. CASE i = 1
      BY <1>4, <2>2, <3>1
    <3>2. CASE i # 1
      <4>1. i - 1 \in 1..Workers /\ i - 1 # Workers /\ ~(i <= i - 1)
        BY <1>1, <2>6, <3>2
      <4>2. ~(k < upto(i - 1))
        BY <2>5, <4>1
      <4> QED  BY <1>1, <2>1, <2>6, <4>2
    <3> QED  BY <3>1, <3>2
  <2>8. part(i).from = upto(i - 1) /\ part(i).to = (IF i = Workers THEN end ELSE upto(i))
    BY <2>3, <2>6
  <2>9. k < part(i).to
    BY <1>5, <2>6, <2>8
  <2>10. part(i).from < part(i).to /\ part(i).from <= k
    BY <1>1, <1>4, <2>1, <2>6, <2>7, <2>8, <2>9
  <2>11. part(i) \in parts
    <3> HIDE DEF part
    <3> QED  BY <2>6, <2>10
  <2> QED
    <3> HIDE DEF part, parts
    <3> QED  BY <2>9, <2>10, <2>11
<1> HIDE DEF covered, lo, hi, end, parts
<1>10. CASE ~(lo > hi)
  <2>1. covered(parts)
    BY <1>4, <1>9, <1>10
  <2>2. SplitRanges(R, f) \in {Whole, {one}, parts}
    BY <1>3, <1>10 DEF one
  <2>3. covered(SplitRanges(R, f))
    BY <1>6, <1>8, <2>1, <2>2
  <2> QED  BY <2>3 DEF covered
<1> QED  BY <1>7, <1>10

\* A split by primary key reads every row that was there when the bounds were read.
THEOREM SplitReadsEveryRow ==
  ASSUME NEW R, NEW f, f.key \in {<< >>} \cup (Int \X Int),
         NEW k \in Present(R), f.key # << >> => f.key[1] <= k /\ k <= f.key[2]
  PROVE  \E r \in SplitRanges(R, f) : r.from <= k /\ k < r.to
<1>1. k \in Key /\ Present(R) # {}
  BY DEF Present
<1>2. Min(Present(R)) <= k
  BY <1>1, PresentFacts, MinMax
<1> QED  BY <1>1, <1>2, SplitCovers

----------------------------------------------------------------------------
(* The inductive invariant *)

Content == [def : Nat, rows : [Key -> Cell \cup {Absent}]]
ColumnEntry == [on : {TRUE}, wseq : Nat, rows : Rows, bytes : Nat, used : Nat, def : Nat]
ChunkLists == {Chunks(R) : R \in Rows} \cup {<< >>}
ZoneEntry == [on : {TRUE}, wseq : Nat, chunks : ChunkLists, def : Nat]
Filters == UNION {Filter[t] : t \in Table}
RangeSets == {SplitRanges(R, f) : R \in Rows, f \in Filters} \cup {Whole, {}}
CacheSteps == {"lookup", "build", "recheck", "store"}
ZoneSteps == {"zlookup", "zbuild", "zrecheck", "zstore", "zscan", "zcheck"}
Query ==
  [pc : {"epoch", "zepoch", "pk", "bounds", "scan", "done"} \cup CacheSteps \cup ZoneSteps,
   table : Table, f : Filters, def : Nat, since : Nat, epoch : Nat, rows : Rows,
   ranges : RangeSets, chunks : ChunkLists, scanned : Nat, trust : BOOLEAN]

StateInv == states \in Seq([Table -> Content]) /\ Len(states) >= 1

\* Every entry holds the table of the state its write sequence numbers, as the definition
\* it was built with decodes it.
ColumnOK(e, t) ==
  /\ e.wseq \in 1..Len(states) /\ e.used < tick
  /\ e.rows = Decoded(e.def, states[e.wseq][t])
ZoneOK(e, t) ==
  /\ e.wseq \in 1..Len(states)
  /\ e.chunks = Chunks(Decoded(e.def, states[e.wseq][t]))
ColumnInv ==
  /\ tick \in Nat /\ columns \in [Table -> ColumnEntry \cup {NoEntry}]
  /\ \A t \in Table : columns[t].on => ColumnOK(columns[t], t)
ZoneInv ==
  /\ zones \in [Table -> ZoneEntry \cup {NoEntry}]
  /\ \A t \in Table : zones[t].on => ZoneOK(zones[t], t)

\* The table as query x saw it numbered, and whether a commit came since.
Numbered(x) == states[x.epoch][x.table]
Overtaken(x) == x.epoch < Len(states)
MissedBy(x) ==
  x.scanned > 0 /\
    \E k \in Present(states[x.scanned][x.table].rows) :
      /\ x.f.key # << >> => x.f.key[1] <= k /\ k <= x.f.key[2]
      /\ \A r \in x.ranges : ~(r.from <= k /\ k < r.to)
Answered(x) ==
  \E n \in x.since..Len(states) :
    x.rows = Selected(x.f, Decoded(x.def, states[n][x.table]))

\* What a query has read is of the state it numbered, or a commit came since and it will
\* find that out before it uses it.
StepOK(x) ==
  /\ x.pc \in CacheSteps \cup {"epoch"} => x.f.key = << >> /\ x.f.bounds = {}
  /\ x.pc \in CacheSteps \cup ZoneSteps => x.since <= x.epoch
  /\ x.pc = "recheck" => x.rows = Decoded(x.def, Numbered(x)) \/ Overtaken(x)
  /\ x.pc = "store" => x.rows = Decoded(x.def, Numbered(x))
  /\ x.pc = "zrecheck" => x.chunks = Chunks(Decoded(x.def, Numbered(x))) \/ Overtaken(x)
  /\ x.pc = "zstore" => x.chunks = Chunks(Decoded(x.def, Numbered(x)))
  /\ x.pc = "zscan" /\ x.trust =>
       x.chunks \in {Chunks(Numbered(x).rows), Chunks(Decoded(x.def, Numbered(x)))}
  /\ x.pc = "zcheck" /\ x.trust =>
       x.rows = Selected(x.f, Decoded(x.def, Numbered(x))) \/ Overtaken(x)
  /\ x.pc = "done" /\ x.trust /\ ~MissedBy(x) => Answered(x)
QueryOK(x) ==
  /\ x.since \in 1..Len(states) /\ x.epoch \in 0..Len(states) /\ x.scanned \in 0..Len(states)
  /\ x.f \in Filter[x.table]
  /\ StepOK(x)
QueryInv ==
  /\ q \in [Session -> Query \cup {Idle}]
  /\ \A s \in Session : q[s] # Idle => QueryOK(q[s])

IInv == StateInv /\ ColumnInv /\ ZoneInv /\ QueryInv

----------------------------------------------------------------------------
(* Rows as a query reads them *)

\* Decoding keeps the rows and their numbers, and all of them under the right definition.
LEMMA DecodedFacts ==
  ASSUME NEW d, NEW c \in Content
  PROVE  /\ Decoded(d, c) \in Rows /\ c.rows \in Rows
         /\ Present(Decoded(d, c)) = Present(c.rows)
         /\ \A k \in Key : Decoded(d, c)[k] \in Num => c.rows[k] = Decoded(d, c)[k]
         /\ d = c.def => Decoded(d, c) = c.rows
<1>1. c.rows \in [Key -> Cell \cup {Absent}]
  BY DEF Content
<1>2. Decoded(d, c) = [k \in Key |-> IF c.rows[k] = Absent \/ c.def = d THEN c.rows[k] ELSE Misread]
  BY DEF Decoded
<1>3. Decoded(d, c) \in Rows /\ c.rows \in Rows
  BY <1>1, <1>2 DEF Rows
<1>4. Misread # Absent /\ Misread \notin Num
  BY ValueAssumption DEF Cell
<1>5. \A k \in Key : Decoded(d, c)[k] = Absent <=> c.rows[k] = Absent
  BY <1>2, <1>4
<1>6. Present(Decoded(d, c)) = Present(c.rows)
  BY <1>5 DEF Present
<1>7. \A k \in Key : Decoded(d, c)[k] \in Num => c.rows[k] = Decoded(d, c)[k]
  BY <1>2, <1>4
<1>8. d = c.def => Decoded(d, c) = c.rows
  BY <1>1, <1>2
<1> QED  BY <1>3, <1>6, <1>7, <1>8

\* Selecting and cutting keep the type; a query without a filter selects every row.
LEMMA SelectedFacts ==
  ASSUME NEW R \in Rows, NEW f
  PROVE  /\ Selected(f, R) \in Rows
         /\ \A ranges : Within(R, ranges) \in Rows
         /\ f.key = << >> /\ f.bounds = {} => Selected(f, R) = R
<1>1. Selected(f, R) \in Rows
  BY DEF Selected, Rows
<1>2. \A ranges : Within(R, ranges) \in Rows
  BY DEF Within, Rows
<1>3. ASSUME f.key = << >>, f.bounds = {} PROVE Selected(f, R) = R
  <2>1. \A k : Matches(f, k, R[k])
    BY <1>3 DEF Matches
  <2> QED  BY <2>1 DEF Selected, Rows
<1> QED  BY <1>1, <1>2, <1>3

----------------------------------------------------------------------------
(* Steps *)

\* Every committed state has its type; the last one is the present.
LEMMA NowFacts ==
  ASSUME IInv
  PROVE  /\ \A n \in 1..Len(states) : states[n] \in [Table -> Content]
         /\ Len(states) \in Nat /\ Len(states) \in 1..Len(states)
         /\ \A t \in Table : Now(t) = states[Len(states)][t] /\ Now(t) \in Content
BY DEF IInv, StateInv, Now

\* A query that is not idle.
LEMMA Active ==
  ASSUME IInv, NEW s \in Session, q[s].pc # "idle"
  PROVE  q[s] \in Query /\ QueryOK(q[s]) /\ q[s] # Idle
BY DEF IInv, QueryInv, Idle

\* The filter of a query.
LEMMA FilterFacts ==
  ASSUME NEW t \in Table, NEW f \in Filter[t]
  PROVE  f \in Filters /\ FilterOK(f) /\ f.key \in {<< >>} \cup (Int \X Int)
BY FilterAssumption DEF Filters, FilterOK, Bounds, Op

\* One query takes a step; the committed states remain.
LEMMA QueryMoves ==
  ASSUME IInv, NEW s \in Session, NEW y, y = Idle \/ (y \in Query /\ QueryOK(y)),
         q' = [q EXCEPT ![s] = y], states' = states
  PROVE  QueryInv'
<1>1. q \in [Session -> Query \cup {Idle}] /\ \A u \in Session : q[u] # Idle => QueryOK(q[u])
  BY DEF IInv, QueryInv
<1>2. q' \in [Session -> Query \cup {Idle}]
  BY <1>1
<1>3. \A u \in Session : q'[u] # Idle => QueryOK(q'[u])
  BY <1>1
<1>4. ASSUME NEW u \in Session, q'[u] # Idle PROVE QueryOK(q[u])'
  <2>1. QueryOK(q'[u])
    BY <1>3, <1>4
  <2> QED  BY <2>1, states' = states
           DEF QueryOK, StepOK, Numbered, Overtaken, MissedBy, Answered
<1> QED  BY <1>2, <1>4 DEF QueryInv, Idle

\* A step that commits and stores nothing leaves states and entries as they are.
LEMMA EntriesRemain ==
  ASSUME IInv, UNCHANGED <<states, columns, tick, zones>>
  PROVE  StateInv' /\ ColumnInv' /\ ZoneInv'
BY DEF IInv, StateInv, ColumnInv, ZoneInv, ColumnOK, ZoneOK, NoEntry

\* A query starts with the definition and the state of the moment, and has read nothing.
LEMMA StartInv ==
  ASSUME IInv, NEW s \in Session, NEW t \in Table, NEW f \in Filter[t], Start(s, t, f)
  PROVE  IInv'
<1> DEFINE y == [pc |-> IF f.key # << >> THEN "pk" ELSE IF f.bounds = {} THEN "epoch" ELSE "zepoch",
                 table |-> t, f |-> f, def |-> Now(t).def, since |-> Len(states),
                 epoch |-> 0, rows |-> NoRows, ranges |-> {}, chunks |-> << >>,
                 scanned |-> 0, trust |-> TRUE]
<1>1. q' = [q EXCEPT ![s] = y] /\ UNCHANGED <<states, columns, tick, zones>>
  BY DEF Start
<1>2. f \in Filters /\ Now(t).def \in Nat /\ NoRows \in Rows /\ {} \in RangeSets
      /\ << >> \in ChunkLists /\ Len(states) \in Nat /\ Len(states) \in 1..Len(states)
  BY FilterFacts, NowFacts DEF Content, NoRows, Rows, RangeSets, ChunkLists
<1>3. y.pc \in {"pk", "epoch", "zepoch"} /\ (y.pc = "epoch" => f.key = << >> /\ f.bounds = {})
  OBVIOUS
<1>4. y \in Query
  BY <1>2, <1>3 DEF Query
<1>5. y.table = t /\ y.f = f /\ y.since = Len(states) /\ y.epoch = 0 /\ y.scanned = 0
  OBVIOUS
<1> HIDE DEF y
<1>6. StepOK(y)
  BY <1>3, <1>5 DEF StepOK, CacheSteps, ZoneSteps
<1>7. QueryOK(y)
  BY <1>2, <1>5, <1>6 DEF QueryOK
<1> QED  BY <1>1, <1>4, <1>7, QueryMoves, EntriesRemain DEF IInv

\* A step that only moves on: what it has read is as it should be at the next step.
LEMMA GotoInv ==
  ASSUME IInv, NEW s \in Session, q[s].pc # "idle",
         NEW pc \in {"build", "store", "bounds", "zbuild", "zstore", "zepoch", "zscan", "done"},
         Goto(s, pc), UNCHANGED <<states, columns, tick, zones>>,
         StepOK([q[s] EXCEPT !.pc = pc])
  PROVE  IInv'
<1> DEFINE x == q[s]
           y == [x EXCEPT !.pc = pc]
<1>1. x \in Query /\ QueryOK(x)
  BY Active
<1>2. q' = [q EXCEPT ![s] = y]
  BY DEF Goto, IInv, QueryInv
<1>3. y \in Query
  BY <1>1 DEF Query, CacheSteps, ZoneSteps
<1>4. /\ y.since = x.since /\ y.epoch = x.epoch /\ y.scanned = x.scanned
      /\ y.f = x.f /\ y.table = x.table
  BY <1>1 DEF Query
<1>5. StepOK(y)
  OBVIOUS
<1> HIDE DEF x, y
<1>6. QueryOK(y)
  BY <1>1, <1>4, <1>5 DEF QueryOK
<1> QED  BY <1>1, <1>2, <1>3, <1>6, QueryMoves, EntriesRemain DEF IInv

\* The number a query reads is that of a state after its start.
LEMMA ReadEpochInv ==
  ASSUME IInv, NEW s \in Session, ReadEpoch(s)
  PROVE  IInv'
<1> DEFINE x == q[s]
           y == [x EXCEPT !.epoch = WriteEpoch, !.pc = IF x.pc = "epoch" THEN "lookup" ELSE "zlookup"]
<1>1. x.pc \in {"epoch", "zepoch"} /\ x \in Query /\ QueryOK(x)
  BY Active DEF ReadEpoch
<1>2. q' = [q EXCEPT ![s] = y] /\ UNCHANGED <<states, columns, tick, zones>>
  BY DEF ReadEpoch, IInv, QueryInv
<1>3. Len(states) \in Nat
  BY NowFacts
<1>4. /\ y \in Query /\ y.since = x.since /\ y.epoch = Len(states) /\ y.scanned = x.scanned
      /\ y.f = x.f /\ y.table = x.table
      /\ y.pc = IF x.pc = "epoch" THEN "lookup" ELSE "zlookup"
  BY <1>1, <1>3 DEF Query, CacheSteps, ZoneSteps, WriteEpoch
<1> HIDE DEF x, y
<1>5. StepOK(y)
  BY <1>1, <1>3, <1>4 DEF QueryOK, StepOK, CacheSteps, ZoneSteps
<1>6. QueryOK(y)
  BY <1>1, <1>3, <1>4, <1>5 DEF QueryOK
<1> QED  BY <1>2, <1>4, <1>6, QueryMoves, EntriesRemain DEF IInv

\* An entry that carries the query's number and was built with the definition of that
\* state holds that state.
LEMMA LookupInv ==
  ASSUME IInv, NEW s \in Session, Lookup(s)
  PROVE  IInv'
<1> DEFINE x == q[s]
           t == x.table
           e == columns[t]
           rows == Decoded(x.def, [def |-> e.def, rows |-> e.rows])
           y == [x EXCEPT !.pc = "done", !.rows = rows, !.trust = Sound(t, e)]
<1>1. x.pc = "lookup" /\ x \in Query /\ QueryOK(x)
  BY Active DEF Lookup
<1>2. t \in Table /\ x.f \in Filter[t] /\ x.since \in 1..Len(states) /\ x.epoch \in 0..Len(states)
      /\ x.since <= x.epoch /\ x.f.key = << >> /\ x.f.bounds = {}
  BY <1>1 DEF Query, QueryOK, StepOK, CacheSteps
<1>3. CASE ~Fresh(e, x.epoch)
  <2>1. Goto(s, "build") /\ UNCHANGED <<states, columns, tick, zones>>
    BY <1>3 DEF Lookup
  <2> DEFINE z == [x EXCEPT !.pc = "build"]
  <2>2. z.pc = "build" /\ z.since = x.since /\ z.epoch = x.epoch /\ z.f = x.f
    BY <1>1 DEF Query
  <2> HIDE DEF z
  <2>3. StepOK(z)
    BY <1>2, <2>2 DEF StepOK, CacheSteps, ZoneSteps
  <2> QED  BY <1>1, <2>1, <2>3, GotoInv DEF z
<1>4. CASE Fresh(e, x.epoch)
  <2>1. /\ q' = [q EXCEPT ![s] = y] /\ columns' = [columns EXCEPT ![t].used = tick]
        /\ tick' = tick + 1 /\ UNCHANGED <<states, zones>>
    BY <1>4 DEF Lookup, IInv, QueryInv
  <2>2. e.on /\ e.wseq = x.epoch /\ e \in ColumnEntry /\ ColumnOK(e, t)
    BY <1>2, <1>4 DEF Fresh, IInv, ColumnInv, NoEntry
  <2>3. ColumnInv' /\ ZoneInv' /\ StateInv'
    <3>1. tick \in Nat /\ columns \in [Table -> ColumnEntry \cup {NoEntry}]
      BY DEF IInv, ColumnInv
    <3> DEFINE e2 == [e EXCEPT !.used = tick]
    <3>2. e2 \in ColumnEntry /\ e2.on = TRUE /\ e2.wseq = e.wseq /\ e2.rows = e.rows
          /\ e2.def = e.def /\ e2.used = tick
      BY <2>2, <3>1 DEF ColumnEntry
    <3>3. columns' = [columns EXCEPT ![t] = e2]
      BY <2>1, <3>1
    <3> HIDE DEF e2
    <3>4. columns' \in [Table -> ColumnEntry \cup {NoEntry}] /\ tick' \in Nat
      <4>1. tick' \in Nat
        BY <2>1, <3>1
      <4> HIDE DEF t
      <4>2. columns' \in [Table -> ColumnEntry \cup {NoEntry}]
        BY <3>1, <3>2, <3>3
      <4> QED  BY <4>1, <4>2
    <3>5. ASSUME NEW u \in Table, columns'[u].on PROVE ColumnOK(columns[u], u)'
      <4>1. CASE u = t
        <5>1. columns'[u] = e2
          BY <3>1, <3>3, <4>1
        <5> QED  BY <2>1, <2>2, <3>1, <3>2, <4>1, <5>1 DEF ColumnOK
      <4>2. CASE u # t
        <5>1. columns'[u] = columns[u] /\ columns[u].on
          BY <3>1, <3>3, <3>5, <4>2
        <5>2. ColumnOK(columns[u], u) /\ columns[u] \in ColumnEntry
          BY <5>1 DEF IInv, ColumnInv, NoEntry
        <5>3. columns[u].used \in Nat
          BY <5>2 DEF ColumnEntry
        <5> QED  BY <2>1, <3>1, <5>1, <5>2, <5>3 DEF ColumnOK
      <4> QED  BY <4>1, <4>2
    <3>6. ColumnInv'
      BY <3>4, <3>5 DEF ColumnInv
    <3>7. ZoneInv' /\ StateInv'
      BY <2>1 DEF IInv, ZoneInv, StateInv, ZoneOK
    <3> QED  BY <3>6, <3>7
  <2>4. rows \in Rows
    <3>1. e.rows \in Rows
      BY <2>2 DEF ColumnEntry
    <3>2. rows = [k \in Key |-> IF e.rows[k] = Absent \/ e.def = x.def THEN e.rows[k] ELSE Misread]
      BY DEF Decoded
    <3> HIDE DEF rows, e
    <3> QED  BY <3>1, <3>2 DEF Rows
  <2>5. Sound(t, e) \in BOOLEAN
    BY DEF Sound
  <2> HIDE DEF rows
  <2>6. /\ y.pc = "done" /\ y.rows = rows /\ y.since = x.since /\ y.epoch = x.epoch
        /\ y.scanned = x.scanned /\ y.f = x.f /\ y.table = t /\ y.def = x.def
        /\ (y.trust <=> Sound(t, e))
    BY <1>1, <2>5 DEF Query
  <2>7. y \in Query
    BY <1>1, <2>4, <2>5 DEF Query
  <2>8. ASSUME Sound(t, e) PROVE Answered(y)
    <3> DEFINE c == states[x.epoch][t]
    <3>1. x.epoch \in 1..Len(states) /\ c \in Content
      BY <1>2, NowFacts
    <3>2. e.def = c.def /\ e.rows = Decoded(e.def, c)
      BY <2>2, <2>8 DEF Sound, ColumnOK
    <3>3. e.rows = c.rows
      BY <3>1, <3>2, DecodedFacts
    <3>4. rows = Decoded(x.def, c)
      BY <3>2, <3>3 DEF rows, Decoded
    <3>5. Selected(x.f, rows) = rows
      BY <1>2, <2>4, SelectedFacts
    <3>6. x.epoch \in x.since..Len(states)
      BY <1>2, NowFacts
    <3> HIDE DEF x, y, rows, c, e
    <3>7. y.rows = Selected(y.f, Decoded(y.def, states[x.epoch][y.table]))
      BY <2>6, <3>4, <3>5 DEF c
    <3> QED  BY <2>6, <3>6, <3>7 DEF Answered
  <2> HIDE DEF x, y
  <2>9. StepOK(y)
    BY <2>6, <2>8 DEF StepOK, CacheSteps, ZoneSteps
  <2>10. QueryOK(y)
    BY <1>1, <2>6, <2>9 DEF QueryOK
  <2>11. QueryInv'
    BY <2>1, <2>7, <2>10, QueryMoves
  <2> QED  BY <2>3, <2>11 DEF IInv
<1> QED  BY <1>3, <1>4

\* What is built is of the last state; if that is not the numbered one, a commit came between.
LEMMA BuildInv ==
  ASSUME IInv, NEW s \in Session, Build(s)
  PROVE  IInv'
<1> DEFINE x == q[s]
           rows == Decoded(x.def, Now(x.table))
           y == [x EXCEPT !.pc = "recheck", !.rows = rows]
<1>1. x.pc = "build" /\ x \in Query /\ QueryOK(x)
  BY Active DEF Build
<1>2. x.table \in Table /\ Now(x.table) = states[Len(states)][x.table] /\ rows \in Rows
      /\ x.since <= x.epoch /\ x.f.key = << >> /\ x.f.bounds = {}
      /\ Len(states) \in Nat /\ x.epoch \in 0..Len(states)
  BY <1>1, NowFacts, DecodedFacts DEF Query, QueryOK, StepOK, CacheSteps
<1>3. CASE Cardinality(Present(rows)) > Budget
  <2>1. Goto(s, "bounds") /\ UNCHANGED <<states, columns, tick, zones>>
    BY <1>3 DEF Build
  <2> DEFINE z == [x EXCEPT !.pc = "bounds"]
  <2>2. z.pc = "bounds"
    BY <1>1 DEF Query
  <2> HIDE DEF z
  <2>3. StepOK(z)
    BY <2>2 DEF StepOK, CacheSteps, ZoneSteps
  <2> QED  BY <1>1, <2>1, <2>3, GotoInv DEF z
<1>4. CASE ~(Cardinality(Present(rows)) > Budget)
  <2>1. q' = [q EXCEPT ![s] = y] /\ UNCHANGED <<states, columns, tick, zones>>
    BY <1>4 DEF Build, IInv, QueryInv
  <2> HIDE DEF rows
  <2>2. /\ y \in Query /\ y.since = x.since /\ y.epoch = x.epoch /\ y.scanned = x.scanned
        /\ y.f = x.f /\ y.table = x.table /\ y.pc = "recheck" /\ y.rows = rows /\ y.def = x.def
    BY <1>1, <1>2 DEF Query, CacheSteps
  <2> HIDE DEF x, y
  <2>3. y.rows = Decoded(y.def, Numbered(y)) \/ Overtaken(y)
    BY <1>2, <2>2 DEF Numbered, Overtaken, rows
  <2>4. StepOK(y)
    BY <1>2, <2>2, <2>3 DEF StepOK, CacheSteps, ZoneSteps
  <2>5. QueryOK(y)
    BY <1>1, <2>2, <2>4 DEF QueryOK
  <2> QED  BY <2>1, <2>2, <2>5, QueryMoves, EntriesRemain DEF IInv
<1> QED  BY <1>3, <1>4

\* What was built is kept only if nothing was committed meanwhile.
LEMMA RecheckInv ==
  ASSUME IInv, NEW s \in Session, Recheck(s)
  PROVE  IInv'
<1> DEFINE x == q[s]
           pc == IF Unchanged(s) THEN "store" ELSE "bounds"
           z == [x EXCEPT !.pc = pc]
<1>1. x.pc = "recheck" /\ x \in Query /\ QueryOK(x)
  BY Active DEF Recheck
<1>2. Goto(s, pc) /\ UNCHANGED <<states, columns, tick, zones>>
  BY DEF Recheck
<1>3. /\ z.pc = pc /\ z.since = x.since /\ z.epoch = x.epoch /\ z.f = x.f /\ z.rows = x.rows
      /\ z.def = x.def /\ z.table = x.table
  BY <1>1 DEF Query
<1>4. Unchanged(s) => ~Overtaken(x)
  BY NowFacts DEF Unchanged, Overtaken, WriteEpoch
<1>5. pc \in {"store", "bounds"} /\ (pc = "store" => ~Overtaken(x))
  BY <1>4
<1> HIDE DEF x, z, pc
<1>6. StepOK(z)
  BY <1>1, <1>3, <1>5 DEF QueryOK, StepOK, CacheSteps, ZoneSteps, Numbered
<1> QED  BY <1>1, <1>2, <1>5, <1>6, GotoInv DEF z, x

\* What is stored is of the state it is numbered by; what is evicted is gone.
LEMMA StoreInv ==
  ASSUME IInv, NEW s \in Session, Store(s)
  PROVE  IInv'
<1> DEFINE x == q[s]
           t == x.table
           bytes == Cardinality(Present(x.rows))
           e == [on |-> TRUE, wseq |-> x.epoch, rows |-> x.rows, bytes |-> bytes,
                 used |-> tick, def |-> x.def]
           y == [x EXCEPT !.pc = "done", !.rows = x.rows]
<1>1. x.pc = "store" /\ x \in Query /\ QueryOK(x)
  BY Active DEF Store
<1>2. /\ columns' = [u \in Table |-> IF u = t THEN e
                                     ELSE IF u \in Evicted(t, bytes) THEN NoEntry ELSE columns[u]]
      /\ tick' = tick + 1 /\ UNCHANGED <<states, zones>>
  BY DEF Store
<1>3. q' = [q EXCEPT ![s] = y]
  BY DEF Store, Answers, IInv, QueryInv
<1>4. /\ t \in Table /\ x.since \in 1..Len(states) /\ x.epoch \in 0..Len(states)
      /\ x.since <= x.epoch /\ x.f.key = << >> /\ x.f.bounds = {}
      /\ x.rows = Decoded(x.def, states[x.epoch][t]) /\ x.rows \in Rows /\ x.def \in Nat
  BY <1>1 DEF Query, QueryOK, StepOK, CacheSteps, Numbered
<1>5. x.epoch \in 1..Len(states) /\ x.epoch \in x.since..Len(states)
  BY <1>4, NowFacts
<1>6. ColumnInv' /\ ZoneInv' /\ StateInv'
  <2>1. tick \in Nat /\ columns \in [Table -> ColumnEntry \cup {NoEntry}]
    BY DEF IInv, ColumnInv
  <2>2. bytes \in Nat
    BY PresentFacts
  <2> HIDE DEF bytes
  <2>3. e \in ColumnEntry /\ e.wseq = x.epoch /\ e.rows = x.rows /\ e.used = tick /\ e.def = x.def
    BY <1>4, <1>5, <2>1, <2>2, NowFacts DEF ColumnEntry
  <2> HIDE DEF e
  <2>4. columns' \in [Table -> ColumnEntry \cup {NoEntry}]
    BY <1>2, <2>1, <2>3
  <2>5. tick' \in Nat
    BY <1>2, <2>1
  <2>6. ASSUME NEW u \in Table, columns'[u].on PROVE ColumnOK(columns[u], u)'
    <3>1. CASE u = t
      <4>1. columns'[u] = e
        BY <1>2, <3>1
      <4> QED  BY <1>2, <1>4, <1>5, <2>1, <2>3, <3>1, <4>1 DEF ColumnOK
    <3>2. CASE u # t
      <4>1. columns'[u] = columns[u] /\ columns[u].on
        BY <1>2, <2>6, <3>2 DEF NoEntry
      <4>2. ColumnOK(columns[u], u) /\ columns[u] \in ColumnEntry
        BY <4>1 DEF IInv, ColumnInv, NoEntry
      <4>3. columns[u].used \in Nat
        BY <4>2 DEF ColumnEntry
      <4> QED  BY <1>2, <2>1, <4>1, <4>2, <4>3 DEF ColumnOK
    <3> QED  BY <3>1, <3>2
  <2>7. ColumnInv'
    BY <2>4, <2>5, <2>6 DEF ColumnInv
  <2>8. ZoneInv' /\ StateInv'
    BY <1>2 DEF IInv, ZoneInv, StateInv, ZoneOK
  <2> QED  BY <2>7, <2>8
<1>7. /\ y \in Query /\ y.since = x.since /\ y.epoch = x.epoch /\ y.scanned = x.scanned
      /\ y.f = x.f /\ y.table = t /\ y.pc = "done" /\ y.rows = x.rows /\ y.def = x.def
  BY <1>1, <1>4 DEF Query
<1> HIDE DEF x, y
<1>8. Selected(x.f, x.rows) = x.rows
  BY <1>4, SelectedFacts
<1>9. y.rows = Selected(y.f, Decoded(y.def, states[x.epoch][y.table]))
  BY <1>4, <1>7, <1>8
<1>10. Answered(y)
  BY <1>5, <1>7, <1>9 DEF Answered
<1>11. StepOK(y)
  BY <1>7, <1>10 DEF StepOK, CacheSteps, ZoneSteps
<1>12. QueryOK(y)
  BY <1>1, <1>7, <1>11 DEF QueryOK
<1>13. QueryInv'
  BY <1>2, <1>3, <1>7, <1>12, QueryMoves
<1> QED  BY <1>6, <1>13 DEF IInv

\* A zone map that carries the query's number, and was built with the definition of that state,
\* is the map of its rows.
LEMMA ZoneLookupInv ==
  ASSUME IInv, NEW s \in Session, ZoneLookup(s)
  PROVE  IInv'
<1> DEFINE x == q[s]
           t == x.table
           e == zones[t]
           y == [x EXCEPT !.pc = "zscan", !.chunks = e.chunks, !.trust = Sound(t, e)]
<1>1. x.pc = "zlookup" /\ x \in Query /\ QueryOK(x)
  BY Active DEF ZoneLookup
<1>2. t \in Table /\ x.since \in 1..Len(states) /\ x.epoch \in 0..Len(states) /\ x.since <= x.epoch
  BY <1>1 DEF Query, QueryOK, StepOK, ZoneSteps
<1>3. CASE ~Fresh(e, x.epoch)
  <2>1. Goto(s, "zbuild") /\ UNCHANGED <<states, columns, tick, zones>>
    BY <1>3 DEF ZoneLookup
  <2> DEFINE z == [x EXCEPT !.pc = "zbuild"]
  <2>2. z.pc = "zbuild" /\ z.since = x.since /\ z.epoch = x.epoch
    BY <1>1 DEF Query
  <2> HIDE DEF z
  <2>3. StepOK(z)
    BY <1>2, <2>2 DEF StepOK, CacheSteps, ZoneSteps
  <2> QED  BY <1>1, <2>1, <2>3, GotoInv DEF z
<1>4. CASE Fresh(e, x.epoch)
  <2>1. q' = [q EXCEPT ![s] = y] /\ UNCHANGED <<states, columns, tick, zones>>
    BY <1>4 DEF ZoneLookup, IInv, QueryInv
  <2>2. e.wseq = x.epoch /\ e \in ZoneEntry /\ ZoneOK(e, t)
    BY <1>2, <1>4 DEF Fresh, IInv, ZoneInv, NoEntry
  <2>3. e.chunks \in ChunkLists
    BY <2>2 DEF ZoneEntry
  <2>4. Sound(t, e) \in BOOLEAN
    BY DEF Sound
  <2>5. /\ y.pc = "zscan" /\ y.chunks = e.chunks /\ y.since = x.since /\ y.epoch = x.epoch
        /\ y.scanned = x.scanned /\ y.f = x.f /\ y.table = t /\ y.def = x.def
        /\ (y.trust <=> Sound(t, e))
    BY <1>1, <2>4 DEF Query
  <2>6. y \in Query
    BY <1>1, <2>3, <2>4 DEF Query, ZoneSteps
  <2>7. ASSUME Sound(t, e) PROVE y.chunks = Chunks(Numbered(y).rows)
    <3> DEFINE c == states[x.epoch][t]
    <3>1. c \in Content
      BY <1>2, NowFacts
    <3>2. e.def = c.def /\ e.chunks = Chunks(Decoded(e.def, c))
      BY <2>2, <2>7 DEF Sound, ZoneOK
    <3>3. Decoded(e.def, c) = c.rows
      BY <3>1, <3>2, DecodedFacts
    <3>4. Numbered(y) = c
      BY <2>5 DEF Numbered
    <3> HIDE DEF c, y
    <3> QED  BY <2>5, <3>2, <3>3, <3>4
  <2> HIDE DEF x, y
  <2>8. StepOK(y)
    BY <1>2, <2>5, <2>7 DEF StepOK, CacheSteps, ZoneSteps
  <2>9. QueryOK(y)
    BY <1>1, <2>5, <2>8 DEF QueryOK
  <2> QED  BY <2>1, <2>6, <2>9, QueryMoves, EntriesRemain DEF IInv
<1> QED  BY <1>3, <1>4

\* As for the column cache.
LEMMA ZoneBuildInv ==
  ASSUME IInv, NEW s \in Session, ZoneBuild(s)
  PROVE  IInv'
<1> DEFINE x == q[s]
           rows == Decoded(x.def, Now(x.table))
           y == [x EXCEPT !.pc = "zrecheck", !.chunks = Chunks(rows)]
<1>1. x.pc = "zbuild" /\ x \in Query /\ QueryOK(x)
  BY Active DEF ZoneBuild
<1>2. x.table \in Table /\ Now(x.table) = states[Len(states)][x.table] /\ rows \in Rows
      /\ x.since <= x.epoch /\ Len(states) \in Nat /\ x.epoch \in 0..Len(states)
  BY <1>1, NowFacts, DecodedFacts DEF Query, QueryOK, StepOK, ZoneSteps
<1>3. q' = [q EXCEPT ![s] = y] /\ UNCHANGED <<states, columns, tick, zones>>
  BY DEF ZoneBuild, IInv, QueryInv
<1>4. Chunks(rows) \in ChunkLists
  BY <1>2 DEF ChunkLists
<1> HIDE DEF rows
<1>5. /\ y \in Query /\ y.since = x.since /\ y.epoch = x.epoch /\ y.scanned = x.scanned
      /\ y.f = x.f /\ y.table = x.table /\ y.pc = "zrecheck" /\ y.chunks = Chunks(rows)
      /\ y.def = x.def
  BY <1>1, <1>4 DEF Query, ZoneSteps
<1> HIDE DEF x, y
<1>6. y.chunks = Chunks(Decoded(y.def, Numbered(y))) \/ Overtaken(y)
  BY <1>2, <1>5 DEF Numbered, Overtaken, rows
<1>7. StepOK(y)
  BY <1>2, <1>5, <1>6 DEF StepOK, CacheSteps, ZoneSteps
<1>8. QueryOK(y)
  BY <1>1, <1>5, <1>7 DEF QueryOK
<1> QED  BY <1>3, <1>5, <1>8, QueryMoves, EntriesRemain DEF IInv

\* A map is kept only if nothing was committed meanwhile.
LEMMA ZoneRecheckInv ==
  ASSUME IInv, NEW s \in Session, ZoneRecheck(s)
  PROVE  IInv'
<1> DEFINE x == q[s]
           pc == IF Unchanged(s) THEN "zstore" ELSE "bounds"
           z == [x EXCEPT !.pc = pc]
<1>1. x.pc = "zrecheck" /\ x \in Query /\ QueryOK(x)
  BY Active DEF ZoneRecheck
<1>2. Goto(s, pc) /\ UNCHANGED <<states, columns, tick, zones>>
  BY DEF ZoneRecheck
<1>3. /\ z.pc = pc /\ z.since = x.since /\ z.epoch = x.epoch /\ z.f = x.f
      /\ z.chunks = x.chunks /\ z.def = x.def /\ z.table = x.table
  BY <1>1 DEF Query
<1>4. Unchanged(s) => ~Overtaken(x)
  BY NowFacts DEF Unchanged, Overtaken, WriteEpoch
<1>5. pc \in {"zstore", "bounds"} /\ (pc = "zstore" => ~Overtaken(x))
  BY <1>4
<1> HIDE DEF x, z, pc
<1>6. StepOK(z)
  BY <1>1, <1>3, <1>5 DEF QueryOK, StepOK, CacheSteps, ZoneSteps, Numbered
<1> QED  BY <1>1, <1>2, <1>5, <1>6, GotoInv DEF z, x

\* The map stored is of the state it is numbered by.
LEMMA ZoneStoreInv ==
  ASSUME IInv, NEW s \in Session, ZoneStore(s)
  PROVE  IInv'
<1> DEFINE x == q[s]
           t == x.table
           e == [on |-> TRUE, wseq |-> x.epoch, chunks |-> x.chunks, def |-> x.def]
           y == [x EXCEPT !.pc = "zscan"]
<1>1. x.pc = "zstore" /\ x \in Query /\ QueryOK(x)
  BY Active DEF ZoneStore
<1>2. zones' = [zones EXCEPT ![t] = e] /\ UNCHANGED <<states, columns, tick>>
  BY DEF ZoneStore
<1>3. q' = [q EXCEPT ![s] = y]
  BY DEF ZoneStore, Goto, IInv, QueryInv
<1>4. /\ t \in Table /\ x.since \in 1..Len(states) /\ x.epoch \in 0..Len(states)
      /\ x.since <= x.epoch /\ x.chunks = Chunks(Decoded(x.def, states[x.epoch][t]))
      /\ x.chunks \in ChunkLists /\ x.def \in Nat
  BY <1>1 DEF Query, QueryOK, StepOK, ZoneSteps, Numbered
<1>5. x.epoch \in 1..Len(states) /\ x.epoch \in Nat
  BY <1>4, NowFacts
<1>6. ColumnInv' /\ ZoneInv' /\ StateInv'
  <2>1. zones \in [Table -> ZoneEntry \cup {NoEntry}]
    BY DEF IInv, ZoneInv
  <2>2. e \in ZoneEntry /\ e.wseq = x.epoch /\ e.chunks = x.chunks /\ e.def = x.def
    BY <1>4, <1>5 DEF ZoneEntry
  <2> HIDE DEF e
  <2>3. zones' \in [Table -> ZoneEntry \cup {NoEntry}]
    <3> HIDE DEF t
    <3> QED  BY <1>2, <2>1, <2>2
  <2>4. ASSUME NEW u \in Table, zones'[u].on PROVE ZoneOK(zones[u], u)'
    <3>1. CASE u = t
      <4>1. zones'[u] = e
        BY <1>2, <2>1, <3>1
      <4> QED  BY <1>2, <1>4, <1>5, <2>2, <3>1, <4>1 DEF ZoneOK
    <3>2. CASE u # t
      <4>1. zones'[u] = zones[u] /\ zones[u].on
        BY <1>2, <2>1, <2>4, <3>2
      <4>2. ZoneOK(zones[u], u)
        BY <4>1 DEF IInv, ZoneInv
      <4> QED  BY <1>2, <4>1, <4>2 DEF ZoneOK
    <3> QED  BY <3>1, <3>2
  <2>5. ZoneInv'
    BY <2>3, <2>4 DEF ZoneInv
  <2>6. ColumnInv' /\ StateInv'
    BY <1>2 DEF IInv, ColumnInv, StateInv, ColumnOK, NoEntry
  <2> QED  BY <2>5, <2>6
<1>7. /\ y \in Query /\ y.since = x.since /\ y.epoch = x.epoch /\ y.scanned = x.scanned
      /\ y.f = x.f /\ y.table = t /\ y.pc = "zscan" /\ y.chunks = x.chunks /\ y.def = x.def
  BY <1>1 DEF Query, ZoneSteps
<1> HIDE DEF x, y
<1>8. y.chunks = Chunks(Decoded(y.def, Numbered(y)))
  BY <1>4, <1>7 DEF Numbered
<1>9. StepOK(y)
  BY <1>4, <1>7, <1>8 DEF StepOK, CacheSteps, ZoneSteps
<1>10. QueryOK(y)
  BY <1>1, <1>7, <1>9 DEF QueryOK
<1>11. QueryInv'
  BY <1>2, <1>3, <1>7, <1>10, QueryMoves
<1> QED  BY <1>6, <1>11 DEF IInv

\* The ranges skipped hold nothing that the filter selects.
LEMMA ZoneScanInv ==
  ASSUME IInv, NEW s \in Session, ZoneScan(s)
  PROVE  IInv'
<1> DEFINE x == q[s]
           t == x.table
           D == Decoded(x.def, Now(t))
           part == Within(D, SurvivingRanges(x.chunks, x.f.bounds))
           rows == Selected(x.f, part)
           y == [x EXCEPT !.pc = "zcheck", !.rows = rows]
<1>1. x.pc = "zscan" /\ x \in Query /\ QueryOK(x)
  BY Active DEF ZoneScan
<1>2. /\ t \in Table /\ Now(t) = states[Len(states)][t] /\ D \in Rows
      /\ x.since <= x.epoch /\ Len(states) \in Nat /\ x.epoch \in 0..Len(states)
      /\ x.since \in 1..Len(states) /\ x.f \in Filter[t]
      /\ Now(t) \in Content
  BY <1>1, NowFacts, DecodedFacts DEF Query, QueryOK, StepOK, ZoneSteps
<1>3. q' = [q EXCEPT ![s] = y] /\ UNCHANGED <<states, columns, tick, zones>>
  BY DEF ZoneScan, IInv, QueryInv
<1>4. rows \in Rows
  BY <1>2, SelectedFacts
<1>5. ASSUME x.trust, ~Overtaken(x) PROVE rows = Selected(x.f, Decoded(x.def, Numbered(x)))
  <2>1. x.epoch = Len(states)
    BY <1>2, <1>5 DEF Overtaken
  <2>2. Numbered(x) = Now(t) /\ Decoded(x.def, Numbered(x)) = D
    BY <1>2, <2>1 DEF Numbered
  <2>3. x.chunks \in {Chunks(Now(t).rows), Chunks(D)}
    BY <1>1, <1>5, <2>2 DEF QueryOK, StepOK
  <2>4. FilterOK(x.f)
    BY <1>2, FilterFacts
  <2>5. /\ Now(t).rows \in Rows /\ Present(D) = Present(Now(t).rows)
        /\ \A k \in Key : D[k] \in Num => Now(t).rows[k] = D[k]
    BY <1>2, DecodedFacts
  <2> HIDE DEF D
  <2>6. Selected(x.f, Within(D, SurvivingRanges(Chunks(D), x.f.bounds))) = Selected(x.f, D)
    BY <1>2, <2>4, SkippingIsExact
  <2>7. Selected(x.f, Within(D, SurvivingRanges(Chunks(Now(t).rows), x.f.bounds)))
          = Selected(x.f, D)
    BY <1>2, <2>4, <2>5, SkippingIsExact
  <2> QED  BY <2>2, <2>3, <2>6, <2>7
<1> HIDE DEF rows
<1>6. /\ y \in Query /\ y.since = x.since /\ y.epoch = x.epoch /\ y.scanned = x.scanned
      /\ y.f = x.f /\ y.table = t /\ y.pc = "zcheck" /\ y.rows = rows /\ y.def = x.def
      /\ (y.trust <=> x.trust)
  BY <1>1, <1>4 DEF Query, ZoneSteps
<1> HIDE DEF x, y
<1>7. y.trust => y.rows = Selected(y.f, Decoded(y.def, Numbered(y))) \/ Overtaken(y)
  BY <1>5, <1>6 DEF Numbered, Overtaken
<1>8. StepOK(y)
  BY <1>2, <1>6, <1>7 DEF StepOK, CacheSteps, ZoneSteps
<1>9. QueryOK(y)
  BY <1>1, <1>6, <1>8 DEF QueryOK
<1> QED  BY <1>3, <1>6, <1>9, QueryMoves, EntriesRemain DEF IInv

\* What the skipping scan selected is answered only if nothing was committed meanwhile.
LEMMA ZoneCheckInv ==
  ASSUME IInv, NEW s \in Session, ZoneCheck(s)
  PROVE  IInv'
<1> DEFINE x == q[s]
           pc == IF Unchanged(s) THEN "done" ELSE "bounds"
           z == [x EXCEPT !.pc = pc]
<1>1. x.pc = "zcheck" /\ x \in Query /\ QueryOK(x)
  BY Active DEF ZoneCheck
<1>2. Goto(s, pc) /\ UNCHANGED <<states, columns, tick, zones>>
  BY DEF ZoneCheck
<1>3. /\ z.pc = pc /\ z.since = x.since /\ z.epoch = x.epoch /\ z.f = x.f /\ z.rows = x.rows
      /\ z.def = x.def /\ z.table = x.table /\ (z.trust <=> x.trust)
  BY <1>1 DEF Query
<1>4. Unchanged(s) => ~Overtaken(x)
  BY NowFacts DEF Unchanged, Overtaken, WriteEpoch
<1>5. pc \in {"done", "bounds"} /\ (pc = "done" => ~Overtaken(x))
  BY <1>4
<1> HIDE DEF x, z, pc
<1>6. x.epoch \in x.since..Len(states)
  BY <1>1, NowFacts DEF QueryOK, StepOK, ZoneSteps
<1>7. ASSUME pc = "done", x.trust PROVE Answered(z)
  <2>1. x.rows = Selected(x.f, Decoded(x.def, Numbered(x)))
    BY <1>1, <1>5, <1>7 DEF QueryOK, StepOK
  <2> QED  BY <1>3, <1>6, <2>1 DEF Answered, Numbered
<1>8. StepOK(z)
  BY <1>3, <1>5, <1>7 DEF StepOK, CacheSteps, ZoneSteps
<1> QED  BY <1>1, <1>2, <1>5, <1>8, GotoInv DEF z, x

\* Where to cut is read at a moment of its own; nothing is concluded from it yet.
LEMMA ReadBoundsInv ==
  ASSUME IInv, NEW s \in Session, ReadBounds(s)
  PROVE  IInv'
<1> DEFINE x == q[s]
           R == Now(x.table).rows
           ranges == IF Workers > 1 \/ x.pc = "pk" THEN SplitRanges(R, x.f) ELSE Whole
           y == [x EXCEPT !.pc = "scan", !.ranges = ranges]
<1>1. x.pc \in {"pk", "bounds"} /\ x \in Query /\ QueryOK(x)
  BY Active DEF ReadBounds
<1>2. CASE x.pc = "pk" /\ Present(R) = {}
  <2>1. Goto(s, "zepoch") /\ UNCHANGED <<states, columns, tick, zones>>
    BY <1>2 DEF ReadBounds
  <2> DEFINE z == [x EXCEPT !.pc = "zepoch"]
  <2>2. z.pc = "zepoch"
    BY <1>1 DEF Query
  <2> HIDE DEF z
  <2>3. StepOK(z)
    BY <2>2 DEF StepOK, CacheSteps, ZoneSteps
  <2> QED  BY <1>1, <2>1, <2>3, GotoInv DEF z
<1>3. CASE ~(x.pc = "pk" /\ Present(R) = {})
  <2>1. q' = [q EXCEPT ![s] = y] /\ UNCHANGED <<states, columns, tick, zones>>
    BY <1>3 DEF ReadBounds, IInv, QueryInv
  <2>2. x.table \in Table /\ R \in Rows /\ x.f \in Filters
    BY <1>1, NowFacts, DecodedFacts DEF Query
  <2>3. ranges \in RangeSets
    <3> HIDE DEF R
    <3> QED  BY <2>2 DEF RangeSets
  <2> HIDE DEF ranges
  <2>4. /\ y \in Query /\ y.since = x.since /\ y.epoch = x.epoch /\ y.scanned = x.scanned
        /\ y.f = x.f /\ y.table = x.table /\ y.pc = "scan"
    BY <1>1, <2>3 DEF Query
  <2> HIDE DEF x, y
  <2>5. StepOK(y)
    BY <2>4 DEF StepOK, CacheSteps, ZoneSteps
  <2>6. QueryOK(y)
    BY <1>1, <2>4, <2>5 DEF QueryOK
  <2> QED  BY <2>1, <2>4, <2>6, QueryMoves, EntriesRemain DEF IInv
<1> QED  BY <1>2, <1>3

\* A scan that misses no row of its snapshot answers that snapshot.
LEMMA ScanInv ==
  ASSUME IInv, NEW s \in Session, Scan(s)
  PROVE  IInv'
<1> DEFINE x == q[s]
           t == x.table
           D == Decoded(x.def, Now(t))
           rows == Selected(x.f, Within(D, x.ranges))
           y == [x EXCEPT !.pc = "done", !.scanned = Len(states), !.rows = rows]
<1>1. x.pc = "scan" /\ x \in Query /\ QueryOK(x)
  BY Active DEF Scan
<1>2. /\ t \in Table /\ Now(t) = states[Len(states)][t] /\ D \in Rows
      /\ Len(states) \in Nat /\ Len(states) \in 1..Len(states) /\ x.since \in 1..Len(states)
      /\ Present(D) = Present(Now(t).rows)
  BY <1>1, NowFacts, DecodedFacts DEF Query, QueryOK
<1>3. q' = [q EXCEPT ![s] = y] /\ UNCHANGED <<states, columns, tick, zones>>
  BY DEF Scan, IInv, QueryInv
<1>4. rows \in Rows
  BY <1>2, SelectedFacts
<1> HIDE DEF rows
<1>5. /\ y \in Query /\ y.since = x.since /\ y.epoch = x.epoch /\ y.scanned = Len(states)
      /\ y.f = x.f /\ y.table = t /\ y.pc = "done" /\ y.rows = rows /\ y.def = x.def
      /\ y.ranges = x.ranges
  BY <1>1, <1>2, <1>4 DEF Query
<1> HIDE DEF y
<1>6. ASSUME ~MissedBy(y) PROVE Answered(y)
  <2>1. ASSUME NEW k \in Key, D[k] # Absent, Matches(x.f, k, D[k])
        PROVE  \E r \in x.ranges : r.from <= k /\ k < r.to
    <3>1. k \in Present(states[y.scanned][y.table].rows)
      BY <1>2, <1>5, <2>1 DEF Present
    <3>2. x.f.key # << >> => x.f.key[1] <= k /\ k <= x.f.key[2]
      BY <2>1 DEF Matches
    <3>3. y.scanned > 0
      BY <1>2, <1>5
    <3> QED  BY <1>5, <1>6, <3>1, <3>2, <3>3 DEF MissedBy
  <2>2. rows = Selected(x.f, D)
    BY <2>1, RangesSuffice DEF rows
  <2>3. Len(states) \in y.since..Len(states)
    BY <1>2, <1>5
  <2>4. y.rows = Selected(y.f, Decoded(y.def, states[Len(states)][y.table]))
    BY <1>2, <1>5, <2>2
  <2> QED  BY <2>3, <2>4 DEF Answered
<1> HIDE DEF x
<1>7. StepOK(y)
  BY <1>5, <1>6 DEF StepOK, CacheSteps, ZoneSteps
<1>8. QueryOK(y)
  BY <1>1, <1>2, <1>5, <1>7 DEF QueryOK
<1> QED  BY <1>3, <1>5, <1>8, QueryMoves, EntriesRemain DEF IInv

\* A query that has answered is forgotten.
LEMMA EndInv ==
  ASSUME IInv, NEW s \in Session, End(s)
  PROVE  IInv'
<1>1. q' = [q EXCEPT ![s] = Idle] /\ UNCHANGED <<states, columns, tick, zones>>
  BY DEF End
<1> QED  BY <1>1, QueryMoves, EntriesRemain DEF IInv

\* A commit leaves a table of the same type.
LEMMA ChangedFacts ==
  ASSUME NEW t \in Table, NEW c \in Change[t], NEW content \in Content
  PROVE  Changed(c, content) \in Content
<1> DEFINE rs == [Key -> Cell \cup {Absent}]
<1>1. content.rows \in rs /\ content.def \in Nat
      /\ content = [def |-> content.def, rows |-> content.rows]
  BY DEF Content
<1>2. CASE c \in [op : {"put"}, key : Key, val : Cell]
  <2>1. Changed(c, content) = [content EXCEPT !.rows[c.key] = c.val]
    BY <1>2 DEF Changed
  <2>2. [content.rows EXCEPT ![c.key] = c.val] \in rs
    BY <1>1, <1>2
  <2> QED  BY <1>1, <2>1, <2>2 DEF Content
<1>3. CASE c \in [op : {"delete"}, key : Key]
  <2>1. Changed(c, content) = [content EXCEPT !.rows[c.key] = Absent]
    BY <1>3 DEF Changed
  <2>2. [content.rows EXCEPT ![c.key] = Absent] \in rs
    BY <1>1, <1>3
  <2> QED  BY <1>1, <2>1, <2>2 DEF Content
<1>4. CASE c \in [op : {"rekey"}, key : Key, to : Key]
  <2>1. Changed(c, content) =
          [content EXCEPT !.rows[c.key] = Absent, !.rows[c.to] = content.rows[c.key]]
    BY <1>4 DEF Changed
  <2>2. [content.rows EXCEPT ![c.key] = Absent, ![c.to] = content.rows[c.key]] \in rs
    BY <1>1, <1>4
  <2> QED  BY <1>1, <2>1, <2>2 DEF Content
<1>5. CASE c \in [op : {"alter"}]
  <2>1. Changed(c, content) = [content EXCEPT !.def = @ + 1]
    BY <1>5 DEF Changed
  <2> QED  BY <1>1, <2>1 DEF Content
<1> QED  BY <1>2, <1>3, <1>4, <1>5, ChangeAssumption

\* A commit adds a state; what was read of the earlier ones remains, and a query that has
\* numbered the last of them is overtaken.
LEMMA CommitInv ==
  ASSUME IInv, NEW t \in Table, NEW c \in Change[t], Commit(c, t)
  PROVE  IInv'
<1> DEFINE old == states[Len(states)]
           new == [old EXCEPT ![t] = Changed(c, @)]
<1>1. states' = Append(states, new) /\ UNCHANGED <<columns, tick, zones, q>>
  BY DEF Commit
<1>2. states \in Seq([Table -> Content]) /\ Len(states) \in Nat /\ Len(states) >= 1
      /\ old \in [Table -> Content]
  BY NowFacts DEF IInv, StateInv
<1>3. new \in [Table -> Content]
  <2>1. Changed(c, old[t]) \in Content
    BY <1>2, ChangedFacts
  <2> HIDE DEF old
  <2> QED  BY <1>2, <2>1
<1> HIDE DEF old, new
<1>4. /\ states' \in Seq([Table -> Content]) /\ Len(states') = Len(states) + 1
      /\ \A n \in 1..Len(states) : states'[n] = states[n]
  BY <1>1, <1>2, <1>3
<1>5. StateInv'
  BY <1>2, <1>4 DEF StateInv
<1>6. ColumnInv'
  <2>1. ASSUME NEW u \in Table, columns[u].on PROVE ColumnOK(columns[u], u)'
    <3>1. ColumnOK(columns[u], u)
      BY <2>1 DEF IInv, ColumnInv
    <3>2. columns[u].wseq \in 1..Len(states) /\ columns[u].wseq \in 1..Len(states')
      BY <1>2, <1>4, <3>1 DEF ColumnOK
    <3>3. states'[columns[u].wseq] = states[columns[u].wseq]
      BY <1>4, <3>2
    <3> QED  BY <1>1, <3>1, <3>2, <3>3 DEF ColumnOK
  <2> QED  BY <1>1, <2>1 DEF IInv, ColumnInv, NoEntry
<1>7. ZoneInv'
  <2>1. ASSUME NEW u \in Table, zones[u].on PROVE ZoneOK(zones[u], u)'
    <3>1. ZoneOK(zones[u], u)
      BY <2>1 DEF IInv, ZoneInv
    <3>2. zones[u].wseq \in 1..Len(states) /\ zones[u].wseq \in 1..Len(states')
      BY <1>2, <1>4, <3>1 DEF ZoneOK
    <3>3. states'[zones[u].wseq] = states[zones[u].wseq]
      BY <1>4, <3>2
    <3> QED  BY <1>1, <3>1, <3>2, <3>3 DEF ZoneOK
  <2> QED  BY <1>1, <2>1 DEF IInv, ZoneInv, NoEntry
<1>8. ASSUME NEW x \in Query, QueryOK(x) PROVE QueryOK(x)'
  <2>1. /\ x.since \in 1..Len(states) /\ x.epoch \in 0..Len(states)
        /\ x.scanned \in 0..Len(states) /\ x.f \in Filter[x.table] /\ StepOK(x)
    BY <1>8 DEF QueryOK
  <2>2. /\ x.since \in 1..Len(states') /\ x.epoch \in 0..Len(states')
        /\ x.scanned \in 0..Len(states')
    BY <1>2, <1>4, <2>1
  <2>3. x.since <= x.epoch => Numbered(x)' = Numbered(x)
    <3> SUFFICES ASSUME x.since <= x.epoch PROVE states'[x.epoch] = states[x.epoch]
      BY DEF Numbered
    <3>1. x.epoch \in 1..Len(states)
      BY <1>2, <2>1
    <3> QED  BY <1>4, <3>1
  <2>4. Overtaken(x)'
    BY <1>2, <1>4, <2>1 DEF Overtaken
  <2>5. MissedBy(x)' <=> MissedBy(x)
    <3>1. x.scanned > 0 => states'[x.scanned] = states[x.scanned]
      <4> SUFFICES ASSUME x.scanned > 0 PROVE x.scanned \in 1..Len(states)
        BY <1>4
      <4> QED  BY <1>2, <2>1
    <3> QED  BY <3>1 DEF MissedBy
  <2>6. Answered(x) => Answered(x)'
    <3> SUFFICES ASSUME NEW n \in x.since..Len(states),
                        x.rows = Selected(x.f, Decoded(x.def, states[n][x.table]))
                 PROVE  Answered(x)'
      BY DEF Answered
    <3>1. n \in 1..Len(states) /\ n \in x.since..Len(states')
      BY <1>2, <1>4, <2>1
    <3>2. states'[n] = states[n]
      BY <1>4, <3>1
    <3> QED  BY <3>1, <3>2 DEF Answered
  <2>7. StepOK(x)'
    <3> HIDE DEF Numbered, Overtaken, MissedBy, Answered
    <3> QED  BY <2>1, <2>3, <2>4, <2>5, <2>6 DEF StepOK, CacheSteps, ZoneSteps
  <2> QED  BY <2>1, <2>2, <2>7 DEF QueryOK
<1>9. QueryInv'
  <2>1. ASSUME NEW s \in Session, q[s] # Idle PROVE QueryOK(q[s])'
    <3>1. q[s] \in Query /\ QueryOK(q[s])
      BY <2>1 DEF IInv, QueryInv
    <3>2. PICK x : x = q[s]
      OBVIOUS
    <3>3. QueryOK(x)'
      BY <1>8, <3>1, <3>2
    <3>4. x = q'[s]
      BY <1>1, <3>2
    <3> QED  BY <3>3, <3>4
             DEF QueryOK, StepOK, Numbered, Overtaken, MissedBy, Answered
  <2> QED  BY <1>1, <2>1 DEF IInv, QueryInv, Idle
<1> QED  BY <1>5, <1>6, <1>7, <1>9 DEF IInv

----------------------------------------------------------------------------
(* The invariant holds, and what it says *)

\* The invariant holds at the start.
LEMMA InitInv == Init => IInv
<1> SUFFICES ASSUME Init PROVE IInv
  OBVIOUS
<1> DEFINE first == [t \in Table |-> [def |-> 0, rows |-> Initial[t]]]
<1>1. first \in [Table -> Content]
  BY InitialAssumption DEF Content
<1>2. states = <<first>> /\ Len(states) = 1
  BY DEF Init
<1> HIDE DEF first
<1>3. StateInv
  BY <1>1, <1>2 DEF StateInv
<1>4. ColumnInv /\ ZoneInv /\ QueryInv
  BY DEF Init, ColumnInv, ZoneInv, QueryInv, NoEntry
<1> QED  BY <1>3, <1>4 DEF IInv

\* A stuttering step keeps the invariant.
LEMMA StutterInv == IInv /\ UNCHANGED vars => IInv'
<1> SUFFICES ASSUME IInv, UNCHANGED vars PROVE IInv'
  OBVIOUS
<1>1. UNCHANGED <<states, columns, tick, zones>> /\ q' = q
  BY DEF vars
<1>2. QueryInv'
  <2>1. ASSUME NEW s \in Session, q[s] # Idle PROVE QueryOK(q[s])'
    BY <1>1, <2>1
       DEF IInv, QueryInv, QueryOK, StepOK, Numbered, Overtaken, MissedBy, Answered
  <2> QED  BY <1>1, <2>1 DEF IInv, QueryInv, Idle
<1> QED  BY <1>1, <1>2, EntriesRemain DEF IInv

\* Every step keeps the invariant.
LEMMA NextInv == IInv /\ [Next]_vars => IInv'
<1> SUFFICES ASSUME IInv, [Next]_vars PROVE IInv'
  OBVIOUS
<1>1. ASSUME NEW t \in Table, NEW c \in Change[t], Commit(c, t) PROVE IInv'
  BY <1>1, CommitInv
<1>2. ASSUME NEW s \in Session, Step(s) PROVE IInv'
  BY <1>2, ReadEpochInv, LookupInv, BuildInv, RecheckInv, StoreInv, ZoneLookupInv,
     ZoneBuildInv, ZoneRecheckInv, ZoneStoreInv, ZoneScanInv, ZoneCheckInv,
     ReadBoundsInv, ScanInv, EndInv DEF Step
<1>3. ASSUME NEW s \in Session, NEW t \in Table, NEW f \in Filter[t], Start(s, t, f)
      PROVE  IInv'
  BY <1>3, StartInv
<1>4. CASE UNCHANGED vars
  BY <1>4, StutterInv
<1> QED  BY <1>1, <1>2, <1>3, <1>4 DEF Next

\* The invariant holds always.
LEMMA InvHolds == Spec => []IInv
BY InitInv, NextInv, PTL DEF Spec

\* Committed states, entries and queries have their types, and an entry was used before now.
THEOREM TypeCorrect == Spec => []TypeOK
<1>1. IInv => TypeOK
  <2> SUFFICES ASSUME IInv PROVE TypeOK
    OBVIOUS
  <2>1. \A n \in DOMAIN states : \A t \in Table :
          states[n][t].def \in Nat /\ states[n][t].rows \in [Key -> Cell \cup {Absent}]
    BY DEF IInv, StateInv, Content
  <2>2. \A t \in Cached : columns[t].rows \in Rows /\ columns[t].used < tick
    <3> SUFFICES ASSUME NEW t \in Table, columns[t].on
                 PROVE  columns[t].rows \in Rows /\ columns[t].used < tick
      BY DEF Cached
    <3>1. columns[t] \in ColumnEntry /\ ColumnOK(columns[t], t)
      BY DEF IInv, ColumnInv, NoEntry
    <3> QED  BY <3>1 DEF ColumnEntry, ColumnOK
  <2>3. \A s \in Session : q[s] # Idle =>
          /\ q[s].rows \in Rows
          /\ q[s].epoch \in 0..Len(states) /\ q[s].since \in 1..Len(states)
    BY DEF IInv, QueryInv, QueryOK, Query
  <2> QED  BY <2>1, <2>2, <2>3 DEF TypeOK
<1> QED  BY <1>1, InvHolds, PTL

\* colcache.rs and zonemap.rs keep what a query built only if the write sequence is still
\* the one it read before it built: whatever is committed, built, stored and evicted
\* meanwhile, an entry whose definition was the table's holds the state it is numbered by.
THEOREM EntriesAreExact == Spec => []EntriesExact
<1>1. IInv => EntriesExact
  <2> SUFFICES ASSUME IInv, NEW t \in Table
               PROVE  /\ columns[t].on /\ Sound(t, columns[t]) =>
                           columns[t].rows = states[columns[t].wseq][t].rows
                      /\ zones[t].on /\ Sound(t, zones[t]) =>
                           zones[t].chunks = Chunks(states[zones[t].wseq][t].rows)
    BY DEF EntriesExact
  <2>1. ASSUME columns[t].on, Sound(t, columns[t])
        PROVE  columns[t].rows = states[columns[t].wseq][t].rows
    <3>1. ColumnOK(columns[t], t)
      BY <2>1 DEF IInv, ColumnInv
    <3>2. states[columns[t].wseq][t] \in Content
      BY <3>1, NowFacts DEF ColumnOK
    <3> QED  BY <2>1, <3>1, <3>2, DecodedFacts DEF ColumnOK, Sound
  <2>2. ASSUME zones[t].on, Sound(t, zones[t])
        PROVE  zones[t].chunks = Chunks(states[zones[t].wseq][t].rows)
    <3>1. ZoneOK(zones[t], t)
      BY <2>2 DEF IInv, ZoneInv
    <3>2. states[zones[t].wseq][t] \in Content
      BY <3>1, NowFacts DEF ZoneOK
    <3>3. Decoded(zones[t].def, states[zones[t].wseq][t]) = states[zones[t].wseq][t].rows
      BY <2>2, <3>2, DecodedFacts DEF Sound
    <3> QED  BY <3>1, <3>3 DEF ZoneOK
  <2> QED  BY <2>1, <2>2
<1> QED  BY <1>1, InvHolds, PTL

\* Through the column cache, the zone maps or a split scan, a query of exec.rs answers one
\* committed state, of those between its start and its end; unless its cut missed a row put
\* since, or the entry it hit was built with a definition that was no longer the table's.
THEOREM AnswersAreCommitted == Spec => []AnswerIsCommitted
<1>1. IInv => AnswerIsCommitted
  <2> SUFFICES ASSUME IInv, NEW s \in Session, q[s].pc = "done", q[s].trust, ~Missed(s)
               PROVE  AnswersFrom(s)
    BY DEF AnswerIsCommitted
  <2>1. StepOK(q[s])
    BY Active DEF QueryOK
  <2>2. ~MissedBy(q[s])
    BY DEF Missed, MissedBy
  <2>3. Answered(q[s])
    BY <2>1, <2>2 DEF StepOK
  <2> QED  BY <2>3 DEF Answered, AnswersFrom
<1> QED  BY <1>1, InvHolds, PTL

=============================================================================
