------------------------- MODULE TransactionsProofs -------------------------
(***************************************************************************)
(* Theorems about Transactions, for any sessions, rows, values, savepoint  *)
(* names, workloads, budgets and batch sizes.                              *)
(***************************************************************************)
EXTENDS Transactions, NaturalRecursion, FiniteSetTheorems, SequenceTheorems

----------------------------------------------------------------------------
(* The inductive invariant *)

Entry == [key : Key, put : Value, deleted : BOOLEAN]
Mark == [name : Name, mark : Nat, rangesLen : Nat]

\* What the buffer, or an entry of its log, has for a key: a put or a delete, and for
\* the write counter only a put, of more than the snapshot has.
CellOK(snap, k, put, deleted) ==
  /\ deleted => put = Absent /\ k # Meta
  /\ k = Meta /\ put # Absent => put \in 0..MaxCount /\ put > snap[Meta]

BufferOK(t) ==
  /\ t.snap[Meta] \in 0..MaxCount
  /\ \A k \in Key : CellOK(t.snap, k, t.puts[k], k \in t.dels)
  /\ \A i \in DOMAIN t.undo :
       CellOK(t.snap, t.undo[i].key, t.undo[i].put, t.undo[i].deleted)

BytesOK(t) == t.mem = Cardinality(BufferBytes(t)) /\ t.undoMem = Cardinality(LogBytes(t))

\* Savepoints point into the log, later ones not before earlier ones.
MarksOK(t) ==
  /\ \A i \in DOMAIN t.sps : t.sps[i].mark <= Len(t.undo)
  /\ \A i, j \in DOMAIN t.sps : i <= j => t.sps[i].mark <= t.sps[j].mark
  /\ ~Logging(t) => t.undo = << >>

TxnInv(t) == BufferOK(t) /\ BytesOK(t) /\ MarksOK(t)

\* The checkpoint of a statement lies behind every savepoint.
CheckpointOK(t, cp) ==
  /\ t.cps >= 1
  /\ cp.mark <= Len(t.undo) /\ cp.spsLen = Len(t.sps)
  /\ \A i \in DOMAIN t.sps : t.sps[i].mark <= cp.mark

\* The statement under way in a session with transaction t.
StmtOK(t, q) ==
  /\ q.kind = "direct" =>
       /\ t = NoTxn
       /\ \A n \in DOMAIN q.ops : q.ops[n].key = Meta => q.ops[n].val \in 0..MaxCount
  /\ q.kind = "unit" => t # NoTxn /\ (~q.owned => CheckpointOK(t, q.checkpoint))

\* A scan has found what there is up to its cursor.
ScanOK(t, c) ==
  c.on =>
    /\ c.done => c.cursor = c.to
    /\ ~c.done => c.from <= c.cursor /\ (c.cursor <= c.to \/ c.cursor = c.from)
    /\ t # NoTxn /\ RowsIn(t.snap, c.from, c.to) \cap t.dels = {} =>
         c.rows = RowsIn(View(t), c.from, c.cursor)

SeenOK(t, w) == t # NoTxn /\ t.ser => w.now \cap Row \subseteq ReadSet(t)

SessionOK(t, q, c, w) == (t # NoTxn => TxnInv(t)) /\ StmtOK(t, q) /\ ScanOK(t, c) /\ SeenOK(t, w)

IInv ==
  /\ TypeOK
  /\ db[Meta] \in 0..MaxCount
  /\ \A s \in Session : SessionOK(txn[s], stmt[s], scan[s], seen[s])

----------------------------------------------------------------------------
(* Counting bytes *)

\* b[k] things for each k.
Tokens(D, b) == UNION {{k} \X (1..b[k]) : k \in D}

\* They are finitely many.
LEMMA TokensFinite ==
  ASSUME NEW D, IsFiniteSet(D), NEW b, \A k \in D : b[k] \in Nat
  PROVE  IsFiniteSet(Tokens(D, b)) /\ Cardinality(Tokens(D, b)) \in Nat
<1> DEFINE piles == {{k} \X (1..b[k]) : k \in D}
           f == [k \in D |-> {k} \X (1..b[k])]
<1>1. IsFiniteSet(piles)
  <2>1. f \in Surjection(D, piles)
    BY DEF Surjection
  <2> QED  BY <2>1, FS_Surjection
<1>2. ASSUME NEW T \in piles PROVE IsFiniteSet(T)
  <2>1. PICK k \in D : T = {k} \X (1..b[k])
    OBVIOUS
  <2>2. IsFiniteSet({k})
    BY FS_Singleton
  <2>3. b[k] \in Int /\ 1 \in Int
    OBVIOUS
  <2>4. IsFiniteSet(1..b[k])
    BY <2>3, FS_Interval
  <2> QED  BY <2>1, <2>2, <2>4, FS_Product
<1>3. IsFiniteSet(UNION piles)
  <2> HIDE DEF piles
  <2> QED  BY <1>1, <1>2, FS_UNION
<1> QED  BY <1>3, FS_CardinalityType DEF Tokens

\* One pile, and the others.
LEMMA TokensSplit ==
  ASSUME NEW D, IsFiniteSet(D), NEW b, \A k \in D : b[k] \in Nat, NEW k \in D
  PROVE  Cardinality(Tokens(D, b)) = Cardinality(Tokens(D \ {k}, b)) + b[k]
<1> DEFINE P == {k} \X (1..b[k])
           T == Tokens(D \ {k}, b)
<1>1. Tokens(D, b) = T \cup P /\ T \cap P = {}
  BY DEF Tokens
<1>2. IsFiniteSet(D \ {k})
  BY FS_RemoveElement
<1>3. IsFiniteSet(T) /\ Cardinality(T) \in Nat
  BY <1>2, TokensFinite
<1>4. IsFiniteSet(P) /\ Cardinality(P) = b[k]
  <2>1. IsFiniteSet({k}) /\ Cardinality({k}) = 1
    BY FS_Singleton
  <2>2. IsFiniteSet(1..b[k]) /\ Cardinality(1..b[k]) = b[k]
    BY FS_Interval
  <2> QED  BY <2>1, <2>2, FS_Product
<1>5. Cardinality(T \cap P) = 0
  BY <1>1, FS_EmptySet
<1> HIDE DEF T, P
<1>6. Cardinality(T \cup P) = Cardinality(T) + Cardinality(P) - Cardinality(T \cap P)
  BY <1>3, <1>4, FS_Union
<1>7. Cardinality(T \cup P) = Cardinality(T) + b[k]
  BY <1>3, <1>4, <1>5, <1>6
<1> QED  BY <1>1, <1>7 DEF T

----------------------------------------------------------------------------
(* Places *)

\* R orders S: whoever comes not after x, x included, are as many as x's place tells.
LEMMA Ranked ==
  ASSUME NEW S, IsFiniteSet(S), NEW R,
         \A x \in S : <<x, x>> \in R,
         \A x, y \in S : <<x, y>> \in R \/ <<y, x>> \in R,
         \A x, y \in S : <<x, y>> \in R /\ <<y, x>> \in R => x = y,
         \A x, y, z \in S : <<x, y>> \in R /\ <<y, z>> \in R => <<x, z>> \in R,
         NEW p, p = [x \in S |-> Cardinality({y \in S : <<y, x>> \in R})]
  PROVE  /\ p \in Bijection(S, 1..Cardinality(S))
         /\ \A x, y \in S : p[x] <= p[y] <=> <<x, y>> \in R
<1> DEFINE Upto(x) == {y \in S : <<y, x>> \in R}
           n == Cardinality(S)
<1>1. n \in Nat
  BY FS_CardinalityType
<1>2. ASSUME NEW x \in S
      PROVE  /\ IsFiniteSet(Upto(x)) /\ p[x] = Cardinality(Upto(x))
             /\ p[x] \in 1..n
  <2>1. Upto(x) \subseteq S /\ x \in Upto(x)
    OBVIOUS
  <2>2. p[x] = Cardinality(Upto(x))
    OBVIOUS
  <2> HIDE DEF Upto
  <2>3. IsFiniteSet(Upto(x)) /\ Cardinality(Upto(x)) <= n
    BY <2>1, FS_Subset
  <2>4. Cardinality(Upto(x)) \in Nat /\ Cardinality(Upto(x)) # 0
    BY <2>1, <2>3, FS_CardinalityType, FS_EmptySet
  <2> QED  BY <1>1, <2>2, <2>3, <2>4
<1>a. \A x \in S : p[x] \in 1..n
  BY <1>2
<1>b. \A x \in S : p[x] \in Int
  <2> HIDE DEF n
  <2> QED  BY <1>1, <1>a
<1>3. ASSUME NEW x \in S, NEW y \in S, <<x, y>> \in R, x # y
      PROVE  p[x] < p[y]
  <2>1. Upto(x) \subseteq Upto(y) /\ y \in Upto(y) /\ y \notin Upto(x)
    BY <1>3
  <2>2. p[x] \in Int /\ p[y] \in Int
    BY <1>b
  <2>3. IsFiniteSet(Upto(y)) /\ p[x] = Cardinality(Upto(x)) /\ p[y] = Cardinality(Upto(y))
    BY <1>2
  <2> HIDE DEF Upto
  <2>4. Cardinality(Upto(x)) <= Cardinality(Upto(y))
        /\ (Cardinality(Upto(y)) = Cardinality(Upto(x)) => Upto(y) = Upto(x))
    BY <2>1, <2>3, FS_Subset
  <2> QED  BY <2>1, <2>2, <2>3, <2>4
<1>4. \A x, y \in S : p[x] <= p[y] <=> <<x, y>> \in R
  <2> SUFFICES ASSUME NEW x \in S, NEW y \in S PROVE p[x] <= p[y] <=> <<x, y>> \in R
    OBVIOUS
  <2>1. p[x] \in Int /\ p[y] \in Int
    BY <1>b
  <2>2. CASE x = y
    BY <2>1, <2>2
  <2>3. CASE x # y /\ <<x, y>> \in R
    <3>1. p[x] < p[y]
      BY <2>3, <1>3
    <3> QED  BY <2>1, <2>3, <3>1
  <2>4. CASE x # y /\ <<y, x>> \in R
    <3>1. p[y] < p[x]
      BY <2>4, <1>3
    <3>2. <<x, y>> \notin R
      BY <2>4
    <3> QED  BY <2>1, <3>1, <3>2
  <2> QED  BY <2>2, <2>3, <2>4
<1>5. p \in Injection(S, 1..n)
  <2>1. p \in [S -> 1..n]
    BY <1>a
  <2>2. ASSUME NEW x \in S, NEW y \in S, p[x] = p[y] PROVE x = y
    <3>1. p[x] \in Int /\ p[y] \in Int
      BY <1>b
    <3> QED  BY <1>4, <2>2, <3>1
  <2> QED  BY <2>1, <2>2 DEF Injection, IsInjective
<1>6. IsFiniteSet(1..n) /\ Cardinality(1..n) = n
  BY <1>1, FS_Interval
<1>7. p \in Surjection(S, 1..n)
  <2> HIDE DEF n
  <2> QED  BY <1>5, <1>6, FS_Injection DEF n
<1> QED  BY <1>4, <1>5, <1>7 DEF Bijection

\* The places of a finite set of numbers, and the numbers at them.
LEMMA Places ==
  ASSUME NEW S \in SUBSET Nat, IsFiniteSet(S)
  PROVE  /\ Cardinality(S) \in Nat
         /\ \A k \in S : Place(S, k) \in 1..Cardinality(S) /\ Nth(S, Place(S, k)) = k
         /\ \A j, k \in S : Place(S, j) <= Place(S, k) <=> j <= k
         /\ \A n \in 1..Cardinality(S) : Nth(S, n) \in S /\ Place(S, Nth(S, n)) = n
<1> DEFINE R == {q \in S \X S : q[1] <= q[2]}
           p == [x \in S |-> Cardinality({y \in S : <<y, x>> \in R})]
<1>1. \A x \in S : {y \in S : <<y, x>> \in R} = {y \in S : y <= x}
  OBVIOUS
<1>2. \A x \in S : p[x] = Place(S, x)
  BY <1>1 DEF Place
<1>3. /\ \A x \in S : <<x, x>> \in R
      /\ \A x, y \in S : <<x, y>> \in R \/ <<y, x>> \in R
      /\ \A x, y \in S : <<x, y>> \in R /\ <<y, x>> \in R => x = y
      /\ \A x, y, z \in S : <<x, y>> \in R /\ <<y, z>> \in R => <<x, z>> \in R
      /\ \A x, y \in S : <<x, y>> \in R <=> x <= y
  OBVIOUS
<1> HIDE DEF R
<1>4. /\ p \in Bijection(S, 1..Cardinality(S))
      /\ \A x, y \in S : p[x] <= p[y] <=> <<x, y>> \in R
  BY <1>3, Ranked
<1> HIDE DEF p
<1>5. /\ \A k \in S : Place(S, k) \in 1..Cardinality(S)
      /\ \A j, k \in S : Place(S, j) <= Place(S, k) <=> j <= k
      /\ \A j, k \in S : Place(S, j) = Place(S, k) => j = k
      /\ \A n \in 1..Cardinality(S) : \E k \in S : Place(S, k) = n
  <2>1. /\ p \in [S -> 1..Cardinality(S)]
        /\ \A x, y \in S : p[x] = p[y] => x = y
        /\ \A n \in 1..Cardinality(S) : \E k \in S : p[k] = n
    BY <1>4 DEF Bijection, Injection, Surjection, IsInjective
  <2>2. \A x, y \in S : p[x] <= p[y] <=> x <= y
    BY <1>3, <1>4
  <2> QED  BY <1>2, <2>1, <2>2
<1>6. \A n \in 1..Cardinality(S) : Nth(S, n) \in S /\ Place(S, Nth(S, n)) = n
  BY <1>5 DEF Nth
<1>7. Cardinality(S) \in Nat
  BY FS_CardinalityType
<1> QED  BY <1>5, <1>6, <1>7

----------------------------------------------------------------------------
(* The buffer and its log *)

\* Keys, values and their sizes.
LEMMA KeyFacts ==
  /\ IsFiniteSet(Key) /\ Meta \in Key /\ Row \subseteq Key
  /\ Absent \in Value /\ Absent \notin Nat /\ 0..MaxCount \subseteq Value
  /\ \A k \in Key, v \in Value : ValueBytes(k, v) \in Nat /\ PutBytes(k, v) \in Nat
<1>1. IsFiniteSet(Key)
  BY RowAssumption, FS_AddElement DEF Key
<1>2. \A v \in Value : v = Absent \/ v \in Nat
  BY ValAssumption, BoundAssumption DEF Value
<1>3. \A k \in Key, v \in Value : ValueBytes(k, v) \in Nat /\ PutBytes(k, v) \in Nat
  BY <1>2 DEF ValueBytes, PutBytes
<1> QED  BY <1>1, <1>3, ValAssumption DEF Key, Value

\* What a transaction keeps while its buffer and log change.
Frame(t, u) ==
  /\ u.snap = t.snap /\ u.ro = t.ro /\ u.ser = t.ser /\ u.reads = t.reads
  /\ u.locked = t.locked /\ u.sps = t.sps /\ u.cps = t.cps

\* u is t with one cell of the buffer changed.
Assigned(t, u, k, put, del) ==
  /\ u \in Txn /\ Frame(t, u) /\ u.ranges = t.ranges
  /\ u.undo = t.undo /\ u.undoMem = t.undoMem
  /\ u.puts = [t.puts EXCEPT ![k] = put]
  /\ u.dels = IF del THEN t.dels \cup {k} ELSE t.dels \ {k}
  /\ t.mem = Cardinality(BufferBytes(t)) => u.mem = Cardinality(BufferBytes(u))

\* A buffer with one cell changed: the byte count follows.
LEMMA AssignFacts ==
  ASSUME NEW t \in Txn, NEW k \in Key, NEW put \in Value, NEW del \in BOOLEAN,
         del => k \in Row, NEW u, u = Assign(t, k, put, del)
  PROVE  Assigned(t, u, k, put, del)
<1> DEFINE puts == [t.puts EXCEPT ![k] = put]
           dels == IF del THEN t.dels \cup {k} ELSE t.dels \ {k}
           v == [t EXCEPT !.puts = puts, !.dels = dels]
<1>1. v = [t EXCEPT !.puts[k] = put, !.dels = IF del THEN @ \cup {k} ELSE @ \ {k}]
  OBVIOUS
<1>2. puts \in State /\ dels \in SUBSET Row
  <2>1. t.puts \in State /\ t.dels \in SUBSET Row
    BY DEF Txn
  <2> QED  BY <2>1 DEF State
<1>3. \A j \in Key : PutBytes(j, t.puts[j]) \in Nat /\ PutBytes(j, puts[j]) \in Nat
  <2>1. \A j \in Key : t.puts[j] \in Value /\ puts[j] \in Value
    BY <1>2 DEF Txn, State
  <2> HIDE DEF puts
  <2> QED  BY <2>1, KeyFacts
<1> HIDE DEF puts, dels
<1>4. v \in Txn /\ v.puts = puts /\ v.dels = dels /\ v.mem = t.mem
  BY <1>2 DEF Txn
<1>5. u = [v EXCEPT !.mem = v.mem - Bytes(t, k) + Bytes(v, k)]
  BY <1>1 DEF Assign
<1>6. \A j \in Key : Bytes(t, j) \in Nat /\ Bytes(v, j) \in Nat
  BY <1>3, <1>4 DEF Bytes
<1>7. u \in Txn /\ Frame(t, u) /\ u.ranges = t.ranges /\ u.undo = t.undo
      /\ u.undoMem = t.undoMem /\ u.puts = puts /\ u.dels = dels
      /\ u.mem = t.mem - Bytes(t, k) + Bytes(v, k)
  <2>1. t.mem - Bytes(t, k) + Bytes(v, k) \in Int
    BY <1>6 DEF Txn
  <2> DEFINE m == t.mem - Bytes(t, k) + Bytes(v, k)
  <2>2. m \in Int /\ u = [v EXCEPT !.mem = m]
    BY <1>4, <1>5, <2>1
  <2> HIDE DEF m
  <2>3. u = [t EXCEPT !.puts = puts, !.dels = dels, !.mem = m]
    BY <2>2
  <2> HIDE DEF v
  <2> QED  BY <1>2, <2>2, <2>3 DEF Txn, Frame, m
<1>8. \A j \in Key : Bytes(u, j) = Bytes(v, j)
  BY <1>4, <1>7 DEF Bytes
<1>9. \A j \in Key \ {k} : Bytes(u, j) = Bytes(t, j)
  <2>1. \A j \in Key \ {k} : puts[j] = t.puts[j] /\ (j \in dels <=> j \in t.dels)
    BY DEF puts, dels, Txn, State
  <2> QED  BY <1>7, <2>1 DEF Bytes
<1>10. ASSUME t.mem = Cardinality(BufferBytes(t)) PROVE u.mem = Cardinality(BufferBytes(u))
  <2> DEFINE b == [j \in Key |-> Bytes(t, j)]
             c == [j \in Key |-> Bytes(u, j)]
             rest == Tokens(Key \ {k}, b)
  <2>1. BufferBytes(t) = Tokens(Key, b) /\ BufferBytes(u) = Tokens(Key, c)
    BY DEF BufferBytes, Tokens
  <2>2. rest = Tokens(Key \ {k}, c)
    BY <1>9 DEF Tokens
  <2>3. /\ \A j \in Key : b[j] \in Nat /\ c[j] \in Nat
        /\ b[k] = Bytes(t, k) /\ c[k] = Bytes(v, k)
    BY <1>6, <1>8
  <2> HIDE DEF b, c
  <2>4. Cardinality(Tokens(Key, b)) = Cardinality(rest) + b[k]
    BY <2>3, KeyFacts, TokensSplit
  <2>5. Cardinality(Tokens(Key, c)) = Cardinality(rest) + c[k]
    BY <2>2, <2>3, KeyFacts, TokensSplit
  <2>6. Cardinality(rest) \in Nat
    <3>1. IsFiniteSet(Key \ {k})
      BY KeyFacts, FS_RemoveElement
    <3> QED  BY <2>3, <3>1, TokensFinite
  <2> HIDE DEF rest, v
  <2> QED  BY <1>7, <1>10, <2>1, <2>3, <2>4, <2>5, <2>6
<1> QED  BY <1>7, <1>10 DEF puts, dels, Assigned

\* What an entry of the log says the transaction saw.
EntryView(snap, e) ==
  IF e.deleted THEN Absent ELSE IF e.put # Absent THEN e.put ELSE snap[e.key]

\* The view is a state.
LEMMA ViewType ==
  ASSUME NEW t \in Txn
  PROVE  /\ View(t) \in State
         /\ \A k \in Key : View(t)[k] = IF k \in t.dels THEN Absent
                                        ELSE IF t.puts[k] # Absent THEN t.puts[k] ELSE t.snap[k]
<1>1. t.puts \in State /\ t.snap \in State
  BY DEF Txn
<1> QED  BY <1>1, KeyFacts DEF View, State

\* What was seen at a mark: the first entry behind it for a key, or the view.
LEMMA SeenAt ==
  ASSUME NEW t \in Txn, NEW m \in 0..Len(t.undo)
  PROVE  /\ ViewAt(t, m) = [k \in Key |-> ViewAt(t, m)[k]]
         /\ \A k \in Key :
              \/ /\ \A i \in m + 1..Len(t.undo) : t.undo[i].key # k
                 /\ ViewAt(t, m)[k] = View(t)[k]
              \/ \E i \in m + 1..Len(t.undo) :
                   /\ t.undo[i].key = k
                   /\ \A j \in m + 1..i - 1 : t.undo[j].key # k
                   /\ ViewAt(t, m)[k] = EntryView(t.snap, t.undo[i])
<1>1. t.undo \in Seq(Entry) /\ Len(t.undo) \in Nat
  BY DEF Txn, Entry
<1>2. ViewAt(t, m) = [k \in Key |-> ViewAt(t, m)[k]]
  BY DEF ViewAt
<1>3. ASSUME NEW k \in Key
      PROVE  \/ /\ \A i \in m + 1..Len(t.undo) : t.undo[i].key # k
                /\ ViewAt(t, m)[k] = View(t)[k]
             \/ \E i \in m + 1..Len(t.undo) :
                  /\ t.undo[i].key = k
                  /\ \A j \in m + 1..i - 1 : t.undo[j].key # k
                  /\ ViewAt(t, m)[k] = EntryView(t.snap, t.undo[i])
  <2> DEFINE later == {i \in m + 1..Len(t.undo) : t.undo[i].key = k}
             first == CHOOSE i \in later : \A j \in later : i <= j
             e == t.undo[first]
  <2>1. ViewAt(t, m)[k] = IF later = {} THEN View(t)[k]
                          ELSE IF e.deleted THEN Absent
                          ELSE IF e.put # Absent THEN e.put ELSE t.snap[k]
    BY DEF ViewAt
  <2>2. CASE later = {}
    BY <2>1, <2>2
  <2>3. CASE later # {}
    <3>1. later \in SUBSET Nat
      BY <1>1
    <3>2. \E i \in later : \A j \in later : i <= j
      <4> HIDE DEF later
      <4> QED  BY <2>3, <3>1, LeastNatural
    <3>3. first \in later /\ \A j \in later : first <= j
      <4> HIDE DEF later
      <4> QED  BY <3>2
    <3> HIDE DEF first
    <3>4. first \in m + 1..Len(t.undo) /\ t.undo[first].key = k
      BY <3>3
    <3>5. \A j \in m + 1..first - 1 : t.undo[j].key # k
      <4> SUFFICES ASSUME NEW j \in m + 1..first - 1, t.undo[j].key = k PROVE FALSE
        OBVIOUS
      <4>1. j \in later /\ ~(first <= j)
        BY <1>1, <3>4
      <4> QED  BY <3>3, <4>1
    <3>6. ViewAt(t, m)[k] = EntryView(t.snap, t.undo[first])
      <4> HIDE DEF later
      <4> QED  BY <2>1, <2>3, <3>4 DEF EntryView
    <3> HIDE DEF later
    <3> QED  BY <3>4, <3>5, <3>6
  <2> QED  BY <2>2, <2>3
<1> QED  BY <1>2, <1>3

\* What is seen at the end of the log is the view.
LEMMA SeenNow ==
  ASSUME NEW t \in Txn
  PROVE  ViewAt(t, Len(t.undo)) = View(t)
<1>1. Len(t.undo) \in Nat
  BY DEF Txn
<1>2. \A k \in Key : ViewAt(t, Len(t.undo))[k] = View(t)[k]
  BY <1>1, SeenAt
<1>3. View(t) = [k \in Key |-> View(t)[k]]
  BY DEF View
<1>4. ViewAt(t, Len(t.undo)) = [k \in Key |-> ViewAt(t, Len(t.undo))[k]]
  BY <1>1, SeenAt
<1> QED  BY <1>2, <1>3, <1>4

\* What is seen at a mark is a state.
LEMMA SeenType ==
  ASSUME NEW t \in Txn, NEW m \in 0..Len(t.undo)
  PROVE  ViewAt(t, m) \in State
<1>1. t.undo \in Seq(Entry) /\ t.snap \in State /\ Len(t.undo) \in Nat
  BY DEF Txn, Entry
<1>2. \A i \in 1..Len(t.undo) : EntryView(t.snap, t.undo[i]) \in Value
  <2> SUFFICES ASSUME NEW i \in 1..Len(t.undo) PROVE EntryView(t.snap, t.undo[i]) \in Value
    OBVIOUS
  <2>1. t.undo[i] \in Entry
    BY <1>1
  <2> QED  BY <1>1, <2>1, KeyFacts DEF EntryView, Entry, State
<1>3. \A k \in Key : View(t)[k] \in Value
  BY ViewType DEF State
<1>4. \A i \in m + 1..Len(t.undo) : i \in 1..Len(t.undo)
  BY <1>1
<1>5. \A k \in Key : ViewAt(t, m)[k] \in Value
  BY <1>2, <1>3, <1>4, SeenAt
<1> QED  BY <1>5, SeenAt DEF State

\* An entry for what a change of one cell overwrites keeps every earlier view.
LEMMA LogGrows ==
  ASSUME NEW t \in Txn, NEW u \in Txn, NEW e \in Entry, u.snap = t.snap,
         u.undo = Append(t.undo, e), EntryView(t.snap, e) = View(t)[e.key],
         \A k \in Key \ {e.key} : View(u)[k] = View(t)[k],
         NEW m \in 0..Len(t.undo)
  PROVE  ViewAt(u, m) = ViewAt(t, m)
<1> DEFINE N == Len(t.undo)
<1>1. t.undo \in Seq(Entry) /\ N \in Nat
  BY DEF Txn, Entry
<1>2. Len(u.undo) = N + 1 /\ u.undo[N + 1] = e /\ \A i \in 1..N : u.undo[i] = t.undo[i]
  BY <1>1, AppendProperties
<1>3. m \in Nat /\ m <= N /\ m \in 0..Len(u.undo)
  BY <1>1, <1>2
<1>4. ASSUME NEW k \in Key PROVE ViewAt(u, m)[k] = ViewAt(t, m)[k]
  <2>0. ASSUME NEW h \in m + 1..Len(u.undo), u.undo[h].key = k
        PROVE  \E i \in m + 1..Len(u.undo) :
                 /\ u.undo[i].key = k
                 /\ \A j \in m + 1..i - 1 : u.undo[j].key # k
                 /\ ViewAt(u, m)[k] = EntryView(u.snap, u.undo[i])
    <3>1. \/ \A i \in m + 1..Len(u.undo) : u.undo[i].key # k
          \/ \E i \in m + 1..Len(u.undo) :
               /\ u.undo[i].key = k
               /\ \A j \in m + 1..i - 1 : u.undo[j].key # k
               /\ ViewAt(u, m)[k] = EntryView(u.snap, u.undo[i])
      <4>1. \A j \in Key :
              \/ /\ \A i \in m + 1..Len(u.undo) : u.undo[i].key # j
                 /\ ViewAt(u, m)[j] = View(u)[j]
              \/ \E i \in m + 1..Len(u.undo) :
                   /\ u.undo[i].key = j
                   /\ \A l \in m + 1..i - 1 : u.undo[l].key # j
                   /\ ViewAt(u, m)[j] = EntryView(u.snap, u.undo[i])
        BY <1>3, SeenAt
      <4> QED  BY <4>1
    <3> QED  BY <2>0, <3>1
  <2>1. CASE \A i \in m + 1..N : t.undo[i].key # k
    <3>1. ViewAt(t, m)[k] = View(t)[k]
      BY <2>1, SeenAt
    <3>2. \A i \in m + 1..N + 1 : i # N + 1 => i \in m + 1..N /\ i \in 1..N
      BY <1>1, <1>3
    <3>3. CASE k = e.key
      <4>1. PICK i \in m + 1..N + 1 : /\ u.undo[i].key = k
                                      /\ ViewAt(u, m)[k] = EntryView(u.snap, u.undo[i])
        <5>1. N + 1 \in m + 1..Len(u.undo) /\ u.undo[N + 1].key = k
          BY <1>1, <1>2, <1>3, <3>3
        <5> QED  BY <1>2, <2>0, <5>1
      <4>2. i = N + 1
        BY <1>2, <2>1, <3>2, <4>1
      <4> QED  BY <1>2, <3>1, <3>3, <4>1, <4>2
    <3>4. CASE k # e.key
      <4>1. \A i \in m + 1..Len(u.undo) : u.undo[i].key # k
        BY <1>2, <2>1, <3>2, <3>4
      <4>2. ViewAt(u, m)[k] = View(u)[k]
        BY <1>3, <4>1, SeenAt
      <4> QED  BY <3>1, <3>4, <4>2
    <3> QED  BY <3>3, <3>4
  <2>2. CASE \E i \in m + 1..N : t.undo[i].key = k
    <3>1. PICK i \in m + 1..N : /\ t.undo[i].key = k
                                /\ \A j \in m + 1..i - 1 : t.undo[j].key # k
                                /\ ViewAt(t, m)[k] = EntryView(t.snap, t.undo[i])
      BY <2>2, SeenAt
    <3>2. i \in 1..N /\ i \in m + 1..Len(u.undo) /\ \A j \in m + 1..i - 1 : j \in 1..N
      BY <1>1, <1>2, <1>3
    <3>3. u.undo[i] = t.undo[i] /\ \A j \in m + 1..i - 1 : u.undo[j] = t.undo[j]
      BY <1>2, <3>2
    <3>4. PICK h \in m + 1..Len(u.undo) : /\ u.undo[h].key = k
                                          /\ \A j \in m + 1..h - 1 : u.undo[j].key # k
                                          /\ ViewAt(u, m)[k] = EntryView(u.snap, u.undo[h])
      BY <2>0, <3>1, <3>2, <3>3
    <3>5. h = i
      <4>1. h \in Int /\ i \in Int /\ h >= m + 1 /\ i >= m + 1 /\ m \in Int
        BY <1>1, <1>2, <1>3
      <4>2. CASE h < i
        <5>1. h \in m + 1..i - 1
          BY <4>1, <4>2
        <5> QED  BY <3>1, <3>3, <3>4, <5>1
      <4>3. CASE i < h
        <5>1. i \in m + 1..h - 1
          BY <4>1, <4>3
        <5> QED  BY <3>1, <3>3, <3>4, <5>1
      <4> QED  BY <4>1, <4>2, <4>3
    <3> QED  BY <3>1, <3>3, <3>4, <3>5
  <2> QED  BY <2>1, <2>2
<1>5. /\ ViewAt(u, m) = [k \in Key |-> ViewAt(u, m)[k]]
      /\ ViewAt(t, m) = [k \in Key |-> ViewAt(t, m)[k]]
  BY <1>3, SeenAt
<1> QED  BY <1>4, <1>5

\* The bytes of the log, with one more entry.
LEMMA LogBytesGrow ==
  ASSUME NEW t \in Txn, NEW u \in Txn, NEW e \in Entry, u.undo = Append(t.undo, e)
  PROVE  /\ Cardinality(LogBytes(t)) \in Nat /\ UndoBytes(e) \in Nat
         /\ Cardinality(LogBytes(u)) = Cardinality(LogBytes(t)) + UndoBytes(e)
<1> DEFINE N == Len(t.undo)
           c == [i \in 1..N + 1 |-> UndoBytes(u.undo[i])]
<1>1. t.undo \in Seq(Entry) /\ u.undo \in Seq(Entry) /\ N \in Nat
  BY DEF Txn, Entry
<1>2. Len(u.undo) = N + 1 /\ u.undo[N + 1] = e /\ \A i \in 1..N : u.undo[i] = t.undo[i]
  BY <1>1, AppendProperties
<1>3. \A x \in Entry : UndoBytes(x) \in Nat
  <2>1. \A x \in Entry : x.key \in Key /\ x.put \in Value
    BY DEF Entry
  <2>2. \A k \in Key, v \in Value : ValueBytes(k, v) \in Nat
    BY KeyFacts
  <2> QED  BY <2>1, <2>2 DEF UndoBytes
<1>4. \A i \in 1..N + 1 : c[i] \in Nat
  BY <1>1, <1>2, <1>3
<1>5. N + 1 \in 1..N + 1 /\ (1..N + 1) \ {N + 1} = 1..N
  BY <1>1
<1>6. IsFiniteSet(1..N + 1) /\ IsFiniteSet(1..N)
  BY <1>1, FS_Interval
<1>7. LogBytes(u) = Tokens(1..N + 1, c)
  <2>1. DOMAIN u.undo = 1..N + 1
    BY <1>1, <1>2
  <2> QED  BY <2>1 DEF LogBytes, Tokens
<1>8. LogBytes(t) = Tokens(1..N, c)
  <2>1. DOMAIN t.undo = 1..N /\ \A i \in 1..N : i \in 1..N + 1
    BY <1>1
  <2>2. \A i \in 1..N : c[i] = UndoBytes(t.undo[i])
    BY <1>2, <2>1
  <2> QED  BY <2>1, <2>2 DEF LogBytes, Tokens
<1>9. c[N + 1] = UndoBytes(e)
  BY <1>2, <1>5
<1> HIDE DEF c
<1>10. Cardinality(Tokens(1..N + 1, c)) = Cardinality(Tokens(1..N, c)) + c[N + 1]
  <2> DEFINE D == 1..N + 1
  <2>1. IsFiniteSet(D) /\ N + 1 \in D /\ \A i \in D : c[i] \in Nat
    BY <1>4, <1>5, <1>6
  <2> HIDE DEF D
  <2>2. Cardinality(Tokens(D, c)) = Cardinality(Tokens(D \ {N + 1}, c)) + c[N + 1]
    BY <2>1, TokensSplit
  <2> QED  BY <1>5, <2>2 DEF D
<1>11. Cardinality(Tokens(1..N, c)) \in Nat
  <2>1. \A i \in 1..N : c[i] \in Nat
    BY <1>1, <1>4
  <2> QED  BY <1>6, <2>1, TokensFinite
<1> QED  BY <1>3, <1>7, <1>8, <1>9, <1>10, <1>11

\* What staging leads from t to: another buffer and a longer log, from which the same
\* views can be had back.
Staged(t, u) ==
  /\ u \in Txn /\ TxnInv(u) /\ Frame(t, u) /\ u.ranges = t.ranges
  /\ Len(t.undo) <= Len(u.undo)
  /\ Logging(t) => \A m \in 0..Len(t.undo) : ViewAt(u, m) = ViewAt(t, m)

OpOK(snap, op) ==
  op \in [key : Key, val : Value] /\ CellOK(snap, op.key, op.val, op.val = Absent)

\* Staging after staging.
LEMMA StagedTwice ==
  ASSUME NEW t \in Txn, NEW u, NEW v, Staged(t, u), Staged(u, v)
  PROVE  Staged(t, v)
<1>1. Frame(t, v) /\ v \in Txn /\ TxnInv(v) /\ v.ranges = t.ranges
  BY DEF Staged, Frame
<1>2. Len(t.undo) \in Nat /\ Len(u.undo) \in Nat /\ Len(v.undo) \in Nat
  BY DEF Staged, Txn
<1>3. Len(t.undo) <= Len(v.undo)
  BY <1>2 DEF Staged
<1>4. ASSUME Logging(t), NEW m \in 0..Len(t.undo) PROVE ViewAt(v, m) = ViewAt(t, m)
  <2>1. Logging(u)
    BY <1>4 DEF Staged, Frame, Logging
  <2>2. m \in 0..Len(u.undo)
    BY <1>2 DEF Staged
  <2> QED  BY <1>4, <2>1, <2>2 DEF Staged
<1> QED  BY <1>1, <1>3, <1>4 DEF Staged

\* u sees what t sees but for one cell.
Overwritten(t, u, k, put, del) ==
  /\ BufferOK(u)
  /\ \A j \in Key \ {k} : View(u)[j] = View(t)[j]
  /\ View(u)[k] = IF del THEN Absent ELSE IF put # Absent THEN put ELSE t.snap[k]

\* The cells of a buffer with one changed.
LEMMA CellsAssigned ==
  ASSUME NEW t \in Txn, NEW k \in Key, NEW put \in Value, NEW del \in BOOLEAN, del => k \in Row,
         NEW u, u = Assign(t, k, put, del), BufferOK(t), CellOK(t.snap, k, put, del)
  PROVE  Overwritten(t, u, k, put, del)
<1>1. /\ u \in Txn /\ Frame(t, u) /\ u.undo = t.undo
      /\ u.puts = [t.puts EXCEPT ![k] = put]
      /\ u.dels = IF del THEN t.dels \cup {k} ELSE t.dels \ {k}
  <2>1. Assigned(t, u, k, put, del)
    BY AssignFacts, Zenon
  <2> QED  BY <2>1 DEF Assigned
<1>2. u.snap = t.snap
  BY <1>1 DEF Frame
<1>3. /\ u.puts[k] = put /\ (k \in u.dels <=> del)
      /\ \A j \in Key \ {k} : u.puts[j] = t.puts[j] /\ (j \in u.dels <=> j \in t.dels)
  <2>1. t.puts \in State
    BY DEF Txn
  <2> QED  BY <1>1, <2>1 DEF State
<1>4. BufferOK(u)
  <2>1. \A j \in Key : CellOK(t.snap, j, u.puts[j], j \in u.dels)
    <3> SUFFICES ASSUME NEW j \in Key PROVE CellOK(t.snap, j, u.puts[j], j \in u.dels)
      OBVIOUS
    <3>1. CASE j = k
      BY <1>3, <3>1 DEF CellOK
    <3>2. CASE j # k
      BY <1>3, <3>2 DEF BufferOK, CellOK
    <3> QED  BY <3>1, <3>2
  <2>2. u.snap[Meta] \in 0..MaxCount
    BY <1>2 DEF BufferOK
  <2>3. \A i \in DOMAIN u.undo : CellOK(u.snap, u.undo[i].key, u.undo[i].put, u.undo[i].deleted)
    BY <1>1, <1>2 DEF BufferOK
  <2> QED  BY <1>2, <2>1, <2>2, <2>3 DEF BufferOK
<1>5. \A j \in Key : View(u)[j] = IF j \in u.dels THEN Absent
                                  ELSE IF u.puts[j] # Absent THEN u.puts[j] ELSE t.snap[j]
  <2>1. \A j \in Key : View(u)[j] = IF j \in u.dels THEN Absent
                                    ELSE IF u.puts[j] # Absent THEN u.puts[j] ELSE u.snap[j]
    BY <1>1, ViewType
  <2> QED  BY <1>2, <2>1
<1>6. \A j \in Key : View(t)[j] = IF j \in t.dels THEN Absent
                                  ELSE IF t.puts[j] # Absent THEN t.puts[j] ELSE t.snap[j]
  BY ViewType
<1>7. \A j \in Key \ {k} : View(u)[j] = View(t)[j]
  BY <1>3, <1>5, <1>6
<1>8. View(u)[k] = IF del THEN Absent ELSE IF put # Absent THEN put ELSE t.snap[k]
  BY <1>3, <1>5
<1> QED  BY <1>4, <1>7, <1>8 DEF Overwritten

\* b is t with an entry for key k in its log.
Noted(t, b, k, e) ==
  /\ e \in Entry /\ e.key = k /\ EntryView(t.snap, e) = View(t)[k]
  /\ b \in Txn /\ Frame(t, b) /\ b.ranges = t.ranges /\ b.puts = t.puts /\ b.dels = t.dels
  /\ b.mem = t.mem /\ b.undo = Append(t.undo, e) /\ b.undoMem = t.undoMem + UndoBytes(e)
  /\ BufferOK(b) /\ View(b) = View(t)
  /\ b.undoMem = Cardinality(LogBytes(b))

\* A log with one more entry, for what the buffer holds.
LEMMA Logged ==
  ASSUME NEW t \in Txn, TxnInv(t), NEW k \in Key, NEW e, e = UndoEntry(t, k),
         NEW b, b = [t EXCEPT !.undo = Append(@, e), !.undoMem = @ + UndoBytes(e)]
  PROVE  Noted(t, b, k, e)
<1>1. e \in Entry /\ e.key = k /\ e.put = t.puts[k] /\ (e.deleted <=> k \in t.dels)
  <2>1. t.puts[k] \in Value
    BY DEF Txn, State
  <2>2. (k \in t.dels) \in BOOLEAN
    OBVIOUS
  <2>3. PICK x \in Value, d \in BOOLEAN : x = t.puts[k] /\ (d <=> k \in t.dels)
    BY <2>1
  <2>4. e = [key |-> k, put |-> x, deleted |-> d]
    BY <2>3 DEF UndoEntry
  <2> QED  BY <2>3, <2>4 DEF Entry
<1>2. t.undo \in Seq(Entry) /\ t.undoMem \in Int
  BY DEF Txn, Entry
<1>3. UndoBytes(e) \in Nat
  BY <1>1, KeyFacts DEF UndoBytes, Entry
<1> DEFINE l == Append(t.undo, e)
           m == t.undoMem + UndoBytes(e)
<1>4. l \in Seq(Entry) /\ m \in Int
  BY <1>1, <1>2, <1>3, AppendProperties
<1>5. b = [t EXCEPT !.undo = l, !.undoMem = m]
  OBVIOUS
<1> HIDE DEF l, m
<1>6. b \in Txn /\ Frame(t, b) /\ b.ranges = t.ranges /\ b.puts = t.puts /\ b.dels = t.dels
      /\ b.mem = t.mem /\ b.undo = l /\ b.undoMem = m
  BY <1>4, <1>5 DEF Txn, Entry, Frame
<1>7. View(b) = View(t) /\ b.snap = t.snap
  BY <1>6 DEF View, Frame
<1>8. EntryView(t.snap, e) = View(t)[k]
  BY <1>1, ViewType DEF EntryView
<1>9. BufferOK(b)
  <2>1. BufferOK(t)
    BY DEF TxnInv
  <2>2. CellOK(t.snap, e.key, e.put, e.deleted)
    BY <1>1, <2>1 DEF BufferOK, CellOK
  <2>3. \A i \in DOMAIN l : l[i] = e \/ (i \in DOMAIN t.undo /\ l[i] = t.undo[i])
    BY <1>1, <1>2, AppendProperties DEF l
  <2>4. \A i \in DOMAIN l : CellOK(t.snap, l[i].key, l[i].put, l[i].deleted)
    BY <2>1, <2>2, <2>3 DEF BufferOK
  <2> QED  BY <1>6, <1>7, <2>1, <2>4 DEF BufferOK
<1>10. b.undoMem = Cardinality(LogBytes(b))
  <2>1. /\ Cardinality(LogBytes(t)) \in Nat /\ UndoBytes(e) \in Nat
        /\ Cardinality(LogBytes(b)) = Cardinality(LogBytes(t)) + UndoBytes(e)
    BY <1>1, <1>6, LogBytesGrow DEF l
  <2>2. t.undoMem = Cardinality(LogBytes(t))
    BY DEF TxnInv, BytesOK
  <2> QED  BY <1>6, <2>1, <2>2 DEF m
<1> QED  BY <1>1, <1>6, <1>7, <1>8, <1>9, <1>10 DEF l, m, Noted

\* Staging one operation.
LEMMA StageFacts ==
  ASSUME NEW t \in Txn, TxnInv(t), NEW op, OpOK(t.snap, op), NEW r, r = Stage(t, op)
  PROVE  r = [tx |-> r.tx, ok |-> r.ok] /\ r.ok \in BOOLEAN /\ Staged(t, r.tx)
<1> DEFINE k == op.key
           v == op.val
           e == UndoEntry(t, k)
           logged == [t EXCEPT !.undo = Append(@, e), !.undoMem = @ + UndoBytes(e)]
           b == IF Logging(t) THEN logged ELSE t
           u == Assign(b, k, v, v = Absent)
<1>1. k \in Key /\ v \in Value /\ (v = Absent => k \in Row) /\ CellOK(t.snap, k, v, v = Absent)
  BY DEF OpOK, CellOK, Key
<1>2. \E c \in BOOLEAN : r = [tx |-> t, ok |-> c] \/ r = [tx |-> u, ok |-> c]
  <2>1. \/ r = [tx |-> t, ok |-> FALSE]
        \/ r = [tx |-> u, ok |-> u.mem + u.undoMem <= Budget]
    BY DEF Stage
  <2> HIDE DEF u
  <2>2. (u.mem + u.undoMem <= Budget) = TRUE \/ (u.mem + u.undoMem <= Budget) = FALSE
    OBVIOUS
  <2> QED  BY <2>1, <2>2, Zenon
<1>3. Staged(t, t)
  <2>1. Len(t.undo) \in Nat
    BY DEF Txn
  <2> QED  BY <2>1 DEF Staged, Frame
<1>4. PICK d \in BOOLEAN : d <=> v = Absent
  OBVIOUS
<1>5. u = Assign(b, k, v, d) /\ CellOK(t.snap, k, v, d) /\ (d => k \in Row)
  BY <1>1, <1>4 DEF CellOK, Assign
<1>6. /\ e \in Entry /\ e.key = k /\ EntryView(t.snap, e) = View(t)[k]
      /\ logged \in Txn /\ Frame(t, logged) /\ logged.ranges = t.ranges
      /\ logged.puts = t.puts /\ logged.dels = t.dels /\ logged.mem = t.mem
      /\ logged.undo = Append(t.undo, e) /\ BufferOK(logged) /\ View(logged) = View(t)
      /\ logged.undoMem = Cardinality(LogBytes(logged))
  <2> HIDE DEF k, v
  <2>1. PICK x : x = e
    OBVIOUS
  <2>2. PICK y : y = [t EXCEPT !.undo = Append(@, x), !.undoMem = @ + UndoBytes(x)]
    OBVIOUS
  <2>3. y = logged
    BY <2>1, <2>2
  <2> HIDE DEF logged
  <2>4. Noted(t, y, k, x)
    BY <1>1, <2>1, <2>2, Logged, Zenon
  <2> QED  BY <2>1, <2>3, <2>4 DEF Noted
<1> HIDE DEF k, v, e, logged
<1>7. /\ b \in Txn /\ Frame(t, b) /\ b.ranges = t.ranges /\ b.puts = t.puts /\ b.dels = t.dels
      /\ b.mem = t.mem /\ b.undoMem = Cardinality(LogBytes(b)) /\ BufferOK(b) /\ View(b) = View(t)
      /\ b.undo = IF Logging(t) THEN Append(t.undo, e) ELSE t.undo
  <2>1. CASE Logging(t)
    BY <1>6, <2>1
  <2>2. CASE ~Logging(t)
    BY <2>2 DEF TxnInv, BytesOK, Frame
  <2> QED  BY <2>1, <2>2
<1> HIDE DEF b
<1>8. b.snap = t.snap
  BY <1>7 DEF Frame
<1>9. b.mem = Cardinality(BufferBytes(b))
  <2>1. BufferBytes(b) = BufferBytes(t)
    BY <1>7 DEF BufferBytes, Bytes
  <2> QED  BY <1>7, <2>1 DEF TxnInv, BytesOK
<1>10. Assigned(b, u, k, v, d)
  <2> HIDE DEF u
  <2> QED  BY <1>1, <1>5, <1>7, AssignFacts, Zenon
<1>11. BufferOK(u) /\ \A j \in Key \ {k} : View(u)[j] = View(b)[j]
  <2>1. CellOK(b.snap, k, v, d)
    BY <1>5, <1>8
  <2> HIDE DEF u
  <2>2. Overwritten(b, u, k, v, d)
    BY <1>1, <1>5, <1>7, <2>1, CellsAssigned, Zenon
  <2> QED  BY <2>2 DEF Overwritten
<1> HIDE DEF u
<1>12. u \in Txn /\ Frame(t, u) /\ u.ranges = t.ranges /\ u.undo = b.undo /\ u.undoMem = b.undoMem
       /\ u.mem = Cardinality(BufferBytes(u)) /\ u.snap = t.snap
  BY <1>7, <1>9, <1>10 DEF Assigned, Frame
<1>13. BytesOK(u)
  <2>1. LogBytes(u) = LogBytes(b)
    BY <1>12 DEF LogBytes
  <2> QED  BY <1>7, <1>12, <2>1 DEF BytesOK
<1>14. t.undo \in Seq(Entry) /\ Len(t.undo) \in Nat
  BY DEF Txn, Entry
<1>15. CASE Logging(t)
  <2>1. u.undo = Append(t.undo, e) /\ Len(u.undo) = Len(t.undo) + 1
    BY <1>7, <1>12, <1>14, <1>15, <1>6, AppendProperties
  <2>2. \A j \in Key \ {e.key} : View(u)[j] = View(t)[j]
    BY <1>6, <1>7, <1>11
  <2>3. \A m \in 0..Len(t.undo) : ViewAt(u, m) = ViewAt(t, m)
    BY <1>6, <1>12, <2>1, <2>2, LogGrows
  <2>4. MarksOK(u)
    <3>1. u.sps = t.sps /\ Logging(u) /\ MarksOK(t) /\ t.sps \in Seq(Mark)
      BY <1>12, <1>15 DEF Frame, Logging, TxnInv, Txn, Mark
    <3>2. \A i \in DOMAIN t.sps : t.sps[i].mark \in Nat
      <4>1. \A i \in DOMAIN t.sps : t.sps[i] \in Mark
        BY <3>1
      <4> QED  BY <4>1 DEF Mark
    <3> QED  BY <1>14, <2>1, <3>1, <3>2 DEF MarksOK
  <2> QED  BY <1>2, <1>3, <1>11, <1>12, <1>13, <1>14, <2>1, <2>3, <2>4 DEF Staged, TxnInv
<1>16. CASE ~Logging(t)
  <2>1. u.undo = t.undo
    BY <1>7, <1>12, <1>16
  <2>2. MarksOK(u)
    <3>1. u.sps = t.sps /\ MarksOK(t) /\ t.undo = << >>
      BY <1>12, <1>16 DEF Frame, TxnInv, MarksOK
    <3> QED  BY <2>1, <3>1 DEF MarksOK
  <2> QED  BY <1>2, <1>3, <1>11, <1>12, <1>13, <1>14, <1>16, <2>1, <2>2 DEF Staged, TxnInv
<1> QED  BY <1>15, <1>16

\* The results of one operation after another.
Stages(t, ops) ==
  LET r[n \in 0..Len(ops)] ==
        IF n = 0 THEN [tx |-> t, ok |-> TRUE]
        ELSE IF r[n - 1].ok THEN Stage(r[n - 1].tx, ops[n]) ELSE r[n - 1]
  IN  r

\* Staging the operations of a write.
LEMMA StageAllFacts ==
  ASSUME NEW t \in Txn, TxnInv(t), NEW ops \in Seq([key : Key, val : Value]),
         \A n \in 1..Len(ops) : OpOK(t.snap, ops[n]), NEW r, r = StageAll(t, ops)
  PROVE  r.ok \in BOOLEAN /\ Staged(t, r.tx)
<1> DEFINE N == Len(ops)
           S == [tx : {u \in Txn : Staged(t, u)}, ok : BOOLEAN]
           s == [tx |-> t, ok |-> TRUE]
           Go(x, n) == IF x.ok THEN Stage(x.tx, ops[n]) ELSE x
           F == [p \in Nat \X S |-> IF p[1] \in 1..N THEN Go(p[2], p[1]) ELSE p[2]]
           g == Stages(t, ops)
<1>1. r = g[N] /\ N \in Nat
  BY DEF StageAll, Stages
<1>2. s \in S
  <2>1. Staged(t, t)
    BY DEF Staged, Frame, Txn
  <2> QED  BY <2>1
<1>3. ASSUME NEW n \in 1..N, NEW x \in S PROVE Go(x, n) \in S
  <2>1. CASE x.ok
    <3>1. x.tx \in Txn /\ Staged(t, x.tx)
      OBVIOUS
    <3>2. TxnInv(x.tx) /\ OpOK(x.tx.snap, ops[n])
      BY <3>1 DEF Staged, Frame
    <3>3. PICK y : y = Stage(x.tx, ops[n])
      OBVIOUS
    <3>4. y = [tx |-> y.tx, ok |-> y.ok] /\ y.ok \in BOOLEAN /\ Staged(x.tx, y.tx)
      BY <3>1, <3>2, <3>3, StageFacts
    <3>5. Staged(t, y.tx)
      BY <3>1, <3>4, StagedTwice
    <3>6. y.tx \in Txn
      BY <3>5 DEF Staged
    <3>7. y \in S
      BY <3>4, <3>5, <3>6
    <3> HIDE DEF S
    <3> QED  BY <2>1, <3>3, <3>7
  <2>2. CASE ~x.ok
    <3> HIDE DEF S
    <3> QED  BY <2>2
  <2> QED  BY <2>1, <2>2
<1> HIDE DEF S, N, s, Go
<1>4. F \in [Nat \X S -> S]
  BY <1>3
<1>5. \A n \in Nat : \A x \in S : n \in 1..N => F[<<n, x>>] = Go(x, n)
  OBVIOUS
<1> HIDE DEF F
<1>6. PICK f \in [0..N -> S] : GoesOn(f, s, F, N)
  BY <1>1, <1>2, <1>4, Recursion
<1>7. f[0] = s /\ \A n \in 1..N : f[n] = Go(f[n - 1], n)
  <2>0. f[0] = s
    BY <1>6 DEF GoesOn
  <2> SUFFICES ASSUME NEW n \in 1..N PROVE f[n] = Go(f[n - 1], n)
    BY <2>0
  <2>1. n \in Nat /\ f[n-1] \in S /\ f[n] = F[<<n, f[n-1]>>]
    BY <1>1, <1>6 DEF GoesOn
  <2> QED  BY <1>5, <2>1
<1>8. f = [n \in 0..N |-> IF n = 0 THEN s ELSE Go(f[n - 1], n)]
  BY <1>1, <1>6, <1>7
<1>9. g = [n \in 0..N |-> IF n = 0 THEN s ELSE Go(g[n - 1], n)]
  BY <1>8 DEF Stages, N, s, Go
<1> HIDE DEF g
<1>10. g[0] = s /\ \A n \in 1..N : g[n] = Go(g[n - 1], n)
  BY <1>1, <1>9
<1> DEFINE P == {n \in Nat : n <= N => g[n] \in S}
<1>11. 0 \in P
  BY <1>2, <1>10
<1>12. ASSUME NEW n \in Nat, n \in P PROVE n + 1 \in P
  <2>1. CASE n + 1 <= N
    <3>1. n + 1 \in 1..N /\ n + 1 - 1 = n /\ g[n] \in S
      BY <1>1, <1>12, <2>1
    <3>2. g[n + 1] = Go(g[n], n + 1)
      BY <1>10, <3>1
    <3>3. g[n + 1] \in S
      BY <1>3, <3>1, <3>2
    <3> QED  BY <3>3
  <2>2. CASE ~(n + 1 <= N)
    BY <2>2
  <2> QED  BY <2>1, <2>2
<1> HIDE DEF P
<1>13. Nat \subseteq P
  BY <1>11, <1>12, SetInduction
<1>14. g[N] \in S
  BY <1>1, <1>13 DEF P
<1> QED  BY <1>1, <1>14 DEF S

----------------------------------------------------------------------------
(* Undoing *)

\* u is t with part of its log undone.
Undone(t, u) ==
  /\ u \in Txn /\ Frame(t, u) /\ u.ranges = t.ranges
  /\ BufferOK(u) /\ BytesOK(u)
  /\ Len(u.undo) <= Len(t.undo)
  /\ \A i \in 1..Len(u.undo) : u.undo[i] = t.undo[i]
  /\ \A m \in 0..Len(u.undo) : ViewAt(u, m) = ViewAt(t, m)

\* Undoing after undoing.
LEMMA UndoneTwice ==
  ASSUME NEW t \in Txn, NEW u, NEW v, Undone(t, u), Undone(u, v)
  PROVE  Undone(t, v)
<1>1. Len(t.undo) \in Nat /\ Len(u.undo) \in Nat /\ Len(v.undo) \in Nat
  BY DEF Undone, Txn
<1>2. Len(v.undo) <= Len(u.undo) /\ Len(u.undo) <= Len(t.undo)
  BY DEF Undone
<1>3. \A i \in 1..Len(v.undo) : i \in 1..Len(u.undo)
  BY <1>1, <1>2
<1>4. \A m \in 0..Len(v.undo) : m \in 0..Len(u.undo)
  BY <1>1, <1>2
<1>5. Len(v.undo) <= Len(t.undo)
  BY <1>1, <1>2
<1>6. Frame(t, v) /\ v \in Txn /\ v.ranges = t.ranges /\ BufferOK(v) /\ BytesOK(v)
  BY DEF Undone, Frame
<1>7. \A i \in 1..Len(v.undo) : v.undo[i] = t.undo[i]
  BY <1>3 DEF Undone
<1>8. \A m \in 0..Len(v.undo) : ViewAt(v, m) = ViewAt(t, m)
  BY <1>4 DEF Undone
<1> QED  BY <1>5, <1>6, <1>7, <1>8 DEF Undone

\* Undoing the last entry.
LEMMA UndoLastFacts ==
  ASSUME NEW t \in Txn, BufferOK(t), BytesOK(t), Len(t.undo) # 0, NEW u, u = UndoLast(t)
  PROVE  Undone(t, u) /\ Len(u.undo) = Len(t.undo) - 1
<1>0. PICK N \in Nat : N + 1 = Len(t.undo)
  <2>1. Len(t.undo) \in Nat
    BY DEF Txn
  <2>2. Len(t.undo) - 1 \in Nat /\ Len(t.undo) - 1 + 1 = Len(t.undo)
    BY <2>1
  <2> QED  BY <2>2
<1>1. PICK e : e = t.undo[N + 1]
  OBVIOUS
<1>2. t.undo \in Seq(Entry) /\ e \in Entry
  <2>1. t.undo \in Seq(Entry)
    BY DEF Txn, Entry
  <2>2. N + 1 \in 1..Len(t.undo)
    BY <1>0
  <2> QED  BY <1>1, <2>1, <2>2
<1>3. PICK l : l = SubSeq(t.undo, 1, N)
  OBVIOUS
<1>4. l \in Seq(Entry) /\ Len(l) = N /\ (\A i \in 1..N : l[i] = t.undo[i]) /\ t.undo = Append(l, e)
  <2>1. l \in Seq(Entry) /\ Len(l) = N /\ \A i \in 1..N : l[i] = t.undo[i]
    BY <1>0, <1>2, <1>3, SubSeqProperties
  <2> QED  BY <1>0, <1>1, <1>2, <2>1, AppendProperties
<1>5. PICK b : b = [t EXCEPT !.undo = l, !.undoMem = @ - UndoBytes(e)]
  OBVIOUS
<1>6. u = Assign(b, e.key, e.put, e.deleted)
  <2>1. Len(t.undo) = N + 1 /\ Len(t.undo) - 1 = N
    BY <1>0
  <2> QED  BY <2>1, <1>1, <1>3, <1>5 DEF UndoLast
<1>7. UndoBytes(e) \in Nat /\ e.key \in Key /\ e.put \in Value /\ e.deleted \in BOOLEAN
  <2>1. e.key \in Key /\ e.put \in Value /\ e.deleted \in BOOLEAN
    BY <1>2 DEF Entry
  <2>2. ValueBytes(e.key, e.put) \in Nat
    BY <2>1, KeyFacts
  <2> QED  BY <2>1, <2>2 DEF UndoBytes
<1>8. b \in Txn /\ Frame(t, b) /\ b.ranges = t.ranges /\ b.puts = t.puts /\ b.dels = t.dels
      /\ b.mem = t.mem /\ b.undo = l /\ b.undoMem = t.undoMem - UndoBytes(e)
  <2> DEFINE m == t.undoMem - UndoBytes(e)
  <2>1. m \in Int
    BY <1>7 DEF Txn
  <2>2. b = [t EXCEPT !.undo = l, !.undoMem = m]
    BY <1>5
  <2> HIDE DEF m
  <2> QED  BY <1>4, <2>1, <2>2 DEF Txn, Entry, Frame, m
<1>9. View(b) = View(t) /\ b.snap = t.snap
  BY <1>8 DEF View, Frame
<1>10. BufferOK(b) /\ CellOK(t.snap, e.key, e.put, e.deleted)
  <2>1. DOMAIN t.undo = 1..N + 1 /\ DOMAIN l = 1..N /\ N + 1 \in 1..N + 1 /\ \A i \in 1..N : i \in 1..N + 1
    BY <1>0, <1>2, <1>4
  <2>2. \A i \in 1..N + 1 : CellOK(t.snap, t.undo[i].key, t.undo[i].put, t.undo[i].deleted)
    BY <2>1 DEF BufferOK
  <2>3. \A i \in DOMAIN l : CellOK(t.snap, l[i].key, l[i].put, l[i].deleted)
    BY <1>4, <2>1, <2>2
  <2>4. CellOK(t.snap, e.key, e.put, e.deleted)
    BY <1>1, <2>1, <2>2
  <2> QED  BY <1>8, <1>9, <2>3, <2>4 DEF BufferOK
<1>11. e.deleted => e.key \in Row
  BY <1>7, <1>10 DEF CellOK, Key
<1>12. Assigned(b, u, e.key, e.put, e.deleted)
  BY <1>6, <1>7, <1>8, <1>11, AssignFacts, Zenon
<1>13. Overwritten(b, u, e.key, e.put, e.deleted)
  <2>1. CellOK(b.snap, e.key, e.put, e.deleted)
    BY <1>9, <1>10
  <2> QED  BY <1>6, <1>7, <1>8, <1>10, <1>11, <2>1, CellsAssigned, Zenon
<1>14. u \in Txn /\ Frame(t, u) /\ u.ranges = t.ranges /\ u.undo = l /\ u.undoMem = b.undoMem
       /\ u.snap = t.snap
  BY <1>8, <1>12 DEF Assigned, Frame
<1>15. BytesOK(u)
  <2>1. BufferBytes(b) = BufferBytes(t)
    BY <1>8 DEF BufferBytes, Bytes
  <2>2. b.mem = Cardinality(BufferBytes(b))
    BY <1>8, <2>1 DEF BytesOK
  <2>3. u.mem = Cardinality(BufferBytes(u))
    BY <1>12, <2>2 DEF Assigned
  <2>4. t.undo = Append(u.undo, e)
    BY <1>4, <1>14
  <2>5. /\ Cardinality(LogBytes(u)) \in Nat
        /\ Cardinality(LogBytes(t)) = Cardinality(LogBytes(u)) + UndoBytes(e)
    BY <1>2, <1>14, <2>4, LogBytesGrow
  <2>6. u.undoMem = Cardinality(LogBytes(t)) - UndoBytes(e)
    BY <1>8, <1>14 DEF BytesOK
  <2> QED  BY <1>7, <2>3, <2>5, <2>6 DEF BytesOK
<1>16. EntryView(u.snap, e) = View(u)[e.key] /\ \A k \in Key \ {e.key} : View(t)[k] = View(u)[k]
  BY <1>9, <1>13, <1>14 DEF Overwritten, EntryView
<1>17. \A m \in 0..Len(u.undo) : ViewAt(u, m) = ViewAt(t, m)
  <2>1. t.undo = Append(u.undo, e) /\ t.snap = u.snap
    BY <1>4, <1>14
  <2> QED  BY <1>2, <1>14, <1>16, <2>1, LogGrows
<1>18. BufferOK(u)
  BY <1>13 DEF Overwritten
<1> QED  BY <1>0, <1>4, <1>14, <1>15, <1>17, <1>18 DEF Undone

SameBuffer(t, u) ==
  /\ u.snap = t.snap /\ u.puts = t.puts /\ u.dels = t.dels
  /\ u.undo = t.undo /\ u.undoMem = t.undoMem /\ u.mem = t.mem

\* What depends on the buffer and its log alone.
LEMMA SameBufferFacts ==
  ASSUME NEW t, NEW u, SameBuffer(t, u)
  PROVE  /\ View(u) = View(t)
         /\ \A m : ViewAt(u, m) = ViewAt(t, m)
         /\ BufferOK(t) => BufferOK(u)
         /\ BytesOK(t) => BytesOK(u)
<1>1. View(u) = View(t)
  BY DEF SameBuffer, View
<1>2. \A m : ViewAt(u, m) = ViewAt(t, m)
  BY <1>1 DEF SameBuffer, ViewAt
<1>3. BufferOK(t) => BufferOK(u)
  BY DEF SameBuffer, BufferOK
<1>4. BufferBytes(u) = BufferBytes(t) /\ LogBytes(u) = LogBytes(t)
  BY DEF SameBuffer, BufferBytes, LogBytes, Bytes
<1> QED  BY <1>1, <1>2, <1>3, <1>4 DEF SameBuffer, BytesOK

\* u is t rolled back to a mark.
RolledBack(t, u, mark) ==
  /\ u \in Txn /\ Frame(t, u)
  /\ BufferOK(u) /\ BytesOK(u)
  /\ Len(u.undo) = mark
  /\ View(u) = ViewAt(t, mark)
  /\ \A m \in 0..mark : ViewAt(u, m) = ViewAt(t, m)
  /\ \E n \in 0..Len(t.ranges) : u.ranges = SubSeq(t.ranges, 1, n)

\* The log as its entries are undone.
Undos(t) ==
  LET f[n \in 0..Len(t.undo)] == IF n = 0 THEN t ELSE UndoLast(f[n - 1])
  IN  f

\* Entries undone, newest first.
LEMMA UndosFacts ==
  ASSUME NEW t \in Txn, BufferOK(t), BytesOK(t)
  PROVE  \A n \in 0..Len(t.undo) : Undone(t, Undos(t)[n]) /\ Len(Undos(t)[n].undo) = Len(t.undo) - n
<1> DEFINE N == Len(t.undo)
           S == {u \in Txn : Undone(t, u)}
           Full(x, n) == Len(x.undo) = N - n + 1
           F == [p \in Nat \X S |-> IF p[1] \in 1..N /\ Full(p[2], p[1]) THEN UndoLast(p[2]) ELSE p[2]]
           g == Undos(t)
<1>1. N \in Nat
  BY DEF Txn
<1>2. t \in S
  BY <1>1 DEF Undone, Frame
<1>3. ASSUME NEW n \in 1..N, NEW x \in S, Full(x, n)
      PROVE  UndoLast(x) \in S /\ Len(UndoLast(x).undo) = N - n
  <2>1. x \in Txn /\ Undone(t, x) /\ BufferOK(x) /\ BytesOK(x)
    BY DEF Undone
  <2>2. Len(x.undo) # 0 /\ Len(x.undo) - 1 = N - n
    BY <1>1, <1>3
  <2>3. PICK y : y = UndoLast(x)
    OBVIOUS
  <2>4. Undone(x, y) /\ Len(y.undo) = Len(x.undo) - 1
    BY <2>1, <2>2, <2>3, UndoLastFacts
  <2>5. Undone(t, y)
    BY <2>1, <2>4, UndoneTwice
  <2>6. y \in S
    BY <2>5 DEF Undone
  <2> HIDE DEF S
  <2> QED  BY <2>2, <2>3, <2>4, <2>6
<1> HIDE DEF S, N
<1>4. F \in [Nat \X S -> S]
  <2> HIDE DEF Full
  <2> QED  BY <1>3
<1>5. \A n \in Nat : \A x \in S : n \in 1..N /\ Full(x, n) => F[<<n, x>>] = UndoLast(x)
  <2> HIDE DEF Full
  <2> QED  OBVIOUS
<1> HIDE DEF F
<1>6. PICK f \in [0..N -> S] : GoesOn(f, t, F, N)
  BY <1>1, <1>2, <1>4, Recursion
<1>7. \A n \in 0..N : Len(f[n].undo) = N - n
  <2> DEFINE P == {n \in Nat : n <= N => Len(f[n].undo) = N - n}
  <2>1. 0 \in P
    BY <1>1, <1>6 DEF GoesOn, N
  <2>2. ASSUME NEW n \in Nat, n \in P PROVE n + 1 \in P
    <3>1. CASE n + 1 <= N
      <4>1. n + 1 \in 1..N /\ n + 1 - 1 = n /\ f[n] \in S /\ Len(f[n].undo) = N - n /\ n + 1 \in Nat
        BY <1>1, <2>2, <3>1
      <4>2. Full(f[n], n + 1)
        BY <1>1, <4>1
      <4>3. f[n + 1] = F[<<n + 1, f[n]>>]
        BY <1>6, <4>1 DEF GoesOn
      <4>4. f[n + 1] = UndoLast(f[n])
        <5> HIDE DEF Full
        <5> QED  BY <1>5, <4>1, <4>2, <4>3
      <4>5. Len(f[n + 1].undo) = N - (n + 1)
        <5> HIDE DEF Full
        <5> QED  BY <1>3, <4>1, <4>2, <4>4
      <4> QED  BY <4>5
    <3>2. CASE ~(n + 1 <= N)
      BY <3>2
    <3> QED  BY <3>1, <3>2
  <2> HIDE DEF P
  <2>3. Nat \subseteq P
    BY <2>1, <2>2, SetInduction
  <2> QED  BY <1>1, <2>3 DEF P
<1>8. f[0] = t /\ \A n \in 1..N : f[n] = UndoLast(f[n - 1])
  <2>0. f[0] = t
    BY <1>6 DEF GoesOn
  <2> SUFFICES ASSUME NEW n \in 1..N PROVE f[n] = UndoLast(f[n - 1])
    BY <2>0
  <2>1. n \in Nat /\ n - 1 \in 0..N /\ f[n-1] \in S /\ f[n] = F[<<n, f[n-1]>>]
    BY <1>1, <1>6 DEF GoesOn
  <2>2. Len(f[n-1].undo) = N - (n - 1)
    BY <1>7, <2>1
  <2>3. Full(f[n-1], n)
    BY <1>1, <2>2
  <2> HIDE DEF Full
  <2> QED  BY <1>5, <2>1, <2>3
<1>9. f = [n \in 0..N |-> IF n = 0 THEN t ELSE UndoLast(f[n - 1])]
  BY <1>1, <1>6, <1>8
<1>10. g = [n \in 0..N |-> IF n = 0 THEN t ELSE UndoLast(g[n - 1])]
  BY <1>9 DEF Undos, N
<1> HIDE DEF g
<1>11. g[0] = t /\ \A n \in 1..N : g[n] = UndoLast(g[n - 1])
  BY <1>1, <1>10
<1> DEFINE P == {n \in Nat : n <= N => g[n] \in S /\ Len(g[n].undo) = N - n}
<1>12. 0 \in P
  BY <1>1, <1>2, <1>11 DEF N
<1>13. ASSUME NEW n \in Nat, n \in P PROVE n + 1 \in P
  <2>1. CASE n + 1 <= N
    <3>1. n + 1 \in 1..N /\ n + 1 - 1 = n /\ g[n] \in S /\ Len(g[n].undo) = N - n
      BY <1>1, <1>13, <2>1
    <3>2. g[n + 1] = UndoLast(g[n])
      BY <1>11, <3>1
    <3>3. Full(g[n], n + 1)
      BY <1>1, <3>1
    <3>4. g[n + 1] \in S /\ Len(g[n + 1].undo) = N - (n + 1)
      <4> HIDE DEF Full
      <4> QED  BY <1>3, <3>1, <3>2, <3>3
    <3> QED  BY <3>4
  <2>2. CASE ~(n + 1 <= N)
    BY <2>2
  <2> QED  BY <2>1, <2>2
<1> HIDE DEF P
<1>14. Nat \subseteq P
  BY <1>12, <1>13, SetInduction
<1>15. \A n \in 0..N : g[n] \in S /\ Len(g[n].undo) = N - n
  BY <1>1, <1>14 DEF P
<1> QED  BY <1>15 DEF S, N, g

\* Rolling back to a mark gives back what was seen there.
LEMMA RollbackFacts ==
  ASSUME NEW t \in Txn, BufferOK(t), BytesOK(t), NEW mark \in 0..Len(t.undo), NEW rl \in Nat,
         NEW u, u = RollbackTxTo(t, mark, rl)
  PROVE  RolledBack(t, u, mark)
<1> DEFINE N == Len(t.undo)
           x == IF N > mark THEN Undos(t)[N - mark] ELSE t
<1>1. N \in Nat /\ mark \in Nat /\ mark <= N
  BY DEF Txn
<1>2. u = [x EXCEPT !.ranges = SubSeq(@, 1, IF rl < Len(@) THEN rl ELSE Len(@))]
  BY DEF RollbackTxTo, Undos
<1>3. Undone(t, x) /\ Len(x.undo) = mark
  <2>1. CASE N > mark
    <3>1. N - mark \in 0..N /\ N - (N - mark) = mark
      BY <1>1
    <3>2. PICK d \in 0..N : d = N - mark
      BY <3>1
    <3>3. Undone(t, Undos(t)[d]) /\ Len(Undos(t)[d].undo) = N - d
      BY <3>2, UndosFacts
    <3> QED  BY <2>1, <3>1, <3>2, <3>3
  <2>2. CASE ~(N > mark)
    <3>1. N = mark
      BY <1>1, <2>2
    <3> QED  BY <1>1, <2>2, <3>1 DEF Undone, Frame
  <2> QED  BY <2>1, <2>2
<1> HIDE DEF x, N
<1>4. x \in Txn /\ x.ranges = t.ranges /\ t.ranges \in Seq(Span) /\ Len(t.ranges) \in Nat
  BY <1>3 DEF Undone, Txn
<1>5. PICK n \in 0..Len(t.ranges) : n = IF rl < Len(t.ranges) THEN rl ELSE Len(t.ranges)
  BY <1>4
<1>6. PICK R : R = SubSeq(t.ranges, 1, n)
  OBVIOUS
<1>7. R \in Seq(Span)
  BY <1>4, <1>6, SubSeqProperties
<1>8. u = [x EXCEPT !.ranges = R]
  BY <1>2, <1>4, <1>5, <1>6
<1>9. u \in Txn /\ u.ranges = R /\ Frame(x, u) /\ SameBuffer(x, u)
  BY <1>4, <1>7, <1>8 DEF Txn, Frame, SameBuffer
<1>10. /\ View(u) = View(x) /\ BufferOK(u) /\ BytesOK(u)
       /\ \A m : ViewAt(u, m) = ViewAt(x, m)
  BY <1>3, <1>9, SameBufferFacts DEF Undone
<1>11. Len(u.undo) = mark
  BY <1>3, <1>9 DEF SameBuffer
<1>12. Frame(t, u)
  BY <1>3, <1>9 DEF Undone, Frame
<1>13. \A m \in 0..mark : ViewAt(u, m) = ViewAt(t, m)
  BY <1>3, <1>10 DEF Undone
<1>14. View(u) = ViewAt(t, mark)
  <2>1. ViewAt(u, mark) = View(u)
    BY <1>9, <1>11, SeenNow
  <2> QED  BY <1>1, <1>13, <2>1
<1> QED  BY <1>5, <1>6, <1>9, <1>10, <1>11, <1>12, <1>13, <1>14 DEF RolledBack

----------------------------------------------------------------------------
(* Beginning, savepoints, checkpoints *)

Kept(t, u) ==
  u.snap = t.snap /\ u.ro = t.ro /\ u.ser = t.ser /\ u.reads = t.reads /\ u.locked = t.locked

\* A log without entries has no bytes.
LEMMA NoLog ==
  ASSUME NEW t, t.undo = << >>
  PROVE  Cardinality(LogBytes(t)) = 0
<1>1. LogBytes(t) = {}
  BY DEF LogBytes
<1> QED  BY <1>1, FS_EmptySet

\* A transaction that begins.
LEMMA NewTxnFacts ==
  ASSUME NEW d \in State, d[Meta] \in 0..MaxCount, NEW ro \in BOOLEAN, NEW ser \in BOOLEAN,
         NEW t, t = NewTxn(d, ro, ser)
  PROVE  /\ t \in Txn /\ TxnInv(t) /\ View(t) = d
         /\ t.snap = d /\ t.ro = ro /\ t.ser = ser /\ t.reads = {} /\ t.locked = {}
         /\ t.sps = << >> /\ t.cps = 0 /\ t.undo = << >> /\ t.ranges = << >>
<1>1. Nothing \in State
  BY KeyFacts DEF Nothing, State
<1> HIDE DEF Nothing
<1>2. t \in Txn
  BY <1>1 DEF NewTxn, Txn
<1>3. /\ t.snap = d /\ t.ro = ro /\ t.ser = ser /\ t.reads = {} /\ t.locked = {}
      /\ t.sps = << >> /\ t.cps = 0 /\ t.undo = << >> /\ t.ranges = << >>
      /\ t.puts = Nothing /\ t.dels = {} /\ t.undoMem = 0 /\ t.mem = 0
  BY DEF NewTxn
<1>4. \A k \in Key : t.puts[k] = Absent
  BY <1>3 DEF Nothing
<1>5. View(t) = d
  <2>1. \A k \in Key : View(t)[k] = d[k]
    BY <1>2, <1>3, <1>4, ViewType
  <2>2. View(t) \in State
    BY <1>2, ViewType
  <2> QED  BY <2>1, <2>2 DEF State
<1>6. BufferOK(t)
  <2>1. \A k \in Key : CellOK(t.snap, k, t.puts[k], k \in t.dels)
    BY <1>3, <1>4 DEF CellOK
  <2>2. DOMAIN t.undo = {}
    BY <1>3
  <2> QED  BY <1>3, <2>1, <2>2 DEF BufferOK
<1>7. BytesOK(t)
  <2>1. \A k \in Key : Bytes(t, k) = 0
    BY <1>3, <1>4 DEF Bytes, PutBytes
  <2>2. \A k \in Key : {k} \X (1..Bytes(t, k)) = {}
    BY <2>1
  <2>3. BufferBytes(t) = {}
    BY <2>2 DEF BufferBytes
  <2>4. Cardinality(LogBytes(t)) = 0
    BY <1>3, NoLog
  <2> QED  BY <1>3, <2>3, <2>4, FS_EmptySet DEF BytesOK
<1>8. MarksOK(t)
  <2>1. DOMAIN t.sps = {}
    BY <1>3
  <2> QED  BY <1>3, <2>1 DEF MarksOK
<1> QED  BY <1>2, <1>3, <1>5, <1>6, <1>7, <1>8 DEF TxnInv

\* The log is dropped if nothing needs it.
LEMMA DropLogFacts ==
  ASSUME NEW t \in Txn, BufferOK(t), BytesOK(t), NEW u, u = DropLog(t),
         \A i \in DOMAIN t.sps : t.sps[i].mark <= Len(t.undo),
         \A i, j \in DOMAIN t.sps : i <= j => t.sps[i].mark <= t.sps[j].mark
  PROVE  /\ u \in Txn /\ TxnInv(u) /\ Frame(t, u) /\ u.ranges = t.ranges /\ View(u) = View(t)
         /\ Logging(t) => u = t
<1>1. CASE Logging(t)
  <2>1. u = t
    BY <1>1 DEF DropLog
  <2> QED  BY <1>1, <2>1 DEF TxnInv, MarksOK, Frame
<1>2. CASE ~Logging(t)
  <2>1. u = [t EXCEPT !.undo = << >>, !.undoMem = 0]
    BY <1>2 DEF DropLog
  <2>2. PICK l \in Seq(Entry), z \in Int : l = << >> /\ z = 0
    <3>1. << >> \in Seq(Entry) /\ 0 \in Int
      BY EmptySeq
    <3> QED  BY <3>1
  <2>a. u = [t EXCEPT !.undo = l, !.undoMem = z]
    BY <2>1, <2>2
  <2>b. /\ u \in Txn /\ Frame(t, u) /\ u.ranges = t.ranges /\ u.puts = t.puts /\ u.dels = t.dels
        /\ u.mem = t.mem /\ u.undo = l /\ u.undoMem = z /\ u.snap = t.snap
    BY <2>a DEF Txn, Frame, Entry
  <2>3. /\ u \in Txn /\ Frame(t, u) /\ u.ranges = t.ranges /\ u.puts = t.puts /\ u.dels = t.dels
        /\ u.mem = t.mem /\ u.undo = << >> /\ u.undoMem = 0 /\ u.snap = t.snap
    BY <2>2, <2>b
  <2>4. View(u) = View(t)
    BY <2>3 DEF View
  <2>5. BufferOK(u)
    <3>1. DOMAIN u.undo = {}
      BY <2>3
    <3> QED  BY <2>3, <3>1 DEF BufferOK
  <2>6. BytesOK(u)
    <3>1. BufferBytes(u) = BufferBytes(t)
      BY <2>3 DEF BufferBytes, Bytes
    <3>2. Cardinality(LogBytes(u)) = 0
      BY <2>3, NoLog
    <3> QED  BY <2>3, <3>1, <3>2 DEF BytesOK
  <2>7. MarksOK(u)
    <3>1. t.sps = << >>
      BY <1>2 DEF Logging
    <3>2. DOMAIN u.sps = {}
      BY <2>3, <3>1 DEF Frame
    <3> QED  BY <2>3, <3>2 DEF MarksOK
  <2> QED  BY <1>2, <2>3, <2>4, <2>5, <2>6, <2>7 DEF TxnInv
<1> QED  BY <1>1, <1>2

\* The savepoints of other names, and w is them in their order.
Others(sps, name) == {i \in DOMAIN sps : sps[i].name # name}
Thinned(sps, I, w) ==
  /\ Cardinality(I) \in Nat /\ w \in Seq(Mark) /\ Len(w) = Cardinality(I)
  /\ \A n \in 1..Len(w) : Nth(I, n) \in DOMAIN sps /\ w[n] = sps[Nth(I, n)]
  /\ \A m, n \in 1..Len(w) : m <= n => Nth(I, m) <= Nth(I, n)

\* Savepoints of other names stay, in their order.
LEMMA WithoutFacts ==
  ASSUME NEW sps \in Seq(Mark), NEW name, NEW I, I = Others(sps, name),
         NEW w, w = Without(sps, name)
  PROVE  Thinned(sps, I, w)
<1>1. DOMAIN sps = 1..Len(sps) /\ Len(sps) \in Nat
  OBVIOUS
<1>2. I \in SUBSET Nat /\ IsFiniteSet(I)
  <2>1. IsFiniteSet(1..Len(sps))
    BY <1>1, FS_Interval
  <2>2. I \subseteq 1..Len(sps)
    BY <1>1 DEF Others
  <2> QED  BY <2>1, <2>2, FS_Subset
<1>3. /\ Cardinality(I) \in Nat
      /\ \A k \in I : Place(I, k) \in 1..Cardinality(I) /\ Nth(I, Place(I, k)) = k
      /\ \A j, k \in I : Place(I, j) <= Place(I, k) <=> j <= k
      /\ \A n \in 1..Cardinality(I) : Nth(I, n) \in I /\ Place(I, Nth(I, n)) = n
  BY <1>2, Places
<1>4. PICK c \in Nat : c = Cardinality(I)
  BY <1>3
<1>5. w = [n \in 1..c |-> sps[Nth(I, n)]]
  BY <1>4 DEF Without, Others
<1>6. \A n \in 1..c : Nth(I, n) \in DOMAIN sps /\ sps[Nth(I, n)] \in Mark
  BY <1>3, <1>4 DEF Others
<1>7. w \in Seq(Mark) /\ Len(w) = c
  BY <1>5, <1>6
<1>8. ASSUME NEW m \in 1..c, NEW n \in 1..c, m <= n PROVE Nth(I, m) <= Nth(I, n)
  <2>1. Nth(I, m) \in I /\ Place(I, Nth(I, m)) = m /\ Nth(I, n) \in I /\ Place(I, Nth(I, n)) = n
    BY <1>3, <1>4
  <2> QED  BY <1>3, <1>8, <2>1
<1>9. \A n \in 1..c : w[n] = sps[Nth(I, n)]
  BY <1>5
<1> QED  BY <1>4, <1>6, <1>7, <1>8, <1>9 DEF Thinned

\* Setting a savepoint.
LEMMA SavepointFacts ==
  ASSUME NEW t \in Txn, TxnInv(t), NEW name \in Name, NEW u, u = Savepoint(t, name)
  PROVE  /\ u \in Txn /\ TxnInv(u) /\ SameBuffer(t, u) /\ Kept(t, u) /\ u.ranges = t.ranges
         /\ u.cps = t.cps
         /\ u.sps = Append(Without(t.sps, name),
                           [name |-> name, mark |-> Len(t.undo), rangesLen |-> Len(t.ranges)])
<1>1. PICK w : w = Without(t.sps, name)
  OBVIOUS
<1>2. PICK I : I = Others(t.sps, name)
  OBVIOUS
<1>3. t.sps \in Seq(Mark) /\ Len(t.undo) \in Nat /\ Len(t.ranges) \in Nat
  BY DEF Txn, Mark
<1>4. /\ w \in Seq(Mark)
      /\ \A n \in 1..Len(w) : Nth(I, n) \in DOMAIN t.sps /\ w[n] = t.sps[Nth(I, n)]
      /\ \A m, n \in 1..Len(w) : m <= n => Nth(I, m) <= Nth(I, n)
  <2>1. Thinned(t.sps, I, w)
    BY <1>1, <1>2, <1>3, WithoutFacts, Zenon
  <2> QED  BY <2>1 DEF Thinned
<1>5. PICK p \in Mark : p = [name |-> name, mark |-> Len(t.undo), rangesLen |-> Len(t.ranges)]
  BY <1>3 DEF Mark
<1>6. PICK sps : sps = Append(w, p)
  OBVIOUS
<1>7. /\ sps \in Seq(Mark) /\ Len(w) \in Nat /\ Len(sps) = Len(w) + 1
      /\ sps[Len(w) + 1] = p /\ \A n \in 1..Len(w) : sps[n] = w[n]
  BY <1>4, <1>5, <1>6, AppendProperties
<1>8. u = [t EXCEPT !.sps = sps]
  BY <1>1, <1>5, <1>6 DEF Savepoint
<1>9. u \in Txn /\ SameBuffer(t, u) /\ Kept(t, u) /\ u.ranges = t.ranges /\ u.cps = t.cps /\ u.sps = sps
  BY <1>7, <1>8 DEF Txn, Mark, SameBuffer, Kept
<1>10. BufferOK(u) /\ BytesOK(u)
  BY <1>9, SameBufferFacts DEF TxnInv
<1>11. MarksOK(u)
  <2>1. /\ \A i \in DOMAIN t.sps : t.sps[i].mark <= Len(t.undo)
        /\ \A i, j \in DOMAIN t.sps : i <= j => t.sps[i].mark <= t.sps[j].mark
    BY DEF TxnInv, MarksOK
  <2>2. DOMAIN sps = 1..Len(w) + 1 /\ u.undo = t.undo /\ p.mark = Len(t.undo)
    BY <1>5, <1>7, <1>9 DEF SameBuffer
  <2>3. \A n \in 1..Len(w) : sps[n].mark <= Len(t.undo)
    BY <1>4, <1>7, <2>1
  <2>4. \A n \in DOMAIN sps : n = Len(w) + 1 \/ n \in 1..Len(w)
    BY <1>7, <2>2
  <2>5. \A n \in DOMAIN sps : sps[n].mark <= Len(t.undo)
    BY <1>3, <1>7, <2>2, <2>3, <2>4
  <2>6. \A m, n \in 1..Len(w) : m <= n => sps[m].mark <= sps[n].mark
    BY <1>4, <1>7, <2>1
  <2>7. ASSUME NEW m \in DOMAIN sps, NEW n \in DOMAIN sps, m <= n
        PROVE  sps[m].mark <= sps[n].mark
    <3>1. CASE n = Len(w) + 1
      BY <1>7, <2>2, <2>5, <3>1
    <3>2. CASE n # Len(w) + 1
      <4>1. m \in 1..Len(w) /\ n \in 1..Len(w)
        BY <1>7, <2>2, <2>7, <3>2
      <4> QED  BY <2>6, <2>7, <4>1
    <3> QED  BY <3>1, <3>2
  <2>8. Logging(u)
    <3>1. sps # << >>
      BY <1>7
    <3> QED  BY <1>9, <3>1 DEF Logging
  <2> QED  BY <1>9, <2>2, <2>5, <2>7, <2>8 DEF MarksOK
<1> QED  BY <1>1, <1>5, <1>6, <1>9, <1>10, <1>11 DEF TxnInv

\* u is t rolled back to a mark, with the first n savepoints left.
Cut(t, u, mark, n) ==
  /\ u \in Txn /\ TxnInv(u) /\ Kept(t, u)
  /\ View(u) = ViewAt(t, mark)
  /\ u.sps = SubSeq(t.sps, 1, n) /\ Len(u.sps) = n
  /\ \A i \in 1..n : u.sps[i] = t.sps[i] /\ ViewAt(u, t.sps[i].mark) = ViewAt(t, t.sps[i].mark)
  /\ \E r \in 0..Len(t.ranges) : u.ranges = SubSeq(t.ranges, 1, r)

Trimmed(t, u, y, mark, n) ==
  Cut(t, u, mark, n) /\ u.cps = t.cps /\ (n # 0 \/ t.cps > 0 => u = y)
Ordered(t) == \A i, j \in DOMAIN t.sps : i <= j => t.sps[i].mark <= t.sps[j].mark

\* Savepoints cut off after a roll-back, and the log dropped if it is not needed.
LEMMA CutFacts ==
  ASSUME NEW t \in Txn, Ordered(t), NEW mark \in Nat, NEW n \in 0..Len(t.sps), NEW x,
         RolledBack(t, x, mark), \A i \in 1..n : t.sps[i].mark <= mark,
         NEW y, y = [x EXCEPT !.sps = SubSeq(@, 1, n)], NEW u, u = DropLog(y)
  PROVE  Trimmed(t, u, y, mark, n)
<1>1. /\ x \in Txn /\ Frame(t, x) /\ BufferOK(x) /\ BytesOK(x) /\ Len(x.undo) = mark
      /\ View(x) = ViewAt(t, mark) /\ (\A m \in 0..mark : ViewAt(x, m) = ViewAt(t, m))
      /\ \E r \in 0..Len(t.ranges) : x.ranges = SubSeq(t.ranges, 1, r)
  BY DEF RolledBack
<1>2. t.sps \in Seq(Mark) /\ Len(t.sps) \in Nat /\ n \in Nat /\ n <= Len(t.sps) /\ x.sps = t.sps
  BY <1>1 DEF Txn, Mark, Frame
<1>3. PICK sps : sps = SubSeq(t.sps, 1, n)
  OBVIOUS
<1>4. sps \in Seq(Mark) /\ Len(sps) = n /\ (\A i \in 1..n : sps[i] = t.sps[i]) /\ DOMAIN sps = 1..n
  <2>1. sps \in Seq(Mark) /\ Len(sps) = n /\ \A i \in 1..n : sps[i] = t.sps[i]
    BY <1>2, <1>3, SubSeqProperties
  <2> QED  BY <1>2, <2>1
<1>5. y = [x EXCEPT !.sps = sps]
  BY <1>2, <1>3
<1>6. y \in Txn /\ SameBuffer(x, y) /\ Kept(x, y) /\ y.ranges = x.ranges /\ y.sps = sps /\ y.cps = x.cps
  BY <1>1, <1>4, <1>5 DEF Txn, Mark, SameBuffer, Kept
<1>7. BufferOK(y) /\ BytesOK(y) /\ View(y) = View(x) /\ \A m : ViewAt(y, m) = ViewAt(x, m)
  BY <1>1, <1>6, SameBufferFacts
<1>8. DOMAIN t.sps = 1..Len(t.sps) /\ \A i \in 1..n : i \in DOMAIN t.sps /\ t.sps[i].mark \in Nat
  <2>1. DOMAIN t.sps = 1..Len(t.sps) /\ \A i \in 1..n : i \in DOMAIN t.sps
    BY <1>2
  <2>2. \A i \in DOMAIN t.sps : t.sps[i] \in Mark
    BY <1>2, <2>1
  <2> QED  BY <2>1, <2>2 DEF Mark
<1>9. /\ \A i \in DOMAIN y.sps : y.sps[i].mark <= Len(y.undo)
      /\ \A i, j \in DOMAIN y.sps : i <= j => y.sps[i].mark <= y.sps[j].mark
  <2>1. Len(y.undo) = mark
    BY <1>1, <1>6 DEF SameBuffer
  <2>2. \A i, j \in DOMAIN t.sps : i <= j => t.sps[i].mark <= t.sps[j].mark
    BY DEF Ordered
  <2>3. \A i \in 1..n : y.sps[i] = t.sps[i] /\ i \in DOMAIN t.sps
    BY <1>4, <1>6, <1>8
  <2>4. \A i \in 1..n : y.sps[i].mark <= Len(y.undo)
    BY <2>1, <2>3
  <2>5. \A i, j \in 1..n : i <= j => y.sps[i].mark <= y.sps[j].mark
    BY <2>2, <2>3
  <2>6. DOMAIN y.sps = 1..n
    BY <1>4, <1>6
  <2> QED  BY <2>4, <2>5, <2>6, Zenon
<1>10. /\ u \in Txn /\ TxnInv(u) /\ Frame(y, u) /\ u.ranges = y.ranges /\ View(u) = View(y)
       /\ Logging(y) => u = y
  BY <1>6, <1>7, <1>9, DropLogFacts
<1>11. n # 0 \/ t.cps > 0 => Logging(y)
  <2>1. n # 0 => sps # << >>
    BY <1>4
  <2>2. y.cps = t.cps
    BY <1>1, <1>6 DEF Frame
  <2> QED  BY <1>6, <2>1, <2>2 DEF Logging
<1>12. u.sps = sps /\ Kept(t, u) /\ u.cps = t.cps /\ u.ranges = x.ranges
  BY <1>1, <1>6, <1>10 DEF Frame, Kept
<1>13. ASSUME NEW i \in 1..n
       PROVE  u.sps[i] = t.sps[i] /\ ViewAt(u, t.sps[i].mark) = ViewAt(t, t.sps[i].mark)
  <2>1. n # 0
    BY <1>2
  <2>2. u = y
    BY <1>10, <1>11, <2>1
  <2>3. t.sps[i].mark \in 0..mark
    BY <1>8
  <2> QED  BY <1>1, <1>4, <1>7, <1>12, <2>2, <2>3
<1>14. View(u) = ViewAt(t, mark)
  BY <1>1, <1>7, <1>10
<1> QED  BY <1>1, <1>3, <1>4, <1>10, <1>11, <1>12, <1>13, <1>14 DEF Cut, Trimmed

\* Nothing rolled back.
LEMMA NotRolledBack ==
  ASSUME NEW t \in Txn, BufferOK(t), BytesOK(t)
  PROVE  RolledBack(t, t, Len(t.undo))
<1>1. t.ranges \in Seq(Span) /\ Len(t.ranges) \in Nat /\ Len(t.ranges) \in 0..Len(t.ranges)
  BY DEF Txn
<1>2. t.ranges = SubSeq(t.ranges, 1, Len(t.ranges))
  BY <1>1
<1>3. View(t) = ViewAt(t, Len(t.undo))
  BY SeenNow
<1> QED  BY <1>1, <1>2, <1>3 DEF RolledBack, Frame

\* ROLLBACK TO SAVEPOINT.
LEMMA RollbackToSavepointFacts ==
  ASSUME NEW t \in Txn, TxnInv(t), NEW i \in 1..Len(t.sps), NEW u, u = RollbackToSavepoint(t, i)
  PROVE  Cut(t, u, t.sps[i].mark, i) /\ u.cps = t.cps
<1>1. t.sps \in Seq(Mark) /\ Len(t.sps) \in Nat /\ Len(t.undo) \in Nat
  BY DEF Txn, Mark
<1>2. t.sps[i] \in Mark
  BY <1>1
<1>3. PICK mark : mark = t.sps[i].mark
  OBVIOUS
<1>4. mark \in Nat /\ t.sps[i].rangesLen \in Nat
  BY <1>2, <1>3 DEF Mark
<1>5. mark <= Len(t.undo) /\ \A j \in 1..i : t.sps[j].mark <= mark
  <2>1. DOMAIN t.sps = 1..Len(t.sps) /\ \A j \in 1..i : j \in 1..Len(t.sps) /\ j <= i
    BY <1>1
  <2> QED  BY <1>3, <2>1 DEF TxnInv, MarksOK
<1>6. mark \in 0..Len(t.undo) /\ i \in 0..Len(t.sps) /\ i # 0
  BY <1>1, <1>4, <1>5
<1>7. PICK x : x = RollbackTxTo(t, mark, t.sps[i].rangesLen)
  OBVIOUS
<1>8. RolledBack(t, x, mark)
  BY <1>4, <1>6, <1>7, RollbackFacts DEF TxnInv
<1>9. u = [x EXCEPT !.sps = SubSeq(@, 1, i)]
  BY <1>3, <1>7 DEF RollbackToSavepoint
<1>10. PICK v : v = DropLog(u)
  OBVIOUS
<1>11. Trimmed(t, v, u, mark, i)
  <2>1. Ordered(t)
    BY DEF TxnInv, MarksOK, Ordered
  <2> QED  BY <1>4, <1>5, <1>6, <1>8, <1>9, <1>10, <2>1, CutFacts, Zenon
<1> QED  BY <1>3, <1>6, <1>11 DEF Trimmed

\* RELEASE SAVEPOINT.
LEMMA ReleaseSavepointFacts ==
  ASSUME NEW t \in Txn, TxnInv(t), NEW i \in 1..Len(t.sps), NEW u, u = ReleaseSavepoint(t, i)
  PROVE  Cut(t, u, Len(t.undo), i - 1) /\ u.cps = t.cps
<1>1. t.sps \in Seq(Mark) /\ Len(t.sps) \in Nat /\ Len(t.undo) \in Nat
  BY DEF Txn, Mark
<1>2. PICK n : n = i - 1
  OBVIOUS
<1>3. n \in 0..Len(t.sps) /\ \A j \in 1..n : j \in 1..Len(t.sps)
  BY <1>1, <1>2
<1>4. \A j \in 1..n : t.sps[j].mark <= Len(t.undo)
  BY <1>1, <1>3 DEF TxnInv, MarksOK
<1>5. PICK y : y = [t EXCEPT !.sps = SubSeq(@, 1, n)]
  OBVIOUS
<1>6. u = DropLog(y)
  BY <1>2, <1>5 DEF ReleaseSavepoint
<1>7. PICK mark \in Nat : mark = Len(t.undo)
  BY <1>1
<1>8. RolledBack(t, t, mark) /\ Ordered(t)
  BY <1>7, NotRolledBack DEF TxnInv, MarksOK, Ordered
<1>9. \A j \in 1..n : t.sps[j].mark <= mark
  BY <1>4, <1>7
<1>10. Trimmed(t, u, y, mark, n)
  BY <1>3, <1>5, <1>6, <1>8, <1>9, CutFacts, Zenon
<1> QED  BY <1>2, <1>7, <1>10 DEF Trimmed

\* A checkpoint given up, and the transaction as it was there.
LEMMA CheckpointGivenUp ==
  ASSUME NEW t \in Txn, TxnInv(t), NEW cp, CheckpointOK(t, cp), NEW z, z = [t EXCEPT !.cps = @ - 1]
  PROVE  /\ z \in Txn /\ SameBuffer(t, z) /\ Kept(t, z) /\ z.ranges = t.ranges /\ z.sps = t.sps
         /\ z.cps = t.cps - 1 /\ BufferOK(z) /\ BytesOK(z)
         /\ \A m : ViewAt(z, m) = ViewAt(t, m)
<1>1. PICK c \in Nat : c = t.cps - 1
  <2>1. t.cps \in Nat /\ t.cps >= 1
    BY DEF Txn, CheckpointOK
  <2>2. t.cps - 1 \in Nat
    BY <2>1
  <2> QED  BY <2>2
<1>2. z = [t EXCEPT !.cps = c]
  BY <1>1
<1>3. z \in Txn /\ SameBuffer(t, z) /\ Kept(t, z) /\ z.ranges = t.ranges /\ z.sps = t.sps /\ z.cps = c
  BY <1>2 DEF Txn, SameBuffer, Kept
<1> QED  BY <1>1, <1>3, SameBufferFacts DEF TxnInv

\* A cut of z is a cut of t if they differ in the number of checkpoints alone.
LEMMA CutOfSame ==
  ASSUME NEW t, NEW z, NEW u, NEW mark, NEW n, SameBuffer(t, z), Kept(t, z), z.ranges = t.ranges,
         z.sps = t.sps, Cut(z, u, mark, n)
  PROVE  Cut(t, u, mark, n)
<1>1. \A m : ViewAt(z, m) = ViewAt(t, m)
  BY SameBufferFacts
<1>2. Kept(t, u)
  BY DEF Cut, Kept
<1>3. View(u) = ViewAt(t, mark)
  BY <1>1 DEF Cut
<1>4. \A i \in 1..n : u.sps[i] = t.sps[i] /\ ViewAt(u, t.sps[i].mark) = ViewAt(t, t.sps[i].mark)
  BY <1>1 DEF Cut
<1> QED  BY <1>2, <1>3, <1>4 DEF Cut

\* A statement's checkpoint is released.
LEMMA ReleaseCheckpointFacts ==
  ASSUME NEW t \in Txn, TxnInv(t), NEW cp, CheckpointOK(t, cp), NEW u, u = ReleaseCheckpoint(t)
  PROVE  Cut(t, u, Len(t.undo), Len(t.sps)) /\ u.cps = t.cps - 1
<1>1. PICK z : z = [t EXCEPT !.cps = @ - 1]
  OBVIOUS
<1>2. /\ z \in Txn /\ SameBuffer(t, z) /\ Kept(t, z) /\ z.ranges = t.ranges /\ z.sps = t.sps
      /\ z.cps = t.cps - 1 /\ BufferOK(z) /\ BytesOK(z)
  BY <1>1, CheckpointGivenUp
<1>3. t.sps \in Seq(Mark) /\ Len(t.sps) \in Nat /\ Len(t.undo) \in Nat /\ z.undo = t.undo
  BY <1>2 DEF Txn, Mark, SameBuffer
<1>4. PICK mark \in Nat, n \in 0..Len(z.sps) : mark = Len(t.undo) /\ n = Len(t.sps)
  BY <1>2, <1>3
<1>5. RolledBack(z, z, mark) /\ Ordered(z)
  <2>1. RolledBack(z, z, Len(z.undo))
    BY <1>2, NotRolledBack
  <2> QED  BY <1>2, <1>3, <1>4, <2>1 DEF TxnInv, MarksOK, Ordered
<1>6. \A i \in 1..n : z.sps[i].mark <= mark
  BY <1>2, <1>3, <1>4 DEF TxnInv, MarksOK
<1>7. z = [z EXCEPT !.sps = SubSeq(@, 1, n)]
  <2>1. SubSeq(z.sps, 1, n) = z.sps
    BY <1>2, <1>3, <1>4
  <2> QED  BY <1>2, <2>1 DEF Txn
<1>8. u = DropLog(z)
  BY <1>1 DEF ReleaseCheckpoint
<1>9. Cut(z, u, mark, n) /\ u.cps = z.cps
  <2>1. Trimmed(z, u, z, mark, n)
    BY <1>2, <1>5, <1>6, <1>7, <1>8, CutFacts, Zenon
  <2> QED  BY <2>1 DEF Trimmed
<1>10. Cut(t, u, mark, n)
  BY <1>2, <1>9, CutOfSame
<1> QED  BY <1>2, <1>4, <1>9, <1>10

\* A failed statement is rolled back to its checkpoint.
LEMMA RollbackCheckpointFacts ==
  ASSUME NEW t \in Txn, TxnInv(t), NEW cp \in [mark : Nat, rangesLen : Nat, spsLen : Nat],
         CheckpointOK(t, cp), NEW u, u = RollbackCheckpoint(t, cp)
  PROVE  Cut(t, u, cp.mark, Len(t.sps)) /\ u.cps = t.cps - 1
<1>1. PICK z : z = [t EXCEPT !.cps = @ - 1]
  OBVIOUS
<1>2. /\ z \in Txn /\ SameBuffer(t, z) /\ Kept(t, z) /\ z.ranges = t.ranges /\ z.sps = t.sps
      /\ z.cps = t.cps - 1 /\ BufferOK(z) /\ BytesOK(z)
  BY <1>1, CheckpointGivenUp
<1>3. t.sps \in Seq(Mark) /\ Len(t.sps) \in Nat /\ Len(t.undo) \in Nat /\ z.undo = t.undo
  BY <1>2 DEF Txn, Mark, SameBuffer
<1>4. cp.mark <= Len(t.undo) /\ cp.spsLen = Len(t.sps) /\ \A i \in DOMAIN t.sps : t.sps[i].mark <= cp.mark
  BY DEF CheckpointOK
<1>5. PICK mark \in Nat, n \in 0..Len(z.sps) : mark = cp.mark /\ n = Len(t.sps)
  BY <1>2, <1>3
<1>6. mark \in 0..Len(z.undo)
  BY <1>3, <1>4, <1>5
<1>7. PICK x : x = RollbackTxTo(z, mark, cp.rangesLen)
  OBVIOUS
<1>8. RolledBack(z, x, mark)
  BY <1>2, <1>6, <1>7, RollbackFacts
<1>9. x.sps = t.sps
  BY <1>2, <1>8 DEF RolledBack, Frame
<1>10. PICK y : y = [x EXCEPT !.sps = SubSeq(@, 1, n)]
  OBVIOUS
<1>11. u = DropLog(y)
  <2>1. (IF cp.spsLen < Len(x.sps) THEN cp.spsLen ELSE Len(x.sps)) = n
    BY <1>3, <1>4, <1>5, <1>9
  <2> QED  BY <1>1, <1>5, <1>7, <1>10, <2>1 DEF RollbackCheckpoint
<1>12. Ordered(z) /\ \A i \in 1..n : z.sps[i].mark <= mark
  BY <1>2, <1>3, <1>4, <1>5 DEF TxnInv, MarksOK, Ordered
<1>13. Cut(z, u, mark, n) /\ u.cps = z.cps
  <2>1. Trimmed(z, u, y, mark, n)
    BY <1>2, <1>8, <1>10, <1>11, <1>12, CutFacts, Zenon
  <2> QED  BY <2>1 DEF Trimmed
<1>14. Cut(t, u, mark, n)
  BY <1>2, <1>13, CutOfSame
<1> QED  BY <1>2, <1>5, <1>13, <1>14

----------------------------------------------------------------------------
(* Scans *)

\* A finite set of numbers that is not empty has a last one.
LEMMA LastRowFacts ==
  ASSUME NEW S \in SUBSET Nat, IsFiniteSet(S), S # {}
  PROVE  LastRow(S) \in S /\ \A j \in S : j <= LastRow(S)
<1>1. /\ Cardinality(S) \in Nat
      /\ \A k \in S : Place(S, k) \in 1..Cardinality(S) /\ Nth(S, Place(S, k)) = k
      /\ \A j, k \in S : Place(S, j) <= Place(S, k) <=> j <= k
      /\ \A n \in 1..Cardinality(S) : Nth(S, n) \in S /\ Place(S, Nth(S, n)) = n
  BY Places
<1>2. PICK c \in Nat : c = Cardinality(S)
  BY <1>1
<1>3. c # 0
  BY <1>2, FS_EmptySet
<1>4. c \in 1..c
  BY <1>3
<1>5. PICK m \in S : Place(S, m) = c
  BY <1>1, <1>2, <1>4
<1>6. \A j \in S : Place(S, j) <= Place(S, m)
  BY <1>1, <1>2, <1>5
<1>7. \A j \in S : j <= m
  BY <1>1, <1>6
<1> QED  BY <1>7 DEF LastRow

\* The first n of a set: all, if they are fewer; else the n up to the last of them.
LEMMA FirstRowsFacts ==
  ASSUME NEW S \in SUBSET Nat, IsFiniteSet(S), NEW n \in Nat \ {0}, NEW F, F = FirstRows(S, n)
  PROVE  /\ F \subseteq S /\ IsFiniteSet(F) /\ Cardinality(F) \in Nat
         /\ Cardinality(F) < n => F = S
         /\ F # S => \E m \in S : F = {j \in S : j <= m} /\ Cardinality(F) = n
<1>1. /\ Cardinality(S) \in Nat
      /\ \A k \in S : Place(S, k) \in 1..Cardinality(S) /\ Nth(S, Place(S, k)) = k
      /\ \A j, k \in S : Place(S, j) <= Place(S, k) <=> j <= k
      /\ \A i \in 1..Cardinality(S) : Nth(S, i) \in S /\ Place(S, Nth(S, i)) = i
  BY Places
<1>2. PICK c \in Nat : c = Cardinality(S)
  BY <1>1
<1>3. F = {k \in S : Place(S, k) <= n}
  BY DEF FirstRows
<1>4. F \subseteq S /\ IsFiniteSet(F) /\ Cardinality(F) \in Nat
  BY <1>3, FS_Subset, FS_CardinalityType
<1>5. CASE c < n
  <2>1. \A k \in S : Place(S, k) <= n
    BY <1>1, <1>2, <1>5
  <2>2. F = S
    BY <1>3, <2>1
  <2> QED  BY <1>4, <2>2
<1>6. CASE ~(c < n)
  <2>1. n \in 1..c
    BY <1>6
  <2>2. PICK m \in S : Place(S, m) = n
    BY <1>1, <1>2, <2>1
  <2>3. F = {j \in S : j <= m}
    BY <1>1, <1>3, <2>2
  <2>4. Cardinality(F) = n
    BY <2>2, <2>3 DEF Place
  <2> QED  BY <1>4, <2>2, <2>3, <2>4
<1> QED  BY <1>5, <1>6

\* The rows of a state in a range are finitely many.
LEMMA RowsInFacts ==
  ASSUME NEW d, NEW from, NEW to
  PROVE  /\ RowsIn(d, from, to) \subseteq Row
         /\ RowsIn(d, from, to) \in SUBSET Nat /\ IsFiniteSet(RowsIn(d, from, to))
<1>1. RowsIn(d, from, to) \subseteq Row
  BY DEF RowsIn
<1> HIDE DEF RowsIn
<1> QED  BY <1>1, RowAssumption, FS_Subset

\* The first n of two sets, one of them cut to its first n before.
LEMMA FirstOfUnion ==
  ASSUME NEW S \in SUBSET Nat, IsFiniteSet(S), NEW P \in SUBSET Nat, IsFiniteSet(P),
         NEW n \in Nat \ {0}
  PROVE  FirstRows(FirstRows(S, n) \cup P, n) = FirstRows(S \cup P, n)
<1> DEFINE W == FirstRows(S, n)
           V == S \cup P
           U == W \cup P
           Upto(X, k) == {j \in X : j <= k}
<1>1. /\ W \subseteq S /\ IsFiniteSet(W) /\ Cardinality(W) \in Nat
      /\ W # S => \E m \in S : W = {j \in S : j <= m} /\ Cardinality(W) = n
  BY FirstRowsFacts
<1> SUFFICES FirstRows(U, n) = FirstRows(V, n)
  OBVIOUS
<1> HIDE DEF W
<1>2. IsFiniteSet(V) /\ IsFiniteSet(U) /\ U \subseteq V /\ V \subseteq Nat
  BY <1>1, FS_Union
<1>3. CASE W = S
  BY <1>3
<1>4. CASE W # S
  <2>1. PICK m \in S : W = {j \in S : j <= m} /\ Cardinality(W) = n
    BY <1>1, <1>4
  <2>2. ASSUME NEW k \in V, k <= m
        PROVE  k \in U /\ Place(U, k) = Place(V, k)
    <3>1. k \in U
      BY <1>2, <2>1, <2>2
    <3>2. Upto(U, k) = Upto(V, k)
      <4>1. ASSUME NEW j \in V, j <= k PROVE j \in U
        <5>1. j \in Nat /\ k \in Nat /\ m \in Nat
          BY <1>2
        <5>2. j <= m
          BY <2>2, <4>1, <5>1
        <5> QED  BY <2>1, <5>2
      <4> QED  BY <1>2, <4>1
    <3> QED  BY <3>1, <3>2 DEF Place
  <2>3. ASSUME NEW X, U \subseteq X, X \subseteq V, NEW k \in X, ~(k <= m)
        PROVE  ~(Place(X, k) <= n)
    <3>0. IsFiniteSet(X)
      BY <1>2, <2>3, FS_Subset
    <3>1. k \in Nat /\ m \in Nat /\ \A j \in W : j \in Nat
      BY <1>1, <1>2, <2>3
    <3>2. W \subseteq Upto(X, k) /\ k \in Upto(X, k) /\ k \notin W
      <4>1. \A j \in W : j \in X /\ j <= m
        BY <2>1, <2>3
      <4>2. \A j \in W : j <= k
        BY <2>3, <3>1, <4>1
      <4>3. k \in Upto(X, k) /\ k \notin W
        BY <2>3, <3>1, <4>1
      <4> QED  BY <4>1, <4>2, <4>3
    <3>3. Upto(X, k) \subseteq X
      OBVIOUS
    <3> DEFINE T == Upto(X, k)
    <3>a. Place(X, k) = Cardinality(T)
      BY DEF Place
    <3> HIDE DEF T
    <3>4. IsFiniteSet(T) /\ Cardinality(T) \in Nat
      BY <3>0, <3>3, FS_Subset, FS_CardinalityType DEF T
    <3>5. Cardinality(W) <= Cardinality(T) /\ (Cardinality(T) = Cardinality(W) => T = W)
      BY <3>2, <3>4, FS_Subset DEF T
    <3>6. T # W
      BY <3>2 DEF T
    <3> QED  BY <2>1, <3>4, <3>5, <3>6, <3>a
  <2>4. \A k \in V : ~(k <= m) => ~(Place(V, k) <= n)
    BY <1>2, <2>3
  <2>5. \A k \in U : ~(k <= m) => ~(Place(U, k) <= n)
    BY <1>2, <2>3
  <2> HIDE DEF U, V
  <2> QED  BY <1>2, <2>2, <2>4, <2>5 DEF FirstRows
<1> QED  BY <1>3, <1>4

\* A batch in a transaction that has deleted no committed row of the range: the first
\* rows of what the transaction sees.
LEMMA MergeFacts ==
  ASSUME NEW t \in Txn, BufferOK(t), NEW from, NEW to, RowsIn(t.snap, from, to) \cap t.dels = {}
  PROVE  Merge(t, from, to) = FirstRows(RowsIn(View(t), from, to), Limit)
<1> DEFINE S == RowsIn(t.snap, from, to)
           P == RowsIn(t.puts, from, to)
           W == FirstRows(S, Limit)
<1>1. S \in SUBSET Nat /\ IsFiniteSet(S) /\ P \in SUBSET Nat /\ IsFiniteSet(P)
  BY RowsInFacts
<1>2. P \cap t.dels = {}
  BY DEF RowsIn, BufferOK, CellOK, Key
<1>3. RowsIn(View(t), from, to) = S \cup P
  <2>1. \A k \in Row : View(t)[k] = IF k \in t.dels THEN Absent
                                    ELSE IF t.puts[k] # Absent THEN t.puts[k] ELSE t.snap[k]
    BY ViewType, KeyFacts
  <2>2. \A k \in Row : k \in RowsIn(View(t), from, to) <=> k \in S \cup P
    BY <1>2, <2>1 DEF RowsIn
  <2>3. RowsIn(View(t), from, to) \subseteq Row /\ S \cup P \subseteq Row
    BY DEF RowsIn
  <2> QED  BY <2>2, <2>3
<1>4. W \subseteq S
  BY DEF FirstRows
<1> HIDE DEF S, P
<1>5. (W \cup P) \ t.dels = W \cup P
  BY <1>2, <1>4 DEF S
<1>6. Merge(t, from, to) = FirstRows((W \cup P) \ t.dels, Limit)
  BY DEF Merge, S, P
<1>7. FirstRows(W \cup P, Limit) = FirstRows(S \cup P, Limit)
  BY <1>1, FirstOfUnion, LimitAssumption
<1> HIDE DEF W
<1> QED  BY <1>3, <1>5, <1>6, <1>7

----------------------------------------------------------------------------
(* A step of one session *)

Stmts == {Idle} \cup Direct \cup OwnUnit \cup Unit
Scans == {NoScan} \cup ScanState
Shown == [now : SUBSET Key, before : SUBSET Key]

Moves(s, t, c, q, h, w) ==
  /\ txn' = [txn EXCEPT ![s] = t] /\ conf' = [conf EXCEPT ![s] = c]
  /\ stmt' = [stmt EXCEPT ![s] = q] /\ scan' = [scan EXCEPT ![s] = h]
  /\ seen' = [seen EXCEPT ![s] = w]

\* What one session does to itself and the database keeps the invariant if it keeps its
\* own part of it.
LEMMA SessionStep ==
  ASSUME IInv, use' = use, db' \in State, db'[Meta] \in 0..MaxCount, cancels' \in 0..MaxCancel,
         NEW s \in Session, NEW t \in Txn \cup {NoTxn}, NEW c \in Conf, NEW q \in Stmts,
         NEW h \in Scans, NEW w \in Shown, Moves(s, t, c, q, h, w), SessionOK(t, q, h, w)
  PROVE  IInv'
<1>1. TypeOK'
  BY DEF IInv, TypeOK, Moves, Stmts, Scans, Shown
<1>2. ASSUME NEW r \in Session PROVE SessionOK(txn'[r], stmt'[r], scan'[r], seen'[r])
  <2>1. CASE r = s
    <3>1. txn'[r] = t /\ stmt'[r] = q /\ scan'[r] = h /\ seen'[r] = w
      BY <2>1 DEF IInv, TypeOK, Moves
    <3> QED  BY <3>1
  <2>2. CASE r # s
    <3>1. txn'[r] = txn[r] /\ stmt'[r] = stmt[r] /\ scan'[r] = scan[r] /\ seen'[r] = seen[r]
      BY <2>2 DEF IInv, TypeOK, Moves
    <3> QED  BY <3>1 DEF IInv
  <2> QED  BY <2>1, <2>2
<1> QED  BY <1>1, <1>2 DEF IInv

\* What the parts of a session's state are.
LEMMA SessionTypes ==
  ASSUME IInv, NEW s \in Session
  PROVE  /\ txn[s] \in Txn \cup {NoTxn} /\ conf[s] \in Conf /\ stmt[s] \in Stmts
         /\ scan[s] \in Scans /\ seen[s] \in Shown
         /\ SessionOK(txn[s], stmt[s], scan[s], seen[s])
         /\ db \in State /\ db[Meta] \in 0..MaxCount /\ cancels \in 0..MaxCancel /\ use \in Workload
         /\ InTxn(s) => txn[s] \in Txn /\ TxnInv(txn[s])
         /\ Moves(s, txn[s], conf[s], stmt[s], scan[s], seen[s]) <=> UNCHANGED <<txn, conf, stmt, scan, seen>>
<1>1. /\ txn[s] \in Txn \cup {NoTxn} /\ conf[s] \in Conf /\ stmt[s] \in Stmts
      /\ scan[s] \in Scans /\ seen[s] \in Shown
      /\ SessionOK(txn[s], stmt[s], scan[s], seen[s])
      /\ db \in State /\ db[Meta] \in 0..MaxCount /\ cancels \in 0..MaxCancel /\ use \in Workload
  BY DEF IInv, TypeOK, Stmts, Scans, Shown
<1>2. InTxn(s) => txn[s] \in Txn /\ TxnInv(txn[s])
  BY <1>1 DEF InTxn, SessionOK
<1>3. /\ [txn EXCEPT ![s] = txn[s]] = txn /\ [conf EXCEPT ![s] = conf[s]] = conf
      /\ [stmt EXCEPT ![s] = stmt[s]] = stmt /\ [scan EXCEPT ![s] = scan[s]] = scan
      /\ [seen EXCEPT ![s] = seen[s]] = seen
  BY DEF IInv, TypeOK
<1> QED  BY <1>1, <1>2, <1>3 DEF Moves

\* The statements and scans that are not under way.
LEMMA IdleFacts ==
  /\ Idle \in Stmts /\ NoScan \in Scans /\ Unseen \in Shown /\ Idle.kind = "idle" /\ ~NoScan.on
  /\ \A t : StmtOK(t, Idle) /\ ScanOK(t, NoScan) /\ SeenOK(t, Unseen)
<1>1. Idle \in Stmts /\ NoScan \in Scans /\ Unseen \in Shown /\ Idle.kind = "idle" /\ ~NoScan.on
  BY DEF Idle, NoScan, Unseen, Stmts, Scans, Shown
<1>2. Unseen.now \cap Row = {}
  BY DEF Unseen
<1> QED  BY <1>1, <1>2 DEF StmtOK, ScanOK, SeenOK

\* Some ways a record of the configuration changes.
LEMMA ConfFacts ==
  ASSUME NEW c \in Conf
  PROVE  /\ [c EXCEPT !.next = << >>] \in Conf
         /\ \A b \in BOOLEAN : /\ [c EXCEPT !.ser = b] \in Conf /\ [c EXCEPT !.auto = b] \in Conf
                               /\ [c EXCEPT !.ro = b] \in Conf /\ [c EXCEPT !.next = <<b>>] \in Conf
                               /\ [c EXCEPT !.next = << >>, !.auto = b] \in Conf
         /\ Mode(c) \in BOOLEAN /\ c.ser \in BOOLEAN
<1>1. /\ [c EXCEPT !.next = << >>] \in Conf
      /\ \A b \in BOOLEAN : /\ [c EXCEPT !.ser = b] \in Conf /\ [c EXCEPT !.auto = b] \in Conf
                            /\ [c EXCEPT !.ro = b] \in Conf
                            /\ [c EXCEPT !.next = << >>, !.auto = b] \in Conf
  BY DEF Conf
<1>2. \A b \in BOOLEAN : <<b>> \in {<< >>, <<TRUE>>, <<FALSE>>}
  OBVIOUS
<1>3. \A b \in BOOLEAN : [c EXCEPT !.next = <<b>>] \in Conf
  BY <1>2 DEF Conf
<1>4. Mode(c) \in BOOLEAN /\ c.ser \in BOOLEAN
  <2>1. c.ser \in BOOLEAN /\ c.ro \in BOOLEAN /\ c.next \in {<< >>, <<TRUE>>, <<FALSE>>}
    BY DEF Conf
  <2>2. CASE c.next = << >>
    BY <2>1, <2>2 DEF Mode
  <2>3. CASE c.next = <<TRUE>>
    <3>1. c.next # << >> /\ c.next[1] = TRUE
      BY <2>3
    <3> QED  BY <2>1, <3>1 DEF Mode
  <2>4. CASE c.next = <<FALSE>>
    <3>1. c.next # << >> /\ c.next[1] = FALSE
      BY <2>4
    <3> QED  BY <2>1, <3>1 DEF Mode
  <2> QED  BY <2>1, <2>2, <2>3, <2>4
<1> QED  BY <1>1, <1>3, <1>4

\* A session without a statement under way, whatever becomes of its transaction.
LEMMA ReadyFacts ==
  ASSUME IInv, NEW s \in Session, Ready(s)
  PROVE  /\ stmt[s] = Idle /\ ~scan[s].on
         /\ \A t : StmtOK(t, stmt[s]) /\ ScanOK(t, scan[s])
<1>1. stmt[s] = Idle /\ ~scan[s].on
  BY DEF Ready
<1>2. \A t : StmtOK(t, stmt[s])
  BY <1>1, IdleFacts
<1>3. \A t : ScanOK(t, scan[s])
  BY <1>1 DEF ScanOK
<1> QED  BY <1>1, <1>2, <1>3

\* The mode BEGIN asks for is one.
LEMMA ModeAsked ==
  ASSUME IInv, NEW s \in Session, NEW access \in {<< >>, <<TRUE>>, <<FALSE>>}
  PROVE  \E m \in BOOLEAN : m = IF access # << >> THEN access[1] ELSE Mode(conf[s])
<1>1. conf[s] \in Conf
  BY SessionTypes
<1>2. Mode(conf[s]) \in BOOLEAN
  BY <1>1, ConfFacts
<1>3. CASE access = << >>
  BY <1>2, <1>3
<1>4. CASE access = <<TRUE>>
  <2>1. access # << >> /\ access[1] = TRUE
    BY <1>4
  <2> QED  BY <2>1
<1>5. CASE access = <<FALSE>>
  <2>1. access # << >> /\ access[1] = FALSE
    BY <1>5
  <2> QED  BY <2>1
<1> QED  BY <1>3, <1>4, <1>5

\* BEGIN.
LEMMA BeginKeeps ==
  ASSUME IInv, use' = use, NEW s \in Session, NEW access \in {<< >>, <<TRUE>>, <<FALSE>>},
         Begin(s, access)
  PROVE  IInv'
<1>1. PICK m \in BOOLEAN : m = IF access # << >> THEN access[1] ELSE Mode(conf[s])
  BY ModeAsked
<1>2. PICK t : t = NewTxn(db, m, conf[s].ser)
  OBVIOUS
<1>3. conf[s] \in Conf /\ db \in State /\ db[Meta] \in 0..MaxCount /\ cancels \in 0..MaxCancel
      /\ stmt[s] \in Stmts /\ scan[s] \in Scans /\ conf[s].ser \in BOOLEAN
  BY SessionTypes, ConfFacts
<1>4. t \in Txn /\ TxnInv(t)
  <2>1. PICK b \in BOOLEAN : b = conf[s].ser
    BY <1>3
  <2>2. t = NewTxn(db, m, b)
    BY <1>2, <2>1
  <2> QED  BY <1>3, <2>2, NewTxnFacts, Zenon
<1>5. PICK c \in Conf : c = [conf[s] EXCEPT !.next = << >>]
  BY <1>3, ConfFacts
<1>6. Moves(s, t, c, stmt[s], scan[s], Unseen)
  <2>1. txn' = [txn EXCEPT ![s] = t] /\ conf' = [conf EXCEPT ![s].next = << >>]
        /\ seen' = [seen EXCEPT ![s] = Unseen] /\ UNCHANGED <<db, stmt, scan, cancels>>
    BY <1>1, <1>2 DEF Begin, OpenTxn
  <2>2. conf' = [conf EXCEPT ![s] = c]
    BY <1>5, <2>1
  <2> QED  BY <2>1, <2>2 DEF Moves, IInv, TypeOK
<1>7. SessionOK(t, stmt[s], scan[s], Unseen)
  BY <1>4, ReadyFacts, IdleFacts DEF SessionOK, Begin
<1>8. db' = db /\ cancels' = cancels
  BY DEF Begin
<1>9. Unseen \in Shown
  BY IdleFacts
<1>10. db' \in State /\ db'[Meta] \in 0..MaxCount /\ cancels' \in 0..MaxCancel /\ t \in Txn \cup {NoTxn}
  BY <1>3, <1>4, <1>8
<1> QED  BY <1>3, <1>5, <1>6, <1>7, <1>9, <1>10, SessionStep

\* What a commit makes of the database.
LEMMA AppliedFacts ==
  ASSUME NEW d \in State, d[Meta] \in 0..MaxCount, NEW t \in Txn, TxnInv(t)
  PROVE  Applied(d, t.puts, t.dels) \in State /\ Applied(d, t.puts, t.dels)[Meta] \in 0..MaxCount
<1>1. t.puts \in State /\ t.dels \in SUBSET Row
  BY DEF Txn
<1>2. Applied(d, t.puts, t.dels) \in State
  BY <1>1, KeyFacts DEF Applied, State
<1>3. Applied(d, t.puts, t.dels)[Meta] =
        IF t.puts[Meta] # Absent THEN t.puts[Meta] ELSE IF Meta \in t.dels THEN Absent ELSE d[Meta]
  BY KeyFacts DEF Applied
<1>4. Meta \notin t.dels
  BY <1>1, MetaAssumption
<1>5. t.puts[Meta] # Absent => t.puts[Meta] \in 0..MaxCount
  BY KeyFacts DEF TxnInv, BufferOK, CellOK
<1> QED  BY <1>2, <1>3, <1>4, <1>5

\* Session::commit.
LEMMA CommitTxnFacts ==
  ASSUME IInv, NEW s \in Session, CommitTxn(s)
  PROVE  db' \in State /\ db'[Meta] \in 0..MaxCount
<1>1. db \in State /\ db[Meta] \in 0..MaxCount /\ (InTxn(s) => txn[s] \in Txn /\ TxnInv(txn[s]))
  BY SessionTypes
<1>2. CASE InTxn(s) /\ Commits(s)
  <2>1. db' = Applied(db, txn[s].puts, txn[s].dels)
    BY <1>2 DEF CommitTxn
  <2> QED  BY <1>1, <1>2, <2>1, AppliedFacts
<1>3. CASE ~(InTxn(s) /\ Commits(s))
  BY <1>1, <1>3 DEF CommitTxn
<1> QED  BY <1>2, <1>3

\* A session whose transaction has ended.
LEMMA EndedKeeps ==
  ASSUME IInv, use' = use, NEW s \in Session, db' \in State, db'[Meta] \in 0..MaxCount,
         cancels' = cancels, ~scan[s].on, NEW q \in Stmts, q.kind = "idle",
         txn' = [txn EXCEPT ![s] = NoTxn], seen' = [seen EXCEPT ![s] = Unseen],
         stmt' = [stmt EXCEPT ![s] = q], scan' = scan, NEW c \in Conf, conf' = [conf EXCEPT ![s] = c]
  PROVE  IInv'
<1>1. scan[s] \in Scans /\ cancels' \in 0..MaxCancel /\ Unseen \in Shown
  BY SessionTypes, IdleFacts
<1>2. Moves(s, NoTxn, c, q, scan[s], Unseen)
  <2>1. scan' = [scan EXCEPT ![s] = scan[s]]
    BY DEF IInv, TypeOK
  <2> QED  BY <2>1 DEF Moves
<1>3. SessionOK(NoTxn, q, scan[s], Unseen)
  BY DEF SessionOK, StmtOK, ScanOK, SeenOK
<1> QED  BY <1>1, <1>2, <1>3, SessionStep

\* COMMIT and ROLLBACK.
LEMMA CommitKeeps ==
  ASSUME IInv, use' = use, NEW s \in Session, Commit(s) \/ Rollback(s)
  PROVE  IInv'
<1>1. conf[s] \in Conf /\ stmt[s] \in Stmts /\ db \in State /\ db[Meta] \in 0..MaxCount
  BY SessionTypes
<1>2. stmt[s].kind = "idle" /\ ~scan[s].on
  BY ReadyFacts, IdleFacts DEF Commit, Rollback
<1>3. db' \in State /\ db'[Meta] \in 0..MaxCount
  BY <1>1, CommitTxnFacts DEF Commit, Rollback
<1>4. PICK c \in Conf : c = [conf[s] EXCEPT !.next = << >>]
  BY <1>1, ConfFacts
<1>5. conf' = [conf EXCEPT ![s] = c]
  BY <1>4 DEF Commit, Rollback
<1>6. stmt' = [stmt EXCEPT ![s] = stmt[s]]
  BY DEF Commit, Rollback, IInv, TypeOK
<1>7. txn' = [txn EXCEPT ![s] = NoTxn] /\ seen' = [seen EXCEPT ![s] = Unseen] /\ scan' = scan
      /\ cancels' = cancels
  BY DEF Commit, Rollback, CommitTxn
<1> QED  BY <1>1, <1>2, <1>3, <1>4, <1>5, <1>6, <1>7, EndedKeeps

\* SET of modes.
LEMMA ModeKeeps ==
  ASSUME IInv, use' = use, NEW s \in Session, NEW b \in BOOLEAN,
         SetIsolation(s, b) \/ SetSessionReadOnly(s, b) \/ SetNextReadOnly(s, b)
  PROVE  IInv'
<1>1. /\ txn[s] \in Txn \cup {NoTxn} /\ conf[s] \in Conf /\ stmt[s] \in Stmts
      /\ scan[s] \in Scans /\ seen[s] \in Shown
      /\ SessionOK(txn[s], stmt[s], scan[s], seen[s])
      /\ db \in State /\ db[Meta] \in 0..MaxCount /\ cancels \in 0..MaxCancel
  BY SessionTypes
<1>2. UNCHANGED <<db, txn, stmt, scan, seen, cancels>>
  BY DEF SetIsolation, SetSessionReadOnly, SetNextReadOnly
<1>3. PICK c \in Conf : conf' = [conf EXCEPT ![s] = c]
  <2>1. /\ [conf[s] EXCEPT !.ser = b] \in Conf /\ [conf[s] EXCEPT !.ro = b] \in Conf
        /\ [conf[s] EXCEPT !.next = <<b>>] \in Conf
    BY <1>1, ConfFacts
  <2> QED  BY <2>1 DEF SetIsolation, SetSessionReadOnly, SetNextReadOnly
<1>4. Moves(s, txn[s], c, stmt[s], scan[s], seen[s])
  BY <1>2, <1>3 DEF Moves, IInv, TypeOK
<1> QED  BY <1>1, <1>2, <1>4, SessionStep

\* SET autocommit.
LEMMA AutocommitKeeps ==
  ASSUME IInv, use' = use, NEW s \in Session, NEW b \in BOOLEAN, SetAutocommit(s, b)
  PROVE  IInv'
<1>1. /\ txn[s] \in Txn \cup {NoTxn} /\ conf[s] \in Conf /\ stmt[s] \in Stmts
      /\ scan[s] \in Scans /\ seen[s] \in Shown
      /\ SessionOK(txn[s], stmt[s], scan[s], seen[s])
      /\ db \in State /\ db[Meta] \in 0..MaxCount /\ cancels \in 0..MaxCancel
  BY SessionTypes
<1>2. stmt[s].kind = "idle" /\ ~scan[s].on /\ UNCHANGED <<stmt, scan, cancels>>
  BY ReadyFacts, IdleFacts DEF SetAutocommit
<1>3. CASE b /\ ~conf[s].auto
  <2>1. CommitTxn(s) /\ conf' = [conf EXCEPT ![s].next = << >>, ![s].auto = ~InTxn(s) \/ Commits(s)]
    BY <1>3 DEF SetAutocommit
  <2>2. PICK a \in BOOLEAN : a <=> (~InTxn(s) \/ Commits(s))
    OBVIOUS
  <2>3. PICK c \in Conf : c = [conf[s] EXCEPT !.next = << >>, !.auto = a]
    BY <1>1, ConfFacts
  <2>4. conf' = [conf EXCEPT ![s] = c]
    <3>1. a = (~InTxn(s) \/ Commits(s))
      BY <2>2
    <3>2. conf' = [conf EXCEPT ![s].next = << >>, ![s].auto = a]
      BY <2>1, <3>1, Zenon
    <3> QED  BY <2>3, <3>2 DEF IInv, TypeOK
  <2>5. stmt' = [stmt EXCEPT ![s] = stmt[s]]
    BY <1>2 DEF IInv, TypeOK
  <2>6. db' \in State /\ db'[Meta] \in 0..MaxCount
    BY <2>1, CommitTxnFacts
  <2>7. txn' = [txn EXCEPT ![s] = NoTxn] /\ seen' = [seen EXCEPT ![s] = Unseen]
    BY <2>1 DEF CommitTxn
  <2> QED  BY <1>1, <1>2, <2>3, <2>4, <2>5, <2>6, <2>7, EndedKeeps
<1>4. CASE ~(b /\ ~conf[s].auto)
  <2>1. conf' = [conf EXCEPT ![s].auto = b] /\ UNCHANGED <<db, txn, seen>>
    BY <1>4 DEF SetAutocommit
  <2>2. PICK c \in Conf : c = [conf[s] EXCEPT !.auto = b]
    BY <1>1, ConfFacts
  <2>3. conf' = [conf EXCEPT ![s] = c]
    BY <2>1, <2>2
  <2>4. Moves(s, txn[s], c, stmt[s], scan[s], seen[s])
    BY <1>2, <2>1, <2>3 DEF Moves, IInv, TypeOK
  <2> QED  BY <1>1, <1>2, <2>1, <2>4, SessionStep
<1> QED  BY <1>3, <1>4

\* The transaction of a session that scans nothing is replaced.
LEMMA SavedKeeps ==
  ASSUME IInv, use' = use, NEW s \in Session, NEW u \in Txn, TxnInv(u), SaveTxn(s, u),
         ~scan[s].on, NEW q \in Stmts, stmt' = [stmt EXCEPT ![s] = q], StmtOK(u, q),
         NEW w \in Shown, seen' = [seen EXCEPT ![s] = w], SeenOK(u, w)
  PROVE  IInv'
<1>1. conf[s] \in Conf /\ scan[s] \in Scans
      /\ db \in State /\ db[Meta] \in 0..MaxCount /\ cancels \in 0..MaxCancel
  BY SessionTypes
<1>2. txn' = [txn EXCEPT ![s] = u] /\ UNCHANGED <<db, conf, scan, cancels>>
  BY DEF SaveTxn
<1>3. Moves(s, u, conf[s], q, scan[s], w)
  BY <1>2 DEF Moves, IInv, TypeOK
<1>4. SessionOK(u, q, scan[s], w)
  BY DEF SessionOK, ScanOK
<1> QED  BY <1>1, <1>2, <1>3, <1>4, SessionStep

\* What is read is the same if the reads, locks and ranges are.
LEMMA SameReads ==
  ASSUME NEW t \in Txn, NEW u \in Txn, Kept(t, u), u.ranges = t.ranges, NEW w, SeenOK(t, w)
  PROVE  ReadSet(u) = ReadSet(t) /\ SeenOK(u, w)
<1>1. ReadSet(u) = ReadSet(t)
  BY DEF Kept, ReadSet
<1> QED  BY <1>1, NoTxnAssumption DEF SeenOK, Kept

\* SAVEPOINT.
LEMMA SavepointKeeps ==
  ASSUME IInv, use' = use, NEW s \in Session, NEW name \in Name, SetSavepoint(s, name)
  PROVE  IInv'
<1>1. PICK t \in Txn : t = txn[s] /\ TxnInv(t)
  BY SessionTypes DEF SetSavepoint
<1>2. PICK u : u = Savepoint(t, name)
  OBVIOUS
<1>3. u \in Txn /\ TxnInv(u) /\ Kept(t, u) /\ u.ranges = t.ranges
  <2>1. u \in Txn /\ TxnInv(u)
    BY <1>1, <1>2, SavepointFacts
  <2>2. Kept(t, u) /\ u.ranges = t.ranges
    BY <1>1, <1>2, SavepointFacts
  <2> QED  BY <2>1, <2>2
<1>4. SaveTxn(s, u) /\ UNCHANGED <<stmt, seen>> /\ Ready(s)
  BY <1>1, <1>2 DEF SetSavepoint
<1>5. ~scan[s].on /\ StmtOK(u, stmt[s])
  BY <1>4, ReadyFacts
<1>6. stmt[s] \in Stmts /\ seen[s] \in Shown /\ SeenOK(t, seen[s])
  BY <1>1, SessionTypes DEF SessionOK
<1>7. SeenOK(u, seen[s])
  BY <1>3, <1>6, SameReads
<1>8. stmt' = [stmt EXCEPT ![s] = stmt[s]] /\ seen' = [seen EXCEPT ![s] = seen[s]]
  BY <1>4 DEF IInv, TypeOK
<1> QED  BY <1>3, <1>4, <1>5, <1>6, <1>7, <1>8, SavedKeeps

\* What was seen moves to what was seen before.
LEMMA Forgotten ==
  ASSUME IInv, NEW s \in Session
  PROVE  /\ [now |-> {}, before |-> seen[s].now \cup seen[s].before] \in Shown
         /\ \A t : SeenOK(t, [now |-> {}, before |-> seen[s].now \cup seen[s].before])
<1>1. seen[s] \in Shown
  BY SessionTypes
<1> QED  BY <1>1 DEF Shown, SeenOK

\* ROLLBACK TO SAVEPOINT.
LEMMA RollbackToKeeps ==
  ASSUME IInv, use' = use, NEW s \in Session, NEW name \in Name, RollbackTo(s, name)
  PROVE  IInv'
<1>1. PICK t \in Txn : t = txn[s] /\ TxnInv(t)
  BY SessionTypes DEF RollbackTo
<1>2. PICK i \in 1..Len(t.sps) : SaveTxn(s, RollbackToSavepoint(t, i))
  BY <1>1 DEF RollbackTo, Position
<1>3. PICK u : u = RollbackToSavepoint(t, i)
  OBVIOUS
<1>4. u \in Txn /\ TxnInv(u)
  <2>1. Cut(t, u, t.sps[i].mark, i)
    BY <1>1, <1>3, RollbackToSavepointFacts
  <2> QED  BY <2>1 DEF Cut
<1>5. ~scan[s].on /\ StmtOK(u, stmt[s])
  BY ReadyFacts DEF RollbackTo
<1>6. PICK w \in Shown : w = [now |-> {}, before |-> seen[s].now \cup seen[s].before] /\ SeenOK(u, w)
  BY Forgotten
<1>7. stmt[s] \in Stmts /\ stmt' = [stmt EXCEPT ![s] = stmt[s]] /\ seen' = [seen EXCEPT ![s] = w]
  <2>1. seen' = [seen EXCEPT ![s] = w]
    BY <1>6 DEF RollbackTo
  <2>2. stmt' = stmt
    BY DEF RollbackTo
  <2> QED  BY <2>1, <2>2, SessionTypes DEF IInv, TypeOK
<1>8. SaveTxn(s, u)
  BY <1>2, <1>3
<1> QED  BY <1>4, <1>5, <1>6, <1>7, <1>8, SavedKeeps

\* RELEASE SAVEPOINT.
LEMMA ReleaseKeeps ==
  ASSUME IInv, use' = use, NEW s \in Session, NEW name \in Name, Release(s, name)
  PROVE  IInv'
<1>1. PICK t \in Txn : t = txn[s] /\ TxnInv(t)
  BY SessionTypes DEF Release
<1>2. PICK i \in 1..Len(t.sps) : SaveTxn(s, ReleaseSavepoint(t, i))
  BY <1>1 DEF Release, Position
<1>3. PICK u : u = ReleaseSavepoint(t, i)
  OBVIOUS
<1>4. u \in Txn /\ TxnInv(u) /\ Kept(t, u)
  <2>1. Cut(t, u, Len(t.undo), i - 1)
    BY <1>1, <1>3, ReleaseSavepointFacts
  <2> QED  BY <2>1 DEF Cut
<1>5. u.ranges = t.ranges
  BY <1>3 DEF ReleaseSavepoint, DropLog, Txn
<1>6. ~scan[s].on /\ StmtOK(u, stmt[s])
  BY ReadyFacts DEF Release
<1>7. stmt[s] \in Stmts /\ seen[s] \in Shown /\ SeenOK(t, seen[s])
  BY <1>1, SessionTypes DEF SessionOK
<1>8. SeenOK(u, seen[s])
  BY <1>4, <1>5, <1>7, SameReads
<1>9. stmt' = [stmt EXCEPT ![s] = stmt[s]] /\ seen' = [seen EXCEPT ![s] = seen[s]]
  BY DEF Release, IInv, TypeOK
<1>10. SaveTxn(s, u)
  BY <1>2, <1>3
<1> QED  BY <1>4, <1>6, <1>7, <1>8, <1>9, <1>10, SavedKeeps

\* A transaction that has read or locked something.
LEMMA Touched ==
  ASSUME NEW t \in Txn, TxnInv(t), NEW u \in Txn, SameBuffer(t, u), u.sps = t.sps, u.cps = t.cps
  PROVE  TxnInv(u) /\ \A q : StmtOK(t, q) => StmtOK(u, q)
<1>1. BufferOK(u) /\ BytesOK(u)
  BY SameBufferFacts DEF TxnInv
<1>2. u.undo = t.undo
  BY DEF SameBuffer
<1>3. MarksOK(u)
  BY <1>2 DEF TxnInv, MarksOK, Logging
<1>4. \A q : CheckpointOK(t, q.checkpoint) => CheckpointOK(u, q.checkpoint)
  BY <1>2 DEF CheckpointOK
<1>5. t # NoTxn /\ u # NoTxn
  BY NoTxnAssumption
<1> QED  BY <1>1, <1>3, <1>4, <1>5 DEF TxnInv, StmtOK

\* What the client is shown.
LEMMA ShowFacts ==
  ASSUME IInv, NEW s \in Session, NEW K \in SUBSET Key, seen' = Show(s, K)
  PROVE  \E w \in Shown : /\ seen' = [seen EXCEPT ![s] = w]
                          /\ w.now = IF InTxn(s) /\ txn[s].ser THEN seen[s].now \cup K ELSE seen[s].now
<1>1. seen[s] \in Shown
  BY SessionTypes
<1>2. CASE InTxn(s) /\ txn[s].ser
  <2>1. seen' = [seen EXCEPT ![s].now = @ \cup K]
    BY <1>2 DEF Show
  <2>2. PICK w : w = [seen[s] EXCEPT !.now = @ \cup K]
    OBVIOUS
  <2>3. w \in Shown /\ w.now = seen[s].now \cup K
    BY <1>1, <2>2 DEF Shown
  <2>4. seen' = [seen EXCEPT ![s] = w]
    BY <2>1, <2>2
  <2> QED  BY <1>2, <2>3, <2>4
<1>3. CASE ~(InTxn(s) /\ txn[s].ser)
  <2>1. seen' = [seen EXCEPT ![s] = seen[s]]
    BY <1>3 DEF Show, IInv, TypeOK
  <2> QED  BY <1>1, <1>3, <2>1
<1> QED  BY <1>2, <1>3

\* A lookup.
LEMMA GetKeeps ==
  ASSUME IInv, use' = use, NEW s \in Session, NEW k \in Key, Get(s, k)
  PROVE  IInv'
<1>1. PICK t \in Txn : t = txn[s] /\ TxnInv(t)
  BY SessionTypes DEF Get
<1>2. PICK R : R = Reads(t, k)
  OBVIOUS
<1>3. R \in SUBSET Row /\ t.reads \subseteq R /\ (t.ser /\ k \in Row => k \in R)
  <2>1. t.reads \in SUBSET Row
    BY DEF Txn
  <2> QED  BY <1>2, <2>1, MetaAssumption DEF Reads, Key
<1>4. PICK u : u = [t EXCEPT !.reads = R]
  OBVIOUS
<1>5. u \in Txn /\ SameBuffer(t, u) /\ u.sps = t.sps /\ u.cps = t.cps /\ u.reads = R
      /\ u.locked = t.locked /\ u.ranges = t.ranges /\ u.ser = t.ser
  BY <1>3, <1>4 DEF Txn, SameBuffer
<1>6. /\ SaveTxn(s, u) /\ UNCHANGED stmt /\ ~scan[s].on /\ seen' = Show(s, {k})
      /\ InTxn(s)
  BY <1>1, <1>2, <1>4 DEF Get, Ready, InUnit
<1>7. stmt[s] \in Stmts /\ stmt' = [stmt EXCEPT ![s] = stmt[s]] /\ StmtOK(t, stmt[s]) /\ SeenOK(t, seen[s])
  BY <1>1, <1>6, SessionTypes DEF SessionOK, IInv, TypeOK
<1>8. TxnInv(u) /\ StmtOK(u, stmt[s])
  BY <1>1, <1>5, <1>7, Touched
<1>9. PICK w \in Shown : /\ seen' = [seen EXCEPT ![s] = w]
                         /\ w.now = IF InTxn(s) /\ txn[s].ser THEN seen[s].now \cup {k} ELSE seen[s].now
  <2>1. PICK K \in SUBSET Key : K = {k}
    OBVIOUS
  <2>2. seen' = Show(s, K)
    BY <1>6, <2>1
  <2>3. \E w \in Shown : /\ seen' = [seen EXCEPT ![s] = w]
                         /\ w.now = IF InTxn(s) /\ txn[s].ser THEN seen[s].now \cup K ELSE seen[s].now
    BY <2>2, ShowFacts, Zenon
  <2> QED  BY <2>1, <2>3
<1>10. SeenOK(u, w)
  <2>1. SUFFICES ASSUME u.ser PROVE w.now \cap Row \subseteq ReadSet(u)
    BY DEF SeenOK
  <2>2. t.ser /\ t # NoTxn
    BY <1>5, <2>1, NoTxnAssumption
  <2>3. seen[s].now \cap Row \subseteq ReadSet(t)
    BY <1>7, <2>2 DEF SeenOK
  <2>4. ReadSet(t) \subseteq ReadSet(u)
    BY <1>3, <1>5 DEF ReadSet
  <2>5. k \in Row => k \in ReadSet(u)
    BY <1>3, <1>5, <2>1, <2>2 DEF ReadSet
  <2>6. w.now = seen[s].now \cup {k}
    BY <1>1, <1>6, <1>9, <2>2
  <2> QED  BY <2>3, <2>4, <2>5, <2>6
<1> QED  BY <1>5, <1>6, <1>7, <1>8, <1>9, <1>10, SavedKeeps

\* SELECT ... FOR UPDATE.
LEMMA LockKeyKeeps ==
  ASSUME IInv, use' = use, NEW s \in Session, NEW k \in Key, LockKey(s, k)
  PROVE  IInv'
<1>1. PICK t \in Txn : t = txn[s] /\ TxnInv(t)
  BY SessionTypes DEF LockKey
<1>2. PICK L : L = t.locked \cup {k}
  OBVIOUS
<1>3. L \in SUBSET Key
  BY <1>2 DEF Txn
<1>4. PICK u : u = [t EXCEPT !.locked = L]
  OBVIOUS
<1>5. u \in Txn /\ SameBuffer(t, u) /\ u.sps = t.sps /\ u.cps = t.cps /\ u.reads = t.reads
      /\ u.locked = L /\ u.ranges = t.ranges /\ u.ser = t.ser
  BY <1>3, <1>4 DEF Txn, SameBuffer
<1>6. SaveTxn(s, u) /\ UNCHANGED <<stmt, seen>> /\ ~scan[s].on
  BY <1>1, <1>2, <1>4 DEF LockKey, Ready, InUnit
<1>7. /\ stmt[s] \in Stmts /\ stmt' = [stmt EXCEPT ![s] = stmt[s]] /\ StmtOK(t, stmt[s])
      /\ seen[s] \in Shown /\ seen' = [seen EXCEPT ![s] = seen[s]] /\ SeenOK(t, seen[s])
  BY <1>1, <1>6, SessionTypes DEF SessionOK, IInv, TypeOK
<1>8. TxnInv(u) /\ StmtOK(u, stmt[s])
  BY <1>1, <1>5, <1>7, Touched
<1>9. ReadSet(t) \subseteq ReadSet(u)
  BY <1>2, <1>5 DEF ReadSet
<1>10. SeenOK(u, seen[s])
  BY <1>5, <1>7, <1>9, NoTxnAssumption DEF SeenOK
<1> QED  BY <1>5, <1>6, <1>7, <1>8, <1>10, SavedKeeps

\* A scan starts.
LEMMA StartScanKeeps ==
  ASSUME IInv, use' = use, NEW s \in Session, NEW from \in Nat, NEW to \in Nat, StartScan(s, from, to)
  PROVE  IInv'
<1>1. /\ txn[s] \in Txn \cup {NoTxn} /\ conf[s] \in Conf /\ stmt[s] \in Stmts
      /\ scan[s] \in Scans /\ seen[s] \in Shown
      /\ SessionOK(txn[s], stmt[s], scan[s], seen[s])
      /\ db \in State /\ db[Meta] \in 0..MaxCount /\ cancels \in 0..MaxCancel
  BY SessionTypes
<1>2. PICK h : h = [on |-> TRUE, done |-> FALSE, from |-> from, to |-> to, cursor |-> from, rows |-> {}]
  OBVIOUS
<1>3. h \in Scans
  BY <1>2 DEF Scans, ScanState
<1>4. ScanOK(txn[s], h)
  <2>1. h.on /\ ~h.done /\ h.from = from /\ h.to = to /\ h.cursor = from /\ h.rows = {}
    BY <1>2
  <2>2. \A d : RowsIn(d, from, from) = {}
    <3>1. \A k \in Row : k \in Nat
      BY RowAssumption
    <3> QED  BY <3>1 DEF RowsIn, In
  <2> QED  BY <2>1, <2>2 DEF ScanOK
<1>5. PICK c \in Conf : conf' = [conf EXCEPT ![s] = c]
  <2>1. [conf[s] EXCEPT !.next = << >>] \in Conf
    BY <1>1, ConfFacts
  <2>2. conf' = [conf EXCEPT ![s].next = << >>] \/ conf' = conf
    BY DEF StartScan, UsesMode
  <2>3. conf = [conf EXCEPT ![s] = conf[s]]
    BY DEF IInv, TypeOK
  <2> QED  BY <1>1, <2>1, <2>2, <2>3
<1>6. Moves(s, txn[s], c, stmt[s], h, seen[s]) /\ UNCHANGED <<db, cancels>>
  <2>1. scan' = [scan EXCEPT ![s] = h] /\ UNCHANGED <<db, txn, stmt, seen, cancels>>
    BY <1>2 DEF StartScan
  <2> QED  BY <1>5, <2>1 DEF Moves, IInv, TypeOK
<1>7. SessionOK(txn[s], stmt[s], h, seen[s])
  BY <1>1, <1>4 DEF SessionOK
<1> QED  BY <1>1, <1>3, <1>6, <1>7, SessionStep

\* The last step of a scan.
LEMMA EndScanKeeps ==
  ASSUME IInv, use' = use, NEW s \in Session, EndScan(s)
  PROVE  IInv'
<1>1. /\ txn[s] \in Txn \cup {NoTxn} /\ conf[s] \in Conf /\ stmt[s] \in Stmts
      /\ seen[s] \in Shown
      /\ SessionOK(txn[s], stmt[s], scan[s], seen[s])
      /\ db \in State /\ db[Meta] \in 0..MaxCount /\ cancels \in 0..MaxCancel
  BY SessionTypes
<1>2. Moves(s, txn[s], conf[s], stmt[s], NoScan, seen[s]) /\ UNCHANGED <<db, cancels>>
  BY DEF EndScan, Moves, IInv, TypeOK
<1>3. NoScan \in Scans /\ SessionOK(txn[s], stmt[s], NoScan, seen[s])
  BY <1>1, IdleFacts DEF SessionOK
<1> QED  BY <1>1, <1>2, <1>3, SessionStep

\* A batch and where it leads: X the rows to take it from, all in the range.
Batch(X, from, to, batch, next) ==
  /\ batch \subseteq X /\ IsFiniteSet(batch) /\ Cardinality(batch) \in Nat /\ next \in Nat
  /\ Cardinality(batch) < Limit => batch = X /\ next = to
  /\ ~(Cardinality(batch) < Limit) =>
       from <= next /\ next <= to /\ batch = {j \in X : In(j, from, next)}

\* The first rows of a range and the cursor behind them make such a batch.
LEMMA BatchFacts ==
  ASSUME NEW from \in Nat, NEW to \in Nat, NEW X \in SUBSET Row, \A k \in X : In(k, from, to),
         NEW batch, batch = FirstRows(X, Limit),
         NEW next, next = IF Cardinality(batch) < Limit THEN to ELSE LastRow(batch) + 1
  PROVE  Batch(X, from, to, batch, next)
<1>1. X \in SUBSET Nat /\ IsFiniteSet(X)
  BY RowAssumption, FS_Subset
<1>2. /\ batch \subseteq X /\ IsFiniteSet(batch) /\ Cardinality(batch) \in Nat
      /\ Cardinality(batch) < Limit => batch = X
      /\ batch # X => \E m \in X : batch = {j \in X : j <= m} /\ Cardinality(batch) = Limit
  BY <1>1, FirstRowsFacts, LimitAssumption
<1>3. CASE Cardinality(batch) < Limit
  BY <1>2, <1>3 DEF Batch
<1>4. CASE ~(Cardinality(batch) < Limit)
  <2>1. batch # {}
    BY <1>2, <1>4, FS_EmptySet, LimitAssumption
  <2>2. batch \in SUBSET Nat
    BY <1>1, <1>2
  <2>3. PICK l : l = LastRow(batch)
    OBVIOUS
  <2>4. l \in batch /\ l \in Nat /\ \A j \in batch : j <= l
    BY <1>2, <2>1, <2>2, <2>3, LastRowFacts
  <2>5. next = l + 1 /\ from <= l /\ l < to
    BY <1>2, <1>4, <2>3, <2>4 DEF In
  <2>6. \A j \in X : j \in batch <=> j <= l
    <3>1. CASE batch = X
      BY <2>4, <3>1
    <3>2. CASE batch # X
      <4>1. PICK m \in X : batch = {j \in X : j <= m}
        BY <1>2, <3>2
      <4>2. m \in batch /\ m \in Nat /\ l \in X
        BY <1>1, <1>2, <2>4, <4>1
      <4>3. m = l
        BY <2>4, <4>1, <4>2
      <4> QED  BY <4>1, <4>3
    <3> QED  BY <3>1, <3>2
  <2>7. \A j \in X : j <= l <=> In(j, from, next)
    BY <1>1, <2>4, <2>5 DEF In
  <2>8. batch = {j \in X : In(j, from, next)}
    BY <1>2, <2>6, <2>7
  <2>9. from <= next /\ next <= to /\ next \in Nat
    BY <2>4, <2>5
  <2> QED  BY <1>2, <1>4, <2>8, <2>9 DEF Batch
<1> QED  BY <1>3, <1>4

\* Two ranges that meet make one.
LEMMA RangesMeet ==
  ASSUME NEW d, NEW from \in Nat, NEW mid \in Nat, NEW to \in Nat, from <= mid, mid <= to
  PROVE  RowsIn(d, from, mid) \cup RowsIn(d, mid, to) = RowsIn(d, from, to)
<1>1. \A k \in Row : k \in Nat
  BY RowAssumption
<1> QED  BY <1>1 DEF RowsIn, In

\* A scan goes on by one batch.
LEMMA ScanGoesOn ==
  ASSUME NEW t \in Txn \cup {NoTxn}, t # NoTxn => TxnInv(t), NEW c \in ScanState, ~c.done, ScanOK(t, c),
         NEW X \in SUBSET Row, \A k \in X : In(k, c.cursor, c.to), NEW batch, NEW next,
         Batch(X, c.cursor, c.to, batch, next),
         t # NoTxn /\ RowsIn(t.snap, c.cursor, c.to) \cap t.dels = {}
           => Batch(RowsIn(View(t), c.cursor, c.to), c.cursor, c.to, batch, next),
         NEW h, h = [c EXCEPT !.rows = @ \cup batch, !.done = Cardinality(batch) < Limit, !.cursor = next]
  PROVE  h \in ScanState /\ ScanOK(t, h)
<1>1. c.from \in Nat /\ c.to \in Nat /\ c.cursor \in Nat /\ c.rows \in SUBSET Row /\ c.on
  BY DEF ScanState
<1>2. PICK short \in BOOLEAN : short = (Cardinality(batch) < Limit)
  <2>1. (Cardinality(batch) < Limit) = TRUE \/ (Cardinality(batch) < Limit) = FALSE
    OBVIOUS
  <2> QED  BY <2>1, Zenon
<1>3. batch \subseteq X /\ next \in Nat
  BY DEF Batch
<1>4. PICK rows \in SUBSET Row : rows = c.rows \cup batch
  BY <1>1, <1>3
<1>5. h = [c EXCEPT !.rows = rows, !.done = short, !.cursor = next]
  BY <1>2, <1>4
<1>6. h \in ScanState /\ h.rows = rows /\ h.done = short /\ h.cursor = next /\ h.from = c.from /\ h.to = c.to
      /\ h.on
  BY <1>3, <1>5 DEF ScanState
<1>7. c.from <= c.cursor /\ (c.cursor <= c.to \/ c.cursor = c.from)
  BY <1>1 DEF ScanOK
<1>8. short => next = c.to
  BY <1>2 DEF Batch
<1>9. ~short => c.cursor <= next /\ next <= c.to
  BY <1>2 DEF Batch
<1>10. ~short => c.from <= next
  BY <1>1, <1>3, <1>7, <1>9
<1>11. ASSUME t # NoTxn, RowsIn(t.snap, c.from, c.to) \cap t.dels = {}
       PROVE  rows = RowsIn(View(t), c.from, next)
  <2>1. c.rows = RowsIn(View(t), c.from, c.cursor)
    BY <1>1, <1>11 DEF ScanOK
  <2>2. RowsIn(t.snap, c.cursor, c.to) \subseteq RowsIn(t.snap, c.from, c.to)
    <3>1. \A k \in Row : k \in Nat
      BY RowAssumption
    <3> QED  BY <1>1, <1>7, <3>1 DEF RowsIn, In
  <2>3. PICK V : V = RowsIn(View(t), c.cursor, c.to)
    OBVIOUS
  <2>4. Batch(V, c.cursor, c.to, batch, next)
    BY <1>11, <2>2, <2>3
  <2>7. CASE short
    <3>1. batch = V
      BY <1>2, <2>4, <2>7 DEF Batch
    <3>2. CASE c.cursor <= c.to
      BY <1>1, <1>4, <1>7, <1>8, <2>1, <2>3, <2>7, <3>1, <3>2, RangesMeet
    <3>3. CASE ~(c.cursor <= c.to)
      <4>1. c.cursor = c.from /\ c.to < c.from
        BY <1>1, <1>7, <3>3
      <4>2. RowsIn(View(t), c.from, c.cursor) = {} /\ V = {} /\ RowsIn(View(t), c.from, c.to) = {}
        <5>1. \A k \in Row : k \in Nat
          BY RowAssumption
        <5> QED  BY <1>1, <2>3, <4>1, <5>1 DEF RowsIn, In
      <4> QED  BY <1>4, <1>8, <2>1, <2>7, <3>1, <4>2
    <3> QED  BY <3>2, <3>3
  <2>8. CASE ~short
    <3>1. batch = RowsIn(View(t), c.cursor, next)
      <4>1. batch = {j \in V : In(j, c.cursor, next)}
        BY <1>2, <2>4, <2>8 DEF Batch
      <4>2. \A k \in Row : k \in Nat /\ (In(k, c.cursor, next) => In(k, c.cursor, c.to))
        BY <1>1, <1>3, <1>9, <2>8, RowAssumption DEF In
      <4> QED  BY <2>3, <4>1, <4>2 DEF RowsIn
    <3> QED  BY <1>1, <1>3, <1>4, <1>7, <1>9, <2>1, <2>8, <3>1, RangesMeet
  <2> QED  BY <2>7, <2>8
<1> QED  BY <1>1, <1>6, <1>8, <1>9, <1>10, <1>11 DEF ScanOK

\* One batch of a scan.
LEMMA ScanBatchKeeps ==
  ASSUME IInv, use' = use, NEW s \in Session, ScanBatch(s)
  PROVE  IInv'
<1>1. PICK t \in Txn \cup {NoTxn} : t = txn[s] /\ (t # NoTxn => t \in Txn /\ TxnInv(t)) /\ (InTxn(s) <=> t # NoTxn)
  BY SessionTypes DEF InTxn
<1>2. /\ conf[s] \in Conf /\ stmt[s] \in Stmts /\ scan[s] \in Scans
      /\ SessionOK(t, stmt[s], scan[s], seen[s])
      /\ db \in State /\ db[Meta] \in 0..MaxCount /\ cancels \in 0..MaxCancel
  BY <1>1, SessionTypes
<1>3. PICK c \in ScanState : c = scan[s] /\ ~c.done
  BY <1>2 DEF ScanBatch, Scans, NoScan
<1>4. c.from \in Nat /\ c.to \in Nat /\ c.cursor \in Nat
  BY DEF ScanState
<1>5. PICK W : W = FirstRows(RowsIn(t.snap, c.cursor, c.to), Limit)
  OBVIOUS
<1>6. PICK X : X = IF t # NoTxn THEN (W \cup RowsIn(t.puts, c.cursor, c.to)) \ t.dels
                   ELSE RowsIn(db, c.cursor, c.to)
  OBVIOUS
<1>7. X \in SUBSET Row /\ \A k \in X : In(k, c.cursor, c.to)
  <2>1. \A d : RowsIn(d, c.cursor, c.to) \subseteq Row /\ \A k \in RowsIn(d, c.cursor, c.to) : In(k, c.cursor, c.to)
    BY DEF RowsIn
  <2>2. W \subseteq RowsIn(t.snap, c.cursor, c.to)
    BY <1>5 DEF FirstRows
  <2> QED  BY <1>6, <2>1, <2>2
<1>8. PICK batch : batch = FirstRows(X, Limit)
  OBVIOUS
<1>9. PICK next : next = IF Cardinality(batch) < Limit THEN c.to ELSE LastRow(batch) + 1
  OBVIOUS
<1>10. Batch(X, c.cursor, c.to, batch, next)
  BY <1>4, <1>7, <1>8, <1>9, BatchFacts, Zenon
<1>11. batch = IF t # NoTxn THEN Merge(t, c.cursor, c.to) ELSE FirstRows(RowsIn(db, c.cursor, c.to), Limit)
  BY <1>5, <1>6, <1>8 DEF Merge
<1>12. PICK h : h = [c EXCEPT !.rows = @ \cup batch, !.done = Cardinality(batch) < Limit, !.cursor = next]
  OBVIOUS
<1>13. /\ scan' = [scan EXCEPT ![s] = h]
       /\ txn' = IF t # NoTxn THEN [txn EXCEPT ![s].ranges = ScanRanges(t, c.cursor, c.to)] ELSE txn
       /\ seen' = Show(s, {k \in Row : In(k, c.cursor, next)})
       /\ UNCHANGED <<db, conf, stmt, cancels>>
  BY <1>1, <1>3, <1>9, <1>11, <1>12 DEF ScanBatch
<1>14. h \in ScanState /\ ScanOK(t, h)
  <2>1. ASSUME t # NoTxn, RowsIn(t.snap, c.cursor, c.to) \cap t.dels = {}
        PROVE  Batch(RowsIn(View(t), c.cursor, c.to), c.cursor, c.to, batch, next)
    <3>1. PICK V : V = RowsIn(View(t), c.cursor, c.to)
      OBVIOUS
    <3>2. t \in Txn /\ BufferOK(t)
      BY <1>1, <2>1 DEF TxnInv
    <3>3. batch = FirstRows(V, Limit)
      BY <1>11, <2>1, <3>1, <3>2, MergeFacts
    <3>4. V \in SUBSET Row /\ \A k \in V : In(k, c.cursor, c.to)
      BY <3>1 DEF RowsIn
    <3>5. Batch(V, c.cursor, c.to, batch, next)
      BY <1>4, <1>9, <3>3, <3>4, BatchFacts, Zenon
    <3> QED  BY <3>1, <3>5
  <2>2. ScanOK(t, c)
    BY <1>2, <1>3 DEF SessionOK
  <2> QED  BY <1>1, <1>3, <1>7, <1>10, <1>12, <2>1, <2>2, ScanGoesOn, Zenon
<1>15. PICK K \in SUBSET Key : K = {k \in Row : In(k, c.cursor, next)}
  BY KeyFacts
<1>16. PICK w \in Shown : /\ seen' = [seen EXCEPT ![s] = w]
                          /\ w.now = IF InTxn(s) /\ txn[s].ser THEN seen[s].now \cup K ELSE seen[s].now
  <2>1. seen' = Show(s, K)
    BY <1>13, <1>15
  <2> QED  BY <2>1, ShowFacts, Zenon
<1>17. PICK u : u = IF t # NoTxn THEN [t EXCEPT !.ranges = ScanRanges(t, c.cursor, c.to)] ELSE t
  OBVIOUS
<1>18. Moves(s, u, conf[s], stmt[s], h, w)
  <2>1. txn' = [txn EXCEPT ![s] = u]
    BY <1>1, <1>13, <1>17 DEF IInv, TypeOK
  <2> QED  BY <1>13, <1>16, <2>1 DEF Moves, IInv, TypeOK
<1>19. u \in Txn \cup {NoTxn} /\ SessionOK(u, stmt[s], h, w)
  <2>1. CASE t = NoTxn
    BY <1>2, <1>14, <1>17, <2>1 DEF SessionOK, SeenOK
  <2>2. CASE t # NoTxn
    <3>0. t \in Txn /\ TxnInv(t) /\ InTxn(s)
      BY <1>1, <2>2
    <3>1. PICK R : R = ScanRanges(t, c.cursor, c.to)
      OBVIOUS
    <3>2. PICK p \in Span : p = [from |-> c.cursor, to |-> c.to]
      BY <1>4 DEF Span
    <3>3. R = IF t.ser THEN Append(t.ranges, p) ELSE t.ranges
      BY <3>1, <3>2 DEF ScanRanges
    <3>4. t.ranges \in Seq(Span)
      BY <3>0 DEF Txn
    <3>5. R \in Seq(Span)
      BY <3>2, <3>3, <3>4, AppendProperties
    <3>6. u = [t EXCEPT !.ranges = R]
      BY <1>17, <2>2, <3>1
    <3>7. u \in Txn /\ SameBuffer(t, u) /\ u.sps = t.sps /\ u.cps = t.cps /\ u.reads = t.reads
          /\ u.locked = t.locked /\ u.ranges = R /\ u.ser = t.ser
      BY <3>0, <3>5, <3>6 DEF Txn, SameBuffer
    <3>8. TxnInv(u) /\ StmtOK(u, stmt[s])
      BY <1>2, <3>0, <3>7, Touched DEF SessionOK
    <3>9. ScanOK(u, h)
      <4>1. View(u) = View(t) /\ u.snap = t.snap /\ u.dels = t.dels /\ u # NoTxn
        BY <3>7, SameBufferFacts, NoTxnAssumption DEF SameBuffer
      <4> QED  BY <1>14, <2>2, <4>1 DEF ScanOK
    <3>10. SeenOK(u, w)
      <4>1. SUFFICES ASSUME u.ser PROVE w.now \cap Row \subseteq ReadSet(u)
        BY DEF SeenOK
      <4>2. seen[s].now \cap Row \subseteq ReadSet(t)
        BY <1>2, <2>2, <3>7, <4>1 DEF SessionOK, SeenOK
      <4>3. R = Append(t.ranges, p) /\ Len(t.ranges) \in Nat
        BY <3>3, <3>4, <3>7, <4>1
      <4>4. PICK N : N = Len(t.ranges) + 1
        OBVIOUS
      <4>5. N \in DOMAIN R /\ R[N] = p /\ \A i \in DOMAIN t.ranges : i \in DOMAIN R /\ R[i] = t.ranges[i]
        BY <3>2, <3>4, <4>3, <4>4, AppendProperties
      <4>6. ReadSet(t) \subseteq ReadSet(u)
        BY <3>7, <4>5 DEF ReadSet
      <4>7. \A k \in Row : In(k, c.cursor, c.to) => k \in ReadSet(u)
        BY <3>2, <3>7, <4>1, <4>5 DEF ReadSet
      <4>8. \A k \in Row : In(k, c.cursor, next) => In(k, c.cursor, c.to)
        <5>1. next \in Nat /\ (next = c.to \/ next <= c.to)
          BY <1>10 DEF Batch
        <5> QED  BY <1>4, <5>1, RowAssumption DEF In
      <4>9. K \subseteq ReadSet(u)
        BY <1>15, <4>7, <4>8
      <4>10. w.now = seen[s].now \cup K
        BY <1>1, <1>16, <3>0, <3>7, <4>1
      <4> QED  BY <4>2, <4>6, <4>9, <4>10
    <3> QED  BY <3>7, <3>8, <3>9, <3>10 DEF SessionOK
  <2> QED  BY <2>1, <2>2
<1>20. h \in Scans
  BY <1>14 DEF Scans
<1> QED  BY <1>2, <1>13, <1>16, <1>18, <1>19, <1>20, SessionStep

\* The write counter a transaction sees.
LEMMA CountFacts ==
  ASSUME NEW t \in Txn, TxnInv(t)
  PROVE  View(t)[Meta] \in 0..MaxCount /\ t.snap[Meta] \in 0..MaxCount /\ t.snap[Meta] <= View(t)[Meta]
<1>1. t.dels \in SUBSET Row /\ t.snap[Meta] \in 0..MaxCount
  BY DEF Txn, TxnInv, BufferOK
<1>2. View(t)[Meta] = IF t.puts[Meta] # Absent THEN t.puts[Meta] ELSE t.snap[Meta]
  BY <1>1, ViewType, KeyFacts, MetaAssumption
<1>3. t.puts[Meta] # Absent => t.puts[Meta] \in 0..MaxCount /\ t.puts[Meta] > t.snap[Meta]
  BY KeyFacts DEF TxnInv, BufferOK, CellOK
<1> QED  BY <1>1, <1>2, <1>3, BoundAssumption

\* The operations of a statement's write.
LEMMA OpsFacts ==
  ASSUME NEW w \in Seq([key : Row, val : Val \cup {Absent}]), NEW count \in Nat, count < MaxCount,
         NEW ops, ops = Ops(w, count)
  PROVE  /\ ops \in Seq([key : Key, val : Value])
         /\ \A n \in 1..Len(ops) : /\ ops[n].key = Meta => ops[n].val \in 0..MaxCount
                                   /\ \A snap : snap[Meta] \in 0..count => OpOK(snap, ops[n])
<1> DEFINE Op == [key : Key, val : Value]
           RowOp == [key : Row, val : Val \cup {Absent}]
<1>1. PICK c \in 0..MaxCount : c = count + 1 /\ c # Absent
  BY BoundAssumption, ValAssumption
<1>2. PICK o \in Op : o = [key |-> Meta, val |-> c]
  BY KeyFacts
<1>3. ops = Append(w, o)
  BY <1>1, <1>2 DEF Ops
<1>4. \A n \in 1..Len(w) : w[n] \in Op /\ w[n].key \in Row
  <2>1. \A o1 \in RowOp : o1 \in Op /\ o1.key \in Row
    BY KeyFacts DEF Value
  <2>2. w \in Seq(RowOp)
    OBVIOUS
  <2> HIDE DEF RowOp, Op
  <2>3. \A n \in 1..Len(w) : w[n] \in RowOp
    BY <2>2
  <2> QED  BY <2>1, <2>3
<1>a. w \in Seq(RowOp)
  OBVIOUS
<1> HIDE DEF Op, RowOp
<1>5. w \in Seq(Op) /\ Len(w) \in Nat
  BY <1>4, <1>a
<1>6. /\ ops \in Seq(Op) /\ Len(ops) = Len(w) + 1 /\ ops[Len(w) + 1] = o
      /\ \A n \in 1..Len(w) : ops[n] = w[n]
  BY <1>2, <1>3, <1>5, AppendProperties
<1>7. ASSUME NEW n \in 1..Len(ops)
      PROVE  /\ ops[n].key = Meta => ops[n].val \in 0..MaxCount
             /\ \A snap : snap[Meta] \in 0..count => OpOK(snap, ops[n])
  <2>1. CASE n = Len(w) + 1
    <3>1. ops[n].key = Meta /\ ops[n].val = c /\ ops[n] \in Op
      BY <1>2, <1>6, <2>1
    <3>2. \A snap : snap[Meta] \in 0..count => c > snap[Meta]
      BY <1>1
    <3> QED  BY <1>1, <3>1, <3>2 DEF OpOK, CellOK, Op
  <2>2. CASE n # Len(w) + 1
    <3>1. n \in 1..Len(w)
      BY <1>5, <1>6, <2>2
    <3>2. ops[n] \in Op /\ ops[n].key # Meta
      BY <1>4, <1>6, <3>1, MetaAssumption
    <3> QED  BY <3>2 DEF OpOK, CellOK, Op
  <2> QED  BY <2>1, <2>2
<1> QED  BY <1>6, <1>7 DEF Op

\* What a write in a transaction does to it.
LEMMA WriteFacts ==
  ASSUME IInv, NEW s \in Session, NEW w \in use.write, Write(s, w)
  PROVE  \E t \in Txn, u \in Txn, b \in BOOLEAN :
           /\ t = txn[s] /\ TxnInv(t) /\ ~t.ro /\ Staged(t, u) /\ SaveTxn(s, u)
           /\ stmt' = IF stmt[s].kind = "unit" THEN [stmt EXCEPT ![s].failed = b] ELSE stmt
           /\ UNCHANGED seen /\ ~scan[s].on
<1>1. PICK t \in Txn : t = txn[s] /\ TxnInv(t)
  BY SessionTypes DEF Write
<1>2. use \in Workload
  BY SessionTypes
<1>3. w \in Seq([key : Row, val : Val \cup {Absent}]) /\ use.maxCount \in 0..MaxCount
  BY <1>2, WorkloadAssumption
<1>4. PICK count : count = View(t)[Meta]
  OBVIOUS
<1>5. count \in Nat /\ count < MaxCount /\ t.snap[Meta] \in 0..count
  <2>1. count \in 0..MaxCount /\ t.snap[Meta] \in 0..MaxCount /\ t.snap[Meta] <= count
    BY <1>1, <1>4, CountFacts
  <2>2. count < use.maxCount
    BY <1>1, <1>4 DEF Write
  <2> QED  BY <1>3, <2>1, <2>2, BoundAssumption
<1>6. PICK ops : ops = Ops(w, count)
  OBVIOUS
<1>7. /\ ops \in Seq([key : Key, val : Value])
      /\ \A n \in 1..Len(ops) : /\ ops[n].key = Meta => ops[n].val \in 0..MaxCount
                                /\ \A snap : snap[Meta] \in 0..count => OpOK(snap, ops[n])
  BY <1>3, <1>5, <1>6, OpsFacts
<1>8. \A n \in 1..Len(ops) : OpOK(t.snap, ops[n])
  BY <1>5, <1>7
<1>9. PICK r : r = StageAll(t, ops)
  OBVIOUS
<1>10. r.ok \in BOOLEAN /\ Staged(t, r.tx)
  BY <1>1, <1>7, <1>8, <1>9, StageAllFacts
<1>11. /\ SaveTxn(s, r.tx) /\ UNCHANGED seen /\ ~scan[s].on /\ ~t.ro
       /\ stmt' = IF stmt[s].kind = "unit" THEN [stmt EXCEPT ![s].failed = ~r.ok] ELSE stmt
  BY <1>1, <1>4, <1>6, <1>9 DEF Write, Ready, InUnit
<1>12. PICK b \in BOOLEAN : b = ~r.ok
  BY <1>10
<1>13. PICK u \in Txn : u = r.tx
  BY <1>10 DEF Staged
<1> QED  BY <1>1, <1>10, <1>11, <1>12, <1>13

\* A write in a transaction.
LEMMA WriteKeeps ==
  ASSUME IInv, use' = use, NEW s \in Session, NEW w \in use.write, Write(s, w)
  PROVE  IInv'
<1>1. PICK t \in Txn, u \in Txn, b \in BOOLEAN :
           /\ t = txn[s] /\ TxnInv(t) /\ ~t.ro /\ Staged(t, u) /\ SaveTxn(s, u)
           /\ stmt' = IF stmt[s].kind = "unit" THEN [stmt EXCEPT ![s].failed = b] ELSE stmt
           /\ UNCHANGED seen /\ ~scan[s].on
  BY WriteFacts
<1>2. stmt[s] \in Stmts /\ seen[s] \in Shown /\ StmtOK(t, stmt[s]) /\ SeenOK(t, seen[s])
  BY <1>1, SessionTypes DEF SessionOK
<1>3. seen' = [seen EXCEPT ![s] = seen[s]]
  BY <1>1 DEF IInv, TypeOK
<1>4. TxnInv(u) /\ SeenOK(u, seen[s])
  <2>1. Kept(t, u) /\ u.ranges = t.ranges /\ TxnInv(u)
    BY <1>1 DEF Staged, Frame, Kept
  <2> QED  BY <1>2, <2>1, SameReads
<1>5. \E q \in Stmts : stmt' = [stmt EXCEPT ![s] = q] /\ StmtOK(u, q)
  <2>1. CASE stmt[s].kind = "unit"
    <3>1. PICK q : q = [stmt[s] EXCEPT !.failed = b]
      OBVIOUS
    <3>2. stmt[s] \in OwnUnit \cup Unit
      BY <1>2, <2>1 DEF Stmts, Idle, Direct
    <3>3. q \in OwnUnit \cup Unit /\ q.kind = "unit" /\ q.owned = stmt[s].owned /\ (~q.owned => q.checkpoint = stmt[s].checkpoint)
      BY <3>1, <3>2 DEF OwnUnit, Unit
    <3>4. ~q.owned => CheckpointOK(t, q.checkpoint)
      BY <1>2, <2>1, <3>3 DEF StmtOK
    <3>5. ~q.owned => CheckpointOK(u, q.checkpoint)
      <4>1. SUFFICES ASSUME CheckpointOK(t, q.checkpoint), ~q.owned PROVE CheckpointOK(u, q.checkpoint)
        BY <3>4
      <4>2. q.checkpoint.mark \in Nat
        BY <3>3, <4>1 DEF OwnUnit, Unit
      <4>3. Len(t.undo) \in Nat /\ Len(u.undo) \in Nat /\ Len(t.undo) <= Len(u.undo)
            /\ u.sps = t.sps /\ u.cps = t.cps
        BY <1>1 DEF Txn, Staged, Frame
      <4> QED  BY <4>1, <4>2, <4>3 DEF CheckpointOK
    <3>6. StmtOK(u, q)
      BY <3>3, <3>5, NoTxnAssumption DEF StmtOK
    <3>7. stmt' = [stmt EXCEPT ![s] = q] /\ q \in Stmts
      BY <1>1, <2>1, <3>1, <3>3 DEF Stmts
    <3> QED  BY <3>6, <3>7
  <2>2. CASE stmt[s].kind # "unit"
    <3>1. stmt' = [stmt EXCEPT ![s] = stmt[s]]
      BY <1>1, <2>2 DEF IInv, TypeOK
    <3>2. StmtOK(u, stmt[s])
      BY <1>2, <2>2, NoTxnAssumption DEF StmtOK
    <3> QED  BY <1>2, <3>1, <3>2
  <2> QED  BY <2>1, <2>2
<1> QED  BY <1>1, <1>2, <1>3, <1>4, <1>5, SavedKeeps

\* A statement outside a transaction begins.
LEMMA StartDirectKeeps ==
  ASSUME IInv, use' = use, NEW s \in Session, NEW w \in use.write, StartDirect(s, w)
  PROVE  IInv'
<1>1. /\ txn[s] = NoTxn /\ conf[s] \in Conf /\ stmt[s] \in Stmts
      /\ scan[s] \in Scans /\ seen[s] \in Shown
      /\ db \in State /\ db[Meta] \in 0..MaxCount /\ cancels \in 0..MaxCancel /\ use \in Workload
  BY SessionTypes DEF StartDirect, InTxn
<1>2. w \in Seq([key : Row, val : Val \cup {Absent}]) /\ use.maxCount \in 0..MaxCount
  BY <1>1, WorkloadAssumption
<1>3. PICK ops : ops = Ops(w, db[Meta])
  OBVIOUS
<1>4. /\ ops \in Seq([key : Key, val : Value])
      /\ \A n \in 1..Len(ops) : ops[n].key = Meta => ops[n].val \in 0..MaxCount
  <2>1. PICK count \in Nat : count = db[Meta] /\ count < MaxCount
    BY <1>1, <1>2, BoundAssumption DEF StartDirect
  <2>2. ops = Ops(w, count)
    BY <1>3, <2>1
  <2>3. /\ ops \in Seq([key : Key, val : Value])
        /\ \A n \in 1..Len(ops) : /\ ops[n].key = Meta => ops[n].val \in 0..MaxCount
                                  /\ \A snap : snap[Meta] \in 0..count => OpOK(snap, ops[n])
    BY <1>2, <2>1, <2>2, OpsFacts
  <2> QED  BY <2>3
<1>5. PICK q : q = [kind |-> "direct", ops |-> ops]
  OBVIOUS
<1>6. q \in Stmts /\ StmtOK(NoTxn, q)
  <2>1. q \in Direct /\ q.kind = "direct" /\ q.ops = ops
    BY <1>4, <1>5 DEF Direct
  <2>2. DOMAIN ops = 1..Len(ops)
    BY <1>4
  <2> QED  BY <1>4, <2>1, <2>2 DEF Stmts, StmtOK
<1>7. PICK c \in Conf : conf' = [conf EXCEPT ![s] = c]
  <2>1. [conf[s] EXCEPT !.next = << >>] \in Conf
    BY <1>1, ConfFacts
  <2>2. conf' = [conf EXCEPT ![s].next = << >>] \/ conf' = conf
    BY DEF StartDirect, UsesMode
  <2>3. conf = [conf EXCEPT ![s] = conf[s]]
    BY DEF IInv, TypeOK
  <2> QED  BY <1>1, <2>1, <2>2, <2>3
<1>8. Moves(s, NoTxn, c, q, scan[s], seen[s]) /\ UNCHANGED <<db, cancels>>
  <2>1. stmt' = [stmt EXCEPT ![s] = q] /\ UNCHANGED <<db, txn, scan, seen, cancels>>
    BY <1>3, <1>5 DEF StartDirect
  <2> QED  BY <1>1, <1>7, <2>1 DEF Moves, IInv, TypeOK
<1>9. SessionOK(NoTxn, q, scan[s], seen[s])
  BY <1>6, ReadyFacts DEF SessionOK, SeenOK, StartDirect
<1> QED  BY <1>1, <1>6, <1>8, <1>9, SessionStep

\* The states as a direct write's operations are applied.
Writes(d, ops) ==
  LET f[n \in 0..Len(ops)] ==
        IF n = 0 THEN d ELSE [f[n - 1] EXCEPT ![ops[n].key] = ops[n].val]
  IN  f

\* A direct write leads from one state of the database to another, its counter bounded.
LEMMA WritesFacts ==
  ASSUME NEW d \in State, d[Meta] \in 0..MaxCount, NEW ops \in Seq([key : Key, val : Value]),
         \A n \in 1..Len(ops) : ops[n].key = Meta => ops[n].val \in 0..MaxCount
  PROVE  Writes(d, ops)[Len(ops)] \in State /\ Writes(d, ops)[Len(ops)][Meta] \in 0..MaxCount
<1> DEFINE N == Len(ops)
           Op == [key : Key, val : Value]
           S == {x \in State : x[Meta] \in 0..MaxCount}
           Go(x, n) == [x EXCEPT ![ops[n].key] = ops[n].val]
           F == [p \in Nat \X S |-> IF p[1] \in 1..N THEN Go(p[2], p[1]) ELSE p[2]]
           g == Writes(d, ops)
<1>1. N \in Nat /\ ops \in Seq(Op)
  OBVIOUS
<1>2. d \in S
  OBVIOUS
<1>3. ASSUME NEW n \in 1..N, NEW x \in S PROVE Go(x, n) \in S
  <2>1. ops[n] \in Op
    <3> HIDE DEF Op
    <3> QED  BY <1>1
  <2>2. ops[n].key \in Key /\ ops[n].val \in Value
    BY <2>1
  <2>3. Go(x, n) \in State
    BY <2>2 DEF State
  <2>4. Go(x, n)[Meta] = IF ops[n].key = Meta THEN ops[n].val ELSE x[Meta]
    BY <2>2, KeyFacts DEF State
  <2>5. Go(x, n)[Meta] \in 0..MaxCount
    BY <2>4
  <2> QED  BY <2>3, <2>5
<1> HIDE DEF S, N, Go, Op
<1>4. F \in [Nat \X S -> S]
  BY <1>3
<1>5. \A n \in Nat : \A x \in S : n \in 1..N => F[<<n, x>>] = Go(x, n)
  OBVIOUS
<1> HIDE DEF F
<1>6. PICK f \in [0..N -> S] : GoesOn(f, d, F, N)
  BY <1>1, <1>2, <1>4, Recursion
<1>7. f[0] = d /\ \A n \in 1..N : f[n] = Go(f[n - 1], n)
  <2>0. f[0] = d
    BY <1>6 DEF GoesOn
  <2> SUFFICES ASSUME NEW n \in 1..N PROVE f[n] = Go(f[n - 1], n)
    BY <2>0
  <2>1. n \in Nat /\ f[n-1] \in S /\ f[n] = F[<<n, f[n-1]>>]
    BY <1>1, <1>6 DEF GoesOn
  <2> QED  BY <1>5, <2>1
<1>8. f = [n \in 0..N |-> IF n = 0 THEN d ELSE Go(f[n - 1], n)]
  BY <1>1, <1>6, <1>7
<1>9. g = [n \in 0..N |-> IF n = 0 THEN d ELSE Go(g[n - 1], n)]
  BY <1>8 DEF Writes, N, Go
<1> HIDE DEF g
<1>10. g[0] = d /\ \A n \in 1..N : g[n] = Go(g[n - 1], n)
  BY <1>1, <1>9
<1> DEFINE P == {n \in Nat : n <= N => g[n] \in S}
<1>11. 0 \in P
  BY <1>2, <1>10
<1>12. ASSUME NEW n \in Nat, n \in P PROVE n + 1 \in P
  <2>1. CASE n + 1 <= N
    <3>1. n + 1 \in 1..N /\ n + 1 - 1 = n /\ g[n] \in S
      BY <1>1, <1>12, <2>1
    <3>2. g[n + 1] = Go(g[n], n + 1)
      BY <1>10, <3>1
    <3>3. g[n + 1] \in S
      BY <1>3, <3>1, <3>2
    <3> QED  BY <3>3
  <2>2. CASE ~(n + 1 <= N)
    BY <2>2
  <2> QED  BY <2>1, <2>2
<1> HIDE DEF P
<1>13. Nat \subseteq P
  BY <1>11, <1>12, SetInduction
<1>14. g[N] \in S
  BY <1>1, <1>13 DEF P
<1> QED  BY <1>14 DEF S, N, g

\* Db::commit of a statement outside a transaction.
LEMMA FinishDirectFacts ==
  ASSUME IInv, NEW s \in Session, FinishDirect(s)
  PROVE  txn[s] = NoTxn /\ db' \in State /\ db'[Meta] \in 0..MaxCount
<1>1. stmt[s] \in Stmts /\ StmtOK(txn[s], stmt[s]) /\ db \in State /\ db[Meta] \in 0..MaxCount
      /\ stmt[s].kind = "direct"
  BY SessionTypes DEF SessionOK, FinishDirect
<1>2. stmt[s] \in Direct
  <2>1. \A q \in OwnUnit : q.kind = "unit"
    BY DEF OwnUnit
  <2>2. \A q \in Unit : q.kind = "unit"
    BY DEF Unit
  <2>3. Idle.kind = "idle"
    BY IdleFacts
  <2> QED  BY <1>1, <2>1, <2>2, <2>3 DEF Stmts
<1>3. PICK ops : ops = stmt[s].ops
  OBVIOUS
<1>4. ops \in Seq([key : Key, val : Value])
  BY <1>2, <1>3 DEF Direct
<1>5. txn[s] = NoTxn /\ \A n \in 1..Len(ops) : ops[n].key = Meta => ops[n].val \in 0..MaxCount
  <2>1. DOMAIN ops = 1..Len(ops)
    BY <1>4
  <2> QED  BY <1>1, <1>3, <2>1 DEF StmtOK
<1>6. db' = Writes(db, ops)[Len(ops)]
  BY <1>3 DEF FinishDirect, Writes
<1> QED  BY <1>1, <1>4, <1>5, <1>6, WritesFacts

\* The commit of a direct write keeps the invariant.
LEMMA FinishDirectKeeps ==
  ASSUME IInv, use' = use, NEW s \in Session, FinishDirect(s)
  PROVE  IInv'
<1>1. /\ conf[s] \in Conf /\ scan[s] \in Scans /\ seen[s] \in Shown
      /\ SessionOK(txn[s], stmt[s], scan[s], seen[s]) /\ cancels \in 0..MaxCancel
  BY SessionTypes
<1>2. txn[s] = NoTxn /\ db' \in State /\ db'[Meta] \in 0..MaxCount
  BY FinishDirectFacts
<1>3. Moves(s, NoTxn, conf[s], Idle, scan[s], seen[s]) /\ UNCHANGED cancels
  BY <1>2 DEF FinishDirect, Moves, IInv, TypeOK
<1>4. Idle \in Stmts /\ SessionOK(NoTxn, Idle, scan[s], seen[s])
  BY <1>1, <1>2, IdleFacts DEF SessionOK
<1> QED  BY <1>1, <1>2, <1>3, <1>4, SessionStep

\* The query timeout.
LEMMA CancelKeeps ==
  ASSUME IInv, use' = use, NEW s \in Session, Cancel(s)
  PROVE  IInv'
<1>1. /\ txn[s] \in Txn \cup {NoTxn} /\ conf[s] \in Conf /\ seen[s] \in Shown
      /\ SessionOK(txn[s], stmt[s], scan[s], seen[s]) /\ cancels \in 0..MaxCancel
      /\ db \in State /\ db[Meta] \in 0..MaxCount
  BY SessionTypes
<1>2. Moves(s, txn[s], conf[s], Idle, NoScan, seen[s]) /\ UNCHANGED db
  BY DEF Cancel, Moves, IInv, TypeOK
<1>3. Idle \in Stmts /\ NoScan \in Scans /\ SessionOK(txn[s], Idle, NoScan, seen[s])
  BY <1>1, IdleFacts DEF SessionOK
<1>4. cancels' \in 0..MaxCancel
  BY <1>1, BoundAssumption DEF Cancel
<1> QED  BY <1>1, <1>2, <1>3, <1>4, SessionStep

\* A statement of several writes begins.
LEMMA StartUnitKeeps ==
  ASSUME IInv, use' = use, NEW s \in Session, NEW rewrite \in BOOLEAN, StartUnit(s, rewrite)
  PROVE  IInv'
<1>1. /\ conf[s] \in Conf /\ conf[s].ser \in BOOLEAN /\ seen[s] \in Shown /\ SeenOK(txn[s], seen[s])
      /\ scan[s] \in Scans /\ db \in State /\ db[Meta] \in 0..MaxCount /\ cancels \in 0..MaxCancel
  BY SessionTypes, ConfFacts DEF SessionOK
<1>2. ~scan[s].on
  BY ReadyFacts DEF StartUnit
<1>3. CASE InTxn(s)
  <2>1. PICK t \in Txn : t = txn[s] /\ TxnInv(t)
    BY <1>3, SessionTypes
  <2>2. PICK n \in Nat : n = t.cps + 1
    BY DEF Txn
  <2>3. PICK u : u = [t EXCEPT !.cps = n]
    OBVIOUS
  <2>4. u \in Txn /\ SameBuffer(t, u) /\ Kept(t, u) /\ u.ranges = t.ranges /\ u.sps = t.sps /\ u.cps = n
    BY <2>3 DEF Txn, SameBuffer, Kept
  <2>5. PICK cp : cp = Checkpoint(t)
    OBVIOUS
  <2>6. PICK q : q = [kind |-> "unit", owned |-> FALSE, failed |-> FALSE, checkpoint |-> cp]
    OBVIOUS
  <2>7. SaveTxn(s, u) /\ stmt' = [stmt EXCEPT ![s] = q] /\ UNCHANGED seen
    BY <1>3, <2>1, <2>2, <2>3, <2>5, <2>6 DEF StartUnit
  <2>8. cp \in [mark : Nat, rangesLen : Nat, spsLen : Nat] /\ cp.mark = Len(t.undo) /\ cp.spsLen = Len(t.sps)
    BY <2>5 DEF Checkpoint, Txn
  <2>9. q \in Stmts /\ q.kind = "unit" /\ ~q.owned /\ q.checkpoint = cp
    BY <2>6, <2>8 DEF Stmts, Unit
  <2>10. TxnInv(u)
    <3>1. BufferOK(u) /\ BytesOK(u) /\ u.undo = t.undo
      BY <2>1, <2>4, SameBufferFacts DEF TxnInv, SameBuffer
    <3>2. Logging(u)
      <4>1. n > 0
        BY <2>2 DEF Txn
      <4> QED  BY <2>4, <4>1 DEF Logging
    <3> QED  BY <2>1, <2>4, <3>1, <3>2 DEF TxnInv, MarksOK
  <2>11. StmtOK(u, q)
    <3>1. CheckpointOK(u, cp)
      <4>1. Len(t.undo) \in Nat /\ u.undo = t.undo /\ n >= 1
        BY <2>2, <2>4 DEF Txn, SameBuffer
      <4>2. \A i \in DOMAIN t.sps : t.sps[i].mark <= Len(t.undo)
        BY <2>1 DEF TxnInv, MarksOK
      <4> QED  BY <2>4, <2>8, <4>1, <4>2 DEF CheckpointOK
    <3> QED  BY <2>4, <2>9, <3>1, NoTxnAssumption DEF StmtOK
  <2>12. SeenOK(u, seen[s])
    BY <1>1, <2>1, <2>4, SameReads
  <2>13. seen' = [seen EXCEPT ![s] = seen[s]]
    BY <2>7 DEF IInv, TypeOK
  <2> QED  BY <1>1, <1>2, <2>4, <2>7, <2>9, <2>10, <2>11, <2>12, <2>13, SavedKeeps
<1>4. CASE ~InTxn(s)
  <2>1. PICK ser \in BOOLEAN : ser = (rewrite \/ conf[s].ser)
    <3>1. (rewrite \/ conf[s].ser) = TRUE \/ (rewrite \/ conf[s].ser) = FALSE
      OBVIOUS
    <3> QED  BY <3>1, Zenon
  <2>2. PICK t : t = NewTxn(db, FALSE, ser)
    OBVIOUS
  <2>3. t \in Txn /\ TxnInv(t)
    <3>1. FALSE \in BOOLEAN
      OBVIOUS
    <3> QED  BY <1>1, <2>2, <3>1, NewTxnFacts, Zenon
  <2>4. PICK q : q = [kind |-> "unit", owned |-> TRUE, failed |-> FALSE]
    OBVIOUS
  <2>5. PICK c \in Conf : c = [conf[s] EXCEPT !.next = << >>]
    BY <1>1, ConfFacts
  <2>6. /\ txn' = [txn EXCEPT ![s] = t] /\ conf' = [conf EXCEPT ![s] = c] /\ seen' = [seen EXCEPT ![s] = Unseen]
        /\ stmt' = [stmt EXCEPT ![s] = q] /\ UNCHANGED <<db, scan, cancels>>
    <3>1. txn' = [txn EXCEPT ![s] = NewTxn(db, FALSE, rewrite \/ conf[s].ser)]
          /\ conf' = [conf EXCEPT ![s].next = << >>] /\ seen' = [seen EXCEPT ![s] = Unseen]
          /\ stmt' = [stmt EXCEPT ![s] = [kind |-> "unit", owned |-> TRUE, failed |-> FALSE]]
          /\ UNCHANGED <<db, scan, cancels>>
      BY <1>4 DEF StartUnit
    <3>2. txn' = [txn EXCEPT ![s] = t]
      BY <2>1, <2>2, <3>1, Zenon
    <3> QED  BY <2>4, <2>5, <3>1, <3>2
  <2>7. Moves(s, t, c, q, scan[s], Unseen)
    BY <2>6 DEF Moves, IInv, TypeOK
  <2>8. q \in Stmts /\ q.kind = "unit" /\ q.owned
    BY <2>4 DEF Stmts, OwnUnit
  <2>9. SessionOK(t, q, scan[s], Unseen)
    BY <1>2, <2>3, <2>8, IdleFacts, NoTxnAssumption DEF SessionOK, StmtOK, ScanOK
  <2>10. Unseen \in Shown
    BY IdleFacts
  <2> QED  BY <1>1, <2>3, <2>5, <2>6, <2>7, <2>8, <2>9, <2>10, SessionStep
<1> QED  BY <1>3, <1>4

\* The transaction and the checkpoint of a statement of several writes.
LEMMA UnitFacts ==
  ASSUME IInv, NEW s \in Session, stmt[s].kind = "unit"
  PROVE  /\ txn[s] \in Txn /\ TxnInv(txn[s]) /\ InTxn(s) /\ stmt[s].owned \in BOOLEAN
         /\ ~stmt[s].owned => /\ CheckpointOK(txn[s], stmt[s].checkpoint)
                              /\ stmt[s].checkpoint \in [mark : Nat, rangesLen : Nat, spsLen : Nat]
<1>1. stmt[s] \in Stmts /\ SessionOK(txn[s], stmt[s], scan[s], seen[s])
      /\ (InTxn(s) => txn[s] \in Txn /\ TxnInv(txn[s]))
  BY SessionTypes
<1>2. InTxn(s) /\ (~stmt[s].owned => CheckpointOK(txn[s], stmt[s].checkpoint))
  BY <1>1 DEF SessionOK, StmtOK, InTxn
<1>3. stmt[s] \in OwnUnit \cup Unit
  BY <1>1 DEF Stmts, Idle, Direct
<1>4. \A q \in OwnUnit : q.owned = TRUE
  BY DEF OwnUnit
<1>5. \A q \in Unit : q.owned = FALSE /\ q.checkpoint \in [mark : Nat, rangesLen : Nat, spsLen : Nat]
  BY DEF Unit
<1> QED  BY <1>1, <1>2, <1>3, <1>4, <1>5

\* It ends.
LEMMA FinishUnitKeeps ==
  ASSUME IInv, use' = use, NEW s \in Session, FinishUnit(s)
  PROVE  IInv'
<1>1. stmt[s].kind = "unit" /\ ~scan[s].on /\ stmt' = [stmt EXCEPT ![s] = Idle]
  BY DEF FinishUnit, InUnit
<1>2. conf[s] \in Conf /\ seen[s] \in Shown /\ SeenOK(txn[s], seen[s]) /\ Idle \in Stmts /\ Idle.kind = "idle"
  BY SessionTypes, IdleFacts DEF SessionOK
<1>3. CASE stmt[s].owned
  <2>1. CommitTxn(s) /\ conf' = [conf EXCEPT ![s].next = << >>] /\ UNCHANGED <<scan, cancels>>
    BY <1>3 DEF FinishUnit
  <2>2. db' \in State /\ db'[Meta] \in 0..MaxCount
    BY <2>1, CommitTxnFacts
  <2>3. PICK c \in Conf : c = [conf[s] EXCEPT !.next = << >>]
    BY <1>2, ConfFacts
  <2>4. conf' = [conf EXCEPT ![s] = c] /\ txn' = [txn EXCEPT ![s] = NoTxn] /\ seen' = [seen EXCEPT ![s] = Unseen]
    BY <2>1, <2>3 DEF CommitTxn
  <2> QED  BY <1>1, <1>2, <2>1, <2>2, <2>3, <2>4, EndedKeeps
<1>4. CASE ~stmt[s].owned
  <2>1. PICK t \in Txn : t = txn[s] /\ TxnInv(t)
    BY <1>1, UnitFacts
  <2>2. PICK cp : cp = stmt[s].checkpoint /\ CheckpointOK(t, cp)
    BY <1>1, <1>4, <2>1, UnitFacts
  <2>3. PICK u : u = ReleaseCheckpoint(t)
    OBVIOUS
  <2>4. u \in Txn /\ TxnInv(u) /\ Kept(t, u)
    <3>1. Cut(t, u, Len(t.undo), Len(t.sps))
      BY <2>1, <2>2, <2>3, ReleaseCheckpointFacts
    <3> QED  BY <3>1 DEF Cut
  <2>5. u.ranges = t.ranges
    BY <2>3 DEF ReleaseCheckpoint, DropLog, Txn
  <2>6. SaveTxn(s, u) /\ seen' = [seen EXCEPT ![s] = seen[s]]
    BY <1>4, <2>1, <2>3 DEF FinishUnit, IInv, TypeOK
  <2>7. SeenOK(u, seen[s])
    BY <1>2, <2>1, <2>4, <2>5, SameReads
  <2>8. StmtOK(u, Idle)
    BY IdleFacts
  <2> QED  BY <1>1, <1>2, <2>4, <2>6, <2>7, <2>8, SavedKeeps
<1> QED  BY <1>3, <1>4

\* It fails.
LEMMA FailUnitKeeps ==
  ASSUME IInv, use' = use, NEW s \in Session, FailUnit(s)
  PROVE  IInv'
<1>1. stmt[s].kind = "unit" /\ ~scan[s].on /\ stmt' = [stmt EXCEPT ![s] = Idle]
  BY DEF FailUnit
<1>2. conf[s] \in Conf /\ Idle \in Stmts /\ Idle.kind = "idle" /\ db \in State /\ db[Meta] \in 0..MaxCount
  BY SessionTypes, IdleFacts
<1>3. CASE stmt[s].owned
  <2>1. txn' = [txn EXCEPT ![s] = NoTxn] /\ conf' = [conf EXCEPT ![s].next = << >>]
        /\ seen' = [seen EXCEPT ![s] = Unseen] /\ UNCHANGED <<db, scan, cancels>>
    BY <1>3 DEF FailUnit
  <2>2. PICK c \in Conf : c = [conf[s] EXCEPT !.next = << >>]
    BY <1>2, ConfFacts
  <2>3. conf' = [conf EXCEPT ![s] = c]
    BY <2>1, <2>2
  <2> QED  BY <1>1, <1>2, <2>1, <2>2, <2>3, EndedKeeps
<1>4. CASE ~stmt[s].owned
  <2>1. PICK t \in Txn : t = txn[s] /\ TxnInv(t)
    BY <1>1, UnitFacts
  <2>2. PICK cp \in [mark : Nat, rangesLen : Nat, spsLen : Nat] : cp = stmt[s].checkpoint /\ CheckpointOK(t, cp)
    BY <1>1, <1>4, <2>1, UnitFacts
  <2>3. PICK u : u = RollbackCheckpoint(t, cp)
    OBVIOUS
  <2>4. u \in Txn /\ TxnInv(u)
    <3>1. Cut(t, u, cp.mark, Len(t.sps))
      BY <2>1, <2>2, <2>3, RollbackCheckpointFacts
    <3> QED  BY <3>1 DEF Cut
  <2>5. PICK w \in Shown : w = [now |-> {}, before |-> seen[s].now \cup seen[s].before] /\ SeenOK(u, w)
    BY Forgotten
  <2>6. SaveTxn(s, u) /\ seen' = [seen EXCEPT ![s] = w]
    BY <1>4, <2>1, <2>2, <2>3, <2>5 DEF FailUnit
  <2>7. StmtOK(u, Idle)
    BY IdleFacts
  <2> QED  BY <1>1, <1>2, <2>4, <2>5, <2>6, <2>7, SavedKeeps
<1> QED  BY <1>3, <1>4

----------------------------------------------------------------------------
(* The theorems *)

\* The first state.
LEMMA InitKeeps ==
  ASSUME Init
  PROVE  IInv
<1>1. use \in Workload /\ cancels \in 0..MaxCancel
  BY BoundAssumption DEF Init
<1>2. db \in State /\ db[Meta] \in 0..MaxCount
  <2>1. use.rows \subseteq Row /\ (use.rows # {} => 1 \in Val)
    BY <1>1, WorkloadAssumption
  <2>2. 0 \in 0..MaxCount
    BY BoundAssumption
  <2>3. db = [k \in Key |-> IF k = Meta THEN 0 ELSE IF k \in use.rows THEN 1 ELSE Absent]
    BY DEF Init
  <2>4. \A k \in Key : (IF k = Meta THEN 0 ELSE IF k \in use.rows THEN 1 ELSE Absent) \in Value
    BY <2>1, <2>2, KeyFacts DEF Value
  <2>5. db \in State
    BY <2>3, <2>4 DEF State
  <2>6. db[Meta] = 0
    BY <2>3, KeyFacts
  <2> QED  BY <2>2, <2>5, <2>6
<1>3. /\ txn = [s \in Session |-> NoTxn] /\ stmt = [s \in Session |-> Idle]
      /\ scan = [s \in Session |-> NoScan] /\ seen = [s \in Session |-> Unseen]
      /\ conf = [s \in Session |-> [ser |-> FALSE, auto |-> TRUE, ro |-> FALSE, next |-> << >>]]
  BY DEF Init
<1>4. [ser |-> FALSE, auto |-> TRUE, ro |-> FALSE, next |-> << >>] \in Conf
  BY DEF Conf
<1>5. TypeOK
  <2>1. txn \in [Session -> Txn \cup {NoTxn}] /\ conf \in [Session -> Conf]
    BY <1>3, <1>4
  <2>2. stmt \in [Session -> Stmts] /\ scan \in [Session -> Scans] /\ seen \in [Session -> Shown]
    BY <1>3, IdleFacts
  <2> QED  BY <1>1, <1>2, <2>1, <2>2 DEF TypeOK, Stmts, Scans, Shown
<1>6. \A s \in Session : SessionOK(txn[s], stmt[s], scan[s], seen[s])
  BY <1>3, IdleFacts DEF SessionOK
<1> QED  BY <1>2, <1>5, <1>6 DEF IInv

\* Every step.
LEMMA NextKeeps ==
  ASSUME IInv, Next
  PROVE  IInv'
<1>1. use' = use /\ use \in Workload
  BY DEF Next, IInv, TypeOK
<1>2. /\ use.open \subseteq Session /\ use.save \subseteq Session /\ use.unit \subseteq Session
      /\ use.read \subseteq Session /\ use.set \subseteq Session /\ use.probe \subseteq Key
      /\ use.span \subseteq [from : Nat, to : Nat]
  <2>1. use.open \cup use.save \cup use.unit \cup use.read \cup use.set \subseteq Session
    BY <1>1, WorkloadAssumption
  <2>2. use.probe \subseteq Key /\ use.span \subseteq [from : Nat, to : Nat]
    BY <1>1, WorkloadAssumption
  <2> QED  BY <2>1, <2>2
<1>3. \A b \in BOOLEAN : <<b>> \in {<< >>, <<TRUE>>, <<FALSE>>}
  OBVIOUS
<1>4. << >> \in {<< >>, <<TRUE>>, <<FALSE>>}
  OBVIOUS
<1>5. ASSUME NEW s \in Session, Commit(s) \/ Rollback(s) PROVE IInv'
  BY <1>1, <1>5, CommitKeeps
<1>6. ASSUME NEW s \in Session, NEW w \in use.write, Write(s, w) \/ StartDirect(s, w) PROVE IInv'
  BY <1>1, <1>6, WriteKeeps, StartDirectKeeps
<1>7. ASSUME NEW s \in Session, FinishDirect(s) \/ Cancel(s) PROVE IInv'
  BY <1>1, <1>7, FinishDirectKeeps, CancelKeeps
<1>8. ASSUME NEW s \in use.open, Begin(s, << >>) PROVE IInv'
  BY <1>1, <1>2, <1>4, <1>8, BeginKeeps
<1>9. ASSUME NEW s \in use.save, NEW n \in Name, SetSavepoint(s, n) \/ RollbackTo(s, n) \/ Release(s, n)
      PROVE  IInv'
  BY <1>1, <1>2, <1>9, SavepointKeeps, RollbackToKeeps, ReleaseKeeps
<1>10. ASSUME NEW s \in use.unit, NEW rewrite \in BOOLEAN, StartUnit(s, rewrite) PROVE IInv'
  BY <1>1, <1>2, <1>10, StartUnitKeeps
<1>11. ASSUME NEW s \in use.unit, FinishUnit(s) \/ FailUnit(s) PROVE IInv'
  BY <1>1, <1>2, <1>11, FinishUnitKeeps, FailUnitKeeps
<1>12. ASSUME NEW s \in use.read, NEW ser \in BOOLEAN, SetIsolation(s, ser) PROVE IInv'
  BY <1>1, <1>2, <1>12, ModeKeeps
<1>13. ASSUME NEW s \in use.read, NEW k \in use.probe, Get(s, k) \/ LockKey(s, k) PROVE IInv'
  BY <1>1, <1>2, <1>13, GetKeeps, LockKeyKeeps
<1>14. ASSUME NEW s \in use.read, NEW r \in use.span, StartScan(s, r.from, r.to) PROVE IInv'
  <2>1. r.from \in Nat /\ r.to \in Nat
    BY <1>2
  <2> QED  BY <1>1, <1>2, <1>14, <2>1, StartScanKeeps
<1>15. ASSUME NEW s \in use.read, ScanBatch(s) \/ EndScan(s) PROVE IInv'
  BY <1>1, <1>2, <1>15, ScanBatchKeeps, EndScanKeeps
<1>16. ASSUME NEW s \in use.set, NEW b \in BOOLEAN,
              SetAutocommit(s, b) \/ SetSessionReadOnly(s, b) \/ SetNextReadOnly(s, b)
       PROVE  IInv'
  BY <1>1, <1>2, <1>16, AutocommitKeeps, ModeKeeps
<1>17. ASSUME NEW s \in use.set, NEW b \in BOOLEAN, Begin(s, <<b>>) PROVE IInv'
  <2>1. PICK access \in {<< >>, <<TRUE>>, <<FALSE>>} : access = <<b>>
    BY <1>3
  <2>2. Begin(s, access)
    BY <1>17, <2>1
  <2> QED  BY <1>1, <1>2, <2>2, BeginKeeps
<1> QED  BY <1>5, <1>6, <1>7, <1>8, <1>9, <1>10, <1>11, <1>12, <1>13, <1>14, <1>15, <1>16, <1>17 DEF Next

\* A step that changes nothing.
LEMMA StutterKeeps ==
  ASSUME IInv, UNCHANGED vars
  PROVE  IInv'
<1>1. UNCHANGED <<db, txn, conf, stmt, scan, seen, cancels, use>>
  BY DEF vars
<1>2. TypeOK'
  BY <1>1 DEF IInv, TypeOK
<1> QED  BY <1>1, <1>2 DEF IInv

\* The inductive invariant holds throughout.
LEMMA Invariance == Spec => []IInv
<1>1. Init => IInv
  BY InitKeeps
<1>2. IInv /\ [Next]_vars => IInv'
  BY NextKeeps, StutterKeeps
<1> QED  BY <1>1, <1>2, PTL DEF Spec

\* The database holds a value for every key; every session has a transaction with a
\* well-typed buffer, log, savepoints and read set or none; its statement and scan are
\* of one of the kinds there are.
THEOREM TypeCorrect == Spec => []TypeOK
<1>1. IInv => TypeOK
  BY DEF IInv
<1> QED  BY <1>1, Invariance, PTL

\* However writes are staged, overwritten, undone and released, mem and undo_mem are the
\* bytes that the buffer and the log hold, every savepoint's mark lies within the log, and
\* the log is empty when nothing can roll back to a mark of it (session.rs: stage,
\* rollback_tx_to, release_savepoint, the checkpoint functions).
THEOREM ByteCountsExact == Spec => []BookkeepingExact
<1>1. IInv => BookkeepingExact
  <2> SUFFICES ASSUME IInv, NEW s \in Session, InTxn(s)
               PROVE  LET t == txn[s] IN
                        /\ t.mem = Cardinality(BufferBytes(t))
                        /\ t.undoMem = Cardinality(LogBytes(t))
                        /\ \A i \in DOMAIN t.sps : t.sps[i].mark <= Len(t.undo)
                        /\ ~Logging(t) => t.undo = << >>
    BY DEF BookkeepingExact
  <2>1. TxnInv(txn[s])
    BY SessionTypes
  <2> QED  BY <2>1 DEF TxnInv, BytesOK, MarksOK
<1> QED  BY <1>1, Invariance, PTL

\* A finished scan in batches of a transaction that has deleted no committed row of its
\* range has found exactly the rows the transaction sees there, however many rows, batches
\* and own writes between them (session.rs: scan_range, scan_batch).
THEOREM ScansComplete == Spec => []ScanReadsView
<1>1. IInv => ScanReadsView
  <2> SUFFICES ASSUME IInv, NEW s \in Session, InTxn(s), scan[s].on, scan[s].done,
                      RowsIn(txn[s].snap, scan[s].from, scan[s].to) \cap txn[s].dels = {}
               PROVE  scan[s].rows = RowsIn(View(txn[s]), scan[s].from, scan[s].to)
    BY DEF ScanReadsView
  <2>1. ScanOK(txn[s], scan[s])
    BY SessionTypes DEF SessionOK
  <2> QED  BY <2>1 DEF ScanOK, InTxn
<1> QED  BY <1>1, Invariance, PTL

\* Every row a serializable transaction has been shown since it began, or last rolled back
\* to a savepoint or a checkpoint, is in what its commit validates, also where its own
\* writes answered the read (session.rs: get, scan_batch, commit).
THEOREM ReadsValidated == Spec => []SeenIsKept
<1>1. IInv => SeenIsKept
  <2> SUFFICES ASSUME IInv, NEW s \in Session, InTxn(s), txn[s].ser
               PROVE  seen[s].now \cap Row \subseteq ReadSet(txn[s])
    BY DEF SeenIsKept
  <2>1. SeenOK(txn[s], seen[s])
    BY SessionTypes DEF SessionOK
  <2> QED  BY <2>1 DEF SeenOK, InTxn
<1> QED  BY <1>1, Invariance, PTL

----------------------------------------------------------------------------
(* The sessions implement snapshot isolation *)

\* Promise, as a function of the transaction and the statement under way.
SavedViews(t) ==
  [i \in 1..Len(t.sps) |-> [name |-> t.sps[i].name, view |-> ViewAt(t, t.sps[i].mark)]]
UnitView(t, q) ==
  IF q.kind = "unit" /\ ~q.owned THEN <<ViewAt(t, q.checkpoint.mark)>> ELSE << >>
Promised(t, q) ==
  IF t = NoTxn THEN NoTxn
  ELSE [snap |-> t.snap, view |-> View(t), must |-> ReadSet(t), ro |-> t.ro,
        saved |-> SavedViews(t), unit |-> UnitView(t, q)]

\* The record of an open transaction, field by field.
Fields(t, q, p) ==
  /\ p.snap = t.snap /\ p.view = View(t) /\ p.must = ReadSet(t) /\ p.ro = t.ro
  /\ p.saved = SavedViews(t) /\ p.unit = UnitView(t, q)
  /\ p = [snap |-> p.snap, view |-> p.view, must |-> p.must, ro |-> p.ro,
          saved |-> p.saved, unit |-> p.unit]

\* The promise of an open transaction.
LEMMA PromisedFields ==
  ASSUME NEW t \in Txn, NEW q
  PROVE  Fields(t, q, Promised(t, q))
<1>1. t # NoTxn
  BY NoTxnAssumption
<1> QED  BY <1>1, Zenon DEF Promised, Fields

\* A statement under a checkpoint has a mark.
Marked(q) == q.kind = "unit" /\ ~q.owned => q.checkpoint.mark \in Nat

\* What a transaction reads are keys.
LEMMA ReadSetType ==
  ASSUME NEW t \in Txn
  PROVE  ReadSet(t) \in SUBSET Key
BY DEF ReadSet, Txn, Key

\* The promise of an open transaction is one.
LEMMA PromisedOpen ==
  ASSUME NEW t \in Txn, TxnInv(t), NEW q, Marked(q), StmtOK(t, q)
  PROVE  Promised(t, q) # NoTxn
<1> DEFINE p == Promised(t, q)
           PT == [snap : State, view : State, must : SUBSET Key, ro : BOOLEAN,
                  saved : Seq([name : Name, view : State]), unit : Seq(State)]
<1>1. Fields(t, q, p)
  BY PromisedFields
<1>2. t.sps \in Seq(Mark) /\ Len(t.undo) \in Nat /\ t.snap \in State /\ t.ro \in BOOLEAN
  BY DEF Txn, Mark
<1>3. View(t) \in State /\ ReadSet(t) \in SUBSET Key
  BY ViewType, ReadSetType
<1>4. SavedViews(t) \in Seq([name : Name, view : State])
  <2>1. ASSUME NEW i \in 1..Len(t.sps)
        PROVE  [name |-> t.sps[i].name, view |-> ViewAt(t, t.sps[i].mark)] \in [name : Name, view : State]
    <3>1. t.sps[i] \in Mark /\ i \in DOMAIN t.sps
      BY <1>2
    <3>2. t.sps[i].name \in Name /\ t.sps[i].mark \in Nat
      BY <3>1 DEF Mark
    <3>3. t.sps[i].mark \in 0..Len(t.undo)
      BY <1>2, <3>1, <3>2 DEF TxnInv, MarksOK
    <3> QED  BY <3>2, <3>3, SeenType
  <2> DEFINE SV == [name : Name, view : State]
  <2> HIDE DEF SV
  <2>2. SavedViews(t) \in [1..Len(t.sps) -> SV]
    BY <2>1 DEF SavedViews, SV
  <2>3. Len(t.sps) \in Nat
    BY <1>2
  <2>4. SavedViews(t) \in Seq(SV)
    BY <2>2, <2>3
  <2> QED  BY <2>4 DEF SV
<1>5. UnitView(t, q) \in Seq(State)
  <2> HIDE DEF State
  <2>1. CASE q.kind = "unit" /\ ~q.owned
    <3>1. q.checkpoint.mark \in 0..Len(t.undo)
      BY <1>2, <2>1 DEF StmtOK, CheckpointOK, Marked
    <3>2. ViewAt(t, q.checkpoint.mark) \in State
      BY <3>1, SeenType
    <3> QED  BY <2>1, <3>2 DEF UnitView
  <2>2. CASE ~(q.kind = "unit" /\ ~q.owned)
    BY <2>2, EmptySeq DEF UnitView
  <2> QED  BY <2>1, <2>2
<1>6. p \in PT
  <2> DEFINE A == State
             B == Seq([name : Name, view : State])
             C == Seq(State)
             D == SUBSET Key
  <2>1. p.snap \in A /\ p.view \in A /\ p.must \in D /\ p.ro \in BOOLEAN /\ p.saved \in B /\ p.unit \in C
    BY <1>1, <1>2, <1>3, <1>4, <1>5 DEF Fields
  <2>2. p = [snap |-> p.snap, view |-> p.view, must |-> p.must, ro |-> p.ro,
          saved |-> p.saved, unit |-> p.unit]
    BY <1>1 DEF Fields
  <2> HIDE DEF A, B, C, D, p
  <2>3. p \in [snap : A, view : A, must : D, ro : BOOLEAN, saved : B, unit : C]
    BY <2>1, <2>2
  <2> QED  BY <2>3 DEF A, B, C, D
<1> QED  BY <1>6, ClosedAssumption

\* Promise is Promised of what the session has.
LEMMA PromiseIs ==
  ASSUME NEW s \in Session
  PROVE  Promise(s) = Promised(txn[s], stmt[s]) /\ Promise(s)' = Promised(txn'[s], stmt'[s])
BY DEF Promise, Promised, InTxn, SavedViews, UnitView

\* A session's step that is one of the abstract transaction is one of the abstract system.
LEMMA SessionRefines ==
  ASSUME IInv, NEW s \in Session, NEW t, NEW q, txn' = [txn EXCEPT ![s] = t],
         stmt' = [stmt EXCEPT ![s] = q], SI!Step(Promised(txn[s], stmt[s]), Promised(t, q))
  PROVE  SI!Next
<1> DEFINE tx == [r \in Session |-> Promise(r)]
<1>1. DOMAIN txn = Session /\ DOMAIN stmt = Session
  BY DEF IInv, TypeOK
<1>2. tx[s] = Promised(txn[s], stmt[s])
  BY PromiseIs
<1>3. tx'[s] = Promised(t, q)
  BY <1>1, PromiseIs
<1>4. \A r \in Session \ {s} : tx'[r] = tx[r]
  BY <1>1, PromiseIs
<1>5. SI!Step(tx[s], tx'[s])
  BY <1>2, <1>3
<1> QED  BY <1>4, <1>5 DEF SI!Next

\* One that leaves the promise as it was is none.
LEMMA SessionQuiet ==
  ASSUME IInv, NEW s \in Session, NEW t, NEW q, txn' = [txn EXCEPT ![s] = t], db' = db,
         stmt' = [stmt EXCEPT ![s] = q], Promised(txn[s], stmt[s]) = Promised(t, q)
  PROVE  UNCHANGED SI!vars
<1>1. DOMAIN txn = Session /\ DOMAIN stmt = Session
  BY DEF IInv, TypeOK
<1>2. \A r \in Session : Promise(r)' = Promise(r)
  BY <1>1, PromiseIs
<1> QED  BY <1>2 DEF SI!vars

\* Nor one that leaves transaction and statement alone.
LEMMA NothingMoves ==
  ASSUME IInv, UNCHANGED <<db, txn, stmt>>
  PROVE  UNCHANGED SI!vars
<1>1. \A r \in Session : Promise(r)' = Promise(r)
  BY PromiseIs
<1> QED  BY <1>1 DEF SI!vars

\* A read.
LEMMA ReadStep ==
  ASSUME NEW t \in Txn, NEW u \in Txn, SameBuffer(t, u), u.ro = t.ro, u.sps = t.sps,
         ReadSet(t) \subseteq ReadSet(u), NEW q
  PROVE  SI!Read(Promised(t, q), Promised(u, q))
<1> DEFINE p == Promised(t, q)
           v == Promised(u, q)
<1>1. Fields(t, q, p) /\ Fields(u, q, v)
  BY PromisedFields
<1>2. View(u) = View(t) /\ \A m : ViewAt(u, m) = ViewAt(t, m)
  BY SameBufferFacts
<1>3. SavedViews(u) = SavedViews(t) /\ UnitView(u, q) = UnitView(t, q)
  BY <1>2 DEF SavedViews, UnitView
<1>4. u.snap = t.snap
  BY DEF SameBuffer
<1> HIDE DEF p, v
<1>5. SI!Read(p, v)
  BY <1>1, <1>2, <1>3, <1>4 DEF SI!Read, Fields
<1> QED  BY <1>5 DEF p, v

\* A write, by a statement of its own or in a longer one.
LEMMA WriteStep ==
  ASSUME NEW t \in Txn, TxnInv(t), ~t.ro, NEW u, Staged(t, u), NEW q, StmtOK(t, q), Marked(q),
         NEW w, w.kind = q.kind, q.kind = "unit" => w.owned = q.owned /\ (~q.owned => w.checkpoint = q.checkpoint)
  PROVE  SI!Write(Promised(t, q), Promised(u, w))
<1> DEFINE p == Promised(t, q)
           v == Promised(u, w)
<1>1. u \in Txn /\ Frame(t, u) /\ u.ranges = t.ranges
  BY DEF Staged
<1>2. Fields(t, q, p) /\ Fields(u, w, v)
  BY <1>1, PromisedFields
<1>3. ReadSet(u) = ReadSet(t) /\ u.snap = t.snap /\ u.ro = t.ro /\ u.sps = t.sps
  BY <1>1 DEF Frame, ReadSet
<1>4. t.sps \in Seq(Mark) /\ Len(t.undo) \in Nat
  BY DEF Txn, Mark
<1>5. SavedViews(u) = SavedViews(t)
  <2>1. ASSUME NEW i \in 1..Len(t.sps) PROVE ViewAt(u, t.sps[i].mark) = ViewAt(t, t.sps[i].mark)
    <3>1. t.sps[i] \in Mark /\ i \in DOMAIN t.sps /\ t.sps # << >>
      BY <1>4
    <3>2. t.sps[i].mark \in Nat /\ Logging(t)
      BY <3>1 DEF Mark, Logging
    <3>3. t.sps[i].mark \in 0..Len(t.undo)
      BY <1>4, <3>1, <3>2 DEF TxnInv, MarksOK
    <3> QED  BY <3>2, <3>3 DEF Staged
  <2> QED  BY <1>3, <2>1 DEF SavedViews
<1>6. UnitView(u, w) = UnitView(t, q)
  <2>1. CASE q.kind = "unit" /\ ~q.owned
    <3>1. q.checkpoint.mark \in 0..Len(t.undo) /\ t.cps >= 1
      BY <1>4, <2>1 DEF StmtOK, CheckpointOK, Marked
    <3>2. Logging(t)
      BY <3>1 DEF Logging, Txn
    <3>3. ViewAt(u, q.checkpoint.mark) = ViewAt(t, q.checkpoint.mark)
      BY <3>1, <3>2 DEF Staged
    <3> QED  BY <2>1, <3>3 DEF UnitView
  <2>2. CASE ~(q.kind = "unit" /\ ~q.owned)
    BY <2>2 DEF UnitView
  <2> QED  BY <2>1, <2>2
<1>7. View(u) \in State
  BY <1>1, ViewType
<1> HIDE DEF p, v
<1>8. SI!Write(p, v)
  BY <1>2, <1>3, <1>5, <1>6, <1>7 DEF SI!Write, Fields
<1> QED  BY <1>8 DEF p, v

\* Leaving out a savepoint's name leaves out the view saved under it.
LEMMA WithoutViews ==
  ASSUME NEW t \in Txn, NEW name, NEW I, I = Others(t.sps, name)
  PROVE  SI!Without(SavedViews(t), name) = [n \in 1..Cardinality(I) |-> SavedViews(t)[Nth(I, n)]]
<1>1. DOMAIN SavedViews(t) = 1..Len(t.sps) /\ DOMAIN t.sps = 1..Len(t.sps)
  BY DEF SavedViews, Txn
<1>2. \A i \in 1..Len(t.sps) : SavedViews(t)[i].name = t.sps[i].name
  BY DEF SavedViews
<1>3. {i \in DOMAIN SavedViews(t) : SavedViews(t)[i].name # name} = I
  BY <1>1, <1>2 DEF Others
<1>4. PICK v : v = SavedViews(t)
  OBVIOUS
<1>5. SI!Without(v, name) =
        [n \in 1..Cardinality({i \in DOMAIN v : v[i].name # name}) |->
           v[Nth({i \in DOMAIN v : v[i].name # name}, n)]]
  BY Zenon DEF SI!Without, Nth, Place, SI!Cardinality, Cardinality
<1> QED  BY <1>3, <1>4, <1>5

\* SAVEPOINT saves the present view, and no other under its name.
LEMMA SaveStep ==
  ASSUME NEW t \in Txn, TxnInv(t), NEW name \in Name, NEW u, u = Savepoint(t, name)
  PROVE  SI!Save(Promised(t, Idle), Promised(u, Idle))
<1> DEFINE p == Promised(t, Idle)
           v == Promised(u, Idle)
           I == Others(t.sps, name)
           W == Without(t.sps, name)
           last == [name |-> name, mark |-> Len(t.undo), rangesLen |-> Len(t.ranges)]
           X == SI!Without(SavedViews(t), name)
           saved == [name |-> name, view |-> View(t)]
<1>1. /\ u \in Txn /\ SameBuffer(t, u) /\ Kept(t, u) /\ u.ranges = t.ranges
      /\ u.sps = Append(W, last)
  BY SavepointFacts
<1>2. Fields(t, Idle, p) /\ Fields(u, Idle, v)
  BY <1>1, PromisedFields
<1>3. /\ View(u) = View(t) /\ \A m : ViewAt(u, m) = ViewAt(t, m)
      /\ ViewAt(t, Len(t.undo)) = View(t)
  BY <1>1, SameBufferFacts, SeenNow
<1>4. t.sps \in Seq(Mark)
  BY DEF Txn, Mark
<1>5. Thinned(t.sps, I, W)
  BY <1>4, WithoutFacts
<1>6. X = [n \in 1..Cardinality(I) |-> SavedViews(t)[Nth(I, n)]]
  BY WithoutViews
<1> HIDE DEF I, W, X
<1>7. Cardinality(I) \in Nat /\ W \in Seq(Mark) /\ Len(W) = Cardinality(I)
  BY <1>5 DEF Thinned
<1> DEFINE N == Len(W)
<1>8. ASSUME NEW n \in 1..N
      PROVE  X[n] = [name |-> W[n].name, view |-> ViewAt(u, W[n].mark)]
  <2>1. Nth(I, n) \in 1..Len(t.sps) /\ W[n] = t.sps[Nth(I, n)]
    BY <1>4, <1>5 DEF Thinned
  <2>2. X[n] = SavedViews(t)[Nth(I, n)]
    BY <1>6, <1>7
  <2> QED  BY <1>3, <2>1, <2>2 DEF SavedViews
<1>9. last \in [name : {name}, mark : {Len(t.undo)}, rangesLen : {Len(t.ranges)}]
  OBVIOUS
<1>10. /\ Len(u.sps) = N + 1 /\ u.sps[N + 1] = last
       /\ \A n \in 1..N : u.sps[n] = W[n]
  BY <1>1, <1>7
<1>11. X = [n \in 1..N |-> X[n]] /\ N \in Nat
  BY <1>6, <1>7
<1>12. Append(X, saved) = [n \in 1..N + 1 |-> IF n = N + 1 THEN saved ELSE X[n]]
  <2> DEFINE S == {X[n] : n \in 1..N} \cup {saved}
  <2> HIDE DEF saved, N
  <2>1. X \in Seq(S) /\ Len(X) = N
    BY <1>11
  <2>2. saved \in S
    OBVIOUS
  <2> HIDE DEF S
  <2>3. Append(X, saved) = [n \in 1..N + 1 |-> IF n = N + 1 THEN saved ELSE X[n]]
    BY <2>1, <2>2, <1>11
  <2> QED  BY <2>3
<1>13. SavedViews(u) = [n \in 1..N + 1 |-> [name |-> u.sps[n].name, view |-> ViewAt(u, u.sps[n].mark)]]
  BY <1>10 DEF SavedViews
<1>14. \A n \in 1..N + 1 : [name |-> u.sps[n].name, view |-> ViewAt(u, u.sps[n].mark)]
                           = IF n = N + 1 THEN saved ELSE X[n]
  <2>1. [name |-> u.sps[N + 1].name, view |-> ViewAt(u, u.sps[N + 1].mark)] = saved
    BY <1>3, <1>10
  <2>2. \A n \in 1..N : [name |-> u.sps[n].name, view |-> ViewAt(u, u.sps[n].mark)] = X[n]
    BY <1>8, <1>10
  <2> QED  BY <2>1, <2>2, <1>11
<1>15. SavedViews(u) = Append(X, saved)
  BY <1>12, <1>13, <1>14, Zenon
<1>16. ReadSet(u) = ReadSet(t) /\ u.snap = t.snap /\ u.ro = t.ro
  BY <1>1 DEF Kept, ReadSet
<1>17. UnitView(u, Idle) = UnitView(t, Idle)
  BY <1>3 DEF UnitView
<1> HIDE DEF p, v, saved
<1>18. v = [p EXCEPT !.saved = Append(X, saved)]
  BY <1>2, <1>3, <1>15, <1>16, <1>17 DEF Fields
<1>19. p.saved = SavedViews(t) /\ p.view = View(t)
  BY <1>2 DEF Fields
<1>20. v = [p EXCEPT !.saved = Append(SI!Without(p.saved, name), [name |-> name, view |-> p.view])]
  BY <1>18, <1>19 DEF X, saved
<1>21. SI!Save(p, v)
  BY <1>20 DEF SI!Save
<1> QED  BY <1>21 DEF p, v

\* What a transaction promises once its log is cut at a mark and its savepoints to n.
CutPromise(t, u, mark, n) ==
  /\ u \in Txn /\ View(u) = ViewAt(t, mark) /\ u.snap = t.snap /\ u.ro = t.ro
  /\ SavedViews(u) = SubSeq(SavedViews(t), 1, n)
  /\ ReadSet(u) \subseteq ReadSet(t)
  /\ u.ranges = t.ranges => ReadSet(u) = ReadSet(t)

\* A cut has that promise.
LEMMA CutPromises ==
  ASSUME NEW t \in Txn, TxnInv(t), NEW u, NEW mark, NEW n \in 0..Len(t.sps), Cut(t, u, mark, n)
  PROVE  CutPromise(t, u, mark, n)
<1>1. u \in Txn /\ Kept(t, u) /\ View(u) = ViewAt(t, mark) /\ Len(u.sps) = n
  BY DEF Cut
<1>2. Len(t.sps) \in Nat
  BY DEF Txn
<1>3. ReadSet(u) \subseteq ReadSet(t) /\ (u.ranges = t.ranges => ReadSet(u) = ReadSet(t))
  <2>1. PICK r \in 0..Len(t.ranges) : u.ranges = SubSeq(t.ranges, 1, r)
    BY DEF Cut
  <2>2. t.ranges \in Seq(Span)
    BY DEF Txn
  <2>3. \A i \in DOMAIN u.ranges : i \in DOMAIN t.ranges /\ u.ranges[i] = t.ranges[i]
    BY <2>1, <2>2
  <2> QED  BY <1>1, <2>3 DEF Kept, ReadSet
<1>4. SavedViews(u) = SubSeq(SavedViews(t), 1, n)
  <2> DEFINE v == SavedViews(t)
             S == {v[i] : i \in 1..Len(t.sps)}
  <2>1. v = [i \in 1..Len(t.sps) |-> v[i]]
    BY DEF SavedViews
  <2>2. \A i \in 1..n : SavedViews(u)[i] = v[i]
    <3>1. ASSUME NEW i \in 1..n
          PROVE  /\ SavedViews(u)[i] = [name |-> u.sps[i].name, view |-> ViewAt(u, u.sps[i].mark)]
                 /\ v[i] = [name |-> t.sps[i].name, view |-> ViewAt(t, t.sps[i].mark)]
      BY <1>1, <1>2 DEF SavedViews
    <3>2. \A i \in 1..n : u.sps[i] = t.sps[i] /\ ViewAt(u, t.sps[i].mark) = ViewAt(t, t.sps[i].mark)
      BY DEF Cut
    <3> QED  BY <3>1, <3>2
  <2>3. SavedViews(u) = [i \in 1..n |-> SavedViews(u)[i]]
    BY <1>1 DEF SavedViews
  <2> HIDE DEF v
  <2>4. v \in Seq(S) /\ Len(v) = Len(t.sps)
    BY <1>2, <2>1
  <2> HIDE DEF S
  <2>5. SubSeq(v, 1, n) = [i \in 1..n |-> v[i]]
    BY <1>2, <2>4
  <2> QED  BY <2>2, <2>3, <2>5 DEF v
<1> QED  BY <1>1, <1>3, <1>4 DEF CutPromise, Kept

\* ROLLBACK TO a savepoint.
LEMMA RollbackToStep ==
  ASSUME NEW t \in Txn, TxnInv(t), NEW i \in 1..Len(t.sps), NEW u, u = RollbackToSavepoint(t, i)
  PROVE  SI!RollbackTo(Promised(t, Idle), Promised(u, Idle))
<1> DEFINE p == Promised(t, Idle)
           v == Promised(u, Idle)
           N == Len(t.sps)
<1>1. N \in Nat
  BY DEF Txn
<1>2. Cut(t, u, t.sps[i].mark, i)
  BY RollbackToSavepointFacts
<1>3. CutPromise(t, u, t.sps[i].mark, i)
  <2>1. i \in 0..Len(t.sps)
    BY <1>1
  <2> QED  BY <1>2, <2>1, CutPromises
<1>4. Fields(t, Idle, p) /\ Fields(u, Idle, v)
  BY <1>3, PromisedFields DEF CutPromise
<1>5. Len(SavedViews(t)) = N /\ SavedViews(t)[i].view = ViewAt(t, t.sps[i].mark)
  BY <1>1 DEF SavedViews
<1>6. UnitView(u, Idle) = UnitView(t, Idle)
  BY IdleFacts DEF UnitView
<1> HIDE DEF p, v
<1>7. v = [p EXCEPT !.view = p.saved[i].view, !.must = v.must, !.saved = SubSeq(@, 1, i)]
  <2>1. /\ v.snap = p.snap /\ v.view = p.saved[i].view /\ v.ro = p.ro
        /\ v.saved = SubSeq(p.saved, 1, i) /\ v.unit = p.unit
    BY <1>3, <1>4, <1>5, <1>6 DEF CutPromise, Fields
  <2>2. PICK x, z : x = p.saved[i].view /\ z = SubSeq(p.saved, 1, i)
    OBVIOUS
  <2>3. v = [p EXCEPT !.view = x, !.must = v.must, !.saved = z]
    BY <1>4, <2>1, <2>2 DEF Fields
  <2> QED  BY <2>2, <2>3
<1>8. i \in 1..Len(p.saved) /\ v.must \subseteq p.must
  BY <1>3, <1>4, <1>5 DEF CutPromise, Fields
<1>9. SI!RollbackTo(p, v)
  BY <1>7, <1>8 DEF SI!RollbackTo
<1> QED  BY <1>9 DEF p, v

\* RELEASE SAVEPOINT.
LEMMA ReleaseStep ==
  ASSUME NEW t \in Txn, TxnInv(t), NEW i \in 1..Len(t.sps), NEW u, u = ReleaseSavepoint(t, i)
  PROVE  SI!Release(Promised(t, Idle), Promised(u, Idle))
<1> DEFINE p == Promised(t, Idle)
           v == Promised(u, Idle)
           N == Len(t.sps)
<1>1. N \in Nat
  BY DEF Txn
<1>2. Cut(t, u, Len(t.undo), i - 1)
  BY ReleaseSavepointFacts
<1>3. CutPromise(t, u, Len(t.undo), i - 1)
  <2>1. i - 1 \in 0..Len(t.sps)
    BY <1>1
  <2> QED  BY <1>2, <2>1, CutPromises
<1>4. Fields(t, Idle, p) /\ Fields(u, Idle, v)
  BY <1>3, PromisedFields DEF CutPromise
<1>5. Len(SavedViews(t)) = N /\ ViewAt(t, Len(t.undo)) = View(t)
  BY <1>1, SeenNow DEF SavedViews
<1>6. UnitView(u, Idle) = UnitView(t, Idle)
  BY IdleFacts DEF UnitView
<1>7. u.ranges = t.ranges
  BY DEF ReleaseSavepoint, DropLog, Txn
<1> HIDE DEF p, v
<1>8. v = [p EXCEPT !.saved = SubSeq(@, 1, i - 1)]
  BY <1>3, <1>4, <1>5, <1>6, <1>7 DEF CutPromise, Fields
<1>9. i \in 1..Len(p.saved)
  BY <1>4, <1>5 DEF Fields
<1>10. SI!Release(p, v)
  BY <1>8, <1>9 DEF SI!Release
<1> QED  BY <1>10 DEF p, v

\* A statement under a checkpoint.
Under(q) == q.kind = "unit" /\ ~q.owned

\* It begins.
LEMMA BeginUnitStep ==
  ASSUME NEW t \in Txn, NEW u \in Txn, SameBuffer(t, u), Kept(t, u), u.ranges = t.ranges,
         u.sps = t.sps, NEW q, Under(q), q.checkpoint.mark = Len(t.undo)
  PROVE  SI!BeginUnit(Promised(t, Idle), Promised(u, q))
<1> DEFINE p == Promised(t, Idle)
           v == Promised(u, q)
<1>1. Fields(t, Idle, p) /\ Fields(u, q, v)
  BY PromisedFields
<1>2. View(u) = View(t) /\ \A m : ViewAt(u, m) = ViewAt(t, m)
  BY SameBufferFacts
<1>3. SavedViews(u) = SavedViews(t)
  BY <1>2 DEF SavedViews
<1>4. UnitView(t, Idle) = << >> /\ UnitView(u, q) = <<View(t)>>
  BY <1>2, IdleFacts, SeenNow DEF UnitView, Under
<1>5. ReadSet(u) = ReadSet(t) /\ u.snap = t.snap /\ u.ro = t.ro
  BY DEF ReadSet, Kept
<1> HIDE DEF p, v
<1>6. SI!BeginUnit(p, v)
  BY <1>1, <1>2, <1>3, <1>4, <1>5 DEF SI!BeginUnit, Fields
<1> QED  BY <1>6 DEF p, v

\* It ends, or fails.
LEMMA EndUnitStep ==
  ASSUME NEW t \in Txn, TxnInv(t), NEW q, Under(q), NEW u, NEW mark, Cut(t, u, mark, Len(t.sps))
  PROVE  /\ mark = Len(t.undo) /\ u.ranges = t.ranges
              => SI!EndUnit(Promised(t, q), Promised(u, Idle))
         /\ mark = q.checkpoint.mark => SI!FailUnit(Promised(t, q), Promised(u, Idle))
<1> DEFINE p == Promised(t, q)
           v == Promised(u, Idle)
           N == Len(t.sps)
<1>1. N \in Nat
  BY DEF Txn
<1>2. CutPromise(t, u, mark, N)
  <2>1. Len(t.sps) \in 0..Len(t.sps)
    BY <1>1
  <2> QED  BY <2>1, CutPromises
<1>3. Fields(t, q, p) /\ Fields(u, Idle, v)
  BY <1>2, PromisedFields DEF CutPromise
<1>4. ViewAt(t, Len(t.undo)) = View(t)
  BY SeenNow
<1>5. SubSeq(SavedViews(t), 1, N) = SavedViews(t)
  <2> DEFINE w == SavedViews(t)
             S == {w[i] : i \in 1..N}
  <2>1. w = [i \in 1..N |-> w[i]]
    BY DEF SavedViews
  <2> HIDE DEF w, N
  <2>2. w \in Seq(S) /\ Len(w) = N
    BY <1>1, <2>1
  <2> HIDE DEF S
  <2>3. SubSeq(w, 1, N) = w
    BY <1>1, <2>2
  <2> QED  BY <2>3 DEF w
<1>6. /\ UnitView(u, Idle) = << >> /\ UnitView(t, q) = <<ViewAt(t, q.checkpoint.mark)>>
      /\ UnitView(t, q) # << >> /\ UnitView(t, q)[1] = ViewAt(t, q.checkpoint.mark)
  BY IdleFacts DEF UnitView, Under
<1> HIDE DEF p, v
<1>7. mark = Len(t.undo) /\ u.ranges = t.ranges => SI!EndUnit(p, v)
  BY <1>2, <1>3, <1>4, <1>5, <1>6 DEF CutPromise, Fields, SI!EndUnit
<1>8. mark = q.checkpoint.mark => SI!FailUnit(p, v)
  <2>1. SUFFICES ASSUME mark = q.checkpoint.mark PROVE SI!FailUnit(p, v)
    OBVIOUS
  <2>2. /\ v.snap = p.snap /\ v.view = p.unit[1] /\ v.ro = p.ro /\ v.saved = p.saved
        /\ v.unit = << >> /\ p.unit # << >> /\ v.must \subseteq p.must
    BY <1>2, <1>3, <1>5, <1>6, <2>1 DEF CutPromise, Fields
  <2>3. PICK x : x = p.unit[1]
    OBVIOUS
  <2>4. v = [p EXCEPT !.unit = << >>, !.view = x, !.must = v.must]
    BY <1>3, <2>2, <2>3 DEF Fields
  <2> QED  BY <2>2, <2>3, <2>4 DEF SI!FailUnit
<1> QED  BY <1>7, <1>8 DEF p, v

\* It is given up where it waits.
LEMMA GivenUpStep ==
  ASSUME NEW t \in Txn, NEW q
  PROVE  /\ Under(q) => SI!EndUnit(Promised(t, q), Promised(t, Idle))
         /\ ~Under(q) => Promised(t, q) = Promised(t, Idle)
<1> DEFINE p == Promised(t, q)
           v == Promised(t, Idle)
<1>1. Fields(t, q, p) /\ Fields(t, Idle, v)
  BY PromisedFields
<1>2. UnitView(t, Idle) = << >> /\ (Under(q) => UnitView(t, q) # << >>)
  BY IdleFacts DEF UnitView, Under
<1>3. ~Under(q) => UnitView(t, q) = << >>
  BY DEF UnitView, Under
<1> HIDE DEF p, v
<1>4. Under(q) => SI!EndUnit(p, v)
  BY <1>1, <1>2 DEF SI!EndUnit, Fields
<1>5. ~Under(q) => p = v
  BY <1>1, <1>2, <1>3 DEF Fields
<1> QED  BY <1>4, <1>5 DEF p, v

\* A sequence has the ranges of another, in the order of their starts.
InStarts(ranges, S) ==
  /\ S \in Seq(Span) /\ Len(S) = Len(ranges)
  /\ \A i \in 1..Len(ranges) : \E n \in 1..Len(S) : S[n] = ranges[i]
  /\ \A m, n \in 1..Len(S) : m <= n => S[m].from <= S[n].from

\* Sorting loses no range.
LEMMA SortedFacts ==
  ASSUME NEW ranges \in Seq(Span), NEW S, S = Sorted(ranges)
  PROVE  InStarts(ranges, S)
<1> DEFINE N == Len(ranges)
           D == DOMAIN ranges
           R == {q \in D \X D : \/ ranges[q[1]].from < ranges[q[2]].from
                                \/ ranges[q[1]].from = ranges[q[2]].from /\ q[1] <= q[2]}
           p == [x \in D |-> Cardinality({y \in D : <<y, x>> \in R})]
           Upto(i) == {j \in D : \/ ranges[j].from < ranges[i].from
                                 \/ ranges[j].from = ranges[i].from /\ j <= i}
           At(n) == CHOOSE i \in D : Cardinality(Upto(i)) = n
<1>1. N \in Nat /\ D = 1..N
  OBVIOUS
<1>2. \A i \in D : ranges[i] \in Span
  OBVIOUS
<1>3. \A i \in D : ranges[i].from \in Nat
  BY <1>2 DEF Span
<1>4. \A x, y \in D : <<x, y>> \in R <=> \/ ranges[x].from < ranges[y].from
                                         \/ ranges[x].from = ranges[y].from /\ x <= y
  OBVIOUS
<1>5. /\ S = [n \in D |-> ranges[At(n)]]
      /\ \A i \in D : Cardinality(Upto(i)) = p[i]
  <2>1. S = [n \in D |-> ranges[At(n)]]
    BY Zenon DEF Sorted
  <2>2. \A i \in D : Upto(i) = {y \in D : <<y, i>> \in R}
    BY <1>4
  <2> QED  BY <2>1, <2>2
<1>6. IsFiniteSet(D) /\ Cardinality(D) = N
  BY <1>1, FS_Interval
<1>7. /\ \A x \in D : <<x, x>> \in R
      /\ \A x, y \in D : <<x, y>> \in R \/ <<y, x>> \in R
      /\ \A x, y \in D : <<x, y>> \in R /\ <<y, x>> \in R => x = y
      /\ \A x, y, z \in D : <<x, y>> \in R /\ <<y, z>> \in R => <<x, z>> \in R
      /\ \A x, y \in D : <<x, y>> \in R => ranges[x].from <= ranges[y].from
  <2>1. D \subseteq Nat
    BY <1>1
  <2> HIDE DEF R, D
  <2>2. \A x \in D : <<x, x>> \in R
    BY <1>4, <2>1
  <2>3. ASSUME NEW x \in D, NEW y \in D PROVE <<x, y>> \in R \/ <<y, x>> \in R
    <3>1. /\ ranges[x].from \in Nat /\ ranges[y].from \in Nat /\ x \in Nat /\ y \in Nat
      BY <1>3, <2>1
    <3>2. \/ ranges[x].from < ranges[y].from \/ ranges[y].from < ranges[x].from
          \/ ranges[x].from = ranges[y].from /\ (x <= y \/ y <= x)
      BY <3>1
    <3> QED  BY <1>4, <3>2
  <2>4. \A x, y \in D : <<x, y>> \in R /\ <<y, x>> \in R => x = y
    BY <1>3, <1>4, <2>1
  <2>5. ASSUME NEW x \in D, NEW y \in D, NEW z \in D, <<x, y>> \in R, <<y, z>> \in R
        PROVE  <<x, z>> \in R
    <3>1. /\ ranges[x].from \in Nat /\ ranges[y].from \in Nat /\ ranges[z].from \in Nat
          /\ x \in Nat /\ y \in Nat /\ z \in Nat
      BY <1>3, <2>1
    <3>2. /\ ranges[x].from < ranges[y].from \/ (ranges[x].from = ranges[y].from /\ x <= y)
          /\ ranges[y].from < ranges[z].from \/ (ranges[y].from = ranges[z].from /\ y <= z)
      BY <1>4, <2>5
    <3>3. ranges[x].from < ranges[z].from \/ (ranges[x].from = ranges[z].from /\ x <= z)
      <4>1. PICK a \in Nat, b \in Nat, c \in Nat :
              a = ranges[x].from /\ b = ranges[y].from /\ c = ranges[z].from
        BY <3>1
      <4>2. a < b \/ (a = b /\ x <= y)
        BY <3>2, <4>1
      <4>3. b < c \/ (b = c /\ y <= z)
        BY <3>2, <4>1
      <4>4. a < c \/ (a = c /\ x <= z)
        BY <3>1, <4>2, <4>3
      <4> QED  BY <4>1, <4>4
    <3> QED  BY <1>4, <3>3
  <2>6. \A x, y \in D : <<x, y>> \in R => ranges[x].from <= ranges[y].from
    BY <1>3, <1>4
  <2> QED  BY <2>2, <2>3, <2>4, <2>5, <2>6
<1> HIDE DEF R, D
<1>8. /\ p \in Bijection(D, 1..N)
      /\ \A x, y \in D : p[x] <= p[y] <=> <<x, y>> \in R
  <2>1. PICK E : E = D
    OBVIOUS
  <2>2. /\ p \in Bijection(E, 1..Cardinality(E))
        /\ \A x, y \in E : p[x] <= p[y] <=> <<x, y>> \in R
    <3>1. /\ IsFiniteSet(E)
          /\ \A x \in E : <<x, x>> \in R
          /\ \A x, y \in E : <<x, y>> \in R \/ <<y, x>> \in R
          /\ \A x, y \in E : <<x, y>> \in R /\ <<y, x>> \in R => x = y
          /\ \A x, y, z \in E : <<x, y>> \in R /\ <<y, z>> \in R => <<x, z>> \in R
          /\ p = [x \in E |-> Cardinality({y \in E : <<y, x>> \in R})]
      BY <1>6, <1>7, <2>1
    <3> HIDE DEF p
    <3> QED  BY <3>1, Ranked
  <2> QED  BY <1>6, <2>1, <2>2
<1> HIDE DEF p
<1>9. /\ p \in [D -> D] /\ \A x, y \in D : p[x] = p[y] => x = y
      /\ \A n \in D : \E i \in D : p[i] = n
  BY <1>1, <1>8 DEF Bijection, Injection, Surjection, IsInjective
<1>10. ASSUME NEW n \in D PROVE At(n) \in D /\ p[At(n)] = n
  <2>1. \E i \in D : Cardinality(Upto(i)) = n
    BY <1>5, <1>9
  <2>2. At(n) \in D /\ Cardinality(Upto(At(n))) = n
    <3> HIDE DEF Upto
    <3> QED  BY <2>1
  <2> QED  BY <1>5, <2>2
<1>11. \A i \in D : At(p[i]) = i
  BY <1>9, <1>10
<1> HIDE DEF At
<1>12. S \in [D -> Span]
  BY <1>2, <1>5, <1>10
<1>13. S \in Seq(Span) /\ Len(S) = N
  BY <1>1, <1>12
<1>14. \A i \in D : p[i] \in D /\ S[p[i]] = ranges[i]
  BY <1>5, <1>9, <1>11
<1>15. ASSUME NEW m \in D, NEW n \in D, m <= n PROVE S[m].from <= S[n].from
  <2>1. <<At(m), At(n)>> \in R
    BY <1>8, <1>10, <1>15
  <2> QED  BY <1>5, <1>7, <1>10, <2>1
<1> QED  BY <1>1, <1>13, <1>14, <1>15 DEF InStarts

\* One more range, in the order of starts, joined to those before.
Joined(m, r) ==
  IF m = << >> \/ r.from > m[Len(m)].to THEN Append(m, r)
  ELSE IF r.to > m[Len(m)].to THEN [m EXCEPT ![Len(m)].to = r.to] ELSE m
InSome(k, m) == \E j \in 1..Len(m) : In(k, m[j].from, m[j].to)

\* It covers what they cover and the range.
LEMMA JoinedFacts ==
  ASSUME NEW m \in Seq(Span), NEW r \in Span, m # << >> => m[Len(m)].from <= r.from, NEW u, u = Joined(m, r)
  PROVE  /\ u \in Seq(Span) /\ u # << >> /\ u[Len(u)].from <= r.from
         /\ \A k \in Nat : InSome(k, m) \/ In(k, r.from, r.to) => InSome(k, u)
<1> DEFINE N == Len(m)
<1>1. N \in Nat /\ r.from \in Nat /\ r.to \in Nat
  BY DEF Span
<1>2. \A j \in 1..N : m[j] \in Span
  OBVIOUS
<1>3. \A j \in 1..N : m[j].from \in Nat /\ m[j].to \in Nat
  BY <1>2 DEF Span
<1>4. CASE m = << >> \/ r.from > m[N].to
  <2>1. u = Append(m, r)
    BY <1>4 DEF Joined
  <2>2. u \in Seq(Span) /\ Len(u) = N + 1 /\ u[N + 1] = r /\ \A j \in 1..N : u[j] = m[j]
    BY <2>1
  <2>3. \A j \in 1..N : j \in 1..Len(u)
    BY <1>1, <2>2
  <2>4. N + 1 \in 1..Len(u) /\ u # << >>
    BY <1>1, <2>2
  <2> QED  BY <1>1, <2>2, <2>3, <2>4 DEF InSome
<1>5. CASE m # << >> /\ ~(r.from > m[N].to)
  <2>1. N \in 1..N /\ m[N].from \in Nat /\ m[N].to \in Nat /\ m[N].from <= r.from /\ r.from <= m[N].to
    BY <1>1, <1>3, <1>5
  <2> DEFINE to == IF r.to > m[N].to THEN r.to ELSE m[N].to
             v == [m EXCEPT ![N] = [from |-> m[N].from, to |-> to]]
  <2>2. u = v
    <3>1. m[N] = [from |-> m[N].from, to |-> m[N].to]
      BY <1>2, <2>1 DEF Span
    <3>2. CASE r.to > m[N].to
      <4>1. u = [m EXCEPT ![N].to = r.to]
        BY <1>5, <3>2 DEF Joined
      <4>2. [m[N] EXCEPT !.to = r.to] = [from |-> m[N].from, to |-> r.to]
        BY <3>1
      <4> QED  BY <3>2, <4>1, <4>2
    <3>3. CASE ~(r.to > m[N].to)
      <4>1. u = m
        BY <1>5, <3>3 DEF Joined
      <4>2. to = m[N].to /\ DOMAIN m = 1..N
        BY <3>3
      <4>3. v = m
        BY <2>1, <3>1, <4>2
      <4> QED  BY <4>1, <4>3
    <3> QED  BY <3>2, <3>3
  <2>3. to \in Nat /\ r.to <= to /\ m[N].to <= to
    BY <1>1, <2>1
  <2> HIDE DEF to
  <2>4. [from |-> m[N].from, to |-> to] \in Span
    BY <2>1, <2>3 DEF Span
  <2>5. /\ v \in Seq(Span) /\ Len(v) = N
        /\ v[N].from = m[N].from /\ v[N].to = to
        /\ \A j \in 1..N : j # N => v[j] = m[j]
    BY <1>1, <2>1, <2>4
  <2> HIDE DEF v
  <2>6. ASSUME NEW k \in Nat, In(k, r.from, r.to) PROVE InSome(k, v)
    <3>1. In(k, v[N].from, v[N].to)
      BY <1>1, <2>1, <2>3, <2>5, <2>6 DEF In
    <3> QED  BY <2>1, <2>5, <3>1 DEF InSome
  <2>7. ASSUME NEW k \in Nat, InSome(k, m) PROVE InSome(k, v)
    <3>1. PICK j \in 1..N : In(k, m[j].from, m[j].to)
      BY <2>7 DEF InSome
    <3>2. In(k, v[j].from, v[j].to)
      BY <1>3, <2>1, <2>3, <2>5, <3>1 DEF In
    <3> QED  BY <2>5, <3>2 DEF InSome
  <2>8. v # << >>
    BY <1>1, <2>1, <2>5
  <2> QED  BY <2>1, <2>2, <2>5, <2>6, <2>7, <2>8
<1> QED  BY <1>4, <1>5

\* The ranges as they are joined, one after another.
Joins(S) ==
  LET f[n \in 0..Len(S)] ==
        IF n = 0 THEN << >>
        ELSE LET m == f[n - 1]  r == S[n]  last == Len(m)
             IN  IF m = << >> \/ r.from > m[last].to THEN Append(m, r)
                 ELSE IF r.to > m[last].to THEN [m EXCEPT ![last].to = r.to] ELSE m
  IN  f

\* Merging ranges in the order of their starts loses no key.
LEMMA JoinsFacts ==
  ASSUME NEW S \in Seq(Span), \A m, n \in 1..Len(S) : m <= n => S[m].from <= S[n].from
  PROVE  /\ Joins(S)[Len(S)] \in Seq(Span)
         /\ \A k \in Nat : InSome(k, S) => InSome(k, Joins(S)[Len(S)])
<1> DEFINE N == Len(S)
           Q == Seq(Span)
           Go(m, n) == Joined(m, S[n])
           F == [p \in Nat \X Q |-> IF p[1] \in 1..N /\ Go(p[2], p[1]) \in Q THEN Go(p[2], p[1]) ELSE p[2]]
           g == Joins(S)
<1>1. N \in Nat /\ << >> \in Q /\ \A n \in 1..N : S[n] \in Span
  BY EmptySeq
<1>2. ASSUME NEW n \in 1..N, NEW m \in Q PROVE Go(m, n) \in Q
  <2> DEFINE last == Len(m)
             r == S[n]
  <2>1. r \in Span /\ r.to \in Nat
    BY <1>1 DEF Span
  <2>2. CASE m = << >> \/ r.from > m[last].to
    BY <2>1, <2>2 DEF Joined
  <2>3. CASE m # << >> /\ ~(r.from > m[last].to)
    <3>1. last \in 1..last /\ m[last] \in Span
      BY <2>3
    <3>2. [m[last] EXCEPT !.to = r.to] \in Span
      BY <2>1, <3>1 DEF Span
    <3>3. [m EXCEPT ![last].to = r.to] = [m EXCEPT ![last] = [m[last] EXCEPT !.to = r.to]]
      OBVIOUS
    <3> HIDE DEF r
    <3>4. [m EXCEPT ![last].to = r.to] \in Q
      BY <3>1, <3>2, <3>3
    <3>5. Joined(m, r) = [m EXCEPT ![last].to = r.to] \/ Joined(m, r) = m
      BY <2>3 DEF Joined
    <3> QED  BY <3>4, <3>5 DEF r
  <2> QED  BY <2>2, <2>3
<1> HIDE DEF N, Go, Q
<1>3. F \in [Nat \X Q -> Q]
  OBVIOUS
<1>4. \A n \in Nat : \A m \in Q : n \in 1..N => F[<<n, m>>] = Go(m, n)
  BY <1>2
<1> HIDE DEF F
<1>5. PICK f \in [0..N -> Q] : GoesOn(f, << >>, F, N)
  BY <1>1, <1>3, Recursion
<1>6. f[0] = << >> /\ \A n \in 1..N : f[n] = Go(f[n - 1], n)
  <2>0. f[0] = << >>
    BY <1>5 DEF GoesOn
  <2> SUFFICES ASSUME NEW n \in 1..N PROVE f[n] = Go(f[n - 1], n)
    BY <2>0
  <2>1. n \in Nat /\ f[n-1] \in Q /\ f[n] = F[<<n, f[n-1]>>]
    BY <1>1, <1>5 DEF GoesOn
  <2> QED  BY <1>4, <2>1
<1>7. f = [n \in 0..N |-> IF n = 0 THEN << >> ELSE Go(f[n - 1], n)]
  BY <1>1, <1>5, <1>6
<1>8. g = [n \in 0..N |-> IF n = 0 THEN << >> ELSE Go(g[n - 1], n)]
  BY <1>7 DEF Joins, N, Go, Joined
<1> HIDE DEF g
<1>9. g[0] = << >> /\ \A n \in 1..N : g[n] = Go(g[n - 1], n)
  BY <1>1, <1>8
<1> DEFINE Good(n, m) == /\ m \in Q
                         /\ n > 0 => m # << >> /\ m[Len(m)].from <= S[n].from
                         /\ n = 0 => m = << >>
                         /\ \A j \in 1..n : \A k \in Nat : In(k, S[j].from, S[j].to) => InSome(k, m)
           P == {n \in Nat : n <= N => Good(n, g[n])}
<1>10. 0 \in P
  BY <1>1, <1>9
<1>11. ASSUME NEW n \in Nat, n \in P PROVE n + 1 \in P
  <2>1. CASE n + 1 <= N
    <3>1. n + 1 \in 1..N /\ n + 1 - 1 = n /\ Good(n, g[n])
      BY <1>1, <1>11, <2>1
    <3>2. PICK m, u, r : m = g[n] /\ u = g[n + 1] /\ r = S[n + 1]
      OBVIOUS
    <3>3. u = Joined(m, r) /\ m \in Seq(Span) /\ r \in Span
      BY <1>1, <1>9, <3>1, <3>2 DEF Go, Q
    <3>4. m # << >> => m[Len(m)].from <= r.from
      <4>1. CASE n = 0
        BY <3>1, <3>2, <4>1
      <4>2. CASE n > 0
        <5>1. n \in 1..N
          BY <1>1, <2>1, <4>2
        <5>2. S[n].from <= S[n + 1].from
          BY <3>1, <5>1 DEF N
        <5>3. m[Len(m)].from <= S[n].from /\ m \in Seq(Span) /\ m # << >>
          BY <3>1, <3>2, <4>2 DEF Q
        <5>4. m[Len(m)] \in Span /\ S[n] \in Span /\ S[n + 1] \in Span
          BY <1>1, <3>1, <5>1, <5>3
        <5>5. m[Len(m)].from \in Nat /\ S[n].from \in Nat /\ S[n + 1].from \in Nat
          BY <5>4 DEF Span
        <5> QED  BY <3>2, <5>2, <5>3, <5>5
      <4> QED  BY <4>1, <4>2
    <3>5. /\ u \in Seq(Span) /\ u # << >> /\ u[Len(u)].from <= r.from
          /\ \A k \in Nat : InSome(k, m) \/ In(k, r.from, r.to) => InSome(k, u)
      BY <3>3, <3>4, JoinedFacts
    <3>6. \A j \in 1..n + 1 : \A k \in Nat : In(k, S[j].from, S[j].to) => InSome(k, u)
      <4>1. \A j \in 1..n + 1 : j \in 1..n \/ j = n + 1
        OBVIOUS
      <4>2. \A j \in 1..n : \A k \in Nat : In(k, S[j].from, S[j].to) => InSome(k, m)
        BY <3>1, <3>2
      <4> QED  BY <3>2, <3>5, <4>1, <4>2
    <3>7. Good(n + 1, u)
      BY <3>2, <3>5, <3>6 DEF Q
    <3> QED  BY <3>2, <3>7
  <2>2. CASE ~(n + 1 <= N)
    BY <2>2
  <2> QED  BY <2>1, <2>2
<1> HIDE DEF P
<1>12. Nat \subseteq P
  BY <1>10, <1>11, SetInduction
<1>13. g[N] \in Q /\ \A j \in 1..N : \A k \in Nat : In(k, S[j].from, S[j].to) => InSome(k, g[N])
  BY <1>1, <1>12 DEF P
<1>14. \A k \in Nat : InSome(k, S) => InSome(k, g[N])
  BY <1>13 DEF InSome, N
<1> QED  BY <1>13, <1>14 DEF g, N, Q

\* A key of a range is covered by what coalesce_ranges makes of the ranges.
LEMMA CoalesceCovers ==
  ASSUME NEW ranges \in Seq(Span), NEW k \in Nat, InSome(k, ranges)
  PROVE  CoalesceRanges(ranges) \in Seq(Span) /\ InSome(k, CoalesceRanges(ranges))
<1>1. PICK S : S = Sorted(ranges)
  OBVIOUS
<1>2. InStarts(ranges, S)
  BY <1>1, SortedFacts
<1>3. InSome(k, S)
  BY <1>2 DEF InStarts, InSome
<1>4. Joins(S)[Len(S)] \in Seq(Span) /\ InSome(k, Joins(S)[Len(S)])
  BY <1>2, <1>3, JoinsFacts DEF InStarts
<1>5. CoalesceRanges(ranges) = Joins(S)[Len(S)]
  BY <1>1 DEF CoalesceRanges, Joins
<1> QED  BY <1>4, <1>5

\* Everything a transaction has read or changed is validated by its commit.
LEMMA AllValidated ==
  ASSUME NEW t \in Txn, BufferOK(t)
  PROVE  Written(t) \cap Row \subseteq Validated(t) /\ ReadSet(t) \subseteq Validated(t)
<1>1. t.ranges \in Seq(Span) /\ t.reads \subseteq Row /\ t.locked \subseteq Key /\ t.ser \in BOOLEAN
  BY DEF Txn
<1>2. Written(t) \cap Row \subseteq Validated(t)
  BY MetaAssumption DEF Validated, KeySet
<1>3. t.locked \subseteq Validated(t) /\ (t.ser => t.reads \subseteq Validated(t))
  BY <1>1, MetaAssumption DEF Validated, KeySet
<1>4. ASSUME t.ser, NEW k \in Row, NEW i \in DOMAIN t.ranges, In(k, t.ranges[i].from, t.ranges[i].to)
      PROVE  k \in Covered(t)
  <2>1. k \in Nat /\ InSome(k, t.ranges)
    BY <1>1, <1>4, RowAssumption DEF InSome
  <2>2. PICK c : c = CoalesceRanges(t.ranges)
    OBVIOUS
  <2>3. c \in Seq(Span) /\ InSome(k, c)
    BY <1>1, <2>1, <2>2, CoalesceCovers
  <2>4. PICK j \in 1..Len(c) : In(k, c[j].from, c[j].to)
    BY <2>3 DEF InSome
  <2>5. c[j] \in Ranges(t)
    BY <1>4, <2>2, <2>3 DEF Ranges
  <2> QED  BY <2>4, <2>5 DEF Covered
<1>5. ReadSet(t) \subseteq Validated(t)
  BY <1>3, <1>4 DEF ReadSet, Validated
<1> QED  BY <1>2, <1>5

\* A commit applies the changes of the transaction, found not to be in conflict.
LEMMA AppliedChanges ==
  ASSUME NEW t \in Txn, BufferOK(t), NEW d \in State, Validates(d, t)
  PROVE  Applied(d, t.puts, t.dels) =
           [k \in Key |-> IF View(t)[k] # t.snap[k] THEN View(t)[k] ELSE d[k]]
<1>1. ASSUME NEW k \in Key
      PROVE  (IF t.puts[k] # Absent THEN t.puts[k] ELSE IF k \in t.dels THEN Absent ELSE d[k])
             = IF View(t)[k] # t.snap[k] THEN View(t)[k] ELSE d[k]
  <2>1. View(t)[k] = IF k \in t.dels THEN Absent
                     ELSE IF t.puts[k] # Absent THEN t.puts[k] ELSE t.snap[k]
    BY ViewType
  <2>2. k \in t.dels => t.puts[k] = Absent /\ k # Meta
    BY DEF BufferOK, CellOK
  <2>3. k = Meta /\ t.puts[k] # Absent => t.puts[k] # t.snap[k]
    <3>1. t.snap[Meta] \in 0..MaxCount
      BY DEF BufferOK
    <3>2. k = Meta /\ t.puts[k] # Absent => t.puts[k] \in 0..MaxCount /\ t.puts[k] > t.snap[Meta]
      BY DEF BufferOK, CellOK
    <3> QED  BY <3>1, <3>2, BoundAssumption
  <2>4. k \in Row /\ (t.puts[k] # Absent \/ k \in t.dels) => d[k] = t.snap[k]
    <3>1. k \in Row /\ (t.puts[k] # Absent \/ k \in t.dels) => k \in Validated(t)
      BY AllValidated DEF Written
    <3> QED  BY <3>1 DEF Validates
  <2>5. k \in Row \/ k = Meta
    BY DEF Key
  <2> QED  BY <2>1, <2>2, <2>3, <2>4, <2>5
<1> QED  BY <1>1 DEF Applied

\* COMMIT, of a transaction that is applied.
LEMMA CommitStep ==
  ASSUME NEW t \in Txn, BufferOK(t), NEW q, db \in State, Validates(db, t),
         db' = Applied(db, t.puts, t.dels)
  PROVE  SI!Commit(Promised(t, q))
<1> DEFINE p == Promised(t, q)
<1>1. p.snap = t.snap /\ p.view = View(t) /\ p.must = ReadSet(t)
  BY PromisedFields DEF Fields
<1> HIDE DEF p
<1>2. SI!Key = Key
  BY DEF SI!Key, Key
<1>3. SI!Changed(p) = {k \in Key : View(t)[k] # t.snap[k]}
  BY <1>1, <1>2 DEF SI!Changed
<1>4. SI!Changed(p) \cap Row \subseteq Written(t) \cap Row
  <2>1. \A k \in Key : View(t)[k] # t.snap[k] => k \in t.dels \/ t.puts[k] # Absent
    BY ViewType
  <2> QED  BY <1>3, <2>1 DEF Written
<1>5. \A k \in (SI!Changed(p) \cap Row) \cup p.must : db[k] = p.snap[k]
  BY <1>1, <1>4, AllValidated DEF Validates
<1>6. db' = [k \in SI!Key |-> IF k \in SI!Changed(p) THEN p.view[k] ELSE db[k]]
  <2>1. db' = [k \in Key |-> IF View(t)[k] # t.snap[k] THEN View(t)[k] ELSE db[k]]
    BY AppliedChanges
  <2> QED  BY <1>1, <1>2, <1>3, <2>1
<1>7. SI!Commit(p)
  BY <1>5, <1>6 DEF SI!Commit
<1> QED  BY <1>7 DEF p

\* What a step of a transaction that stays open may be.
OpenStep(p, v) ==
  \/ SI!Read(p, v) \/ SI!Write(p, v)
  \/ SI!Save(p, v) \/ SI!RollbackTo(p, v) \/ SI!Release(p, v)
  \/ SI!BeginUnit(p, v) \/ SI!EndUnit(p, v) \/ SI!FailUnit(p, v)

\* The mark of a statement's checkpoint is a number.
LEMMA StmtsMarked ==
  ASSUME NEW q \in Stmts
  PROVE  Marked(q)
<1>1. CASE q \in Unit
  BY <1>1 DEF Unit, Marked
<1>2. CASE q \in OwnUnit
  BY <1>2 DEF OwnUnit, Marked
<1>3. CASE q \in Direct \cup {Idle}
  BY <1>3 DEF Direct, Idle, Marked
<1> QED  BY <1>1, <1>2, <1>3 DEF Stmts

\* What is promised in a reachable state is not the mark of a closed transaction.
LEMMA OpenPromise ==
  ASSUME IInv, NEW s \in Session, InTxn(s)
  PROVE  Promised(txn[s], stmt[s]) # NoTxn
<1>1. txn[s] \in Txn /\ TxnInv(txn[s]) /\ stmt[s] \in Stmts /\ StmtOK(txn[s], stmt[s])
  BY SessionTypes DEF SessionOK
<1>2. Marked(stmt[s])
  BY <1>1, StmtsMarked
<1> QED  BY <1>1, <1>2, PromisedOpen

\* A step of an open transaction is one of the abstract system.
LEMMA OpenRefines ==
  ASSUME IInv, IInv', NEW s \in Session, InTxn(s), NEW u \in Txn, NEW w,
         txn' = [txn EXCEPT ![s] = u], stmt' = [stmt EXCEPT ![s] = w], db' = db,
         OpenStep(Promised(txn[s], stmt[s]), Promised(u, w))
  PROVE  SI!Next
<1>1. Promised(txn[s], stmt[s]) # NoTxn
  BY OpenPromise
<1>2. txn'[s] = u /\ stmt'[s] = w
  BY DEF IInv, TypeOK
<1>3. w \in Stmts /\ SessionOK(u, w, scan'[s], seen'[s])
  BY <1>2 DEF IInv, TypeOK, Stmts
<1>4. TxnInv(u) /\ StmtOK(u, w)
  BY <1>3, NoTxnAssumption DEF SessionOK
<1>5. Marked(w)
  BY <1>3, StmtsMarked
<1>6. Promised(u, w) # NoTxn
  BY <1>4, <1>5, PromisedOpen
<1>7. SI!Step(Promised(txn[s], stmt[s]), Promised(u, w))
  BY <1>1, <1>6, Zenon DEF SI!Step, OpenStep
<1> QED  BY <1>7, SessionRefines

\* A transaction that begins.
Fresh(u, d) ==
  /\ u \in Txn /\ TxnInv(u) /\ View(u) = d
  /\ u.snap = d /\ u.reads = {} /\ u.locked = {} /\ u.sps = << >> /\ u.ranges = << >>

\* A new transaction is one.
LEMMA FreshTxn ==
  ASSUME NEW d \in State, d[Meta] \in 0..MaxCount, NEW ro \in BOOLEAN, NEW ser \in BOOLEAN
  PROVE  Fresh(NewTxn(d, ro, ser), d)
<1>1. PICK u : u = NewTxn(d, ro, ser)
  OBVIOUS
<1>2. u \in Txn /\ TxnInv(u)
  BY <1>1, NewTxnFacts, Zenon
<1>3. View(u) = d
  BY <1>1, NewTxnFacts
<1>4. u.snap = d /\ u.reads = {} /\ u.locked = {} /\ u.sps = << >> /\ u.ranges = << >>
  BY <1>1 DEF NewTxn
<1>5. Fresh(u, d)
  BY <1>2, <1>3, <1>4 DEF Fresh
<1> QED  BY <1>1, <1>5, Zenon

\* It is what the abstract one is when it begins.
LEMMA BeginRefines ==
  ASSUME IInv, IInv', NEW s \in Session, ~InTxn(s), db' = db, NEW u, Fresh(u, db),
         NEW q, txn' = [txn EXCEPT ![s] = u],
         stmt' = [stmt EXCEPT ![s] = q], q.kind # "unit" \/ q.owned
  PROVE  SI!Next
<1> DEFINE p == Promised(txn[s], stmt[s])
           v == Promised(u, q)
<1>2. /\ u \in Txn /\ TxnInv(u) /\ View(u) = db
      /\ u.snap = db /\ u.reads = {} /\ u.locked = {} /\ u.sps = << >> /\ u.ranges = << >>
  BY DEF Fresh
<1>3. p = NoTxn
  BY DEF Promised, InTxn
<1>4. v # NoTxn
  <2>1. txn'[s] = u /\ stmt'[s] = q
    BY DEF IInv, TypeOK
  <2>2. q \in Stmts /\ SessionOK(u, q, scan'[s], seen'[s])
    BY <2>1 DEF IInv, TypeOK, Stmts
  <2>3. StmtOK(u, q) /\ Marked(q)
    BY <2>2, StmtsMarked DEF SessionOK
  <2> QED  BY <1>2, <2>3, PromisedOpen
<1>5. Fields(u, q, v)
  BY <1>2, PromisedFields
<1>6. ReadSet(u) = {}
  <2>1. DOMAIN u.ranges = {}
    BY <1>2
  <2> QED  BY <1>2, <2>1 DEF ReadSet
<1>7. SavedViews(u) = << >>
  <2>1. 1..Len(u.sps) = {}
    BY <1>2
  <2> QED  BY <2>1 DEF SavedViews
<1>8. UnitView(u, q) = << >>
  BY DEF UnitView
<1> HIDE DEF p, v
<1>9. SI!Begin(p, v)
  BY <1>2, <1>3, <1>4, <1>5, <1>6, <1>7, <1>8 DEF SI!Begin, Fields
<1>10. SI!Step(p, v)
  BY <1>9 DEF SI!Step
<1> QED  BY <1>10, SessionRefines DEF p, v

\* Session::commit, and a transaction dropped.
LEMMA EndRefines ==
  ASSUME IInv, NEW s \in Session, NEW q, stmt' = [stmt EXCEPT ![s] = q],
         txn' = [txn EXCEPT ![s] = NoTxn], CommitTxn(s) \/ db' = db
  PROVE  SI!Next \/ UNCHANGED SI!vars
<1> DEFINE p == Promised(txn[s], stmt[s])
<1>1. Promised(NoTxn, q) = NoTxn
  BY DEF Promised
<1>2. CASE InTxn(s)
  <2>1. p # NoTxn
    BY <1>2, OpenPromise
  <2>2. CASE CommitTxn(s) /\ Commits(s)
    <3>1. db' = Applied(db, txn[s].puts, txn[s].dels) /\ Validates(db, txn[s])
      BY <1>2, <2>2 DEF CommitTxn, Commits
    <3>2. txn[s] \in Txn /\ BufferOK(txn[s]) /\ db \in State
      BY <1>2, SessionTypes DEF TxnInv
    <3>3. SI!Commit(p)
      BY <3>1, <3>2, CommitStep
    <3> HIDE DEF p
    <3>4. SI!Step(p, NoTxn)
      BY <2>1, <3>3 DEF SI!Step
    <3> QED  BY <1>1, <3>4, SessionRefines DEF p
  <2>3. CASE ~(CommitTxn(s) /\ Commits(s))
    <3>1. db' = db
      BY <2>3 DEF CommitTxn
    <3> HIDE DEF p
    <3>2. SI!Step(p, NoTxn)
      BY <2>1, <3>1 DEF SI!Step
    <3> QED  BY <1>1, <3>2, SessionRefines DEF p
  <2> QED  BY <2>2, <2>3
<1>3. CASE ~InTxn(s)
  <2>1. db' = db
    BY <1>3 DEF CommitTxn
  <2>2. p = Promised(NoTxn, q)
    BY <1>3 DEF Promised, InTxn
  <2> QED  BY <2>1, <2>2, SessionQuiet
<1> QED  BY <1>2, <1>3

\* BEGIN.
LEMMA BeginImplements ==
  ASSUME IInv, IInv', NEW s \in Session, NEW access \in {<< >>, <<TRUE>>, <<FALSE>>}, Begin(s, access)
  PROVE  SI!Next
<1>1. PICK m \in BOOLEAN : m = IF access # << >> THEN access[1] ELSE Mode(conf[s])
  BY ModeAsked
<1>2. PICK ser \in BOOLEAN : ser = conf[s].ser
  <2>1. conf[s] \in Conf
    BY SessionTypes
  <2>2. conf[s].ser \in BOOLEAN
    BY <2>1, ConfFacts
  <2> QED  BY <2>2
<1>3. PICK u : u = NewTxn(db, m, ser)
  OBVIOUS
<1>4. txn' = [txn EXCEPT ![s] = u] /\ stmt' = stmt /\ db' = db /\ ~InTxn(s) /\ Ready(s)
  BY <1>1, <1>2, <1>3 DEF Begin, OpenTxn
<1>5. stmt' = [stmt EXCEPT ![s] = Idle] /\ Idle.kind # "unit"
  BY <1>4, ReadyFacts, IdleFacts DEF IInv, TypeOK
<1>6. db \in State /\ db[Meta] \in 0..MaxCount
  BY SessionTypes
<1>7. Fresh(u, db)
  BY <1>3, <1>6, FreshTxn, Zenon
<1> QED  BY <1>4, <1>5, <1>7, BeginRefines

\* COMMIT and ROLLBACK.
LEMMA CommitImplements ==
  ASSUME IInv, NEW s \in Session, Commit(s) \/ Rollback(s)
  PROVE  SI!Next \/ UNCHANGED SI!vars
<1>1. stmt' = [stmt EXCEPT ![s] = stmt[s]]
  BY DEF Commit, Rollback, IInv, TypeOK
<1>2. txn' = [txn EXCEPT ![s] = NoTxn] /\ (CommitTxn(s) \/ db' = db)
  BY DEF Commit, Rollback, CommitTxn
<1> QED  BY <1>1, <1>2, EndRefines

\* SET autocommit.
LEMMA AutocommitImplements ==
  ASSUME IInv, NEW s \in Session, NEW b \in BOOLEAN, SetAutocommit(s, b)
  PROVE  SI!Next \/ UNCHANGED SI!vars
<1>1. CASE b /\ ~conf[s].auto
  <2>1. CommitTxn(s) /\ stmt' = [stmt EXCEPT ![s] = stmt[s]]
    BY <1>1 DEF SetAutocommit, IInv, TypeOK
  <2>2. txn' = [txn EXCEPT ![s] = NoTxn]
    BY <2>1 DEF CommitTxn
  <2> QED  BY <2>1, <2>2, EndRefines
<1>2. CASE ~(b /\ ~conf[s].auto)
  <2>1. UNCHANGED <<db, txn, stmt>>
    BY <1>2 DEF SetAutocommit
  <2> QED  BY <2>1, NothingMoves
<1> QED  BY <1>1, <1>2

\* The steps that touch neither a transaction nor a statement.
LEMMA QuietImplements ==
  ASSUME IInv, NEW s \in Session, NEW b, NEW from, NEW to,
         \/ SetIsolation(s, b) \/ SetSessionReadOnly(s, b) \/ SetNextReadOnly(s, b)
         \/ StartScan(s, from, to) \/ EndScan(s)
  PROVE  UNCHANGED SI!vars
<1>1. UNCHANGED <<db, txn, stmt>>
  BY DEF SetIsolation, SetSessionReadOnly, SetNextReadOnly, StartScan, EndScan
<1> QED  BY <1>1, NothingMoves

\* SAVEPOINT, ROLLBACK TO and RELEASE.
LEMMA SavepointImplements ==
  ASSUME IInv, IInv', NEW s \in Session, NEW name \in Name,
         SetSavepoint(s, name) \/ RollbackTo(s, name) \/ Release(s, name)
  PROVE  SI!Next
<1>1. PICK t \in Txn : t = txn[s] /\ TxnInv(t)
  BY SessionTypes DEF SetSavepoint, RollbackTo, Release
<1>2. InTxn(s) /\ Ready(s) /\ stmt' = stmt
  BY DEF SetSavepoint, RollbackTo, Release
<1>3. stmt[s] = Idle /\ stmt' = [stmt EXCEPT ![s] = Idle]
  BY <1>2, ReadyFacts DEF IInv, TypeOK
<1>4. CASE SetSavepoint(s, name)
  <2>1. PICK u : u = Savepoint(t, name)
    OBVIOUS
  <2>2. u \in Txn
    BY <1>1, <2>1, SavepointFacts
  <2>3. txn' = [txn EXCEPT ![s] = u] /\ db' = db
    BY <1>1, <1>4, <2>1 DEF SetSavepoint, SaveTxn
  <2>4. SI!Save(Promised(t, Idle), Promised(u, Idle))
    BY <1>1, <2>1, SaveStep
  <2>5. OpenStep(Promised(txn[s], stmt[s]), Promised(u, Idle))
    BY <1>1, <1>3, <2>4 DEF OpenStep
  <2> QED  BY <1>2, <1>3, <2>2, <2>3, <2>5, OpenRefines
<1>5. CASE RollbackTo(s, name)
  <2>1. PICK i \in 1..Len(t.sps) : SaveTxn(s, RollbackToSavepoint(t, i))
    BY <1>1, <1>5 DEF RollbackTo, Position
  <2>2. PICK u : u = RollbackToSavepoint(t, i)
    OBVIOUS
  <2>3. u \in Txn
    <3>1. Cut(t, u, t.sps[i].mark, i)
      BY <1>1, <2>2, RollbackToSavepointFacts
    <3> QED  BY <3>1 DEF Cut
  <2>4. txn' = [txn EXCEPT ![s] = u] /\ db' = db
    BY <2>1, <2>2 DEF SaveTxn
  <2>5. SI!RollbackTo(Promised(t, Idle), Promised(u, Idle))
    BY <1>1, <2>2, RollbackToStep
  <2>6. OpenStep(Promised(txn[s], stmt[s]), Promised(u, Idle))
    BY <1>1, <1>3, <2>5 DEF OpenStep
  <2> QED  BY <1>2, <1>3, <2>3, <2>4, <2>6, OpenRefines
<1>6. CASE Release(s, name)
  <2>1. PICK i \in 1..Len(t.sps) : SaveTxn(s, ReleaseSavepoint(t, i))
    BY <1>1, <1>6 DEF Release, Position
  <2>2. PICK u : u = ReleaseSavepoint(t, i)
    OBVIOUS
  <2>3. u \in Txn
    <3>1. Cut(t, u, Len(t.undo), i - 1)
      BY <1>1, <2>2, ReleaseSavepointFacts
    <3> QED  BY <3>1 DEF Cut
  <2>4. txn' = [txn EXCEPT ![s] = u] /\ db' = db
    BY <2>1, <2>2 DEF SaveTxn
  <2>5. SI!Release(Promised(t, Idle), Promised(u, Idle))
    BY <1>1, <2>2, ReleaseStep
  <2>6. OpenStep(Promised(txn[s], stmt[s]), Promised(u, Idle))
    BY <1>1, <1>3, <2>5 DEF OpenStep
  <2> QED  BY <1>2, <1>3, <2>3, <2>4, <2>6, OpenRefines
<1> QED  BY <1>4, <1>5, <1>6

\* A statement that has read something.
LEMMA TouchedRefines ==
  ASSUME IInv, IInv', NEW s \in Session, NEW t \in Txn, t = txn[s], NEW u \in Txn, SameBuffer(t, u),
         u.ro = t.ro, u.sps = t.sps, ReadSet(t) \subseteq ReadSet(u),
         txn' = [txn EXCEPT ![s] = u], stmt' = stmt, db' = db
  PROVE  SI!Next
<1>1. stmt' = [stmt EXCEPT ![s] = stmt[s]] /\ InTxn(s)
  BY NoTxnAssumption DEF IInv, TypeOK, InTxn
<1>2. SI!Read(Promised(t, stmt[s]), Promised(u, stmt[s]))
  BY ReadStep
<1>3. OpenStep(Promised(txn[s], stmt[s]), Promised(u, stmt[s]))
  BY <1>2 DEF OpenStep
<1> QED  BY <1>1, <1>3, OpenRefines

\* A lookup and a lock.
LEMMA GetImplements ==
  ASSUME IInv, IInv', NEW s \in Session, NEW k \in Key, Get(s, k) \/ LockKey(s, k)
  PROVE  SI!Next
<1>1. PICK t \in Txn : t = txn[s] /\ TxnInv(t)
  BY SessionTypes DEF Get, LockKey
<1>2. t.reads \in SUBSET Row /\ t.locked \in SUBSET Key
  BY DEF Txn
<1>3. CASE Get(s, k)
  <2>1. PICK R : R = Reads(t, k)
    OBVIOUS
  <2>2. R \in SUBSET Row /\ t.reads \subseteq R
    BY <1>2, <2>1 DEF Reads, Key
  <2>3. PICK u : u = [t EXCEPT !.reads = R]
    OBVIOUS
  <2>4. u \in Txn /\ SameBuffer(t, u) /\ u.sps = t.sps /\ u.ro = t.ro /\ u.reads = R
        /\ u.locked = t.locked /\ u.ranges = t.ranges /\ u.ser = t.ser
    BY <2>2, <2>3 DEF Txn, SameBuffer
  <2>5. txn' = [txn EXCEPT ![s] = u] /\ stmt' = stmt /\ db' = db
    BY <1>1, <1>3, <2>1, <2>3 DEF Get, SaveTxn
  <2>6. ReadSet(t) \subseteq ReadSet(u)
    BY <2>2, <2>4 DEF ReadSet
  <2> QED  BY <1>1, <2>4, <2>5, <2>6, TouchedRefines
<1>4. CASE LockKey(s, k)
  <2>1. PICK L \in SUBSET Key : L = t.locked \cup {k}
    BY <1>2
  <2>2. PICK u : u = [t EXCEPT !.locked = L]
    OBVIOUS
  <2>3. u \in Txn /\ SameBuffer(t, u) /\ u.sps = t.sps /\ u.ro = t.ro /\ u.reads = t.reads
        /\ u.locked = L /\ u.ranges = t.ranges /\ u.ser = t.ser
    BY <2>2 DEF Txn, SameBuffer
  <2>4. txn' = [txn EXCEPT ![s] = u] /\ stmt' = stmt /\ db' = db
    BY <1>1, <1>4, <2>1, <2>2 DEF LockKey, SaveTxn
  <2>5. ReadSet(t) \subseteq ReadSet(u)
    BY <2>1, <2>3 DEF ReadSet
  <2> QED  BY <1>1, <2>3, <2>4, <2>5, TouchedRefines
<1> QED  BY <1>3, <1>4

\* A batch of a scan.
LEMMA ScanBatchImplements ==
  ASSUME IInv, IInv', NEW s \in Session, ScanBatch(s)
  PROVE  SI!Next \/ UNCHANGED SI!vars
<1>1. CASE ~InTxn(s)
  <2>1. UNCHANGED <<db, txn, stmt>>
    BY <1>1 DEF ScanBatch
  <2> QED  BY <2>1, NothingMoves
<1>2. CASE InTxn(s)
  <2>1. PICK t \in Txn : t = txn[s] /\ TxnInv(t)
    BY <1>2, SessionTypes
  <2>2. scan[s] \in Scans
    BY SessionTypes
  <2>3. PICK c \in ScanState : c = scan[s]
    BY <2>2 DEF ScanBatch, Scans, NoScan
  <2>4. PICK R : R = ScanRanges(t, c.cursor, c.to)
    OBVIOUS
  <2>5. PICK p \in Span : p = [from |-> c.cursor, to |-> c.to]
    BY DEF Span, ScanState
  <2>6. R = IF t.ser THEN Append(t.ranges, p) ELSE t.ranges
    BY <2>4, <2>5 DEF ScanRanges
  <2>7. t.ranges \in Seq(Span)
    BY DEF Txn
  <2>8. R \in Seq(Span) /\ \A i \in DOMAIN t.ranges : i \in DOMAIN R /\ R[i] = t.ranges[i]
    BY <2>5, <2>6, <2>7, AppendProperties
  <2>9. PICK u : u = [t EXCEPT !.ranges = R]
    OBVIOUS
  <2>10. u \in Txn /\ SameBuffer(t, u) /\ u.sps = t.sps /\ u.ro = t.ro /\ u.reads = t.reads
         /\ u.locked = t.locked /\ u.ranges = R /\ u.ser = t.ser
    BY <2>8, <2>9 DEF Txn, SameBuffer
  <2>11. stmt' = stmt /\ db' = db /\ txn' = [txn EXCEPT ![s].ranges = R]
    BY <1>2, <2>1, <2>3, <2>4 DEF ScanBatch
  <2>12. txn' = [txn EXCEPT ![s] = u]
    BY <2>1, <2>9, <2>11
  <2>13. ReadSet(t) \subseteq ReadSet(u)
    BY <2>8, <2>10 DEF ReadSet
  <2> QED  BY <2>1, <2>10, <2>11, <2>12, <2>13, TouchedRefines
<1> QED  BY <1>1, <1>2

\* A write in a transaction.
LEMMA WriteImplements ==
  ASSUME IInv, IInv', NEW s \in Session, NEW w \in use.write, Write(s, w)
  PROVE  SI!Next
<1>1. PICK t \in Txn, u \in Txn, b \in BOOLEAN :
           /\ t = txn[s] /\ TxnInv(t) /\ ~t.ro /\ Staged(t, u) /\ SaveTxn(s, u)
           /\ stmt' = IF stmt[s].kind = "unit" THEN [stmt EXCEPT ![s].failed = b] ELSE stmt
           /\ UNCHANGED seen /\ ~scan[s].on
  BY WriteFacts
<1>2. stmt[s] \in Stmts /\ StmtOK(t, stmt[s])
  BY <1>1, SessionTypes DEF SessionOK
<1>3. Marked(stmt[s])
  BY <1>2, StmtsMarked
<1>4. PICK q : /\ stmt' = [stmt EXCEPT ![s] = q] /\ q.kind = stmt[s].kind
               /\ stmt[s].kind = "unit" => /\ q.owned = stmt[s].owned
                                           /\ ~stmt[s].owned => q.checkpoint = stmt[s].checkpoint
  <2>1. CASE stmt[s].kind = "unit"
    <3>1. PICK q : q = [stmt[s] EXCEPT !.failed = b]
      OBVIOUS
    <3>2. stmt[s] \in OwnUnit \cup Unit
      BY <1>2, <2>1 DEF Stmts, Idle, Direct
    <3>3. q.kind = "unit" /\ q.owned = stmt[s].owned /\ (~stmt[s].owned => q.checkpoint = stmt[s].checkpoint)
      BY <3>1, <3>2 DEF OwnUnit, Unit
    <3>4. stmt' = [stmt EXCEPT ![s] = q]
      BY <1>1, <2>1, <3>1
    <3> QED  BY <2>1, <3>3, <3>4
  <2>2. CASE stmt[s].kind # "unit"
    <3>1. stmt' = [stmt EXCEPT ![s] = stmt[s]]
      BY <1>1, <2>2 DEF IInv, TypeOK
    <3> QED  BY <2>2, <3>1
  <2> QED  BY <2>1, <2>2
<1>5. SI!Write(Promised(t, stmt[s]), Promised(u, q))
  BY <1>1, <1>2, <1>3, <1>4, WriteStep
<1>6. OpenStep(Promised(txn[s], stmt[s]), Promised(u, q))
  BY <1>1, <1>5 DEF OpenStep
<1>7. txn' = [txn EXCEPT ![s] = u] /\ db' = db /\ InTxn(s)
  BY <1>1, NoTxnAssumption DEF SaveTxn, InTxn
<1> QED  BY <1>4, <1>6, <1>7, OpenRefines

\* A statement outside a transaction begins, and is committed.
LEMMA DirectImplements ==
  ASSUME IInv, NEW s \in Session, NEW w, StartDirect(s, w) \/ FinishDirect(s)
  PROVE  SI!Next \/ UNCHANGED SI!vars
<1>1. \A q : Promised(NoTxn, q) = NoTxn
  BY DEF Promised
<1>2. CASE StartDirect(s, w)
  <2>1. PICK q : stmt' = [stmt EXCEPT ![s] = q]
    BY <1>2 DEF StartDirect
  <2>2. txn[s] = NoTxn /\ txn' = [txn EXCEPT ![s] = NoTxn] /\ db' = db
    BY <1>2 DEF StartDirect, InTxn, IInv, TypeOK
  <2>3. Promised(txn[s], stmt[s]) = Promised(NoTxn, q)
    BY <1>1, <2>2
  <2> QED  BY <2>1, <2>2, <2>3, SessionQuiet
<1>3. CASE FinishDirect(s)
  <2>1. txn[s] = NoTxn /\ db' \in State
    BY <1>3, FinishDirectFacts
  <2>2. stmt' = [stmt EXCEPT ![s] = Idle] /\ txn' = [txn EXCEPT ![s] = NoTxn]
    BY <1>3, <2>1 DEF FinishDirect, IInv, TypeOK
  <2>3. SI!Step(NoTxn, NoTxn)
    BY <2>1 DEF SI!Step
  <2>4. SI!Step(Promised(txn[s], stmt[s]), Promised(NoTxn, Idle))
    BY <1>1, <2>1, <2>3
  <2> QED  BY <2>2, <2>4, SessionRefines
<1> QED  BY <1>2, <1>3

\* A statement of several writes begins.
LEMMA StartUnitImplements ==
  ASSUME IInv, IInv', NEW s \in Session, NEW rewrite \in BOOLEAN, StartUnit(s, rewrite)
  PROVE  SI!Next
<1>1. stmt[s] = Idle
  BY ReadyFacts DEF StartUnit
<1>2. CASE InTxn(s)
  <2>1. PICK t \in Txn : t = txn[s] /\ TxnInv(t)
    BY <1>2, SessionTypes
  <2>2. PICK n \in Nat : n = t.cps + 1
    BY DEF Txn
  <2>3. PICK u : u = [t EXCEPT !.cps = n]
    OBVIOUS
  <2>4. u \in Txn /\ SameBuffer(t, u) /\ Kept(t, u) /\ u.ranges = t.ranges /\ u.sps = t.sps
    BY <2>3 DEF Txn, SameBuffer, Kept
  <2>5. PICK cp : cp = Checkpoint(t)
    OBVIOUS
  <2>6. PICK q : q = [kind |-> "unit", owned |-> FALSE, failed |-> FALSE, checkpoint |-> cp]
    OBVIOUS
  <2>7. SaveTxn(s, u) /\ stmt' = [stmt EXCEPT ![s] = q]
    BY <1>2, <2>1, <2>2, <2>3, <2>5, <2>6 DEF StartUnit
  <2>8. Under(q) /\ q.checkpoint.mark = Len(t.undo)
    BY <2>5, <2>6 DEF Under, Checkpoint
  <2>9. SI!BeginUnit(Promised(t, Idle), Promised(u, q))
    BY <2>4, <2>8, BeginUnitStep
  <2>10. OpenStep(Promised(txn[s], stmt[s]), Promised(u, q))
    BY <1>1, <2>1, <2>9 DEF OpenStep
  <2>11. txn' = [txn EXCEPT ![s] = u] /\ db' = db
    BY <2>7 DEF SaveTxn
  <2> QED  BY <1>2, <2>4, <2>7, <2>10, <2>11, OpenRefines
<1>3. CASE ~InTxn(s)
  <2>1. PICK ser \in BOOLEAN : ser = (rewrite \/ conf[s].ser)
    <3>1. (rewrite \/ conf[s].ser) = TRUE \/ (rewrite \/ conf[s].ser) = FALSE
      OBVIOUS
    <3> QED  BY <3>1, Zenon
  <2>2. PICK u : u = NewTxn(db, FALSE, ser)
    OBVIOUS
  <2>3. db \in State /\ db[Meta] \in 0..MaxCount /\ FALSE \in BOOLEAN
    BY SessionTypes
  <2>4. Fresh(u, db)
    BY <2>2, <2>3, FreshTxn, Zenon
  <2>5. PICK q : q = [kind |-> "unit", owned |-> TRUE, failed |-> FALSE]
    OBVIOUS
  <2>6. txn' = [txn EXCEPT ![s] = NewTxn(db, FALSE, rewrite \/ conf[s].ser)]
        /\ stmt' = [stmt EXCEPT ![s] = q] /\ db' = db
    BY <1>3, <2>5 DEF StartUnit
  <2>7. txn' = [txn EXCEPT ![s] = u]
    BY <2>1, <2>2, <2>6, Zenon
  <2>8. q.owned
    BY <2>5
  <2> QED  BY <1>3, <2>4, <2>6, <2>7, <2>8, BeginRefines
<1> QED  BY <1>2, <1>3

\* It ends, or fails.
LEMMA UnitImplements ==
  ASSUME IInv, IInv', NEW s \in Session, FinishUnit(s) \/ FailUnit(s)
  PROVE  SI!Next \/ UNCHANGED SI!vars
<1>1. stmt[s].kind = "unit" /\ stmt' = [stmt EXCEPT ![s] = Idle]
  BY DEF FinishUnit, FailUnit, InUnit
<1>2. CASE stmt[s].owned
  <2>1. txn' = [txn EXCEPT ![s] = NoTxn] /\ (CommitTxn(s) \/ db' = db)
    BY <1>2 DEF FinishUnit, FailUnit, CommitTxn
  <2> QED  BY <1>1, <2>1, EndRefines
<1>3. CASE ~stmt[s].owned
  <2>1. PICK t \in Txn : t = txn[s] /\ TxnInv(t)
    BY <1>1, UnitFacts
  <2>2. PICK cp \in [mark : Nat, rangesLen : Nat, spsLen : Nat] : cp = stmt[s].checkpoint /\ CheckpointOK(t, cp)
    BY <1>1, <1>3, <2>1, UnitFacts
  <2>3. Under(stmt[s]) /\ InTxn(s)
    BY <1>1, <1>3, UnitFacts DEF Under
  <2>4. CASE FinishUnit(s)
    <3>1. PICK u : u = ReleaseCheckpoint(t)
      OBVIOUS
    <3>2. Cut(t, u, Len(t.undo), Len(t.sps))
      BY <2>1, <2>2, <3>1, ReleaseCheckpointFacts
    <3>3. u.ranges = t.ranges
      BY <3>1 DEF ReleaseCheckpoint, DropLog, Txn
    <3>4. SI!EndUnit(Promised(t, stmt[s]), Promised(u, Idle))
      BY <2>1, <2>3, <3>2, <3>3, EndUnitStep
    <3>5. OpenStep(Promised(txn[s], stmt[s]), Promised(u, Idle))
      BY <2>1, <3>4 DEF OpenStep
    <3>6. txn' = [txn EXCEPT ![s] = u] /\ db' = db /\ u \in Txn
      BY <1>3, <2>1, <2>4, <3>1, <3>2 DEF FinishUnit, SaveTxn, Cut
    <3> QED  BY <1>1, <2>3, <3>5, <3>6, OpenRefines
  <2>5. CASE FailUnit(s)
    <3>1. PICK u : u = RollbackCheckpoint(t, cp)
      OBVIOUS
    <3>2. Cut(t, u, cp.mark, Len(t.sps))
      BY <2>1, <2>2, <3>1, RollbackCheckpointFacts
    <3>3. SI!FailUnit(Promised(t, stmt[s]), Promised(u, Idle))
      BY <2>1, <2>2, <2>3, <3>2, EndUnitStep
    <3>4. OpenStep(Promised(txn[s], stmt[s]), Promised(u, Idle))
      BY <2>1, <3>3 DEF OpenStep
    <3>5. txn' = [txn EXCEPT ![s] = u] /\ db' = db /\ u \in Txn
      BY <1>3, <2>1, <2>2, <2>5, <3>1, <3>2 DEF FailUnit, SaveTxn, Cut
    <3> QED  BY <1>1, <2>3, <3>4, <3>5, OpenRefines
  <2> QED  BY <2>4, <2>5
<1> QED  BY <1>2, <1>3

\* The query timeout: a statement cut off after its checkpoint has kept what it staged.
LEMMA CancelImplements ==
  ASSUME IInv, IInv', NEW s \in Session, Cancel(s)
  PROVE  SI!Next \/ UNCHANGED SI!vars
<1>1. stmt' = [stmt EXCEPT ![s] = Idle] /\ txn' = [txn EXCEPT ![s] = txn[s]] /\ db' = db
  BY DEF Cancel, IInv, TypeOK
<1>2. CASE ~InTxn(s)
  <2>1. Promised(txn[s], stmt[s]) = Promised(txn[s], Idle)
    BY <1>2 DEF Promised, InTxn
  <2> QED  BY <1>1, <2>1, SessionQuiet
<1>3. CASE InTxn(s)
  <2>1. txn[s] \in Txn
    BY <1>3, SessionTypes
  <2>2. CASE Under(stmt[s])
    <3>1. SI!EndUnit(Promised(txn[s], stmt[s]), Promised(txn[s], Idle))
      BY <2>1, <2>2, GivenUpStep
    <3>2. OpenStep(Promised(txn[s], stmt[s]), Promised(txn[s], Idle))
      BY <3>1 DEF OpenStep
    <3> QED  BY <1>1, <1>3, <2>1, <3>2, OpenRefines
  <2>3. CASE ~Under(stmt[s])
    <3>1. Promised(txn[s], stmt[s]) = Promised(txn[s], Idle)
      BY <2>1, <2>3, GivenUpStep
    <3> QED  BY <1>1, <3>1, SessionQuiet
  <2> QED  BY <2>2, <2>3
<1> QED  BY <1>2, <1>3

\* Every step.
LEMMA NextImplements ==
  ASSUME IInv, IInv', Next
  PROVE  SI!Next \/ UNCHANGED SI!vars
<1>1. use \in Workload
  BY DEF IInv, TypeOK
<1>2. /\ use.open \subseteq Session /\ use.save \subseteq Session /\ use.unit \subseteq Session
      /\ use.read \subseteq Session /\ use.set \subseteq Session /\ use.probe \subseteq Key
  <2>1. use.open \cup use.save \cup use.unit \cup use.read \cup use.set \subseteq Session
    BY <1>1, WorkloadAssumption
  <2>2. use.probe \subseteq Key
    BY <1>1, WorkloadAssumption
  <2> QED  BY <2>1, <2>2
<1> DEFINE Goal == SI!Next \/ UNCHANGED SI!vars
<1> SUFFICES Goal
  OBVIOUS
<1>3. \A b \in BOOLEAN : <<b>> \in {<< >>, <<TRUE>>, <<FALSE>>}
  OBVIOUS
<1>4. << >> \in {<< >>, <<TRUE>>, <<FALSE>>}
  OBVIOUS
<1>5. ASSUME NEW s \in Session, Commit(s) \/ Rollback(s) PROVE Goal
  BY <1>5, CommitImplements
<1>6. ASSUME NEW s \in Session, NEW w \in use.write, Write(s, w) \/ StartDirect(s, w) PROVE Goal
  BY <1>6, WriteImplements, DirectImplements
<1>7. ASSUME NEW s \in Session, FinishDirect(s) \/ Cancel(s) PROVE Goal
  BY <1>7, DirectImplements, CancelImplements
<1>8. ASSUME NEW s \in use.open, Begin(s, << >>) PROVE Goal
  BY <1>2, <1>4, <1>8, BeginImplements
<1>9. ASSUME NEW s \in use.save, NEW n \in Name, SetSavepoint(s, n) \/ RollbackTo(s, n) \/ Release(s, n)
      PROVE  Goal
  BY <1>2, <1>9, SavepointImplements
<1>10. ASSUME NEW s \in use.unit, NEW rewrite \in BOOLEAN, StartUnit(s, rewrite) PROVE Goal
  BY <1>2, <1>10, StartUnitImplements
<1>11. ASSUME NEW s \in use.unit, FinishUnit(s) \/ FailUnit(s) PROVE Goal
  BY <1>2, <1>11, UnitImplements
<1>12. ASSUME NEW s \in use.read, NEW ser \in BOOLEAN, SetIsolation(s, ser) PROVE Goal
  BY <1>2, <1>12, QuietImplements
<1>13. ASSUME NEW s \in use.read, NEW k \in use.probe, Get(s, k) \/ LockKey(s, k) PROVE Goal
  BY <1>2, <1>13, GetImplements
<1>14. ASSUME NEW s \in use.read, NEW r \in use.span, StartScan(s, r.from, r.to) PROVE Goal
  BY <1>2, <1>14, QuietImplements
<1>15. ASSUME NEW s \in use.read, ScanBatch(s) \/ EndScan(s) PROVE Goal
  BY <1>2, <1>15, ScanBatchImplements, QuietImplements
<1>16. ASSUME NEW s \in use.set, NEW b \in BOOLEAN,
              SetAutocommit(s, b) \/ SetSessionReadOnly(s, b) \/ SetNextReadOnly(s, b)
       PROVE  Goal
  BY <1>2, <1>16, AutocommitImplements, QuietImplements
<1>17. ASSUME NEW s \in use.set, NEW b \in BOOLEAN, Begin(s, <<b>>) PROVE Goal
  <2>1. PICK access \in {<< >>, <<TRUE>>, <<FALSE>>} : access = <<b>>
    BY <1>3
  <2>2. Begin(s, access)
    BY <1>17, <2>1
  <2> QED  BY <1>2, <2>2, BeginImplements
<1> HIDE DEF Goal
<1> QED  BY <1>5, <1>6, <1>7, <1>8, <1>9, <1>10, <1>11, <1>12, <1>13, <1>14, <1>15, <1>16, <1>17 DEF Next

\* The sessions keep the promises of docs/sql/transactions.md, for any number of sessions,
\* keys and savepoints: whatever others commit, a transaction sees its snapshot under its own
\* writes; the undo log gives back the view there was at every savepoint and at the start of
\* a statement; a commit is applied whole over the changes of others, and only if no row it
\* wrote, key it locked or, serializable, key or range it read has changed since the snapshot
\* (session.rs: stage, rollback_tx_to, savepoint, coalesce_ranges, commit).
THEOREM ImplementsSnapshotIsolation == Spec => RefinesSnapshotIsolation
<1>1. Init => SI!Init
  <2> SUFFICES ASSUME Init PROVE SI!Init
    OBVIOUS
  <2>1. db \in State
    BY InitKeeps DEF IInv, TypeOK
  <2>2. \A s \in Session : Promise(s) = NoTxn
    BY DEF Init, Promise, InTxn
  <2> QED  BY <2>1, <2>2 DEF SI!Init
<1>2. IInv /\ IInv' /\ [Next]_vars => [SI!Next]_(SI!vars)
  <2>1. ASSUME IInv, IInv', Next PROVE [SI!Next]_(SI!vars)
    <3>1. SI!Next \/ UNCHANGED SI!vars
      BY <2>1, NextImplements
    <3> QED  BY <3>1
  <2>2. ASSUME IInv, UNCHANGED vars PROVE [SI!Next]_(SI!vars)
    <3>1. UNCHANGED <<db, txn, stmt>>
      BY <2>2 DEF vars
    <3>2. UNCHANGED SI!vars
      BY <2>2, <3>1, NothingMoves
    <3> QED  BY <3>2
  <2> QED  BY <2>1, <2>2
<1> QED  BY <1>1, <1>2, Invariance, PTL DEF Spec, RefinesSnapshotIsolation, SI!Spec

=============================================================================
