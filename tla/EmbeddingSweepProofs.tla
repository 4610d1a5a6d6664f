------------------------ MODULE EmbeddingSweepProofs ------------------------
(***************************************************************************)
(* Theorems about EmbeddingSweep, for any rows, texts, models and columns, *)
(* any number of sweeps at once, and any workload.                         *)
(***************************************************************************)
EXTENDS EmbeddingSweep, NaturalRecursion, FiniteSetTheorems

----------------------------------------------------------------------------
(* The inductive invariant *)

\* What a sweep keeps of the table, and the fields it has at each point.
CopyOK(f) == /\ f = [r \in DOMAIN f |-> f[r]] /\ DOMAIN f # {}
             /\ DOMAIN f \subseteq Row /\ \A r \in DOMAIN f : f[r] \in RowType
Running(o) == o.ix \in Created /\ o.done \in 0..Budget
ScanOp(o) ==
  /\ o.pc = "scan" /\ Running(o)
  /\ o = [pc |-> "scan", ix |-> o.ix, cursor |-> o.cursor, done |-> o.done]
RowsOp(o) ==
  /\ o.pc = "rows"
  /\ o = [pc |-> "rows", ix |-> o.ix, cursor |-> o.cursor, done |-> o.done,
          copy |-> o.copy, last |-> o.last]
  /\ Running(o) /\ CopyOK(o.copy)
\* A sweep that asks the provider has not used up its budget.
Asking(o) == /\ Running(o) /\ o.done < Budget /\ CopyOK(o.copy) /\ o.row \in DOMAIN o.copy
             /\ o.copy[o.row].text \in Text
CallOp(o) ==
  /\ o.pc = "call"
  /\ o = [pc |-> "call", ix |-> o.ix, cursor |-> o.cursor, done |-> o.done,
          copy |-> o.copy, last |-> o.last, row |-> o.row, attempts |-> o.attempts]
  /\ Asking(o) /\ o.attempts \in Nat /\ o.attempts < MaxAttempts
\* The vector is that of the text sent, by the model of now: a restart ends every sweep.
WriteOp(o) ==
  /\ o.pc = "write"
  /\ o = [pc |-> "write", ix |-> o.ix, cursor |-> o.cursor, done |-> o.done,
          copy |-> o.copy, last |-> o.last, row |-> o.row, vector |-> o.vector,
          snap |-> o.snap]
  /\ Asking(o) /\ o.vector = Embedding(o.ix, o.copy[o.row].text)
  /\ o.snap.wcount \in Nat
OpInv ==
  /\ op = [s \in Sweeper |-> op[s]]
  /\ \A s \in Sweeper :
       op[s] = Idle \/ ScanOp(op[s]) \/ RowsOp(op[s]) \/ CallOp(op[s]) \/ WriteOp(op[s])

DataInv ==
  /\ rows \in [Row -> RowType \cup {NoRow}] /\ side \in [Row -> RecordType \cup {None}]
  /\ index \in Created \cup {NoIndex} /\ model \in Model /\ wcount \in Nat
  /\ ripe \in [Sweeper -> SUBSET Row]
  /\ spent \in [Row -> Nat] /\ crossed \subseteq Row /\ touched \subseteq Row
  /\ env \in [write : Nat, call : Nat, fault : Nat, restart : Nat, create : Nat]

\* A record of a vector written with the index's model is of the vector in the index's
\* column, whatever text the row has by now.
Accounted(r) ==
  rows[r] # NoRow /\ Recorded(r) /\ side[r].hash[1] = index.model =>
    rows[r].vec[index.column] = Embedding(index, side[r].hash[2])
AccountInv == index # NoIndex => \A r \in Row \ touched : Accounted(r)

Copying(s) == op[s].pc \in {"rows", "call", "write"}
\* The row is still as the sweep read it, for the same index.
Same(s, r) ==
  /\ index # NoIndex /\ op[s].ix = index
  /\ rows[r] # NoRow /\ op[s].copy[r].text = rows[r].text

\* While no other sweep interferes, the record counts at least the failures on the present
\* text, and so does what a sweep read before it called the provider; a sweep for another
\* index, or of another text, has not failed on this one.
Counted(r) ==
  /\ spent[r] <= MaxAttempts
  /\ index # NoIndex /\ rows[r] # NoRow =>
       spent[r] <= Attempts(Record(r), Hash(index, rows[r].text))
  /\ \A s \in Sweeping : index # NoIndex /\ op[s].ix # index => spent[r] = 0
  /\ \A s \in Sweeping : Copying(s) /\ r \in DOMAIN op[s].copy /\
       (rows[r] = NoRow \/ op[s].copy[r].text # rows[r].text) => spent[r] = 0
  /\ \A s \in Sweeping : op[s].pc = "call" /\ op[s].row = r /\ Same(s, r) =>
       spent[r] <= op[s].attempts
CapInv ==
  /\ crossed # Row => \A s, u \in Sweeping : s = u
  /\ \A r \in Row \ crossed : Counted(r)

IInv == DataInv /\ OpInv /\ AccountInv /\ CapInv

----------------------------------------------------------------------------
(* What a sweep goes on with *)

\* A batch has a first row.
LEMMA MinFacts ==
  ASSUME NEW D \in SUBSET Row, D # {}
  PROVE  Min(D) \in D
<1>1. D \in SUBSET Nat
  BY RowAssumption
<1>2. \E n \in D : \A m \in D : n <= m
  BY <1>1, LeastNatural
<1> QED  BY <1>2 DEF Min

\* After a row: the rest of the batch, the next batch, or the end.
LEMMA AfterFacts ==
  ASSUME NEW o, Running(o), CopyOK(o.copy)
  PROVE  LET n == After(o)
         IN  /\ n = Idle \/ ScanOp(n) \/ RowsOp(n)
             /\ n.pc \in {"idle", "scan", "rows"}
             /\ n.pc # "idle" => n.ix = o.ix
             /\ n.pc = "rows" => \A r \in DOMAIN n.copy :
                                   r \in DOMAIN o.copy /\ n.copy[r] = o.copy[r]
<1> DEFINE left == DOMAIN o.copy \ {Min(DOMAIN o.copy)}
           n == After(o)
           rest == [r \in left |-> o.copy[r]]
<1>1. CASE left # {}
  <2>1. n = [pc |-> "rows", ix |-> o.ix, cursor |-> o.cursor, done |-> o.done,
             copy |-> rest, last |-> o.last]
    BY <1>1 DEF After
  <2>2. CopyOK(rest) /\ DOMAIN rest = left
    BY <1>1 DEF CopyOK
  <2> HIDE DEF n, rest
  <2>3. n.pc = "rows" /\ n.ix = o.ix /\ n.cursor = o.cursor /\ n.done = o.done
          /\ n.copy = rest /\ n.last = o.last
    BY <2>1
  <2>4. RowsOp(n)
    BY <2>1, <2>2, <2>3 DEF RowsOp, Running
  <2>5. \A r \in DOMAIN n.copy : r \in DOMAIN o.copy /\ n.copy[r] = o.copy[r]
    BY <2>2, <2>3 DEF rest
  <2> QED  BY <2>3, <2>4, <2>5 DEF n
<1>2. CASE left = {} /\ o.last
  BY <1>2 DEF After, Idle
<1>3. CASE left = {} /\ ~o.last
  <2>1. n = [pc |-> "scan", ix |-> o.ix, cursor |-> o.cursor, done |-> o.done]
    BY <1>3 DEF After
  <2> HIDE DEF n
  <2>2. n.pc = "scan" /\ n.ix = o.ix /\ n.cursor = o.cursor /\ n.done = o.done
    BY <2>1
  <2>3. ScanOp(n)
    BY <2>1, <2>2 DEF ScanOp, Running
  <2> QED  BY <2>2, <2>3 DEF n
<1> QED  BY <1>1, <1>2, <1>3

\* The same after a row that was embedded or has failed.
LEMMA DoneFacts ==
  ASSUME NEW o, CallOp(o) \/ WriteOp(o)
  PROVE  LET e == [o EXCEPT !.done = @ + 1]
         IN  Running(e) /\ e.copy = o.copy /\ e.ix = o.ix /\ CopyOK(e.copy)
<1> DEFINE e == [o EXCEPT !.done = @ + 1]
<1>1. e.copy = o.copy /\ e.ix = o.ix /\ e.done = o.done + 1
  BY DEF CallOp, WriteOp
<1>2. o.done + 1 \in 0..Budget
  BY SizeAssumption DEF CallOp, WriteOp, Asking, Running
<1> HIDE DEF e
<1> QED  BY <1>1, <1>2 DEF CallOp, WriteOp, Asking, Running, e

\* Points of a sweep, by their name.
LEMMA OpFacts ==
  ASSUME OpInv, NEW s \in Sweeper
  PROVE  /\ op[s].pc \in {"idle", "scan", "rows", "call", "write"}
         /\ op[s].pc = "idle" <=> op[s] = Idle
         /\ op[s].pc = "scan" => ScanOp(op[s])
         /\ op[s].pc = "rows" => RowsOp(op[s])
         /\ op[s].pc = "call" => CallOp(op[s])
         /\ op[s].pc = "write" => WriteOp(op[s])
         /\ op[s].pc # "idle" => Running(op[s])
         /\ Copying(s) => CopyOK(op[s].copy)
<1>1. Idle.pc = "idle"
  BY DEF Idle
<1>2. op[s] = Idle \/ ScanOp(op[s]) \/ RowsOp(op[s]) \/ CallOp(op[s]) \/ WriteOp(op[s])
  BY DEF OpInv
<1> QED  BY <1>1, <1>2 DEF ScanOp, RowsOp, CallOp, WriteOp, Asking, Copying

----------------------------------------------------------------------------
(* Steps of a sweep *)

\* What a step of sweep s may do that asks nothing and counts nothing for row r.
LEMMA CountedStep ==
  ASSUME OpInv, NEW s \in Sweeper, NEW o, op' = [op EXCEPT ![s] = o], index' = index,
         op[s].pc # "idle", o.pc # "idle" => o.ix = op[s].ix,
         NEW r \in Row, Counted(r),
         (rows'[r] = NoRow) = (rows[r] = NoRow),
         rows[r] # NoRow => rows'[r].text = rows[r].text,
         spent'[r] = spent[r], side'[r] = side[r],
         o.pc \in {"rows", "call", "write"} /\ r \in DOMAIN o.copy =>
           \/ Copying(s) /\ r \in DOMAIN op[s].copy /\ o.copy[r] = op[s].copy[r]
           \/ rows[r] # NoRow /\ o.copy[r] = rows[r],
         o.pc = "call" /\ o.row = r /\ index # NoIndex /\ o.ix = index /\ rows[r] # NoRow
           /\ o.copy[r].text = rows[r].text => spent[r] <= o.attempts
  PROVE  Counted(r)'
<1>1. op'[s] = o /\ \A u \in Sweeper \ {s} : op'[u] = op[u]
  BY DEF OpInv
<1>2. Sweeping' \subseteq Sweeping
  BY <1>1 DEF Sweeping
<1>3. s \in Sweeping
  BY DEF Sweeping
<1>4. (spent[r] <= MaxAttempts)' /\ (Record(r)' = Record(r))
  BY DEF Counted, Record
<1>5. (index # NoIndex /\ rows[r] # NoRow =>
         spent[r] <= Attempts(Record(r), Hash(index, rows[r].text)))'
  BY <1>4 DEF Counted, Attempts, Hash
<1>6. (\A u \in Sweeping : index # NoIndex /\ op[u].ix # index => spent[r] = 0)'
  <2> SUFFICES ASSUME NEW u \in Sweeping', index # NoIndex, op'[u].ix # index PROVE spent[r] = 0
    OBVIOUS
  <2>1. op[u].ix # index /\ u \in Sweeping
    BY <1>1, <1>2 DEF Sweeping
  <2> QED  BY <2>1 DEF Counted
<1>7. (\A u \in Sweeping : Copying(u) /\ r \in DOMAIN op[u].copy /\
         (rows[r] = NoRow \/ op[u].copy[r].text # rows[r].text) => spent[r] = 0)'
  <2> SUFFICES ASSUME NEW u \in Sweeping', Copying(u)', r \in DOMAIN op'[u].copy,
                      rows[r] = NoRow \/ op'[u].copy[r].text # rows[r].text
               PROVE  spent[r] = 0
    BY DEF Copying
  <2>1. CASE u = s
    <3>1. o.pc \in {"rows", "call", "write"} /\ r \in DOMAIN o.copy
      BY <1>1, <2>1 DEF Copying
    <3>2. Copying(s) /\ r \in DOMAIN op[s].copy /\ o.copy[r] = op[s].copy[r]
      BY <1>1, <2>1, <3>1
    <3> QED  BY <1>1, <1>3, <2>1, <3>2 DEF Counted
  <2>2. CASE u # s
    <3>1. u \in Sweeping /\ op'[u] = op[u]
      BY <1>1, <1>2, <2>2 DEF Sweeping
    <3>2. Copying(u) /\ r \in DOMAIN op[u].copy
      BY <3>1 DEF Copying
    <3> QED  BY <3>1, <3>2 DEF Counted
  <2> QED  BY <2>1, <2>2
<1>8. (\A u \in Sweeping : op[u].pc = "call" /\ op[u].row = r /\ Same(u, r) =>
         spent[r] <= op[u].attempts)'
  <2> SUFFICES ASSUME NEW u \in Sweeping', op'[u].pc = "call", op'[u].row = r, Same(u, r)'
               PROVE  spent[r] <= op'[u].attempts
    OBVIOUS
  <2>1. CASE u = s
    BY <1>1, <2>1 DEF Same
  <2>2. CASE u # s
    <3>1. u \in Sweeping /\ op'[u] = op[u]
      BY <1>1, <1>2, <2>2 DEF Sweeping
    <3>2. Same(u, r)
      BY <3>1 DEF Same
    <3> QED  BY <3>1, <3>2 DEF Counted
  <2> QED  BY <2>1, <2>2
<1> QED  BY <1>4, <1>5, <1>6, <1>7, <1>8 DEF Counted

\* A step of a sweep under way starts none.
LEMMA AloneStep ==
  ASSUME OpInv, CapInv, NEW s \in Sweeper, NEW o, op' = [op EXCEPT ![s] = o],
         op[s].pc # "idle", crossed' = crossed
  PROVE  (crossed # Row => \A u, w \in Sweeping : u = w)'
<1>1. Sweeping' \subseteq Sweeping
  BY DEF Sweeping, OpInv
<1> QED  BY <1>1 DEF CapInv

\* A step of a sweep to a point that is well formed.
LEMMA OpStep ==
  ASSUME OpInv, NEW s \in Sweeper, NEW o, op' = [op EXCEPT ![s] = o], model' = model,
         o = Idle \/ ScanOp(o) \/ RowsOp(o) \/ CallOp(o) \/ WriteOp(o)
  PROVE  OpInv'
<1>1. op'[s] = o /\ \A u \in Sweeper \ {s} : op'[u] = op[u]
  BY DEF OpInv
<1>2. op' = [u \in Sweeper |-> op'[u]]
  BY DEF OpInv
<1>3. ASSUME NEW u \in Sweeper
      PROVE  \E e : /\ e = op'[u]
                    /\ e = Idle \/ ScanOp(e) \/ RowsOp(e) \/ CallOp(e) \/ WriteOp(e)
  BY <1>1 DEF OpInv
<1> QED  BY <1>2, <1>3 DEF OpInv, ScanOp, RowsOp, CallOp, WriteOp, Embedding

\* A sweep starts.
LEMMA StartInv ==
  ASSUME IInv, NEW s \in Sweeper, Start(s)
  PROVE  IInv'
<1> USE DEF IInv
<1> DEFINE o == [pc |-> "scan", ix |-> index, cursor |-> 0, done |-> 0]
<1>0. op' = [op EXCEPT ![s] = o] /\ UNCHANGED <<rows, wcount, side, index, model, spent, touched>>
        /\ op[s].pc = "idle" /\ index # NoIndex
  BY DEF Start, tableVars
<1>1. DataInv'
  <2>1. env' \in [write : Nat, call : Nat, fault : Nat, restart : Nat, create : Nat]
    BY DEF Start, DataInv
  <2>2. ripe' \in [Sweeper -> SUBSET Row] /\ crossed' \subseteq Row
    BY DEF Start, DataInv
  <2> QED  BY <1>0, <2>1, <2>2 DEF DataInv
<1>2. o.pc = "scan" /\ o.ix = index /\ ScanOp(o)
  BY <1>0, SizeAssumption DEF ScanOp, Running, DataInv
<1>3. OpInv'
  <2> HIDE DEF o
  <2> QED  BY <1>0, <1>2, OpStep
<1>4. AccountInv'
  BY <1>0 DEF AccountInv, Accounted, Recorded, Record, Embedding
<1>5. CapInv'
  <2>1. CASE Sweeping # {}
    BY <2>1 DEF Start, CapInv
  <2>2. CASE Sweeping = {}
    <3>1. crossed' = crossed /\ op'[s] = o /\ \A u \in Sweeper \ {s} : op'[u] = op[u]
      BY <1>0, <2>2 DEF Start, OpInv
    <3>2. Sweeping' = {s}
      BY <1>2, <2>2, <3>1 DEF Sweeping
    <3>3. \A r \in Row : Record(r)' = Record(r)
      BY <1>0 DEF Record
    <3>4. ~Copying(s)'
      BY <1>2, <3>1 DEF Copying
    <3>5. ASSUME NEW r \in Row \ crossed PROVE Counted(r)'
      <4>1. Counted(r)
        BY DEF CapInv
      <4>2. (spent[r] <= MaxAttempts)' /\
            (index # NoIndex /\ rows[r] # NoRow =>
               spent[r] <= Attempts(Record(r), Hash(index, rows[r].text)))'
        BY <1>0, <3>3, <4>1 DEF Counted, Attempts, Hash
      <4>3. \A u \in Sweeping' : u = s /\ op'[u].ix = index' /\ op'[u].pc = "scan"
        BY <1>0, <1>2, <3>1, <3>2
      <4> QED  BY <3>4, <4>2, <4>3 DEF Counted
    <3> QED  BY <3>1, <3>2, <3>5 DEF CapInv
  <2> QED  BY <2>1, <2>2
<1> QED  BY <1>1, <1>3, <1>4, <1>5

\* A step of a sweep that changes nothing but where the sweep is.
LEMMA QuietStep ==
  ASSUME IInv, NEW s \in Sweeper, NEW o, op' = [op EXCEPT ![s] = o],
         UNCHANGED <<rows, wcount, side, index, model, ripe, spent, crossed, touched>>,
         env' \in [write : Nat, call : Nat, fault : Nat, restart : Nat, create : Nat],
         op[s].pc # "idle", o.pc # "idle" => o.ix = op[s].ix,
         o = Idle \/ ScanOp(o) \/ RowsOp(o) \/ CallOp(o) \/ WriteOp(o),
         o.pc \in {"rows", "call", "write"} => \A r \in DOMAIN o.copy :
           \/ Copying(s) /\ r \in DOMAIN op[s].copy /\ o.copy[r] = op[s].copy[r]
           \/ rows[r] # NoRow /\ o.copy[r] = rows[r],
         o.pc = "call" => \A r \in Row \ crossed :
           o.row = r /\ index # NoIndex /\ o.ix = index /\ rows[r] # NoRow
             /\ o.copy[r].text = rows[r].text => spent[r] <= o.attempts
  PROVE  IInv'
<1> USE DEF IInv
<1>1. DataInv'
  BY DEF DataInv
<1>2. OpInv'
  BY OpStep
<1>3. AccountInv'
  BY DEF AccountInv, Accounted, Recorded, Record, Embedding
<1>4. CapInv'
  <2>1. ASSUME NEW r \in Row \ crossed PROVE Counted(r)'
    <3>1. Counted(r)
      BY DEF CapInv
    <3> QED  BY <3>1, CountedStep, ZenonT(40)
  <2> QED  BY <2>1, AloneStep DEF CapInv
<1> QED  BY <1>1, <1>2, <1>3, <1>4

\* A batch is what the table holds.
LEMMA ScanInv ==
  ASSUME IInv, NEW s \in Sweeper, Scan(s)
  PROVE  IInv'
<1> DEFINE batch == FirstOf({r \in Row : r > op[s].cursor /\ rows[r] # NoRow}, Batch)
           copy == [r \in batch |-> rows[r]]
           o == IF batch = {} THEN Idle
                ELSE [pc |-> "rows", ix |-> op[s].ix, cursor |-> Max(batch), done |-> op[s].done,
                      copy |-> copy, last |-> LastBatch(batch)]
<1>1. op' = [op EXCEPT ![s] = o]
        /\ UNCHANGED <<rows, wcount, side, index, model, ripe, spent, crossed, touched, env>>
  BY DEF Scan, tableVars, history
<1>2. op[s].pc = "scan" /\ Running(op[s])
  BY OpFacts DEF Scan, IInv
<1>3. batch \subseteq Row /\ \A r \in batch : rows[r] # NoRow
  BY DEF FirstOf
<1>4. DOMAIN copy = batch /\ \A r \in batch : copy[r] = rows[r]
  OBVIOUS
<1>5. batch # {} => CopyOK(copy)
  <2>1. \A r \in batch : rows[r] \in RowType
    BY <1>3 DEF IInv, DataInv
  <2> QED  BY <1>3, <1>4, <2>1 DEF CopyOK
<1> HIDE DEF batch, copy
<1>6. CASE batch = {}
  <2>1. o = Idle /\ o.pc = "idle"
    BY <1>6 DEF Idle
  <2> HIDE DEF o
  <2> QED  BY <1>1, <1>2, <2>1, QuietStep DEF IInv, DataInv
<1>7. CASE batch # {}
  <2>1. o = [pc |-> "rows", ix |-> op[s].ix, cursor |-> Max(batch), done |-> op[s].done,
             copy |-> copy, last |-> LastBatch(batch)]
    BY <1>7
  <2> HIDE DEF o
  <2>2. /\ o.pc = "rows" /\ o.ix = op[s].ix /\ o.cursor = Max(batch) /\ o.done = op[s].done
        /\ o.copy = copy /\ o.last = LastBatch(batch)
    BY <2>1
  <2>3. RowsOp(o)
    BY <1>2, <1>5, <1>7, <2>1, <2>2 DEF RowsOp, Running
  <2>4. \A r \in DOMAIN o.copy : rows[r] # NoRow /\ o.copy[r] = rows[r]
    BY <1>3, <1>4, <2>2
  <2> QED  BY <1>1, <1>2, <2>2, <2>3, <2>4, QuietStep DEF IInv, DataInv
<1> QED  BY <1>6, <1>7

\* A row is passed over, or sent to the provider with the attempts on record.
LEMMA VisitInv ==
  ASSUME IInv, NEW s \in Sweeper, Visit(s)
  PROVE  IInv'
<1> DEFINE o == op[s]
           r == Min(DOMAIN o.copy)
           h == Hash(o.ix, o.copy[r].text)
           n == [pc |-> "call", ix |-> o.ix, cursor |-> o.cursor, done |-> o.done,
                 copy |-> o.copy, last |-> o.last, row |-> r, attempts |-> Attempts(Record(r), h)]
<1>1. /\ UNCHANGED <<rows, wcount, side, index, model, ripe, spent, crossed, touched, env>>
      /\ o.pc = "rows"
      /\ (Wanted(s, r) /\ op' = [op EXCEPT ![s] = n])
           \/ (~Wanted(s, r) /\ op' = [op EXCEPT ![s] = After(o)])
  BY DEF Visit, tableVars, history
<1>2. RowsOp(o) /\ Running(o) /\ CopyOK(o.copy) /\ Copying(s)
  BY <1>1, OpFacts DEF IInv, Copying
<1>3. r \in DOMAIN o.copy /\ r \in Row
  BY <1>2, MinFacts DEF CopyOK
<1>4. CASE op' = [op EXCEPT ![s] = After(o)]
  <2> DEFINE e == After(o)
  <2>1. /\ e = Idle \/ ScanOp(e) \/ RowsOp(e)
        /\ e.pc \in {"idle", "scan", "rows"}
        /\ e.pc # "idle" => e.ix = o.ix
        /\ e.pc = "rows" => \A q \in DOMAIN e.copy :
                              q \in DOMAIN o.copy /\ e.copy[q] = o.copy[q]
    BY <1>2, AfterFacts
  <2> HIDE DEF e
  <2>2. op' = [op EXCEPT ![s] = e]
    BY <1>4 DEF e
  <2> QED  BY <1>1, <1>2, <2>1, <2>2, QuietStep DEF IInv, DataInv
<1>5. CASE Wanted(s, r) /\ op' = [op EXCEPT ![s] = n]
  <2>1. Record(r).attempts \in Nat /\ Attempts(Record(r), h) \in Nat
    BY <1>3, SizeAssumption DEF Record, NoRecord, Attempts, IInv, DataInv, RecordType
  <2>2. o.copy[r].text \in Text /\ o.done < Budget /\ Attempts(Record(r), h) < MaxAttempts
    <3>1. o.copy[r].text \in Text
      BY <1>2, <1>3, <1>5 DEF Wanted, CopyOK, RowType
    <3>2. o.done < Budget
      BY <1>2, <1>5, SizeAssumption DEF Wanted, Exhausted, Running
    <3>3. Attempts(Record(r), h) < MaxAttempts
      BY <1>5, <2>1, SizeAssumption DEF Wanted, DeadLettered, Attempts
    <3> QED  BY <3>1, <3>2, <3>3
  <2>3. /\ n.pc = "call" /\ n.ix = o.ix /\ n.cursor = o.cursor /\ n.done = o.done
        /\ n.copy = o.copy /\ n.last = o.last /\ n.row = r /\ n.attempts = Attempts(Record(r), h)
    OBVIOUS
  <2>4. CallOp(n)
    <3>1. n = [pc |-> "call", ix |-> n.ix, cursor |-> n.cursor, done |-> n.done,
               copy |-> n.copy, last |-> n.last, row |-> n.row, attempts |-> n.attempts]
      OBVIOUS
    <3> HIDE DEF n
    <3> QED  BY <1>2, <1>3, <2>1, <2>2, <2>3, <3>1 DEF CallOp, Asking, Running
  <2> HIDE DEF n
  <2>5. ASSUME NEW q \in Row \ crossed, n.row = q, index # NoIndex, n.ix = index,
               rows[q] # NoRow, n.copy[q].text = rows[q].text
        PROVE  spent[q] <= n.attempts
    BY <2>3, <2>5 DEF IInv, CapInv, Counted
  <2> QED  BY <1>1, <1>2, <1>5, <2>3, <2>4, <2>5, QuietStep DEF IInv, DataInv
<1> QED  BY <1>1, <1>4, <1>5

\* The provider answers.
LEMMA SucceedInv ==
  ASSUME IInv, NEW s \in Sweeper, Succeed(s)
  PROVE  IInv'
<1> DEFINE o == op[s]
           t == o.copy[o.row].text
           n == [pc |-> "write", ix |-> o.ix, cursor |-> o.cursor,
                 done |-> o.done, copy |-> o.copy, last |-> o.last, row |-> o.row,
                 vector |-> Embedding(o.ix, t),
                 snap |-> [row |-> rows[o.row], side |-> side[o.row], wcount |-> wcount]]
<1>1. /\ UNCHANGED <<rows, wcount, side, index, model, ripe, spent, crossed, touched, env>>
      /\ o.pc = "call" /\ op' = [op EXCEPT ![s] = n]
  BY DEF Succeed, tableVars, history
<1>2. CallOp(o) /\ Copying(s)
  BY <1>1, OpFacts DEF IInv, Copying
<1>3. /\ n.pc = "write" /\ n.ix = o.ix /\ n.cursor = o.cursor /\ n.done = o.done
      /\ n.copy = o.copy /\ n.last = o.last /\ n.row = o.row /\ n.vector = Embedding(o.ix, t)
      /\ n.snap.wcount = wcount
  OBVIOUS
<1>4. n = [pc |-> "write", ix |-> n.ix, cursor |-> n.cursor, done |-> n.done,
           copy |-> n.copy, last |-> n.last, row |-> n.row, vector |-> n.vector,
           snap |-> n.snap]
  OBVIOUS
<1> HIDE DEF n
<1>5. WriteOp(n)
  BY <1>2, <1>3, <1>4 DEF CallOp, WriteOp, Asking, Running, IInv, DataInv
<1> QED  BY <1>1, <1>2, <1>3, <1>5, QuietStep DEF IInv, DataInv

\* A sweep is given up.
LEMMA AbortInv ==
  ASSUME IInv, NEW s \in Sweeper, Abort(s)
  PROVE  IInv'
<1>1. Idle.pc = "idle"
  BY DEF Idle
<1>2. env' \in [write : Nat, call : Nat, fault : Nat, restart : Nat, create : Nat]
  BY DEF Abort, IInv, DataInv
<1> QED  BY <1>1, <1>2, QuietStep DEF Abort, tableVars, history

\* The provider fails: the attempts read before the call, and one.
LEMMA FailInv ==
  ASSUME IInv, NEW s \in Sweeper, Fail(s)
  PROVE  IInv'
<1> USE DEF IInv
<1> DEFINE o == op[s]
<1>0. CallOp(o)
  BY OpFacts DEF Fail
<1>r. PICK r \in Row : r = o.row
  BY <1>0 DEF CallOp, Asking, CopyOK
<1> DEFINE t == o.copy[r].text
           rec == [hash |-> Hash(o.ix, t), attempts |-> o.attempts + 1, due |-> FALSE]
           e == [o EXCEPT !.done = @ + 1]
           n == After(e)
           hit == o.ix = index /\ rows[r] # NoRow /\ rows[r].text = t
<1>1. /\ UNCHANGED <<rows, wcount, index, model, crossed, touched>>
      /\ o.pc = "call" /\ op' = [op EXCEPT ![s] = n]
      /\ side' = [side EXCEPT ![r] = rec]
      /\ spent' = [spent EXCEPT ![r] = IF hit THEN @ + 1 ELSE @]
  BY <1>r DEF Fail, tableVars
<1>2. CallOp(o) /\ Copying(s) /\ s \in Sweeping
  BY <1>1, OpFacts DEF Copying, Sweeping
<1>3. r \in Row /\ r \in DOMAIN o.copy /\ t \in Text /\ o.ix \in Created
        /\ o.attempts \in Nat /\ o.attempts + 1 \in 0..MaxAttempts
  BY <1>r, <1>2, SizeAssumption DEF CallOp, Asking, Running, CopyOK
<1>4. rec \in RecordType /\ rec # None /\ rec.attempts = o.attempts + 1 /\ rec.hash = Hash(o.ix, t)
  <2>1. Hash(o.ix, t) \in HashType
    BY <1>3, IndexAssumption DEF Hash, HashType
  <2>2. rec \in RecordType
    BY <1>3, <2>1 DEF RecordType
  <2> QED  BY <2>2, NoneAssumption
<1>5. /\ n = Idle \/ ScanOp(n) \/ RowsOp(n)
      /\ n.pc \in {"idle", "scan", "rows"}
      /\ n.pc # "idle" => n.ix = o.ix
      /\ n.pc = "rows" => \A q \in DOMAIN n.copy :
                            q \in DOMAIN o.copy /\ n.copy[q] = o.copy[q]
  <2>1. Running(e) /\ e.copy = o.copy /\ e.ix = o.ix /\ CopyOK(e.copy)
    BY <1>2, DoneFacts
  <2> HIDE DEF e
  <2> QED  BY <2>1, AfterFacts
<1> HIDE DEF n, e, rec
<1>6. side'[r] = rec /\ \A q \in Row \ {r} : side'[q] = side[q] /\ spent'[q] = spent[q]
  BY <1>1, <1>3 DEF DataInv
<1>7. DataInv'
  <2>1. side' \in [Row -> RecordType \cup {None}]
    BY <1>1, <1>4 DEF DataInv
  <2>2. spent' \in [Row -> Nat]
    BY <1>1, <1>3 DEF DataInv
  <2>3. ripe' \in [Sweeper -> SUBSET Row]
    BY DEF Fail, DataInv
  <2>4. env' \in [write : Nat, call : Nat, fault : Nat, restart : Nat, create : Nat]
    BY DEF Fail, DataInv
  <2> QED  BY <1>1, <2>1, <2>2, <2>3, <2>4 DEF DataInv
<1>8. OpInv'
  BY <1>1, <1>5, OpStep
<1>9. AccountInv'
  <2>1. ~Recorded(r)'
    BY <1>3, <1>4, <1>6 DEF Recorded, Record
  <2>2. \A q \in Row \ {r} : Accounted(q) => Accounted(q)'
    BY <1>1, <1>6 DEF Accounted, Recorded, Record, Embedding
  <2> QED  BY <1>1, <2>1, <2>2 DEF AccountInv, Accounted
<1>10. CapInv'
  <2>1. ASSUME NEW q \in Row \ crossed PROVE Counted(q)'
    <3>1. Counted(q)
      BY DEF CapInv
    <3>2. CASE q # r
      BY <1>1, <1>2, <1>5, <1>6, <3>1, <3>2, CountedStep
    <3>3. CASE q = r
      <4>0. Sweeping' \subseteq {s}
        <5>1. Sweeping = {s}
          BY <1>2 DEF CapInv, Sweeping
        <5> QED  BY <1>1, <5>1 DEF Sweeping, OpInv
      <4>1. op'[s] = n
        BY <1>1 DEF OpInv
      <4>2. hit => spent'[r] = spent[r] + 1
        BY <1>1, <1>3 DEF DataInv
      <4>3. ~hit => spent'[r] = spent[r]
        BY <1>1, <1>3 DEF DataInv
      <4>4. hit /\ index # NoIndex => Same(s, r) /\ spent[r] <= o.attempts
        BY <1>r, <1>1, <1>2, <1>3, <3>1, <3>3 DEF Same, Counted
      <4>5. ~hit /\ index # NoIndex => spent[r] = 0
        BY <1>2, <1>3, <3>1, <3>3 DEF Counted
      <4>6. hit => index # NoIndex
        <5>1. \A ix \in Created : ix # NoIndex
          BY IndexAssumption DEF NoIndex
        <5> QED  BY <1>3, <5>1
      <4>7. Record(r)' = rec
        BY <1>3, <1>4, <1>6 DEF Record
      <4>8. spent'[r] <= MaxAttempts /\ spent[r] \in Nat /\ spent'[r] \in Nat
        <5>1. spent[r] \in Nat /\ spent[r] <= MaxAttempts
          BY <1>3, <3>1, <3>3 DEF Counted, DataInv
        <5> QED  BY <1>3, <4>2, <4>3, <4>4, <4>6, <5>1, SizeAssumption
      <4>9. (index # NoIndex /\ rows[r] # NoRow =>
               spent[r] <= Attempts(Record(r), Hash(index, rows[r].text)))'
        <5>1. CASE hit
          BY <1>1, <1>3, <1>4, <4>2, <4>4, <4>6, <4>7, <4>8, <5>1 DEF Attempts, Hash
        <5>2. CASE ~hit /\ index # NoIndex
          BY <1>1, <1>3, <1>4, <4>3, <4>5, <4>7, <5>2 DEF Attempts
        <5> QED  BY <1>1, <5>1, <5>2
      <4>10. (\A u \in Sweeping : index # NoIndex /\ op[u].ix # index => spent[r] = 0)'
        BY <1>1, <1>5, <4>0, <4>1, <4>3, <4>5 DEF Sweeping
      <4>11. (\A u \in Sweeping : Copying(u) /\ r \in DOMAIN op[u].copy /\
               (rows[r] = NoRow \/ op[u].copy[r].text # rows[r].text) => spent[r] = 0)'
        <5> SUFFICES ASSUME NEW u \in Sweeping', Copying(u)', r \in DOMAIN op'[u].copy,
                            rows[r] = NoRow \/ op'[u].copy[r].text # rows[r].text
                     PROVE  spent'[r] = 0
          BY <1>1
        <5>1. u = s /\ n.pc = "rows" /\ r \in DOMAIN n.copy /\ n.copy[r] = o.copy[r]
          BY <1>5, <4>0, <4>1 DEF Copying
        <5>2. rows[r] = NoRow \/ o.copy[r].text # rows[r].text
          BY <4>1, <5>1
        <5>3. spent[r] = 0 /\ ~hit
          BY <1>2, <1>3, <3>1, <3>3, <5>2 DEF Counted
        <5> QED  BY <4>3, <5>3
      <4>12. \A u \in Sweeping' : op'[u].pc # "call"
        BY <1>5, <4>0, <4>1
      <4> QED  BY <3>3, <4>8, <4>9, <4>10, <4>11, <4>12 DEF Counted
    <3> QED  BY <3>2, <3>3
  <2>2. crossed' = crossed
    BY <1>1
  <2> QED  BY <1>1, <1>2, <2>1, <2>2, AloneStep DEF CapInv, Sweeping
<1> QED  BY <1>7, <1>8, <1>9, <1>10

\* write_vector ends: the record goes with its row, vector and record are written together,
\* or nothing is.
LEMMA CommitVectorInv ==
  ASSUME IInv, NEW s \in Sweeper, CommitVector(s)
  PROVE  IInv'
<1> USE DEF IInv
<1> DEFINE o == op[s]
           e == [o EXCEPT !.done = @ + 1]
<1>0. WriteOp(o) /\ Copying(s) /\ s \in Sweeping /\ o.pc = "write"
  BY OpFacts DEF CommitVector, Copying, Sweeping
<1>r. PICK r \in Row : r = o.row
  BY <1>0 DEF WriteOp, Asking, CopyOK
<1> DEFINE t == o.copy[r].text
<1>1. UNCHANGED <<index, model, ripe, crossed, env>>
  BY DEF CommitVector
<1>2. r \in DOMAIN o.copy /\ t \in Text /\ o.ix \in Created /\ Running(o) /\ CopyOK(o.copy)
        /\ o.copy[r] \in RowType /\ o.vector = Embedding(o.ix, t) /\ o.snap.wcount \in Nat
  BY <1>0, <1>r DEF WriteOp, Asking, Running, CopyOK
<1>3. PICK n : /\ op' = [op EXCEPT ![s] = n]
               /\ n = Idle \/ ScanOp(n) \/ RowsOp(n)
               /\ n.pc \in {"idle", "scan", "rows"}
               /\ n.pc # "idle" => n.ix = o.ix
               /\ n.pc = "rows" => \A q \in DOMAIN n.copy :
                                     q \in DOMAIN o.copy /\ n.copy[q] = o.copy[q]
  <2>1. op' = [op EXCEPT ![s] = After(e)] \/ op' = [op EXCEPT ![s] = After(o)]
    BY DEF CommitVector
  <2>2. Running(e) /\ e.copy = o.copy /\ e.ix = o.ix /\ CopyOK(e.copy)
    BY <1>0, DoneFacts
  <2> HIDE DEF e
  <2>3. CASE op' = [op EXCEPT ![s] = After(e)]
    <3> DEFINE n == After(e)
    <3>1. /\ n = Idle \/ ScanOp(n) \/ RowsOp(n)
          /\ n.pc \in {"idle", "scan", "rows"}
          /\ n.pc # "idle" => n.ix = o.ix
          /\ n.pc = "rows" => \A q \in DOMAIN n.copy :
                                q \in DOMAIN o.copy /\ n.copy[q] = o.copy[q]
      BY <2>2, AfterFacts
    <3> HIDE DEF n
    <3>2. op' = [op EXCEPT ![s] = n]
      BY <2>3 DEF n
    <3> QED  BY <3>1, <3>2
  <2>4. CASE op' = [op EXCEPT ![s] = After(o)]
    <3> DEFINE n == After(o)
    <3>1. /\ n = Idle \/ ScanOp(n) \/ RowsOp(n)
          /\ n.pc \in {"idle", "scan", "rows"}
          /\ n.pc # "idle" => n.ix = o.ix
          /\ n.pc = "rows" => \A q \in DOMAIN n.copy :
                                q \in DOMAIN o.copy /\ n.copy[q] = o.copy[q]
      BY <1>2, AfterFacts
    <3> HIDE DEF n
    <3>2. op' = [op EXCEPT ![s] = n]
      BY <2>4 DEF n
    <3> QED  BY <3>1, <3>2
  <2> QED  BY <2>1, <2>3, <2>4
<1>4. OpInv'
  BY <1>1, <1>3, OpStep
<1>5. (crossed # Row => \A u, w \in Sweeping : u = w)'
  BY <1>0, <1>1, <1>3, AloneStep DEF Sweeping
<1>6. CASE /\ o.snap.row = NoRow /\ Validates(o) /\ side' = [side EXCEPT ![r] = None]
           /\ UNCHANGED <<rows, wcount, spent, touched>>
  <2>1. rows[r] = NoRow
    BY <1>r, <1>6 DEF Validates
  <2>2. \A q \in Row \ {r} : side'[q] = side[q]
    BY <1>6 DEF DataInv
  <2>3. DataInv'
    BY <1>1, <1>6 DEF DataInv
  <2>4. AccountInv'
    <3>1. \A q \in Row \ {r} : Accounted(q) => Accounted(q)'
      BY <1>1, <1>6, <2>2 DEF Accounted, Recorded, Record, Embedding
    <3>2. Accounted(r)'
      BY <1>6, <2>1 DEF Accounted
    <3> QED  BY <1>1, <1>6, <3>1, <3>2 DEF AccountInv
  <2>5. ASSUME NEW q \in Row \ crossed PROVE Counted(q)'
    <3>1. Counted(q)
      BY DEF CapInv
    <3>2. CASE q # r
      BY <1>0, <1>1, <1>3, <1>6, <2>2, <3>1, <3>2, CountedStep
    <3>3. CASE q = r
      <4>1. spent[r] = 0 /\ spent'[r] = 0
        BY <1>0, <1>2, <1>6, <2>1, <3>1, <3>3 DEF Counted
      <4>2. rows'[r] = NoRow
        BY <1>6, <2>1
      <4> QED  BY <3>3, <4>1, <4>2, SizeAssumption DEF Counted, Same
    <3> QED  BY <3>2, <3>3
  <2> QED  BY <1>1, <1>4, <1>5, <2>3, <2>4, <2>5 DEF CapInv
<1>7. CASE o.snap.row # NoRow /\ AsRead(o) /\ Validates(o) /\ Store(o)
  <2> DEFINE row == [rows[r] EXCEPT !.vec[o.ix.column] = o.vector]
             rec == [hash |-> Hash(o.ix, t), attempts |-> 0, due |-> TRUE]
  <2>1. rows[r] = o.snap.row /\ rows[r] = o.copy[r] /\ rows[r] # NoRow /\ rows[r] \in RowType
    BY <1>2, <1>r, <1>7 DEF AsRead, Validates
  <2>2. /\ rows' = [rows EXCEPT ![r] = row] /\ side' = [side EXCEPT ![r] = rec]
        /\ wcount' = o.snap.wcount + 1 /\ spent' = [spent EXCEPT ![r] = 0]
        /\ touched' = IF index = NoIndex \/ index.column = o.ix.column
                      THEN touched \ {r} ELSE touched \cup {r}
    BY <1>7, <1>r, <2>1 DEF Store
  <2>3. o.ix.column \in Column /\ o.ix.model \in Model \cup {Default}
    BY <1>2, IndexAssumption
  <2>4. o.vector \in Vector
    BY <1>2, <2>3 DEF Embedding, Vector, DataInv
  <2>5. row \in RowType /\ row.text = rows[r].text /\ row.vec[o.ix.column] = o.vector
    <3>1. rows[r].vec \in [Column -> Vector] /\ rows[r].text \in Text \cup {Blank}
            /\ rows[r] = [text |-> rows[r].text, vec |-> rows[r].vec]
      BY <2>1 DEF RowType
    <3>2. row = [text |-> rows[r].text, vec |-> [rows[r].vec EXCEPT ![o.ix.column] = o.vector]]
      BY <3>1
    <3>3. [rows[r].vec EXCEPT ![o.ix.column] = o.vector] \in [Column -> Vector]
      BY <2>3, <2>4, <3>1
    <3> QED  BY <2>3, <3>1, <3>2, <3>3 DEF RowType
  <2>6. row # NoRow
    BY <2>5, NoneAssumption
  <2>7. rec \in RecordType /\ rec # None /\ rec.hash = <<o.ix.model, t>> /\ rec.attempts = 0
    <3>1. Hash(o.ix, t) \in HashType
      BY <1>2, <2>3 DEF Hash, HashType
    <3>2. rec \in RecordType
      BY <3>1, SizeAssumption DEF RecordType
    <3> QED  BY <3>2, NoneAssumption DEF Hash
  <2> HIDE DEF row, rec
  <2>8. /\ rows'[r] = row /\ side'[r] = rec /\ spent'[r] = 0
        /\ \A q \in Row \ {r} : rows'[q] = rows[q] /\ side'[q] = side[q] /\ spent'[q] = spent[q]
    BY <2>2 DEF DataInv
  <2>9. DataInv'
    <3>1. rows' \in [Row -> RowType \cup {NoRow}]
      BY <2>2, <2>5 DEF DataInv
    <3>2. side' \in [Row -> RecordType \cup {None}]
      BY <2>2, <2>7 DEF DataInv
    <3>3. spent' \in [Row -> Nat] /\ touched' \subseteq Row /\ wcount' \in Nat
      BY <1>2, <2>2 DEF DataInv
    <3> QED  BY <1>1, <3>1, <3>2, <3>3 DEF DataInv
  <2>10. AccountInv'
    <3>1. \A q \in Row \ {r} : Accounted(q) => Accounted(q)'
      BY <1>1, <2>8 DEF Accounted, Recorded, Record, Embedding
    <3>2. \A q \in Row \ {r} : q \in touched' <=> q \in touched
      BY <2>2
    <3>3. ASSUME index # NoIndex, r \notin touched' PROVE Accounted(r)'
      <4>1. index.column = o.ix.column
        BY <2>2, <3>3
      <4>2. ASSUME rec.hash[1] = index.model
            PROVE  o.vector = Embedding(index, t) /\ rec.hash[2] = t
        BY <1>2, <2>7, <4>2 DEF Embedding
      <4> QED  BY <1>1, <2>5, <2>8, <4>1, <4>2 DEF Accounted, Embedding
    <3> QED  BY <1>1, <3>1, <3>2, <3>3 DEF AccountInv
  <2>11. ASSUME NEW q \in Row \ crossed PROVE Counted(q)'
    <3>1. Counted(q)
      BY DEF CapInv
    <3>2. CASE q # r
      BY <1>0, <1>1, <1>3, <2>8, <3>1, <3>2, CountedStep
    <3>3. CASE q = r
      <4>1. Attempts(Record(r)', Hash(index, rows[r].text)') \in Nat
        BY <2>7, <2>8 DEF Attempts, Record
      <4>2. (index # NoIndex /\ rows[r] # NoRow =>
               spent[r] <= Attempts(Record(r), Hash(index, rows[r].text)))'
        BY <2>8, <4>1 DEF Attempts
      <4>3. \A u \in Sweeping' : op'[u].pc # "call"
        <5>1. Sweeping = {s}
          BY <1>0 DEF CapInv, Sweeping
        <5> QED  BY <1>3, <5>1 DEF Sweeping, OpInv
      <4> QED  BY <2>8, <3>3, <4>2, <4>3, SizeAssumption DEF Counted
    <3> QED  BY <3>2, <3>3
  <2> QED  BY <1>1, <1>4, <1>5, <2>9, <2>10, <2>11 DEF CapInv
<1>8. CASE UNCHANGED <<rows, wcount, side, spent, touched>>
  BY <1>0, <1>1, <1>3, <1>8, QuietStep DEF DataInv
<1>9. \/ /\ o.snap.row = NoRow /\ Validates(o) /\ side' = [side EXCEPT ![r] = None]
         /\ UNCHANGED <<rows, wcount, spent, touched>>
      \/ o.snap.row # NoRow /\ AsRead(o) /\ Validates(o) /\ Store(o)
      \/ UNCHANGED <<rows, wcount, side, spent, touched>>
  BY <1>r DEF CommitVector, tableVars
<1> QED  BY <1>6, <1>7, <1>8, <1>9

----------------------------------------------------------------------------
(* Users, DDL, restarts, and time *)

\* Nothing has failed on this row's text yet.
LEMMA CountedAnew ==
  ASSUME DataInv', OpInv', NEW r \in Row, spent'[r] = 0
  PROVE  Counted(r)'
<1>1. \A h : Attempts(Record(r)', h) \in Nat
  BY DEF DataInv, Record, NoRecord, RecordType, Attempts
<1>2. \A s \in Sweeper : op'[s].pc = "call" => op'[s].attempts \in Nat
  <2> TAKE s \in Sweeper
  <2>1. Idle.pc = "idle"
    BY DEF Idle
  <2> QED  BY <2>1 DEF OpInv, ScanOp, RowsOp, CallOp, WriteOp
<1>3. \A n \in Nat : 0 <= n
  OBVIOUS
<1>4. (index # NoIndex /\ rows[r] # NoRow =>
         spent[r] <= Attempts(Record(r), Hash(index, rows[r].text)))'
  BY <1>1, <1>3 DEF Attempts
<1>5. (spent[r] <= MaxAttempts)'
  BY SizeAssumption
<1>6. (\A s \in Sweeping : op[s].pc = "call" /\ op[s].row = r /\ Same(s, r) =>
         spent[r] <= op[s].attempts)'
  BY <1>2, <1>3 DEF Sweeping
<1> QED  BY <1>4, <1>5, <1>6 DEF Counted

\* A step that leaves the sweeps, the row's text and the count alone.
LEMMA CountedKept ==
  ASSUME NEW r \in Row, Counted(r), op' = op, index' = index, spent'[r] = spent[r],
         (rows'[r] = NoRow) = (rows[r] = NoRow),
         rows[r] # NoRow => rows'[r].text = rows[r].text,
         Record(r)'.hash = Record(r).hash, Record(r)'.attempts = Record(r).attempts
  PROVE  Counted(r)'
<1>1. Sweeping' = Sweeping
  BY DEF Sweeping
<1>2. \A s : (Copying(s)' <=> Copying(s)) /\ (Same(s, r)' <=> Same(s, r))
  BY DEF Copying, Same
<1>3. (spent[r] <= MaxAttempts)'
  BY DEF Counted
<1>4. (index # NoIndex /\ rows[r] # NoRow =>
         spent[r] <= Attempts(Record(r), Hash(index, rows[r].text)))'
  BY DEF Counted, Attempts, Hash
<1>5. (\A s \in Sweeping : index # NoIndex /\ op[s].ix # index => spent[r] = 0)'
  BY <1>1 DEF Counted
<1>6. (\A s \in Sweeping : Copying(s) /\ r \in DOMAIN op[s].copy /\
         (rows[r] = NoRow \/ op[s].copy[r].text # rows[r].text) => spent[r] = 0)'
  BY <1>1, <1>2 DEF Counted
<1>7. (\A s \in Sweeping : op[s].pc = "call" /\ op[s].row = r /\ Same(s, r) =>
         spent[r] <= op[s].attempts)'
  BY <1>1, <1>2 DEF Counted
<1> QED  BY <1>3, <1>4, <1>5, <1>6, <1>7 DEF Counted

\* Counting anew for some rows: a row is excepted only as long as sweeps overlap.
LEMMA AnewFacts ==
  ASSUME DataInv, CapInv, NEW R \in SUBSET Row, Anew(R), op' = op
  PROVE  /\ (crossed # Row => \A s, u \in Sweeping : s = u)'
         /\ spent' \in [Row -> Nat] /\ crossed' \subseteq Row
         /\ \A r \in Row \ crossed' : spent'[r] = 0 \/ (r \notin R /\ spent'[r] = spent[r] /\ Counted(r))
<1>1. Sweeping' = Sweeping
  BY DEF Sweeping
<1>2. spent' \in [Row -> Nat] /\ crossed' \subseteq Row
  BY DEF Anew, DataInv
<1>3. ASSUME crossed' # Row, NEW s \in Sweeping, NEW u \in Sweeping PROVE s = u
  <2>1. PICK r \in Row : r \notin crossed'
    BY <1>2, <1>3
  <2>2. CASE r \notin crossed
    BY <2>2 DEF CapInv
  <2>3. CASE r \in crossed
    <3>1. ~(Cardinality(Sweeping) > 1)
      BY <2>1, <2>3 DEF Anew
    <3>2. IsFiniteSet(Sweeping) /\ Cardinality(Sweeping) \in Nat
      BY TaskAssumption, FS_Subset, FS_CardinalityType DEF Sweeping
    <3>3. Sweeping # {}
      OBVIOUS
    <3>4. Cardinality(Sweeping) = 1
      BY <3>1, <3>2, <3>3, FS_EmptySet
    <3>5. \E x : Sweeping = {x}
      BY <3>2, <3>4, FS_Singleton
    <3> QED  BY <3>5
  <2> QED  BY <2>2, <2>3
<1>4. ASSUME NEW r \in Row \ crossed'
      PROVE  spent'[r] = 0 \/ (r \notin R /\ spent'[r] = spent[r] /\ Counted(r))
  BY <1>4 DEF Anew, CapInv
<1> QED  BY <1>1, <1>2, <1>3, <1>4

\* OpInv speaks of the sweeps and of the model only.
LEMMA SameOp ==
  ASSUME OpInv, op' = op, model' = model
  PROVE  OpInv'
BY DEF OpInv, ScanOp, RowsOp, CallOp, WriteOp, Embedding

\* A statement on one row, which counts the failures on it anew.
LEMMA RowInv ==
  ASSUME IInv, NEW r \in Row, NEW new \in RowType \cup {NoRow}, UserWrite(r, new), Anew({r}),
         touched' \subseteq Row, touched \subseteq touched',
         r \in touched' \/ new = NoRow \/ ~Recorded(r) \/ (rows[r] # NoRow /\ new.vec = rows[r].vec)
  PROVE  IInv'
<1> USE DEF IInv
<1>1. UNCHANGED <<side, index, model, op, ripe>> /\ rows' = [rows EXCEPT ![r] = new]
  BY DEF UserWrite
<1>2. /\ (crossed # Row => \A s, u \in Sweeping : s = u)'
      /\ spent' \in [Row -> Nat] /\ crossed' \subseteq Row
      /\ \A q \in Row \ crossed' : spent'[q] = 0 \/ (q \notin {r} /\ spent'[q] = spent[q] /\ Counted(q))
  BY <1>1, AnewFacts
<1>3. rows'[r] = new /\ \A q \in Row \ {r} : rows'[q] = rows[q]
  BY <1>1 DEF DataInv
<1>4. DataInv'
  <2>1. env' \in [write : Nat, call : Nat, fault : Nat, restart : Nat, create : Nat]
    BY DEF UserWrite, DataInv
  <2>2. rows' \in [Row -> RowType \cup {NoRow}] /\ wcount' \in Nat
    BY DEF UserWrite, DataInv
  <2> QED  BY <1>1, <1>2, <2>1, <2>2 DEF DataInv
<1>5. OpInv'
  BY <1>1, SameOp
<1>6. AccountInv'
  <2>1. \A q \in Row \ {r} : Accounted(q) => Accounted(q)'
    BY <1>1, <1>3 DEF Accounted, Recorded, Record, Embedding
  <2>2. Recorded(r)' <=> Recorded(r)
    BY <1>1 DEF Recorded, Record
  <2>3. ASSUME r \notin touched', index # NoIndex PROVE Accounted(r)'
    <3>1. CASE new = NoRow  BY <1>3, <3>1 DEF Accounted
    <3>2. CASE ~Recorded(r)  BY <2>2, <3>2 DEF Accounted
    <3>3. CASE rows[r] # NoRow /\ new.vec = rows[r].vec
      <4>1. Accounted(r)
        BY <2>3 DEF AccountInv
      <4> QED  BY <1>1, <1>3, <2>2, <3>3, <4>1 DEF Accounted, Embedding
    <3> QED  BY <2>3, <3>1, <3>2, <3>3
  <2> QED  BY <1>1, <2>1, <2>3 DEF AccountInv
<1>7. CapInv'
  <2>1. ASSUME NEW q \in Row \ crossed' PROVE Counted(q)'
    <3>1. CASE spent'[q] = 0
      BY <1>4, <1>5, <3>1, CountedAnew
    <3>2. CASE q \notin {r} /\ spent'[q] = spent[q] /\ Counted(q)
      <4>1. Record(q)' = Record(q)
        BY <1>1 DEF Record
      <4> QED  BY <1>1, <1>3, <3>2, <4>1, CountedKept
    <3> QED  BY <1>2, <3>1, <3>2
  <2> QED  BY <1>2, <2>1 DEF CapInv
<1> QED  BY <1>4, <1>5, <1>6, <1>7

\* A user writes or deletes a row; a record of the old text says nothing about the new one.
LEMMA UserInv ==
  ASSUME IInv, NEW r \in Row, User(r)
  PROVE  IInv'
<1> USE DEF IInv
<1>0. rows[r] # NoRow => /\ rows[r] \in RowType /\ rows[r].vec \in [Column -> Vector]
                         /\ rows[r].text \in Text \cup {Blank}
                         /\ rows[r] = [text |-> rows[r].text, vec |-> rows[r].vec]
  BY DEF DataInv, RowType
<1>1. ASSUME NEW t \in Text \cup {Blank}, Insert(r, t) PROVE IInv'
  <2> DEFINE new == [text |-> t, vec |-> [c \in Column |-> None]]
  <2>1. new \in RowType
    BY DEF RowType, Vector
  <2> HIDE DEF new
  <2>2. UserWrite(r, new) /\ Anew({r}) /\ touched' = touched \cup {q \in {r} : Recorded(q)}
    BY <1>1 DEF Insert, new
  <2>3. touched' \subseteq Row /\ touched \subseteq touched' /\ (Recorded(r) => r \in touched')
    BY <2>2 DEF DataInv
  <2> QED  BY <2>1, <2>2, <2>3, RowInv
<1>2. ASSUME NEW t \in Text \cup {Blank}, Update(r, t) PROVE IInv'
  <2> DEFINE new == [rows[r] EXCEPT !.text = t]
  <2>1. rows[r] # NoRow /\ UserWrite(r, new) /\ Anew({r}) /\ touched' = touched
    BY <1>2 DEF Update
  <2>2. new = [text |-> t, vec |-> rows[r].vec]
    BY <1>0, <2>1
  <2>3. new \in RowType /\ new.vec = rows[r].vec
    BY <1>0, <2>1, <2>2 DEF RowType
  <2> HIDE DEF new
  <2> QED  BY <2>1, <2>3, RowInv DEF DataInv
<1>3. ASSUME Delete(r) PROVE IInv'
  BY <1>3, RowInv DEF Delete, DataInv
<1>4. ASSUME NEW c \in Column, ClearVector(r, c) PROVE IInv'
  <2> DEFINE new == [rows[r] EXCEPT !.vec[c] = None]
  <2>1. /\ rows[r] # NoRow /\ UserWrite(r, new) /\ UNCHANGED <<spent, crossed>>
        /\ touched' = touched \cup {q \in {r} : Recorded(q)}
    BY <1>4 DEF ClearVector
  <2>2. new = [text |-> rows[r].text, vec |-> [rows[r].vec EXCEPT ![c] = None]]
    BY <1>0, <2>1
  <2>3. new \in RowType /\ new.text = rows[r].text
    <3>1. [rows[r].vec EXCEPT ![c] = None] \in [Column -> Vector]
      BY <1>0, <2>1 DEF Vector
    <3> QED  BY <1>0, <2>1, <2>2, <3>1 DEF RowType
  <2>4. new # NoRow
    BY <2>3, NoneAssumption
  <2> HIDE DEF new
  <2>5. /\ UNCHANGED <<side, index, model, op, ripe>>
        /\ rows'[r] = new /\ \A q \in Row \ {r} : rows'[q] = rows[q]
    BY <2>1 DEF UserWrite, DataInv
  <2>6. DataInv'
    <3>1. env' \in [write : Nat, call : Nat, fault : Nat, restart : Nat, create : Nat]
      BY <2>1 DEF UserWrite, DataInv
    <3>2. rows' \in [Row -> RowType \cup {NoRow}] /\ wcount' \in Nat
      BY <2>1, <2>3 DEF UserWrite, DataInv
    <3>3. touched' \subseteq Row
      BY <2>1 DEF DataInv
    <3> QED  BY <2>1, <2>5, <3>1, <3>2, <3>3 DEF DataInv
  <2>7. OpInv'
    BY <2>5, SameOp
  <2>8. AccountInv'
    <3>1. \A q \in Row \ {r} : Accounted(q) => Accounted(q)'
      BY <2>5 DEF Accounted, Recorded, Record, Embedding
    <3>2. Recorded(r)' => r \in touched'
      BY <2>1, <2>5 DEF Recorded, Record
    <3> QED  BY <2>1, <2>5, <3>1, <3>2 DEF AccountInv, Accounted
  <2>9. CapInv'
    <3>1. ASSUME NEW q \in Row \ crossed PROVE Counted(q)'
      <4>1. Counted(q) /\ Record(q)' = Record(q) /\ spent'[q] = spent[q]
        BY <2>1, <2>5 DEF CapInv, Record
      <4>2. (rows'[q] = NoRow) = (rows[q] = NoRow) /\ (rows[q] # NoRow => rows'[q].text = rows[q].text)
        BY <2>1, <2>3, <2>4, <2>5
      <4> QED  BY <2>5, <4>1, <4>2, CountedKept
    <3>2. Sweeping' = Sweeping
      BY <2>5 DEF Sweeping
    <3> QED  BY <2>1, <3>1, <3>2 DEF CapInv
  <2> QED  BY <2>6, <2>7, <2>8, <2>9
<1> QED  BY <1>1, <1>2, <1>3, <1>4 DEF User

\* A backoff has passed.
LEMMA ElapseInv ==
  ASSUME IInv, NEW r \in Row, Elapse(r)
  PROVE  IInv'
<1> USE DEF IInv
<1> DEFINE rec == [side[r] EXCEPT !.due = TRUE]
<1>1. side' = [side EXCEPT ![r] = rec]
        /\ UNCHANGED <<rows, wcount, index, model, op, ripe, spent, crossed, touched, env>>
  BY DEF Elapse, tableVars, history
<1>2. side[r] # None /\ side[r] \in RecordType
  BY DEF Elapse, Record, NoRecord, DataInv
<1>3. rec \in RecordType /\ rec.hash = side[r].hash /\ rec.attempts = side[r].attempts
  BY <1>2 DEF RecordType
<1> HIDE DEF rec
<1>4. rec # None
  BY <1>3, NoneAssumption
<1>5. side'[r] = rec /\ \A q \in Row \ {r} : side'[q] = side[q]
  BY <1>1 DEF DataInv
<1>6. DataInv'
  BY <1>1, <1>3 DEF DataInv
<1>7. OpInv'
  BY <1>1, SameOp
<1>8. ASSUME NEW q \in Row
      PROVE  /\ Record(q)'.hash = Record(q).hash /\ Record(q)'.attempts = Record(q).attempts
             /\ (side'[q] = None) = (side[q] = None)
             /\ side[q] # None => side'[q].hash = side[q].hash
  BY <1>2, <1>3, <1>4, <1>5 DEF Record
<1>9. AccountInv'
  <2>1. \A q \in Row : Accounted(q) => Accounted(q)'
    BY <1>1, <1>8 DEF Accounted, Recorded, Embedding
  <2> QED  BY <1>1, <2>1 DEF AccountInv
<1>10. CapInv'
  <2>1. ASSUME NEW q \in Row \ crossed PROVE Counted(q)'
    BY <1>1, <1>8, CountedKept DEF CapInv
  <2>2. Sweeping' = Sweeping
    BY <1>1 DEF Sweeping
  <2> QED  BY <1>1, <2>1, <2>2 DEF CapInv
<1> QED  BY <1>6, <1>7, <1>9, <1>10

\* A new index has a name of its own: no record and no running sweep is of it.
LEMMA CreateIndexInv ==
  ASSUME IInv, NEW ix \in Created, CreateIndex(ix)
  PROVE  IInv'
<1> USE DEF IInv
<1>1. index' = ix /\ UNCHANGED <<rows, wcount, side, model, op, ripe>>
        /\ touched' = touched \cup {r \in Row : Recorded(r) /\ ~Accounts(r, ix.column)}
  BY DEF CreateIndex, tableVars
<1>2. /\ (crossed # Row => \A s, u \in Sweeping : s = u)'
      /\ spent' \in [Row -> Nat] /\ crossed' \subseteq Row
      /\ \A q \in Row \ crossed' : spent'[q] = 0
  <2>1. Anew(Row)
    BY DEF CreateIndex
  <2> QED  BY <1>1, <2>1, AnewFacts
<1>3. DataInv'
  <2>1. env' \in [write : Nat, call : Nat, fault : Nat, restart : Nat, create : Nat]
    BY DEF CreateIndex, DataInv
  <2>2. touched' \subseteq Row
    BY <1>1 DEF DataInv
  <2> QED  BY <1>1, <1>2, <2>1, <2>2 DEF DataInv
<1>4. OpInv'
  BY <1>1, SameOp
<1>5. AccountInv'
  <2> SUFFICES ASSUME NEW r \in Row \ touched' PROVE Accounted(r)'
    BY DEF AccountInv
  <2>1. Recorded(r) => Accounts(r, ix.column)
    BY <1>1
  <2>2. Recorded(r)' <=> Recorded(r)
    BY <1>1 DEF Recorded, Record
  <2> QED  BY <1>1, <2>1, <2>2 DEF Accounted, Accounts, Embedding
<1>6. CapInv'
  BY <1>2, <1>3, <1>4, CountedAnew DEF CapInv
<1> QED  BY <1>3, <1>4, <1>5, <1>6

\* Without an index there is nothing to account for; sweeps under way go on with the old one.
LEMMA DropIndexInv ==
  ASSUME IInv, DropIndex
  PROVE  IInv'
<1> USE DEF IInv
<1>1. index' = NoIndex
        /\ UNCHANGED <<rows, wcount, side, model, op, ripe, spent, crossed, touched, env>>
  BY DEF DropIndex, tableVars, history
<1>2. DataInv' /\ AccountInv'
  BY <1>1 DEF DataInv, AccountInv
<1>3. OpInv'
  BY <1>1, SameOp
<1>4. Sweeping' = Sweeping /\ \A s : Copying(s)' <=> Copying(s)
  BY <1>1 DEF Sweeping, Copying
<1>5. ASSUME NEW r \in Row \ crossed PROVE Counted(r)'
  <2>1. Counted(r)
    BY DEF CapInv
  <2> QED  BY <1>1, <1>4, <2>1 DEF Counted, Same
<1>6. CapInv'
  BY <1>1, <1>4, <1>5 DEF CapInv
<1> QED  BY <1>2, <1>3, <1>6

\* Every sweep ends with the process; records of a default model that changed are excepted.
LEMMA RestartInv ==
  ASSUME IInv, NEW m \in Model, Restart(m)
  PROVE  IInv'
<1> USE DEF IInv
<1>1. /\ UNCHANGED <<rows, wcount, side, index, ripe, spent, crossed>> /\ model' = m
      /\ op' = [s \in Sweeper |-> Idle]
      /\ touched' = IF m = model \/ index.model # Default THEN touched ELSE Row
  BY DEF Restart, tableVars
<1>2. DataInv'
  <2>1. env' \in [write : Nat, call : Nat, fault : Nat, restart : Nat, create : Nat]
    BY DEF Restart, DataInv
  <2> QED  BY <1>1, <2>1 DEF DataInv
<1>3. OpInv' /\ Sweeping' = {}
  BY <1>1 DEF OpInv, Sweeping, Idle
<1>4. AccountInv'
  <2>1. CASE touched' = Row  BY <2>1 DEF AccountInv
  <2>2. CASE (m = model \/ index.model # Default) /\ touched' = touched
    <3>1. \A x : Embedding(index, x)' = Embedding(index, x)
      BY <1>1, <2>2 DEF Embedding
    <3>2. \A r \in Row : Accounted(r) => Accounted(r)'
      BY <1>1, <3>1 DEF Accounted, Recorded, Record
    <3> QED  BY <1>1, <2>2, <3>2 DEF AccountInv
  <2> QED  BY <1>1, <2>1, <2>2
<1>5. CapInv'
  <2>1. ASSUME NEW r \in Row \ crossed PROVE Counted(r)'
    <3>1. Counted(r) /\ Record(r)' = Record(r)
      BY <1>1 DEF CapInv, Record
    <3> QED  BY <1>1, <1>3, <3>1 DEF Counted, Attempts, Hash
  <2> QED  BY <1>1, <1>3, <2>1 DEF CapInv
<1> QED  BY <1>2, <1>3, <1>4, <1>5

\* The invariant holds at the start.
LEMMA InitInv == Init => IInv
<1> SUFFICES ASSUME Init PROVE IInv
  OBVIOUS
<1>1. DataInv
  BY InitialAssumption, WorkloadAssumption DEF Init, DataInv
<1>2. OpInv /\ Sweeping = {}
  BY DEF Init, OpInv, Sweeping, Idle
<1>3. AccountInv
  BY DEF Init, AccountInv, Accounted, Recorded
<1>4. ASSUME NEW r \in Row PROVE Counted(r)
  <2>1. spent[r] = 0 /\ Record(r) = NoRecord
    BY DEF Init, Record
  <2> QED  BY <1>2, <2>1, SizeAssumption DEF Counted, Attempts, NoRecord
<1>5. CapInv
  BY <1>2, <1>4 DEF CapInv
<1> QED  BY <1>1, <1>2, <1>3, <1>5 DEF IInv

\* A stuttering step keeps the invariant.
LEMMA StutterInv ==
  ASSUME IInv, UNCHANGED vars
  PROVE  IInv'
<1> USE DEF IInv, vars
<1>1. DataInv' /\ OpInv'
  BY SameOp DEF DataInv
<1>2. AccountInv'
  BY DEF AccountInv, Accounted, Recorded, Record, Embedding
<1>3. Sweeping' = Sweeping /\ \A r : Record(r)' = Record(r)
  BY DEF Sweeping, Record
<1>4. CapInv'
  BY <1>3, CountedKept DEF CapInv
<1> QED  BY <1>1, <1>2, <1>4

\* Every step keeps the invariant.
LEMMA NextInv == IInv /\ [Next]_vars => IInv'
<1> SUFFICES ASSUME IInv, [Next]_vars PROVE IInv'
  OBVIOUS
<1>1. ASSUME NEW s \in Sweeper, Start(s) \/ Sweep(s) \/ Abort(s) PROVE IInv'
  BY <1>1, StartInv, ScanInv, VisitInv, FailInv, SucceedInv, CommitVectorInv, AbortInv DEF Sweep
<1>2. ASSUME NEW r \in Row, User(r) \/ Elapse(r) PROVE IInv'
  BY <1>2, UserInv, ElapseInv
<1> QED  BY <1>1, <1>2, CreateIndexInv, DropIndexInv, RestartInv, StutterInv DEF Next

\* The invariant holds always.
LEMMA InvHolds == Spec => []IInv
BY InitInv, NextInv, PTL DEF Spec

----------------------------------------------------------------------------
(* The theorems *)

\* No record counts more failures than MAX_ATTEMPTS, and no sweep asks the provider more
\* often than its budget allows, however sweeps overlap.
THEOREM TypeCorrect == Spec => []TypeOK
<1>1. ASSUME IInv PROVE TypeOK
  <2>1. ASSUME NEW s \in Sweeper
        PROVE  /\ op[s].pc \in {"idle", "scan", "rows", "call", "write"}
               /\ op[s].pc # "idle" => op[s].ix \in Created /\ op[s].done \in 0..Budget
               /\ op[s].pc \in {"rows", "call", "write"} =>
                    DOMAIN op[s].copy # {} /\ \A r \in DOMAIN op[s].copy : op[s].copy[r] \in RowType
    BY <1>1, OpFacts DEF IInv, Running, Copying, CopyOK
  <2> QED  BY <1>1, <2>1 DEF IInv, DataInv, TypeOK
<1> QED  BY <1>1, InvHolds, PTL

\* A row that its record calls up to date has the vector of its present text, whatever was
\* written while the provider was asked and however many sweeps ran at once.
THEOREM UpToDateRowsRight == Spec => []UpToDateIsRight
<1>1. ASSUME IInv PROVE UpToDateIsRight
  <2> SUFFICES ASSUME NEW r \in Row \ touched, index # NoIndex, rows[r] # NoRow,
                      UpToDate(Record(r), Hash(index, rows[r].text)), rows[r].text # Blank
               PROVE  InStep(r)
    BY DEF UpToDateIsRight
  <2>1. side[r] # None
    <3>1. rows[r].text \in Text
      BY <1>1 DEF IInv, DataInv, RowType
    <3>2. Hash(index, rows[r].text) \in HashType
      BY <1>1, <3>1, IndexAssumption DEF Hash, HashType, IInv, DataInv
    <3> QED  BY <3>2, NoneAssumption DEF Record, NoRecord, UpToDate
  <2>2. Recorded(r) /\ side[r].hash = <<index.model, rows[r].text>>
    BY <2>1 DEF Recorded, Record, UpToDate, Hash
  <2>3. Accounted(r)
    BY <1>1 DEF IInv, AccountInv
  <2> QED  BY <2>2, <2>3 DEF Accounted, InStep
<1> QED  BY <1>1, InvHolds, PTL

\* As long as sweeps do not overlap, the provider refuses a row's text no more than
\* MAX_ATTEMPTS times.
THEOREM FailuresCapped == Spec => []CapHolds
<1>1. IInv => CapHolds
  BY DEF IInv, CapInv, Counted, CapHolds
<1> QED  BY <1>1, InvHolds, PTL

\* A sweep never overwrites a concurrent UPDATE, revives a deleted row or removes one: only
\* users change texts.
THEOREM OnlyUsersChangeText == Spec => TextIsUsers
<1> DEFINE Kept == \A r \in Row : /\ (rows'[r] = NoRow) = (rows[r] = NoRow)
                                  /\ rows[r] # NoRow => rows'[r].text = rows[r].text
<1>1. ASSUME IInv, [Next]_vars, env'.write = env.write PROVE Kept
  <2>1. CASE rows' = rows
    BY <2>1
  <2>2. ASSUME NEW r \in Row, NEW new, UserWrite(r, new) PROVE FALSE
    BY <1>1, <2>2 DEF UserWrite, IInv, DataInv
  <2>3. ASSUME NEW s \in Sweeper, CommitVector(s) PROVE Kept
    <3> DEFINE o == op[s]
    <3>0. WriteOp(o) /\ o.row \in Row /\ o.ix \in Created
      BY <1>1, <2>3, OpFacts DEF CommitVector, IInv, WriteOp, Asking, CopyOK, Running
    <3>1. CASE AsRead(o) /\ Validates(o) /\ Store(o) /\ o.snap.row # NoRow
      <4>1. rows[o.row] = o.snap.row /\ rows[o.row] \in RowType /\ rows[o.row] # NoRow
        BY <1>1, <3>0, <3>1 DEF Validates, IInv, DataInv
      <4> DEFINE row == [o.snap.row EXCEPT !.vec[o.ix.column] = o.vector]
      <4>2. rows' = [rows EXCEPT ![o.row] = row]
        BY <3>1 DEF Store
      <4>3. row = [text |-> rows[o.row].text,
                   vec |-> [rows[o.row].vec EXCEPT ![o.ix.column] = o.vector]]
        BY <4>1 DEF RowType
      <4>4. row.text = rows[o.row].text
        BY <4>3
      <4>5. row # NoRow
        <5>1. o.vector \in Vector
          BY <1>1, <3>0, IndexAssumption
             DEF WriteOp, Asking, Embedding, Vector, IInv, DataInv
        <5>2. [rows[o.row].vec EXCEPT ![o.ix.column] = o.vector] \in [Column -> Vector]
          BY <4>1, <5>1 DEF RowType
        <5>3. row \in RowType
          BY <4>1, <4>3, <5>2 DEF RowType
        <5> QED  BY <5>3, NoneAssumption
      <4> HIDE DEF row
      <4> QED  BY <1>1, <3>0, <4>1, <4>2, <4>4, <4>5 DEF IInv, DataInv
    <3>2. CASE rows' = rows
      BY <3>2
    <3> QED  BY <2>3, <3>1, <3>2 DEF CommitVector, tableVars
  <2>4. ASSUME NEW s \in Sweeper, Start(s) \/ Sweep(s) \/ Abort(s) PROVE Kept
    BY <2>1, <2>3, <2>4 DEF Start, Sweep, Scan, Visit, Fail, Succeed, Abort, tableVars
  <2>5. ASSUME NEW r \in Row, User(r) PROVE FALSE
    BY <2>2, <2>5 DEF User, Insert, Update, Delete, ClearVector
  <2> HIDE DEF Kept
  <2> QED  BY <1>1, <2>1, <2>4, <2>5
           DEF Next, Elapse, CreateIndex, DropIndex, Restart, tableVars, vars
<1>2. IInv /\ [Next]_vars => [env'.write = env.write => Kept]_vars
  BY <1>1
<1> QED  BY <1>2, InvHolds, PTL DEF Spec, TextIsUsers

=============================================================================
