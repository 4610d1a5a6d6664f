--------------------------- MODULE EmbeddingSweep ---------------------------
(***************************************************************************)
(* An embedding index (crates/elyra-engine/src/embedix.rs): a vector       *)
(* column that a background task keeps in step with a text column.  No     *)
(* statement hooks into it.  A sweep reads the table in batches and, for   *)
(* every row, a sidecar record that says which (model, text) its vector    *)
(* comes from and how often the provider has failed; it calls the provider *)
(* for rows that differ and writes the answer in a serializable            *)
(* transaction, if the row is still as it was read.  The server's task and *)
(* callers of sweep_embeddings may sweep at the same time, users write,    *)
(* and the index may be dropped and created again in between.              *)
(*                                                                         *)
(* A hash is the pair it is made of.  The provider is external: it embeds  *)
(* a text or fails, and always fails on a text in Rejected.                *)
(***************************************************************************)
EXTENDS Integers, FiniteSets, FiniteSetsExt

CONSTANTS
  Sweeper,
  Task,          \* the one of them that spawn_embedding_sweeper started
  Row,           \* row keys, in the order of the scan
  Text, Blank,   \* texts to embed; NULL or blank
  Rejected,      \* texts the provider refuses
  Model, Default,
  Column,        \* vector columns an index may fill
  NoRow, None,
  Initial,       \* rows, index and default model at the start
  Created,       \* the indexes users create
  Batch,         \* the 256 rows of a scan
  Budget,        \* SWEEP_BUDGET
  MaxAttempts,   \* MAX_ATTEMPTS
  Workload       \* bounds on user writes, calls of sweep_embeddings, faults,
                 \* restarts and new indexes

ASSUME TaskAssumption == Task \in Sweeper /\ IsFiniteSet(Sweeper)
ASSUME RowAssumption == Row \subseteq Nat \ {0} /\ IsFiniteSet(Row)
ASSUME TextAssumption == Blank \notin Text /\ Rejected \subseteq Text
ASSUME SizeAssumption == {Batch, Budget, MaxAttempts} \subseteq Nat \ {0}
ASSUME IndexAssumption == Created \subseteq [model : Model \cup {Default}, column : Column]
ASSUME WorkloadAssumption ==
  Workload \subseteq [write : Nat, call : Nat, fault : Nat, restart : Nat, create : Nat]

VARIABLES
  rows,      \* the table: text and vectors
  side,      \* embedh:: records of the index's name
  index,     \* its embedix:: record
  model,     \* ELYRASQL_AI_EMBED_MODEL
  wcount,    \* the table's write counter
  op,        \* where a sweep is
  ripe,      \* rows whose next_attempt_ms is not after the `now` of a sweep
  spent,     \* history: failures on a row's text since the row, or the index, changed
  crossed,   \* history: rows, if two sweeps were under way at once since then
  touched,   \* history: rows whose vector is not, or may not be, the one its record is for
  env        \* what the workload has left

vars == <<rows, side, index, model, wcount, op, ripe, spent, crossed, touched, env>>
tableVars == <<rows, wcount>>
history == <<spent, crossed, touched>>

NoIndex == [model |-> None]
Idle == [pc |-> "idle"]
Vector == [model : Model, text : Text] \cup {None}
RowType == [text : Text \cup {Blank}, vec : [Column -> Vector]]
HashType == (Model \cup {Default}) \X Text
RecordType == [hash : HashType, attempts : 0..MaxAttempts, due : BOOLEAN]

\* No row, no record and no hash are none of the others.
ASSUME NoneAssumption == NoRow \notin RowType /\ None \notin RecordType \cup HashType
ASSUME InitialAssumption ==
  /\ Initial.rows \in [Row -> RowType \cup {NoRow}]
  /\ Initial.index \in Created \cup {NoIndex} /\ Initial.model \in Model

FirstOf(S, n) == {r \in S : Cardinality({q \in S : q < r}) < n}

----------------------------------------------------------------------------
(* What a sweep decides by *)

\* Mutant: the model is not part of it.
Hash_TextOnly(ix, t) == <<Default, t>>

\* content_hash, of the model the index names: nothing if it names none.
Hash(ix, t) == <<ix.model, t>>

\* embed_with: the model used is the server's if the index names none.
Embedding(ix, t) == [model |-> IF ix.model = Default THEN model ELSE ix.model, text |-> t]

NoRecord == [hash |-> None, attempts |-> 0, due |-> TRUE]
Record(r) == IF side[r] = None THEN NoRecord ELSE side[r]
UpToDate(rec, h) == rec.hash = h /\ rec.attempts = 0

\* Mutant: every attempt is taken for the first.
Attempts_First(rec, h) == 0

\* A changed text starts again.
Attempts(rec, h) == IF rec.hash = h THEN rec.attempts ELSE 0

DeadLettered(rec, h) == rec.hash = h /\ rec.attempts >= MaxAttempts
Waiting(s, r, h) == Record(r).hash = h /\ r \notin ripe[s]

Exhausted(s) == op[s].done >= Budget

\* The tests a row passes before the provider is called.
Wanted(s, r) ==
  LET t == op[s].copy[r].text
      h == Hash(op[s].ix, t)
  IN  /\ t # Blank
      /\ ~UpToDate(Record(r), h)
      /\ ~DeadLettered(Record(r), h)
      /\ ~Waiting(s, r, h)
      /\ ~Exhausted(s)

----------------------------------------------------------------------------
(* sweep_index *)

Sweeping == {s \in Sweeper : op[s].pc # "idle"}

Start(s) ==
  /\ op[s].pc = "idle" /\ index # NoIndex
  /\ \/ s = Task /\ UNCHANGED env
     \/ s # Task /\ env.call > 0 /\ env' = [env EXCEPT !.call = @ - 1]
  /\ op' = [op EXCEPT ![s] = [pc |-> "scan", ix |-> index, cursor |-> 0, done |-> 0]]
  /\ ripe' = [ripe EXCEPT ![s] = {r \in Row : Record(r).due}]
  /\ crossed' = IF Sweeping = {} THEN crossed ELSE Row
  /\ UNCHANGED <<tableVars, side, index, model, spent, touched>>

\* Mutant: a full batch is taken for the last, too.
LastBatch_Full(batch) == Cardinality(batch) <= Batch

LastBatch(batch) == Cardinality(batch) < Batch

\* One batch; the sweep ends when there is none.
Scan(s) ==
  /\ op[s].pc = "scan"
  /\ LET batch == FirstOf({r \in Row : r > op[s].cursor /\ rows[r] # NoRow}, Batch)
     IN  op' = [op EXCEPT ![s] =
           IF batch = {} THEN Idle
           ELSE [pc |-> "rows", ix |-> @.ix, cursor |-> Max(batch), done |-> @.done,
                 copy |-> [r \in batch |-> rows[r]], last |-> LastBatch(batch)]]
  /\ UNCHANGED <<tableVars, side, index, model, ripe, history, env>>

\* The batch without its first row, and what follows when that was the last.
After(o) ==
  LET left == DOMAIN o.copy \ {Min(DOMAIN o.copy)}
  IN  IF left # {} THEN [pc |-> "rows", ix |-> o.ix, cursor |-> o.cursor, done |-> o.done,
                         copy |-> [r \in left |-> o.copy[r]], last |-> o.last]
      ELSE IF o.last THEN Idle
      ELSE [pc |-> "scan", ix |-> o.ix, cursor |-> o.cursor, done |-> o.done]

\* The row's record is read, and the row passed over or sent to the provider.
Visit(s) ==
  LET o == op[s]
      r == Min(DOMAIN o.copy)
      attempts == Attempts(Record(r), Hash(o.ix, o.copy[r].text))
  IN  /\ o.pc = "rows"
      /\ \/ /\ Wanted(s, r)
            /\ op' = [op EXCEPT ![s] = [pc |-> "call", ix |-> o.ix, cursor |-> o.cursor,
                        done |-> o.done, copy |-> o.copy, last |-> o.last,
                        row |-> r, attempts |-> attempts]]
         \/ /\ ~Wanted(s, r)
            /\ op' = [op EXCEPT ![s] = After(o)]
      /\ UNCHANGED <<tableVars, side, index, model, ripe, history, env>>

\* The provider fails, or returns another dimension: record_failure, with the attempts
\* read before the call.  The new next_attempt_ms is after the `now` of every sweep.
Fail(s) ==
  LET o == op[s]
      r == o.row
      t == o.copy[r].text
  IN  /\ o.pc = "call"
      /\ \/ t \in Rejected /\ UNCHANGED env
         \/ t \notin Rejected /\ env.fault > 0 /\ env' = [env EXCEPT !.fault = @ - 1]
      /\ side' = [side EXCEPT ![r] = 
                   [hash |-> Hash(o.ix, t), attempts |-> o.attempts + 1, due |-> FALSE]]
      /\ ripe' = [q \in Sweeper |-> ripe[q] \ {r}]
      /\ op' = [op EXCEPT ![s] = After([o EXCEPT !.done = @ + 1])]
      /\ spent' = [spent EXCEPT ![r] =
           IF o.ix = index /\ rows[r] # NoRow /\ rows[r].text = t THEN @ + 1 ELSE @]
      /\ UNCHANGED <<tableVars, index, model, crossed, touched>>

\* The provider answers: write_vector begins its transaction and reads the row and the
\* write counter.
Succeed(s) ==
  LET o == op[s]
      t == o.copy[o.row].text
  IN  /\ o.pc = "call" /\ t \notin Rejected
      /\ op' = [op EXCEPT ![s] = [pc |-> "write", ix |-> o.ix, cursor |-> o.cursor,
                  done |-> o.done, copy |-> o.copy, last |-> o.last, row |-> o.row,
                  vector |-> Embedding(o.ix, t),
                  snap |-> [row |-> rows[o.row], side |-> side[o.row], wcount |-> wcount]]]
      /\ UNCHANGED <<tableVars, side, index, model, ripe, history, env>>

\* The row is byte for byte what was sent to the provider.
AsRead(o) == o.snap.row = o.copy[o.row]

\* Mutant: only what the transaction writes first, the record, is validated.
Validates_Record(o) == side[o.row] = o.snap.side

\* What the commit validates: the row and its record, read or written.  Keys under
\* meta::, and so the write counter, are not validated.
Validates(o) == rows[o.row] = o.snap.row /\ side[o.row] = o.snap.side

\* Vector, record and counter, together.
Store(o) ==
  /\ rows' = [rows EXCEPT ![o.row] = [o.snap.row EXCEPT !.vec[o.ix.column] = o.vector]]
  /\ side' = [side EXCEPT ![o.row] =
                [hash |-> Hash(o.ix, o.copy[o.row].text), attempts |-> 0, due |-> TRUE]]
  /\ wcount' = o.snap.wcount + 1
  /\ spent' = [spent EXCEPT ![o.row] = 0]
  /\ touched' = IF index = NoIndex \/ index.column = o.ix.column
                THEN touched \ {o.row} ELSE touched \cup {o.row}

\* The rest of write_vector: a row that is gone takes its record along, one that changed
\* is left for the next sweep, as is one that changes before the commit.
CommitVector(s) ==
  LET o == op[s]
  IN  /\ o.pc = "write"
      /\ \/ /\ o.snap.row = NoRow /\ Validates(o)
            /\ side' = [side EXCEPT ![o.row] = None]
            /\ op' = [op EXCEPT ![s] = After([o EXCEPT !.done = @ + 1])]
            /\ UNCHANGED <<tableVars, spent, touched>>
         \/ /\ o.snap.row # NoRow /\ AsRead(o) /\ Validates(o)
            /\ Store(o)
            /\ op' = [op EXCEPT ![s] = After([o EXCEPT !.done = @ + 1])]
         \/ /\ ~Validates(o) \/ (o.snap.row # NoRow /\ ~AsRead(o))
            /\ op' = [op EXCEPT ![s] = After(o)]
            /\ UNCHANGED <<tableVars, side, spent, touched>>
      /\ UNCHANGED <<index, model, ripe, crossed, env>>

\* A storage call of the sweep fails, and sweep_all goes on without the index.
Abort(s) ==
  /\ op[s].pc # "idle" /\ env.fault > 0
  /\ op' = [op EXCEPT ![s] = Idle]
  /\ env' = [env EXCEPT !.fault = @ - 1]
  /\ UNCHANGED <<tableVars, side, index, model, ripe, history>>

\* Time: the backoff of a row has passed.
Elapse(r) ==
  /\ ~Record(r).due
  /\ side' = [side EXCEPT ![r].due = TRUE]
  /\ UNCHANGED <<tableVars, index, model, op, ripe, history, env>>
----------------------------------------------------------------------------
(* Users, DDL and restarts *)

\* A committed statement on one row.  It knows nothing of the index or its records.
UserWrite(r, new) ==
  /\ env.write > 0 /\ env' = [env EXCEPT !.write = @ - 1]
  /\ rows' = [rows EXCEPT ![r] = new]
  /\ wcount' = wcount + 1
  /\ UNCHANGED <<side, index, model, op, ripe>>

\* There is a record of a vector written.
Recorded(r) == side[r] # None /\ Record(r).attempts = 0

\* The failures of these rows are counted anew.
Anew(R) ==
  /\ spent' = [r \in Row |-> IF r \in R THEN 0 ELSE spent[r]]
  /\ crossed' = {r \in crossed : r \in R => Cardinality(Sweeping) > 1}

\* A row comes, perhaps where there was one before.
Insert(r, t) ==
  /\ rows[r] = NoRow
  /\ UserWrite(r, [text |-> t, vec |-> [c \in Column |-> None]])
  /\ Anew({r}) /\ touched' = touched \cup {q \in {r} : Recorded(q)}

Update(r, t) ==
  /\ rows[r] # NoRow /\ rows[r].text # t
  /\ UserWrite(r, [rows[r] EXCEPT !.text = t])
  /\ Anew({r}) /\ UNCHANGED touched

Delete(r) ==
  /\ rows[r] # NoRow
  /\ UserWrite(r, NoRow)
  /\ Anew({r}) /\ UNCHANGED touched

\* UPDATE ... SET <vector column> = NULL
ClearVector(r, c) ==
  /\ rows[r] # NoRow /\ rows[r].vec[c] # None
  /\ UserWrite(r, [rows[r] EXCEPT !.vec[c] = None])
  /\ touched' = touched \cup {q \in {r} : Recorded(q)}
  /\ UNCHANGED <<spent, crossed>>

\* A row's record is of the vector in this column.
Accounts(r, c) ==
  /\ rows[r] # NoRow
  /\ rows[r].vec[c] = Embedding([model |-> side[r].hash[1]], side[r].hash[2])

\* CREATE EMBEDDING INDEX, under the same name.  Records of an index that was dropped
\* are still there.
CreateIndex(ix) ==
  /\ index = NoIndex /\ env.create > 0
  /\ env' = [env EXCEPT !.create = @ - 1]
  /\ index' = ix
  /\ Anew(Row)
  /\ touched' = touched \cup {r \in Row : Recorded(r) /\ ~Accounts(r, ix.column)}
  /\ UNCHANGED <<tableVars, side, model, op, ripe>>

DropIndex ==
  /\ index # NoIndex /\ env.create > 0
  /\ index' = NoIndex
  /\ UNCHANGED <<tableVars, side, model, op, ripe, history, env>>

\* The process dies and starts again, perhaps with another default model.
Restart(m) ==
  /\ env.restart > 0 /\ env' = [env EXCEPT !.restart = @ - 1]
  /\ model' = m
  /\ op' = [s \in Sweeper |-> Idle]
  /\ touched' = IF m = model \/ index.model # Default THEN touched ELSE Row
  /\ UNCHANGED <<tableVars, side, index, ripe, spent, crossed>>
----------------------------------------------------------------------------
Init ==
  /\ rows = Initial.rows
  /\ side = [r \in Row |-> None]
  /\ index = Initial.index
  /\ model = Initial.model
  /\ wcount = 0
  /\ op = [s \in Sweeper |-> Idle]
  /\ ripe = [s \in Sweeper |-> {}]
  /\ spent = [r \in Row |-> 0]
  /\ crossed = {} /\ touched = {}
  /\ env \in Workload

Sweep(s) == Scan(s) \/ Visit(s) \/ Fail(s) \/ Succeed(s) \/ CommitVector(s)
User(r) ==
  \/ \E t \in Text \cup {Blank} : Insert(r, t) \/ Update(r, t)
  \/ Delete(r)
  \/ \E c \in Column : ClearVector(r, c)

Next ==
  \/ \E s \in Sweeper : Start(s) \/ Sweep(s) \/ Abort(s)
  \/ \E r \in Row : User(r) \/ Elapse(r)
  \/ \E ix \in Created : CreateIndex(ix)
  \/ DropIndex
  \/ \E m \in Model : Restart(m)

Spec == Init /\ [][Next]_vars

\* The server's task starts a sweep at every interval, a request to the provider ends by
\* its timeout, and time passes.  Nobody has to call sweep_embeddings.
FairSpec ==
  /\ Spec
  /\ WF_vars(Start(Task))
  /\ \A s \in Sweeper : WF_vars(Sweep(s))
  /\ \A r \in Row : WF_vars(Elapse(r))
----------------------------------------------------------------------------
(* Properties *)

\* The types, and two limits: a record never counts more than MAX_ATTEMPTS failures, and
\* no sweep embeds or fails more rows than its budget.
TypeOK ==
  /\ rows \in [Row -> RowType \cup {NoRow}]
  /\ side \in [Row -> RecordType \cup {None}]
  /\ index \in Created \cup {NoIndex} /\ model \in Model /\ wcount \in Nat
  /\ \A s \in Sweeper :
       /\ op[s].pc \in {"idle", "scan", "rows", "call", "write"}
       /\ op[s].pc # "idle" => op[s].ix \in Created /\ op[s].done \in 0..Budget
       /\ op[s].pc \in {"rows", "call", "write"} =>
            DOMAIN op[s].copy # {} /\ \A r \in DOMAIN op[s].copy : op[s].copy[r] \in RowType
  /\ ripe \in [Sweeper -> SUBSET Row]
  /\ spent \in [Row -> Nat] /\ crossed \subseteq Row /\ touched \subseteq Row

InStep(r) == rows[r].vec[index.column] = Embedding(index, rows[r].text)

\* A row that its record calls up to date, and that no sweep will therefore look at again,
\* has the vector of its present text and of the index's model, whatever was written while
\* the provider was being asked (embedix.rs, sweep_index and write_vector).  Excepted are
\* rows that a user inserted over a record or cleared, and those whose index moved to
\* another column or whose default model changed: see UpToDateIsEmbedded.
UpToDateIsRight ==
  \A r \in Row \ touched :
    index # NoIndex /\ rows[r] # NoRow /\ rows[r].text # Blank
      /\ UpToDate(Record(r), Hash(index, rows[r].text)) => InStep(r)

\* docs/sql/vector-search.md:231-237: what needs embedding is worked out from the data
\* itself, whatever path wrote the rows.  The same without exceptions.
UpToDateIsEmbedded ==
  \A r \in Row :
    index # NoIndex /\ rows[r] # NoRow /\ rows[r].text # Blank
      /\ UpToDate(Record(r), Hash(index, rows[r].text)) => InStep(r)

\* docs/sql/vector-search.md:246, "a concurrent UPDATE is never overwritten": only a user's
\* statement changes a text, brings a row or removes one.
TextIsUsers ==
  [][env'.write = env.write =>
       \A r \in Row : /\ (rows'[r] = NoRow) = (rows[r] = NoRow)
                      /\ rows[r] # NoRow => rows'[r].text = rows[r].text]_vars

\* docs/sql/vector-search.md:264, "after five consecutive failures a row is dead-lettered": the
\* provider refuses a row no more than MAX_ATTEMPTS times until its text or the index
\* changes.  Excepted are rows of which sweeps overlapped since: see CapAlways.
CapHolds == \A r \in Row \ crossed : spent[r] <= MaxAttempts

\* The same without exception.
CapAlways == \A r \in Row : spent[r] <= MaxAttempts

\* embedix.rs:690-692, "two sweeps racing on the same table conflict instead of losing a
\* bump": every change of a row raises the write counter, by which the vector index knows
\* that it is stale.
EveryChangeCounted == [][rows' # rows => wcount' > wcount]_vars

Settled(r) ==
  \/ index = NoIndex \/ rows[r] = NoRow \/ r \in touched
  \/ rows[r].text = Blank
  \/ InStep(r)
  \/ DeadLettered(Record(r), Hash(index, rows[r].text))

\* Once users stop writing, every row gets the vector of its text, or is dead-lettered: a
\* row that fails again and again does not use up the budget of those behind it, and no
\* conflict, fault, restart or second sweep leaves one pending (embedix.rs, sweep_index).
EveryRowSettles == \A r \in Row : <>[]Settled(r)
=============================================================================
