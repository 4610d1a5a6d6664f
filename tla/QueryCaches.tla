---------------------------- MODULE QueryCaches -----------------------------
(***************************************************************************)
(* Aggregating a table outside a transaction (crates/elyra-engine/src/     *)
(* exec.rs), through the column cache (colcache.rs), the zone maps         *)
(* (zonemap.rs), or a scan split by primary key.  Cache entries carry the  *)
(* write sequence they were built at; every commit advances it.            *)
(*                                                                         *)
(* A query reads the table's definition, then the write sequence, a cache, *)
(* the bounds of the table and one snapshot, each at a moment of its own,  *)
(* while commits and other queries run.  A table has one numeric column; a *)
(* row read under another definition than it was stored under decodes to   *)
(* something else.  What a query answers is the rows it has aggregated.    *)
(***************************************************************************)
EXTENDS Integers, Sequences, FiniteSets, FiniteSetsExt

CONSTANTS
  Session,
  Table,
  Key,        \* integer primary keys
  Top,        \* the end of a table's keys, prefix_successor
  Num,        \* values of the column
  Null,       \* no value in the column
  Absent,     \* no row
  Misread,    \* a row decoded under the wrong definition
  Filter,     \* what queries ask of each table: a range of keys, bounds on the column
  Workers,    \* agg_workers
  ChunkRows,  \* CHUNK_ROWS
  Budget,     \* budget_bytes; a row takes one, stored or cached
  Initial,    \* what each table holds at the start
  Change,     \* what a commit does to each table
  MaxCommit,  \* bound on them
  MaxQuery    \* bound on queries

ASSUME KeyAssumption == Key \subseteq Nat /\ Top \in Nat /\ \A k \in Key : k < Top
ASSUME SizeAssumption == Workers \in Nat \ {0} /\ ChunkRows \in Nat \ {0} /\ Budget \in Nat

Cell == Num \cup {Null}
ASSUME ValueAssumption ==
  /\ Num \subseteq Int /\ Null \notin Num
  /\ Absent \notin Cell /\ Misread \notin Cell /\ Absent # Misread
ASSUME InitialAssumption == Initial \in [Table -> [Key -> Cell \cup {Absent}]]
ASSUME ChangeAssumption ==
  \A t \in Table :
    Change[t] \subseteq [op : {"put"}, key : Key, val : Cell] \cup [op : {"delete"}, key : Key]
                     \cup [op : {"rekey"}, key : Key, to : Key] \cup [op : {"alter"}]
ASSUME FilterAssumption ==
  \A t \in Table : \A f \in Filter[t] :
    /\ f.key \in {<< >>} \cup (Int \X Int)
    /\ f.bounds \subseteq [op : {"Eq", "Ne", "Lt", "Le", "Gt", "Ge"}, rhs : Int]

VARIABLES
  states,     \* every committed state, in order; the write sequence numbers them
  columns,    \* the column cache
  tick,       \* its access clock
  zones,      \* the zone maps
  q,          \* the query a session runs
  queries     \* the environment

vars == <<states, columns, tick, zones, q, queries>>

NoEntry == [on |-> FALSE]
Idle == [pc |-> "idle"]

WriteEpoch == Len(states)
Now(t) == states[Len(states)][t]

\* The table's rows as a query with definition d decodes them.
Decoded(d, content) ==
  [k \in Key |-> IF content.rows[k] = Absent \/ content.def = d THEN content.rows[k]
                 ELSE Misread]
Present(rows) == {k \in Key : rows[k] # Absent}
NoRows == [k \in Key |-> Absent]

----------------------------------------------------------------------------
(* Filters, cpred.rs and pk_bounds *)

\* One comparison; NULL never matches.
Compare(op, x, rhs) ==
  CASE op = "Eq" -> x = rhs [] op = "Ne" -> x # rhs [] op = "Lt" -> x < rhs
    [] op = "Le" -> x <= rhs [] op = "Gt" -> x > rhs [] op = "Ge" -> x >= rhs

\* The range of keys and every bound.
Matches(f, k, v) ==
  /\ f.key # << >> => f.key[1] <= k /\ k <= f.key[2]
  /\ \A b \in f.bounds : v \in Num /\ Compare(b.op, v, b.rhs)

Selected(f, rows) ==
  [k \in Key |-> IF rows[k] # Absent /\ Matches(f, k, rows[k]) THEN rows[k] ELSE Absent]
Within(rows, ranges) ==
  [k \in Key |-> IF \E r \in ranges : r.from <= k /\ k < r.to THEN rows[k] ELSE Absent]

----------------------------------------------------------------------------
(* Splitting a scan by primary key, pk_split_ranges_within *)

\* Part i of the keys from lo to hi.
Cut(lo, hi, i) ==
  [from |-> lo + ((hi - lo) * (i - 1)) \div Workers, to |-> lo + ((hi - lo) * i) \div Workers]

Whole == {[from |-> 0, to |-> Top]}

\* The parts for the rows there are and the keys f asks for; no part if those are
\* outside them.  A part that reaches the last row goes to the table's end.
SplitRanges(rows, f) ==
  LET first == Min(Present(rows))
      last == Max(Present(rows))
      lo == IF f.key = << >> \/ f.key[1] < first THEN first ELSE f.key[1]
      hi == IF f.key = << >> \/ f.key[2] > last THEN last ELSE f.key[2]
      end == IF hi >= last THEN Top ELSE hi + 1
      part(i) == IF i = Workers THEN [Cut(lo, hi, i) EXCEPT !.to = end] ELSE Cut(lo, hi, i)
      parts == {r \in {part(i) : i \in 1..Workers} : r.from < r.to}
  IN  IF Present(rows) = {} THEN Whole
      ELSE IF lo > hi THEN {}
      ELSE IF hi - lo < Workers \/ hi = lo
      THEN IF f.key = << >> THEN Whole ELSE {[from |-> lo, to |-> end]}
      ELSE IF f.key = << >> /\ Cardinality(parts) < 2 THEN Whole ELSE parts

----------------------------------------------------------------------------
(* zonemap.rs *)

\* Builder: chunks of the rows in key order, with the least and the greatest number.
Chunks(rows) ==
  LET before(k) == Cardinality({j \in Present(rows) : j < k})
      keys(c) == {k \in Present(rows) : before(k) \div ChunkRows = c - 1}
      nums(c) == {rows[k] : k \in keys(c)} \ {Null, Misread}
  IN  [c \in 1..((Cardinality(Present(rows)) + ChunkRows - 1) \div ChunkRows) |->
         [start |-> Min(keys(c)), nums |-> nums(c) # {},
          min |-> IF nums(c) = {} THEN 0 ELSE Min(nums(c)),
          max |-> IF nums(c) = {} THEN 0 ELSE Max(nums(c))]]

\* Mutant: a chunk is skipped for "not equal" when its least number is the value.
ChunkSurvives_Ne(chunk, bounds) ==
  \A b \in bounds :
    chunk.nums /\ CASE b.op = "Gt" -> chunk.max > b.rhs [] b.op = "Ge" -> chunk.max >= b.rhs
                    [] b.op = "Lt" -> chunk.min < b.rhs [] b.op = "Le" -> chunk.min <= b.rhs
                    [] b.op = "Eq" -> chunk.min <= b.rhs /\ b.rhs <= chunk.max
                    [] b.op = "Ne" -> chunk.min # b.rhs

\* chunk_survives
ChunkSurvives(chunk, bounds) ==
  \A b \in bounds :
    chunk.nums /\ CASE b.op = "Gt" -> chunk.max > b.rhs [] b.op = "Ge" -> chunk.max >= b.rhs
                    [] b.op = "Lt" -> chunk.min < b.rhs [] b.op = "Le" -> chunk.min <= b.rhs
                    [] b.op = "Eq" -> chunk.min <= b.rhs /\ b.rhs <= chunk.max
                    [] b.op = "Ne" -> ~(chunk.min = b.rhs /\ chunk.max = b.rhs)

\* surviving_ranges: from a surviving chunk to the start of the next that does not
\* survive; the last goes to the table's end.
SurvivingRanges(chunks, bounds) ==
  LET n == Len(chunks)
      lives(i) == ChunkSurvives(chunks[i], bounds)
      run(i, j) == /\ \A m \in i..j : lives(m)
                   /\ i > 1 => ~lives(i - 1)
                   /\ j < n => ~lives(j + 1)
  IN  {[from |-> chunks[p[1]].start, to |-> IF p[2] < n THEN chunks[p[2] + 1].start ELSE Top] :
         p \in {p \in (1..n) \X (1..n) : p[1] <= p[2] /\ run(p[1], p[2])}}

----------------------------------------------------------------------------
(* colcache.rs *)

Cached == {t \in Table : columns[t].on}
Bytes(T) == MapThenSumSet(LAMBDA t : columns[t].bytes, T)

\* store: the least recently used entries go until the newcomer fits.
Evicted(t, bytes) ==
  LET S == Cached \ {t}
      newer(u) == {v \in S : columns[v].used > columns[u].used}
  IN  {u \in S : Bytes(newer(u)) + columns[u].bytes + bytes > Budget}

----------------------------------------------------------------------------
(* Commits.  Each changes a table in one step and advances the write sequence. *)

Changed(c, content) ==
  CASE c.op = "put" -> [content EXCEPT !.rows[c.key] = c.val]
    [] c.op = "delete" -> [content EXCEPT !.rows[c.key] = Absent]
    [] c.op = "rekey" -> [content EXCEPT !.rows[c.key] = Absent, !.rows[c.to] = content.rows[c.key]]
    [] c.op = "alter" -> [content EXCEPT !.def = @ + 1]

Commit(c, t) ==
  /\ Len(states) <= MaxCommit
  /\ c.op = "rekey" => Now(t).rows[c.key] # Absent
  /\ states' = Append(states, [states[Len(states)] EXCEPT ![t] = Changed(c, @)])
  /\ UNCHANGED <<columns, tick, zones, q, queries>>

----------------------------------------------------------------------------
(* Queries *)

Goto(s, pc) == q' = [q EXCEPT ![s].pc = pc]
Answers(s, rows) == q' = [q EXCEPT ![s].pc = "done", ![s].rows = rows]

\* The definition is loaded; a range of keys is scanned directly, bounds on the column
\* go through the zone map, no filter through the column cache.
Start(s, t, f) ==
  /\ q[s] = Idle /\ queries < MaxQuery
  /\ queries' = queries + 1
  /\ q' = [q EXCEPT ![s] =
       [pc |-> IF f.key # << >> THEN "pk" ELSE IF f.bounds = {} THEN "epoch" ELSE "zepoch",
        table |-> t, f |-> f, def |-> Now(t).def, since |-> Len(states),
        epoch |-> 0, rows |-> NoRows, ranges |-> {}, chunks |-> << >>,
        scanned |-> 0, trust |-> TRUE]]
  /\ UNCHANGED <<states, columns, tick, zones>>

ReadEpoch(s) ==
  /\ q[s].pc \in {"epoch", "zepoch"}
  /\ q' = [q EXCEPT ![s].epoch = WriteEpoch,
                    ![s].pc = IF q[s].pc = "epoch" THEN "lookup" ELSE "zlookup"]
  /\ UNCHANGED <<states, columns, tick, zones, queries>>

\* An entry serves queries that read the write sequence it was built at.
Fresh(entry, epoch) == entry.on /\ entry.wseq = epoch

\* The definition an entry was built with is the one the table had then.
Sound(t, entry) == entry.def = states[entry.wseq][t].def

\* colcache::get: a hit is marked as used.  Its columns are numbered as in the entry's
\* definition.
Lookup(s) ==
  /\ q[s].pc = "lookup"
  /\ LET e == columns[q[s].table]
         rows == Decoded(q[s].def, [def |-> e.def, rows |-> e.rows])
     IN  IF Fresh(e, q[s].epoch)
         THEN /\ q' = [q EXCEPT ![s].pc = "done", ![s].rows = rows,
                               ![s].trust = Sound(q[s].table, e)]
              /\ columns' = [columns EXCEPT ![q[s].table].used = tick]
              /\ tick' = tick + 1
         ELSE Goto(s, "build") /\ UNCHANGED <<columns, tick>>
  /\ UNCHANGED <<states, zones, queries>>

\* build_cached_table: one snapshot, unless it is too large.
Build(s) ==
  /\ q[s].pc = "build"
  /\ LET rows == Decoded(q[s].def, Now(q[s].table))
     IN  IF Cardinality(Present(rows)) > Budget THEN Goto(s, "bounds")
         ELSE q' = [q EXCEPT ![s].pc = "recheck", ![s].rows = rows]
  /\ UNCHANGED <<states, columns, tick, zones, queries>>

\* Mutant: what was built is kept whatever was committed meanwhile.
Unchanged_Always(s) == TRUE

\* Nothing was committed since the write sequence was read.
Unchanged(s) == WriteEpoch = q[s].epoch

Recheck(s) ==
  /\ q[s].pc = "recheck"
  /\ Goto(s, IF Unchanged(s) THEN "store" ELSE "bounds")
  /\ UNCHANGED <<states, columns, tick, zones, queries>>

Store(s) ==
  /\ q[s].pc = "store"
  /\ LET t == q[s].table
         bytes == Cardinality(Present(q[s].rows))
     IN  columns' = [u \in Table |->
           IF u = t THEN [on |-> TRUE, wseq |-> q[s].epoch, rows |-> q[s].rows, bytes |-> bytes,
                          used |-> tick, def |-> q[s].def]
           ELSE IF u \in Evicted(t, bytes) THEN NoEntry ELSE columns[u]]
  /\ tick' = tick + 1
  /\ Answers(s, q[s].rows)
  /\ UNCHANGED <<states, zones, queries>>

\* get_or_build_zonemap
ZoneLookup(s) ==
  /\ q[s].pc = "zlookup"
  /\ LET z == zones[q[s].table]
     IN  IF Fresh(z, q[s].epoch)
         THEN q' = [q EXCEPT ![s].pc = "zscan", ![s].chunks = z.chunks,
                             ![s].trust = Sound(q[s].table, z)]
         ELSE Goto(s, "zbuild")
  /\ UNCHANGED <<states, columns, tick, zones, queries>>

ZoneBuild(s) ==
  /\ q[s].pc = "zbuild"
  /\ q' = [q EXCEPT ![s].pc = "zrecheck",
                    ![s].chunks = Chunks(Decoded(q[s].def, Now(q[s].table)))]
  /\ UNCHANGED <<states, columns, tick, zones, queries>>

ZoneRecheck(s) ==
  /\ q[s].pc = "zrecheck"
  /\ Goto(s, IF Unchanged(s) THEN "zstore" ELSE "bounds")
  /\ UNCHANGED <<states, columns, tick, zones, queries>>

ZoneStore(s) ==
  /\ q[s].pc = "zstore"
  /\ zones' = [zones EXCEPT ![q[s].table] =
       [on |-> TRUE, wseq |-> q[s].epoch, chunks |-> q[s].chunks, def |-> q[s].def]]
  /\ Goto(s, "zscan")
  /\ UNCHANGED <<states, columns, tick, queries>>

\* One snapshot, the surviving ranges of it.
ZoneScan(s) ==
  /\ q[s].pc = "zscan"
  /\ LET rows == Decoded(q[s].def, Now(q[s].table))
         part == Within(rows, SurvivingRanges(q[s].chunks, q[s].f.bounds))
     IN  q' = [q EXCEPT ![s].pc = "zcheck", ![s].rows = Selected(q[s].f, part)]
  /\ UNCHANGED <<states, columns, tick, zones, queries>>

\* The skipping is good if nothing was committed meanwhile.
ZoneCheck(s) ==
  /\ q[s].pc = "zcheck"
  /\ Goto(s, IF Unchanged(s) THEN "done" ELSE "bounds")
  /\ UNCHANGED <<states, columns, tick, zones, queries>>

\* pk_split_ranges_within: where to cut the scan.  A range of keys of an empty table
\* goes on to the zone map.
ReadBounds(s) ==
  /\ q[s].pc \in {"pk", "bounds"}
  /\ LET rows == Now(q[s].table).rows
         ranges == IF Workers > 1 \/ q[s].pc = "pk" THEN SplitRanges(rows, q[s].f) ELSE Whole
     IN  IF q[s].pc = "pk" /\ Present(rows) = {} THEN Goto(s, "zepoch")
         ELSE q' = [q EXCEPT ![s].pc = "scan", ![s].ranges = ranges]
  /\ UNCHANGED <<states, columns, tick, zones, queries>>

\* One snapshot for all workers.
Scan(s) ==
  /\ q[s].pc = "scan"
  /\ LET rows == Within(Decoded(q[s].def, Now(q[s].table)), q[s].ranges)
     IN  q' = [q EXCEPT ![s].pc = "done", ![s].scanned = Len(states),
                        ![s].rows = Selected(q[s].f, rows)]
  /\ UNCHANGED <<states, columns, tick, zones, queries>>

End(s) ==
  /\ q[s].pc = "done"
  /\ q' = [q EXCEPT ![s] = Idle]
  /\ UNCHANGED <<states, columns, tick, zones, queries>>

----------------------------------------------------------------------------
Init ==
  /\ states = <<[t \in Table |-> [def |-> 0, rows |-> Initial[t]]]>>
  /\ columns = [t \in Table |-> NoEntry]
  /\ tick = 1
  /\ zones = [t \in Table |-> NoEntry]
  /\ q = [s \in Session |-> Idle]
  /\ queries = 0

Step(s) ==
  \/ ReadEpoch(s) \/ Lookup(s) \/ Build(s) \/ Recheck(s) \/ Store(s)
  \/ ZoneLookup(s) \/ ZoneBuild(s) \/ ZoneRecheck(s) \/ ZoneStore(s) \/ ZoneScan(s) \/ ZoneCheck(s)
  \/ ReadBounds(s) \/ Scan(s) \/ End(s)

Next ==
  \/ \E t \in Table : \E c \in Change[t] : Commit(c, t)
  \/ \E s \in Session : Step(s) \/ \E t \in Table : \E f \in Filter[t] : Start(s, t, f)

Spec == Init /\ [][Next]_vars

----------------------------------------------------------------------------
(* Properties *)

Rows == [Key -> Cell \cup {Absent, Misread}]

TypeOK ==
  /\ \A n \in DOMAIN states : \A t \in Table :
       states[n][t].def \in Nat /\ states[n][t].rows \in [Key -> Cell \cup {Absent}]
  /\ \A t \in Cached : columns[t].rows \in Rows /\ columns[t].used < tick
  /\ \A s \in Session : q[s] # Idle =>
       /\ q[s].rows \in Rows
       /\ q[s].epoch \in 0..Len(states) /\ q[s].since \in 1..Len(states)

\* The rows a scan should have read, by the state it read, and did not.
Missed(s) ==
  q[s].scanned > 0 /\
    \E k \in Present(states[q[s].scanned][q[s].table].rows) :
      /\ q[s].f.key # << >> => q[s].f.key[1] <= k /\ k <= q[s].f.key[2]
      /\ \A r \in q[s].ranges : ~(r.from <= k /\ k < r.to)

AnswersFrom(s) ==
  \E n \in q[s].since..Len(states) :
    q[s].rows = Selected(q[s].f, Decoded(q[s].def, states[n][q[s].table]))

\* Whatever is committed, stored or evicted between its reads, a query answers what one
\* committed state says, of those between its start and its end; unless a row was put
\* before the first key after the bounds were read, or the entry it hit was built with
\* a definition that an ALTER had already replaced.
AnswerIsCommitted ==
  \A s \in Session : (q[s].pc = "done" /\ q[s].trust /\ ~Missed(s)) => AnswersFrom(s)

\* The columns and the chunks that an entry holds are those of the state its write
\* sequence numbers, however many sessions were building and committing at the time:
\* an entry is stale or right.
EntriesExact ==
  \A t \in Table :
    /\ columns[t].on /\ Sound(t, columns[t]) =>
         columns[t].rows = states[columns[t].wseq][t].rows
    /\ zones[t].on /\ Sound(t, zones[t]) =>
         zones[t].chunks = Chunks(states[zones[t].wseq][t].rows)

----------------------------------------------------------------------------
(* What the comments say and the code does not do *)

\* exec.rs:24987: one consistent view for all workers, also of where the table starts.
SplitScanIsCommitted ==
  \A s \in Session : (q[s].pc = "done" /\ q[s].trust) => AnswersFrom(s)

\* colcache.rs:8: an entry that matches the write sequence holds the table, as its
\* definition at that time has it.
CacheHoldsTable ==
  \A t \in Table : Fresh(columns[t], WriteEpoch) =>
    columns[t].rows = Now(t).rows /\ columns[t].def = Now(t).def
=============================================================================
