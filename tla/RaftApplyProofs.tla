-------------------------- MODULE RaftApplyProofs ---------------------------
(***************************************************************************)
(* Theorems about RaftApply, for every committed log, any number of tasks, *)
(* keys and values, and any number of crashes.                             *)
(***************************************************************************)
EXTENDS RaftApply, NaturalRecursion, SequenceTheorems

----------------------------------------------------------------------------
(* What a task has taken *)

\* The entries after a, up to b, in order.
Run(a, b) == [n \in 1..(b - a) |-> a + n]
Entries(q) == {q[n] : n \in DOMAIN q}

\* The first of a run, what remains without it, and its members.
LEMMA RunFacts ==
  ASSUME NEW a \in Nat, NEW b \in Nat, a <= b
  PROVE  /\ Run(a, b) = << >> <=> a = b
         /\ a < b => Head(Run(a, b)) = a + 1 /\ Tail(Run(a, b)) = Run(a + 1, b)
         /\ Entries(Run(a, b)) = a + 1..b
<1> DEFINE q == Run(a, b)
<1>1. b - a \in Nat /\ q \in Seq(Nat) /\ Len(q) = b - a /\ DOMAIN q = 1..(b - a)
  BY DEF Run
<1>2. q = << >> <=> a = b
  <2>1. CASE a = b  BY <1>1, <2>1
  <2>2. CASE a < b  BY <1>1, <2>2
  <2> QED  BY <2>1, <2>2
<1>3. ASSUME a < b PROVE Head(q) = a + 1
  BY <1>1, <1>3 DEF Run
<1>4. ASSUME a < b PROVE Tail(q) = Run(a + 1, b)
  <2>1. q # << >>  BY <1>2, <1>4
  <2>2. Tail(q) \in Seq(Nat) /\ Len(Tail(q)) = b - a - 1
    BY <1>1, <2>1
  <2>3. \A n \in 1..(b - a - 1) : Tail(q)[n] = q[n + 1]
    BY <1>1, <2>1
  <2>4. \A n \in 1..(b - a - 1) : q[n + 1] = a + 1 + n
    BY <1>1 DEF Run
  <2>5. b - (a + 1) = b - a - 1
    OBVIOUS
  <2>6. Run(a + 1, b) = [n \in 1..(b - a - 1) |-> a + 1 + n]
    BY <2>5 DEF Run
  <2>7. Tail(q) = [n \in 1..(b - a - 1) |-> Tail(q)[n]]
    BY <2>2, LenProperties
  <2> HIDE DEF q
  <2> QED  BY <2>3, <2>4, <2>6, <2>7
<1>5. Entries(q) = a + 1..b
  <2>1. ASSUME NEW k \in a + 1..b PROVE k \in Entries(q)
    <3>1. k - a \in 1..(b - a) /\ q[k - a] = k
      BY DEF Run
    <3> HIDE DEF q
    <3> QED  BY <1>1, <3>1 DEF Entries
  <2>2. ASSUME NEW k \in Entries(q) PROVE k \in a + 1..b
    BY <1>1, <2>2 DEF Entries, Run
  <2> QED  BY <2>1, <2>2
<1> QED  BY <1>2, <1>3, <1>4, <1>5

----------------------------------------------------------------------------
(* The inductive invariant *)

CursorInv ==
  /\ log \in Log /\ crashes \in Nat
  /\ {base, snap, lastApplied, commit} \subseteq 0..Len(log)
  /\ base <= snap /\ snap <= lastApplied /\ lastApplied <= commit

\* A task has taken a run of entries between the last restart's beginning and last_applied.
Busy(c, a, b) == [st |-> "busy", compact |-> c, todo |-> Run(a, b)]
TaskInv ==
  /\ DOMAIN task = Task /\ task = [t \in Task |-> task[t]]
  /\ \A t \in Task : task[t] = Idle \/ \E c, a, b \in 0..Len(log) :
       base <= a /\ a <= b /\ b <= lastApplied /\ task[t] = Busy(c, a, b)

\* No entry is in the hands of two tasks; submitted since the restart are those that have
\* been passed and are in nobody's.
Pending(t) == Entries(Todo(t))
HandInv ==
  /\ \A t, u \in Task : t # u => Pending(t) \cap Pending(u) = {}
  /\ \A k \in Index :
       since[k] = IF base < k /\ k <= lastApplied /\ \A t \in Task : k \notin Pending(t)
                  THEN 1 ELSE 0

\* Everything from the restart's beginning up to a has been submitted, in order, and what
\* remains up to last_applied is in the hands of one task.
Front(a) ==
  /\ snap <= a /\ a <= lastApplied
  /\ \A t \in Task : Todo(t) = << >> \/ Todo(t) = Run(a, lastApplied)
  /\ \A t, u \in Task : t # u => Todo(t) = << >> \/ Todo(u) = << >>
  /\ a < lastApplied => \E t \in Task : Todo(t) # << >>
  /\ \A k \in base + 1..a : k \in done

\* A key that no entry submitted earlier, and after a, writes has the value that the log
\* up to a gives it.
Ahead(a, k) == \E j \in done : j > a /\ k \in DOMAIN log[j].write
StateAt(a) == \A k \in Key : Ahead(a, k) \/ db[k] = Replay[a][k]
AnswersAt(a) ==
  /\ \A k \in done : k <= a
  /\ \A k \in 1..a : outcome[k] = Holds(Replay[k - 1], log[k])

OrderInv ==
  overlap \/ \E a \in 0..Len(log) :
    /\ Front(a)
    /\ crashes = 0 \/ Unconditional => StateAt(a)
    /\ crashes = 0 => AnswersAt(a)

IInv == TypeOK /\ CursorInv /\ TaskInv /\ HandInv /\ OrderInv

----------------------------------------------------------------------------
(* The log, replayed *)

State == [Key -> Val \cup {Absent}]
Empty == [k \in Key |-> Absent]

\* apply_op_local leaves a state.
LEMMA ApplyOpType ==
  ASSUME NEW d \in State, NEW op, IsMap(op.write, Key)
  PROVE  ApplyOp(d, op) \in State
BY DEF ApplyOp, State, IsMap

\* Every entry of the log is an operation on the keys.
LEMMA LogFacts ==
  ASSUME CursorInv
  PROVE  /\ Len(log) \in Nat /\ Index = 1..Len(log)
         /\ \A k \in Index : IsMap(log[k].need, Key) /\ IsMap(log[k].write, Key)
BY LogAssumption DEF CursorInv, Index

\* What Replay computes: nothing at 0, and from there entry by entry.
LEMMA ReplayFacts ==
  ASSUME CursorInv
  PROVE  /\ Replay \in [0..Len(log) -> State]
         /\ Replay[0] = Empty
         /\ \A n \in Index : Replay[n] = ApplyOp(Replay[n - 1], log[n])
<1> DEFINE N == Len(log)
           F == [p \in Nat \X State |-> IF p[1] \in Index THEN ApplyOp(p[2], log[p[1]]) ELSE p[2]]
<1>1. N \in Nat /\ Index = 1..N
  BY LogFacts
<1>2. F \in [Nat \X State -> State]
  BY LogFacts, ApplyOpType
<1>3. Empty \in State
  BY DEF Empty, State
<1> HIDE DEF F, N
<1>4. PICK f \in [0..N -> State] : GoesOn(f, Empty, F, N)
  BY <1>1, <1>2, <1>3, Recursion
<1>5. \A n \in 1..N : f[n] = ApplyOp(f[n-1], log[n])
  <2> TAKE n \in 1..N
  <2>1. n \in Index /\ n \in Nat /\ n - 1 \in 0..N
    BY <1>1
  <2>2. <<n, f[n-1]>> \in Nat \X State
    BY <2>1
  <2> QED  BY <1>4, <2>1, <2>2 DEF F, GoesOn
<1>6. f = [n \in 0..N |-> IF n = 0 THEN Empty ELSE ApplyOp(f[n - 1], log[n])]
  BY <1>1, <1>4, <1>5 DEF GoesOn
<1>7. Replay = [n \in 0..N |-> IF n = 0 THEN Empty ELSE ApplyOp(Replay[n - 1], log[n])]
  BY <1>6 DEF Replay, Empty, N
<1>8. Replay[0] = Empty
  BY <1>1, <1>7
<1>9. \A n \in 1..N : Replay[n] = ApplyOp(Replay[n - 1], log[n])
  BY <1>1, <1>7
<1> DEFINE P == {n \in Nat : n <= N => Replay[n] \in State}
<1>10. 0 \in P
  BY <1>1, <1>3, <1>7
<1>11. ASSUME NEW n \in Nat, n \in P PROVE n + 1 \in P
  <2>1. CASE n + 1 > N  BY <1>1, <2>1
  <2>2. CASE n + 1 <= N
    <3>1. n + 1 \in 1..N /\ n + 1 - 1 = n /\ n + 1 # 0 /\ n + 1 \in 0..N
      BY <1>1, <2>2
    <3>2. Replay[n + 1] = ApplyOp(Replay[n], log[n + 1])
      <4>1. Replay[n + 1] = ApplyOp(Replay[n + 1 - 1], log[n + 1])
        BY <1>9, <3>1
      <4> QED  BY <3>1, <4>1
    <3>3. Replay[n] \in State /\ IsMap(log[n + 1].write, Key)
      BY <1>1, <1>11, <2>2, <3>1, LogFacts
    <3>4. Replay[n + 1] \in State
      BY <3>2, <3>3, ApplyOpType
    <3> QED  BY <3>4
  <2> QED  BY <1>1, <2>1, <2>2
<1> HIDE DEF P
<1>12. Nat \subseteq P
  BY <1>10, <1>11, SetInduction
<1>13. \A n \in 0..N : Replay[n] \in State
  BY <1>1, <1>12 DEF P
<1>14. Replay \in [0..N -> State]
  BY <1>7, <1>13
<1> QED  BY <1>1, <1>14, <1>8, <1>9 DEF N

----------------------------------------------------------------------------
(* Invariance *)

\* What a task has to submit is a run of entries, an empty one if it is idle.
LEMMA TodoFacts ==
  ASSUME CursorInv, TaskInv, NEW t \in Task
  PROVE  \E a, b \in Nat : /\ base <= a /\ a <= b /\ b <= lastApplied
                           /\ Todo(t) = Run(a, b) /\ Pending(t) = a + 1..b
<1>0. Len(log) \in Nat /\ base \in Nat /\ lastApplied \in Nat /\ base <= lastApplied
  BY LogFacts DEF CursorInv
<1>1. CASE task[t] = Idle
  <2>1. Todo(t) = << >>
    BY <1>1 DEF Todo
  <2>2. Run(base, base) = << >> /\ Entries(Run(base, base)) = base + 1..base
    <3>1. base <= base
      BY <1>0
    <3> QED  BY <1>0, <3>1, RunFacts
  <2> QED  BY <1>0, <2>1, <2>2 DEF Pending
<1>2. CASE task[t] # Idle
  <2>1. PICK c, a, b \in 0..Len(log) :
          base <= a /\ a <= b /\ b <= lastApplied /\ task[t] = Busy(c, a, b)
    BY <1>2 DEF TaskInv
  <2>2. Todo(t) = Run(a, b)
    BY <1>2, <2>1 DEF Todo, Busy
  <2>3. a \in Nat /\ b \in Nat
    BY <1>0
  <2>4. Entries(Run(a, b)) = a + 1..b
    BY <2>1, <2>3, RunFacts
  <2> QED  BY <2>1, <2>2, <2>3, <2>4 DEF Pending
<1> QED  BY <1>1, <1>2

\* In the initial states nothing is taken, and the database is that of the empty log.
LEMMA InitInv == Init => IInv
<1> SUFFICES ASSUME Init PROVE IInv
  OBVIOUS
<1>1. Len(log) \in Nat
  BY LogAssumption DEF Init
<1>2. CursorInv
  BY <1>1 DEF Init, CursorInv
<1>3. TypeOK
  <2>1. overlap \in BOOLEAN /\ outcome \in [Index -> BOOLEAN]
    BY DEF Init
  <2>2. since \in [Index -> Nat] /\ done \subseteq Index /\ db \in [Key -> Val \cup {Absent}]
    BY DEF Init
  <2>3. snap <= lastApplied /\ lastApplied <= commit /\ commit <= Len(log)
    BY <1>1 DEF Init
  <2> QED  BY <2>1, <2>2, <2>3 DEF TypeOK
<1>4. TaskInv
  BY DEF Init, TaskInv
<1>5. \A t \in Task : Todo(t) = << >> /\ Pending(t) = {}
  BY DEF Init, Todo, Pending, Entries
<1>6. HandInv
  BY <1>1, <1>5 DEF Init, HandInv, Index
<1>7. Replay[0] = Empty
  BY <1>2, ReplayFacts
<1>8. Front(0) /\ StateAt(0) /\ AnswersAt(0)
  BY <1>5, <1>7 DEF Init, Front, StateAt, AnswersAt, Empty
<1>9. OrderInv
  BY <1>1, <1>8 DEF OrderInv
<1> QED  BY <1>2, <1>3, <1>4, <1>6, <1>9 DEF IInv

\* A round takes the entries up to the commit index it learns of.
LEMMA TakeCursors ==
  ASSUME IInv, NEW t \in Task, NEW c \in 0..Len(log), NEW x \in 0..Len(log), Take(t, c, x)
  PROVE  /\ CursorInv' /\ TypeOK' /\ TaskInv'
         /\ lastApplied' = commit' /\ lastApplied <= lastApplied'
         /\ Todo(t) = << >> /\ Todo(t)' = Run(lastApplied, lastApplied')
         /\ \A u \in Task \ {t} : Todo(u)' = Todo(u)
<1> USE DEF IInv
<1>0. Len(log) \in Nat /\ log' = log
  BY LogFacts DEF Take
<1>1. /\ commit' \in 0..Len(log) /\ commit <= commit'
      /\ lastApplied' = commit' /\ lastApplied <= lastApplied'
  BY <1>0 DEF Take, CursorInv, AdvanceCommit, Passed, Most, Least
<1>2. CursorInv'
  BY <1>0, <1>1 DEF Take, CursorInv
<1>3. TypeOK'
  BY <1>0, <1>1, <1>2 DEF Take, TypeOK, CursorInv, Index
<1>4. task[t] = Idle /\ task' = [task EXCEPT ![t] = Busy(x, lastApplied, lastApplied')]
  BY <1>1 DEF Take, Busy, Run
<1>5. task'[t] = Busy(x, lastApplied, lastApplied') /\ \A u \in Task \ {t} : task'[u] = task[u]
  BY <1>4 DEF TaskInv
<1>6. task'[t] # Idle
  BY <1>5 DEF Busy, Idle
<1>7. TaskInv'
  <2>1. DOMAIN task' = Task /\ task' = [u \in Task |-> task'[u]]
    BY <1>4 DEF TaskInv
  <2>2. base' = base /\ base' <= lastApplied /\ lastApplied \in 0..Len(log)
          /\ lastApplied' \in 0..Len(log)
    BY <1>0, <1>1 DEF Take, CursorInv
  <2>3. ASSUME NEW u \in Task
        PROVE  task'[u] = Idle \/ \E e, a, b \in 0..Len(log) :
                 base' <= a /\ a <= b /\ b <= lastApplied' /\ task'[u] = Busy(e, a, b)
    <3>1. CASE u = t
      BY <1>1, <1>5, <2>2, <3>1
    <3>2. CASE u # t
      <4>1. task'[u] = task[u]
        BY <1>5, <3>2
      <4>2. ASSUME NEW e \in 0..Len(log), NEW a \in 0..Len(log), NEW b \in 0..Len(log),
                   base <= a, a <= b, b <= lastApplied, task[u] = Busy(e, a, b)
            PROVE  base' <= a /\ a <= b /\ b <= lastApplied' /\ task'[u] = Busy(e, a, b)
        BY <1>0, <1>1, <2>2, <4>1, <4>2
      <4> QED  BY <4>1, <4>2 DEF TaskInv
    <3> QED  BY <3>1, <3>2
  <2> QED  BY <1>0, <2>1, <2>3 DEF TaskInv
<1>8. Todo(t) = << >> /\ Todo(t)' = Run(lastApplied, lastApplied')
  BY <1>4, <1>5, <1>6 DEF Todo, Busy
<1>9. \A u \in Task \ {t} : Todo(u)' = Todo(u)
  BY <1>5 DEF Todo
<1> QED  BY <1>1, <1>2, <1>3, <1>7, <1>8, <1>9

\* Replay is a function of the log.
LEMMA SameLog ==
  ASSUME log' = log
  PROVE  Replay' = Replay /\ Index' = Index /\ (Unconditional' <=> Unconditional)
<1>1. Replay' = Replay
  BY DEF Replay
<1>2. Index' = Index
  BY DEF Index
<1> QED  BY <1>1, <1>2 DEF Unconditional

\* A step that submits nothing leaves the database where it was in the log.
LEMMA SameState ==
  ASSUME log' = log, UNCHANGED <<db, done, outcome, crashes>>, NEW a \in 0..Len(log)
  PROVE  /\ (crashes = 0 \/ Unconditional => StateAt(a))
              => (crashes = 0 \/ Unconditional => StateAt(a))'
         /\ (crashes = 0 => AnswersAt(a)) => (crashes = 0 => AnswersAt(a))'
<1>1. StateAt(a)' <=> StateAt(a)
  BY SameLog DEF StateAt, Ahead
<1>2. AnswersAt(a)' <=> AnswersAt(a)
  BY SameLog DEF AnswersAt, Holds
<1> QED  BY <1>1, <1>2, SameLog

\* A task takes the entries between the old and the new lastApplied: nobody else has them.
LEMMA TakeInv ==
  ASSUME IInv, NEW t \in Task, NEW c \in 0..Len(log), NEW x \in 0..Len(log), Take(t, c, x)
  PROVE  IInv'
<1>1. CursorInv' /\ TypeOK' /\ TaskInv' /\ lastApplied <= lastApplied'
        /\ Todo(t) = << >> /\ Todo(t)' = Run(lastApplied, lastApplied')
        /\ \A u \in Task \ {t} : Todo(u)' = Todo(u)
  BY TakeCursors
<1>2. Len(log) \in Nat /\ log' = log /\ lastApplied \in 0..Len(log) /\ lastApplied' \in 0..Len(log)
  BY <1>1, LogFacts DEF Take, IInv, CursorInv
<1>3. lastApplied \in Nat /\ lastApplied' \in Nat
  BY <1>2
<1>4. HandInv'
  <2>1. Pending(t)' = lastApplied + 1..lastApplied' /\ Pending(t) = {}
    BY <1>1, <1>3, RunFacts DEF Pending, Entries
  <2>2. \A u \in Task \ {t} : Pending(u)' = Pending(u)
    BY <1>1 DEF Pending
  <2>3. \A u \in Task \ {t} : \A k \in Pending(u) : k \in Nat /\ k <= lastApplied
    BY <1>3, TodoFacts DEF IInv
  <2>4. ASSUME NEW u \in Task, NEW w \in Task, u # w PROVE Pending(u)' \cap Pending(w)' = {}
    BY <1>3, <2>1, <2>2, <2>3, <2>4 DEF IInv, HandInv
  <2>5. Index' = Index /\ Index \subseteq Nat
    BY <1>2, SameLog DEF Index
  <2>6. ASSUME NEW k \in Index
        PROVE  since'[k] = IF base' < k /\ k <= lastApplied' /\ \A u \in Task : k \notin Pending(u)'
                           THEN 1 ELSE 0
    <3>1. since' = since /\ base' = base
      BY DEF Take
    <3>2. CASE k > lastApplied
      <4>1. k <= lastApplied' => k \in Pending(t)'
        BY <1>3, <2>1, <2>5, <3>2
      <4> QED  BY <1>3, <2>5, <3>1, <3>2, <4>1 DEF IInv, HandInv
    <3>3. CASE k <= lastApplied
      <4>1. k <= lastApplied' /\ k \notin Pending(t)' /\ k \notin Pending(t)
        BY <1>1, <1>3, <2>1, <2>5, <3>3
      <4>2. (\A u \in Task : k \notin Pending(u)') <=> (\A u \in Task : k \notin Pending(u))
        BY <2>2, <4>1
      <4> QED  BY <3>1, <3>3, <4>1, <4>2 DEF IInv, HandInv
    <3> QED  BY <1>3, <2>5, <3>2, <3>3
  <2> QED  BY <2>4, <2>5, <2>6 DEF HandInv
<1>5. OrderInv'
  <2> SUFFICES ASSUME ~overlap'
               PROVE  \E a \in 0..Len(log) :
                        /\ Front(a)'
                        /\ (crashes = 0 \/ Unconditional => StateAt(a))'
                        /\ (crashes = 0 => AnswersAt(a))'
    BY <1>2 DEF OrderInv
  <2>1. ~overlap /\ (lastApplied' # lastApplied => Others(t) = {})
    BY DEF Take
  <2>2. PICK a \in 0..Len(log) : /\ Front(a)
                                 /\ crashes = 0 \/ Unconditional => StateAt(a)
                                 /\ crashes = 0 => AnswersAt(a)
    BY <2>1 DEF IInv, OrderInv
  <2>3. UNCHANGED <<db, done, outcome, crashes, base, snap>>
    BY DEF Take
  <2>4. Front(a)'
    <3>1. CASE lastApplied' = lastApplied
      <4>1. Todo(t)' = << >>
        BY <1>1, <1>3, <3>1, RunFacts
      <4>2. \A u \in Task : Todo(u)' = Todo(u)
        BY <1>1, <4>1
      <4> QED  BY <2>2, <2>3, <3>1, <4>2 DEF Front
    <3>2. CASE lastApplied' # lastApplied
      <4>1. \A u \in Task : Todo(u) = << >>
        BY <1>1, <2>1, <3>2 DEF Others
      <4>2. a = lastApplied
        BY <1>2, <2>2, <4>1 DEF Front
      <4>3. \A u \in Task \ {t} : Todo(u)' = << >>
        BY <1>1, <4>1
      <4>4. Todo(t)' # << >>
        BY <1>1, <1>3, <3>2, RunFacts
      <4>5. snap' <= a /\ a <= lastApplied' /\ \A k \in base' + 1..a : k \in done'
        BY <1>1, <2>2, <2>3, <4>2 DEF Front
      <4> QED  BY <1>1, <4>2, <4>3, <4>4, <4>5 DEF Front
    <3> QED  BY <3>1, <3>2
  <2> QED  BY <1>2, <2>2, <2>3, <2>4, SameState
<1> QED  BY <1>1, <1>4, <1>5 DEF IInv

\* A task submits the first entry it has.
LEMMA SubmitCursors ==
  ASSUME IInv, NEW t \in Task, Submit(t)
  PROVE  /\ CursorInv' /\ TypeOK' /\ TaskInv'
         /\ Head(Todo(t)) \in Index
         /\ Pending(t) = Pending(t)' \cup {Head(Todo(t))}
         /\ base < Head(Todo(t)) /\ Head(Todo(t)) <= lastApplied
         /\ Head(Todo(t)) \notin Pending(t)'
         /\ Todo(t)' = Tail(Todo(t))
         /\ \A u \in Task \ {t} : Todo(u)' = Todo(u)
<1> USE DEF IInv
<1> DEFINE k == Head(Todo(t))
<1>0. Len(log) \in Nat /\ log' = log /\ UNCHANGED <<commit, lastApplied, snap, crashes, base, overlap>>
  BY LogFacts DEF Submit
<1>1. task[t] # Idle /\ Todo(t) = task[t].todo /\ Todo(t) # << >>
  BY DEF Submit, Todo
<1>2. PICK c, a, b \in 0..Len(log) :
        base <= a /\ a <= b /\ b <= lastApplied /\ task[t] = Busy(c, a, b)
  BY <1>1 DEF TaskInv
<1>3. a \in Nat /\ b \in Nat /\ Todo(t) = Run(a, b) /\ a < b
  <2>1. a \in Nat /\ b \in Nat /\ Todo(t) = Run(a, b)
    BY <1>0, <1>1, <1>2 DEF Busy
  <2>2. a # b
    BY <1>1, <1>2, <2>1, RunFacts
  <2> QED  BY <1>2, <2>1, <2>2
<1>4. k = a + 1 /\ Tail(Todo(t)) = Run(a + 1, b)
  BY <1>2, <1>3, RunFacts
<1>5. base < k /\ k <= lastApplied /\ k \in Index
  BY <1>0, <1>2, <1>3, <1>4 DEF CursorInv, Index
<1>6. task'[t] = Busy(c, a + 1, b) /\ \A u \in Task \ {t} : task'[u] = task[u]
  <2>1. task' = [task EXCEPT ![t] = [task[t] EXCEPT !.todo = Tail(task[t].todo)]]
    BY DEF Submit
  <2>2. task'[t] = [task[t] EXCEPT !.todo = Run(a + 1, b)]
    BY <1>1, <1>4, <2>1 DEF TaskInv
  <2>3. task'[t] = Busy(c, a + 1, b)
    BY <1>2, <2>2 DEF Busy
  <2> QED  BY <2>1, <2>3 DEF TaskInv
<1>7. task'[t] # Idle /\ Todo(t)' = Run(a + 1, b) /\ \A u \in Task \ {t} : Todo(u)' = Todo(u)
  BY <1>6 DEF Busy, Idle, Todo
<1>8. Pending(t) = a + 1..b /\ Pending(t)' = a + 2..b
  <2>1. a + 1 \in Nat /\ a + 1 <= b /\ a + 1 + 1 = a + 2
    BY <1>3
  <2>2. Entries(Run(a + 1, b)) = a + 2..b
    BY <1>3, <2>1, RunFacts
  <2>3. Entries(Run(a, b)) = a + 1..b
    BY <1>2, <1>3, RunFacts
  <2> QED  BY <1>3, <1>7, <2>2, <2>3 DEF Pending
<1>9. CursorInv'
  BY <1>0 DEF CursorInv
<1>10. TypeOK'
  <2>1. IsMap(log[k].write, Key)
    BY <1>5, LogFacts
  <2>2. db' \in [Key -> Val \cup {Absent}]
    BY <2>1, ApplyOpType DEF Submit, TypeOK, State
  <2>3. outcome' \in [Index -> BOOLEAN]
    BY DEF Submit, TypeOK, Holds
  <2>4. since' \in [Index -> Nat] /\ done' \subseteq Index
    BY <1>5 DEF Submit, TypeOK
  <2>5. Index' = Index
    BY <1>0, SameLog
  <2> QED  BY <1>0, <2>2, <2>3, <2>4, <2>5 DEF TypeOK
<1>11. TaskInv'
  <2>1. DOMAIN task' = Task /\ task' = [u \in Task |-> task'[u]]
    BY DEF Submit, TaskInv
  <2>2. a + 1 \in 0..Len(log) /\ base <= a + 1 /\ a + 1 <= b
    BY <1>0, <1>2, <1>3 DEF CursorInv
  <2> QED  BY <1>0, <1>2, <1>6, <2>1, <2>2 DEF TaskInv
<1> QED  BY <1>3, <1>4, <1>5, <1>7, <1>8, <1>9, <1>10, <1>11

\* The entry after a, applied to a database that is where the log is at a.
LEMMA SubmitState ==
  ASSUME IInv, NEW t \in Task, Submit(t), NEW a \in Nat, Head(Todo(t)) = a + 1,
         a + 1 \in Index,
         crashes = 0 \/ Unconditional => StateAt(a),
         crashes = 0 => AnswersAt(a)
  PROVE  /\ (crashes = 0 \/ Unconditional => StateAt(a + 1))'
         /\ (crashes = 0 => AnswersAt(a + 1))'
<1> DEFINE op == log[a + 1]
<1>0. log' = log /\ crashes' = crashes /\ db' = ApplyOp(db, op) /\ done' = done \cup {a + 1}
        /\ outcome' = [outcome EXCEPT ![a + 1] = Holds(db, op)]
  BY DEF Submit
<1>1. Replay' = Replay /\ (Unconditional' <=> Unconditional) /\ Index \subseteq Nat
  BY <1>0, SameLog, LogFacts DEF IInv
<1>2. Replay[a + 1] = ApplyOp(Replay[a], op) /\ Replay[a] \in State /\ db \in State
  <2>1. a + 1 - 1 = a /\ a \in 0..Len(log)
    BY LogFacts DEF IInv
  <2>2. Replay[a + 1] = ApplyOp(Replay[a + 1 - 1], op)
    BY ReplayFacts DEF IInv
  <2> QED  BY <2>1, <2>2, ReplayFacts DEF IInv, TypeOK, State
<1>3. ASSUME crashes = 0 PROVE db = Replay[a] /\ Holds(db, op) = Holds(Replay[a], op)
  <2>1. \A k \in Key : db[k] = Replay[a][k]
    <3>1. \A k \in Key : ~Ahead(a, k)
      BY <1>1, <1>3 DEF AnswersAt, Ahead, IInv, TypeOK
    <3> QED  BY <1>3, <3>1 DEF StateAt
  <2>2. db = Replay[a]
    BY <1>2, <2>1 DEF State
  <2> QED  BY <2>2
<1>4. ASSUME crashes' = 0 PROVE StateAt(a + 1)' /\ AnswersAt(a + 1)'
  <2>1. db' = Replay[a + 1]
    BY <1>0, <1>2, <1>3, <1>4
  <2>2. \A k \in done' : k <= a + 1
    BY <1>0, <1>1, <1>4 DEF AnswersAt, IInv, TypeOK
  <2>3. \A k \in 1..a : outcome'[k] = outcome[k]
    BY <1>0
  <2>4. outcome'[a + 1] = Holds(Replay[a + 1 - 1], op)
    <3>1. outcome'[a + 1] = Holds(db, op)
      BY <1>0 DEF IInv, TypeOK
    <3>2. a + 1 - 1 = a
      OBVIOUS
    <3> QED  BY <1>0, <1>3, <1>4, <3>1, <3>2
  <2>5. \A k \in 1..a + 1 : k \in 1..a \/ k = a + 1
    OBVIOUS
  <2>6. \A k \in 1..a + 1 : outcome'[k] = Holds(Replay[k - 1], log[k])
    BY <1>0, <1>4, <2>3, <2>4, <2>5 DEF AnswersAt
  <2>7. StateAt(a + 1)'
    BY <1>1, <2>1 DEF StateAt
  <2>8. AnswersAt(a + 1)'
    BY <1>0, <1>1, <2>2, <2>6 DEF AnswersAt, Holds
  <2> QED  BY <2>7, <2>8
<1>5. ASSUME Unconditional' PROVE StateAt(a + 1)'
  <2>1. Unconditional /\ StateAt(a)
    BY <1>1, <1>5
  <2>2. Holds(db, op) /\ Holds(Replay[a], op)
    BY <2>1 DEF Unconditional, Holds
  <2>3. ASSUME NEW k \in Key, ~Ahead(a + 1, k)' PROVE db'[k] = Replay[a + 1][k]
    <3>1. CASE k \in DOMAIN op.write
      BY <1>0, <1>2, <2>2, <3>1 DEF ApplyOp
    <3>2. CASE k \notin DOMAIN op.write
      <4>1. ~Ahead(a, k)
        <5> SUFFICES ASSUME NEW j \in done, j > a, k \in DOMAIN log[j].write PROVE FALSE
          BY DEF Ahead
        <5>1. j \in Nat /\ j # a + 1 /\ j \in done'
          BY <1>0, <1>1, <3>2 DEF IInv, TypeOK
        <5>2. j > a + 1
          BY <5>1
        <5> QED  BY <1>0, <2>3, <5>1, <5>2 DEF Ahead
      <4>2. db[k] = Replay[a][k]
        BY <2>1, <4>1 DEF StateAt
      <4> QED  BY <1>0, <1>2, <2>2, <3>2, <4>2 DEF ApplyOp
    <3> QED  BY <3>1, <3>2
  <2> QED  BY <1>1, <2>3 DEF StateAt
<1> QED  BY <1>4, <1>5

\* A task submits the first of its entries, and has it no more.
LEMMA SubmitInv ==
  ASSUME IInv, NEW t \in Task, Submit(t)
  PROVE  IInv'
<1> DEFINE k == Head(Todo(t))
<1>1. /\ CursorInv' /\ TypeOK' /\ TaskInv' /\ k \in Index
      /\ Pending(t) = Pending(t)' \cup {k} /\ base < k /\ k <= lastApplied
      /\ k \notin Pending(t)' /\ Todo(t)' = Tail(Todo(t))
      /\ \A u \in Task \ {t} : Todo(u)' = Todo(u)
  BY SubmitCursors
<1>2. /\ log' = log /\ UNCHANGED <<commit, lastApplied, snap, crashes, base, overlap>>
      /\ Todo(t) # << >> /\ since' = [since EXCEPT ![k] = @ + 1] /\ done' = done \cup {k}
  BY DEF Submit
<1> HIDE DEF k
<1>3. Index' = Index /\ Index \subseteq Nat /\ Len(log) \in Nat /\ lastApplied \in 0..Len(log)
  BY <1>2, SameLog, LogFacts DEF IInv, CursorInv
<1>4. HandInv'
  <2>1. \A u \in Task \ {t} : Pending(u)' = Pending(u) /\ k \notin Pending(u)
    BY <1>1 DEF Pending, IInv, HandInv
  <2>2. \A u, w \in Task : u # w => Pending(u)' \cap Pending(w)' = {}
    BY <1>1, <2>1 DEF IInv, HandInv
  <2>3. ASSUME NEW j \in Index
        PROVE  since'[j] = IF base' < j /\ j <= lastApplied' /\ \A u \in Task : j \notin Pending(u)'
                           THEN 1 ELSE 0
    <3>1. CASE j = k
      <4>1. since[j] = 0
        BY <1>1, <3>1 DEF IInv, HandInv
      <4>2. since'[j] = 1
        BY <1>2, <3>1, <4>1 DEF IInv, TypeOK
      <4> QED  BY <1>1, <1>2, <2>1, <3>1, <4>2
    <3>2. CASE j # k
      <4>1. since'[j] = since[j]
        BY <1>2, <3>2 DEF IInv, TypeOK
      <4>2. \A u \in Task : j \in Pending(u)' <=> j \in Pending(u)
        BY <1>1, <2>1, <3>2
      <4> QED  BY <1>2, <4>1, <4>2 DEF IInv, HandInv
    <3> QED  BY <3>1, <3>2
  <2> QED  BY <1>3, <2>2, <2>3 DEF HandInv
<1>5. OrderInv'
  <2> SUFFICES ASSUME ~overlap
               PROVE  \E a \in 0..Len(log) :
                        /\ Front(a)'
                        /\ (crashes = 0 \/ Unconditional => StateAt(a))'
                        /\ (crashes = 0 => AnswersAt(a))'
    BY <1>2 DEF OrderInv
  <2>1. PICK a \in 0..Len(log) : /\ Front(a)
                                 /\ crashes = 0 \/ Unconditional => StateAt(a)
                                 /\ crashes = 0 => AnswersAt(a)
    BY DEF IInv, OrderInv
  <2>2. a \in Nat /\ lastApplied \in Nat /\ a <= lastApplied /\ Todo(t) = Run(a, lastApplied)
    BY <1>2, <1>3, <2>1 DEF Front
  <2>3. a # lastApplied
    BY <1>2, <2>2, RunFacts
  <2>4. a < lastApplied /\ a + 1 \in Nat /\ a + 1 <= lastApplied /\ a + 1 \in 0..Len(log)
    BY <1>3, <2>2, <2>3
  <2>5. k = a + 1 /\ Todo(t)' = Run(a + 1, lastApplied)
    BY <1>1, <2>2, <2>4, RunFacts DEF k
  <2>6. \A u \in Task \ {t} : Todo(u) = << >> /\ Todo(u)' = << >>
    BY <1>1, <1>2, <2>1 DEF Front
  <2>7. Front(a + 1)'
    <3>1. snap' <= a + 1 /\ a + 1 <= lastApplied'
      BY <1>2, <1>3, <2>1, <2>2, <2>4 DEF Front, IInv, CursorInv
    <3>2. a + 1 < lastApplied' => Todo(t)' # << >>
      BY <1>2, <2>2, <2>4, <2>5, RunFacts
    <3>3. \A j \in base' + 1..a + 1 : j \in done'
      <4>1. base \in Nat
        BY <1>3 DEF IInv, CursorInv
      <4>2. \A j \in base + 1..a + 1 : j \in base + 1..a \/ j = a + 1
        BY <2>2, <4>1
      <4> QED  BY <1>2, <2>1, <2>5, <4>2 DEF Front
    <3> QED  BY <1>2, <2>5, <2>6, <3>1, <3>2, <3>3 DEF Front
  <2>8. /\ (crashes = 0 \/ Unconditional => StateAt(a + 1))'
        /\ (crashes = 0 => AnswersAt(a + 1))'
    BY <1>1, <2>1, <2>2, <2>5, SubmitState DEF k
  <2> QED  BY <2>4, <2>7, <2>8
<1> QED  BY <1>1, <1>4, <1>5 DEF IInv

\* The round ends; the log is compacted up to a point that has been passed.
LEMMA FinishInv ==
  ASSUME IInv, NEW t \in Task, Finish(t)
  PROVE  IInv'
<1> USE DEF IInv
<1>0. Len(log) \in Nat /\ log' = log
        /\ UNCHANGED <<db, commit, lastApplied, crashes, done, since, outcome, base>>
  BY LogFacts DEF Finish
<1>1. task[t] # Idle /\ Todo(t) = << >> /\ snap' = Compacted(task[t].compact)
  BY DEF Finish
<1>2. PICK c, a, b \in 0..Len(log) : task[t] = Busy(c, a, b)
  BY <1>1 DEF TaskInv
<1>3. snap' \in 0..Len(log) /\ snap <= snap' /\ snap' <= lastApplied
  <2>1. task[t].compact = c
    BY <1>2 DEF Busy
  <2> QED  BY <1>0, <1>1, <2>1 DEF Compacted, CursorInv
<1>4. CursorInv'
  BY <1>0, <1>3 DEF CursorInv
<1>5. TypeOK'
  <2>1. overlap' \in BOOLEAN
    BY DEF Finish, TypeOK
  <2>2. Index' = Index
    BY <1>0, SameLog
  <2> QED  BY <1>0, <1>3, <2>1, <2>2 DEF TypeOK
<1>6. task'[t] = Idle /\ \A u \in Task \ {t} : task'[u] = task[u]
  BY DEF Finish, TaskInv
<1>7. \A u \in Task : Todo(u)' = Todo(u) /\ Pending(u)' = Pending(u)
  BY <1>1, <1>6 DEF Todo, Pending
<1>8. TaskInv'
  <2>1. DOMAIN task' = Task /\ task' = [u \in Task |-> task'[u]]
    BY DEF Finish, TaskInv
  <2> QED  BY <1>0, <1>6, <2>1 DEF TaskInv
<1>9. HandInv'
  BY <1>0, <1>7, SameLog DEF HandInv
<1>10. OrderInv'
  <2> SUFFICES ASSUME ~overlap'
               PROVE  \E e \in 0..Len(log) :
                        /\ Front(e)'
                        /\ (crashes = 0 \/ Unconditional => StateAt(e))'
                        /\ (crashes = 0 => AnswersAt(e))'
    BY <1>0 DEF OrderInv
  <2>1. ~overlap /\ (snap' # snap => Others(t) = {})
    BY DEF Finish
  <2>2. PICK e \in 0..Len(log) : /\ Front(e)
                                 /\ crashes = 0 \/ Unconditional => StateAt(e)
                                 /\ crashes = 0 => AnswersAt(e)
    BY <2>1 DEF OrderInv
  <2>3. snap' <= e
    <3>1. CASE snap' = snap  BY <2>2, <3>1 DEF Front
    <3>2. CASE snap' # snap
      <4>1. \A u \in Task : Todo(u) = << >>
        BY <1>1, <2>1, <3>2 DEF Others
      <4>2. e = lastApplied
        BY <1>0, <2>2, <4>1 DEF Front, CursorInv
      <4> QED  BY <1>3, <4>2
    <3> QED  BY <3>1, <3>2
  <2>4. Front(e)'
    BY <1>0, <1>7, <2>2, <2>3 DEF Front
  <2> QED  BY <1>0, <2>2, <2>4, SameState
<1> QED  BY <1>4, <1>5, <1>8, <1>9, <1>10

\* A key that the entries from m to n do not write is at n what it is at m.
LEMMA ReplayKeeps ==
  ASSUME CursorInv, NEW m \in 0..Len(log), NEW k \in Key, NEW n \in 0..Len(log), m <= n,
         \A j \in m + 1..n : k \notin DOMAIN log[j].write
  PROVE  Replay[n][k] = Replay[m][k]
<1>0. Len(log) \in Nat /\ Index = 1..Len(log)
  BY LogFacts
<1> DEFINE P == {d \in Nat : m + d <= n => Replay[m + d][k] = Replay[m][k]}
<1>1. 0 \in P
  <2>1. m + 0 = m
    BY <1>0
  <2> QED  BY <2>1
<1>2. ASSUME NEW d \in Nat, d \in P PROVE d + 1 \in P
  <2> SUFFICES ASSUME m + (d + 1) <= n PROVE Replay[m + (d + 1)][k] = Replay[m][k]
    OBVIOUS
  <2> DEFINE j == m + (d + 1)
  <2>1. j \in m + 1..n /\ j \in Index /\ j - 1 = m + d /\ m + d <= n /\ m + d \in 0..Len(log)
    BY <1>0
  <2>2. Replay[m + d][k] = Replay[m][k]
    BY <1>2, <2>1
  <2>3. k \notin DOMAIN log[j].write
    BY <2>1
  <2> HIDE DEF j
  <2>4. Replay[j] = ApplyOp(Replay[m + d], log[j])
    BY <2>1, ReplayFacts
  <2>5. Replay[j][k] = Replay[m + d][k]
    BY <2>3, <2>4 DEF ApplyOp
  <2> QED  BY <2>2, <2>5 DEF j
<1> HIDE DEF P
<1>3. n - m \in P
  <2>1. n - m \in Nat
    BY <1>0
  <2> QED  BY <1>1, <1>2, <2>1, SetInduction
<1>4. m + (n - m) = n /\ n <= n
  BY <1>0
<1> QED  BY <1>3, <1>4 DEF P

\* The process dies; what was taken is gone, and the cursors start at the snapshot.
LEMMA CrashInv ==
  ASSUME IInv, Crash
  PROVE  IInv'
<1> USE DEF IInv
<1>0. Len(log) \in Nat /\ log' = log /\ UNCHANGED <<db, snap, done, outcome, overlap>>
        /\ crashes' = crashes + 1 /\ commit' = snap /\ lastApplied' = snap /\ base' = snap
  BY LogFacts DEF Crash, Opened
<1>1. CursorInv'
  BY <1>0 DEF CursorInv
<1>2. TypeOK'
  <2>1. Index' = Index /\ since' = [k \in Index |-> 0]
    BY <1>0, SameLog DEF Crash
  <2> QED  BY <1>0, <1>1, <2>1 DEF TypeOK, CursorInv
<1>3. task' = [u \in Task |-> Idle]
  BY DEF Crash
<1>4. \A u \in Task : Todo(u)' = << >> /\ Pending(u)' = {}
  BY <1>3 DEF Todo, Pending, Entries
<1>5. TaskInv'
  BY <1>3 DEF TaskInv
<1>6. HandInv'
  <2>1. Index' = Index /\ Index \subseteq Nat /\ snap \in Nat
    BY <1>0, SameLog, LogFacts DEF CursorInv
  <2>2. \A k \in Index : since'[k] = 0 /\ ~(base' < k /\ k <= lastApplied')
    BY <1>0, <2>1 DEF Crash
  <2> QED  BY <1>4, <2>1, <2>2 DEF HandInv
<1>7. OrderInv'
  <2> SUFFICES ASSUME ~overlap
               PROVE  /\ Front(snap)'
                      /\ (crashes = 0 \/ Unconditional => StateAt(snap))'
                      /\ (crashes = 0 => AnswersAt(snap))'
    BY <1>0, <1>1 DEF OrderInv, CursorInv
  <2>1. PICK a \in 0..Len(log) : /\ Front(a)
                                 /\ crashes = 0 \/ Unconditional => StateAt(a)
    BY DEF OrderInv
  <2>2. crashes' # 0 /\ snap \in 0..Len(log) /\ base \in 0..Len(log) /\ base <= snap /\ snap <= a
    BY <1>0, <2>1 DEF CursorInv, Front
  <2>3. Front(snap)'
    BY <1>0, <1>4, <2>2 DEF Front
  <2>4. ASSUME Unconditional PROVE StateAt(snap)'
    <3> SUFFICES ASSUME NEW k \in Key, ~Ahead(snap, k) PROVE db[k] = Replay[snap][k]
      BY <1>0, SameLog DEF StateAt, Ahead
    <3>1. ~Ahead(a, k)
      BY <1>0, <2>2, LogFacts DEF Ahead, TypeOK
    <3>2. db[k] = Replay[a][k]
      BY <2>1, <2>4, <3>1 DEF StateAt
    <3>3. \A j \in snap + 1..a : k \notin DOMAIN log[j].write
      <4> TAKE j \in snap + 1..a
      <4>1. j \in base + 1..a /\ j > snap
        BY <1>0, <2>2
      <4>2. j \in done
        BY <2>1, <4>1 DEF Front
      <4> QED  BY <4>1, <4>2 DEF Ahead
    <3>4. Replay[a][k] = Replay[snap][k]
      BY <2>2, <3>3, ReplayKeeps
    <3> QED  BY <3>2, <3>4
  <2> QED  BY <1>0, <2>2, <2>3, <2>4, SameLog
<1> QED  BY <1>1, <1>2, <1>5, <1>6, <1>7

\* A stuttering step keeps the invariant.
LEMMA StutterInv ==
  ASSUME IInv, UNCHANGED vars
  PROVE  IInv'
<1> USE DEF IInv, vars
<1>1. Index' = Index /\ Replay' = Replay /\ (Unconditional' <=> Unconditional)
  BY SameLog
<1>2. CursorInv' /\ TypeOK' /\ TaskInv'
  BY <1>1 DEF CursorInv, TypeOK, TaskInv
<1>3. HandInv'
  BY <1>1 DEF HandInv, Pending, Todo
<1>4. ASSUME NEW a \in 0..Len(log) PROVE Front(a)' <=> Front(a)
  BY DEF Front, Todo
<1>5. OrderInv'
  BY <1>4, SameState DEF OrderInv
<1> QED  BY <1>2, <1>3, <1>5

\* The invariant holds always.
LEMMA InvHolds == Spec => []IInv
<1>1. IInv /\ [Next]_vars => IInv'
  BY TakeInv, SubmitInv, FinishInv, CrashInv, StutterInv DEF Next
<1> QED  BY <1>1, InitInv, PTL DEF Spec

----------------------------------------------------------------------------
(* The theorems *)

\* last_applied never passes the commit index, and nothing is compacted that last_applied
\* has not passed.
THEOREM TypeCorrect == Spec => []TypeOK
<1>1. IInv => TypeOK
  BY DEF IInv
<1> QED  BY <1>1, InvHolds, PTL

\* However many tasks race for the committed entries, each is handed to one of them and
\* none is passed over: between restarts it is submitted to the writer once.
THEOREM EntriesAppliedOnce == Spec => []AppliedOnce
<1>1. ASSUME IInv PROVE AppliedOnce
  <2>1. Index = 1..Len(log) /\ Len(log) \in Nat
    BY <1>1, LogFacts DEF IInv
  <2>2. \A k \in Index : since[k] <= 1
    BY <1>1 DEF IInv, HandInv
  <2>3. ASSUME Quiet, NEW k \in base + 1..lastApplied PROVE since[k] = 1
    <3>1. k \in Index /\ base < k /\ k <= lastApplied
      BY <1>1, <2>1 DEF IInv, CursorInv
    <3>2. \A t \in Task : k \notin Pending(t)
      BY <2>3 DEF Quiet, Pending, Todo, Entries
    <3> QED  BY <1>1, <3>1, <3>2 DEF IInv, HandInv
  <2> QED  BY <2>2, <2>3 DEF AppliedOnce
<1> QED  BY <1>1, InvHolds, PTL

\* A node whose tasks never overlapped holds the state that the log gives, and has told its
\* clients the outcomes that the log gives, after any number of crashes if the log is
\* without conditions.
THEOREM NodeReplaysLog == Spec => []InOrderIsReplay
<1>1. ASSUME IInv PROVE InOrderIsReplay
  <2> SUFFICES ASSUME Quiet, ~overlap, done \subseteq 1..lastApplied, crashes = 0 \/ Unconditional
               PROVE  /\ db = Replay[lastApplied]
                      /\ crashes = 0 => \A k \in 1..lastApplied :
                                          outcome[k] = Holds(Replay[k - 1], log[k])
    BY DEF InOrderIsReplay
  <2>1. PICK a \in 0..Len(log) : Front(a) /\ StateAt(a) /\ (crashes = 0 => AnswersAt(a))
    BY <1>1 DEF IInv, OrderInv
  <2>2. a \in Nat /\ lastApplied \in 0..Len(log)
    BY <1>1, LogFacts DEF IInv, CursorInv
  <2>3. a = lastApplied
    <3>1. \A t \in Task : Todo(t) = << >>
      BY DEF Quiet, Todo
    <3> QED  BY <1>1, <2>1, <2>2, <3>1, LogFacts DEF Front, IInv
  <2>4. \A k \in Key : db[k] = Replay[lastApplied][k]
    <3>1. \A k \in Key : ~Ahead(a, k)
      BY <1>1, <2>2, <2>3, LogFacts DEF Ahead, IInv
    <3> QED  BY <2>1, <2>3, <3>1 DEF StateAt
  <2>5. db \in State /\ Replay[lastApplied] \in State
    BY <1>1, <2>2, ReplayFacts DEF IInv, TypeOK, State
  <2>6. db = Replay[lastApplied]
    BY <2>4, <2>5 DEF State
  <2> QED  BY <2>1, <2>3, <2>6 DEF AnswersAt
<1> QED  BY <1>1, InvHolds, PTL

=============================================================================
