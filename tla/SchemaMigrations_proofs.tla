---------------------- MODULE SchemaMigrations_proofs ----------------------
(***************************************************************************)
(* Proofs about SchemaMigrations, for any number of alembic processes, any *)
(* revisions they go to and any rows of the first release.                 *)
(***************************************************************************)
EXTENDS SchemaMigrations, TLAPS

USE DEF runVars, requestVars, vars

\* A step of one runner, as far as alembic_version is concerned.
BeginsAt(r) ==
  /\ outcome[r] = "idle" /\ outcome' = [outcome EXCEPT ![r] = "running"]
  /\ run'[r].from = version /\ run'[r].at = version
  /\ UNCHANGED version

GoesOn(r) ==
  /\ Running(r) /\ run'[r].from = run[r].from /\ run'[r].goal = run[r].goal
  /\ run'[r].at = run[r].at
  /\ UNCHANGED <<version, outcome>>

Stamps(r) ==
  /\ Running(r) /\ run'[r].from = run[r].from /\ run'[r].goal = run[r].goal
  /\ StampBlockers(r) = {}
  /\ Stamped(r) \/ version = run[r].from
  /\ UNCHANGED <<version, outcome>>

Ends(r, how) ==
  /\ Running(r) /\ run' = run
  /\ outcome' = [outcome EXCEPT ![r] = how]

LEMMA RunnerEffect ==
  ASSUME StampInv, NEW r \in Runners, RunnerStep(r)
  PROVE  /\ run' = [run EXCEPT ![r] = run'[r]]
         /\ run'[r] = [goal |-> run'[r].goal, from |-> run'[r].from, at |-> run'[r].at,
                       todo |-> run'[r].todo]
         /\ \/ BeginsAt(r)
            \/ GoesOn(r)
            \/ Stamps(r)
            \/ /\ Ends(r, "done") /\ run[r].at = run[r].goal
               /\ version' = IF Stamped(r) THEN run[r].goal ELSE version
            \/ \E how \in {"failed", "killed"} : Ends(r, how) /\ UNCHANGED version
<1> DEFINE Fields(x) == [goal |-> x.goal, from |-> x.from, at |-> x.at, todo |-> x.todo]
<1>1. DOMAIN run = Runners /\ run[r] = Fields(run[r]) /\ run = [x \in DOMAIN run |-> run[x]]
  BY DEF StampInv
<1>2. CASE Begin(r)
  BY <1>2 DEF Begin, BeginsAt, StampInv
<1>3. CASE Execute(r)
  <2>1. run' = [run EXCEPT ![r].todo = Tail(run[r].todo)]
    BY <1>3 DEF Execute
  <2>2. Running(r) /\ UNCHANGED <<version, outcome>>
    BY <1>3 DEF Execute
  <2>3. run'[r] = [goal |-> run[r].goal, from |-> run[r].from, at |-> run[r].at,
                   todo |-> Tail(run[r].todo)]
    BY <1>1, <2>1
  <2>4. run' = [run EXCEPT ![r] = run'[r]]
    BY <1>1, <2>1
  <2>5. QED
    BY <2>2, <2>3, <2>4 DEF GoesOn
<1>4. CASE Stamp(r)
  <2>1. PICK at, todo : run' = [run EXCEPT ![r].at = at, ![r].todo = todo]
    BY <1>4 DEF Stamp
  <2>2. /\ Running(r) /\ UNCHANGED <<version, outcome>>
        /\ StampBlockers(r) = {}
        /\ Stamped(r) \/ version = run[r].from
    BY <1>4 DEF Stamp
  <2>3. run'[r] = [goal |-> run[r].goal, from |-> run[r].from, at |-> at, todo |-> todo]
    BY <1>1, <2>1
  <2>4. run' = [run EXCEPT ![r] = run'[r]]
    BY <1>1, <2>1
  <2>5. QED
    BY <2>2, <2>3, <2>4 DEF Stamps
<1>5. CASE StatementFails(r) \/ StampFails(r) \/ RunKilled(r)
  BY <1>5 DEF StatementFails, StampFails, RunKilled, RollBack, End, Ends, StampInv
<1>6. CASE CommitRun(r)
  BY <1>6 DEF CommitRun, End, Ends, StampInv
<1>7. QED
  BY <1>2, <1>3, <1>4, <1>5, <1>6 DEF RunnerStep

-----------------------------------------------------------------------------
LEMMA StampInit == Init => StampInv
  BY DEF Init, StampInv, Running

LEMMA OutcomeOfOthers ==
  ASSUME StampInv, NEW r \in Runners, RunnerStep(r)
  PROVE  DOMAIN outcome' = Runners /\ \A x \in Runners \ {r} : outcome'[x] = outcome[x]
<1>1. CASE BeginsAt(r)
  <2>1. DOMAIN outcome = Runners /\ outcome' = [outcome EXCEPT ![r] = "running"]
    BY <1>1 DEF BeginsAt, StampInv
  <2>2. QED
    BY <2>1
<1>2. CASE GoesOn(r) \/ Stamps(r)
  <2>1. DOMAIN outcome = Runners /\ outcome' = outcome
    BY <1>2 DEF GoesOn, Stamps, StampInv
  <2>2. QED
    BY <2>1
<1>3. ASSUME NEW how, Ends(r, how)
      PROVE  DOMAIN outcome' = Runners /\ \A x \in Runners \ {r} : outcome'[x] = outcome[x]
  <2>1. DOMAIN outcome = Runners /\ outcome' = [outcome EXCEPT ![r] = how]
    BY <1>3 DEF Ends, StampInv
  <2>2. QED
    BY <2>1
<1>4. BeginsAt(r) \/ GoesOn(r) \/ Stamps(r) \/ \E how : Ends(r, how)
  BY RunnerEffect
<1>5. QED
  BY <1>1, <1>2, <1>3, <1>4

LEMMA OthersStay ==
  ASSUME StampInv, NEW r \in Runners, RunnerStep(r), NEW x \in Runners, x # r
  PROVE  run'[x] = run[x] /\ Stamped(x)' = Stamped(x) /\ (Running(x)' <=> Running(x))
<1>1. run' = [run EXCEPT ![r] = run'[r]]
  BY RunnerEffect
<1>2. run'[x] = run[x]
  BY <1>1 DEF StampInv
<1>3. outcome'[x] = outcome[x]
  BY OutcomeOfOthers
<1>4. QED
  BY <1>2, <1>3 DEF Stamped, Running

LEMMA RunnerKeepsInv ==
  ASSUME StampInv, NEW r \in Runners, RunnerStep(r) PROVE StampInv'
<1>1. /\ run' = [run EXCEPT ![r] = run'[r]]
      /\ run'[r] = [goal |-> run'[r].goal, from |-> run'[r].from, at |-> run'[r].at,
                    todo |-> run'[r].todo]
  BY RunnerEffect
<1>2. (run = [x \in Runners |-> [goal |-> run[x].goal, from |-> run[x].from, at |-> run[x].at,
                                 todo |-> run[x].todo]])'
  BY <1>1 DEF StampInv
<1>3. DOMAIN outcome' = Runners
  BY OutcomeOfOthers
<1>4. \A x \in Runners \ {r} :
        run'[x] = run[x] /\ Stamped(x)' = Stamped(x) /\ (Running(x)' <=> Running(x))
  BY OthersStay
<1>5. CASE BeginsAt(r)
  <2>1. ~Stamped(r)'
    BY <1>5 DEF BeginsAt, Stamped
  <2>2. QED
    BY <1>2, <1>3, <1>4, <1>5, <2>1 DEF BeginsAt, StampInv, Others
<1>6. CASE GoesOn(r)
  <2>1. Stamped(r)' = Stamped(r) /\ run'[r].from = run[r].from
    BY <1>6 DEF GoesOn, Stamped
  <2>2. QED
    BY <1>2, <1>3, <1>4, <1>6, <2>1 DEF GoesOn, StampInv, Others
<1>7. CASE Stamps(r)
  <2>1. version = run[r].from /\ run'[r].from = run[r].from /\ UNCHANGED <<version, outcome>>
    BY <1>7 DEF Stamps, StampInv
  <2>2. \A x \in Others(r) : ~(Running(x) /\ Stamped(x))
    BY <1>7 DEF Stamps, StampInv, StampBlockers
  <2>3. QED
    BY <1>2, <1>3, <1>4, <2>1, <2>2 DEF StampInv, Others
<1>8. ASSUME NEW how, Ends(r, how), how # "running",
             \/ UNCHANGED version
             \/ Stamped(r)
      PROVE  StampInv'
  <2>1. ~Running(r)' /\ Running(r)
    BY <1>8 DEF Ends, Running, StampInv
  <2>2. \A x \in Others(r) : Running(x)' /\ Stamped(x)' => version' = run'[x].from
    BY <1>4, <1>8, <2>1 DEF StampInv, Others
  <2>3. QED
    BY <1>2, <1>3, <1>4, <2>1, <2>2 DEF StampInv, Others
<1>9. QED
  BY <1>5, <1>6, <1>7, <1>8, RunnerEffect

\* RunIsAllOrNothing: of any number of alembic processes that run at once, each moves the
\* version from where it began to its goal in one step, or not at all.
THEOREM RunsAreAllOrNothing == Spec => RunIsAllOrNothing
<1> DEFINE Whole ==
      /\ version' # version => \E r \in Runners : version = run[r].from /\ version' = run[r].goal
      /\ \A r \in Runners :
           Running(r) /\ outcome'[r] = "done" /\ run[r].goal # run[r].from =>
             version' = run[r].goal
<1>1. StampInv /\ [Next]_vars => StampInv' /\ [Whole]_vars
  <2> SUFFICES ASSUME StampInv, [Next]_vars PROVE StampInv' /\ [Whole]_vars
    OBVIOUS
  <2>1. ASSUME NEW r \in Runners, RunnerStep(r) PROVE StampInv' /\ Whole
    <3>1. ASSUME BeginsAt(r) \/ GoesOn(r) \/ Stamps(r) PROVE Whole
      BY <3>1 DEF BeginsAt, GoesOn, Stamps, Running, StampInv
    <3>2. ASSUME Ends(r, "done"), run[r].at = run[r].goal,
                 version' = IF Stamped(r) THEN run[r].goal ELSE version
          PROVE  Whole
      BY <3>2 DEF Ends, Stamped, Running, StampInv
    <3>3. ASSUME NEW how \in {"failed", "killed"}, Ends(r, how), UNCHANGED version PROVE Whole
      BY <3>3 DEF Ends, Running, StampInv
    <3>4. QED
      BY <2>1, <3>1, <3>2, <3>3, RunnerEffect, RunnerKeepsInv
  <2>2. CASE UNCHANGED <<run, outcome, version>>
    BY <2>2 DEF StampInv, Running, Stamped
  <2>3. CASE DeadlockVictim
    <3>1. CASE UNCHANGED <<run, outcome, version>>
      BY <2>2, <3>1
    <3>2. CASE \E r \in Runners : Running(r) /\ RollBack(r, "deadlock")
      <4>1. PICK r \in Runners : Ends(r, "deadlock") /\ UNCHANGED version
        BY <3>2 DEF RollBack, End, Ends
      <4>2. QED
        BY <4>1 DEF Ends, StampInv, Running, Stamped, Others
    <3>3. QED
      BY <2>3, <3>1, <3>2 DEF DeadlockVictim, Answer
  <2>4. QED
    BY <2>1, <2>2, <2>3
       DEF Next, RequestStep, AccessFails, RowMissing, NoEntryFunction, Read, AgentFails, Persist,
           Refresh, Delete, Answer, Over
<1>2. QED
  BY <1>1, StampInit, PTL DEF Spec, RunIsAllOrNothing
-----------------------------------------------------------------------------
(* Columns and scripts. *)

\* A column belongs to one table, and the table came with its first one.
LEMMA ColumnFacts ==
  ASSUME NEW t \in Tables, NEW c \in ModelColumns(t)
  PROVE  /\ Since[c] \in 1..7
         /\ \A u \in Tables : c \in ModelColumns(u) => u = t
         /\ t \in ModelColumns(t)
         /\ Since[t] <= Since[c]
         /\ t \notin Nullable /\ t # "entry_function"
<1>1. ModelColumns("solver") =
        {"solver", "retry_used", "total_latency_ms", "entry_function", "topics"}
  BY DEF ModelColumns
<1>2. ModelColumns("verifier") = {"verifier", "failure_embedding", "embedding_status"}
  BY DEF ModelColumns
<1>3. ModelColumns("hint") = {"hint"}
  BY DEF ModelColumns
<1>4. CASE t = "solver"
  BY <1>1, <1>2, <1>3, <1>4 DEF Tables, Since, Nullable
<1>5. CASE t = "verifier"
  BY <1>1, <1>2, <1>3, <1>5 DEF Tables, Since, Nullable
<1>6. CASE t = "hint"
  BY <1>1, <1>2, <1>3, <1>6 DEF Tables, Since, Nullable
<1>7. QED
  BY <1>4, <1>5, <1>6 DEF Tables

\* The first statement, and what is left then.
LEMMA FirstStatement ==
  ASSUME NEW S, NEW todo \in Seq(S), todo # << >>
  PROVE  /\ 1 \in DOMAIN todo
         /\ Tail(todo) \in Seq(S)
         /\ \A i \in DOMAIN Tail(todo) : i + 1 \in DOMAIN todo /\ Tail(todo)[i] = todo[i + 1]
         /\ \A i \in DOMAIN todo : i = 1 \/ (i - 1 \in DOMAIN Tail(todo) /\ todo[i] = Tail(todo)[i - 1])
<1>1. PICK n \in Nat : n = Len(todo)
  OBVIOUS
<1>2. n # 0 /\ DOMAIN todo = 1..n
  BY <1>1
<1>3. Tail(todo) \in Seq(S) /\ Len(Tail(todo)) = n - 1
  BY <1>1, <1>2
<1>4. DOMAIN Tail(todo) = 1..(n - 1)
  BY <1>3
<1>5. \A i \in 1..(n - 1) : Tail(todo)[i] = todo[i + 1]
  BY <1>1, <1>2
<1>6. QED
  BY <1>2, <1>3, <1>4, <1>5

LEMMA PendingFirst ==
  ASSUME NEW S, NEW todo \in Seq(S), todo # << >>, NEW kinds, NEW c
  PROVE  Pending(todo, kinds, c) <=>
           (todo[1].do \in kinds /\ todo[1].column = c) \/ Pending(Tail(todo), kinds, c)
<1>1. /\ 1 \in DOMAIN todo
      /\ \A i \in DOMAIN Tail(todo) : i + 1 \in DOMAIN todo /\ Tail(todo)[i] = todo[i + 1]
      /\ \A i \in DOMAIN todo : i = 1 \/ (i - 1 \in DOMAIN Tail(todo) /\ todo[i] = Tail(todo)[i - 1])
  BY FirstStatement
<1>2. QED
  BY <1>1 DEF Pending

LEMMA UpScripts ==
  ASSUME NEW n \in 1..7
  PROVE  /\ Rest(Up[n], n, n)
         /\ \A t \in Tables : \A c \in ModelColumns(t) :
              Pending(Up[n], Creating, c) <=> Since[c] = n
         /\ \A i \in DOMAIN Up[n] : Up[n][i].do \notin Dropping
         /\ Up[n] \in Seq({Up[n][i] : i \in DOMAIN Up[n]})
<1> USE DEF Create, On, Rest, Orderly, Later, Sensible, Pending, Adding, Creating, Filling,
        Constraining, Dropping, Nullable, Rank, Since, Tables, ModelColumns
<1>1. CASE n = 1
  <2>1. Up[n] = <<Create("solver", "solver")>>
    BY <1>1 DEF Up, CreateSolver
  <2>2. QED
    BY <1>1, <2>1
<1>2. CASE n = 2
  <2>1. Up[n] = AddRetryMetrics
    BY <1>2 DEF Up
  <2>2. QED
    BY <1>2, <2>1 DEF AddRetryMetrics
<1>3. CASE n = 3
  <2>1. Up[n] = AddEntryFunction
    BY <1>3 DEF Up
  <2>2. QED
    BY <1>3, <2>1 DEF AddEntryFunction
<1>4. CASE n = 4
  <2>1. Up[n] = CreateVerifier
    BY <1>4 DEF Up
  <2>2. QED
    BY <1>4, <2>1 DEF CreateVerifier
<1>5. CASE n = 5
  <2>1. Up[n] = CreateHint
    BY <1>5 DEF Up
  <2>2. QED
    BY <1>5, <2>1 DEF CreateHint
<1>6. CASE n = 6
  <2>1. Up[n] = AddFailureEmbedding
    BY <1>6 DEF Up
  <2>2. QED
    BY <1>6, <2>1 DEF AddFailureEmbedding
<1>7. CASE n = 7
  <2>1. Up[n] = AddTopics
    BY <1>7 DEF Up
  <2>2. QED
    BY <1>7, <2>1 DEF AddTopics
<1> HIDE DEF Create, On, Rest, Orderly, Later, Sensible, Pending, Adding, Creating, Filling,
        Constraining, Dropping, Nullable, Rank, Since, Tables, ModelColumns
<1>8. QED
  BY <1>1, <1>2, <1>3, <1>4, <1>5, <1>6, <1>7

LEMMA DownScripts ==
  ASSUME NEW n \in 1..7
  PROVE  /\ Rest(Down[n], n, n - 1)
         /\ \A t \in Tables : \A c \in ModelColumns(t) :
              Pending(Down[n], Dropping, c) <=> Since[c] = n
         /\ \A i \in DOMAIN Down[n] : Down[n][i].do \in Dropping
         /\ Down[n] \in Seq({Down[n][i] : i \in DOMAIN Down[n]})
<1> USE DEF DropTable, On, Rest, Orderly, Later, Sensible, Pending, Adding, Creating, Filling,
        Constraining, Dropping, Nullable, Rank, Since, Tables, ModelColumns
<1>1. CASE n = 1
  <2>1. Down[n] = DropSolver
    BY <1>1 DEF Down
  <2>2. QED
    BY <1>1, <2>1 DEF DropSolver
<1>2. CASE n = 2
  <2>1. Down[n] = DropRetryMetrics
    BY <1>2 DEF Down
  <2>2. QED
    BY <1>2, <2>1 DEF DropRetryMetrics
<1>3. CASE n = 3
  <2>1. Down[n] = DropEntryFunction
    BY <1>3 DEF Down
  <2>2. QED
    BY <1>3, <2>1 DEF DropEntryFunction
<1>4. CASE n = 4
  <2>1. Down[n] = DropVerifier
    BY <1>4 DEF Down
  <2>2. QED
    BY <1>4, <2>1 DEF DropVerifier
<1>5. CASE n = 5
  <2>1. Down[n] = DropHint
    BY <1>5 DEF Down
  <2>2. QED
    BY <1>5, <2>1 DEF DropHint
<1>6. CASE n = 6
  <2>1. Down[n] = DropFailureEmbedding
    BY <1>6 DEF Down
  <2>2. QED
    BY <1>6, <2>1 DEF DropFailureEmbedding
<1>7. CASE n = 7
  <2>1. Down[n] = DropTopics
    BY <1>7 DEF Down
  <2>2. QED
    BY <1>7, <2>1 DEF DropTopics
<1> HIDE DEF DropTable, On, Rest, Orderly, Later, Sensible, Pending, Adding, Creating, Filling,
        Constraining, Dropping, Nullable, Rank, Since, Tables, ModelColumns
<1>8. QED
  BY <1>1, <1>2, <1>3, <1>4, <1>5, <1>6, <1>7

\* A script has begun when nothing of it is done.
LEMMA ScriptBegins ==
  ASSUME NEW at \in 0..7, NEW goal \in 0..7
  PROVE  LET todo == Script(at, goal)
             n == Reached(at, goal)
         IN  /\ Rest(todo, Revision(at, goal), n)
             /\ todo \in Seq({todo[i] : i \in DOMAIN todo})
             /\ at = goal => todo = << >>
             /\ \A t \in Tables : \A c \in ModelColumns(t) :
                  /\ Present(todo, n, c) <=> Since[c] <= at
                  /\ Present(todo, n, c) =>
                       ~Pending(todo, Constraining, c) /\ ~Pending(todo, Filling, c)
<1>1. CASE at = goal
  <2>1. Script(at, goal) = << >> /\ Reached(at, goal) = at
    BY <1>1 DEF Script, Reached
  <2>2. \A kinds, c : ~Pending(<< >>, kinds, c)
    BY DEF Pending
  <2>3. Rest(<< >>, Revision(at, goal), at) /\ << >> \in Seq({})
    BY DEF Rest, Orderly
  <2>4. QED
    BY <1>1, <2>1, <2>2, <2>3 DEF Present
<1>2. CASE at < goal
  <2>1. PICK n \in 1..7 : n = at + 1
    BY <1>2
  <2>2. Script(at, goal) = Up[n] /\ Reached(at, goal) = n /\ Revision(at, goal) = n
    BY <1>2, <2>1 DEF Script, Reached, Revision
  <2>3. \A i \in DOMAIN Up[n] : Sensible(Up[n][i], n) /\ Up[n][i].do \notin Dropping
    BY UpScripts DEF Rest
  <2>4. \A c : /\ ~Pending(Up[n], Dropping, c)
               /\ Pending(Up[n], Constraining, c) => Since[c] = n
               /\ Pending(Up[n], Filling, c) => Since[c] = n
    BY <2>3 DEF Pending, Sensible
  <2>5. \A t \in Tables : \A c \in ModelColumns(t) :
          (Present(Up[n], n, c) <=> Since[c] <= at) /\ Since[c] \in 1..7
    BY <2>1, <2>4, UpScripts, ColumnFacts DEF Present
  <2>6. at # goal
    BY <1>2
  <2>7. /\ Rest(Up[n], n, n)
        /\ Up[n] \in Seq({Up[n][i] : i \in DOMAIN Up[n]})
    BY UpScripts
  <2>8. \A t \in Tables : \A c \in ModelColumns(t) :
          /\ Present(Up[n], n, c) <=> Since[c] <= at
          /\ Present(Up[n], n, c) =>
               ~Pending(Up[n], Constraining, c) /\ ~Pending(Up[n], Filling, c)
    BY <2>1, <2>4, <2>5
  <2>9. QED
    BY <2>2, <2>6, <2>7, <2>8
<1>3. CASE goal < at
  <2>1. PICK n \in 1..7 : n = at
    BY <1>3
  <2>2. Script(at, goal) = Down[n] /\ Reached(at, goal) = n - 1 /\ Revision(at, goal) = n
    BY <1>3, <2>1 DEF Script, Reached, Revision
  <2>3. \A i \in DOMAIN Down[n] : Down[n][i].do \in Dropping
    BY DownScripts
  <2>4. \A c : /\ ~Pending(Down[n], Creating, c)
               /\ ~Pending(Down[n], Constraining, c)
               /\ ~Pending(Down[n], Filling, c)
    BY <2>3 DEF Pending, Dropping, Creating, Adding, Constraining, Filling
  <2>5. \A t \in Tables : \A c \in ModelColumns(t) :
          (Present(Down[n], n - 1, c) <=> Since[c] <= at) /\ Since[c] \in 1..7
    <3>1. ASSUME NEW t \in Tables, NEW c \in ModelColumns(t)
          PROVE  (Present(Down[n], n - 1, c) <=> Since[c] <= at) /\ Since[c] \in 1..7
      <4>1. Since[c] \in 1..7
        BY ColumnFacts
      <4>2. Pending(Down[n], Dropping, c) <=> Since[c] = n
        BY DownScripts
      <4>3. Present(Down[n], n - 1, c) <=> Since[c] <= n - 1 \/ Since[c] = n
        BY <2>4, <4>2 DEF Present
      <4>4. QED
        BY <2>1, <4>1, <4>3
    <3>2. QED
      BY <3>1
  <2>6. at # goal
    BY <1>3
  <2>7. /\ Rest(Down[n], n, n - 1)
        /\ Down[n] \in Seq({Down[n][i] : i \in DOMAIN Down[n]})
    BY DownScripts
  <2>8. QED
    BY <2>2, <2>4, <2>5, <2>6, <2>7
<1>4. QED
  BY <1>1, <1>2, <1>3

LEMMA RestOfRest ==
  ASSUME NEW S, NEW todo \in Seq(S), todo # << >>, NEW revision, NEW n, Rest(todo, revision, n)
  PROVE  Rest(Tail(todo), revision, n)
<1> DEFINE T == Tail(todo)
<1>1. /\ \A i \in DOMAIN T : i + 1 \in DOMAIN todo /\ T[i] = todo[i + 1] /\ i \in Nat
      /\ \A i \in DOMAIN todo : i = 1 \/ (i - 1 \in DOMAIN T /\ todo[i] = T[i - 1])
      /\ \A i \in DOMAIN todo : i \in Nat
  <2>1. T \in Seq(S)
    BY FirstStatement
  <2>2. QED
    BY <2>1, FirstStatement
<1>2. ASSUME NEW i \in DOMAIN T, NEW kinds, Later(todo, i + 1, kinds)
      PROVE  Later(T, i, kinds)
  <2>1. PICK j \in DOMAIN todo :
          j > i + 1 /\ todo[j].do \in kinds /\ todo[j].column = todo[i + 1].column
    BY <1>2 DEF Later
  <2>2. i \in Nat /\ j \in Nat /\ j # 1
    BY <1>1, <2>1
  <2>3. j - 1 \in DOMAIN T /\ T[j - 1] = todo[j] /\ j - 1 > i /\ T[i] = todo[i + 1]
    BY <1>1, <2>1, <2>2
  <2> HIDE DEF T
  <2>4. QED
    BY <2>1, <2>3 DEF Later
<1>3. Orderly(T)
  <2>1. Orderly(todo)
    BY DEF Rest
  <2> HIDE DEF T
  <2>2. ASSUME NEW i \in DOMAIN T, NEW j \in DOMAIN T, j > i, T[j].column = T[i].column
        PROVE  Rank[T[i].do] < Rank[T[j].do]
    <3>1. /\ i + 1 \in DOMAIN todo /\ T[i] = todo[i + 1] /\ i \in Nat
          /\ j + 1 \in DOMAIN todo /\ T[j] = todo[j + 1] /\ j \in Nat
      BY <1>1
    <3>2. j + 1 > i + 1
      BY <2>2, <3>1
    <3>3. QED
      BY <2>1, <2>2, <3>1, <3>2 DEF Orderly
  <2>3. ASSUME NEW i \in DOMAIN T
        PROVE  /\ T[i].do \in Adding \cup Filling /\ T[i].column \notin Nullable =>
                    Later(T, i, Constraining)
               /\ T[i].do = "add_nullable" /\ T[i].column # "failure_embedding" =>
                    Later(T, i, Filling)
               /\ T[i].do = "add_default" =>
                    T[i].column \notin {"entry_function", "failure_embedding"}
    <3>1. i + 1 \in DOMAIN todo /\ T[i] = todo[i + 1]
      BY <1>1
    <3>2. QED
      BY <1>2, <2>1, <3>1 DEF Orderly
  <2>4. QED
    BY <2>2, <2>3 DEF Orderly
<1>4. QED
  BY <1>1, <1>3 DEF Rest

-----------------------------------------------------------------------------
(* One statement. *)

\* After the first statement on a column it is filled and then constrained.
LEMMA LaterOnes ==
  ASSUME NEW S, NEW todo \in Seq(S), todo # << >>, NEW revision \in Nat, NEW n \in Nat,
         Rest(todo, revision, n)
  PROVE  LET s == todo[1]
             T == Tail(todo)
             c == s.column
         IN  /\ ~Pending(T, Creating, c) /\ ~Pending(T, Dropping, c)
             /\ s.do \in Filling \cup Constraining => ~Pending(T, Filling, c)
             /\ s.do \in Constraining => ~Pending(T, Constraining, c)
             /\ s.do = "create" => ~Pending(T, Filling, c) /\ ~Pending(T, Constraining, c)
<1> DEFINE s == todo[1]
           T == Tail(todo)
           c == s.column
<1>1. ASSUME NEW i \in DOMAIN T, T[i].column = c
      PROVE  /\ T[i].do \in Filling \cup Constraining /\ s.do \notin Constraining
             /\ s.do \in Filling => T[i].do \in Constraining
             /\ c \notin Tables
  <2>1. i + 1 \in DOMAIN todo /\ T[i] = todo[i + 1] /\ i + 1 > 1 /\ 1 \in DOMAIN todo
    <3>1. T \in Seq(S)
      BY FirstStatement
    <3>2. i \in Nat /\ i > 0
      BY <3>1
    <3>3. QED
      BY <3>2, FirstStatement
  <2>2. Rank[s.do] < Rank[T[i].do]
    BY <1>1, <2>1 DEF Rest, Orderly
  <2>3. /\ T[i].do \in DOMAIN Rank /\ s.do \in DOMAIN Rank
        /\ T[i].do \in Filling \cup Constraining => c \notin Tables
    BY <1>1, <2>1 DEF Rest, Sensible
  <2>4. PICK d \in DOMAIN Rank, e \in DOMAIN Rank : d = s.do /\ e = T[i].do
    BY <2>3
  <2>5. Rank[d] < Rank[e]
    BY <2>2, <2>4
  <2>6. e \in Filling \cup Constraining /\ d \notin Constraining /\ (d \in Filling => e \in Constraining)
    BY <2>5 DEF Rank, Filling, Constraining
  <2>7. QED
    BY <2>3, <2>4, <2>6
<1>2. s.do = "create" => c \in Tables
  <2>1. 1 \in DOMAIN todo
    BY FirstStatement
  <2>2. QED
    BY <2>1 DEF Rest, Sensible
<1> HIDE DEF s, T, c
<1>3. /\ ~Pending(T, Creating, c) /\ ~Pending(T, Dropping, c)
      /\ s.do \in Filling \cup Constraining => ~Pending(T, Filling, c)
      /\ s.do \in Constraining => ~Pending(T, Constraining, c)
      /\ s.do = "create" => ~Pending(T, Filling, c) /\ ~Pending(T, Constraining, c)
  BY <1>1, <1>2 DEF Pending, Creating, Adding, Dropping, Filling, Constraining
<1>4. QED
  BY <1>3 DEF s, T, c

\* What the first statement of a rest says of what is left to do to its column.
LEMMA FirstOfRest ==
  ASSUME NEW S, NEW todo \in Seq(S), todo # << >>, NEW revision \in Nat, NEW n \in Nat,
         Rest(todo, revision, n)
  PROVE  LET s == todo[1]
             T == Tail(todo)
             c == s.column
         IN  /\ Sensible(s, revision)
             /\ IF s.do \in Dropping THEN n = revision - 1 ELSE n = revision
             /\ s.do \in Adding \cup Filling /\ c \notin Nullable => Pending(T, Constraining, c)
             /\ s.do = "add_nullable" /\ c # "failure_embedding" => Pending(T, Filling, c)
             /\ s.do = "add_default" => c \notin {"entry_function", "failure_embedding"}
             /\ \A x : Pending(T, Dropping, x) => s.do \in Dropping /\ Since[x] = revision
<1> DEFINE s == todo[1]
           T == Tail(todo)
           c == s.column
<1>1. /\ 1 \in DOMAIN todo
      /\ \A i \in DOMAIN T : i + 1 \in DOMAIN todo /\ T[i] = todo[i + 1] /\ i \in Nat /\ i > 0
      /\ \A i \in DOMAIN todo : i = 1 \/ (i - 1 \in DOMAIN T /\ todo[i] = T[i - 1])
  <2>1. T \in Seq(S)
    BY FirstStatement
  <2>2. QED
    BY <2>1, FirstStatement
<1>2. Sensible(s, revision) /\ IF s.do \in Dropping THEN n = revision - 1 ELSE n = revision
  BY <1>1 DEF Rest
<1>3. ASSUME NEW kinds, Later(todo, 1, kinds) PROVE Pending(T, kinds, c)
  <2>1. PICK j \in DOMAIN todo : j > 1 /\ todo[j].do \in kinds /\ todo[j].column = todo[1].column
    BY <1>3 DEF Later
  <2>2. j - 1 \in DOMAIN T /\ T[j - 1] = todo[j]
    BY <1>1, <2>1
  <2>3. QED
    BY <2>1, <2>2 DEF Pending
<1>4. /\ s.do \in Adding \cup Filling /\ c \notin Nullable => Pending(T, Constraining, c)
      /\ s.do = "add_nullable" /\ c # "failure_embedding" => Pending(T, Filling, c)
      /\ s.do = "add_default" => c \notin {"entry_function", "failure_embedding"}
  BY <1>1, <1>3 DEF Rest, Orderly
<1>5. ASSUME NEW x, Pending(T, Dropping, x) PROVE s.do \in Dropping /\ Since[x] = revision
  <2>1. PICK i \in DOMAIN T : T[i].do \in Dropping /\ T[i].column = x
    BY <1>5 DEF Pending
  <2>2. i + 1 \in DOMAIN todo /\ T[i] = todo[i + 1]
    BY <1>1
  <2>3. Since[x] = revision /\ n = revision - 1
    BY <2>1, <2>2 DEF Rest, Sensible
  <2>4. QED
    BY <1>2, <2>3
<1>6. QED
  BY <1>2, <1>4, <1>5

\* So a column is there before and after each statement but the first and the last.
LEMMA ColumnOfFirst ==
  ASSUME NEW S, NEW todo \in Seq(S), todo # << >>, NEW revision \in Nat, NEW n \in Nat,
         Rest(todo, revision, n)
  PROVE  LET s == todo[1]
             T == Tail(todo)
             c == s.column
         IN  /\ s.do \in Creating => ~Present(todo, n, c) /\ Present(T, n, c)
             /\ s.do \in Filling \cup Constraining => Present(todo, n, c) /\ Present(T, n, c)
             /\ s.do \in Dropping => Present(todo, n, c) /\ ~Present(T, n, c)
             /\ s.do \in {"create"} \cup Constraining =>
                  ~Pending(T, Constraining, c) /\ ~Pending(T, Filling, c)
             /\ s.do \in Filling => ~Pending(T, Filling, c)
             /\ s.do = "create" => ~Pending(T, Dropping, c)
<1> DEFINE s == todo[1]
           T == Tail(todo)
           c == s.column
<1>1. Sensible(s, revision) /\ IF s.do \in Dropping THEN n = revision - 1 ELSE n = revision
  BY FirstOfRest
<1>2. \A kinds : Pending(todo, kinds, c) <=> s.do \in kinds \/ Pending(T, kinds, c)
  BY PendingFirst
<1>3. Since[c] = revision
  BY <1>1 DEF Sensible
<1>4. /\ ~Pending(T, Creating, c) /\ ~Pending(T, Dropping, c)
      /\ s.do \in Filling \cup Constraining => ~Pending(T, Filling, c)
      /\ s.do \in Constraining => ~Pending(T, Constraining, c)
      /\ s.do = "create" => ~Pending(T, Filling, c) /\ ~Pending(T, Constraining, c)
  BY LaterOnes
<1>5. s.do \in Creating \cup Filling \cup Constraining \cup Dropping
  BY <1>1 DEF Sensible, Creating, Adding, Filling, Constraining, Dropping, Rank
<1>6. /\ s.do \in Creating => s.do \notin Filling \cup Constraining \cup Dropping
      /\ s.do \in Filling => s.do \notin Creating \cup Constraining \cup Dropping
      /\ s.do \in Constraining => s.do \notin Creating \cup Filling \cup Dropping
      /\ s.do \in Dropping => s.do \notin Creating \cup Constraining \cup Filling
      /\ "create" \in Creating
  BY DEF Creating, Adding, Filling, Constraining, Dropping
<1>7. /\ Pending(todo, Creating, c) <=> s.do \in Creating
      /\ Pending(todo, Dropping, c) <=> s.do \in Dropping
  BY <1>2, <1>4
<1>8. /\ s.do \in {"create"} \cup Constraining =>
           ~Pending(T, Constraining, c) /\ ~Pending(T, Filling, c)
      /\ s.do \in Filling => ~Pending(T, Filling, c)
  BY <1>4
<1> HIDE DEF s, T
<1>9. /\ n \in Nat /\ revision \in Nat
      /\ s.do \in Dropping => n < Since[c]
      /\ s.do \notin Dropping => n = Since[c]
  BY <1>1, <1>3
<1>10. Present(todo, n, c) <=> (Since[c] <= n \/ s.do \in Dropping) /\ s.do \notin Creating
  BY <1>7 DEF Present
<1>11. Present(T, n, c) <=> Since[c] <= n
  BY <1>4 DEF Present
<1> HIDE DEF c
<1>12. Since[c] \in Nat
  BY <1>3
<1>13. QED
  <2>1. /\ s.do \in Creating => ~Present(todo, n, c) /\ Present(T, n, c)
        /\ s.do \in Filling \cup Constraining => Present(todo, n, c) /\ Present(T, n, c)
        /\ s.do \in Dropping => Present(todo, n, c) /\ ~Present(T, n, c)
    BY <1>5, <1>6, <1>9, <1>10, <1>11, <1>12
  <2>2. QED
    BY <1>4, <1>8, <2>1 DEF s, T, c

\* A statement does nothing to other columns.
LEMMA OtherColumns ==
  ASSUME NEW S, NEW todo \in Seq(S), todo # << >>, NEW n, NEW c, c # todo[1].column
  PROVE  /\ Present(Tail(todo), n, c) <=> Present(todo, n, c)
         /\ \A kinds : Pending(Tail(todo), kinds, c) <=> Pending(todo, kinds, c)
<1>1. ASSUME NEW kinds PROVE Pending(Tail(todo), kinds, c) <=> Pending(todo, kinds, c)
  BY PendingFirst
<1>2. QED
  BY <1>1 DEF Present

\* What a statement that goes through the rows has to do for its column.
LEMMA RowByRow ==
  ASSUME NEW S, NEW todo \in Seq(S), todo # << >>, NEW revision \in Nat, NEW n \in Nat,
         Rest(todo, revision, n), todo[1].do \in Adding \cup Filling,
         NEW table, OnTheWay(table, todo[1].table, todo, n),
         NEW e, e = [columns |-> e.columns, notNull |-> e.notNull, rows |-> e.rows],
         e.columns = table.columns \cup {todo[1].column}, e.notNull = table.notNull,
         DOMAIN e.rows = DOMAIN table.rows,
         \A r \in DOMAIN table.rows :
           /\ DOMAIN e.rows[r] = table.columns \cup {todo[1].column}
           /\ \A c \in table.columns \ {todo[1].column} : e.rows[r][c] = table.rows[r][c]
           /\ FilledIn(Tail(todo), r, todo[1].column, e.rows[r][todo[1].column])
  PROVE  OnTheWay(e, todo[1].table, Tail(todo), n)
<1> DEFINE t == todo[1].table
           c0 == todo[1].column
           T == Tail(todo)
<1>1. /\ Present(T, n, c0) /\ c0 \in ModelColumns(t)
      /\ c0 \notin Nullable => Pending(T, Constraining, c0)
      /\ todo[1].do \in Adding => c0 \notin table.columns
      /\ todo[1].do \in Filling => Pending(todo, Constraining, c0) <=> Pending(T, Constraining, c0)
  <2>1. Sensible(todo[1], revision)
    BY FirstOfRest
  <2>2. c0 \in ModelColumns(t)
    BY <2>1 DEF Sensible
  <2>3. Present(T, n, c0) /\ (todo[1].do \in Adding => ~Present(todo, n, c0))
    BY ColumnOfFirst DEF Creating
  <2>4. todo[1].do \in Filling => todo[1].do \notin Constraining
    BY DEF Filling, Constraining
  <2>5. Pending(todo, Constraining, c0) <=>
          todo[1].do \in Constraining \/ Pending(T, Constraining, c0)
    BY PendingFirst
  <2>6. c0 \notin Nullable => Pending(T, Constraining, c0)
    BY FirstOfRest
  <2>7. todo[1].do \in Adding => c0 \notin table.columns
    BY <2>3 DEF OnTheWay
  <2>8. QED
    BY <2>2, <2>3, <2>4, <2>5, <2>6, <2>7
<1>2. \A c : c # c0 =>
        /\ Present(T, n, c) <=> Present(todo, n, c)
        /\ Pending(T, Constraining, c) <=> Pending(todo, Constraining, c)
        /\ Pending(T, Filling, c) <=> Pending(todo, Filling, c)
  BY OtherColumns
<1> HIDE DEF t, c0, T
<1>3. e.columns = {c \in ModelColumns(t) : Present(T, n, c)}
  BY <1>1, <1>2 DEF OnTheWay, t, c0
<1>4. ASSUME c0 # "entry_function", "entry_function" \in table.columns
      PROVE  HasNull(e, "entry_function") <=> HasNull(table, "entry_function")
  BY <1>4 DEF HasNull, c0
<1>5. /\ e.notNull \subseteq Enforceable(e, T)
      /\ Enforceable(e, T) \ {"entry_function"} \subseteq e.notNull
  <2>1. /\ table.notNull \subseteq Enforceable(table, todo)
        /\ Enforceable(table, todo) \ {"entry_function"} \subseteq table.notNull
    BY DEF OnTheWay
  <2>2. c0 \notin table.notNull /\ c0 \notin Enforceable(e, T)
    BY <1>1, <2>1 DEF Filling, Enforceable
  <2>3. \A c : c # c0 => (c \in Enforceable(e, T) <=> c \in Enforceable(table, todo))
    BY <1>2, <1>4 DEF Enforceable, c0
  <2>4. QED
    BY <2>1, <2>2, <2>3
<1>6. ASSUME NEW r \in DOMAIN e.rows
      PROVE  /\ DOMAIN e.rows[r] = e.columns
             /\ \A c \in e.columns : FilledIn(T, r, c, e.rows[r][c])
  <2>1. \A c \in table.columns : FilledIn(todo, r, c, table.rows[r][c])
    BY <1>6 DEF OnTheWay
  <2>2. /\ DOMAIN e.rows[r] = table.columns \cup {c0}
        /\ \A c \in table.columns \ {c0} : e.rows[r][c] = table.rows[r][c]
        /\ FilledIn(T, r, c0, e.rows[r][c0])
    BY <1>6 DEF T, c0
  <2>3. ASSUME NEW c \in table.columns \ {c0} PROVE FilledIn(T, r, c, e.rows[r][c])
    BY <1>2, <2>1, <2>2 DEF FilledIn
  <2>4. e.columns = table.columns \cup {c0}
    BY DEF c0
  <2>5. QED
    BY <2>2, <2>3, <2>4
<1>7. QED
  BY <1>3, <1>5, <1>6 DEF OnTheWay, t, T

\* Each statement takes its table a step further.
LEMMA StatementGoesOn ==
  ASSUME NEW S, NEW todo \in Seq(S), todo # << >>, NEW revision \in Nat, NEW n \in Nat,
         Rest(todo, revision, n), NEW table, OnTheWay(table, todo[1].table, todo, n),
         todo[1].do = "not_null" => ~HasNull(table, todo[1].column)
  PROVE  OnTheWay(Effect(todo[1], table), todo[1].table, Tail(todo), n)
<1> DEFINE s == todo[1]
           t == s.table
           c0 == s.column
           T == Tail(todo)
           e == Effect(s, table)
<1>1. /\ Sensible(s, revision)
      /\ IF s.do \in Dropping THEN n = revision - 1 ELSE n = revision
      /\ s.do \in Adding \cup Filling /\ c0 \notin Nullable => Pending(T, Constraining, c0)
      /\ s.do = "add_nullable" /\ c0 # "failure_embedding" => Pending(T, Filling, c0)
      /\ s.do = "add_default" => c0 \notin {"entry_function", "failure_embedding"}
      /\ \A x : Pending(T, Dropping, x) => s.do \in Dropping /\ Since[x] = revision
  BY FirstOfRest
<1>2. /\ s.do \in Creating => ~Present(todo, n, c0) /\ Present(T, n, c0)
      /\ s.do \in Filling \cup Constraining => Present(todo, n, c0) /\ Present(T, n, c0)
      /\ s.do \in Dropping => Present(todo, n, c0) /\ ~Present(T, n, c0)
      /\ s.do \in {"create"} \cup Constraining =>
           ~Pending(T, Constraining, c0) /\ ~Pending(T, Filling, c0)
      /\ s.do \in Filling => ~Pending(T, Filling, c0)
  BY ColumnOfFirst
<1>3. \A c : c # c0 =>
        /\ Present(T, n, c) <=> Present(todo, n, c)
        /\ Pending(T, Constraining, c) <=> Pending(todo, Constraining, c)
        /\ Pending(T, Filling, c) <=> Pending(todo, Filling, c)
  BY OtherColumns
<1>4. /\ t \in Tables /\ c0 \in ModelColumns(t) /\ Since[c0] = revision
      /\ s.do \in {"create", "drop"} =>
           c0 = t /\ \A c \in ModelColumns(t) \ {t} : Since[c] > revision
      /\ s.do \in {"extract", "not_null_if_full"} => c0 = "entry_function"
      /\ s.do \in {"zero", "not_null"} => c0 \notin {"entry_function"} \cup Nullable
  BY <1>1 DEF Sensible
<1>5. /\ table = [columns |-> table.columns, notNull |-> table.notNull, rows |-> table.rows]
      /\ table.columns = {c \in ModelColumns(t) : Present(todo, n, c)}
      /\ table.notNull \subseteq Enforceable(table, todo)
      /\ Enforceable(table, todo) \ {"entry_function"} \subseteq table.notNull
      /\ \A r \in DOMAIN table.rows :
           /\ DOMAIN table.rows[r] = table.columns
           /\ \A c \in table.columns : FilledIn(todo, r, c, table.rows[r][c])
  BY DEF OnTheWay
<1>6. CASE s.do \in {"create", "drop"}
  <2>1. ASSUME NEW c \in ModelColumns(t), c # t PROVE ~Present(T, n, c)
    BY <1>1, <1>4, <1>6, <2>1, ColumnFacts DEF Present, Dropping
  <2>2. CASE s.do = "create"
    <3>1. e = [columns |-> {t}, notNull |-> {t}, rows |-> << >>]
      BY <1>4, <2>2 DEF Effect, EmptyTable
    <3>2. {c \in ModelColumns(t) : Present(T, n, c)} = {t}
      BY <1>2, <1>4, <2>1, <2>2 DEF Creating
    <3>3. t \notin Nullable /\ t # "entry_function" /\ ~Pending(T, Constraining, t)
      BY <1>2, <1>4, <2>2, ColumnFacts
    <3>4. DOMAIN e.rows = {}
      BY <3>1
    <3> HIDE DEF s, t, T, e
    <3>5. OnTheWay(e, t, T, n)
      BY <3>1, <3>2, <3>3, <3>4 DEF OnTheWay, Enforceable
    <3>6. QED
      BY <3>5 DEF e, s, t, T
  <2>3. CASE s.do = "drop"
    <3>1. e = [columns |-> {}, notNull |-> {}, rows |-> << >>]
      BY <2>3 DEF Effect, EmptyTable
    <3>2. {c \in ModelColumns(t) : Present(T, n, c)} = {}
      BY <1>2, <1>4, <2>1, <2>3 DEF Dropping
    <3>3. DOMAIN e.rows = {}
      BY <3>1
    <3> HIDE DEF s, t, T, e
    <3>4. OnTheWay(e, t, T, n)
      BY <3>1, <3>2, <3>3 DEF OnTheWay, Enforceable
    <3>5. QED
      BY <3>4 DEF e, s, t, T
  <2>4. QED
    BY <1>6, <2>2, <2>3
<1>7. CASE s.do \in Adding \cup Filling
  <2>1. ASSUME e = [columns |-> e.columns, notNull |-> e.notNull, rows |-> e.rows],
               e.columns = table.columns \cup {c0}, e.notNull = table.notNull,
               DOMAIN e.rows = DOMAIN table.rows,
               \A r \in DOMAIN table.rows : \E value :
                 e.rows[r] = Column(table.rows[r], c0, value) /\ FilledIn(T, r, c0, value)
        PROVE  OnTheWay(e, t, T, n)
    <3> HIDE DEF e
    <3>1. ASSUME NEW r \in DOMAIN table.rows
          PROVE  /\ DOMAIN e.rows[r] = table.columns \cup {c0}
                 /\ \A c \in table.columns \ {c0} : e.rows[r][c] = table.rows[r][c]
                 /\ FilledIn(T, r, c0, e.rows[r][c0])
      <4>1. PICK value :
              e.rows[r] = Column(table.rows[r], c0, value) /\ FilledIn(T, r, c0, value)
        BY <2>1
      <4>2. QED
        BY <1>5, <4>1 DEF Column
    <3>2. QED
      BY <1>7, <2>1, <3>1, RowByRow
  <2>2. ASSUME NEW v, e = Added(table, c0, v), \A r : FilledIn(T, r, c0, v)
        PROVE  OnTheWay(e, t, T, n)
    <3>1. e = [columns |-> table.columns \cup {c0}, notNull |-> table.notNull,
               rows |-> [r \in DOMAIN table.rows |-> Column(table.rows[r], c0, v)]]
      BY <1>5, <2>2 DEF Added, ForEachRow
    <3> HIDE DEF e
    <3>2. /\ e = [columns |-> e.columns, notNull |-> e.notNull, rows |-> e.rows]
          /\ e.columns = table.columns \cup {c0} /\ e.notNull = table.notNull
          /\ DOMAIN e.rows = DOMAIN table.rows
          /\ \A r \in DOMAIN table.rows : e.rows[r] = Column(table.rows[r], c0, v)
      BY <3>1
    <3>3. QED
      BY <2>1, <2>2, <3>2
  <2>3. CASE s.do = "add_nullable"
    <3>1. e = Added(table, c0, "null")
      BY <2>3 DEF Effect
    <3>2. c0 # "failure_embedding" => Pending(T, Filling, c0)
      BY <1>1, <2>3
    <3>3. \A r : FilledIn(T, r, c0, "null")
      BY <3>2 DEF FilledIn
    <3>4. QED
      BY <2>2, <3>1, <3>3
  <2>4. CASE s.do = "add_default"
    <3>1. e = Added(table, c0, "default")
      BY <2>4 DEF Effect
    <3>2. c0 \notin {"entry_function", "failure_embedding"}
      BY <1>1, <2>4
    <3>3. \A r : FilledIn(T, r, c0, "default")
      BY <3>2 DEF FilledIn
    <3>4. QED
      BY <2>2, <3>1, <3>3
  <2>5. CASE s.do \in Filling
    <3>1. c0 \in table.columns /\ ~Pending(T, Filling, c0)
      BY <1>2, <1>4, <1>5, <2>5
    <3>2. ASSUME e = [columns |-> table.columns, notNull |-> table.notNull, rows |-> e.rows],
                 DOMAIN e.rows = DOMAIN table.rows,
                 \A r \in DOMAIN table.rows : \E value :
                   e.rows[r] = Column(table.rows[r], c0, value) /\ FilledIn(T, r, c0, value)
          PROVE  OnTheWay(e, t, T, n)
      <4> HIDE DEF e
      <4>1. /\ e = [columns |-> e.columns, notNull |-> e.notNull, rows |-> e.rows]
            /\ e.columns = table.columns \cup {c0} /\ e.notNull = table.notNull
        BY <3>1, <3>2
      <4>2. QED
        BY <2>1, <3>2, <4>1
    <3>3. CASE s.do = "zero"
      <4>1. e = [columns |-> table.columns, notNull |-> table.notNull,
                 rows |-> [r \in DOMAIN table.rows |-> Column(table.rows[r], c0,
                   IF table.rows[r][c0] = "null" THEN "default" ELSE table.rows[r][c0])]]
        BY <1>5, <3>3 DEF Effect, ForEachRow
      <4>2. c0 # "entry_function"
        BY <1>4, <3>3
      <4>3. ASSUME NEW r \in DOMAIN table.rows
            PROVE  \E value : e.rows[r] = Column(table.rows[r], c0, value) /\ FilledIn(T, r, c0, value)
        <5>1. PICK value :
                value = IF table.rows[r][c0] = "null" THEN "default" ELSE table.rows[r][c0]
          OBVIOUS
        <5>2. e.rows[r] = Column(table.rows[r], c0, value)
          BY <4>1, <5>1
        <5>3. FilledIn(T, r, c0, value)
          BY <4>2, <5>1 DEF FilledIn
        <5>4. QED
          BY <5>2, <5>3
      <4>4. /\ e = [columns |-> table.columns, notNull |-> table.notNull, rows |-> e.rows]
            /\ DOMAIN e.rows = DOMAIN table.rows
        BY <4>1
      <4>5. QED
        BY <3>2, <4>3, <4>4
    <3>4. CASE s.do = "extract"
      <4>1. c0 = "entry_function"
        BY <1>4, <3>4
      <4>2. e = [columns |-> table.columns, notNull |-> table.notNull,
                 rows |-> [r \in DOMAIN table.rows |-> Column(table.rows[r], c0, Extracted(r))]]
        BY <1>5, <3>4, <4>1 DEF Effect, BackfillEntryFunction, ForEachRow
      <4>3. \A r \in DOMAIN table.rows : FilledIn(T, r, c0, Extracted(r))
        BY <4>1 DEF FilledIn, Extracted
      <4>4. /\ e = [columns |-> table.columns, notNull |-> table.notNull, rows |-> e.rows]
            /\ DOMAIN e.rows = DOMAIN table.rows
            /\ \A r \in DOMAIN table.rows : e.rows[r] = Column(table.rows[r], c0, Extracted(r))
        BY <4>2
      <4>5. QED
        BY <3>2, <4>3, <4>4
    <3>5. QED
      BY <2>5, <3>3, <3>4 DEF Filling
  <2>6. QED
    BY <1>7, <2>3, <2>4, <2>5 DEF Adding
<1>8. CASE s.do \in Constraining
  <2>1. Pending(todo, Constraining, c0)
    BY <1>8, PendingFirst
  <2>2. /\ c0 \in table.columns \ table.notNull /\ c0 \notin Nullable
        /\ ~Pending(T, Constraining, c0) /\ ~Pending(T, Filling, c0)
        /\ ~Pending(todo, Filling, c0)
    <3>1. c0 \notin Nullable
      BY <1>4, <1>8 DEF Constraining, Nullable
    <3>2. s.do \notin Filling
      BY <1>8 DEF Constraining, Filling
    <3>3. Pending(todo, Filling, c0) <=> s.do \in Filling \/ Pending(T, Filling, c0)
      BY PendingFirst
    <3>4. QED
      BY <1>2, <1>4, <1>5, <1>8, <2>1, <3>1, <3>2, <3>3 DEF Enforceable
  <2>3. e = IF HasNull(table, c0) THEN table
            ELSE [columns |-> table.columns, notNull |-> table.notNull \cup {c0},
                  rows |-> table.rows]
    <3>1. CASE s.do = "not_null"
      <4>1. ~HasNull(table, c0)
        BY <3>1
      <4>2. e = [table EXCEPT !.notNull = @ \cup {c0}]
        BY <3>1 DEF Effect
      <4>3. QED
        BY <1>5, <4>1, <4>2
    <3>2. CASE s.do = "not_null_if_full"
      <4>1. e = IF HasNull(table, c0) THEN table ELSE [table EXCEPT !.notNull = @ \cup {c0}]
        BY <3>2 DEF Effect
      <4>2. QED
        BY <1>5, <4>1
    <3>3. QED
      BY <1>8, <3>1, <3>2 DEF Constraining
  <2>4. HasNull(table, c0) => c0 = "entry_function"
    BY <1>4, <1>8 DEF Constraining
  <2> HIDE DEF e
  <2>5. /\ e = [columns |-> e.columns, notNull |-> e.notNull, rows |-> e.rows]
        /\ e.columns = table.columns /\ e.rows = table.rows
        /\ e.notNull = IF HasNull(table, c0) THEN table.notNull ELSE table.notNull \cup {c0}
    BY <1>5, <2>3
  <2>6. \A c : HasNull(e, c) <=> HasNull(table, c)
    BY <2>5 DEF HasNull
  <2>7. e.columns = {c \in ModelColumns(t) : Present(T, n, c)}
    BY <1>2, <1>3, <1>4, <1>5, <1>8, <2>2, <2>5
  <2>8. /\ e.notNull \subseteq Enforceable(e, T)
        /\ Enforceable(e, T) \ {"entry_function"} \subseteq e.notNull
    <3>1. \A c : c # c0 => (c \in Enforceable(e, T) <=> c \in Enforceable(table, todo))
      BY <1>3, <2>5, <2>6 DEF Enforceable
    <3>2. c0 \in Enforceable(e, T) <=> (c0 = "entry_function" => ~HasNull(table, c0))
      BY <2>2, <2>5, <2>6 DEF Enforceable
    <3>3. QED
      BY <1>5, <2>2, <2>4, <2>5, <3>1, <3>2
  <2>9. \A r \in DOMAIN e.rows : /\ DOMAIN e.rows[r] = e.columns
                               /\ \A c \in e.columns : FilledIn(T, r, c, e.rows[r][c])
    BY <1>3, <1>5, <2>2, <2>5 DEF FilledIn
  <2> HIDE DEF s, t, T
  <2>10. OnTheWay(e, t, T, n)
    BY <2>5, <2>7, <2>8, <2>9 DEF OnTheWay
  <2>11. QED
    BY <2>10 DEF e, s, t, T
<1>9. CASE s.do = "drop_column"
  <2>1. e = [columns |-> table.columns \ {c0},
             notNull |-> table.notNull \ {c0},
             rows    |-> [r \in DOMAIN table.rows |->
                            [x \in DOMAIN table.rows[r] \ {c0} |-> table.rows[r][x]]]]
    BY <1>9 DEF Effect
  <2> HIDE DEF e
  <2>2. /\ e = [columns |-> e.columns, notNull |-> e.notNull, rows |-> e.rows]
        /\ e.columns = table.columns \ {c0} /\ e.notNull = table.notNull \ {c0}
        /\ DOMAIN e.rows = DOMAIN table.rows
        /\ \A r \in DOMAIN table.rows :
             /\ DOMAIN e.rows[r] = table.columns \ {c0}
             /\ \A c \in table.columns \ {c0} : e.rows[r][c] = table.rows[r][c]
    BY <1>5, <2>1
  <2>3. e.columns = {c \in ModelColumns(t) : Present(T, n, c)}
    BY <1>2, <1>3, <1>5, <1>9, <2>2 DEF Dropping
  <2>4. \A c \in e.columns : HasNull(e, c) <=> HasNull(table, c)
    BY <2>2 DEF HasNull
  <2>5. /\ e.notNull \subseteq Enforceable(e, T)
        /\ Enforceable(e, T) \ {"entry_function"} \subseteq e.notNull
    <3>1. \A c : c # c0 => (c \in Enforceable(e, T) <=> c \in Enforceable(table, todo))
      BY <1>3, <2>2, <2>4 DEF Enforceable
    <3>2. c0 \notin Enforceable(e, T)
      BY <2>2 DEF Enforceable
    <3>3. QED
      BY <1>5, <2>2, <3>1, <3>2
  <2>6. \A r \in DOMAIN e.rows : /\ DOMAIN e.rows[r] = e.columns
                               /\ \A c \in e.columns : FilledIn(T, r, c, e.rows[r][c])
    BY <1>3, <1>5, <2>2 DEF FilledIn
  <2> HIDE DEF s, t, T
  <2>7. OnTheWay(e, t, T, n)
    BY <2>2, <2>3, <2>5, <2>6 DEF OnTheWay
  <2>8. QED
    BY <2>7 DEF e, s, t, T
<1>10. s.do \in {"create", "drop", "drop_column"} \cup Adding \cup Filling \cup Constraining
  BY <1>1 DEF Sensible, Rank, Adding, Filling, Constraining
<1>11. QED
  BY <1>6, <1>7, <1>8, <1>9, <1>10

\* Whoever finds the tables of the version it began from is refused no statement.
LEMMA StatementSucceeds ==
  ASSUME NEW S, NEW todo \in Seq(S), todo # << >>, NEW revision \in Nat, NEW n \in Nat,
         Rest(todo, revision, n), NEW ts,
         OnTheWay(ts[todo[1].table], todo[1].table, todo, n),
         OnTheWay(ts[todo[1].parent], todo[1].parent, todo, n)
  PROVE  ~Fails(todo[1], ts)
<1> DEFINE s == todo[1]
           t == s.table
           c0 == s.column
           table == ts[t]
           parent == ts[s.parent]
<1>1. /\ Sensible(s, revision)
      /\ IF s.do \in Dropping THEN n = revision - 1 ELSE n = revision
      /\ \A x : Pending(Tail(todo), Dropping, x) => s.do \in Dropping /\ Since[x] = revision
  BY FirstOfRest
<1>2. /\ s.do \in Creating => ~Present(todo, n, c0)
      /\ s.do \in Filling \cup Constraining \cup Dropping => Present(todo, n, c0)
      /\ s.do \in Filling \cup Constraining => ~Pending(Tail(todo), Filling, c0)
  BY ColumnOfFirst
<1>3. /\ t \in Tables /\ s.parent \in Tables /\ c0 \in ModelColumns(t) /\ Since[c0] = revision
      /\ s.do \in {"create", "drop"} =>
           c0 = t /\ \A c \in ModelColumns(t) \ {t} : Since[c] > revision
      /\ s.parent # t => s.do \in {"create", "drop"} /\ Since[s.parent] < revision
      /\ s.do \in Adding => Since[t] < revision
      /\ s.do \in {"zero", "not_null"} => c0 \notin {"entry_function"} \cup Nullable
      /\ s.do \in DOMAIN Rank
  BY <1>1 DEF Sensible
<1>4. /\ table.columns = {c \in ModelColumns(t) : Present(todo, n, c)}
      /\ parent.columns = {c \in ModelColumns(s.parent) : Present(todo, n, c)}
      /\ \A r \in DOMAIN table.rows :
           /\ DOMAIN table.rows[r] = table.columns
           /\ \A c \in table.columns : FilledIn(todo, r, c, table.rows[r][c])
  BY DEF OnTheWay
\* A column older than the revision is there.
<1>5. ASSUME NEW u \in Tables, Since[u] < revision, s.do \notin Dropping PROVE Present(todo, n, u)
  <2>1. n = revision /\ Since[u] \in Nat
    <3>1. u \in ModelColumns(u)
      BY DEF Tables, ModelColumns
    <3>2. QED
      BY <1>1, <1>5, <3>1, ColumnFacts
  <2>2. ~Pending(todo, Creating, u)
    BY <1>5 DEF Pending, Rest, Sensible
  <2>3. QED
    BY <1>5, <2>1, <2>2 DEF Present
<1>6. CASE s.do = "create"
  <2>1. ASSUME NEW c \in ModelColumns(t) PROVE ~Present(todo, n, c)
    <3>1. CASE c = t
      BY <1>2, <1>3, <1>6, <3>1 DEF Creating
    <3>2. CASE c # t
      <4>1. Since[c] > n /\ Since[c] \in Nat
        BY <1>1, <1>3, <1>6, <3>2, ColumnFacts DEF Dropping
      <4>2. ~Pending(todo, Dropping, c)
        BY <1>1, <1>6, PendingFirst DEF Dropping
      <4>3. QED
        BY <4>1, <4>2 DEF Present
    <3>3. QED
      BY <3>1, <3>2
  <2>2. table.columns = {}
    BY <1>4, <2>1
  <2>3. s.parent # t => s.parent \in parent.columns
    <3>1. s.parent \in ModelColumns(s.parent)
      BY <1>3 DEF Tables, ModelColumns
    <3>2. s.parent # t => Present(todo, n, s.parent)
      BY <1>3, <1>5, <1>6 DEF Dropping
    <3>3. QED
      BY <1>4, <3>1, <3>2
  <2>4. QED
    BY <1>6, <2>2, <2>3 DEF Fails
<1>7. CASE s.do \in Adding
  <2>1. t \in table.columns /\ c0 \notin table.columns
    BY <1>2, <1>3, <1>4, <1>5, <1>7, ColumnFacts DEF Adding, Creating, Dropping
  <2>2. QED
    BY <1>7, <2>1 DEF Fails, Adding
<1>8. CASE s.do = "not_null"
  <2>1. c0 \in table.columns
    BY <1>2, <1>3, <1>4, <1>8 DEF Constraining
  <2>2. ~Pending(todo, Filling, c0)
    BY <1>2, <1>8, PendingFirst DEF Constraining, Filling
  <2>3. ~HasNull(table, c0)
    BY <1>3, <1>4, <1>8, <2>1, <2>2 DEF HasNull, FilledIn, Nullable
  <2>4. QED
    BY <1>8, <2>1, <2>3 DEF Fails
<1>9. CASE s.do \in {"zero", "extract", "not_null_if_full", "drop", "drop_column"}
  <2>1. c0 \in table.columns
    BY <1>2, <1>3, <1>4, <1>9 DEF Filling, Constraining, Dropping
  <2>2. QED
    BY <1>9, <2>1 DEF Fails
<1>10. QED
  BY <1>3, <1>6, <1>7, <1>8, <1>9 DEF Rank, Adding

-----------------------------------------------------------------------------
(* One table. *)

LEMMA NothingPending ==
  ASSUME NEW n, NEW c
  PROVE  /\ Present(<< >>, n, c) <=> Since[c] <= n
         /\ \A kinds : ~Pending(<< >>, kinds, c)
<1>1. \A kinds : ~Pending(<< >>, kinds, c)
  BY DEF Pending
<1>2. QED
  BY <1>1 DEF Present

LEMMA ColumnsOfVersion ==
  ASSUME NEW table, NEW t, NEW n, AtVersion(table, t, n)
  PROVE  table.columns = ColumnsAt(t, n)
  BY NothingPending DEF AtVersion, OnTheWay, ColumnsAt

\* A table whose columns are those with which a run comes to it.
LEMMA ComeTo ==
  ASSUME NEW table, NEW t, NEW v, AtVersion(table, t, v), NEW todo, NEW n,
         \A c \in ModelColumns(t) :
           /\ Present(todo, n, c) <=> c \in table.columns
           /\ Present(todo, n, c) => ~Pending(todo, Constraining, c) /\ ~Pending(todo, Filling, c)
  PROVE  OnTheWay(table, t, todo, n)
<1>1. /\ table = [columns |-> table.columns, notNull |-> table.notNull, rows |-> table.rows]
      /\ table.columns \subseteq ModelColumns(t)
      /\ table.notNull \subseteq Enforceable(table, << >>)
      /\ Enforceable(table, << >>) \ {"entry_function"} \subseteq table.notNull
      /\ \A r \in DOMAIN table.rows :
           /\ DOMAIN table.rows[r] = table.columns
           /\ \A c \in table.columns : FilledIn(<< >>, r, c, table.rows[r][c])
  BY NothingPending DEF AtVersion, OnTheWay
<1>2. \A c \in table.columns :
        Present(todo, n, c) /\ ~Pending(todo, Constraining, c) /\ ~Pending(todo, Filling, c)
  BY <1>1
<1>3. table.columns = {c \in ModelColumns(t) : Present(todo, n, c)}
  BY <1>1
<1>4. Enforceable(table, todo) = Enforceable(table, << >>)
  BY <1>2, NothingPending DEF Enforceable
<1>5. \A r \in DOMAIN table.rows :
        /\ DOMAIN table.rows[r] = table.columns
        /\ \A c \in table.columns : FilledIn(todo, r, c, table.rows[r][c])
  BY <1>1, <1>2, NothingPending DEF FilledIn
<1>6. QED
  BY <1>1, <1>3, <1>4, <1>5 DEF OnTheWay

LEMMA OtherVersion ==
  ASSUME NEW table, NEW t, NEW v, AtVersion(table, t, v), NEW w, ColumnsAt(t, v) = ColumnsAt(t, w)
  PROVE  AtVersion(table, t, w)
<1>1. table.columns = ColumnsAt(t, w)
  BY ColumnsOfVersion
<1>2. \A c \in ModelColumns(t) : Present(<< >>, w, c) <=> c \in table.columns
  BY <1>1, NothingPending DEF ColumnsAt
<1>3. \A c \in ModelColumns(t) : ~Pending(<< >>, Constraining, c) /\ ~Pending(<< >>, Filling, c)
  BY NothingPending
<1>4. QED
  BY <1>2, <1>3, ComeTo DEF AtVersion

\* A revision leaves alone what its statements are not about.
LEMMA OtherTables ==
  ASSUME NEW S, NEW todo \in Seq(S), todo # << >>, NEW revision \in Nat, NEW n \in Nat,
         Rest(todo, revision, n), NEW t \in Tables, t # todo[1].table
  PROVE  /\ \A c \in ModelColumns(t) :
              /\ Present(Tail(todo), n, c) <=> Present(todo, n, c)
              /\ \A kinds : Pending(Tail(todo), kinds, c) <=> Pending(todo, kinds, c)
         /\ \A table : OnTheWay(table, t, todo, n) => OnTheWay(table, t, Tail(todo), n)
<1> DEFINE T == Tail(todo)
<1>1. todo[1].table \in Tables /\ todo[1].column \in ModelColumns(todo[1].table)
  BY FirstOfRest DEF Sensible
<1>2. \A c \in ModelColumns(t) : c # todo[1].column
  BY <1>1, ColumnFacts
<1>3. \A c \in ModelColumns(t) :
        /\ Present(Tail(todo), n, c) <=> Present(todo, n, c)
        /\ \A kinds : Pending(Tail(todo), kinds, c) <=> Pending(todo, kinds, c)
  BY <1>2, OtherColumns
<1>4. ASSUME NEW table, OnTheWay(table, t, todo, n) PROVE OnTheWay(table, t, T, n)
  <2> HIDE DEF T
  <2>1. /\ table = [columns |-> table.columns, notNull |-> table.notNull, rows |-> table.rows]
        /\ table.columns = {c \in ModelColumns(t) : Present(todo, n, c)}
        /\ table.notNull \subseteq Enforceable(table, todo)
        /\ Enforceable(table, todo) \ {"entry_function"} \subseteq table.notNull
        /\ \A r \in DOMAIN table.rows :
             /\ DOMAIN table.rows[r] = table.columns
             /\ \A c \in table.columns : FilledIn(todo, r, c, table.rows[r][c])
    BY <1>4 DEF OnTheWay
  <2>2. \A c \in ModelColumns(t) :
          /\ Present(T, n, c) <=> Present(todo, n, c)
          /\ Pending(T, Constraining, c) <=> Pending(todo, Constraining, c)
          /\ Pending(T, Filling, c) <=> Pending(todo, Filling, c)
    BY <1>3 DEF T
  <2>3. \A r \in DOMAIN table.rows : \A c \in table.columns : FilledIn(T, r, c, table.rows[r][c])
    BY <2>1, <2>2 DEF FilledIn
  <2>4. table.columns = {c \in ModelColumns(t) : Present(T, n, c)}
    BY <2>1, <2>2
  <2>5. Enforceable(table, T) = Enforceable(table, todo)
    BY <2>1, <2>2 DEF Enforceable
  <2>6. QED
    BY <2>1, <2>3, <2>4, <2>5 DEF OnTheWay
<1>5. QED
  BY <1>3, <1>4

-----------------------------------------------------------------------------
(* The database. *)

LEMMA ScriptFacts ==
  ASSUME NEW r \in Runners, OnScript(r)
  PROVE  LET x == run[r] IN
         /\ x.goal \in 0..7 /\ x.from \in 0..7 /\ x.at \in 0..7
         /\ Revision(x.at, x.goal) \in Nat /\ Reached(x.at, x.goal) \in 0..7
         /\ x.todo \in Seq({x.todo[i] : i \in DOMAIN x.todo})
         /\ Rest(x.todo, Revision(x.at, x.goal), Reached(x.at, x.goal))
         /\ x.todo # << >> => x.at # x.goal
<1>1. /\ {run[r].goal, run[r].from, run[r].at} \subseteq 0..7
      /\ run[r].todo \in Seq({run[r].todo[i] : i \in DOMAIN run[r].todo})
      /\ Rest(run[r].todo, Revision(run[r].at, run[r].goal), Reached(run[r].at, run[r].goal))
      /\ run[r].todo # << >> => run[r].at # run[r].goal
  BY DEF OnScript
<1>2. PICK at \in 0..7, goal \in 0..7 : at = run[r].at /\ goal = run[r].goal
  BY <1>1
<1>3. Revision(at, goal) \in Nat /\ Reached(at, goal) \in 0..7
  BY DEF Revision, Reached
<1>4. QED
  BY <1>1, <1>2, <1>3

\* A table that no other run has locked was found as the version says.
LEMMA FoundTable ==
  ASSUME MigrationInv, NEW r \in Runners, NEW t \in Tables, \A x \in Others(r) : t \notin Locks(x)
  PROVE  AtVersion(Found(r, t), t, version)
<1>1. CASE t \in Locks(r)
  BY <1>1 DEF MigrationInv, RunInv, FoundAtVersion, Found
<1>2. CASE t \notin Locks(r)
  <2>1. Free(t)
    BY <1>2 DEF Others, Free
  <2>2. QED
    BY <1>2, <2>1 DEF MigrationInv, TableInv, Found
<1>3. QED
  BY <1>1, <1>2

\* If that is the version the run began from, the table is where the run has got to.
LEMMA TableOnTheWay ==
  ASSUME MigrationInv, NEW r \in Runners, Running(r), NEW t \in Tables,
         \A x \in Others(r) : t \notin Locks(x),
         Found(r, t).columns = ColumnsAt(t, run[r].from)
  PROVE  OnTheWay(tables[t], t, run[r].todo, Reached(run[r].at, run[r].goal))
<1>1. CASE t \in Locks(r)
  BY <1>1 DEF MigrationInv, RunInv, LockedOnTheWay, Found
<1>2. CASE t \notin Locks(r)
  <2>1. AtVersion(tables[t], t, version) /\ tables[t].columns = ColumnsAt(t, run[r].from)
    BY <1>2, FoundTable DEF Found
  <2>2. \A c \in ModelColumns(t) :
          /\ Present(run[r].todo, Reached(run[r].at, run[r].goal), c) <=> c \in tables[t].columns
          /\ Present(run[r].todo, Reached(run[r].at, run[r].goal), c) =>
               ~Pending(run[r].todo, Constraining, c) /\ ~Pending(run[r].todo, Filling, c)
    BY <1>2, <2>1 DEF MigrationInv, RunInv, Untouched, ColumnsAt
  <2>3. QED
    BY <2>1, <2>2, ComeTo
<1>3. QED
  BY <1>1, <1>2

LEMMA InitMigration == Init => MigrationInv
<1> SUFFICES ASSUME Init PROVE MigrationInv
  OBVIOUS
<1>1. version \in 0..7
  BY StopsAssumption DEF Init
<1>2. /\ run = [r \in Runners |-> [goal |-> version, from |-> version, at |-> version,
                                   todo |-> << >>]]
      /\ saved = [r \in Runners |-> << >>] /\ outcome = [r \in Runners |-> "idle"]
      /\ step = [q \in Requests |-> 1] /\ holds = [q \in Requests |-> {}]
      /\ \E company : reply = [q \in Requests |-> IF q \in company THEN "none" ELSE "absent"]
  BY DEF Init
<1>3. PICK old : tables = [t \in Tables |-> TableAt(t, version, old)]
  BY DEF Init
<1>4. StampInv
  BY StampInit
<1>5. \A r \in Runners : OnScript(r)
  <2>1. Rest(<< >>, Revision(version, version), Reached(version, version)) /\ << >> \in Seq({})
    BY DEF Rest, Orderly
  <2>2. {(<< >>)[i] : i \in DOMAIN << >>} = {}
    OBVIOUS
  <2>3. ASSUME NEW r \in Runners
        PROVE  run[r] = [goal |-> version, from |-> version, at |-> version, todo |-> << >>]
    BY <1>2
  <2>4. ASSUME NEW r \in Runners
        PROVE  LET x == run[r] IN
               /\ {x.goal, x.from, x.at} \subseteq 0..7
               /\ x.from <= x.at /\ x.at <= x.goal
               /\ x.todo \in Seq({x.todo[i] : i \in DOMAIN x.todo})
               /\ Rest(x.todo, Revision(x.at, x.goal), Reached(x.at, x.goal))
               /\ x.todo = << >>
    <3>1. run[r].goal = version /\ run[r].from = version /\ run[r].at = version /\ run[r].todo = << >>
      BY <2>3
    <3>2. {run[r].todo[i] : i \in DOMAIN run[r].todo} = {}
      BY <2>2, <3>1
    <3>3. run[r].todo \in Seq({run[r].todo[i] : i \in DOMAIN run[r].todo})
      BY <2>1, <3>1, <3>2
    <3>4. Rest(run[r].todo, Revision(run[r].at, run[r].goal), Reached(run[r].at, run[r].goal))
      BY <2>1, <3>1
    <3>5. QED
      BY <1>1, <3>1, <3>3, <3>4
  <2>5. QED
    BY <2>4 DEF OnScript
<1>6. \A r \in Runners : ~Running(r) /\ Locks(r) = {}
  BY <1>2 DEF Running, Locks
<1>7. \A r \in Runners : RunInv(r)
  BY <1>5, <1>6 DEF RunInv, FoundAtVersion, LockedOnTheWay, Untouched
<1>8. ASSUME NEW t \in Tables PROVE AtVersion(TableAt(t, version, old), t, version)
  <2> DEFINE table == TableAt(t, version, old)
  <2>1. /\ table = [columns |-> table.columns, notNull |-> table.notNull, rows |-> table.rows]
        /\ table.columns = ColumnsAt(t, version)
        /\ table.notNull = {c \in ColumnsAt(t, version) \ Nullable :
                              c = "entry_function" => old \cap NoFunction = {}}
        /\ table.rows = IF t = "solver" THEN [r \in old |-> OldRow(r, version)] ELSE << >>
    BY DEF TableAt
  <2>2. table.columns = {c \in ModelColumns(t) : Present(<< >>, version, c)}
    BY <2>1, NothingPending DEF ColumnsAt
  <2>3. \A r \in DOMAIN table.rows :
          /\ t = "solver" /\ r \in old /\ table.rows[r] = OldRow(r, version)
          /\ DOMAIN table.rows[r] = table.columns
          /\ \A c \in table.columns :
               table.rows[r][c] = CASE c = "solver" -> "given"
                                    [] c = "entry_function" -> Extracted(r)
                                    [] OTHER -> "default"
    BY <2>1 DEF OldRow
  <2>4. "entry_function" \in table.columns => (HasNull(table, "entry_function") <=> old \cap NoFunction # {})
    <3>1. ASSUME "entry_function" \in table.columns PROVE t = "solver"
      BY <2>1, <3>1 DEF ColumnsAt, ModelColumns, Tables
    <3>2. t = "solver" => table.rows = [r \in old |-> OldRow(r, version)]
      BY <2>1
    <3> HIDE DEF table
    <3>3. QED
      BY <2>3, <3>1, <3>2 DEF HasNull, Extracted
  <2>5. table.notNull = Enforceable(table, << >>)
    BY <2>1, <2>4, NothingPending DEF Enforceable
  <2>6. \A r \in DOMAIN table.rows : \A c \in table.columns : FilledIn(<< >>, r, c, table.rows[r][c])
    BY <2>3 DEF FilledIn, Extracted
  <2> HIDE DEF table
  <2>7. AtVersion(table, t, version)
    BY <2>1, <2>2, <2>3, <2>5, <2>6, NothingPending DEF AtVersion, OnTheWay
  <2>8. QED
    BY <2>7 DEF table
<1>9. TableInv
  BY <1>2, <1>3, <1>6, <1>8 DEF TableInv, Others
<1>10. RequestInv
  <2>1. DOMAIN reply = Requests /\ DOMAIN step = Requests /\ DOMAIN holds = Requests
    BY <1>2
  <2>2. \A q \in Requests : step[q] = 1 /\ holds[q] = {} /\ Len(Statements(q)) \in Nat \ {0}
    BY <1>2 DEF Requests, Statements
  <2>3. "reseed" \in Requests
    BY DEF Requests
  <2>4. QED
    BY <2>1, <2>2, <2>3 DEF RequestInv
<1>11. QED
  BY <1>1, <1>4, <1>7, <1>9, <1>10 DEF MigrationInv

-----------------------------------------------------------------------------
(* Runners. *)

\* A step of one runner leaves the others what they have locked.
LEMMA OneRunner ==
  ASSUME MigrationInv, NEW r \in Runners,
         version' \in 0..7, StampInv', DOMAIN tables' = Tables, DOMAIN saved' = Runners,
         \A x \in Others(r) :
           saved'[x] = saved[x] /\ run'[x] = run[x] /\ (Running(x)' <=> Running(x)),
         \A x \in Others(r) : Locks(r)' \cap Locks(x) = {},
         \A q \in Requests : holds[q] \cap Locks(r)' = {},
         \A x \in Others(r) : \A t \in Locks(x) :
           tables'[t] = tables[t] /\ AtVersion(saved[x][t], t, version'),
         \A t \in Tables : t \notin Locks(r)' /\ (\A x \in Others(r) : t \notin Locks(x)) =>
           AtVersion(tables'[t], t, version'),
         RunInv(r)', UNCHANGED requestVars
  PROVE  MigrationInv'
<1>1. \A x \in Others(r) : Locks(x)' = Locks(x) /\ Stamped(x)' = Stamped(x)
  BY DEF Locks, Stamped
<1>2. ASSUME NEW x \in Others(r) PROVE RunInv(x)'
  <2>1. RunInv(x) /\ x \in Runners
    BY DEF MigrationInv, Others
  <2>2. OnScript(x)'
    BY <2>1 DEF RunInv, OnScript
  <2>3. FoundAtVersion(x)'
    BY <1>1, <2>1 DEF RunInv, FoundAtVersion
  <2>4. LockedOnTheWay(x)'
    BY <1>1, <2>1 DEF RunInv, LockedOnTheWay
  <2>5. Untouched(x)'
    BY <1>1, <2>1 DEF RunInv, Untouched
  <2>6. QED
    BY <2>2, <2>3, <2>4, <2>5 DEF RunInv
<1>3. \A x \in Runners : RunInv(x)'
  BY <1>2 DEF Others
<1>4. \A x \in Runners : \A y \in Others(x) : Locks(x)' \cap Locks(y)' = {}
  BY <1>1 DEF MigrationInv, TableInv, Others
<1>5. \A t \in Tables : Free(t)' => AtVersion(tables'[t], t, version')
  BY <1>1 DEF Free, Others
<1>6. TableInv'
  BY <1>4, <1>5 DEF TableInv, Others
<1>7. RequestInv'
  <2>1. \A q \in Requests : \A x \in Runners : holds[q] \cap Locks(x)' = {}
    BY <1>1 DEF MigrationInv, RequestInv, Others
  <2>2. QED
    BY <2>1 DEF MigrationInv, RequestInv, Waiting
<1>8. QED
  BY <1>3, <1>6, <1>7 DEF MigrationInv

\* No client has read what a runner locks.
LEMMA NothingHeld ==
  ASSUME MigrationInv, NEW r \in Runners, NEW L, L \subseteq Locks(r)
  PROVE  \A q \in Requests : holds[q] \cap L = {}
  BY DEF MigrationInv, RequestInv

LEMMA SeqOfItsOwn ==
  ASSUME NEW S, NEW seq \in Seq(S) PROVE seq \in Seq({seq[i] : i \in DOMAIN seq})
<1>1. PICK n \in Nat : n = Len(seq)
  OBVIOUS
<1>2. DOMAIN seq = 1..n /\ seq = [i \in 1..n |-> seq[i]]
  BY <1>1
<1>3. PICK R : R = {seq[i] : i \in DOMAIN seq}
  OBVIOUS
<1>4. [i \in 1..n |-> seq[i]] \in Seq(R)
  BY <1>2, <1>3
<1>5. QED
  BY <1>2, <1>3, <1>4

LEMMA BeginKeeps ==
  ASSUME MigrationInv, NEW r \in Runners, Begin(r) PROVE MigrationInv'
<1>1. PICK goal \in Stops :
        run' = [run EXCEPT ![r] = [goal |-> goal, from |-> version, at |-> version,
                                   todo |-> Script(version, goal)]]
  BY DEF Begin
<1>2. goal \in 0..7 /\ version \in 0..7
  BY StopsAssumption DEF MigrationInv
<1>3. /\ DOMAIN run = Runners /\ DOMAIN outcome = Runners
      /\ outcome[r] = "idle" /\ outcome' = [outcome EXCEPT ![r] = "running"]
      /\ UNCHANGED <<tables, version, saved, requestVars>>
  BY DEF Begin, MigrationInv, StampInv
<1>4. /\ run'[r] = [goal |-> goal, from |-> version, at |-> version,
                    todo |-> Script(version, goal)]
      /\ \A x \in Others(r) : run'[x] = run[x] /\ (Running(x)' <=> Running(x))
  BY <1>1, <1>3 DEF Others, Running
<1>5. Locks(r) = {} /\ Locks(r)' = {}
  BY <1>3 DEF MigrationInv, RunInv, FoundAtVersion, Running, Locks
<1>6. RunInv(r)'
  <2> DEFINE todo == Script(version, goal)
             n == Reached(version, goal)
  <2>1. /\ Rest(todo, Revision(version, goal), n)
        /\ todo \in Seq({todo[i] : i \in DOMAIN todo})
        /\ version = goal => todo = << >>
        /\ \A t \in Tables : \A c \in ModelColumns(t) :
             /\ Present(todo, n, c) <=> Since[c] <= version
             /\ Present(todo, n, c) => ~Pending(todo, Constraining, c) /\ ~Pending(todo, Filling, c)
    BY <1>2, ScriptBegins
  <2>2. version <= version /\ (version <= goal \/ goal <= version)
    BY <1>2
  <2>3. /\ run'[r].goal = goal /\ run'[r].from = version /\ run'[r].at = version
        /\ run'[r].todo = todo
    BY <1>4
  <2> HIDE DEF todo, n
  <2>4. OnScript(r)'
    BY <1>2, <2>1, <2>2, <2>3 DEF OnScript, n
  <2>5. FoundAtVersion(r)' /\ LockedOnTheWay(r)'
    BY <1>5 DEF FoundAtVersion, LockedOnTheWay
  <2>6. Untouched(r)'
    BY <1>5, <2>1, <2>3 DEF Untouched, n
  <2>7. QED
    BY <2>4, <2>5, <2>6 DEF RunInv
<1>7. StampInv'
  BY RunnerKeepsInv DEF MigrationInv, RunnerStep
<1>8. DOMAIN tables' = Tables /\ DOMAIN saved' = Runners
  BY <1>3 DEF MigrationInv, TableInv
<1>9. \A x \in Others(r) : \A t \in Locks(x) : AtVersion(saved[x][t], t, version)
  BY DEF MigrationInv, RunInv, FoundAtVersion, Others
<1>10. \A t \in Tables : (\A x \in Others(r) : t \notin Locks(x)) => AtVersion(tables[t], t, version)
  BY <1>5 DEF MigrationInv, TableInv, Free, Others
<1>11. \A q \in Requests : holds[q] \cap Locks(r)' = {}
  BY <1>5
<1>12. QED
  BY <1>2, <1>3, <1>4, <1>5, <1>6, <1>7, <1>8, <1>9, <1>10, <1>11, OneRunner

LEMMA ExecuteKeeps ==
  ASSUME MigrationInv, NEW r \in Runners, Execute(r) PROVE MigrationInv'
<1> DEFINE todo == run[r].todo
           s == todo[1]
           n == Reached(run[r].at, run[r].goal)
           revision == Revision(run[r].at, run[r].goal)
<1>1. /\ Running(r) /\ todo # << >> /\ HoldersAgainstRunner(r, s) = {} /\ ~Fails(s, tables)
      /\ saved' = [saved EXCEPT ![r] = [t \in DOMAIN saved[r] \cup LockedBy(s) |-> Found(r, t)]]
      /\ tables' = Apply(tables, s)
      /\ run' = [run EXCEPT ![r].todo = Tail(todo)]
      /\ UNCHANGED <<version, outcome, requestVars>>
  BY DEF Execute
<1>2. /\ OnScript(r) /\ FoundAtVersion(r) /\ Untouched(r) /\ DOMAIN run = Runners
      /\ DOMAIN saved = Runners /\ DOMAIN tables = Tables /\ version \in 0..7
      /\ run[r] = [goal |-> run[r].goal, from |-> run[r].from, at |-> run[r].at, todo |-> run[r].todo]
  BY DEF MigrationInv, RunInv, TableInv, StampInv
<1>3. /\ n \in Nat /\ revision \in Nat /\ todo \in Seq({todo[i] : i \in DOMAIN todo})
      /\ Rest(todo, revision, n) /\ run[r].at # run[r].goal
  <2>1. /\ revision \in Nat /\ n \in 0..7
        /\ todo \in Seq({todo[i] : i \in DOMAIN todo})
        /\ Rest(todo, revision, n)
        /\ todo # << >> => run[r].at # run[r].goal
    BY <1>2, ScriptFacts
  <2> HIDE DEF todo, s, n, revision
  <2>2. QED
    BY <1>1, <2>1
<1>4. s.table \in Tables /\ s.parent \in Tables /\ Sensible(s, revision)
  BY <1>1, <1>3, FirstOfRest DEF Sensible
<1>5. /\ run'[r] = [goal |-> run[r].goal, from |-> run[r].from, at |-> run[r].at, todo |-> Tail(todo)]
      /\ \A x \in Others(r) : saved'[x] = saved[x] /\ run'[x] = run[x] /\ (Running(x)' <=> Running(x))
  BY <1>1, <1>2 DEF Others, Running
<1>6. /\ Locks(r)' = Locks(r) \cup LockedBy(s)
      /\ \A t \in Locks(r)' : saved'[r][t] = Found(r, t)
  BY <1>1, <1>2 DEF Locks
<1>7. LockedBy(s) \subseteq Tables /\ \A x \in Others(r) : Locks(x) \cap LockedBy(s) = {}
  BY <1>1, <1>4 DEF LockedBy, HoldersAgainstRunner
<1>8. \A x \in Others(r) : Locks(r)' \cap Locks(x) = {}
  BY <1>6, <1>7 DEF MigrationInv, TableInv
<1>9. /\ DOMAIN tables' = Tables /\ tables'[s.table] = Effect(s, tables[s.table])
      /\ \A t \in Tables : t # s.table => tables'[t] = tables[t]
      /\ s.table \in LockedBy(s)
  BY <1>1, <1>2, <1>4 DEF Apply, LockedBy
<1>10. OnScript(r)'
  <2>1. Rest(Tail(todo), revision, n)
    BY <1>1, <1>3, RestOfRest
  <2>2. Tail(todo) \in Seq({Tail(todo)[i] : i \in DOMAIN Tail(todo)})
    <3>1. PICK S : todo \in Seq(S)
      BY <1>3
    <3>2. Tail(todo) \in Seq(S)
      BY <1>1, <3>1, FirstStatement
    <3>3. QED
      BY <3>2, SeqOfItsOwn
  <2>3. /\ run'[r].goal = run[r].goal /\ run'[r].from = run[r].from /\ run'[r].at = run[r].at
        /\ run'[r].todo = Tail(todo)
    BY <1>5
  <2>4. QED
    BY <1>2, <1>3, <2>1, <2>2, <2>3 DEF OnScript
<1>11. FoundAtVersion(r)'
  <2>1. Running(r)' /\ run'[r].at # run'[r].goal /\ Locks(r)' \subseteq Tables
    BY <1>1, <1>2, <1>3, <1>5, <1>6, <1>7 DEF Running, FoundAtVersion
  <2>2. ASSUME NEW t \in Locks(r)' PROVE AtVersion(saved'[r][t], t, version')
    <3>1. t \in Tables /\ \A x \in Others(r) : t \notin Locks(x)
      BY <1>8, <2>1
    <3>2. AtVersion(Found(r, t), t, version)
      BY <3>1, FoundTable
    <3>3. QED
      BY <1>1, <1>6, <3>2
  <2>3. QED
    BY <2>1, <2>2 DEF FoundAtVersion
<1>12. LockedOnTheWay(r)'
  <2>1. ASSUME NEW t \in Locks(r)', saved'[r][t].columns = ColumnsAt(t, run'[r].from)
        PROVE  OnTheWay(tables'[t], t, Tail(todo), n)
    <3>1. t \in Tables /\ \A x \in Others(r) : t \notin Locks(x)
      BY <1>2, <1>6, <1>7, <1>8 DEF FoundAtVersion
    <3>2. Found(r, t).columns = ColumnsAt(t, run[r].from)
      BY <1>5, <1>6, <2>1
    <3>3. OnTheWay(tables[t], t, todo, n)
      BY <1>1, <3>1, <3>2, TableOnTheWay
    <3>4. CASE t = s.table
      <4>1. s.do = "not_null" => ~HasNull(tables[t], s.column)
        BY <1>1, <3>4 DEF Fails
      <4>2. QED
        BY <1>1, <1>3, <1>9, <3>3, <3>4, <4>1, StatementGoesOn
    <3>5. CASE t # s.table
      BY <1>1, <1>3, <1>9, <3>1, <3>3, <3>5, OtherTables
    <3>6. QED
      BY <3>4, <3>5
  <2>2. QED
    BY <1>5, <2>1 DEF LockedOnTheWay
<1>13. Untouched(r)'
  <2>1. ASSUME NEW t \in Tables \ Locks(r)', NEW c \in ModelColumns(t)
        PROVE  /\ Present(Tail(todo), n, c) <=> Since[c] <= run[r].from
               /\ Present(Tail(todo), n, c) =>
                    ~Pending(Tail(todo), Constraining, c) /\ ~Pending(Tail(todo), Filling, c)
    <3>1. t # s.table /\ t \in Tables \ Locks(r)
      BY <1>6, <1>9
    <3>2. /\ Present(todo, n, c) <=> Since[c] <= run[r].from
          /\ Present(todo, n, c) => ~Pending(todo, Constraining, c) /\ ~Pending(todo, Filling, c)
      BY <1>1, <1>2, <3>1 DEF Untouched
    <3>3. /\ Present(Tail(todo), n, c) <=> Present(todo, n, c)
          /\ \A kinds : Pending(Tail(todo), kinds, c) <=> Pending(todo, kinds, c)
      BY <1>1, <1>3, <3>1, OtherTables
    <3>4. QED
      BY <3>2, <3>3
  <2>2. /\ run'[r].goal = run[r].goal /\ run'[r].from = run[r].from /\ run'[r].at = run[r].at
        /\ run'[r].todo = Tail(todo)
    BY <1>5
  <2> HIDE DEF todo, n
  <2>3. QED
    BY <2>1, <2>2 DEF Untouched, n
<1>14. RunInv(r)'
  BY <1>10, <1>11, <1>12, <1>13 DEF RunInv
<1>15. StampInv'
  BY RunnerKeepsInv DEF MigrationInv, RunnerStep
<1>16. \A x \in Others(r) : \A t \in Locks(x) : tables'[t] = tables[t] /\ AtVersion(saved[x][t], t, version')
  <2>1. \A x \in Others(r) : \A t \in Locks(x) : t \in Tables /\ AtVersion(saved[x][t], t, version)
    BY DEF MigrationInv, RunInv, FoundAtVersion, Others
  <2>2. QED
    BY <1>1, <1>7, <1>9, <2>1
<1>17. ASSUME NEW t \in Tables, t \notin Locks(r)', \A x \in Others(r) : t \notin Locks(x)
       PROVE  AtVersion(tables'[t], t, version')
  <2>1. Free(t) /\ t # s.table
    BY <1>6, <1>9, <1>17 DEF Free, Others
  <2>2. QED
    BY <1>1, <1>9, <2>1 DEF MigrationInv, TableInv
<1>18. DOMAIN saved' = Runners /\ DOMAIN tables' = Tables /\ version' \in 0..7 /\ UNCHANGED requestVars
  BY <1>1, <1>2, <1>9
<1>19. \A q \in Requests : holds[q] \cap Locks(r)' = {}
  BY <1>1, <1>6, NothingHeld DEF HoldersAgainstRunner
<1> HIDE DEF todo, s, n, revision
<1>20. QED
  BY <1>5, <1>8, <1>14, <1>15, <1>16, <1>17, <1>18, <1>19, OneRunner

LEMMA LockedByOthers ==
  ASSUME MigrationInv, NEW r \in Runners, NEW x \in Others(r), NEW t \in Locks(x)
  PROVE  t \in Tables /\ t \notin Locks(r) /\ AtVersion(saved[x][t], t, version)
<1>1. FoundAtVersion(x) /\ Locks(r) \cap Locks(x) = {}
  BY DEF MigrationInv, RunInv, TableInv, Others
<1>2. QED
  BY <1>1 DEF FoundAtVersion

LEMMA RollBackKeeps ==
  ASSUME MigrationInv, NEW r \in Runners, NEW how, how # "running", RollBack(r, how), StampInv'
  PROVE  MigrationInv'
<1>1. /\ Running(r) /\ tables' = [t \in Tables |-> Found(r, t)]
      /\ outcome' = [outcome EXCEPT ![r] = how] /\ saved' = [saved EXCEPT ![r] = << >>]
      /\ UNCHANGED <<version, run, requestVars>>
  BY DEF RollBack, End
<1>2. /\ DOMAIN saved = Runners /\ DOMAIN outcome = Runners /\ version \in 0..7 /\ OnScript(r)
  BY DEF MigrationInv, RunInv, TableInv, StampInv
<1>3. DOMAIN saved' = Runners /\ saved'[r] = << >> /\ outcome'[r] = how
  BY <1>1, <1>2
<1>4. \A x \in Others(r) : saved'[x] = saved[x] /\ run'[x] = run[x] /\ (Running(x)' <=> Running(x))
  BY <1>1, <1>2 DEF Others, Running
<1>5. Locks(r)' = {} /\ ~Running(r)'
  BY <1>3 DEF Locks, Running
<1>6. RunInv(r)'
  <2>1. OnScript(r)'
    BY <1>1, <1>2 DEF OnScript
  <2>2. QED
    BY <1>5, <2>1 DEF RunInv, FoundAtVersion, LockedOnTheWay, Untouched
<1>7. \A x \in Others(r) : \A t \in Locks(x) :
        tables'[t] = tables[t] /\ AtVersion(saved[x][t], t, version')
  BY <1>1, LockedByOthers DEF Found
<1>8. \A t \in Tables : t \notin Locks(r)' /\ (\A x \in Others(r) : t \notin Locks(x)) =>
        AtVersion(tables'[t], t, version')
  BY <1>1, FoundTable
<1>9. DOMAIN tables' = Tables /\ version' \in 0..7 /\ UNCHANGED requestVars
  BY <1>1, <1>2
<1>10. \A q \in Requests : holds[q] \cap Locks(r)' = {}
  BY <1>5
<1>11. QED
  BY <1>3, <1>4, <1>5, <1>6, <1>7, <1>8, <1>9, <1>10, OneRunner

LEMMA StampKeeps ==
  ASSUME MigrationInv, NEW r \in Runners, Stamp(r) PROVE MigrationInv'
<1> DEFINE at == Reached(run[r].at, run[r].goal)
           goal == run[r].goal
           from == run[r].from
           todo == Script(at, goal)
           n == Reached(at, goal)
<1>1. /\ Running(r) /\ run[r].todo = << >> /\ run[r].at # goal
      /\ run' = [run EXCEPT ![r].at = at, ![r].todo = todo]
      /\ UNCHANGED <<tables, version, saved, outcome, requestVars>>
  <2>1. run[r].at \in 0..7 /\ goal \in 0..7 /\ run[r].at # goal
    BY ScriptFacts DEF Stamp, MigrationInv, RunInv
  <2>2. (IF run[r].at < goal THEN run[r].at + 1 ELSE run[r].at - 1) = at
    BY <2>1 DEF Reached
  <2>3. QED
    BY <2>2 DEF Stamp
<1>2. /\ OnScript(r) /\ FoundAtVersion(r) /\ LockedOnTheWay(r) /\ Untouched(r)
      /\ DOMAIN run = Runners /\ DOMAIN saved = Runners /\ DOMAIN tables = Tables /\ version \in 0..7
      /\ run[r] = [goal |-> run[r].goal, from |-> run[r].from, at |-> run[r].at, todo |-> run[r].todo]
  BY DEF MigrationInv, RunInv, TableInv, StampInv
<1>3. /\ run'[r].goal = goal /\ run'[r].from = from /\ run'[r].at = at /\ run'[r].todo = todo
      /\ \A x \in Others(r) :
           saved'[x] = saved[x] /\ run'[x] = run[x] /\ (Running(x)' <=> Running(x))
  <2>1. run'[r] = [goal |-> goal, from |-> from, at |-> at, todo |-> todo]
    BY <1>1, <1>2
  <2>2. QED
    BY <1>1, <1>2, <2>1 DEF Others, Running
<1>4. /\ goal \in 0..7 /\ from \in 0..7 /\ at \in 0..7 /\ at # from
      /\ (from <= at /\ at <= goal) \/ (goal <= at /\ at <= from)
  <2>1. /\ goal \in 0..7 /\ from \in 0..7 /\ run[r].at \in 0..7
        /\ (from <= run[r].at /\ run[r].at <= goal) \/ (goal <= run[r].at /\ run[r].at <= from)
    BY <1>2 DEF OnScript
  <2>2. QED
    BY <1>1, <2>1 DEF Reached
<1>5. /\ Rest(todo, Revision(at, goal), n)
      /\ todo \in Seq({todo[i] : i \in DOMAIN todo})
      /\ at = goal => todo = << >>
      /\ \A t \in Tables : \A c \in ModelColumns(t) :
           /\ Present(todo, n, c) <=> Since[c] <= at
           /\ Present(todo, n, c) => ~Pending(todo, Constraining, c) /\ ~Pending(todo, Filling, c)
  BY <1>4, ScriptBegins
<1> HIDE DEF at, todo, n
<1>6. OnScript(r)'
  BY <1>3, <1>4, <1>5 DEF OnScript, n
<1>7. Locks(r)' = Locks(r) /\ Running(r)'
  BY <1>1 DEF Locks, Running
<1>8. FoundAtVersion(r)'
  BY <1>1, <1>2, <1>3, <1>4, <1>7 DEF FoundAtVersion, Stamped
<1>9. LockedOnTheWay(r)'
  <2>1. ASSUME NEW t \in Locks(r), saved[r][t].columns = ColumnsAt(t, from)
        PROVE  OnTheWay(tables[t], t, todo, n)
    <3>1. AtVersion(tables[t], t, at) /\ t \in Tables
      BY <1>1, <1>2, <2>1 DEF LockedOnTheWay, FoundAtVersion, AtVersion, at
    <3>2. \A c \in ModelColumns(t) : c \in tables[t].columns <=> Since[c] <= at
      BY <3>1, ColumnsOfVersion DEF ColumnsAt
    <3>3. QED
      BY <1>5, <3>1, <3>2, ComeTo
  <2>2. QED
    BY <1>1, <1>3, <1>7, <2>1 DEF LockedOnTheWay, n
<1>10. Untouched(r)'
  <2>1. ASSUME NEW t \in Tables \ Locks(r), NEW c \in ModelColumns(t)
        PROVE  /\ Present(todo, n, c) <=> Since[c] <= from
               /\ Present(todo, n, c) => ~Pending(todo, Constraining, c) /\ ~Pending(todo, Filling, c)
    <3>1. Present(<< >>, at, c) <=> Since[c] <= from
      BY <1>1, <1>2 DEF Untouched, at
    <3>2. Since[c] <= at <=> Since[c] <= from
      BY <3>1, NothingPending
    <3>3. QED
      BY <1>5, <3>2
  <2>2. QED
    BY <1>3, <1>7, <2>1 DEF Untouched, n
<1>11. RunInv(r)'
  BY <1>6, <1>8, <1>9, <1>10 DEF RunInv
<1>12. StampInv'
  BY RunnerKeepsInv DEF MigrationInv, RunnerStep
<1>13. /\ \A x \in Others(r) : Locks(r)' \cap Locks(x) = {}
       /\ \A x \in Others(r) : \A t \in Locks(x) :
            tables'[t] = tables[t] /\ AtVersion(saved[x][t], t, version')
  BY <1>1, <1>7, LockedByOthers
<1>14. ASSUME NEW t \in Tables, t \notin Locks(r)', \A x \in Others(r) : t \notin Locks(x)
       PROVE  AtVersion(tables'[t], t, version')
  <2>1. Free(t)
    BY <1>7, <1>14 DEF Free, Others
  <2>2. QED
    BY <1>1, <2>1 DEF MigrationInv, TableInv
<1>15. DOMAIN saved' = Runners /\ DOMAIN tables' = Tables /\ version' \in 0..7 /\ UNCHANGED requestVars
  BY <1>1, <1>2
<1>16. \A q \in Requests : holds[q] \cap Locks(r)' = {}
  BY <1>7, NothingHeld
<1>17. QED
  BY <1>3, <1>11, <1>12, <1>13, <1>14, <1>15, <1>16, OneRunner

LEMMA CommitKeeps ==
  ASSUME MigrationInv, NEW r \in Runners, CommitRun(r) PROVE MigrationInv'
<1> DEFINE goal == run[r].goal
           from == run[r].from
<1>1. /\ Running(r) /\ run[r].todo = << >> /\ run[r].at = goal
      /\ version' = IF Stamped(r) THEN goal ELSE version
      /\ outcome' = [outcome EXCEPT ![r] = "done"] /\ saved' = [saved EXCEPT ![r] = << >>]
      /\ UNCHANGED <<tables, run, requestVars>>
  BY DEF CommitRun, End
<1>2. /\ OnScript(r) /\ FoundAtVersion(r) /\ LockedOnTheWay(r) /\ Untouched(r)
      /\ DOMAIN outcome = Runners /\ DOMAIN saved = Runners /\ DOMAIN tables = Tables
      /\ version \in 0..7
  BY DEF MigrationInv, RunInv, TableInv, StampInv
<1>3. DOMAIN saved' = Runners /\ saved'[r] = << >> /\ outcome'[r] = "done"
  BY <1>1, <1>2
<1>4. \A x \in Others(r) : saved'[x] = saved[x] /\ run'[x] = run[x] /\ (Running(x)' <=> Running(x))
  BY <1>1, <1>2 DEF Others, Running
<1>5. Locks(r)' = {} /\ ~Running(r)'
  BY <1>3 DEF Locks, Running
<1>6. RunInv(r)'
  <2>1. OnScript(r)'
    BY <1>1, <1>2 DEF OnScript
  <2>2. QED
    BY <1>5, <2>1 DEF RunInv, FoundAtVersion, LockedOnTheWay, Untouched
<1>7. goal \in 0..7 /\ Reached(run[r].at, goal) = goal
  BY <1>1, <1>2 DEF OnScript, Reached
\* The runner's tables are those of its goal, and others have the columns they had.
<1>8. /\ version' \in 0..7
      /\ \A t \in Locks(r) : AtVersion(tables[t], t, version')
      /\ \A t \in Tables \ Locks(r) : ColumnsAt(t, version) = ColumnsAt(t, version')
  <2>1. CASE ~Stamped(r)
    BY <1>1, <1>2, <2>1 DEF FoundAtVersion
  <2>2. CASE Stamped(r)
    <3>1. version = from /\ version' = goal
      BY <1>1, <2>2 DEF MigrationInv, StampInv
    <3>2. ASSUME NEW t \in Locks(r) PROVE AtVersion(tables[t], t, goal)
      <4>1. saved[r][t].columns = ColumnsAt(t, from)
        BY <1>2, <3>1, ColumnsOfVersion DEF FoundAtVersion
      <4>2. OnTheWay(tables[t], t, run[r].todo, Reached(run[r].at, run[r].goal))
        BY <1>1, <1>2, <4>1 DEF LockedOnTheWay
      <4>3. QED
        BY <1>1, <1>7, <4>2 DEF AtVersion
    <3>3. ASSUME NEW t \in Tables \ Locks(r), NEW c \in ModelColumns(t)
          PROVE  Since[c] <= goal <=> Since[c] <= from
      <4>1. Present(run[r].todo, Reached(run[r].at, run[r].goal), c) <=> Since[c] <= from
        BY <1>1, <1>2 DEF Untouched
      <4>2. Present(<< >>, goal, c) <=> Since[c] <= from
        BY <1>1, <1>7, <4>1
      <4>3. QED
        BY <4>2, NothingPending
    <3>4. \A t \in Tables \ Locks(r) : ColumnsAt(t, from) = ColumnsAt(t, goal)
      BY <3>3 DEF ColumnsAt
    <3>5. QED
      BY <1>7, <3>1, <3>2, <3>4
  <2>3. QED
    BY <2>1, <2>2
<1> HIDE DEF goal, from
<1>9. \A x \in Others(r) : \A t \in Locks(x) :
        tables'[t] = tables[t] /\ AtVersion(saved[x][t], t, version')
  BY <1>1, <1>8, LockedByOthers, OtherVersion
<1>10. ASSUME NEW t \in Tables, t \notin Locks(r)', \A x \in Others(r) : t \notin Locks(x)
       PROVE  AtVersion(tables'[t], t, version')
  <2>1. CASE t \in Locks(r)
    BY <1>1, <1>8, <2>1
  <2>2. CASE t \notin Locks(r)
    <3>1. Free(t)
      BY <1>10, <2>2 DEF Free, Others
    <3>2. AtVersion(tables[t], t, version)
      BY <3>1 DEF MigrationInv, TableInv
    <3>3. QED
      BY <1>1, <1>8, <2>2, <3>2, OtherVersion
  <2>3. QED
    BY <2>1, <2>2
<1>11. StampInv'
  BY RunnerKeepsInv DEF MigrationInv, RunnerStep
<1>12. DOMAIN tables' = Tables /\ UNCHANGED requestVars
  BY <1>1, <1>2
<1>13. \A q \in Requests : holds[q] \cap Locks(r)' = {}
  BY <1>5
<1>14. QED
  BY <1>3, <1>4, <1>5, <1>6, <1>8, <1>9, <1>10, <1>11, <1>12, <1>13, OneRunner

-----------------------------------------------------------------------------
(* Requests. *)

\* A table without a lock is that of the version.
LEMMA FreeTable ==
  ASSUME MigrationInv, NEW q \in Requests, HoldersAgainstRequest(q) = {}
  PROVE  /\ Target(q) \in Tables /\ Free(Target(q))
         /\ AtVersion(tables[Target(q)], Target(q), version)
<1>1. Target(q) \in Tables
  BY DEF MigrationInv, RequestInv, Target, Statements, Requests, Tables
<1>2. Free(Target(q))
  BY DEF HoldersAgainstRequest, Free
<1>3. QED
  BY <1>1, <1>2 DEF MigrationInv, TableInv

\* A new row has what the models say, at a version that has it.
LEMMA NewRow ==
  ASSUME NEW q \in Requests, NEW table, NEW t, NEW v, AtVersion(table, t, v),
         NEW row, DOMAIN row = table.columns,
         \A c \in table.columns : row[c] = "null" => c = "failure_embedding",
         NEW e, e = [table EXCEPT !.rows =
                       [x \in DOMAIN table.rows \cup {q} |-> IF x = q THEN row ELSE table.rows[x]]]
  PROVE  /\ AtVersion(e, t, v)
         /\ e.columns = table.columns /\ e.notNull = table.notNull
         /\ DOMAIN e.rows = DOMAIN table.rows \cup {q}
         /\ e.rows[q] = row /\ \A x \in DOMAIN table.rows \ {q} : e.rows[x] = table.rows[x]
         /\ "entry_function" \in table.columns =>
              (HasNull(e, "entry_function") <=> HasNull(table, "entry_function"))
<1>1. /\ table = [columns |-> table.columns, notNull |-> table.notNull, rows |-> table.rows]
      /\ table.columns = {c \in ModelColumns(t) : Present(<< >>, v, c)}
      /\ table.notNull \subseteq Enforceable(table, << >>)
      /\ Enforceable(table, << >>) \ {"entry_function"} \subseteq table.notNull
      /\ \A r \in DOMAIN table.rows :
           /\ DOMAIN table.rows[r] = table.columns
           /\ \A c \in table.columns : FilledIn(<< >>, r, c, table.rows[r][c])
  BY NothingPending DEF AtVersion, OnTheWay
<1>2. /\ e = [columns |-> e.columns, notNull |-> e.notNull, rows |-> e.rows]
      /\ e.columns = table.columns /\ e.notNull = table.notNull
      /\ DOMAIN e.rows = DOMAIN table.rows \cup {q}
      /\ e.rows[q] = row /\ \A x \in DOMAIN table.rows \ {q} : e.rows[x] = table.rows[x]
  BY <1>1
<1>3. q \notin NoFunction
  BY RowsAssumption, FreshAssumption
<1>4. \A c \in table.columns : FilledIn(<< >>, q, c, row[c])
  BY DEF FilledIn
<1>5. "entry_function" \in table.columns => (HasNull(e, "entry_function") <=> HasNull(table, "entry_function"))
  <2>1. ASSUME q \in DOMAIN table.rows, "entry_function" \in table.columns
        PROVE  table.rows[q]["entry_function"] # "null"
    BY <1>1, <1>3, <2>1, NothingPending DEF FilledIn
  <2>2. "entry_function" \in table.columns => row["entry_function"] # "null"
    OBVIOUS
  <2>3. QED
    BY <1>2, <2>1, <2>2 DEF HasNull
<1>6. Enforceable(e, << >>) = Enforceable(table, << >>)
  BY <1>2, <1>5 DEF Enforceable
<1>7. ASSUME NEW r \in DOMAIN e.rows
      PROVE  /\ DOMAIN e.rows[r] = e.columns
             /\ \A c \in e.columns : FilledIn(<< >>, r, c, e.rows[r][c])
  <2>1. CASE r = q
    BY <1>2, <1>4, <2>1
  <2>2. CASE r # q
    <3>1. r \in DOMAIN table.rows /\ e.rows[r] = table.rows[r]
      BY <1>2, <2>2
    <3>2. QED
      BY <1>1, <1>2, <3>1
  <2>3. QED
    BY <2>1, <2>2
<1>8. e.columns = {c \in ModelColumns(t) : Present(<< >>, v, c)}
  BY <1>1, <1>2
<1>9. AtVersion(e, t, v)
  BY <1>1, <1>2, <1>6, <1>7, <1>8 DEF AtVersion, OnTheWay
<1>10. QED
  BY <1>2, <1>5, <1>9

\* Nor does it matter which rows are deleted.
LEMMA FewerRows ==
  ASSUME NEW table, NEW t, NEW v, AtVersion(table, t, v), NEW gone
  PROVE  LET e == Without(table, gone) IN
         /\ AtVersion(e, t, v)
         /\ e.columns = table.columns /\ e.notNull = table.notNull
         /\ DOMAIN e.rows = DOMAIN table.rows \ gone
         /\ \A x \in DOMAIN e.rows : e.rows[x] = table.rows[x]
<1>1. PICK e : e = Without(table, gone)
  OBVIOUS
<1>2. /\ table = [columns |-> table.columns, notNull |-> table.notNull, rows |-> table.rows]
      /\ table.columns = {c \in ModelColumns(t) : Present(<< >>, v, c)}
      /\ table.notNull \subseteq Enforceable(table, << >>)
      /\ Enforceable(table, << >>) \ {"entry_function"} \subseteq table.notNull
      /\ \A r \in DOMAIN table.rows :
           /\ DOMAIN table.rows[r] = table.columns
           /\ \A c \in table.columns : FilledIn(<< >>, r, c, table.rows[r][c])
  BY NothingPending DEF AtVersion, OnTheWay
<1>3. /\ e = [columns |-> e.columns, notNull |-> e.notNull, rows |-> e.rows]
      /\ e.columns = table.columns /\ e.notNull = table.notNull
      /\ DOMAIN e.rows = DOMAIN table.rows \ gone
      /\ \A x \in DOMAIN e.rows : e.rows[x] = table.rows[x]
  BY <1>1, <1>2 DEF Without
<1>4. HasNull(e, "entry_function") => HasNull(table, "entry_function")
  BY <1>3 DEF HasNull
<1>5. /\ Enforceable(table, << >>) \subseteq Enforceable(e, << >>)
      /\ Enforceable(e, << >>) \ {"entry_function"} \subseteq Enforceable(table, << >>)
  BY <1>3, <1>4 DEF Enforceable
<1>6. \A r \in DOMAIN e.rows :
        /\ DOMAIN e.rows[r] = e.columns
        /\ \A c \in e.columns : FilledIn(<< >>, r, c, e.rows[r][c])
  BY <1>2, <1>3
<1>7. e.columns = {c \in ModelColumns(t) : Present(<< >>, v, c)}
  BY <1>2, <1>3
<1>8. AtVersion(e, t, v)
  BY <1>2, <1>3, <1>5, <1>6, <1>7 DEF AtVersion, OnTheWay
<1>9. QED
  BY <1>1, <1>3, <1>8

\* Requests change only what no runner has locked.
LEMMA OnlyFreeTables ==
  ASSUME MigrationInv, UNCHANGED <<version, run, outcome, saved>>, RequestInv',
         DOMAIN tables' = Tables,
         \A t \in Tables : ~Free(t) => tables'[t] = tables[t],
         \A t \in Tables : Free(t) => AtVersion(tables'[t], t, version)
  PROVE  MigrationInv'
<1>1. \A r \in Runners : Locks(r)' = Locks(r) /\ Stamped(r)' = Stamped(r) /\ (Running(r)' <=> Running(r))
  BY DEF Locks, Stamped, Running
<1>2. ASSUME NEW r \in Runners PROVE RunInv(r)'
  <2>1. RunInv(r)
    BY DEF MigrationInv
  <2>2. OnScript(r)'
    BY <2>1 DEF RunInv, OnScript
  <2>3. FoundAtVersion(r)'
    BY <1>1, <2>1 DEF RunInv, FoundAtVersion
  <2>4. LockedOnTheWay(r)'
    <3>1. \A t \in Locks(r) : tables'[t] = tables[t]
      BY <2>1 DEF RunInv, FoundAtVersion, Free
    <3>2. QED
      BY <1>1, <2>1, <3>1 DEF RunInv, LockedOnTheWay
  <2>5. Untouched(r)'
    BY <1>1, <2>1 DEF RunInv, Untouched
  <2>6. QED
    BY <2>2, <2>3, <2>4, <2>5 DEF RunInv
<1>3. TableInv'
  <2>1. \A t \in Tables : Free(t)' <=> Free(t)
    BY <1>1 DEF Free
  <2>2. \A r \in Runners : \A x \in Others(r) : Locks(r)' \cap Locks(x)' = {}
    BY <1>1 DEF MigrationInv, TableInv, Others
  <2>3. DOMAIN saved' = Runners
    BY DEF MigrationInv, TableInv
  <2>4. \A t \in Tables : Free(t)' => AtVersion(tables'[t], t, version')
    BY <2>1
  <2>5. QED
    BY <2>2, <2>3, <2>4 DEF TableInv
<1>4. StampInv'
  BY DEF MigrationInv, StampInv, Running, Stamped
<1>5. QED
  BY <1>2, <1>3, <1>4 DEF MigrationInv

LEMMA RequestKeeps ==
  ASSUME MigrationInv, NEW q \in Requests,
         RequestStep(q) \/ (Answer(q, "deadlock") /\ UNCHANGED tables)
  PROVE  MigrationInv'
<1>1. /\ RequestInv /\ DOMAIN tables = Tables
      /\ \A t \in Tables : Free(t) => AtVersion(tables[t], t, version)
  BY DEF MigrationInv, TableInv
<1>2. /\ DOMAIN reply = Requests /\ DOMAIN step = Requests /\ DOMAIN holds = Requests
      /\ \A p \in Requests : step[p] \in 1..Len(Statements(p)) /\ Len(Statements(p)) \in Nat
      /\ \A p \in Requests : \A r \in Runners : holds[p] \cap Locks(r) = {}
      /\ "reseed" \in Requests
  <2>1. \A p \in Requests : Len(Statements(p)) \in Nat
    BY DEF Statements, Requests
  <2>2. "reseed" \in Requests
    BY DEF Requests
  <2>3. QED
    BY <1>1, <2>1, <2>2 DEF RequestInv
<1>3. ASSUME NEW what, Answer(q, what), what # "none"
      PROVE  UNCHANGED <<version, run, outcome, saved>> /\ RequestInv'
  <2>1. /\ reply' = [reply EXCEPT ![q] = what] /\ holds' = [holds EXCEPT ![q] = {}]
        /\ UNCHANGED <<step, version, run, outcome, saved>>
    BY <1>3 DEF Answer
  <2>2. \A p \in Requests : holds'[p] = IF p = q THEN {} ELSE holds[p]
    BY <1>2, <2>1
  <2>3. \A p \in Requests : \A r \in Runners : holds'[p] \cap Locks(r)' = {}
    BY <1>2, <2>1, <2>2 DEF Locks
  <2>4. Waiting("reseed")' => q # "reseed" /\ Waiting("reseed") /\ holds'["reseed"] = holds["reseed"]
    BY <1>2, <1>3, <2>1, <2>2 DEF Waiting
  <2>5. QED
    BY <1>1, <1>2, <2>1, <2>3, <2>4 DEF RequestInv
<1>4. ASSUME NEW what, Answer(q, what), what # "none", UNCHANGED tables PROVE MigrationInv'
  BY <1>1, <1>3, <1>4, OnlyFreeTables
<1>5. CASE Read(q)
  <2>1. /\ UNCHANGED <<version, run, outcome, saved>> /\ UNCHANGED <<tables, reply>>
        /\ step' = [step EXCEPT ![q] = step[q] + 1] /\ step[q] # Len(Statements(q))
        /\ holds' = [holds EXCEPT ![q] = holds[q] \cup {Target(q)}]
        /\ HoldersAgainstRequest(q) = {}
    BY <1>5 DEF Read, Reads, AtLast, MayAccess
  <2>2. \A p \in Requests : step'[p] \in 1..Len(Statements(p))
    BY <1>2, <2>1
  <2>3. /\ \A p \in Requests : holds'[p] = IF p = q THEN holds[p] \cup {Target(q)} ELSE holds[p]
        /\ step'[q] = step[q] + 1 /\ \A p \in Requests \ {q} : step'[p] = step[p]
    BY <1>2, <2>1
  <2>4. \A p \in Requests : \A r \in Runners : holds'[p] \cap Locks(r)' = {}
    BY <1>2, <2>1, <2>3 DEF Locks, HoldersAgainstRequest
  <2>5. ASSUME Waiting("reseed")', NEW i \in 1..(step'["reseed"] - 1)
        PROVE  Statements("reseed")[i] \in holds'["reseed"]
    <3>1. Waiting("reseed") /\ \A j \in 1..(step["reseed"] - 1) : Statements("reseed")[j] \in holds["reseed"]
      BY <1>1, <2>1, <2>5 DEF Waiting, RequestInv
    <3>2. CASE q # "reseed"
      BY <1>2, <2>3, <2>5, <3>1, <3>2
    <3>3. CASE q = "reseed"
      <4>1. step[q] \in Nat /\ i \in 1..step[q] /\ Target(q) = Statements("reseed")[step[q]]
        BY <1>2, <2>3, <2>5, <3>3 DEF Target
      <4>2. i \in 1..(step[q] - 1) \/ i = step[q]
        BY <4>1
      <4>3. QED
        BY <2>3, <3>1, <3>3, <4>1, <4>2
    <3>4. QED
      BY <3>2, <3>3
  <2>6. RequestInv'
    BY <1>2, <2>1, <2>2, <2>4, <2>5 DEF RequestInv
  <2>7. QED
    BY <1>1, <2>1, <2>6, OnlyFreeTables
<1>6. CASE Persist(q)
  <2> DEFINE t == Target(q)
             row == RowGiven(t)
             e == [tables[t] EXCEPT !.rows =
                     [x \in DOMAIN tables[t].rows \cup {q} |->
                        IF x = q THEN row ELSE tables[t].rows[x]]]
  <2>1. t \in Tables /\ Free(t) /\ AtVersion(tables[t], t, version)
    BY <1>6, FreeTable DEF Persist, MayAccess
  <2>2. /\ tables' = [tables EXCEPT ![t] = e]
        /\ step' = [step EXCEPT ![q] = step[q] + 1] /\ step[q] + 1 = Len(Statements(q))
        /\ holds' = [holds EXCEPT ![q] = {}] /\ q # "reseed"
        /\ UNCHANGED <<version, run, outcome, saved, reply>>
    BY <1>6 DEF Persist, Inserts
  <2>3. AtVersion(e, t, version)
    <3>1. DOMAIN row = tables[t].columns
      BY DEF RowGiven
    <3>2. \A c \in tables[t].columns : row[c] = "null" => c = "failure_embedding"
      BY DEF RowGiven
    <3> HIDE DEF row, t
    <3>3. QED
      BY <2>1, <3>1, <3>2, NewRow
  <2> HIDE DEF e, row, t
  <2>4. /\ DOMAIN tables' = Tables /\ tables'[t] = e
        /\ \A u \in Tables \ {t} : tables'[u] = tables[u]
    BY <1>1, <2>1, <2>2
  <2>5. \A u \in Tables : Free(u) => AtVersion(tables'[u], u, version)
    BY <1>1, <2>3, <2>4
  <2>6. \A u \in Tables : ~Free(u) => tables'[u] = tables[u]
    BY <2>1, <2>4
  <2>7. /\ \A p \in Requests : holds'[p] = IF p = q THEN {} ELSE holds[p]
        /\ \A p \in Requests : step'[p] = IF p = q THEN Len(Statements(p)) ELSE step[p]
    BY <1>2, <2>2
  <2>8. \A p \in Requests : step'[p] \in 1..Len(Statements(p))
    BY <1>2, <2>7
  <2>9. \A p \in Requests : \A r \in Runners : holds'[p] \cap Locks(r)' = {}
    BY <1>2, <2>2, <2>7 DEF Locks
  <2>10. RequestInv'
    BY <1>1, <1>2, <2>2, <2>7, <2>8, <2>9 DEF RequestInv, Waiting
  <2>11. QED
    BY <2>2, <2>4, <2>5, <2>6, <2>10, OnlyFreeTables
<1>7. CASE Delete(q)
  <2>1. /\ q = "reseed" /\ Answer(q, "ok") /\ Waiting("reseed") /\ step["reseed"] = 4
        /\ \E gone : tables' = [t \in Tables |-> Without(tables[t], gone[t])]
    BY <1>7 DEF Delete, Deletes, AtLast, MayAccess, Statements
  <2>2. PICK gone : tables' = [t \in Tables |-> Without(tables[t], gone[t])]
    BY <2>1
  <2>3. ASSUME NEW t \in Tables PROVE Free(t)
    <3>1. t \in holds["reseed"]
      <4>1. \A i \in 1..3 : Statements("reseed")[i] \in holds["reseed"]
        BY <1>1, <2>1 DEF RequestInv
      <4>2. Statements("reseed") = <<"hint", "verifier", "solver", "solver">>
        BY DEF Statements
      <4>3. QED
        BY <4>1, <4>2 DEF Tables
    <3>2. QED
      BY <1>2, <3>1 DEF Free
  <2>4. \A t \in Tables : AtVersion(tables'[t], t, version)
    BY <1>1, <2>2, <2>3, FewerRows
  <2>5. DOMAIN tables' = Tables
    BY <2>2
  <2>6. QED
    BY <1>3, <2>1, <2>3, <2>4, <2>5, OnlyFreeTables
<1>8. CASE AccessFails(q) \/ RowMissing(q) \/ NoEntryFunction(q) \/ AgentFails(q) \/ Refresh(q)
  BY <1>4, <1>8 DEF AccessFails, RowMissing, NoEntryFunction, AgentFails, Refresh
<1>9. QED
  BY <1>4, <1>5, <1>6, <1>7, <1>8 DEF RequestStep

LEMMA NextKeeps == MigrationInv /\ [Next]_vars => MigrationInv'
<1> SUFFICES ASSUME MigrationInv, [Next]_vars PROVE MigrationInv'
  OBVIOUS
<1>1. ASSUME NEW r \in Runners, RunnerStep(r) PROVE MigrationInv'
  <2>1. StampInv'
    BY <1>1, RunnerKeepsInv DEF MigrationInv
  <2>2. QED
    BY <1>1, <2>1, BeginKeeps, ExecuteKeeps, StampKeeps, CommitKeeps, RollBackKeeps
       DEF RunnerStep, StatementFails, StampFails, RunKilled
<1>2. ASSUME NEW q \in Requests, RequestStep(q) PROVE MigrationInv'
  BY <1>2, RequestKeeps
<1>3. CASE DeadlockVictim
  <2>1. ASSUME NEW r \in Runners, RollBack(r, "deadlock") PROVE MigrationInv'
    <3>1. StampInv'
      <4>1. /\ Running(r) /\ outcome' = [outcome EXCEPT ![r] = "deadlock"]
            /\ UNCHANGED <<version, run>> /\ StampInv
        BY <2>1 DEF RollBack, End, MigrationInv
      <4>2. QED
        BY <4>1 DEF StampInv, Running, Stamped, Others
    <3>2. QED
      BY <2>1, <3>1, RollBackKeeps
  <2>2. QED
    BY <1>3, <2>1, RequestKeeps DEF DeadlockVictim
<1>4. CASE UNCHANGED vars
  <2>1. /\ RequestInv' /\ UNCHANGED <<version, run, outcome, saved, tables>>
        /\ DOMAIN tables = Tables /\ \A t \in Tables : Free(t) => AtVersion(tables[t], t, version)
    BY <1>4 DEF MigrationInv, RequestInv, TableInv, Locks, Waiting
  <2>2. QED
    BY <2>1, OnlyFreeTables
<1>5. QED
  BY <1>1, <1>2, <1>3, <1>4 DEF Next, Over

\* MigrationInv: the tables a run has locked are as it found them and as its script has
\* left them, and all others are those of the version.
THEOREM MigrationInvariance == Spec => []MigrationInv
  BY InitMigration, NextKeeps, PTL DEF Spec

-----------------------------------------------------------------------------
(* The entry functions. *)

LEMMA CommittedTable ==
  ASSUME MigrationInv, NEW t \in Tables PROVE AtVersion(Committed(t), t, version)
<1> DEFINE lockers == {r \in Runners : t \in Locks(r)}
<1>1. CASE lockers = {}
  BY <1>1 DEF MigrationInv, TableInv, Free, Committed
<1>2. CASE lockers # {}
  <2>1. PICK r \in Runners : t \in Locks(r) /\ r = CHOOSE x \in lockers : TRUE
    BY <1>2
  <2>2. Committed(t) = saved[r][t]
    BY <1>2, <2>1 DEF Committed
  <2>3. QED
    BY <2>1, <2>2 DEF MigrationInv, RunInv, FoundAtVersion
<1>3. QED
  BY <1>1, <1>2

\* A table that at most one runner has locked is as that one found it.
LEMMA OneLocker ==
  ASSUME NEW sv, NEW ts, NEW t, NEW r \in Runners, \A x \in Others(r) : t \notin DOMAIN sv[x]
  PROVE  LET lockers == {x \in Runners : t \in DOMAIN sv[x]} IN
         (IF lockers = {} THEN ts[t] ELSE sv[CHOOSE x \in lockers : TRUE][t]) =
           IF t \in DOMAIN sv[r] THEN sv[r][t] ELSE ts[t]
<1> DEFINE lockers == {x \in Runners : t \in DOMAIN sv[x]}
<1>1. CASE t \in DOMAIN sv[r]
  <2>1. lockers = {r}
    BY <1>1 DEF Others
  <2>2. QED
    BY <1>1, <2>1
<1>2. CASE t \notin DOMAIN sv[r]
  <2>1. lockers = {}
    BY <1>2 DEF Others
  <2>2. QED
    BY <1>2, <2>1
<1>3. QED
  BY <1>1, <1>2

LEMMA CommittedIsFound ==
  ASSUME NEW t, NEW r \in Runners, \A x \in Others(r) : t \notin Locks(x)
  PROVE  Committed(t) = Found(r, t)
  BY OneLocker DEF Committed, Locks, Found

\* What others see changes only with what a runner goes back to.
LEMMA CommittedStays ==
  ASSUME MigrationInv, MigrationInv', NEW t, NEW r \in Runners,
         \A x \in Others(r) : saved'[x] = saved[x],
         (\A x \in Others(r) : t \notin Locks(x)) =>
           Found(r, t) = IF t \in DOMAIN saved'[r] THEN saved'[r][t] ELSE tables'[t]
  PROVE  Committed(t)' = Committed(t)
<1>1. CASE \A x \in Others(r) : t \notin Locks(x)
  <2>1. \A x \in Others(r) : t \notin DOMAIN saved'[x]
    BY <1>1 DEF Locks
  <2>2. Committed(t)' = IF t \in DOMAIN saved'[r] THEN saved'[r][t] ELSE tables'[t]
    BY <2>1, OneLocker DEF Committed, Locks
  <2>3. QED
    BY <1>1, <2>2, CommittedIsFound
<1>2. ASSUME NEW x \in Others(r), t \in Locks(x) PROVE Committed(t)' = Committed(t)
  <2>1. x \in Runners /\ t \in DOMAIN saved'[x] /\ saved'[x] = saved[x]
    BY <1>2 DEF Others, Locks
  <2>2. \A y \in Others(x) : t \notin Locks(y) /\ t \notin DOMAIN saved'[y]
    BY <1>2, <2>1 DEF MigrationInv, TableInv, Others, Locks
  <2>3. Committed(t)' = saved'[x][t]
    BY <2>1, <2>2, OneLocker DEF Committed, Locks
  <2>4. Committed(t) = saved[x][t]
    BY <1>2, <2>1, <2>2, CommittedIsFound DEF Found
  <2>5. QED
    BY <2>1, <2>3, <2>4
<1>3. QED
  BY <1>1, <1>2

\* A run that comes to a statement that brings or fills in the column found none.
LEMMA EntryComesAnew ==
  ASSUME NEW r \in Runners, OnScript(r), run[r].todo # << >>,
         run[r].todo[1].column = "entry_function", run[r].todo[1].do \notin Dropping,
         NEW found, found.columns = ColumnsAt("solver", run[r].from)
  PROVE  "entry_function" \notin found.columns
<1> DEFINE s == run[r].todo[1]
<1>1. /\ run[r].goal \in 0..7 /\ run[r].from \in 0..7 /\ run[r].at \in 0..7
      /\ Revision(run[r].at, run[r].goal) \in Nat /\ Reached(run[r].at, run[r].goal) \in 0..7
      /\ run[r].todo \in Seq({run[r].todo[i] : i \in DOMAIN run[r].todo})
      /\ Rest(run[r].todo, Revision(run[r].at, run[r].goal), Reached(run[r].at, run[r].goal))
      /\ run[r].at # run[r].goal
  BY ScriptFacts
<1>2. /\ Sensible(s, Revision(run[r].at, run[r].goal))
      /\ Reached(run[r].at, run[r].goal) = Revision(run[r].at, run[r].goal)
  <2>1. Reached(run[r].at, run[r].goal) \in Nat
    BY <1>1
  <2>2. QED
    BY <1>1, <2>1, FirstOfRest
<1>3. Revision(run[r].at, run[r].goal) = 3
  BY <1>2 DEF Sensible, Since
<1>4. run[r].at < run[r].goal /\ run[r].at = 2
  BY <1>1, <1>2, <1>3 DEF Revision, Reached
<1>5. (run[r].from <= run[r].at /\ run[r].at <= run[r].goal) \/ (run[r].goal <= run[r].at /\ run[r].at <= run[r].from)
  BY DEF OnScript
<1>6. run[r].from <= 2
  BY <1>1, <1>4, <1>5
<1>7. ~(Since["entry_function"] <= run[r].from)
  BY <1>1, <1>6 DEF Since
<1>8. QED
  BY <1>7 DEF ColumnsAt

LEMMA RowsOfEffect ==
  ASSUME NEW s, NEW table, s.do \in DOMAIN Rank,
         table = [columns |-> table.columns, notNull |-> table.notNull, rows |-> table.rows]
  PROVE  DOMAIN Effect(s, table).rows \subseteq DOMAIN table.rows
<1>1. CASE s.do \in {"create", "drop"}
  <2>1. Effect(s, table).rows = << >>
    BY <1>1 DEF Effect, EmptyTable
  <2>2. DOMAIN << >> = {}
    OBVIOUS
  <2>3. QED
    BY <2>1, <2>2
<1>2. CASE s.do \in Adding
  BY <1>2 DEF Effect, Adding, Added, ForEachRow
<1>3. CASE s.do \in Filling
  BY <1>3 DEF Effect, Filling, BackfillEntryFunction, ForEachRow
<1>4. CASE s.do \in Constraining
  BY <1>4 DEF Effect, Constraining
<1>5. CASE s.do = "drop_column"
  BY <1>5 DEF Effect
<1>6. QED
  BY <1>1, <1>2, <1>3, <1>4, <1>5 DEF Rank, Adding, Filling, Constraining

\* A statement on another column of the table leaves this one as it is.
LEMMA OtherColumnStays ==
  ASSUME NEW s, NEW table, NEW c, c # s.column, c \in Effect(s, table).columns,
         s.do \in DOMAIN Rank, s.do \in {"create", "drop"} => s.column = s.table,
         s.do \in {"extract", "not_null_if_full"} => s.column = "entry_function",
         table = [columns |-> table.columns, notNull |-> table.notNull, rows |-> table.rows],
         \A r \in DOMAIN table.rows : DOMAIN table.rows[r] = table.columns
  PROVE  LET e == Effect(s, table) IN
         /\ c \in table.columns /\ (c \in e.notNull <=> c \in table.notNull)
         /\ DOMAIN e.rows = DOMAIN table.rows
         /\ \A r \in DOMAIN table.rows : e.rows[r][c] = table.rows[r][c]
<1> DEFINE e == Effect(s, table)
<1>1. s.do \notin {"create", "drop"}
  BY DEF Effect, EmptyTable
<1>2. ASSUME NEW v, e = Added(table, s.column, v)
      PROVE  /\ c \in table.columns /\ (c \in e.notNull <=> c \in table.notNull)
             /\ DOMAIN e.rows = DOMAIN table.rows
             /\ \A r \in DOMAIN table.rows : e.rows[r][c] = table.rows[r][c]
  <2>1. e = [columns |-> table.columns \cup {s.column}, notNull |-> table.notNull,
             rows |-> [r \in DOMAIN table.rows |-> Column(table.rows[r], s.column, v)]]
    BY <1>2 DEF Added, ForEachRow
  <2>2. e.columns = table.columns \cup {s.column} /\ e.notNull = table.notNull
    BY <2>1
  <2>3. /\ DOMAIN e.rows = DOMAIN table.rows
        /\ \A r \in DOMAIN table.rows : e.rows[r] = Column(table.rows[r], s.column, v)
    BY <2>1
  <2> HIDE DEF e
  <2>4. c \in table.columns
    BY <2>2 DEF e
  <2>5. \A r \in DOMAIN table.rows : e.rows[r][c] = table.rows[r][c]
    BY <2>3, <2>4 DEF Column
  <2>6. QED
    BY <2>2, <2>3, <2>4, <2>5
<1>3. CASE s.do \in Adding
  BY <1>2, <1>3 DEF Adding, Effect
<1>4. CASE s.do \in Filling
  <2>1. /\ e = [columns |-> table.columns, notNull |-> table.notNull, rows |-> e.rows]
        /\ DOMAIN e.rows = DOMAIN table.rows
        /\ \A r \in DOMAIN table.rows : \E v : e.rows[r] = Column(table.rows[r], s.column, v)
    <3>1. CASE s.do = "zero"
      <4>1. e = [columns |-> table.columns, notNull |-> table.notNull,
                 rows |-> [r \in DOMAIN table.rows |-> Column(table.rows[r], s.column,
                   IF table.rows[r][s.column] = "null" THEN "default" ELSE table.rows[r][s.column])]]
        BY <3>1 DEF Effect, ForEachRow
      <4>2. QED
        BY <4>1
    <3>2. CASE s.do = "extract"
      <4>1. e = [columns |-> table.columns, notNull |-> table.notNull,
                 rows |-> [r \in DOMAIN table.rows |->
                             Column(table.rows[r], s.column, Extracted(r))]]
        BY <3>2 DEF Effect, BackfillEntryFunction, ForEachRow
      <4>2. QED
        BY <4>1
    <3>3. QED
      BY <1>4, <3>1, <3>2 DEF Filling
  <2>2. e.columns = table.columns /\ e.notNull = table.notNull
    BY <2>1
  <2> HIDE DEF e
  <2>3. c \in table.columns
    BY <2>2 DEF e
  <2>4. \A r \in DOMAIN table.rows : e.rows[r][c] = table.rows[r][c]
    BY <2>1, <2>3 DEF Column
  <2>5. QED
    BY <2>1, <2>2, <2>3, <2>4 DEF e
<1>5. CASE s.do \in Constraining
  BY <1>5 DEF Constraining, Effect
<1>6. CASE s.do = "drop_column"
  BY <1>6 DEF Effect
<1>7. QED
  BY <1>1, <1>3, <1>4, <1>5, <1>6 DEF Rank, Adding, Filling, Constraining

\* Each statement takes the entry functions a step further.
LEMMA EntriesGoOn ==
  ASSUME NEW r \in Runners, OnScript(r), run[r].todo # << >>,
         NEW table, OnTheWay(table, "solver", run[r].todo, Reached(run[r].at, run[r].goal)),
         NEW found, found.columns = ColumnsAt("solver", run[r].from),
         EntriesOnTheWay(table, found, run[r].todo)
  PROVE  EntriesOnTheWay(IF run[r].todo[1].table = "solver" THEN Effect(run[r].todo[1], table)
                         ELSE table, found, Tail(run[r].todo))
<1> DEFINE todo == run[r].todo
           s == todo[1]
           n == Reached(run[r].at, run[r].goal)
           revision == Revision(run[r].at, run[r].goal)
           c == "entry_function"
           e == Effect(s, table)
<1>1. /\ n \in Nat /\ revision \in Nat /\ todo \in Seq({todo[i] : i \in DOMAIN todo})
      /\ Rest(todo, revision, n)
  <2>1. /\ revision \in Nat /\ n \in 0..7
        /\ todo \in Seq({todo[i] : i \in DOMAIN todo})
        /\ Rest(todo, revision, n)
    BY ScriptFacts
  <2>2. QED
    BY <2>1
<1>2. Sensible(s, revision)
  BY <1>1, FirstOfRest
<1>3. /\ s.do \in {"create", "drop"} => s.column = s.table
      /\ s.do \in {"extract", "not_null_if_full"} => s.column = c
      /\ s.do \in {"zero", "not_null"} => s.column # c
      /\ s.do \in DOMAIN Rank
  BY <1>2 DEF Sensible
<1>4. /\ table = [columns |-> table.columns, notNull |-> table.notNull, rows |-> table.rows]
      /\ table.columns = {x \in ModelColumns("solver") : Present(todo, n, x)}
      /\ \A x \in DOMAIN table.rows : DOMAIN table.rows[x] = table.columns
  BY DEF OnTheWay
<1>5. CASE s.table # "solver"
  <2>1. \A kinds : Pending(Tail(todo), kinds, c) <=> Pending(todo, kinds, c)
    <3>1. "solver" \in Tables /\ c \in ModelColumns("solver")
      BY DEF Tables, ModelColumns
    <3>2. QED
      BY <1>1, <1>5, <3>1, OtherTables
  <2> HIDE DEF todo, s
  <2>2. EntriesOnTheWay(table, found, Tail(todo))
    BY <2>1 DEF EntriesOnTheWay, todo
  <2>3. QED
    BY <1>5, <2>2 DEF s, todo
<1>6. CASE s.table = "solver" /\ s.column # c
  <2>1. \A kinds : Pending(Tail(todo), kinds, c) <=> Pending(todo, kinds, c)
    BY <1>1, <1>6, OtherColumns
  <2>2. DOMAIN e.rows \subseteq DOMAIN table.rows
    BY <1>3, <1>4, RowsOfEffect
  <2>3. ASSUME c \in e.columns
        PROVE  /\ c \in table.columns /\ (c \in e.notNull <=> c \in table.notNull)
               /\ DOMAIN e.rows = DOMAIN table.rows
               /\ \A x \in DOMAIN table.rows : e.rows[x][c] = table.rows[x][c]
    <3> HIDE DEF todo, s
    <3>1. PICK x : x = s
      OBVIOUS
    <3>2. c # x.column /\ c \in Effect(x, table).columns
      BY <1>6, <2>3, <3>1
    <3>3. /\ x.do \in {"create", "drop"} => x.column = x.table
          /\ x.do \in {"extract", "not_null_if_full"} => x.column = "entry_function"
          /\ x.do \in DOMAIN Rank
      BY <1>3, <3>1
    <3>4. \A y \in DOMAIN table.rows : DOMAIN table.rows[y] = table.columns
      BY <1>4
    <3>5. table = [columns |-> table.columns, notNull |-> table.notNull, rows |-> table.rows]
      BY <1>4
    <3> HIDE DEF c, e
    <3>6. QED
      BY <3>1, <3>2, <3>3, <3>4, <3>5, OtherColumnStays DEF e
  <2> HIDE DEF todo, s, e
  <2>4. c \in e.columns => (HasNull(e, c) <=> HasNull(table, c))
    BY <2>3 DEF HasNull
  <2>5. EntriesOnTheWay(e, found, Tail(todo))
    BY <2>1, <2>2, <2>3, <2>4 DEF EntriesOnTheWay, todo
  <2>6. QED
    BY <1>6, <2>5 DEF s, todo, e
<1>7. CASE s.table = "solver" /\ s.column = c /\ s.do \in Dropping
  <2>1. s.do = "drop_column"
    BY <1>3, <1>7 DEF Dropping
  <2>2. e = [columns |-> table.columns \ {c}, notNull |-> table.notNull \ {c},
             rows |-> [x \in DOMAIN table.rows |-> [y \in DOMAIN table.rows[x] \ {c} |-> table.rows[x][y]]]]
    BY <1>7, <2>1 DEF Effect
  <2>3. c \notin e.columns /\ DOMAIN e.rows = DOMAIN table.rows
    BY <2>2
  <2> HIDE DEF todo, s, e
  <2>4. EntriesOnTheWay(e, found, Tail(todo))
    BY <2>3 DEF EntriesOnTheWay
  <2>5. QED
    BY <1>7, <2>4 DEF s, todo, e
<1>8. CASE s.table = "solver" /\ s.column = c /\ s.do \notin Dropping
  <2>1. c \notin found.columns
    BY <1>8, EntryComesAnew
  <2>2. s.do \in {"add_nullable", "extract", "not_null_if_full"}
    <3>1. s.do # "add_default"
      BY <1>1, <1>8, FirstOfRest
    <3>2. s.do # "create"
      BY <1>3, <1>8
    <3>3. QED
      BY <1>3, <1>8, <3>1, <3>2 DEF Rank, Dropping
  <2>3. /\ s.do \in Adding \cup Filling => Pending(Tail(todo), Constraining, c)
        /\ s.do = "add_nullable" => Pending(Tail(todo), Filling, c)
    BY <1>1, <1>8, FirstOfRest DEF Nullable
  <2>4. DOMAIN e.rows \subseteq DOMAIN table.rows
    BY <1>3, <1>4, RowsOfEffect
  <2>5. /\ ~Pending(Tail(todo), Filling, c) =>
             \A x \in DOMAIN e.rows : e.rows[x][c] = Extracted(x)
        /\ ~Pending(Tail(todo), Constraining, c) => c \in e.notNull \/ HasNull(e, c)
    <3>1. CASE s.do = "add_nullable"
      BY <2>3, <3>1 DEF Adding
    <3>2. CASE s.do = "extract"
      <4>1. e.rows = [x \in DOMAIN table.rows |-> Column(table.rows[x], c, Extracted(x))]
        BY <1>4, <3>2 DEF Effect, BackfillEntryFunction, ForEachRow
      <4>2. \A x \in DOMAIN e.rows : e.rows[x][c] = Extracted(x)
        BY <4>1 DEF Column
      <4>3. QED
        BY <2>3, <3>2, <4>2 DEF Filling
    <3>3. CASE s.do = "not_null_if_full"
      <4>1. /\ e.rows = table.rows
            /\ c \in e.notNull \/ HasNull(table, c)
        BY <1>4, <1>8, <3>3 DEF Effect
      <4>2. c \in table.columns
        <5>1. Present(todo, n, c)
          BY <1>1, <1>8, <3>3, ColumnOfFirst DEF Constraining
        <5>2. QED
          BY <1>4, <5>1 DEF ModelColumns
      <4>3. ~Pending(Tail(todo), Filling, c) => ~Pending(todo, Filling, c)
        BY <1>1, <3>3, PendingFirst DEF Filling
      <4>4. ~Pending(todo, Filling, c) => \A x \in DOMAIN table.rows : table.rows[x][c] = Extracted(x)
        BY <2>1, <4>2 DEF EntriesOnTheWay
      <4>5. HasNull(table, c) => HasNull(e, c)
        BY <4>1 DEF HasNull
      <4>6. QED
        BY <4>1, <4>3, <4>4, <4>5
    <3>4. QED
      BY <2>2, <3>1, <3>2, <3>3
  <2> HIDE DEF todo, s, e
  <2>6. EntriesOnTheWay(e, found, Tail(todo))
    BY <2>1, <2>4, <2>5 DEF EntriesOnTheWay
  <2>7. QED
    BY <1>8, <2>6 DEF s, todo, e
<1>9. QED
  BY <1>5, <1>6, <1>7, <1>8

\* A step from one committed solver table to another, as EntryFollowsCode has it.
Follows(before, after) ==
  "entry_function" \in after.columns =>
    \A r \in DOMAIN after.rows :
      after.rows[r]["entry_function"] =
        IF r \notin DOMAIN before.rows THEN "asked"
        ELSE IF "entry_function" \in before.columns THEN before.rows[r]["entry_function"]
        ELSE Extracted(r)

EntryStep == Follows(Committed("solver"), Committed("solver")')

\* A run's own locks, the others' and the rows others see.
LEMMA OneRunnersEntries ==
  ASSUME MigrationInv, MigrationInv', EntryInv, NEW r \in Runners, UNCHANGED requestVars,
         \A x \in Others(r) :
           saved'[x] = saved[x] /\ run'[x] = run[x] /\ (Running(x)' <=> Running(x)),
         \A x \in Others(r) : \A t \in Locks(x) : tables'[t] = tables[t],
         LockedEntries(r)', Committed("solver")' = Committed("solver")
  PROVE  EntryInv' /\ EntryStep
<1>1. ASSUME NEW x \in Others(r) PROVE LockedEntries(x)'
  <2>1. LockedEntries(x) /\ Locks(x)' = Locks(x)
    BY DEF EntryInv, Others, Locks
  <2>2. QED
    BY <2>1 DEF LockedEntries
<1>2. \A x \in Runners : LockedEntries(x)'
  BY <1>1 DEF Others
<1>3. EntryInv'
  BY <1>2 DEF EntryInv
<1>4. EntryStep
  BY DEF EntryStep, Follows
<1>5. QED
  BY <1>3, <1>4

LEMMA RunnerEntries ==
  ASSUME MigrationInv, MigrationInv', EntryInv, NEW r \in Runners,
         RunnerStep(r) \/ RollBack(r, "deadlock")
  PROVE  EntryInv' /\ EntryStep
<1>1. /\ DOMAIN run = Runners /\ DOMAIN outcome = Runners /\ DOMAIN saved = Runners
      /\ DOMAIN tables = Tables /\ OnScript(r) /\ FoundAtVersion(r) /\ LockedEntries(r)
      /\ run[r] = [goal |-> run[r].goal, from |-> run[r].from, at |-> run[r].at, todo |-> run[r].todo]
      /\ "solver" \in Tables
  BY DEF MigrationInv, StampInv, TableInv, RunInv, EntryInv, Tables
<1>2. CASE Begin(r)
  <2>1. /\ outcome[r] = "idle" /\ UNCHANGED <<tables, version, saved, requestVars>>
        /\ \A x \in Others(r) : run'[x] = run[x] /\ (Running(x)' <=> Running(x))
    BY <1>1, <1>2 DEF Begin, Others, Running
  <2>2. Locks(r)' = {}
    BY <1>1, <2>1 DEF FoundAtVersion, Running, Locks
  <2>3. LockedEntries(r)' /\ Committed("solver")' = Committed("solver")
    BY <2>1, <2>2 DEF LockedEntries, Committed, Locks
  <2>4. QED
    BY <2>1, <2>3, OneRunnersEntries
<1>3. CASE Execute(r)
  <2> DEFINE todo == run[r].todo
             s == todo[1]
             n == Reached(run[r].at, run[r].goal)
  <2>1. /\ Running(r) /\ todo # << >> /\ HoldersAgainstRunner(r, s) = {} /\ ~Fails(s, tables)
        /\ saved' = [saved EXCEPT ![r] = [t \in DOMAIN saved[r] \cup LockedBy(s) |-> Found(r, t)]]
        /\ tables' = Apply(tables, s)
        /\ run' = [run EXCEPT ![r].todo = Tail(todo)]
        /\ UNCHANGED <<version, outcome, requestVars>>
    BY <1>3 DEF Execute
  <2>2. s.table \in Tables
    <3>1. /\ Revision(run[r].at, run[r].goal) \in Nat /\ n \in 0..7
          /\ todo \in Seq({todo[i] : i \in DOMAIN todo})
          /\ Rest(todo, Revision(run[r].at, run[r].goal), n)
      BY <1>1, ScriptFacts
    <3>2. n \in Nat
      BY <3>1
    <3>3. QED
      BY <2>1, <3>1, <3>2, FirstOfRest DEF Sensible
  <2>3. /\ run'[r] = [goal |-> run[r].goal, from |-> run[r].from, at |-> run[r].at, todo |-> Tail(todo)]
        /\ \A x \in Others(r) : saved'[x] = saved[x] /\ run'[x] = run[x] /\ (Running(x)' <=> Running(x))
        /\ Locks(r)' = Locks(r) \cup LockedBy(s) /\ \A t \in Locks(r)' : saved'[r][t] = Found(r, t)
        /\ s.table \in LockedBy(s)
    BY <1>1, <2>1 DEF Others, Running, Locks, LockedBy
  <2>4. /\ tables'[s.table] = Effect(s, tables[s.table])
        /\ \A t \in Tables : t # s.table => tables'[t] = tables[t]
    BY <1>1, <2>1, <2>2 DEF Apply
  <2>5. \A x \in Others(r) : \A t \in Locks(x) : t \in Tables /\ t \notin Locks(r)' /\ tables'[t] = tables[t]
    <3>1. ASSUME NEW x \in Others(r), NEW t \in Locks(x) PROVE t \in Tables /\ t \notin LockedBy(s)
      BY <2>1, LockedByOthers DEF HoldersAgainstRunner, LockedBy
    <3>2. QED
      BY <2>3, <2>4, <3>1, LockedByOthers
  <2>6. LockedEntries(r)'
    <3>1. ASSUME "solver" \in Locks(r)', saved'[r]["solver"].columns = ColumnsAt("solver", run[r].from)
          PROVE  EntriesOnTheWay(tables'["solver"], saved'[r]["solver"], Tail(todo))
      <4> DEFINE found == Found(r, "solver")
      <4>1. saved'[r]["solver"] = found /\ \A x \in Others(r) : "solver" \notin Locks(x)
        BY <2>3, <2>5, <3>1
      <4>2. OnTheWay(tables["solver"], "solver", todo, n)
        BY <1>1, <2>1, <3>1, <4>1, TableOnTheWay
      <4>3. EntriesOnTheWay(tables["solver"], found, todo)
        <5>1. CASE "solver" \in Locks(r)
          BY <1>1, <2>1, <3>1, <4>1, <5>1 DEF LockedEntries, Found
        <5>2. CASE "solver" \notin Locks(r)
          <6>1. found = tables["solver"]
            BY <5>2 DEF Found
          <6> HIDE DEF found, todo
          <6>2. QED
            BY <6>1 DEF EntriesOnTheWay
        <5>3. QED
          BY <5>1, <5>2
      <4>4. EntriesOnTheWay(IF s.table = "solver" THEN Effect(s, tables["solver"])
                            ELSE tables["solver"], found, Tail(todo))
        <5> HIDE DEF found
        <5>1. found.columns = ColumnsAt("solver", run[r].from)
          BY <3>1, <4>1
        <5>2. QED
          BY <1>1, <2>1, <4>2, <4>3, <5>1, EntriesGoOn
      <4>5. tables'["solver"] = IF s.table = "solver" THEN Effect(s, tables["solver"]) ELSE tables["solver"]
        BY <1>1, <2>4
      <4>6. QED
        BY <4>1, <4>4, <4>5
    <3>2. run'[r].from = run[r].from /\ run'[r].todo = Tail(todo)
      BY <2>3
    <3> HIDE DEF todo, s
    <3>3. QED
      BY <3>1, <3>2 DEF LockedEntries
  <2>7. Committed("solver")' = Committed("solver")
    <3>1. CASE "solver" \in Locks(r)'
      BY <2>3, <3>1, CommittedStays DEF Locks
    <3>2. CASE "solver" \notin Locks(r)'
      <4>1. "solver" \notin DOMAIN saved'[r] /\ "solver" \notin Locks(r) /\ "solver" # s.table
        BY <2>3, <3>2 DEF Locks
      <4>2. Found(r, "solver") = tables'["solver"]
        BY <1>1, <2>4, <4>1 DEF Found
      <4>3. QED
        BY <2>3, <4>1, <4>2, CommittedStays
    <3>3. QED
      BY <3>1, <3>2
  <2>8. QED
    BY <2>1, <2>3, <2>5, <2>6, <2>7, OneRunnersEntries
<1>4. CASE Stamp(r)
  <2>1. /\ Running(r) /\ run[r].todo = << >>
        /\ UNCHANGED <<tables, version, saved, outcome, requestVars>>
        /\ \E at, todo : run' = [run EXCEPT ![r].at = at, ![r].todo = todo]
    BY <1>4 DEF Stamp
  <2>2. run'[r].from = run[r].from /\ \A x \in Others(r) : run'[x] = run[x]
    BY <1>1, <2>1 DEF Others
  <2>3. \A x \in Others(r) : Running(x)' <=> Running(x)
    BY <2>1 DEF Running
  <2>4. LockedEntries(r)'
    <3>1. ASSUME NEW table, NEW found, NEW todo, EntriesOnTheWay(table, found, << >>)
          PROVE  EntriesOnTheWay(table, found, todo)
      <4>1. \A kinds : ~Pending(<< >>, kinds, "entry_function")
        BY DEF Pending
      <4>2. QED
        BY <3>1, <4>1 DEF EntriesOnTheWay
    <3>2. ("solver" \in Locks(r))' <=> "solver" \in Locks(r)
      BY <2>1 DEF Locks
    <3>3. QED
      BY <1>1, <2>1, <2>2, <3>1, <3>2 DEF LockedEntries
  <2>5. Committed("solver")' = Committed("solver")
    BY <2>1 DEF Committed, Locks
  <2>6. QED
    BY <2>1, <2>2, <2>3, <2>4, <2>5, OneRunnersEntries
<1>5. ASSUME NEW how, RollBack(r, how), how # "running" PROVE EntryInv' /\ EntryStep
  <2>1. /\ tables' = [t \in Tables |-> Found(r, t)]
        /\ outcome' = [outcome EXCEPT ![r] = how] /\ saved' = [saved EXCEPT ![r] = << >>]
        /\ UNCHANGED <<version, run, requestVars>>
    BY <1>5 DEF RollBack, End
  <2>2. /\ saved'[r] = << >>
        /\ \A x \in Others(r) : saved'[x] = saved[x] /\ run'[x] = run[x] /\ (Running(x)' <=> Running(x))
    BY <1>1, <2>1 DEF Others, Running
  <2>3. "solver" \notin DOMAIN saved'[r]
    BY <2>2
  <2>4. LockedEntries(r)'
    BY <2>3 DEF LockedEntries, Locks
  <2>5. \A x \in Others(r) : \A t \in Locks(x) : tables'[t] = tables[t]
    BY <2>1, LockedByOthers DEF Found
  <2>6. Committed("solver")' = Committed("solver")
    BY <1>1, <2>1, <2>2, <2>3, CommittedStays
  <2>7. QED
    BY <2>1, <2>2, <2>4, <2>5, <2>6, OneRunnersEntries
<1>6. CASE CommitRun(r)
  <2>1. /\ Running(r) /\ run[r].todo = << >> /\ run[r].at = run[r].goal
        /\ outcome' = [outcome EXCEPT ![r] = "done"] /\ saved' = [saved EXCEPT ![r] = << >>]
        /\ UNCHANGED <<tables, run, requestVars>>
    BY <1>6 DEF CommitRun, End
  <2>2. /\ saved'[r] = << >>
        /\ \A x \in Others(r) : saved'[x] = saved[x] /\ run'[x] = run[x] /\ (Running(x)' <=> Running(x))
    BY <1>1, <2>1 DEF Others, Running
  <2>3. "solver" \notin DOMAIN saved'[r] /\ LockedEntries(r)'
    BY <2>2 DEF LockedEntries, Locks
  <2>4. CASE "solver" \notin Locks(r)
    <3>1. Committed("solver")' = Committed("solver")
      BY <2>1, <2>2, <2>3, <2>4, CommittedStays DEF Found
    <3>2. QED
      BY <2>1, <2>2, <2>3, <3>1, OneRunnersEntries
  <2>5. CASE "solver" \in Locks(r)
    <3> DEFINE found == saved[r]["solver"]
               table == tables["solver"]
    <3>1. /\ \A x \in Others(r) : "solver" \notin Locks(x) /\ "solver" \notin DOMAIN saved'[x]
          /\ Committed("solver") = found
      <4>1. \A x \in Others(r) : "solver" \notin Locks(x)
        BY <2>5, LockedByOthers
      <4>2. QED
        BY <2>2, <2>5, <4>1, CommittedIsFound DEF Found, Locks
    <3>2. Committed("solver")' = table
      <4>1. Committed("solver")' = tables'["solver"]
        BY <2>3, <3>1, OneLocker DEF Committed, Locks
      <4>2. QED
        BY <2>1, <4>1
    <3>3. EntriesOnTheWay(table, found, << >>)
      <4>1. Stamped(r) /\ AtVersion(found, "solver", version)
        BY <1>1, <2>1, <2>5 DEF FoundAtVersion
      <4>2. version = run[r].from
        BY <2>1, <4>1 DEF MigrationInv, StampInv
      <4>3. found.columns = ColumnsAt("solver", run[r].from)
        BY <4>1, <4>2, ColumnsOfVersion
      <4>4. QED
        BY <1>1, <2>1, <2>5, <4>3 DEF LockedEntries
    <3> HIDE DEF found, table
    <3>4. \A kinds : ~Pending(<< >>, kinds, "entry_function")
      BY DEF Pending
    <3>5. EntryStep
      BY <3>1, <3>2, <3>3, <3>4 DEF EntryStep, Follows, EntriesOnTheWay
    <3>6. ASSUME "entry_function" \in table.columns \ table.notNull
          PROVE  HasNull(table, "entry_function") \/ reply["reseed"] = "ok"
      <4>1. CASE "entry_function" \in found.columns
        <5>1. HasNull(found, "entry_function") \/ reply["reseed"] = "ok"
          BY <3>1, <3>3, <3>6, <4>1 DEF EntriesOnTheWay, EntryInv
        <5>2. HasNull(found, "entry_function") => HasNull(table, "entry_function")
          BY <3>3, <3>6, <4>1 DEF EntriesOnTheWay, HasNull
        <5>3. QED
          BY <5>1, <5>2
      <4>2. CASE "entry_function" \notin found.columns
        BY <3>3, <3>4, <3>6, <4>2 DEF EntriesOnTheWay
      <4>3. QED
        BY <4>1, <4>2
    <3>7. step["solve"] = 1 => "solve" \notin DOMAIN table.rows
      BY <3>1, <3>3 DEF EntryInv, EntriesOnTheWay
    <3>8. ASSUME NEW x \in Others(r) PROVE LockedEntries(x)'
      BY <2>2, <3>1 DEF LockedEntries, Locks
    <3>9. \A x \in Runners : LockedEntries(x)'
      BY <2>3, <3>8 DEF Others
    <3>10. EntryInv'
      BY <2>1, <3>2, <3>6, <3>7, <3>9 DEF EntryInv
    <3>11. QED
      BY <3>5, <3>10
  <2>6. QED
    BY <2>4, <2>5
<1>7. QED
  BY <1>2, <1>3, <1>4, <1>5, <1>6 DEF RunnerStep, StatementFails, StampFails, RunKilled

\* A client that leaves the solver rows alone.
LEMMA OtherEntries ==
  ASSUME EntryInv, UNCHANGED <<run, outcome, saved>>, tables'["solver"] = tables["solver"],
         reply["reseed"] = "ok" => reply'["reseed"] = "ok",
         step'["solve"] = 1 => step["solve"] = 1
  PROVE  EntryInv' /\ EntryStep
<1>1. /\ Committed("solver")' = Committed("solver")
      /\ \A r \in Runners : LockedEntries(r)' <=> LockedEntries(r)
  BY DEF Committed, LockedEntries, Locks, Running
<1>2. QED
  BY <1>1 DEF EntryInv, EntryStep, Follows

\* One that does not, comes when they have no lock.
LEMMA FreeEntries ==
  ASSUME UNCHANGED saved, Free("solver"),
         Follows(tables["solver"], tables'["solver"]),
         "entry_function" \in tables'["solver"].columns \ tables'["solver"].notNull =>
           HasNull(tables'["solver"], "entry_function") \/ reply'["reseed"] = "ok",
         step'["solve"] = 1 => "solve" \notin DOMAIN tables'["solver"].rows
  PROVE  EntryInv' /\ EntryStep
<1>1. \A r \in Runners : "solver" \notin DOMAIN saved[r]
  BY DEF Free, Locks
<1>2. Committed("solver") = tables["solver"] /\ Committed("solver")' = tables'["solver"]
  BY <1>1 DEF Committed, Locks
<1>3. \A r \in Runners : LockedEntries(r)'
  BY <1>1 DEF LockedEntries, Locks
<1>4. QED
  BY <1>2, <1>3 DEF EntryInv, EntryStep

LEMMA RequestEntries ==
  ASSUME MigrationInv, EntryInv, NEW q \in Requests,
         RequestStep(q) \/ (Waiting(q) /\ Answer(q, "deadlock") /\ UNCHANGED tables)
  PROVE  EntryInv' /\ EntryStep
<1>1. /\ DOMAIN reply = Requests /\ DOMAIN step = Requests /\ DOMAIN tables = Tables
      /\ \A p \in Requests : step[p] \in Nat \ {0}
      /\ {"solve", "reseed"} \subseteq Requests /\ "solver" \in Tables
  <2>1. \A p \in Requests : Len(Statements(p)) \in Nat
    BY DEF Statements, Requests
  <2>2. QED
    BY <2>1 DEF MigrationInv, RequestInv, TableInv, Requests, Tables
<1>2. ASSUME NEW what, Waiting(q), Answer(q, what)
      PROVE  /\ UNCHANGED <<run, outcome, saved, step>>
             /\ reply["reseed"] = "ok" => reply'["reseed"] = "ok"
             /\ q = "reseed" => reply'["reseed"] = what
  BY <1>1, <1>2 DEF Answer, Waiting
<1>3. ASSUME NEW what, Waiting(q), Answer(q, what), UNCHANGED tables PROVE EntryInv' /\ EntryStep
  BY <1>2, <1>3, OtherEntries
<1>4. CASE Read(q)
  <2>1. UNCHANGED <<run, outcome, saved, tables, reply>> /\ step' = [step EXCEPT ![q] = step[q] + 1]
    BY <1>4 DEF Read
  <2>2. step'["solve"] = 1 => step["solve"] = 1
    BY <1>1, <2>1
  <2>3. QED
    BY <2>1, <2>2, OtherEntries
<1>5. CASE Persist(q)
  <2> DEFINE t == Target(q)
             table == tables[t]
             e == [table EXCEPT !.rows =
                     [x \in DOMAIN table.rows \cup {q} |-> IF x = q THEN RowGiven(t) ELSE table.rows[x]]]
  <2>1. /\ tables' = [tables EXCEPT ![t] = e] /\ step' = [step EXCEPT ![q] = step[q] + 1]
        /\ step[q] + 1 = Len(Statements(q)) /\ q # "reseed"
        /\ UNCHANGED <<version, run, outcome, saved, reply>>
        /\ HoldersAgainstRequest(q) = {}
    BY <1>5 DEF Persist, Inserts, MayAccess
  <2>2. t \in Tables /\ Free(t) /\ AtVersion(table, t, version)
    BY <2>1, FreeTable
  <2>3. CASE q # "solve"
    <3>1. t # "solver"
      <4>1. q \in {"verify", "hint"} /\ step[q] \in Nat
        BY <1>1, <2>1, <2>3 DEF Requests
      <4>2. CASE q = "verify"
        <5>1. Statements(q) = <<"solver", "verifier", "verifier">>
          BY <4>2 DEF Statements
        <5>2. step[q] = 2
          BY <2>1, <4>1, <5>1
        <5>3. QED
          BY <5>1, <5>2 DEF Target
      <4>3. CASE q = "hint"
        <5>1. Statements(q) = <<"verifier", "solver", "hint", "hint", "hint">>
          BY <4>3 DEF Statements
        <5>2. step[q] = 4
          BY <2>1, <4>1, <5>1
        <5>3. QED
          BY <5>1, <5>2 DEF Target
      <4>4. QED
        BY <4>1, <4>2, <4>3
    <3> HIDE DEF t, e
    <3>2. tables'["solver"] = tables["solver"] /\ step'["solve"] = step["solve"]
      BY <1>1, <2>1, <2>3, <3>1
    <3>3. QED
      BY <2>1, <3>2, OtherEntries
  <2>4. CASE q = "solve"
    <3>1. step["solve"] = 1 /\ t = "solver"
      <4>1. Statements(q) = <<"solver", "solver">>
        BY <2>4 DEF Statements
      <4>2. step[q] = 1
        BY <1>1, <2>1, <4>1
      <4>3. QED
        BY <2>4, <4>1, <4>2 DEF Target
    <3>2. "solve" \notin DOMAIN table.rows
      <4>1. Committed("solver") = tables["solver"]
        BY <2>2, <3>1 DEF Committed, Free
      <4>2. QED
        BY <3>1, <4>1 DEF EntryInv
    <3>3. /\ e.columns = table.columns /\ e.notNull = table.notNull
          /\ DOMAIN e.rows = DOMAIN table.rows \cup {q}
          /\ e.rows[q] = RowGiven(t) /\ \A x \in DOMAIN table.rows \ {q} : e.rows[x] = table.rows[x]
          /\ "entry_function" \in table.columns =>
               (HasNull(e, "entry_function") <=> HasNull(table, "entry_function"))
      <4>1. ASSUME NEW row, row = RowGiven(t), NEW f,
                   f = [table EXCEPT !.rows =
                          [x \in DOMAIN table.rows \cup {q} |-> IF x = q THEN row ELSE table.rows[x]]]
            PROVE  /\ AtVersion(f, t, version)
                   /\ f.columns = table.columns /\ f.notNull = table.notNull
                   /\ DOMAIN f.rows = DOMAIN table.rows \cup {q}
                   /\ f.rows[q] = row /\ \A x \in DOMAIN table.rows \ {q} : f.rows[x] = table.rows[x]
                   /\ "entry_function" \in table.columns =>
                        (HasNull(f, "entry_function") <=> HasNull(table, "entry_function"))
        <5>1. /\ DOMAIN row = table.columns
              /\ \A c \in table.columns : row[c] = "null" => c = "failure_embedding"
          BY <4>1 DEF RowGiven
        <5>2. AtVersion(table, t, version)
          BY <2>2
        <5> HIDE DEF t, table, e
        <5>3. QED
          BY <4>1, <5>1, <5>2, NewRow, SMTT(30)
      <4>2. QED
        BY <4>1
    <3>4. "entry_function" \in table.columns => e.rows[q]["entry_function"] = "asked"
      BY <3>3 DEF RowGiven
    <3> HIDE DEF e
    <3>5. tables'["solver"] = e /\ table = tables["solver"] /\ step'["solve"] # 1
      BY <1>1, <2>1, <2>4, <3>1
    <3> HIDE DEF table
    <3>6. Follows(table, e)
      BY <2>4, <3>2, <3>3, <3>4 DEF Follows
    <3>7. "entry_function" \in e.columns \ e.notNull =>
            HasNull(e, "entry_function") \/ reply'["reseed"] = "ok"
      <4>1. Committed("solver") = table
        BY <2>2, <3>1, <3>5 DEF Committed, Free
      <4>2. QED
        BY <2>1, <3>3, <4>1 DEF EntryInv
    <3>8. Free("solver")
      BY <2>2, <3>1
    <3>9. QED
      BY <2>1, <3>5, <3>6, <3>7, <3>8, FreeEntries
  <2>5. QED
    BY <2>3, <2>4
<1>6. CASE Delete(q)
  <2>1. /\ q = "reseed" /\ Waiting(q) /\ Answer(q, "ok") /\ HoldersAgainstRequest(q) = {}
        /\ step["reseed"] = 4
    BY <1>6 DEF Delete, Deletes, AtLast, MayAccess, Statements
  <2>2. PICK gone : tables' = [t \in Tables |-> Without(tables[t], gone[t])]
    BY <1>6 DEF Delete
  <2>3. Target(q) = "solver"
    BY <2>1 DEF Target, Statements
  <2>4. Free("solver") /\ AtVersion(tables["solver"], "solver", version)
    BY <2>1, <2>3, FreeTable
  <2>5. LET e == Without(tables["solver"], gone["solver"]) IN
        /\ e.columns = tables["solver"].columns /\ e.notNull = tables["solver"].notNull
        /\ DOMAIN e.rows \subseteq DOMAIN tables["solver"].rows
        /\ \A x \in DOMAIN e.rows : e.rows[x] = tables["solver"].rows[x]
    BY <2>4, FewerRows
  <2>6. tables'["solver"] = Without(tables["solver"], gone["solver"])
    BY <1>1, <2>2
  <2>7. Follows(tables["solver"], tables'["solver"])
    BY <2>5, <2>6 DEF Follows
  <2>8. UNCHANGED <<run, outcome, saved, step>> /\ reply'["reseed"] = "ok"
    BY <1>2, <2>1
  <2>9. step'["solve"] = 1 => "solve" \notin DOMAIN tables'["solver"].rows
    <3>1. Committed("solver") = tables["solver"]
      BY <2>4 DEF Committed, Free
    <3>2. QED
      BY <2>5, <2>6, <2>8, <3>1 DEF EntryInv
  <2>10. QED
    BY <2>4, <2>7, <2>8, <2>9, FreeEntries
<1>7. CASE AccessFails(q) \/ RowMissing(q) \/ NoEntryFunction(q) \/ AgentFails(q) \/ Refresh(q)
  BY <1>3, <1>7 DEF AccessFails, RowMissing, NoEntryFunction, AgentFails, Refresh, MayAccess
<1>8. QED
  BY <1>3, <1>4, <1>5, <1>6, <1>7 DEF RequestStep

LEMMA InitEntries == Init => EntryInv
<1> SUFFICES ASSUME Init PROVE EntryInv
  OBVIOUS
<1>1. /\ saved = [r \in Runners |-> << >>] /\ outcome = [r \in Runners |-> "idle"]
  BY DEF Init
<1>2. PICK old \in SUBSET OldRows : tables = [t \in Tables |-> TableAt(t, version, old)]
  BY DEF Init
<1> DEFINE table == TableAt("solver", version, old)
<1>3. \A r \in Runners : Locks(r) = {} /\ ~Running(r)
  BY <1>1 DEF Locks, Running
<1>4. Committed("solver") = table
  BY <1>2, <1>3 DEF Committed, Tables
<1>5. /\ table.columns = ColumnsAt("solver", version)
      /\ table.notNull = {c \in ColumnsAt("solver", version) \ Nullable :
                            c = "entry_function" => old \cap NoFunction = {}}
      /\ DOMAIN table.rows = old
      /\ \A r \in old : table.rows[r] = OldRow(r, version)
  BY DEF TableAt
<1>6. "solve" \notin old
  BY FreshAssumption DEF Requests
<1>7. ASSUME "entry_function" \in table.columns \ table.notNull PROVE HasNull(table, "entry_function")
  <2>1. "entry_function" \in ColumnsAt("solver", version) /\ old \cap NoFunction # {}
    BY <1>5, <1>7 DEF Nullable
  <2>2. PICK r \in old : r \in NoFunction
    BY <2>1
  <2>3. OldRow(r, version)["entry_function"] = "null"
    BY <2>1, <2>2 DEF OldRow, Extracted
  <2> HIDE DEF table
  <2>4. QED
    BY <1>5, <2>2, <2>3 DEF HasNull
<1>8. QED
  BY <1>3, <1>4, <1>5, <1>6, <1>7 DEF EntryInv, LockedEntries

LEMMA NextEntries ==
  ASSUME MigrationInv, MigrationInv', EntryInv, [Next]_vars PROVE EntryInv' /\ EntryStep
<1>1. ASSUME NEW r \in Runners, RunnerStep(r) PROVE EntryInv' /\ EntryStep
  BY <1>1, RunnerEntries
<1>2. ASSUME NEW q \in Requests, RequestStep(q) PROVE EntryInv' /\ EntryStep
  BY <1>2, RequestEntries
<1>3. CASE DeadlockVictim
  BY <1>3, RunnerEntries, RequestEntries DEF DeadlockVictim
<1>4. CASE UNCHANGED vars
  BY <1>4, OtherEntries
<1>5. QED
  BY <1>1, <1>2, <1>3, <1>4 DEF Next, Over

\* EntryInv: the entry functions in a table that a run has locked are those it found, or all
\* those that the revision bringing the column stores.
THEOREM EntryInvariance == Spec => [](MigrationInv /\ EntryInv)
<1>1. Init => MigrationInv /\ EntryInv
  BY InitMigration, InitEntries
<1>2. MigrationInv /\ EntryInv /\ [Next]_vars => (MigrationInv /\ EntryInv)'
  BY NextKeeps, NextEntries
<1>3. QED
  BY <1>1, <1>2, PTL DEF Spec

-----------------------------------------------------------------------------
(* What follows. *)

\* SchemaMatchesVersion: whatever number of alembic processes run up or down, fail, are
\* killed or race one another beside the application and the seeding script's deletion,
\* the committed tables have the columns, and the NOT NULL columns, of the version the
\* database says it has.
THEOREM SchemaMatches == Spec => []SchemaMatchesVersion
<1>1. ASSUME MigrationInv, EntryInv PROVE SchemaMatchesVersion
  <2>1. ASSUME NEW t \in Tables
        PROVE  LET table == Committed(t)
                   columns == ColumnsAt(t, version)
               IN  /\ table.columns = columns
                   /\ table.notNull \ {"entry_function"} = columns \ (Nullable \cup {"entry_function"})
                   /\ "entry_function" \in table.notNull =>
                        "entry_function" \in columns /\ ~HasNull(table, "entry_function")
                   /\ "entry_function" \in columns \ table.notNull =>
                        HasNull(table, "entry_function") \/ reply["reseed"] = "ok"
    <3> DEFINE table == Committed(t)
               columns == ColumnsAt(t, version)
    <3>1. AtVersion(table, t, version)
      BY <1>1, CommittedTable
    <3> HIDE DEF table
    <3>2. table.columns = columns
      BY <3>1, ColumnsOfVersion
    <3>3. /\ table.notNull \subseteq Enforceable(table, << >>)
          /\ Enforceable(table, << >>) \ {"entry_function"} \subseteq table.notNull
      BY <3>1 DEF AtVersion, OnTheWay
    <3>4. Enforceable(table, << >>) =
            {c \in columns \ Nullable : c = "entry_function" => ~HasNull(table, c)}
      BY <3>2, NothingPending DEF Enforceable
    <3>5. "entry_function" \in columns => t = "solver"
      BY DEF ColumnsAt, ModelColumns, Tables
    <3>6. "entry_function" \in columns \ table.notNull =>
            HasNull(table, "entry_function") \/ reply["reseed"] = "ok"
      BY <1>1, <3>2, <3>5 DEF EntryInv, table
    <3> HIDE DEF columns
    <3>7. QED
      BY <3>2, <3>3, <3>4, <3>6 DEF table, columns
  <2>2. QED
    BY <2>1 DEF SchemaMatchesVersion
<1>2. QED
  BY <1>1, EntryInvariance, PTL

\* EntryFollowsCode: through any number of upgrades and downgrades a solver row keeps the
\* entry function it has while there is a column for it, be it the first its code
\* defines or the one its client asked for; a column that comes back gives it the first.
THEOREM EntriesFollow == Spec => EntryFollowsCode
<1>1. MigrationInv /\ MigrationInv' /\ EntryInv /\ [Next]_vars => EntryStep
  BY NextEntries
<1>2. QED
  BY <1>1, EntryInvariance, MigrationInvariance, PTL DEF Spec, EntryFollowsCode, EntryStep, Follows

\* A run that began from the version the database has is refused no statement.
LEMMA StatementFailsForCause ==
  ASSUME MigrationInv, NEW r \in Runners, StatementFails(r) PROVE version # run[r].from
<1> DEFINE todo == run[r].todo
           s == todo[1]
           n == Reached(run[r].at, run[r].goal)
           revision == Revision(run[r].at, run[r].goal)
<1>1. /\ Running(r) /\ todo # << >> /\ HoldersAgainstRunner(r, s) = {}
      /\ Fails(s, tables) /\ OnScript(r)
  BY DEF StatementFails, MigrationInv, RunInv
<1>2. /\ n \in 0..7 /\ revision \in Nat /\ todo \in Seq({todo[i] : i \in DOMAIN todo})
      /\ Rest(todo, revision, n)
  BY <1>1, ScriptFacts
<1>3. s.table \in Tables /\ s.parent \in Tables
  BY <1>1, <1>2, FirstOfRest DEF Sensible
<1>4. ASSUME version = run[r].from, NEW t \in Tables, t \in {s.table, s.parent}
      PROVE  OnTheWay(tables[t], t, todo, n)
  <2>1. \A x \in Others(r) : t \notin Locks(x)
    BY <1>1, <1>4 DEF HoldersAgainstRunner
  <2>2. Found(r, t).columns = ColumnsAt(t, run[r].from)
    BY <1>4, <2>1, FoundTable, ColumnsOfVersion
  <2>3. QED
    BY <1>1, <2>1, <2>2, TableOnTheWay
<1>5. ASSUME version = run[r].from PROVE FALSE
  <2>1. OnTheWay(tables[s.table], s.table, todo, n) /\ OnTheWay(tables[s.parent], s.parent, todo, n)
    BY <1>3, <1>4, <1>5
  <2>2. todo # << >> /\ n \in Nat
    BY <1>1, <1>2
  <2>3. ~Fails(s, tables)
    BY <1>2, <2>1, <2>2, StatementSucceeds
  <2>4. QED
    BY <1>1, <2>3
<1>6. QED
  BY <1>5

\* A table of the newest version fits the models.
LEMMA AccessFailsForCause ==
  ASSUME MigrationInv, NEW q \in Requests, AccessFails(q) PROVE version # Newest
<1> DEFINE t == Target(q)
<1>1. t \in Tables /\ AtVersion(tables[t], t, version)
  BY FreeTable DEF AccessFails, MayAccess
<1>2. tables[t].columns = ColumnsAt(t, version) /\ tables[t].notNull \subseteq tables[t].columns
  BY <1>1, ColumnsOfVersion DEF AtVersion, OnTheWay, Enforceable
<1>3. ASSUME version = Newest
      PROVE  ColumnsAt(t, version) = ModelColumns(t) /\ ColumnsNamed(q, t) \subseteq ModelColumns(t)
  <2>1. ColumnsAt(t, version) = ModelColumns(t)
    BY <1>1, <1>3, ColumnFacts DEF ColumnsAt, Newest
  <2>2. t \in ModelColumns(t)
    BY <1>1 DEF Tables, ModelColumns
  <2>3. QED
    BY <2>1, <2>2 DEF ColumnsNamed
<1>4. QED
  BY <1>2, <1>3 DEF AccessFails, Unfit

\* A row that lacks the entry function is one whose code defines none.
LEMMA NoEntryFunctionForCause ==
  ASSUME MigrationInv, NEW q \in Requests, NoEntryFunction(q)
  PROVE  DOMAIN tables["solver"].rows \cap NoFunction # {}
<1>1. AtVersion(tables["solver"], "solver", version)
  BY FreeTable DEF NoEntryFunction, MayAccess, Target, Statements
<1>2. /\ q = "verify" /\ step[q] = 1 /\ ~Unfit(q)
      /\ HasNull(tables["solver"], "entry_function")
  BY DEF NoEntryFunction
<1>3. "entry_function" \in tables["solver"].columns
  <2>1. Target(q) = "solver"
    BY <1>2 DEF Target, Statements
  <2>2. "entry_function" \in ColumnsNamed(q, "solver")
    BY <1>2 DEF ColumnsNamed, ModelColumns
  <2>3. QED
    BY <1>2, <2>1, <2>2 DEF Unfit
<1>4. PICK r \in DOMAIN tables["solver"].rows : tables["solver"].rows[r]["entry_function"] = "null"
  BY <1>2 DEF HasNull
<1>5. FilledIn(<< >>, r, "entry_function", tables["solver"].rows[r]["entry_function"])
  BY <1>1, <1>3 DEF AtVersion, OnTheWay
<1>6. r \in NoFunction
  BY <1>4, <1>5, NothingPending DEF FilledIn
<1>7. QED
  BY <1>6

\* FailuresHaveCause: a run fails only because another was committed since it began; a
\* request fails on a table only at an old version, and on a row only if its code
\* defines no function.
THEOREM FailuresHaveTheirCause == Spec => FailuresHaveCause
<1> DEFINE Caused ==
      /\ \A r \in Runners : Running(r) /\ outcome'[r] = "failed" => version # run[r].from
      /\ \A q \in Requests :
           /\ Waiting(q) /\ reply'[q] = "error" => version # Newest
           /\ Waiting(q) /\ reply'[q] = "no_entry_function" =>
                DOMAIN tables["solver"].rows \cap NoFunction # {}
<1>1. ASSUME MigrationInv, Next PROVE [Caused]_vars
  <2> USE <1>1
  <2>1. /\ DOMAIN outcome = Runners /\ DOMAIN reply = Requests
        /\ \A x \in Runners : Running(x) => outcome[x] # "failed"
        /\ \A x \in Requests : Waiting(x) => reply[x] \notin {"error", "no_entry_function"}
    BY DEF MigrationInv, StampInv, RequestInv, Running, Waiting
  <2>2. ASSUME NEW r \in Runners, UNCHANGED reply,
               \/ UNCHANGED outcome
               \/ \E how \in {"running", "done", "killed", "deadlock"} :
                    outcome' = [outcome EXCEPT ![r] = how]
               \/ version # run[r].from /\ outcome' = [outcome EXCEPT ![r] = "failed"]
        PROVE  Caused
    BY <2>1, <2>2
  <2>3. ASSUME NEW q \in Requests, UNCHANGED outcome,
               \/ UNCHANGED reply
               \/ \E what \in {"row_missing", "unavailable", "ok", "deadlock"} :
                    reply' = [reply EXCEPT ![q] = what]
               \/ version # Newest /\ reply' = [reply EXCEPT ![q] = "error"]
               \/ /\ DOMAIN tables["solver"].rows \cap NoFunction # {}
                  /\ reply' = [reply EXCEPT ![q] = "no_entry_function"]
        PROVE  Caused
    BY <2>1, <2>3
  <2>4. ASSUME NEW r \in Runners, RunnerStep(r) PROVE Caused
    <3>1. CASE Begin(r) \/ Execute(r) \/ Stamp(r) \/ CommitRun(r) \/ RunKilled(r)
      BY <2>2, <3>1 DEF Begin, Execute, Stamp, CommitRun, RunKilled, RollBack, End
    <3>2. CASE StatementFails(r)
      BY <2>2, <3>2, StatementFailsForCause DEF StatementFails, RollBack, End
    <3>3. CASE StampFails(r)
      BY <2>2, <3>3 DEF StampFails, RollBack, End
    <3>4. QED
      BY <2>4, <3>1, <3>2, <3>3 DEF RunnerStep
  <2>5. ASSUME NEW q \in Requests, RequestStep(q) PROVE Caused
    <3>1. CASE RowMissing(q) \/ Read(q) \/ AgentFails(q) \/ Persist(q) \/ Refresh(q) \/ Delete(q)
      BY <2>3, <3>1 DEF RowMissing, Read, AgentFails, Persist, Refresh, Delete, Answer
    <3>2. CASE AccessFails(q)
      BY <2>3, <3>2, AccessFailsForCause DEF AccessFails, Answer
    <3>3. CASE NoEntryFunction(q)
      BY <2>3, <3>3, NoEntryFunctionForCause DEF NoEntryFunction, Answer
    <3>4. QED
      BY <2>5, <3>1, <3>2, <3>3 DEF RequestStep
  <2>6. CASE DeadlockVictim
    <3>1. ASSUME NEW r \in Runners, RollBack(r, "deadlock") PROVE Caused
      BY <2>2, <3>1 DEF RollBack, End
    <3>2. ASSUME NEW q \in Requests, Answer(q, "deadlock") PROVE Caused
      BY <2>3, <3>2 DEF Answer
    <3>3. QED
      BY <2>6, <3>1, <3>2 DEF DeadlockVictim
  <2>7. QED
    BY <2>4, <2>5, <2>6 DEF Next, Over
<1>2. QED
  BY <1>1, MigrationInvariance, PTL DEF Spec, FailuresHaveCause
=============================================================================
