-------------------------- MODULE SchemaMigrations --------------------------
(***************************************************************************)
(* The seven Alembic revisions, run up and down by operators and by the    *)
(* API container's start, over a populated database and beside requests of *)
(* the application, whose ORM models are those of the newest revision, and *)
(* the deletion of the seeding script.                                     *)
(*                                                                         *)
(* env.py runs all revisions of an upgrade or a downgrade in one           *)
(* transaction.  In PostgreSQL a statement that alters a table locks it    *)
(* until the transaction ends, one that creates a table keeps the writers  *)
(* of the table it refers to out, and a SELECT or INSERT takes a shared    *)
(* lock; of those who wait for one another in a circle one is aborted.     *)
(*                                                                         *)
(* One column stands for those of a CREATE TABLE.  Indexes, CHECKs and the *)
(* extension are left out; what requests and the deletion do to each       *)
(* other's rows is in CorpusReseed.                                        *)
(***************************************************************************)
EXTENDS Naturals, Sequences

CONSTANTS
  OldRows,     \* solver rows made by the first release
  NoFunction,  \* those whose code defines no function
  Runners,     \* alembic processes; each runs once
  Stops,       \* the revisions a database may be left at, by number
  Companies    \* the sets of clients that may come at the same time

ASSUME RowsAssumption == NoFunction \subseteq OldRows
ASSUME StopsAssumption == Stops \subseteq 0..7

VARIABLES
  tables,   \* their columns, NOT NULL columns and rows
  version,  \* the revision in alembic_version, by number; 0 for none
  run,      \* of each runner: goal, revision begun from and reached, what is left
  saved,    \* the tables a runner has locked, as it found them
  outcome,  \* how each run ended
  step,     \* the statement each client is at
  holds,    \* the tables each has read in its transaction
  reply     \* its answer

runVars == <<run, outcome>>
requestVars == <<step, holds, reply>>
vars == <<tables, version, runVars, saved, requestVars>>

Tables == {"solver", "verifier", "hint"}
ParentOf == [verifier |-> "solver", hint |-> "verifier"]
Newest == 7

\* A request of each kind, and the script.  The row that a request makes is a
\* new one.
Requests == {"solve", "verify", "hint", "reseed"}

ASSUME CompaniesAssumption == Companies \subseteq SUBSET Requests
ASSUME FreshAssumption == OldRows \cap Requests = {}

-----------------------------------------------------------------------------
(* Statements. *)

Create(t, parent) == [do |-> "create", table |-> t, column |-> t, parent |-> parent]
DropTable(t, parent) == [do |-> "drop", table |-> t, column |-> t, parent |-> parent]
On(t, do, c) == [do |-> do, table |-> t, column |-> c, parent |-> t]

LockedBy(s) == IF s.do = "create" THEN {s.table} ELSE {s.table, s.parent}

Column(row, c, value) == [x \in DOMAIN row \cup {c} |-> IF x = c THEN value ELSE row[x]]
ForEachRow(t, NewRow(_)) == [t EXCEPT !.rows = [r \in DOMAIN t.rows |-> NewRow(r)]]

HasNull(t, c) == \E r \in DOMAIN t.rows : t.rows[r][c] = "null"

\* What the database refuses.
Fails(s, ts) ==
  LET t == ts[s.table] IN
  CASE s.do = "create" -> \/ t.columns # {}
                          \/ s.parent # s.table /\ ts[s.parent].columns = {}
    [] s.do \in {"add_nullable", "add_default"} -> t.columns = {} \/ s.column \in t.columns
    [] s.do = "not_null" -> s.column \notin t.columns \/ HasNull(t, s.column)
    [] OTHER -> s.column \notin t.columns

Added(t, c, value) ==
  [ForEachRow(t, LAMBDA r : Column(t.rows[r], c, value)) EXCEPT !.columns = @ \cup {c}]

EmptyTable == [columns |-> {}, notNull |-> {}, rows |-> << >>]

\* extract_entry_function: the first function that the row's code defines, which
\* need not be the one its client asked for.
Extracted(r) == IF r \in NoFunction THEN "null" ELSE "first"

\* Mutation: after a row without a function no other row is filled in.
ExtractUntilFailure(t) ==
  ForEachRow(t, LAMBDA r :
    Column(t.rows[r], "entry_function",
           IF DOMAIN t.rows \cap NoFunction = {} THEN "first" ELSE "null"))

\* A row at a time; those without a function are skipped.
BackfillEntryFunction(t) ==
  ForEachRow(t, LAMBDA r : Column(t.rows[r], "entry_function", Extracted(r)))

Effect(s, t) ==
  LET c == s.column IN
  CASE s.do = "create" -> [EmptyTable EXCEPT !.columns = {c}, !.notNull = {c}]
    [] s.do = "drop" -> EmptyTable
    [] s.do = "add_nullable" -> Added(t, c, "null")
    [] s.do = "add_default" -> Added(t, c, "default")
    [] s.do = "zero" ->
         ForEachRow(t, LAMBDA r :
           Column(t.rows[r], c, IF t.rows[r][c] = "null" THEN "default" ELSE t.rows[r][c]))
    [] s.do = "extract" -> BackfillEntryFunction(t)
    [] s.do = "not_null" -> [t EXCEPT !.notNull = @ \cup {c}]
    [] s.do = "not_null_if_full" ->
         IF HasNull(t, c) THEN t ELSE [t EXCEPT !.notNull = @ \cup {c}]
    [] s.do = "drop_column" ->
         [columns |-> t.columns \ {c},
          notNull |-> t.notNull \ {c},
          rows    |-> [r \in DOMAIN t.rows |->
                         [x \in DOMAIN t.rows[r] \ {c} |-> t.rows[r][x]]]]

Apply(ts, s) == [ts EXCEPT ![s.table] = Effect(s, @)]

-----------------------------------------------------------------------------
(* The revisions, oldest first. *)

CreateSolver == <<Create("solver", "solver")>>
DropSolver == <<DropTable("solver", "solver")>>

\* Mutation: the column is not filled in before it is made NOT NULL.
NoLatencyBackfill ==
  <<On("solver", "add_default", "retry_used"), On("solver", "not_null", "retry_used"),
    On("solver", "add_nullable", "total_latency_ms"),
    On("solver", "not_null", "total_latency_ms")>>

AddRetryMetrics ==
  <<On("solver", "add_default", "retry_used"), On("solver", "not_null", "retry_used"),
    On("solver", "add_nullable", "total_latency_ms"),
    On("solver", "zero", "total_latency_ms"),
    On("solver", "not_null", "total_latency_ms")>>
DropRetryMetrics ==
  <<On("solver", "drop_column", "total_latency_ms"),
    On("solver", "drop_column", "retry_used")>>

\* Rows without a function keep NULL; then the column stays nullable.
AddEntryFunction ==
  <<On("solver", "add_nullable", "entry_function"),
    On("solver", "extract", "entry_function"),
    On("solver", "not_null_if_full", "entry_function")>>
DropEntryFunction == <<On("solver", "drop_column", "entry_function")>>

CreateVerifier == <<Create("verifier", "solver")>>
DropVerifier == <<DropTable("verifier", "solver")>>

CreateHint == <<Create("hint", "verifier")>>
DropHint == <<DropTable("hint", "verifier")>>

AddFailureEmbedding ==
  <<On("verifier", "add_nullable", "failure_embedding"),
    On("verifier", "add_default", "embedding_status"),
    On("verifier", "not_null", "embedding_status")>>

\* Mutation: the status stays.
DropVectorOnly == <<On("verifier", "drop_column", "failure_embedding")>>

DropFailureEmbedding ==
  <<On("verifier", "drop_column", "embedding_status"),
    On("verifier", "drop_column", "failure_embedding")>>

AddTopics == <<On("solver", "add_default", "topics")>>
DropTopics == <<On("solver", "drop_column", "topics")>>

Up == <<CreateSolver, AddRetryMetrics, AddEntryFunction, CreateVerifier, CreateHint,
        AddFailureEmbedding, AddTopics>>
Down == <<DropSolver, DropRetryMetrics, DropEntryFunction, DropVerifier, DropHint,
          DropFailureEmbedding, DropTopics>>

-----------------------------------------------------------------------------
(* The application's models. *)

ModelColumns(t) ==
  CASE t = "solver" -> {"solver", "retry_used", "total_latency_ms", "entry_function", "topics"}
    [] t = "verifier" -> {"verifier", "failure_embedding", "embedding_status"}
    [] t = "hint" -> {"hint"}

Nullable == {"topics", "failure_embedding"}

\* The columns a statement names: the ORM those of its model, the script's SQL
\* only keys.
ColumnsNamed(q, t) == IF q = "reseed" THEN {t} ELSE ModelColumns(t)

\* The tables of the statements of each: a request reads, inserts into the last
\* but one and, when that is committed, refreshes its row; the script reads all
\* three for its plan and has them till it has deleted.
Statements(q) ==
  CASE q = "solve" -> <<"solver", "solver">>
    [] q = "verify" -> <<"solver", "verifier", "verifier">>
    [] q = "hint" -> <<"verifier", "solver", "hint", "hint", "hint">>
    [] q = "reseed" -> <<"hint", "verifier", "solver", "solver">>

-----------------------------------------------------------------------------
\* The revision that brings a column, and the columns of a version.
Since == [solver |-> 1, retry_used |-> 2, total_latency_ms |-> 2, entry_function |-> 3,
          verifier |-> 4, hint |-> 5, failure_embedding |-> 6, embedding_status |-> 6,
          topics |-> 7]
ColumnsAt(t, n) == {c \in ModelColumns(t) : Since[c] <= n}

\* A row of the first release, with what later revisions gave it.
OldRow(r, n) ==
  [c \in ColumnsAt("solver", n) |->
     CASE c = "solver" -> "given" [] c = "entry_function" -> Extracted(r) [] OTHER -> "default"]

TableAt(t, n, old) ==
  [columns |-> ColumnsAt(t, n),
   notNull |-> {c \in ColumnsAt(t, n) \ Nullable :
                  c = "entry_function" => old \cap NoFunction = {}},
   rows    |-> IF t = "solver" THEN [r \in old |-> OldRow(r, n)] ELSE << >>]

\* At some revision, with or without rows of the first release.
Init ==
  /\ version \in Stops
  /\ \E old \in SUBSET OldRows :
       /\ version = 0 => old = {}
       /\ tables = [t \in Tables |-> TableAt(t, version, old)]
  /\ run = [r \in Runners |-> [goal |-> version, from |-> version, at |-> version,
                               todo |-> << >>]]
  /\ saved = [r \in Runners |-> << >>]
  /\ outcome = [r \in Runners |-> "idle"]
  /\ step = [q \in Requests |-> 1]
  /\ holds = [q \in Requests |-> {}]
  /\ \E company \in Companies :
       reply = [q \in Requests |-> IF q \in company THEN "none" ELSE "absent"]

-----------------------------------------------------------------------------
(* Runs. *)

Running(r) == outcome[r] = "running"
Locks(r) == DOMAIN saved[r]
Stamped(r) == run[r].at # run[r].from
Others(r) == Runners \ {r}

\* A table as the run found it.
Found(r, t) == IF t \in Locks(r) THEN saved[r][t] ELSE tables[t]

Script(at, goal) ==
  IF at < goal THEN Up[at + 1] ELSE IF at > goal THEN Down[at] ELSE << >>

\* alembic upgrade, or downgrade, to some revision.
Begin(r) ==
  /\ outcome[r] = "idle"
  /\ \E goal \in Stops :
       run' = [run EXCEPT ![r] = [goal |-> goal, from |-> version, at |-> version,
                                  todo |-> Script(version, goal)]]
  /\ outcome' = [outcome EXCEPT ![r] = "running"]
  /\ UNCHANGED <<tables, version, saved, requestVars>>

\* The transaction is over; its tables are as they were before or as they are now.
End(r, how) ==
  /\ outcome' = [outcome EXCEPT ![r] = how]
  /\ saved' = [saved EXCEPT ![r] = << >>]
  /\ UNCHANGED <<run, requestVars>>

RollBack(r, how) ==
  /\ Running(r)
  /\ tables' = [t \in Tables |-> Found(r, t)]
  /\ End(r, how)
  /\ UNCHANGED version

\* A CREATE TABLE keeps the writers of the table it refers to out, not its readers.
ClosedToWriters(r) ==
  {ParentOf[t] : t \in {u \in Locks(r) \cap DOMAIN ParentOf :
                         saved[r][u].columns = {} /\ tables[u].columns # {}}}

HoldersAgainstRunner(r, s) ==
  {x \in Others(r) : (Locks(x) \cup ClosedToWriters(x)) \cap {s.table, s.parent} # {}}
    \cup {q \in Requests : holds[q] \cap LockedBy(s) # {}}

\* One statement of the revision; its locks are there or it waits.
Execute(r) ==
  /\ Running(r) /\ run[r].todo # << >>
  /\ LET s == run[r].todo[1] IN
       /\ HoldersAgainstRunner(r, s) = {}
       /\ ~Fails(s, tables)
       /\ saved' = [saved EXCEPT ![r] = [t \in DOMAIN @ \cup LockedBy(s) |-> Found(r, t)]]
       /\ tables' = Apply(tables, s)
       /\ run' = [run EXCEPT ![r].todo = Tail(@)]
  /\ UNCHANGED <<version, outcome, requestVars>>

StatementFails(r) ==
  /\ Running(r) /\ run[r].todo # << >>
  /\ HoldersAgainstRunner(r, run[r].todo[1]) = {}
  /\ Fails(run[r].todo[1], tables)
  /\ RollBack(r, "failed")

StampBlockers(r) == IF Stamped(r) THEN {} ELSE {x \in Others(r) : Running(x) /\ Stamped(x)}

\* Each revision ends with UPDATE alembic_version, which must match one row.
Stamp(r) ==
  /\ Running(r) /\ run[r].todo = << >> /\ run[r].at # run[r].goal
  /\ StampBlockers(r) = {}
  /\ Stamped(r) \/ version = run[r].from
  /\ LET at == IF run[r].at < run[r].goal THEN run[r].at + 1 ELSE run[r].at - 1 IN
       run' = [run EXCEPT ![r].at = at, ![r].todo = Script(at, run[r].goal)]
  /\ UNCHANGED <<tables, version, saved, outcome, requestVars>>

StampFails(r) ==
  /\ Running(r) /\ run[r].todo = << >> /\ run[r].at # run[r].goal
  /\ StampBlockers(r) = {}
  /\ ~Stamped(r) /\ version # run[r].from
  /\ RollBack(r, "failed")

\* Mutation: without begin_transaction the connection closes and rolls back.
CloseWithoutCommit(r) ==
  /\ run[r].todo = << >> /\ run[r].at = run[r].goal
  /\ RollBack(r, "done")

CommitRun(r) ==
  /\ Running(r) /\ run[r].todo = << >> /\ run[r].at = run[r].goal
  /\ version' = IF Stamped(r) THEN run[r].goal ELSE version
  /\ End(r, "done")
  /\ UNCHANGED tables

RunKilled(r) == RollBack(r, "killed")

-----------------------------------------------------------------------------
(* Requests. *)

Waiting(q) == reply[q] = "none"

Answer(q, what) ==
  /\ reply' = [reply EXCEPT ![q] = what]
  /\ holds' = [holds EXCEPT ![q] = {}]
  /\ UNCHANGED <<step, version, runVars, saved>>

Target(q) == Statements(q)[step[q]]
AtLast(q) == step[q] = Len(Statements(q))
Inserts(q) == q # "reseed" /\ step[q] + 1 = Len(Statements(q))
Refreshes(q) == q # "reseed" /\ AtLast(q)
Deletes(q) == q = "reseed" /\ AtLast(q)
Reads(q) == ~Inserts(q) /\ ~AtLast(q)

HoldersAgainstRequest(q) ==
  {r \in Runners : \/ Target(q) \in Locks(r)
                   \/ Inserts(q) /\ Target(q) \in ClosedToWriters(r)}
MayAccess(q) == Waiting(q) /\ HoldersAgainstRequest(q) = {}

\* An INSERT leaves out what the model does not have.
Unfit(q) ==
  \/ ~(ColumnsNamed(q, Target(q)) \subseteq tables[Target(q)].columns)
  \/ Inserts(q) /\ ~(tables[Target(q)].notNull \subseteq ModelColumns(Target(q)))

AccessFails(q) ==
  /\ MayAccess(q) /\ Unfit(q)
  /\ Answer(q, "error")
  /\ UNCHANGED tables

\* The row asked for, the one an INSERT refers to or the new one may not be there.
RowMissing(q) ==
  /\ MayAccess(q) /\ ~Unfit(q)
  /\ \/ Reads(q) /\ q # "reseed" /\ Target(q) # "hint"
     \/ Inserts(q) /\ q # "solve" /\ reply["reseed"] = "ok"
     \/ Refreshes(q) /\ q \notin DOMAIN tables[Target(q)].rows
  /\ Answer(q, "row_missing")
  /\ UNCHANGED tables

\* VerifierInput wants a string.
NoEntryFunction(q) ==
  /\ MayAccess(q) /\ ~Unfit(q) /\ q = "verify" /\ step[q] = 1
  /\ HasNull(tables["solver"], "entry_function")
  /\ Answer(q, "no_entry_function")
  /\ UNCHANGED tables

Read(q) ==
  /\ MayAccess(q) /\ ~Unfit(q) /\ Reads(q)
  /\ \/ q = "reseed" \/ Target(q) = "hint"
     \/ \E r \in DOMAIN tables[Target(q)].rows :
          q = "verify" => tables["solver"].rows[r]["entry_function"] # "null"
  /\ step' = [step EXCEPT ![q] = @ + 1]
  /\ holds' = [holds EXCEPT ![q] = @ \cup {Target(q)}]
  /\ UNCHANGED <<tables, version, runVars, saved, reply>>

\* Agent or LLM fail between the statements; the operator does not confirm.
AgentFails(q) ==
  /\ Waiting(q) /\ (Inserts(q) \/ Deletes(q))
  /\ Answer(q, "unavailable")
  /\ UNCHANGED tables

\* The entry function is the client's.  A nullable column the model leaves at NULL
\* is the vector.
RowGiven(t) ==
  [c \in tables[t].columns |->
     CASE c = "entry_function" -> "asked" [] c = "failure_embedding" -> "null" [] OTHER -> "given"]

\* INSERT and commit.
Persist(q) ==
  /\ MayAccess(q) /\ Inserts(q) /\ ~Unfit(q)
  /\ q # "solve" => DOMAIN tables[ParentOf[Target(q)]].rows # {}
  /\ tables' = [tables EXCEPT ![Target(q)].rows =
                   [x \in DOMAIN @ \cup {q} |-> IF x = q THEN RowGiven(Target(q)) ELSE @[x]]]
  /\ step' = [step EXCEPT ![q] = @ + 1]
  /\ holds' = [holds EXCEPT ![q] = {}]
  /\ UNCHANGED <<version, runVars, saved, reply>>

\* In a transaction of its own; so is a verify request's hook, which fails likewise.
Refresh(q) ==
  /\ MayAccess(q) /\ Refreshes(q) /\ ~Unfit(q)
  /\ q \in DOMAIN tables[Target(q)].rows
  /\ Answer(q, "ok")
  /\ UNCHANGED tables

Without(t, gone) == [t EXCEPT !.rows = [r \in DOMAIN t.rows \ gone |-> t.rows[r]]]

\* The solver rows of some problems with all that refers to them, and commit.
Delete(q) ==
  /\ MayAccess(q) /\ Deletes(q) /\ ~Unfit(q)
  /\ \E gone \in [solver : SUBSET DOMAIN tables["solver"].rows,
                   verifier : SUBSET DOMAIN tables["verifier"].rows,
                   hint : SUBSET DOMAIN tables["hint"].rows] :
       /\ \A t \in DOMAIN ParentOf :
            gone[ParentOf[t]] = DOMAIN tables[ParentOf[t]].rows =>
              gone[t] = DOMAIN tables[t].rows
       /\ tables' = [t \in Tables |-> Without(tables[t], gone[t])]
  /\ Answer(q, "ok")

RequestStep(q) ==
  \/ AccessFails(q)
  \/ RowMissing(q)
  \/ NoEntryFunction(q)
  \/ Read(q)
  \/ AgentFails(q)
  \/ Persist(q)
  \/ Refresh(q)
  \/ Delete(q)

-----------------------------------------------------------------------------
(* Circles of waiting. *)

Blockers(p) ==
  IF p \in Requests
  THEN IF Waiting(p) THEN HoldersAgainstRequest(p) ELSE {}
  ELSE IF ~Running(p) THEN {}
  ELSE IF run[p].todo # << >> THEN HoldersAgainstRunner(p, run[p].todo[1])
  ELSE IF run[p].at # run[p].goal THEN StampBlockers(p) ELSE {}

InCircle(p) ==
  LET Awaited[n \in Nat] ==
        IF n = 0 THEN Blockers(p)
        ELSE Awaited[n - 1] \cup UNION {Blockers(x) : x \in Awaited[n - 1]}
  IN  p \in Awaited[4]

DeadlockVictim ==
  \/ \E r \in Runners : Running(r) /\ InCircle(r) /\ RollBack(r, "deadlock")
  \/ \E q \in Requests : Waiting(q) /\ InCircle(q) /\ Answer(q, "deadlock") /\ UNCHANGED tables

\* Everything is over.
Over ==
  /\ \A r \in Runners : outcome[r] \notin {"idle", "running"}
  /\ \A q \in Requests : ~Waiting(q)
  /\ UNCHANGED vars

RunnerStep(r) ==
  \/ Begin(r)
  \/ Execute(r)
  \/ StatementFails(r)
  \/ Stamp(r)
  \/ StampFails(r)
  \/ CommitRun(r)
  \/ RunKilled(r)

Next ==
  \/ \E r \in Runners : RunnerStep(r)
  \/ \E q \in Requests : RequestStep(q)
  \/ DeadlockVictim
  \/ Over

Spec == Init /\ [][Next]_vars

-----------------------------------------------------------------------------
\* What others see of a table.
Committed(t) ==
  LET lockers == {r \in Runners : t \in Locks(r)} IN
  IF lockers = {} THEN tables[t] ELSE saved[CHOOSE r \in lockers : TRUE][t]

\* At any moment the committed tables are those of the version the database says it
\* has, whoever runs up or down, fails, is killed or races another; but for
\* entry_function, which is NOT NULL only if no row lacks it, and always then unless
\* rows were deleted since.
SchemaMatchesVersion ==
  \A t \in Tables :
    LET table == Committed(t)
        columns == ColumnsAt(t, version)
    IN  /\ table.columns = columns
        /\ table.notNull \ {"entry_function"} = columns \ (Nullable \cup {"entry_function"})
        /\ "entry_function" \in table.notNull =>
             "entry_function" \in columns /\ ~HasNull(table, "entry_function")
        /\ "entry_function" \in columns \ table.notNull =>
             HasNull(table, "entry_function") \/ reply["reseed"] = "ok"

\* A run moves the version from where it began to its goal in one step, and says
\* it is done only then.
RunIsAllOrNothing ==
  [][ /\ version' # version =>
           \E r \in Runners : version = run[r].from /\ version' = run[r].goal
      /\ \A r \in Runners :
           Running(r) /\ outcome'[r] = "done" /\ run[r].goal # run[r].from =>
             version' = run[r].goal ]_vars

\* Why: whoever has updated alembic_version holds the row, and found its own from there.
StampInv ==
  /\ run = [r \in Runners |-> [goal |-> run[r].goal, from |-> run[r].from, at |-> run[r].at,
                               todo |-> run[r].todo]]
  /\ DOMAIN outcome = Runners
  /\ \A r \in Runners :
       Running(r) /\ Stamped(r) =>
         /\ version = run[r].from
         /\ \A x \in Others(r) : ~(Running(x) /\ Stamped(x))

\* "Safe whether the table holds 0 rows or 50M": a run fails only because another one
\* was committed since it began; a request fails on a table only at an old version,
\* and on a row only if its code defines no function.
FailuresHaveCause ==
  [][ /\ \A r \in Runners :
           Running(r) /\ outcome'[r] = "failed" => version # run[r].from
      /\ \A q \in Requests :
           /\ Waiting(q) /\ reply'[q] = "error" => version # Newest
           /\ Waiting(q) /\ reply'[q] = "no_entry_function" =>
                DOMAIN tables["solver"].rows \cap NoFunction # {} ]_vars

\* Whatever is run up and down, the committed entry function of a row never changes
\* while its column is there: an old row has the first function its code defines, and
\* NULL only if it defines none, a new one that which its client asked for; but a
\* revision that brings the column back gives every row the first its code defines.
EntryFollowsCode ==
  [][ LET before == Committed("solver")
          after == Committed("solver")'
      IN  "entry_function" \in after.columns =>
            \A r \in DOMAIN after.rows :
              after.rows[r]["entry_function"] =
                IF r \notin DOMAIN before.rows THEN "asked"
                ELSE IF "entry_function" \in before.columns THEN before.rows[r]["entry_function"]
                ELSE Extracted(r) ]_vars

-----------------------------------------------------------------------------
(* The inductive invariant: why the schema matches the version. *)

\* The revision a run is in, and the version it has when that is stamped.
Revision(at, goal) == IF at < goal THEN at + 1 ELSE at
Reached(at, goal) == IF at < goal THEN at + 1 ELSE IF at > goal THEN at - 1 ELSE at

Adding == {"add_nullable", "add_default"}
Creating == {"create"} \cup Adding
Filling == {"zero", "extract"}
Constraining == {"not_null", "not_null_if_full"}
Dropping == {"drop", "drop_column"}

\* Something is still to be done to a column.
Pending(todo, kinds, c) == \E i \in DOMAIN todo : todo[i].do \in kinds /\ todo[i].column = c

Present(todo, n, c) ==
  (Since[c] <= n \/ Pending(todo, Dropping, c)) /\ ~Pending(todo, Creating, c)

\* A table with the rest of a script before it that ends in version n.
FilledIn(todo, r, c, value) ==
  value = "null" =>
    \/ c = "failure_embedding"
    \/ c = "entry_function" /\ r \in NoFunction
    \/ Pending(todo, Filling, c)

Enforceable(table, todo) ==
  {c \in table.columns \ Nullable :
     ~Pending(todo, Constraining, c) /\ (c = "entry_function" => ~HasNull(table, c))}

OnTheWay(table, t, todo, n) ==
  /\ table = [columns |-> table.columns, notNull |-> table.notNull, rows |-> table.rows]
  /\ table.columns = {c \in ModelColumns(t) : Present(todo, n, c)}
  /\ table.notNull \subseteq Enforceable(table, todo)
  /\ Enforceable(table, todo) \ {"entry_function"} \subseteq table.notNull
  /\ \A r \in DOMAIN table.rows :
       /\ DOMAIN table.rows[r] = table.columns
       /\ \A c \in table.columns : FilledIn(todo, r, c, table.rows[r][c])

AtVersion(table, t, n) == OnTheWay(table, t, << >>, n)

\* What a revision's statements are about, and in what order they come.
Rank == [create |-> 1, add_nullable |-> 1, add_default |-> 1, zero |-> 2, extract |-> 2,
         not_null |-> 3, not_null_if_full |-> 3, drop |-> 1, drop_column |-> 1]

Sensible(s, n) ==
  /\ s.do \in DOMAIN Rank /\ s.table \in Tables /\ s.parent \in Tables
  /\ s.column \in ModelColumns(s.table) /\ Since[s.column] = n
  /\ s.do \in {"create", "drop"} =>
       /\ s.column = s.table
       /\ \A c \in ModelColumns(s.table) \ {s.table} : Since[c] > n
       /\ s.parent # s.table => Since[s.parent] < n
  /\ s.do \notin {"create", "drop"} => s.parent = s.table
  /\ s.do \in Adding => Since[s.table] < n
  /\ s.do \in Filling \cup Constraining => s.column \notin Tables
  /\ s.do \in {"extract", "not_null_if_full"} => s.column = "entry_function"
  /\ s.do \in {"zero", "not_null"} => s.column \notin {"entry_function"} \cup Nullable

Later(todo, i, kinds) ==
  \E j \in DOMAIN todo : j > i /\ todo[j].do \in kinds /\ todo[j].column = todo[i].column

Orderly(todo) ==
  \A i \in DOMAIN todo :
    /\ todo[i].do \in Adding \cup Filling /\ todo[i].column \notin Nullable =>
         Later(todo, i, Constraining)
    /\ todo[i].do = "add_nullable" /\ todo[i].column # "failure_embedding" =>
         Later(todo, i, Filling)
    /\ todo[i].do = "add_default" => todo[i].column \notin {"entry_function", "failure_embedding"}
    /\ \A j \in DOMAIN todo :
         j > i /\ todo[j].column = todo[i].column => Rank[todo[i].do] < Rank[todo[j].do]

\* What is left of a revision on the way to version n.
Rest(todo, revision, n) ==
  /\ \A i \in DOMAIN todo :
       /\ Sensible(todo[i], revision)
       /\ IF todo[i].do \in Dropping THEN n = revision - 1 ELSE n = revision
  /\ Orderly(todo)

OnScript(r) ==
  LET x == run[r] IN
  /\ {x.goal, x.from, x.at} \subseteq 0..7
  /\ (x.from <= x.at /\ x.at <= x.goal) \/ (x.goal <= x.at /\ x.at <= x.from)
  /\ x.todo \in Seq({x.todo[i] : i \in DOMAIN x.todo})
  /\ Rest(x.todo, Revision(x.at, x.goal), Reached(x.at, x.goal))
  /\ x.at = x.goal => x.todo = << >>

\* What it has locked it found like the version still says.
FoundAtVersion(r) ==
  /\ Locks(r) \subseteq Tables
  /\ Locks(r) # {} => Running(r) /\ (Stamped(r) \/ run[r].at # run[r].goal)
  /\ \A t \in Locks(r) : AtVersion(saved[r][t], t, version)

\* And if that is the version the run began from, the table is where the run has got to.
LockedOnTheWay(r) ==
  Running(r) => \A t \in Locks(r) :
    saved[r][t].columns = ColumnsAt(t, run[r].from) =>
      OnTheWay(tables[t], t, run[r].todo, Reached(run[r].at, run[r].goal))

\* What it has not locked it has not come to, and its revisions so far leave it alone.
Untouched(r) ==
  Running(r) => \A t \in Tables \ Locks(r) : \A c \in ModelColumns(t) :
    LET x == run[r]
        present == Present(x.todo, Reached(x.at, x.goal), c)
    IN  /\ present <=> Since[c] <= x.from
        /\ present => ~Pending(x.todo, Constraining, c) /\ ~Pending(x.todo, Filling, c)

RunInv(r) == OnScript(r) /\ FoundAtVersion(r) /\ LockedOnTheWay(r) /\ Untouched(r)

Free(t) == \A r \in Runners : t \notin Locks(r)

\* A lock is one runner's, and a table without a lock is that of the version.
TableInv ==
  /\ DOMAIN tables = Tables /\ DOMAIN saved = Runners
  /\ \A r \in Runners : \A x \in Others(r) : Locks(r) \cap Locks(x) = {}
  /\ \A t \in Tables : Free(t) => AtVersion(tables[t], t, version)

\* A table is locked by a runner or read by clients; the script has all it read for its plan.
RequestInv ==
  /\ DOMAIN reply = Requests /\ DOMAIN step = Requests /\ DOMAIN holds = Requests
  /\ \A q \in Requests : step[q] \in 1..Len(Statements(q))
  /\ \A q \in Requests : \A r \in Runners : holds[q] \cap Locks(r) = {}
  /\ Waiting("reseed") =>
       \A i \in 1..(step["reseed"] - 1) : Statements("reseed")[i] \in holds["reseed"]

MigrationInv ==
  /\ version \in 0..7 /\ StampInv /\ TableInv /\ RequestInv
  /\ \A r \in Runners : RunInv(r)

-----------------------------------------------------------------------------
(* And why the entry functions follow the code. *)

\* The solver table beside the one a run found, with the rest of its script: the column
\* was there and is as it was, or it came with the run, which has filled it in.
EntriesOnTheWay(table, found, todo) ==
  /\ DOMAIN table.rows \subseteq DOMAIN found.rows
  /\ "entry_function" \in table.columns \cap found.columns =>
       /\ DOMAIN table.rows = DOMAIN found.rows
       /\ \A r \in DOMAIN table.rows :
            table.rows[r]["entry_function"] = found.rows[r]["entry_function"]
       /\ "entry_function" \in found.notNull => "entry_function" \in table.notNull
  /\ "entry_function" \in table.columns \ found.columns =>
       /\ ~Pending(todo, Filling, "entry_function") =>
            \A r \in DOMAIN table.rows : table.rows[r]["entry_function"] = Extracted(r)
       /\ ~Pending(todo, Constraining, "entry_function") =>
            "entry_function" \in table.notNull \/ HasNull(table, "entry_function")

LockedEntries(r) ==
  (/\ Running(r) /\ "solver" \in Locks(r)
   /\ saved[r]["solver"].columns = ColumnsAt("solver", run[r].from)) =>
    EntriesOnTheWay(tables["solver"], saved[r]["solver"], run[r].todo)

\* The column is nullable only for a row that lacks it, or that did before it was deleted;
\* and the row of a request comes once.
EntryInv ==
  /\ \A r \in Runners : LockedEntries(r)
  /\ "entry_function" \in Committed("solver").columns \ Committed("solver").notNull =>
       HasNull(Committed("solver"), "entry_function") \/ reply["reseed"] = "ok"
  /\ step["solve"] = 1 => "solve" \notin DOMAIN Committed("solver").rows
=============================================================================
