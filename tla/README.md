# StudyVerify: models and proofs of the backend

StudyVerify is a tutoring backend (FastAPI, PostgreSQL, Docker, two LLM providers). A client has
a problem solved (`POST /solve`), has a student's attempt run and judged (`POST /verify`), and
asks for hints about a failed attempt (`POST /hint`). This directory holds TLA+ models of the
parts of it whose correctness depends on order, failure and concurrency, the TLC runs that check
them, and proofs, checked by TLAPS, of what matters most about each.

Paths below are relative to `src/backend/`. `PROJECT.json` maps every definition to its lines.

## 1. The system

| Component | State it keeps | Operations | Talks to |
|---|---|---|---|
| Solve requests: `app/api/routes/solver.py`, `app/agents/solver/`, `app/services/solver_service.py` | one row of `solver_sessions` per request | analyze, plan, code, run the code, regenerate once, insert and commit | LLM gateway, subprocess sandbox, database |
| LLM gateway and providers: `app/llm/` | which provider is the fallback | `chat`: attempts with backoff, fallback, one exception at the end | DeepSeek, OpenAI |
| Verify requests: `app/services/verifier_service.py`, `app/repositories/verifier_repository.py` | rows of `verifier_sessions`, each with an embedding and its status | run the attempt, commit the row, embed the failure, record the outcome | verifier agent, embedding service, database |
| Docker sandbox and verifier agent: `app/sandbox/docker_runner.py`, `base_runner.py`, `app/agents/verifier/agent.py` | a container and two temporary files per run | create, start, wait, kill, read, remove; judge; diagnose | Docker daemon, LLM gateway |
| Hint requests: `app/services/hint_service.py`, `app/repositories/hint_repository.py` | rows of `hint_sessions`, numbered within their verifier session | list, count, retrieve, generate, regenerate, insert with one retry | LLM gateway, retrieval, database |
| Retrieval: `app/services/retrieval_service.py` | nothing | similarity query, filter of dangerous hints | database (pgvector), embedding service |
| Backfill script: `app/scripts/backfill_embeddings.py` | its batch | select rows, embed and commit each | database, embedding service |
| Seeding script: `app/scripts/seed_failure_corpus.py` | its plan and its counters | delete in foreign key order, check, call `/solve` and `/verify` | the API, database |
| Variant generator: `app/scripts/generate_buggy_variants.py` | a JSON file | one LLM call, validate, retry once, write | LLM gateway |
| Test case generation: `app/services/test_case_generator.py` | nothing | one LLM call, parse, ask once more | LLM gateway |
| Dataset builders and validator: `benchmark/_generate_via_api*.py`, `validators.py` | a file of problems, metrics | have cases generated, correct them by the reference solution, count a variant's failures; run it all again | test case generation, subprocess sandbox |
| Migrations: `alembic/` | the schema and its version | seven revisions up and down, in one transaction a run | database |
| Benchmark: `benchmark/` | lists of records | solve, verify, ask for five hints a variant, judge them, aggregate | the API, LLM gateway |
| Connections: `app/db/session.py` | a pool of 15 connections | one session for a request: a connection from the first statement of a transaction to its end, a wait of 30 seconds for one, rollback on an exception | database |

How they meet. Requests are coroutines of one API process: they interleave at every `await`, and
between two requests nothing is shared but the database. A transaction is READ COMMITTED; no
request takes a lock before it writes. Hint rows refer to verifier rows, these to solver rows.
Two programs write the embedding columns of `verifier_sessions`: the verify request and the
backfill script. The benchmark and the seeding script are clients of the API that may give up
waiting while the server goes on.

What is hard, and what makes each part correct:

- **Hints.** A request reads, spends up to two LLM calls, and only then writes. In between other
  requests add hints. The numbering of a session must stay 1, 2, 3, ... without gap or double;
  the cap of five must not be passed by more than the unlocked check allows; a 200 must be backed
  by a row and a refusal by none; the provenance column must not claim hints the LLM did not see.
- **Verify and backfill.** The verdict is committed before the embedding is tried: what the
  embedding service does must never take the verdict away, and must leave a status the backfill
  script can act on. The two writers must not block one another for ever.
- **Solve.** Four LLM stages with retries and a fallback, one regeneration: the row must describe
  the code that was tested last, and the number of provider calls must stay bounded.
- **Sandbox.** A container that runs beside the worker thread, a time limit that may run out when the
  program has ended already, a kill that may come too late, a daemon that may fail at each of six calls:
  no verdict may be given that is not the program's own, and nothing may be left behind without a reason.
- **What is said of an attempt.** The expected values and descriptions of the tests must not reach
  the row, a prompt or a hint, though an LLM may repeat all it is shown and its texts are shown again;
  a hint that leaks an input must have been asked for twice.
- **Connections.** A request keeps its connection across its LLM calls: none may be lost, and a
  request that finds none must be answered all the same.
- **Seeding.** Three DELETEs in one transaction, under foreign keys that live requests keep adding
  to: all or nothing, and nobody locked out for ever.
- **Migrations.** Two containers may start at once, an operator may downgrade beside them, requests
  go on: the schema must always be the one the version table names, a row must keep its entry function
  or get the one its code defines, and a failure must have a cause.
- **Data builders.** What one program writes the other must accept, and the metrics must add up.
- **Benchmark.** Time limits shorter than the server's, judges that fail, a run that is lost: its
  numbers must still mean something.

The 40 hazards of `PROJECT.json` name the lines, and for each the properties that would catch it
going wrong; where the code itself lets it go wrong, a note says how the models show that. Two more that were met have no property: the list of prior hints and their count are
two statements, so the diagnosis may be seeded into the prompt of a hint that is not the session's
first (`PromptNeverAhead` bounds what the row then claims); and a foreign key violation, after the
verifier row was deleted, is answered 409 like a collision, where no document says what it should be.

## 2. The modules

| Module | What it is | Theorems |
|---|---|---|
| `HintSession` | `POST /hint`: concurrent requests over the hints table | `HintSession_proofs` |
| `HintLedger` | what the hints of a session promise: an append-only sequence of bounded length | |
| `RequestPool` | the hint requests over the connection pool, EXTENDS `HintSession` | `RequestPool_proofs` |
| `EvalClient` | the benchmark's loop, EXTENDS `HintSession` | `EvalClient_proofs` |
| `VerifySession` | `POST /verify` with its RAG hook | `EmbeddingBackfill_proofs` |
| `EmbeddingBackfill` | the backfill script, EXTENDS `VerifySession` | `EmbeddingBackfill_proofs` |
| `LLMGateway` | `LLMGateway.chat` and what a provider may raise | `GatewayCallers_proofs` |
| `ChatContract` | what `chat` promises an agent | |
| `SolvePipeline` | `POST /solve`, EXTENDS `LLMGateway` | `GatewayCallers_proofs` |
| `CaseGenerator` | `POST /generate-test-cases`, EXTENDS `LLMGateway` | `GatewayCallers_proofs` |
| `DatasetBuild` | the dataset builders and the validator, EXTENDS `CaseGenerator` | `GatewayCallers_proofs` |
| `VariantGenerator` | the script `generate_buggy_variants`, EXTENDS `LLMGateway` | `GatewayCallers_proofs` |
| `EvalReport` | the benchmark's run with its judges and its report, EXTENDS `LLMGateway` | `GatewayCallers_proofs` |
| `GatewayCallers` | the four callers of the gateway side by side | `GatewayCallers_proofs` |
| `SandboxRun` | `VerifierAgent.verify` over `DockerCodeRunner`, beside the container | `AttemptFeedback_proofs` |
| `AttemptFeedback` | what is stored and hinted of an attempt, EXTENDS `SandboxRun` | `AttemptFeedback_proofs` |
| `CorpusReseed` | the seeding script beside verify and hint requests | `CorpusReseed_proofs` |
| `SchemaMigrations` | Alembic runs beside one another and beside requests | `SchemaMigrations_proofs` |
| `MCHintSession`, `MCRequestPool`, `MCEvalClient`, `MCGatewayCallers`, `MCAttemptFeedback`, `MCCorpusReseed`, `MCSchemaMigrations` | constants for TLC | |

Conventions. A request, a script run or a client is a process with a program counter (`pc`,
`stage`, `bpc`, `epc`); each `await` that reaches the database, a provider or the daemon is an
action, and the code up to the next `await` belongs to it. Faults are actions of their own, under
a bound `MaxFaults`. History variables, which the code does not have, are marked "(history)"
where they are declared. An operator whose comment begins with "Mutation:" is no part of any
specification: it is the definition after it (or the one it is named for in `PROJECT.json`) with
a plausible bug, and shows that a property would notice that bug.

### HintSession
`hints` is the committed table by verifier session; a row is its index, the request that made it
(for its text) and `prior_hints_count`. `listed`, `counted`, `index`, `attempt` are the local
variables `len(prior_hint_rows)`, `actual_prior_hint_count`, `output_hint_index` and the loop
counter of `generate_and_persist`. Its statements are `LookUpSession`, `ListPriorHints`,
`CountPriorHints`, `RetrieveContext`, `GenerateHint`, `RegenerateHint`, `InsertHint`,
`CommitHint`, `RefreshHint`; the `IntegrityError` branch is `InsertCollides` and `RelistHints`.
The list and the count are two statements in the code and two actions here. An INSERT is not
enabled while another transaction holds its key uncommitted: that is how PostgreSQL treats a
unique key. `RetrieveDbError` is the similarity query failing in the database, which the code
swallows without a rollback; `InsertIntoAborted` is what then becomes of the insert. Faults:
`RequestFails` (any statement or LLM call), `CommitUnacknowledged`, `Crash`.

A member of `Requests` is a slot that serves one request after another. Which hints leak and are
regenerated is a free choice here; `AttemptFeedback` has the texts.

### RequestPool
`holds` are the hint requests whose session has a connection, `others` how many the requests of the
other endpoints have. A request needs one for the first statement of each transaction
(`FirstStatements`: at the start, after the rollback of a collision, after the commit), takes it
(`TakeConnection`) or gives up after the time limit (`PoolTimeout`, 500), and every other step is
that of `HintSession` (`Serve`, `Fail`) with the connection given back by commit, rollback or the
end of the request (`Released`). Which waiter is served is any. The API is one uvicorn process
(`docker-compose.yml:102`), so its pool is all there is.

### VerifySession and EmbeddingBackfill
`table` holds the embedding columns of each committed row, `update` the uncommitted UPDATE of a
row with its owner, which is also its lock. The steps of a request are those of
`verify_and_persist`: the main part, the `try` block of the hook (`embed`, `update`,
`commit_success`, `refresh_success`) and its `except` block (`rollback`, `mark`, `commit_failed`,
`refresh_failed`), whose own exceptions are swallowed. A solver row without an entry function ends the
request with 500 before anything is run (`LookUpSolver`). `expired` says that `rollback()` has
expired the ORM object: the route reads `row.id` afterwards. A run of the script selects a batch
once (`SelectPending`, with or without `--retry-failed`) and then takes its rows one by one; those it
can neither embed nor mark it logs (`warned`), and a commit may be made and not acknowledged. The
order of the batch is any: it is by creation time, and rows commit in another order.

### LLMGateway, ChatContract, SolvePipeline
The gateway's variables are one call's: the provider, its failed attempts, how the call ended.
`SolvePipeline` adds the agent's stages; `CallLLM` lets the gateway work while a stage waits.
The backoff is not modelled: it delays and changes nothing. `results` is the list of sandbox
statuses, `version` counts the drafts. Confidence is in hundredths; the parts of the score that
depend on the texts are a choice among the values they can add up to.

### CaseGenerator, DatasetBuild, VariantGenerator, EvalReport, GatewayCallers
`CaseGenerator` is one request to the test case route: `caseAttempt` is the loop variable of
`generate`, a case is reduced to what its expected value is to the value the reference solution
returns (its repr, only its str, neither, or none because it raises). `DatasetBuild` is a builder
taking its problems in turn, then the validator over the file; `cut` (history) says that some
sandbox run was cut short. `VariantGenerator` is the script with its two attempts and its file.
`EvalReport` is `evaluate_problem` for one variant with its two judges, each a chat of the gateway
whose exceptions and unreadable answers are a `judge_error`, while an object without the key asked for
counts as no leak and as no help (`Sayings`); the other problems of the run are
`others`, since `asyncio.gather` makes all of them one: it waits for all and raises with the first
(`RunRaises`). `Aggregate` is `aggregate_results`, without latencies and rates; `foundClean`,
`unsaid`, `foundFixing` and `unusable` are history.

The callers share nothing with one another, so `GatewayCallers` chooses one of the four for a
behaviour and lets each meet every failure of the gateway.

### CorpusReseed
`rows` are the committed rows of one problem over the three tables, `inserting` and `updating` the
uncommitted ones. An INSERT shares the lock of the row it refers to, an UPDATE and a DELETE take
it; each DELETE reads its targets when it begins (`targets`), locks them one at a time
(`LockTarget`), and then looks for rows that still refer to them (`Restricted`). `planned` is what
the printed plan counts. Seeding itself never succeeds: `/solve` refuses the payload with 422.

### SchemaMigrations
`tables` are the columns, NOT NULL columns and rows of the three tables as the present
transactions have left them; `saved` is what each runner found in the tables it has locked, so
that a rollback restores it and others see it (`Committed`). A revision is a sequence of
statements, `Up` and `Down` list the revisions. A runner reads the version when it begins and
stamps each revision with an UPDATE that must match one row. A statement that alters or drops a table
locks it, one that creates a table keeps the writers of its parent out and lets the readers in
(`ClosedToWriters`). Four clients may come beside the runs: one request of each kind, of the newest
release, whose statements name every column of the models, and the deletion of the seeding script, whose
SQL names keys only. A request reads, inserts and commits (`Persist`), and refreshes its row in a
transaction of its own (`Refresh`); the row may be gone by then. `DeadlockVictim` is PostgreSQL's
detection of a circle of waiting.

A row's `entry_function` is what its client asked for ("asked": `/solve` stores the request's name),
the first function its code defines ("first": the revision extracts it), or NULL. The two names may
differ, so a downgrade and an upgrade may change what a row has.

### SandboxRun
`container` is the state of the container in the daemon, which moves on its own
(`ProgramEnds`); `held` says whether the variable `container` of `_execute_code_sync` is set, and
`known` which paths its `finally` block knows. Each call of the daemon has its failure, in which
the daemon may or may not have done what it was asked; an `unlink` may fail too, and leaves what comes
after it. `faultAt` (history) remembers where. The limit of `wait()` is the client's: it may run out
whatever the container does (`WaitExpires`, remembered in `expired`). The eight `Programs` are the ways
an attempt can end in the wrapper script; the last prints results of its own between the markers and
ends with 0, and is judged by whatever it says (`Printed`), or is a `VerifierError` if that does not
validate (`ResultsInvalid`). `verdicts` is the set of values `passed` has in the results.

### AttemptFeedback
After the run, what is said of it. A text is the set of facts in it; a fact is a test with one of
its three fields (`TestCase`), or `Dictation`, a phrase of `FORBIDDEN_HINT_PHRASES`. `StoreAttempt`
makes the row with the fields that `_redact_results` keeps and a diagnosis that may repeat anything
of its prompt (`DiagnosisPrompt`). A hint request builds its prompt (`RequestHint`) from the failed inputs,
the prior hints or the diagnosis, the past cases with their hints filtered (`Safe`) and their
diagnoses not, and the constraints of the topics; the LLM answers with any subset of what it is
shown (`Generate`); `Violations` is `_find_violations`; a text with violations is made once more
with them named in the prompt (`Regenerate`) and then shipped whatever it says (`ShipHint`).
The problem, the student's code and the output of the program, results it prints itself included, are
no facts. `PastFacts` is what
other attempts may have said: inputs and dictation, by the same argument as for this one.

### EvalClient
`evaluate_problem` as the only source of hint requests. `StopWaiting` is the 90 seconds' limit of
the HTTP client; the server's request is not cancelled. `level` is the number in the loop, which
the record and the report use; `at` (history) is the index the server gave.

## 3. The runs

All runs together take about five minutes with two workers.

| Run | Instance | Distinct states | What it shows |
|---|---|---|---|
| `hint_safety` | 3 slots, sessions of all four kinds, cap 2, 1 fault, slots symmetric | 652 thousand | the invariants of the hint table and the answers; how far the cap can be passed, a bound that is reached here |
| `hint_pool` | 3 slots, one session, cap 1, 2 connections, 1 fault | 95,940 | no connection leaks; the pool bounds the hints; every request is answered; the table implements `HintLedger`; the inductive invariant of both modules |
| `hint_cap` | 3 slots, cap 2, no fault | stops at the violation | finding 1: `AtMostOneOverCap` fails |
| `hint_retrieval_error` | same | stops at the violation | finding 2: `NoServerError` fails |
| `embedding` | 2 verify requests, 1 script run at a time, 1 fault | 137 thousand | both writers of the embedding columns; nobody waits for a row's lock for ever |
| `embed_hook` | 1 request, 1 run, 1 fault | stops at the violation | finding 3: `HookNeverFailsRequest` fails |
| `gateway_callers` | 3 attempts per provider, as in the code; 2 cases, 2 variants, 2 hints; one problem with generated cases and one with its own | 331 thousand | the four callers of the gateway with every pattern of failures |
| `sandbox` | 2 faults a run; 3 tests, one of them short; 1 input shown, 2 checked | 200 thousand | one run of every kind of program with every pair of failures; every row, text and hint that can come of it |
| `evaluation` | 1 variant, 3 hints, cap 3, 3 slots, 1 fault | 249 thousand | the benchmark over the hint service |
| `reseed` | 2 verify requests, 1 hint request, each answered before or live; 2 variants | 259 thousand | the deletion beside live requests |
| `reseed_solver` | same | stops at the violation | finding 4: `SolverOfVerifierFound` fails |
| `migrations` | 2 runners, symmetric, between revisions 0, 1, 4 and 7; 2 old rows, one without a function; 2 of the 4 clients | 2.04 million | schema, version and rows under concurrent runs |

Why the bounds are enough.

- *Hint slots: 3.* Two requests collide; the third is needed for the second collision of one of
  them (409 after the retry) and to pass the cap by two. *Cap 2*: the smallest for which a request
  can find a hint in the list and still be admitted; `hint_pool` needs only the collision and
  takes 1, with two connections: the least for which two requests are in flight and the third must
  wait. Requests are made again and again, so a session goes through every fill level.
  Sessions do not interact, so one of each kind is enough.
- *One fault* lets each fault meet each interleaving; the code has no recovery that a second fault
  could meet, but for the hook's `except` block: there `embed` failing is a normal step, not a
  fault, so the block itself is entered with the fault still to come. In `SandboxRun`, whose
  `finally` block is entered by the first fault, the bound is 2.
- *Rows: 2* for the script, so that a batch has a row that waits while another is worked on.
- *Callers*: two cases, variants and hints are the least for which "as many as asked for" can fail by
  one in both directions with a mixture of kinds; of the problems one takes each of the two paths.
- *Tests*: three, so that one is shown, another is only checked and a third neither, as with the code's
  3, 5 and more; one is too short to be looked for.
- *Reseed*: two attempts, so that the deletion has locked one while it waits for the other; whatever
  was committed before the script began is a choice of `Init`.
- *Migrations*: the revisions at which the shape of the tables changes for a request: none, the first,
  the last before the hint table and the embedding columns, the newest; each run passes through those
  between. Two runners are what collides on the version row; two rows are one that can be filled in and
  one that cannot. The clients come in pairs of which one makes or deletes rows that the other refers to;
  the proofs are of any number of runners and any company.
- *Three hints* per variant in `evaluation`: two requests given up on may run beside the third.

Properties. They come by theme; the type invariants are parts of the inductive invariants, of which
`PoolInv` and `FeedbackInv` are also run, to show that they hold of what is reachable.

- `Contiguous`, `OvershootBound`: the numbering; the true bound on the number of hints, which is
  the cap less one plus the number of requests at a time.
- `PoolInv`, `PoolBoundsHints`: who holds a connection is being served, and one that is admitted keeps
  it; so a session gets at most the cap times the size of the pool, however many requests come.
- `PromptNeverAhead`: `prior_hints_count` against the hints committed before.
- `SuccessIsDurable`, `RefusalLeavesNoRow`, `RefusalIsJustified`: each answer against the table;
  409 only if two others made hints meanwhile.
- `EveryRequestAnswered`, `ImplementsLedger`: progress; refinement.
- `AnswersMatchTable`, `OnlyFailuresEmbedded`, `RunSettlesBatch`: what the two writers may leave
  in the table, what a run has done when it ends about the rows of requests that died, that it is what the retrieval query of a hint admits (`Retrievable`), and what a
  verify request tells its client; `EveryoneFinishes`: progress behind row locks.
- `RowTellsTheTruth`, `CallBudget`: the row of a solution against what was run and what was
  answered; the number of provider calls against the chats of a request.
- `RejectedForCause`, `MetricsAddUp`, `EmittedIsUsable`: the file of a builder against the
  validator, its metrics against the cases; the variants that reach the file.
- `ImplementsContract`, `CallersEnd`: retries are invisible to the callers; progress.
- `VerdictIsSound`, `TimeoutHasCause`, `CleansUp`, `RunEnds`: verdicts against what the program did
  and whether it was killed; what may be called a timeout; resources against the failures that excuse a leak.
- `AnswersStayHidden`, `LeaksWereAskedTwice`, `FeedbackInv`: what the row, the prompts and the hints
  may say; the check of a hint against what its prompt showed.
- `ReportIsHonest`: the counts of the report against the calls made and what the judges said: which of
  the hints that passed were called clean, which owe it to a judge that failed, and which to one that
  did not say.
- `LevelsNeverUnderstated`, `ReportMatchesTable`, `EvaluationEnds`: the
  benchmark's records against the hints table. The first is less than the "per-hint-index" counts of
  `benchmark/aggregate.py:7` ask for: after a failed hint the level is only an upper bound of the index.
- `ReseedIsWhole`, `ReseedFailsForCause`, `EveryoneAnswered`: the deletion is whole or nothing, fails
  only for rows newer than the plan, and keeps nobody waiting, the operator's confirmation included.
- `SchemaMatchesVersion`, `RunIsAllOrNothing`, `FailuresHaveCause`, `EntryFollowsCode`: the committed
  tables against the stamped version at every moment; what a failed run or request may be blamed on;
  no step changes the `entry_function` of a committed row while the column is there, and where the
  column comes back each row has the first function of its code.

Fairness. Weak fairness on the steps of a request, a script and a sandbox run: each is an
`await` or a call that its other side ends, by a result or by a time limit (30 seconds for a
provider, 5 for the sandbox). Strong fairness only on taking a row's lock (`embedding`):
PostgreSQL queues the transactions that wait for it. Nothing makes a client send a request, an
operator start, confirm or kill a script, a fault happen or a student's program end. In
`hint_pool` a request that waits for a connection gets one or times out, and the other endpoints need
not give theirs back. In `evaluation` nothing at all is asked of the server. `migrations` assumes no fairness.

In `evaluation`, `gateway_callers`, `reseed` and `reseed_solver` the processes end, and deadlock is
not checked: that they do not stop before is what `EvaluationEnds`, `CallersEnd` and
`EveryoneAnswered` say. `migrations` checks deadlock, with a step of its own for everybody being done.

## 4. Findings

1. **The cap can be passed by more than one** (`hint_cap`). The comment at
   `app/services/hint_service.py:149` accepts one extra hint; *n* requests at a time can add *n* - 1.
2. **A failed similarity query spoils the request** (`hint_retrieval_error`). The exception is
   swallowed ("Continuing without context") but the transaction stays aborted, and the INSERT
   after the LLM calls fails: 500.
3. **The RAG hook can fail a verify request** (`embed_hook`). If the statement that records a
   failed embedding fails too, the expired row goes back to the route, whose `row.id` then raises.
4. **A branch called impossible is reached** (`reseed_solver`). A hint request reads its verifier row
   and its solver row by two SELECTs; the seeding script may commit their deletion between them. The
   comment at `app/services/hint_service.py:134` relies on the foreign key, which does not relate two reads.

Seen while reading, in the models but not in a run of its own:

- The backfill script reads its batch once and updates by id, so a row that a verify request has
  settled meanwhile is processed again, and a vector may become `failed`; its docstring says that a run
  without flags "processes only embedding_status='pending' rows".
- A timeout of the LLM is answered 502 by `/solve`, as the stages turn `LLMTimeoutError` into
  `SolverError` before the route can see it; `docs/specs/step-02-solver.md:181` asks for 504. The test case
  route does answer 504.
- A hint request whose verifier row is deleted before its INSERT is answered 409 (please retry), not 404:
  every `IntegrityError` counts as a collision of indexes.
- The seeding script posts `/solve` without `entry_function`, which `SolverInput` requires: each variant
  fails with 422, also after `--delete-existing` has emptied the corpus.
- A builder's comment calls handcrafted expected values authoritative
  (`benchmark/_generate_via_api_p3.py:829`); the code takes the reference's value and counts the difference.
- A solver row whose code defines no function keeps NULL in `entry_function`; `/verify` then raises on it.
- `/solve` stores the name its client asked for (`app/agents/solver/agent.py:79`), the revision b1703d20c94b
  the first top-level function of the code: a downgrade and an upgrade may change the name of a row.
- The comment at `app/sandbox/base_runner.py:36` says that a student who prints the marker "still loses to the
  wrapper's marker (always emitted last)". A program that prints both markers and ends with 0 keeps the wrapper
  from printing any, and is judged by what it printed.
- The limit of `wait()` is the client's, and a lost connection is caught with it: a program that ended in time
  may be told that it timed out.
- A judge's answer without the key `leaks` counts as clean and leaves no error, though the comment at
  `benchmark/anti_leak_judge.py:110` has the errors recorded "so the report can show how many judge calls
  actually failed".
- Past diagnoses go into the prompt unfiltered: `filter_dangerous_hints` drops hints only, while
  `app/agents/hint/schemas.py:40` calls the retrieved context sanitized. A hint that was shipped although
  it leaks is quoted to the LLM as a prior hint, and a fallback hint is stored and quoted like a real one.
- `app/agents/hint/prompts.py:7` says that prior hints are text "the student has seen"; one whose refresh
  failed after the commit was answered 500.
- The docstring of `build_failure_text` calls the text capped; `problem_text` is not.
- A judge that cannot be asked lets a hint pass, by intent (`benchmark/anti_leak_judge.py:10`), and one
  problem that raises loses the results of all.
- `_p95` of 20 values is their maximum (`benchmark/aggregate.py:21`).
- A DeepSeek answer without choices raises `IndexError`, which neither the gateway nor a caller expects
  (`ProviderRaises`).

## 5. What is proved

Every theorem below is of a specification, for every value of its constants: any sessions, tests,
problems and variants, any finite number of requests, any cap, limit and pool, any number of
faults. What is assumed of the constants is in the ASSUMEs of the modules, which TLC evaluates in
the runs: finitely many requests, positive caps and sizes, finite sets of rows where a proof
counts them, that a request's new row is none of the first release, and for `AttemptFeedback` that a prompt lists no more inputs than the check looks at
(`_MAX_FAILED_INPUTS_IN_PROMPT` is 3, `_MAX_LEAK_CHECK_INPUTS` is 5).

| Module | Theorems |
|---|---|
| `HintSession_proofs` | `Invariance`, `TypeCorrect`, `HintsAreContiguous`, `CapOvershoot`, `ProvenanceIsHonest`, `SuccessDurability`, `RefusalsAreFree`, `RefusalsAreJustified`, `Refinement` |
| `RequestPool_proofs` | `PoolInvariance`, `PoolBound`, `PoolRefinement` |
| `EmbeddingBackfill_proofs` | `EmbeddingInvariance`, `AnswersAreTrue`, `FailuresOnly`, `RunsSettle` |
| `EvalClient_proofs` | `EvalInvariance`, `LevelsAreHonest`, `ReportAgrees` |
| `AttemptFeedback_proofs` | `RunInvariance`, `VerdictSoundness`, `TimeoutsHaveACause`, `RunCleansUp`, `FeedbackInvariance`, `AnswersHidden`, `LeaksAskedTwice` |
| `GatewayCallers_proofs` | `GatewayInvariance`, `SolveInvariance`, `RowsTellTheTruth`, `CallsAreBounded`, `EmittedAreUsable`, `RejectionsHaveACause`, `ReportsAreHonest`, `MetricsAdd`, `GatewayImplementsContract` |
| `CorpusReseed_proofs` | `ReseedInvariance`, `FailuresHaveACause`, `DeletionIsWhole` |
| `SchemaMigrations_proofs` | `RunsAreAllOrNothing`, `MigrationInvariance`, `EntryInvariance`, `SchemaMatches`, `EntriesFollow`, `FailuresHaveTheirCause` |

The arguments, each in the inductive invariant that stands at the end of its module:

- **`IInv` (HintSession).** `Contiguous` and `OvershootBound` are not inductive: a request may hold
  any index and any count when it comes to commit. `NumberingInv`: an index was computed from a
  count, and counts never fall, so it is at most one ahead of the table; a row awaiting its commit
  has an index that is neither in the table nor held by another. So the commit appends
  (`CommitIsNext`) and no other commit can take its index. `AdmissionInv`: `Count` plus the requests
  in flight is at most the cap less one plus the slots; a commit trades one for the other. For the
  refinement, the ledger is the texts by index, which `Contiguous` makes well defined.
- **`AttemptInv` and `AnswersInv`** add what a request has written, that its prompt is no newer than
  its count, and that a second collision takes two commits by others.
- **`PoolInv`.** Each request in flight is either up to date with the table or overtaken by a hint
  that was committed since it counted. One that is up to date has kept its connection
  (`CollidedInv`), so at most `PoolSize` are, and a hint overtakes at most the `PoolSize` - 1 others
  (`OvertakenInv`). Once the cap is reached nobody is admitted any more, and rows and requests in
  flight only trade (`CapInv`). `MaxHints - 1 + PoolSize` is no bound: who collides makes room.
- **`EmbeddingInv`.** Only failures that exist are locked or in a batch (`RowInv`, `BatchInv`); a row of
  a batch is still to come, being worked on, settled, or warned of, and what one writer settles the other may
  overwrite but not undo.
- **`RunInv`.** Only an expired or a broken wait leads to a kill (`TimeoutInv`); an exit code is that of
  a container that ended by itself (`VerdictInv`); the `finally` block knows what there is (`ContainerInv`,
  `FilesInv`).
- **`FeedbackInv`** adds `PromptInv`: the inputs a prompt lists are among those the check knows, and
  a second prompt has its warning. That nothing but inputs is ever said then follows by the closure
  of texts under repetition.
- **`GatewayInv`, `BudgetInv`.** What the present chat may have cost (`Spent`) is its attempts and those
  of the provider before; each caller counts its chats, and the n-th began with what n - 1 may cost
  (`Within`). **`SolveInv`**: each draft is run before the next step, and the row is the last step.
  **`BuildInv`**: what follows the reference run has only cases it passes. **`TallyInv`**: each case of the
  problems so far is in the dataset, counted as dropped, or at hand between the two runs of a problem;
  the dataset is counted as the set `Written` of (problem, case) pairs, to which a problem adds one
  block (`ProblemWritten`). **`ReportInv`**: what was seen as it happened (`foundClean`, `unsaid`,
  `foundFixing`, `unusable`) is what the records say plus the one judgment that is at hand and has no
  record yet; of a record that counts as clean nobody can say which of the two it was. The rest is that
  `HowMany` of disjoint kinds adds up (`RecordsAddUp`).
- **`ClientInv`.** The benchmark goes on while requests it no longer waits for may still write, so rows
  and records cannot be compared directly. `OwedInv` counts both sides: the rows of a session and its
  requests that may still make one (`Open`) are at most the records that are hints, those without an
  explanation, and the one that is awaited (`Owed`); each action moves one between these.
  `RecordInv` and `LaterInv`: a hint that is awaited was counted after those that are recorded, so its
  index is above theirs and never above the level. `SlotsInv`: requests at work are no more than were
  asked, so a slot is free when the loop asks.
- **`ReseedInv`.** A row refers to a row and an insert to one nobody deletes (`RequestInv`); what the
  statements have deleted leaves no child behind, and with each of them more of the plan is gone
  (`ScriptInv`).
- **`StampInv`.** Who has updated the version row holds it, and found its own version there.
- **`MigrationInv`.** `OnTheWay(table, t, todo, n)` says what a table looks like with the statements
  `todo` still to come of the revision that ends in version *n*: which columns it has, which are NOT
  NULL, which may still hold NULL. It is proved once for all scripts: `Rest` is the order that the
  statements of a revision keep (add, fill in, constrain; each column in one revision only), every
  rest of each of the fourteen scripts has it (`UpScripts`, `DownScripts`, `RestOfRest`), a statement
  of such a script is refused by no table that is on the way (`StatementSucceeds`) and takes it one
  statement on (`StatementGoesOn`). Of the database the invariant says that a table without a lock is
  that of the version (`TableInv`), one with a lock was found like that (`FoundAtVersion`) and has
  come as far as its run (`LockedOnTheWay`), and one the run has not locked is not changed by the revisions
  the run has behind it (`Untouched`), so that the commit may stamp the goal over all. `LockedOnTheWay` holds only of a
  table that was found in the version the run began from: a run reads the version without a lock, and
  when another one is committed before its first statement it goes on over tables it does not expect,
  until a statement or its stamp is refused. Nobody else sees what it does till then, and it cannot commit,
  because whoever has stamped began from the version that is there (`StampInv`). Requests and the
  deletion change rows only of tables nobody has locked, and none that a runner has still to read
  (`RequestInv`).
- **`EntryInv`.** `EntriesOnTheWay` relates the solver table as it is to the one its runner found: rows
  only go, an entry function that was there is as it was, one that came with the run is what the code
  defines as soon as no filling is left, and the column is then NOT NULL or some row lacks it. Since a
  commit shows what was locked and everything else shows what was found, each step of the committed
  table is one of `EntryFollowsCode`; and the column of a committed table is nullable only if a row
  lacks it or the script has deleted rows. TLC finds `MigrationInv` and `EntryInv` true in all states of
  the `migrations` run.

Model-checked only. Liveness under fairness and ENABLED are out of the prover's reach:
`EveryRequestAnswered`, `EveryoneFinishes`, `CallersEnd`, `RunEnds`, `EvaluationEnds`,
`EveryoneAnswered`.

## 6. What is not modelled

- Wording, logging, response schemas, dependency injection, health checks and the read endpoints (but
  for the hints of a session, which are the ledger of `HintSession`): no state changes, and no property
  here is about them. Of a prompt only what it says of the tests is modelled.
- `--limit` and `--dry-run` of the backfill script: they take fewer rows, or none.
- `--dry-run` of the seeding script and its refusal of a remote database: they change nothing.
- The text of a failure that is embedded and its cut to a number of characters, the ten words a
  judge must quote, the benchmark's rates and percentiles: arithmetic of one expression each, in
  reach of a unit test.
- Which texts match a forbidden phrase, and which failures are similar enough: free choices.
- Connections: the pre-ping and the disposal at shutdown; requests of the other endpoints only take and
  return connections.
- Indexes, CHECK constraints and the extension of the migrations; the columns of a CREATE TABLE are one;
  values that do not fit their column, such as a name of more than 128 characters.
- A judge's reason that begins with "judge_error" of itself.
- The problems that the data builders hold as literals, and the report writers: data and formatting.
- Resource limits of the sandboxes: the kernel's and the daemon's.

## 7. How the parts depend on one another

`HintSession` comes first: `RequestPool`, `EvalClient` and their proofs extend it, so a change of the
hint service is made there and its inductive invariant proved again before theirs. `SandboxRun` and
`AttemptFeedback`, `VerifySession` and `EmbeddingBackfill`, `LLMGateway` and its callers are built the
same way; `CorpusReseed` and `SchemaMigrations` stand alone and repeat of the requests only their
statements. What could be added: the solve and verify pipelines over the pool of `RequestPool` one by
one instead of as `others`, and several variants at a time in `EvalReport` under its semaphore.
