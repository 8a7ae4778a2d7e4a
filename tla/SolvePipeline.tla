--------------------------- MODULE SolvePipeline ---------------------------
(***************************************************************************)
(* POST /solve: the SolverAgent's stages (analyze, plan, code, sandbox, at *)
(* most one regeneration), SolverService.solve_and_persist and the route's *)
(* mapping of exceptions.  Solve requests share no state, so one slot that *)
(* serves one request after another shows them all.                        *)
(***************************************************************************)
EXTENDS LLMGateway, Sequences

VARIABLES
  stage,      \* the next step of the request, "idle" between two requests
  version,    \* how many times the code has been generated
  results,    \* the sandbox statuses so far, the last is sandbox_result
  retryUsed,  \* retry_used
  row,        \* the solver_sessions row the request has committed
  reply       \* the status code of the answer

vars == <<gatewayVars, stage, version, results, retryUsed, row, reply>>

\* Each LLM stage has its own chat() call, in this order.
ChatNumber == [analyze |-> 1, plan |-> 2, code |-> 3, code_retry |-> 4]
LLMStages == DOMAIN ChatNumber
Stages == LLMStages \cup {"idle", "sandbox", "insert", "commit", "refresh"}
Statuses == {"all_passed", "some_failed", "error", "timeout"}
Replies == {"none", "ok", "bad_gateway", "gateway_timeout", "error", "lost"}

SandboxResult == results[Len(results)]
ShouldRetry(status) == status \in {"some_failed", "error"}

\* _compute_confidence, in hundredths: what a short analysis (20), a plan of
\* one step (20) and code without "def " (30) leave of 100, then the caps.
Scores == {100, 80, 70, 60, 50, 30}
Capped(score, cap) == IF score < cap THEN score ELSE cap
Confidence(score, verified) ==
  IF ~verified THEN Capped(score, 40)
  ELSE IF retryUsed THEN Capped(score, 85)
  ELSE score

NoRow == [code |-> 0]
NewRow(score) ==
  LET verified == SandboxResult = "all_passed" IN
  [code |-> version, verified |-> verified, retryUsed |-> retryUsed,
   confidence |-> Confidence(score, verified)]

\* The except clauses of the route, in their order.
AnswerTo(exception) ==
  CASE exception = "LLMTimeoutError" -> "gateway_timeout"
    [] exception \in {"LLMError", "SolverError"} -> "bad_gateway"
    [] OTHER -> "error"

Answer(what) == stage' = "idle" /\ reply' = what
Raise(exception) == Answer(AnswerTo(exception))
Goto(step) == stage' = step /\ UNCHANGED reply

-----------------------------------------------------------------------------
Init ==
  /\ GatewayInit
  /\ stage = "idle"
  /\ version = 0
  /\ results = <<>>
  /\ retryUsed = FALSE
  /\ row = NoRow
  /\ reply = "none"

Submit ==
  /\ stage = "idle"
  /\ stage' = "analyze"
  /\ Forget
  /\ version' = 0
  /\ results' = <<>>
  /\ retryUsed' = FALSE
  /\ row' = NoRow
  /\ reply' = "none"

CallLLM ==
  /\ stage \in LLMStages
  /\ Ask \/ GatewayStep
  /\ UNCHANGED <<stage, version, results, retryUsed, row, reply>>

\* Each stage turns an LLMError of any class into a SolverError.
StageFails ==
  /\ stage \in LLMStages
  /\ chat \in LLMErrors
  /\ Raise("SolverError")
  /\ UNCHANGED <<gatewayVars, version, results, retryUsed, row>>

\* Any other exception goes through the agent, the service and the route.
StageRaises ==
  /\ stage \in LLMStages
  /\ chat = "raised"
  /\ Raise("other")
  /\ UNCHANGED <<gatewayVars, version, results, retryUsed, row>>

Analyze ==
  /\ stage = "analyze" /\ chat = "text"
  /\ Goto("plan")
  /\ HangUp
  /\ UNCHANGED <<version, results, retryUsed, row>>

\* The text may not be the JSON that was asked for.
ParsePlan ==
  /\ stage = "plan" /\ chat = "text"
  /\ \/ Goto("code") /\ HangUp
     \/ Raise("SolverError") /\ UNCHANGED gatewayVars
  /\ UNCHANGED <<version, results, retryUsed, row>>

\* Mutation: the second draft is not run.
TrustSecondDraft ==
  /\ stage \in {"code", "code_retry"} /\ chat = "text"
  /\ version' = version + 1
  /\ Goto(IF stage = "code" THEN "sandbox" ELSE "insert")
  /\ HangUp
  /\ UNCHANGED <<results, retryUsed, row>>

\* Nor need the code in it define a function.
ParseCode ==
  /\ stage \in {"code", "code_retry"} /\ chat = "text"
  /\ \/ version' = version + 1 /\ Goto("sandbox") /\ HangUp
     \/ Raise("SolverError") /\ UNCHANGED <<gatewayVars, version>>
  /\ UNCHANGED <<results, retryUsed, row>>

RunSandbox ==
  /\ stage = "sandbox"
  /\ \E status \in Statuses :
       /\ results' = Append(results, status)
       /\ \/ ShouldRetry(status) /\ ~retryUsed /\ Goto("code_retry") /\ retryUsed' = TRUE
          \/ ~(ShouldRetry(status) /\ ~retryUsed) /\ Goto("insert") /\ UNCHANGED retryUsed
  /\ UNCHANGED <<gatewayVars, version, row>>

InsertRow ==
  /\ stage = "insert"
  /\ Goto("commit")
  /\ UNCHANGED <<gatewayVars, version, results, retryUsed, row>>

CommitRow ==
  /\ stage = "commit"
  /\ \E score \in Scores : row' = NewRow(score)
  /\ Goto("refresh")
  /\ UNCHANGED <<gatewayVars, version, results, retryUsed>>

RefreshRow ==
  /\ stage = "refresh"
  /\ Answer("ok")
  /\ UNCHANGED <<gatewayVars, version, results, retryUsed, row>>

-----------------------------------------------------------------------------
\* The subprocess cannot be started or the database fails: 500.
RequestFails ==
  /\ stage \in {"sandbox", "insert", "commit", "refresh"}
  /\ Raise("other")
  /\ UNCHANGED <<gatewayVars, version, results, retryUsed, row>>

CommitUnacknowledged ==
  /\ stage = "commit"
  /\ \E score \in Scores : row' = NewRow(score)
  /\ Raise("other")
  /\ UNCHANGED <<gatewayVars, version, results, retryUsed>>

Crash ==
  /\ stage # "idle"
  /\ Answer("lost")
  /\ HangUp
  /\ UNCHANGED <<version, results, retryUsed, row>>

-----------------------------------------------------------------------------
Step ==
  \/ CallLLM
  \/ StageFails
  \/ StageRaises
  \/ Analyze
  \/ ParsePlan
  \/ ParseCode
  \/ RunSandbox
  \/ InsertRow
  \/ CommitRow
  \/ RefreshRow

Next == Submit \/ Step \/ RequestFails \/ CommitUnacknowledged \/ Crash

Spec == Init /\ [][Next]_vars

-----------------------------------------------------------------------------
RowType ==
  [code : 1..2, verified : BOOLEAN, retryUsed : BOOLEAN, confidence : 0..100]

TypeOK ==
  /\ GatewayTypeOK
  /\ stage \in Stages
  /\ version \in 0..2
  /\ results \in Seq(Statuses) /\ Len(results) \in 0..2
  /\ retryUsed \in BOOLEAN
  /\ row = NoRow \/ row \in RowType
  /\ reply \in Replies

\* A persisted solution was tested itself: the row holds the code of the last
\* sandbox run and not an earlier draft's verdict, it is called verified only
\* if that run passed, and its confidence never hides that it did not pass
\* (above 0.40) or passed only as a second draft (above 0.85).  A 200 names such
\* a row; a 502 has left nothing behind.
RowTellsTheTruth ==
  /\ row # NoRow =>
       /\ row.code = Len(results)
       /\ row.verified <=> SandboxResult = "all_passed"
       /\ row.retryUsed <=> Len(results) = 2
       /\ row.confidence > 40 => row.verified
       /\ row.confidence > 85 => ~row.retryUsed
  /\ reply = "ok" => row # NoRow
  /\ reply \in {"bad_gateway", "gateway_timeout"} => row = NoRow

\* Why: each draft is run before the next step, and the row is the last step.
SolveInv ==
  /\ TypeOK
  /\ stage \in {"analyze", "plan", "code"} => version = 0 /\ results = <<>> /\ ~retryUsed
  /\ stage = "sandbox" =>
       version = Len(results) + 1 /\ (retryUsed <=> Len(results) = 1) /\ Len(results) < 2
  /\ stage = "code_retry" => version = 1 /\ Len(results) = 1 /\ retryUsed
  /\ stage \in {"insert", "commit", "refresh"} =>
       version = Len(results) /\ version > 0 /\ (retryUsed <=> version = 2)
  /\ stage \notin {"idle", "refresh"} => row = NoRow
  /\ stage = "refresh" => row # NoRow
  /\ stage # "idle" => reply = "none"
  /\ RowTellsTheTruth
=============================================================================
