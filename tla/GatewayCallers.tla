--------------------------- MODULE GatewayCallers ---------------------------
(***************************************************************************)
(* The four programs that call LLMGateway.chat and act on how it ends: a   *)
(* solve request, the test case route with the dataset builder as its      *)
(* client, the variant generator, and the judges of the benchmark.  They   *)
(* share nothing, and the gateway keeps nothing between calls, so a        *)
(* behaviour is one of them.                                               *)
(***************************************************************************)
EXTENDS SolvePipeline, DatasetBuild, VariantGenerator, EvalReport

VARIABLE caller   \* which of them this behaviour is

solveVars == <<stage, version, results, retryUsed, row, reply>>
callersVars == <<vars, caseVars, buildVars, genVars, reportVars, caller>>

\* The generator's gateway never has a fallback (_build_gateway).
CallersInit ==
  /\ Init
  /\ CaseInit
  /\ BuildInit
  /\ GenInit
  /\ ReportInit
  /\ caller \in {"solver", "builder", "judges"} \cup IF fallbackOn THEN {} ELSE {"generator"}

Solving == caller = "solver" /\ UNCHANGED <<caseVars, buildVars, genVars, reportVars, caller>>
Building == caller = "builder" /\ UNCHANGED <<solveVars, genVars, reportVars, caller>>
Generating == caller = "generator" /\ UNCHANGED <<solveVars, caseVars, buildVars, reportVars, caller>>
Judging == caller = "judges" /\ UNCHANGED <<solveVars, caseVars, buildVars, genVars, caller>>

CallersNext ==
  \/ Solving /\ Next
  \/ Building /\ BuildStep
  \/ Generating /\ (StartGenerator \/ GenStep)
  \/ Judging /\ ReportStep

CallersSpec == CallersInit /\ [][CallersNext]_callersVars

\* Every provider call ends by its timeout and every sandbox run by its own; the
\* scripts are awaited to their end.  No client need give up waiting.
CallersFairSpec ==
  /\ CallersSpec
  /\ WF_callersVars(Solving /\ Step)
  /\ WF_callersVars(Building /\ BuildProgress)
  /\ WF_callersVars(Generating /\ (StartGenerator \/ GenStep))
  /\ WF_callersVars(Judging /\ ReportStep)

-----------------------------------------------------------------------------
\* The chats a caller has begun, the present one included.
Chats ==
  CASE caller = "solver" -> IF stage \in LLMStages THEN ChatNumber[stage] ELSE 4
    [] caller = "builder" -> caseAttempt
    [] caller = "generator" -> genAttempt
    [] caller = "judges" -> CASE evalStep = "leak" -> 1 [] evalStep = "helpful" -> 2 [] OTHER -> 0

\* One request never asks the providers more often than its chats and their
\* retries allow, however the failures fall and whatever its own retry is for:
\* 24 calls of a solve request, 12 for a set of cases, 6 for a set of variants,
\* 12 for the judges of a hint.
Providers == IF fallbackOn THEN 2 ELSE 1
CallBudget == Chats > 0 => calls <= Chats * Providers * MaxAttempts

\* What a chat may cost, and what the present one may have cost so far.
PerChat == IF fallbackOn THEN MaxAttempts + MaxAttempts ELSE MaxAttempts
Spent ==
  CASE chat = "idle" -> 0
    [] chat = "calling" -> attempt + (IF provider = "fallback" THEN MaxAttempts ELSE 0)
    [] OTHER -> PerChat

\* The n-th chat of a request began with what the chats before it have left.
Within(n) ==
  \/ n = 1 /\ calls <= Spent
  \/ n = 2 /\ calls <= PerChat + Spent
  \/ n = 3 /\ calls <= PerChat + PerChat + Spent
  \/ n = 4 /\ calls <= PerChat + PerChat + PerChat + Spent

Unasked == chat = "idle" /\ calls = 0

SolverBudget ==
  /\ stage \in LLMStages => Within(ChatNumber[stage])
  /\ stage = "sandbox" => chat = "idle"
  /\ stage = "sandbox" /\ ~retryUsed => Within(4)
  /\ calls <= PerChat + PerChat + PerChat + PerChat

\* Why the budget holds: no chat costs more than its attempts, and each caller
\* counts its chats.
BudgetInv ==
  /\ GatewayInv
  /\ caller \in {"solver", "builder", "generator", "judges"}
  /\ caseAttempt \in 0..2 /\ genAttempt \in 0..2
  /\ caller = "solver" => SolverBudget
  /\ caller = "builder" =>
       /\ IF caseAttempt = 0 THEN Unasked ELSE Within(caseAttempt)
       /\ buildStep # "await" => caseAttempt = 0
  /\ caller = "generator" => IF genAttempt = 0 THEN Unasked ELSE Within(genAttempt)
  /\ caller = "judges" =>
       CASE evalStep = "leak" -> Within(1)
         [] evalStep = "helpful" -> Within(2)
         [] OTHER -> Unasked

\* No chain of failures keeps a request or a script for ever, and the builder
\* writes its file whatever the API does; an evaluation ends, with its report or
\* without.
CallersEnd ==
  /\ stage # "idle" ~> stage = "idle"
  /\ caller = "builder" ~> buildStep = "ended"
  /\ caller = "generator" ~> genExit # "none"
  /\ caller = "judges" ~> evalStep \in {"written", "lost"}
=============================================================================
