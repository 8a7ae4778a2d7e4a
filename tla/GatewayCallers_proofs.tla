----------------------- MODULE GatewayCallers_proofs -----------------------
(***************************************************************************)
(* Proofs about GatewayCallers: for any number of attempts, of cases, of   *)
(* variants, of hints and any list of problems.                            *)
(***************************************************************************)
EXTENDS GatewayCallers, FiniteSetTheorems, TLAPS

USE DEF gatewayVars, vars, caseVars, buildVars, genVars, reportVars, seen, solveVars, callersVars

-----------------------------------------------------------------------------
(* The gateway. *)

\* A chat costs nothing but its attempts, and leaves the budget what it has spent.
LEMMA ChatStep ==
  ASSUME GatewayInv, Ask \/ GatewayStep
  PROVE  /\ GatewayInv'
         /\ fallbackOn' = fallbackOn
         /\ calls' + Spent <= calls + Spent'
<1> USE GatewayAssumption
<1>1. CASE Ask
  BY <1>1 DEF Ask, GatewayInv, GatewayTypeOK, Spent
<1>2. CASE ProviderAnswers
  BY <1>2 DEF ProviderAnswers, CallProvider, GatewayInv, GatewayTypeOK, Spent, PerChat
<1>3. ASSUME NEW failure \in Failures, RetryProvider(failure)
      PROVE  GatewayInv' /\ fallbackOn' = fallbackOn /\ calls' + Spent <= calls + Spent'
  BY <1>3 DEF RetryProvider, CallProvider, GatewayInv, GatewayTypeOK, Spent, PerChat
<1>4. ASSUME NEW failure \in Failures, FallBack(failure)
      PROVE  GatewayInv' /\ fallbackOn' = fallbackOn /\ calls' + Spent <= calls + Spent'
  BY <1>4 DEF FallBack, CallProvider, GatewayInv, GatewayTypeOK, Spent, PerChat
<1>5. ASSUME NEW failure \in Failures, GiveUp(failure)
      PROVE  GatewayInv' /\ fallbackOn' = fallbackOn /\ calls' + Spent <= calls + Spent'
  BY <1>5 DEF GiveUp, CallProvider, GatewayInv, GatewayTypeOK, Spent, PerChat, Failures, LLMErrors
<1>6. CASE ProviderRaises
  BY <1>6 DEF ProviderRaises, CallProvider, GatewayInv, GatewayTypeOK, Spent, PerChat
<1>7. QED
  BY <1>1, <1>2, <1>3, <1>4, <1>5, <1>6 DEF GatewayStep

LEMMA EndOfChat ==
  ASSUME GatewayInv, HangUp \/ Forget \/ UNCHANGED gatewayVars
  PROVE  GatewayInv' /\ fallbackOn' = fallbackOn
  BY GatewayAssumption DEF HangUp, Forget, GatewayInv, GatewayTypeOK

\* Whatever a caller does to the gateway is one of these.
GatewayUse == Ask \/ GatewayStep \/ HangUp \/ Forget \/ UNCHANGED gatewayVars

LEMMA GatewayUsed == [CallersNext]_callersVars => GatewayUse
<1> SUFFICES ASSUME [CallersNext]_callersVars PROVE GatewayUse
  OBVIOUS
<1>1. CASE Solving /\ Next
  BY <1>1
     DEF Next, Step, Submit, CallLLM, StageFails, StageRaises, Analyze, ParsePlan, ParseCode,
         RunSandbox, InsertRow, CommitRow, RefreshRow, RequestFails, CommitUnacknowledged, Crash,
         GatewayUse
<1>2. CASE Building /\ BuildStep
  BY <1>2
     DEF BuildStep, BuildProgress, NextProblem, PostCases, ServeCases, CaseStep, AskForCases,
         ParseCases, CaseAnswer, CasesFail, CasesRaise, ReceiveCases, SkipProblem, RunReference,
         ReferenceCut, RunVariant, WriteDataset, LoadDataset, ValidateProblem, EndValidation,
         GatewayUse
<1>3. CASE Generating /\ (StartGenerator \/ GenStep)
  BY <1>3
     DEF StartGenerator, GenStep, AskForVariants, TakeDraft, ChatFails, ChatRaises, GatewayUse
<1>4. CASE Judging /\ ReportStep
  BY <1>4
     DEF ReportStep, SolveProblem, VerifyProblem, FetchHint, AskJudge, JudgeLeak, JudgeHelpful,
         EndVariant, OthersEnd, WriteReport, RunRaises, GatewayUse
<1>5. CASE UNCHANGED callersVars
  BY <1>5 DEF GatewayUse
<1>6. QED
  BY <1>1, <1>2, <1>3, <1>4, <1>5 DEF CallersNext

LEMMA GatewayInvStep == GatewayInv /\ [CallersNext]_callersVars => GatewayInv' /\ fallbackOn' = fallbackOn
  BY GatewayUsed, ChatStep, EndOfChat DEF GatewayUse

LEMMA GatewayInvInit == CallersInit => GatewayInv
  BY GatewayAssumption DEF CallersInit, Init, GatewayInit, GatewayInv, GatewayTypeOK

-----------------------------------------------------------------------------
(* The solver: what it stores has been run. *)

\* Outside a solve request nothing of it changes.
LEMMA NotSolving ==
  [CallersNext]_callersVars => (Solving /\ Next) \/ UNCHANGED solveVars
  BY DEF CallersNext, Building, Generating, Judging

LEMMA SolveInvInit == CallersInit => SolveInv
<1> SUFFICES ASSUME CallersInit PROVE SolveInv
  OBVIOUS
<1>1. GatewayTypeOK
  BY GatewayInvInit DEF GatewayInv
<1>2. TypeOK
  <2>1. results \in Seq(Statuses) /\ Len(results) = 0
    BY DEF CallersInit, Init
  <2>2. /\ stage \in Stages /\ version \in 0..2
        /\ row = NoRow /\ reply \in Replies
    BY DEF CallersInit, Init, Stages, Replies
  <2>3. retryUsed \in BOOLEAN
    BY DEF CallersInit, Init
  <2>4. QED
    BY <1>1, <2>1, <2>2, <2>3 DEF TypeOK
<1>3. QED
  BY <1>2 DEF CallersInit, Init, SolveInv, RowTellsTheTruth

LEMMA RowIsNew ==
  ASSUME SolveInv, stage = "commit", NEW score \in Scores
  PROVE  LET r == NewRow(score)
         IN /\ r # NoRow
            /\ r \in RowType
            /\ r.code = Len(results)
            /\ r.verified <=> SandboxResult = "all_passed"
            /\ r.retryUsed <=> Len(results) = 2
            /\ r.confidence > 40 => r.verified
            /\ r.confidence > 85 => ~r.retryUsed
<1> DEFINE r == NewRow(score)
<1>1. /\ version \in 1..2 /\ version = Len(results) /\ (retryUsed <=> version = 2)
      /\ retryUsed \in BOOLEAN
  BY DEF SolveInv, TypeOK
<1>2. (SandboxResult = "all_passed") \in BOOLEAN
  OBVIOUS
<1>3. r.code = version /\ r.verified = (SandboxResult = "all_passed") /\ r.retryUsed = retryUsed
  BY DEF NewRow
<1>4. r.confidence = Confidence(score, SandboxResult = "all_passed")
  BY DEF NewRow
<1>5. /\ r.confidence \in 0..100
      /\ r.confidence > 40 => SandboxResult = "all_passed"
      /\ r.confidence > 85 => ~retryUsed
  BY <1>4 DEF Confidence, Capped, Scores
<1>6. r \in RowType
  BY <1>1, <1>2, <1>5 DEF RowType, NewRow
<1>7. r # NoRow
  BY <1>1, <1>3 DEF NoRow
<1>8. QED
  BY <1>1, <1>3, <1>5, <1>6, <1>7

LEMMA StageNames == LLMStages = {"analyze", "plan", "code", "code_retry"}
  BY DEF LLMStages, ChatNumber

LEMMA SolveInvStep == SolveInv /\ GatewayInv /\ [CallersNext]_callersVars => SolveInv'
<1> SUFFICES ASSUME SolveInv, GatewayInv, [CallersNext]_callersVars PROVE SolveInv'
  OBVIOUS
<1>1. GatewayTypeOK'
  BY GatewayInvStep DEF GatewayInv
<1>2. CASE Submit
  <2>1. results' \in Seq(Statuses) /\ Len(results') = 0
    BY <1>2 DEF Submit
  <2>2. /\ stage' \in Stages /\ version' \in 0..2
        /\ row' = NoRow /\ reply' \in Replies
    BY <1>2, StageNames DEF Submit, Stages, Replies
  <2>3. retryUsed' \in BOOLEAN
    BY <1>2 DEF Submit
  <2>4. TypeOK'
    BY <1>1, <2>1, <2>2, <2>3 DEF TypeOK
  <2>5. QED
    BY <1>2, <2>1, <2>4 DEF Submit, SolveInv, RowTellsTheTruth
<1>3. CASE CallLLM
  BY <1>1, <1>3 DEF CallLLM, SolveInv, TypeOK, RowTellsTheTruth, SandboxResult
<1>4. CASE StageFails \/ StageRaises
  BY <1>1, <1>4, StageNames
     DEF StageFails, StageRaises, Raise, Answer, AnswerTo, SolveInv, TypeOK, Stages, Replies,
         RowTellsTheTruth, SandboxResult
<1>5. CASE Analyze \/ ParsePlan
  BY <1>1, <1>5, StageNames
     DEF Analyze, ParsePlan, Goto, Raise, Answer, AnswerTo, SolveInv, TypeOK, Stages, Replies,
         RowTellsTheTruth, SandboxResult
<1>6. CASE ParseCode
  <2>1. /\ stage \in {"code", "code_retry"} /\ UNCHANGED <<results, retryUsed, row>>
        /\ TypeOK /\ row = NoRow /\ reply = "none"
    BY <1>6 DEF ParseCode, SolveInv
  <2>2. CASE version' = version + 1 /\ Goto("sandbox") /\ HangUp
    <3>1. version \in 0..1 /\ (stage = "code" => version = 0) /\ (stage = "code_retry" => version = 1)
      BY <2>1 DEF SolveInv
    <3>2. stage' = "sandbox" /\ version' \in 0..2 /\ reply' = reply
      BY <2>2, <3>1 DEF Goto
    <3>3. TypeOK'
      BY <1>1, <2>1, <3>2 DEF TypeOK, Stages
    <3>4. /\ version' = Len(results') + 1 /\ Len(results') < 2
          /\ retryUsed' <=> Len(results') = 1
      <4>1. results' = results /\ retryUsed' = retryUsed
        BY <2>1
      <4>2. CASE stage = "code"
        BY <2>2, <3>1, <4>1, <4>2 DEF SolveInv
      <4>3. CASE stage = "code_retry"
        <5>1. version = 1 /\ Len(results) = 1 /\ retryUsed
          BY <4>3 DEF SolveInv
        <5>2. version' = Len(results') + 1 /\ Len(results') = 1
          BY <2>2, <4>1, <5>1
        <5>3. retryUsed'
          BY <4>1, <5>1
        <5>4. QED
          BY <5>2, <5>3
      <4>4. QED
        BY <2>1, <4>2, <4>3
    <3>5. row' = NoRow /\ reply' = "none"
      BY <2>1, <3>2
    <3>6. RowTellsTheTruth'
      BY <3>2, <3>5 DEF RowTellsTheTruth
    <3>7. QED
      BY <3>2, <3>3, <3>4, <3>5, <3>6 DEF SolveInv
  <2>3. CASE Raise("SolverError") /\ UNCHANGED <<gatewayVars, version>>
    <3>1. stage' = "idle" /\ reply' \in Replies
      BY <2>3 DEF Raise, Answer, AnswerTo, Replies
    <3>2. TypeOK'
      BY <1>1, <2>1, <2>3, <3>1 DEF TypeOK, Stages
    <3>3. QED
      BY <1>6, <2>1, <2>3, <3>1, <3>2
         DEF SolveInv, RowTellsTheTruth, SandboxResult, Raise, Answer, AnswerTo
  <2>4. QED
    BY <1>6, <2>2, <2>3 DEF ParseCode
<1>7. CASE RunSandbox
  <2>1. PICK status \in Statuses :
          /\ results' = Append(results, status)
          /\ \/ Goto("code_retry") /\ retryUsed' = TRUE /\ ~retryUsed
             \/ Goto("insert") /\ UNCHANGED retryUsed
    BY <1>7 DEF RunSandbox
  <2>2. results' \in Seq(Statuses) /\ Len(results') = Len(results) + 1
    BY <2>1 DEF SolveInv, TypeOK
  <2>3. /\ stage = "sandbox" /\ stage' \in {"code_retry", "insert"} /\ reply' = reply
        /\ UNCHANGED <<version, row>>
    BY <1>7, <2>1 DEF RunSandbox, Goto
  <2>4. /\ version = Len(results) + 1 /\ (retryUsed <=> Len(results) = 1) /\ Len(results) < 2
        /\ row = NoRow /\ reply = "none" /\ retryUsed \in BOOLEAN /\ version \in 0..2
        /\ Len(results) \in 0..2
    BY <2>3 DEF SolveInv, TypeOK
  <2>5. TypeOK'
    BY <1>1, <2>1, <2>2, <2>3, <2>4, StageNames DEF Goto, TypeOK, Stages, Replies
  <2>6. QED
    BY <2>1, <2>2, <2>3, <2>4, <2>5 DEF Goto, SolveInv, RowTellsTheTruth
<1>8. CASE InsertRow \/ RefreshRow \/ RequestFails
  BY <1>1, <1>8, StageNames
     DEF InsertRow, RefreshRow, RequestFails, Goto, Raise, Answer, AnswerTo, SolveInv, TypeOK,
         Stages, Replies, RowTellsTheTruth, SandboxResult
<1>9. CASE CommitRow \/ CommitUnacknowledged
  <2>1. PICK score \in Scores : stage = "commit" /\ row' = NewRow(score)
    BY <1>9 DEF CommitRow, CommitUnacknowledged
  <2>2. UNCHANGED <<version, results, retryUsed, SandboxResult>>
    BY <1>9 DEF CommitRow, CommitUnacknowledged, SandboxResult
  <2>3. /\ row' # NoRow
        /\ row' \in RowType
        /\ row'.code = Len(results)
        /\ row'.verified <=> SandboxResult = "all_passed"
        /\ row'.retryUsed <=> Len(results) = 2
        /\ row'.confidence > 40 => row'.verified
        /\ row'.confidence > 85 => ~row'.retryUsed
    BY <2>1, RowIsNew
  <2>4. \/ stage' = "refresh" /\ reply' = reply
        \/ stage' = "idle" /\ reply' = "error"
    BY <1>9 DEF CommitRow, CommitUnacknowledged, Goto, Raise, Answer, AnswerTo
  <2>5. TypeOK'
    BY <1>1, <2>2, <2>3, <2>4, StageNames DEF SolveInv, TypeOK, Stages, Replies
  <2>6. RowTellsTheTruth'
    BY <2>1, <2>2, <2>3, <2>4 DEF SolveInv, RowTellsTheTruth
  <2>7. QED
    BY <2>1, <2>2, <2>3, <2>4, <2>5, <2>6 DEF SolveInv
<1>10. CASE Crash
  BY <1>1, <1>10, StageNames
     DEF Crash, Answer, SolveInv, TypeOK, Stages, Replies, RowTellsTheTruth, SandboxResult
<1>11. CASE UNCHANGED solveVars
  BY <1>1, <1>11 DEF SolveInv, TypeOK, RowTellsTheTruth, SandboxResult
<1>12. QED
  BY <1>2, <1>3, <1>4, <1>5, <1>6, <1>7, <1>8, <1>9, <1>10, <1>11, NotSolving DEF Next, Step

-----------------------------------------------------------------------------
(* What a request may cost. *)

\* The arithmetic of it, twice.
LEMMA Shift ==
  ASSUME NEW c \in Nat, NEW d \in Nat, NEW s \in Nat, NEW t \in Nat, NEW b \in Nat,
         d + s <= c + t, c <= b + s
  PROVE  d <= b + t
  OBVIOUS

LEMMA AtMostFour ==
  ASSUME NEW b \in Nat, NEW s \in Nat, NEW c \in Nat, s <= b,
         c <= s \/ c <= b + s \/ c <= b + b + s \/ c <= b + b + b + s
  PROVE  c <= b + b + b + b
  OBVIOUS

\* One step of a chat keeps its place in the budget, and the chat after it begins
\* where it ended.
LEMMA WithinKept ==
  ASSUME GatewayInv, Ask \/ GatewayStep, NEW n \in 1..4, Within(n)
  PROVE  Within(n)' /\ calls' <= PerChat + PerChat + PerChat + PerChat
<1> USE GatewayAssumption
<1>1. /\ GatewayInv' /\ fallbackOn' = fallbackOn /\ calls' + Spent <= calls + Spent'
  BY ChatStep
<1>2. PerChat' = PerChat /\ PerChat \in Nat
  BY <1>1 DEF PerChat
<1>3. Spent \in Nat
  BY DEF Spent, PerChat, GatewayInv, GatewayTypeOK
<1>4. Spent' \in Nat
  BY <1>1 DEF Spent, PerChat, GatewayInv, GatewayTypeOK
<1>5. calls \in Nat /\ calls' \in Nat
  BY <1>1 DEF GatewayInv, GatewayTypeOK
<1>6. ASSUME NEW before \in Nat, calls <= before + Spent PROVE calls' <= before + Spent'
  <2>1. calls' + Spent <= calls + Spent'
    BY <1>1
  <2>2. QED
    BY <1>3, <1>4, <1>5, <1>6, <2>1, Shift
<1>7. calls <= Spent => calls' <= Spent'
  <2>1. calls <= Spent => calls <= 0 + Spent
    BY <1>3
  <2>2. calls' <= 0 + Spent' => calls' <= Spent'
    BY <1>4
  <2>3. QED
    BY <1>6, <2>1, <2>2
<1>8. Within(n)'
  <2>1. CASE n = 1
    <3>1. calls <= Spent
      BY <2>1 DEF Within
    <3>2. QED
      BY <1>7, <2>1, <3>1 DEF Within
  <2>2. CASE n = 2
    BY <1>2, <1>6, <2>2 DEF Within
  <2>3. CASE n = 3
    BY <1>2, <1>6, <2>3 DEF Within
  <2>4. CASE n = 4
    BY <1>2, <1>6, <2>4 DEF Within
  <2>5. QED
    BY <2>1, <2>2, <2>3, <2>4
<1>9. calls' <= PerChat + PerChat + PerChat + PerChat
  <2>1. Spent' <= PerChat
    BY <1>1, <1>2 DEF Spent, PerChat, GatewayInv, GatewayTypeOK
  <2>2. \/ calls' <= Spent'
        \/ calls' <= PerChat + Spent'
        \/ calls' <= PerChat + PerChat + Spent'
        \/ calls' <= PerChat + PerChat + PerChat + Spent'
    BY <1>2, <1>8 DEF Within
  <2>3. QED
    BY <1>2, <1>4, <1>5, <2>1, <2>2, AtMostFour
<1>10. QED
  BY <1>8, <1>9

LEMMA WithinNext ==
  ASSUME GatewayInv, JudgeReturns, HangUp, NEW n \in 1..3, Within(n) PROVE Within(n + 1)'
<1> USE GatewayAssumption
<1>1. PerChat' = PerChat /\ PerChat \in Nat /\ calls \in Nat /\ calls' = calls
  BY DEF PerChat, HangUp, GatewayInv, GatewayTypeOK
<1>2. Spent = PerChat /\ Spent' = 0
  BY DEF Spent, JudgeReturns, HangUp
<1>3. QED
  BY <1>1, <1>2 DEF Within

LEMMA WithinAll ==
  ASSUME GatewayInv, NEW n \in 1..4, Within(n)
  PROVE  /\ n = 1 => calls <= PerChat
         /\ n = 2 => calls <= PerChat + PerChat
         /\ n = 3 => calls <= PerChat + PerChat + PerChat
         /\ calls <= PerChat + PerChat + PerChat + PerChat
<1> USE GatewayAssumption
<1>1. PerChat \in Nat /\ calls \in Nat
  BY DEF PerChat, GatewayInv, GatewayTypeOK
<1>2. Spent \in Nat /\ Spent <= PerChat
  BY DEF Spent, PerChat, GatewayInv, GatewayTypeOK
<1>3. QED
  BY <1>1, <1>2 DEF Within

\* A chat before any other of its request, and a request that is over.
LEMMA WithinFirst ==
  ASSUME GatewayInv, Unasked, GatewayInv', UNCHANGED gatewayVars PROVE Within(1)'
  BY DEF Within, Spent, Unasked

LEMMA AllForgotten == Forget => Unasked'
  BY DEF Forget, Unasked

LEMMA BudgetInit == CallersInit => BudgetInv
<1> SUFFICES ASSUME CallersInit PROVE BudgetInv
  OBVIOUS
<1>1. GatewayInv
  BY GatewayInvInit
<1>2. /\ chat = "idle" /\ calls = 0 /\ stage = "idle" /\ caseAttempt = 0 /\ genAttempt = 0
      /\ evalStep = "solve"
      /\ caller \in {"solver", "builder", "generator", "judges"}
  BY DEF CallersInit, Init, GatewayInit, CaseInit, GenInit, ReportInit
<1>3. PerChat \in Nat
  BY GatewayAssumption, <1>1 DEF PerChat, GatewayInv, GatewayTypeOK
<1>4. calls <= PerChat + PerChat + PerChat + PerChat
  BY <1>2, <1>3
<1>5. SolverBudget
  BY <1>2, <1>4, StageNames DEF SolverBudget
<1>6. QED
  BY <1>1, <1>2, <1>5 DEF BudgetInv, Unasked

\* The solver's part: each LLM stage has the chat of its number.
LEMMA SolverStep ==
  ASSUME BudgetInv, SolveInv, Solving, Next PROVE SolverBudget'
<1>1. /\ GatewayInv /\ GatewayInv' /\ fallbackOn' = fallbackOn /\ SolverBudget
  BY GatewayInvStep DEF BudgetInv, Solving, CallersNext
<1>2. PerChat \in Nat /\ PerChat' = PerChat /\ calls \in Nat
  BY GatewayAssumption, <1>1 DEF PerChat, GatewayInv, GatewayTypeOK
<1>3. CASE Submit
  <2>1. stage' = "analyze" /\ chat' = "idle" /\ calls' = 0
    BY <1>3 DEF Submit, Forget
  <2>2. Within(1)'
    BY <1>1, <2>1 DEF Within, Spent
  <2>3. QED
    BY <1>2, <2>1, <2>2, StageNames DEF SolverBudget, ChatNumber
<1>4. CASE CallLLM
  <2>1. stage \in LLMStages /\ stage' = stage /\ (Ask \/ GatewayStep)
    BY <1>4 DEF CallLLM
  <2>2. ChatNumber[stage] \in 1..4
    BY <2>1, StageNames DEF ChatNumber
  <2>3. PICK n \in 1..4 : n = ChatNumber[stage] /\ Within(n)
    BY <1>1, <2>1, <2>2 DEF SolverBudget
  <2>4. Within(n)' /\ calls' <= PerChat + PerChat + PerChat + PerChat
    BY <1>1, <2>1, <2>3, WithinKept
  <2>5. n = ChatNumber[stage']
    BY <2>1, <2>3
  <2>6. stage' \in LLMStages /\ stage' # "sandbox"
    BY <2>1, StageNames
  <2>7. QED
    BY <1>2, <2>4, <2>5, <2>6 DEF SolverBudget
<1>5. CASE StageFails \/ StageRaises \/ InsertRow \/ CommitRow \/ RefreshRow \/ RequestFails
           \/ CommitUnacknowledged
  <2>1. UNCHANGED gatewayVars /\ stage' \in {"idle", "commit", "refresh"}
    BY <1>5 DEF StageFails, StageRaises, InsertRow, CommitRow, RefreshRow, RequestFails,
                CommitUnacknowledged, Goto, Raise, Answer
  <2>2. QED
    BY <1>1, <1>2, <2>1, StageNames DEF SolverBudget
<1>6. CASE Analyze \/ ParsePlan \/ ParseCode
  <2>1. stage \in {"analyze", "plan", "code", "code_retry"} /\ chat = "text"
    BY <1>6 DEF Analyze, ParsePlan, ParseCode
  <2>2. CASE stage' = "idle" /\ UNCHANGED gatewayVars
    BY <1>1, <1>2, <2>2, StageNames DEF SolverBudget
  <2>3. CASE HangUp /\ stage' \in {"plan", "code", "sandbox"} /\ retryUsed' = retryUsed
    <3>1. JudgeReturns /\ calls' = calls /\ chat' = "idle"
      BY <2>1, <2>3 DEF JudgeReturns, HangUp
    <3>2. \/ stage = "analyze" /\ stage' = "plan"
          \/ stage = "plan" /\ stage' = "code"
          \/ stage = "code" /\ stage' = "sandbox"
          \/ stage = "code_retry" /\ stage' = "sandbox" /\ retryUsed
      BY <1>6, <2>3 DEF Analyze, ParsePlan, ParseCode, Goto, Raise, Answer, SolveInv
    <3>3. stage = "analyze" => Within(1)
      BY <1>1, StageNames DEF SolverBudget, ChatNumber
    <3>4. stage = "plan" => Within(2)
      BY <1>1, StageNames DEF SolverBudget, ChatNumber
    <3>5. stage = "code" => Within(3)
      BY <1>1, StageNames DEF SolverBudget, ChatNumber
    <3>6. calls' <= PerChat' + PerChat' + PerChat' + PerChat'
      BY <1>1, <1>2, <3>1 DEF SolverBudget
    <3>7. CASE stage = "analyze"
      BY <1>1, <2>3, <3>1, <3>2, <3>3, <3>6, <3>7, WithinNext, StageNames
         DEF SolverBudget, ChatNumber
    <3>8. CASE stage = "plan"
      BY <1>1, <2>3, <3>1, <3>2, <3>4, <3>6, <3>8, WithinNext, StageNames
         DEF SolverBudget, ChatNumber
    <3>9. CASE stage = "code"
      BY <1>1, <2>3, <3>1, <3>2, <3>5, <3>6, <3>9, WithinNext, StageNames DEF SolverBudget
    <3>10. CASE stage = "code_retry"
      BY <2>3, <3>1, <3>2, <3>6, <3>10, StageNames DEF SolverBudget
    <3>11. QED
      BY <3>2, <3>7, <3>8, <3>9, <3>10
  <2>4. QED
    BY <1>6, <2>2, <2>3 DEF Analyze, ParsePlan, ParseCode, Goto, Raise, Answer
<1>7. CASE RunSandbox
  <2>1. stage = "sandbox" /\ UNCHANGED gatewayVars
    BY <1>7 DEF RunSandbox
  <2>2. \/ stage' = "insert"
        \/ stage' = "code_retry" /\ ~retryUsed
    BY <1>7 DEF RunSandbox, Goto
  <2>3. CASE stage' = "code_retry"
    <3>1. Within(4)
      BY <1>1, <2>1, <2>2, <2>3 DEF SolverBudget
    <3>2. Within(4)'
      BY <2>1, <3>1, <1>2 DEF Within, Spent
    <3>3. QED
      BY <1>1, <1>2, <2>1, <2>3, <3>2, StageNames DEF SolverBudget, ChatNumber
  <2>4. CASE stage' = "insert"
    BY <1>1, <1>2, <2>1, <2>4, StageNames DEF SolverBudget
  <2>5. QED
    BY <2>2, <2>3, <2>4
<1>8. CASE Crash
  <2>1. stage' = "idle" /\ calls' = calls
    BY <1>8 DEF Crash, Answer, HangUp
  <2>2. QED
    BY <1>1, <1>2, <2>1, StageNames DEF SolverBudget
<1>9. QED
  BY <1>3, <1>4, <1>5, <1>6, <1>7, <1>8 DEF Next, Step

\* The second chat of the three callers that have two.
LEMMA SecondChat == ASSUME GatewayInv, JudgeReturns, HangUp, Within(1) PROVE Within(2)'
<1>1. Within(1 + 1)'
  BY WithinNext
<1>2. QED
  BY <1>1

LEMMA BuilderStep ==
  ASSUME BudgetInv, BuildStep, caller = "builder", GatewayInv'
  PROVE  /\ caseAttempt' \in 0..2
         /\ IF caseAttempt' = 0 THEN Unasked' ELSE Within(caseAttempt)'
         /\ buildStep' # "await" => caseAttempt' = 0
<1> DEFINE Counted == IF caseAttempt = 0 THEN Unasked ELSE Within(caseAttempt)
<1>1. /\ GatewayInv /\ caseAttempt \in 0..2
      /\ buildStep # "await" => caseAttempt = 0
      /\ caseAttempt = 0 => Unasked
      /\ caseAttempt > 0 => Within(caseAttempt)
  BY DEF BudgetInv
<1>2. ASSUME AskForCases PROVE Counted' /\ caseAttempt' \in 0..2
  <2>1. caseAttempt > 0 /\ caseAttempt' = caseAttempt /\ (Ask \/ GatewayStep)
    BY <1>2 DEF AskForCases
  <2>2. PICK n \in 1..4 : n = caseAttempt /\ Within(n)
    BY <1>1, <2>1
  <2>3. Within(n)'
    BY <1>1, <2>1, <2>2, WithinKept
  <2>4. QED
    BY <1>1, <2>1, <2>2, <2>3
<1>3. ASSUME ParseCases \/ CasesFail \/ CasesRaise PROVE Counted' /\ caseAttempt' \in 0..2
  <2>1. CASE caseAttempt' = 0 /\ Forget
    BY <2>1, AllForgotten
  <2>2. CASE caseAttempt = 1 /\ caseAttempt' = 2 /\ HangUp /\ chat = "text"
    <3>1. Within(2)'
      BY <1>1, <2>2, SecondChat DEF JudgeReturns
    <3>2. QED
      BY <2>2, <3>1
  <2>3. QED
    BY <1>3, <2>1, <2>2 DEF ParseCases, CasesFail, CasesRaise, CaseAnswer
<1>4. ASSUME caseAttempt' = 0, Forget PROVE Counted' /\ caseAttempt' \in 0..2
  BY <1>4, AllForgotten
<1>5. ASSUME UNCHANGED <<gatewayVars, caseVars>> PROVE Counted' /\ caseAttempt' \in 0..2
  <2>1. UNCHANGED <<caseAttempt, Unasked, chat, calls, attempt, provider, fallbackOn>>
    BY <1>5 DEF Unasked
  <2>2. caseAttempt > 0 => Within(caseAttempt)'
    BY <1>1, <2>1 DEF Within, Spent, PerChat
  <2>3. QED
    BY <1>1, <2>1, <2>2
<1>6. ASSUME PostCases, buildStep # "await" PROVE Counted' /\ caseAttempt' \in 0..2
  <2>1. Unasked /\ caseAttempt' = 1 /\ UNCHANGED gatewayVars
    BY <1>1, <1>6 DEF PostCases
  <2>2. QED
    BY <1>1, <2>1, WithinFirst
<1>7. Counted' /\ caseAttempt' \in 0..2
  BY <1>2, <1>3, <1>4, <1>5, <1>6
     DEF BuildStep, BuildProgress, NextProblem, ServeCases, CaseStep, ReceiveCases, CaseAnswer,
         SkipProblem, RunReference, ReferenceCut, RunVariant, WriteDataset, LoadDataset,
         ValidateProblem, EndValidation
<1>8. buildStep' # "await" => caseAttempt' = 0
  BY <1>1
     DEF BuildStep, BuildProgress, BuildGoto, NextProblem, ServeCases, ReceiveCases, CaseAnswer,
         SkipProblem, RunReference, ReferenceCut, RunVariant, WriteDataset, LoadDataset,
         ValidateProblem, EndValidation
<1>9. QED
  BY <1>7, <1>8

LEMMA GeneratorStep ==
  ASSUME BudgetInv, StartGenerator \/ GenStep, caller = "generator", GatewayInv'
  PROVE  /\ genAttempt' \in 0..2
         /\ IF genAttempt' = 0 THEN Unasked' ELSE Within(genAttempt)'
<1>1. /\ GatewayInv /\ genAttempt \in 0..2
      /\ genAttempt = 0 => Unasked
      /\ genAttempt > 0 => Within(genAttempt)
  BY DEF BudgetInv
<1>2. CASE StartGenerator
  <2>1. Unasked /\ genAttempt' = 1 /\ UNCHANGED gatewayVars
    BY <1>1, <1>2 DEF StartGenerator
  <2>2. QED
    BY <1>1, <2>1, WithinFirst
<1>3. CASE AskForVariants
  <2>1. genAttempt > 0 /\ genAttempt' = genAttempt /\ (Ask \/ GatewayStep)
    BY <1>3 DEF AskForVariants
  <2>2. PICK n \in 1..4 : n = genAttempt /\ Within(n)
    BY <1>1, <2>1
  <2>3. Within(n)'
    BY <1>1, <2>1, <2>2, WithinKept
  <2>4. QED
    BY <1>1, <2>1, <2>2, <2>3
<1>4. CASE genAttempt' = 0 /\ Forget
  BY <1>4, AllForgotten
<1>5. CASE genAttempt = 1 /\ genAttempt' = 2 /\ HangUp /\ chat \in {"text"} \cup LLMErrors
  <2>1. Within(2)'
    BY <1>1, <1>5, SecondChat DEF JudgeReturns, LLMErrors
  <2>2. QED
    BY <1>5, <2>1
<1>6. QED
  BY <1>2, <1>3, <1>4, <1>5 DEF GenStep, TakeDraft, ChatFails, ChatRaises, Exit

LEMMA JudgesStep ==
  ASSUME BudgetInv, ReportStep, caller = "judges", GatewayInv'
  PROVE  /\ evalStep' = "leak" => Within(1)'
         /\ evalStep' = "helpful" => Within(2)'
         /\ evalStep' \notin {"leak", "helpful"} => Unasked'
<1>1. /\ GatewayInv
      /\ evalStep = "leak" => Within(1)
      /\ evalStep = "helpful" => Within(2)
      /\ evalStep \notin {"leak", "helpful"} => Unasked
  BY DEF BudgetInv
<1>2. CASE AskJudge
  <2>1. /\ evalStep' = evalStep /\ (Ask \/ GatewayStep)
        /\ evalStep \in {"leak", "helpful"}
    BY <1>2 DEF AskJudge
  <2>2. CASE evalStep = "leak"
    BY <1>1, <2>1, <2>2, WithinKept
  <2>3. CASE evalStep = "helpful"
    BY <1>1, <2>1, <2>3, WithinKept
  <2>4. QED
    BY <2>1, <2>2, <2>3
<1>3. CASE JudgeLeak
  BY <1>1, <1>3, SecondChat DEF JudgeLeak
<1>4. CASE JudgeHelpful \/ RunRaises
  BY <1>4, AllForgotten DEF JudgeHelpful, RunRaises
<1>5. CASE evalStep = "hint" /\ evalStep' = "leak" /\ UNCHANGED gatewayVars
  BY <1>1, <1>5, WithinFirst
<1>6. CASE evalStep' = evalStep /\ UNCHANGED gatewayVars
  <2>1. UNCHANGED <<Unasked, chat, calls, attempt, provider, fallbackOn>>
    BY <1>6 DEF Unasked
  <2>2. QED
    BY <1>1, <1>6, <2>1 DEF Within, Spent, PerChat
<1>7. CASE /\ {evalStep, evalStep'} \cap {"leak", "helpful"} = {}
           /\ UNCHANGED gatewayVars
  BY <1>1, <1>7 DEF Unasked
<1>8. QED
  BY <1>2, <1>3, <1>4, <1>5, <1>6, <1>7
     DEF ReportStep, SolveProblem, VerifyProblem, FetchHint, EndVariant, OthersEnd, WriteReport

LEMMA BudgetStep == BudgetInv /\ SolveInv /\ [CallersNext]_callersVars => BudgetInv'
<1> SUFFICES ASSUME BudgetInv, SolveInv, [CallersNext]_callersVars PROVE BudgetInv'
  OBVIOUS
<1>1. GatewayInv'
  BY GatewayInvStep DEF BudgetInv
<1>2. CASE Solving /\ Next
  <2>1. SolverBudget'
    BY <1>2, SolverStep
  <2>2. QED
    BY <1>1, <1>2, <2>1 DEF BudgetInv, Solving
<1>3. CASE Building /\ BuildStep
  BY <1>1, <1>3, BuilderStep DEF BudgetInv, Building
<1>4. CASE Generating /\ (StartGenerator \/ GenStep)
  BY <1>1, <1>4, GeneratorStep DEF BudgetInv, Generating
<1>5. CASE Judging /\ ReportStep
  <2>1. /\ evalStep' = "leak" => Within(1)'
        /\ evalStep' = "helpful" => Within(2)'
        /\ evalStep' \notin {"leak", "helpful"} => Unasked'
    BY <1>1, <1>5, JudgesStep DEF Judging
  <2>2. QED
    BY <1>1, <1>5, <2>1 DEF BudgetInv, Judging
<1>6. CASE UNCHANGED callersVars
  BY <1>1, <1>6
     DEF BudgetInv, SolverBudget, Within, Spent, PerChat, Unasked
<1>7. QED
  BY <1>2, <1>3, <1>4, <1>5, <1>6 DEF CallersNext

\* The budget in the words of CallBudget.
LEMMA BudgetKept == BudgetInv => CallBudget
<1> SUFFICES ASSUME BudgetInv PROVE CallBudget
  OBVIOUS
<1>1. MaxAttempts \in Nat /\ GatewayInv /\ calls \in Nat /\ fallbackOn \in BOOLEAN
  BY GatewayAssumption DEF BudgetInv, GatewayInv, GatewayTypeOK
<1>2. ASSUME NEW n \in 1..4,
             \/ n = 1 /\ calls <= PerChat
             \/ n = 2 /\ calls <= PerChat + PerChat
             \/ n = 3 /\ calls <= PerChat + PerChat + PerChat
             \/ n = 4 /\ calls <= PerChat + PerChat + PerChat + PerChat
      PROVE  calls <= n * Providers * MaxAttempts
  <2>1. CASE fallbackOn
    BY <1>1, <1>2, <2>1 DEF PerChat, Providers
  <2>2. CASE ~fallbackOn
    BY <1>1, <1>2, <2>2 DEF PerChat, Providers
  <2>3. QED
    BY <1>1, <2>1, <2>2
<1>3. ASSUME NEW n \in 1..4, Within(n) PROVE calls <= n * Providers * MaxAttempts
  BY <1>1, <1>2, <1>3, WithinAll
<1>4. CASE caller = "solver"
  <2>1. stage \in LLMStages => ChatNumber[stage] \in 1..4
    BY StageNames DEF ChatNumber
  <2>2. QED
    BY <1>2, <1>3, <1>4, <2>1 DEF CallBudget, Chats, BudgetInv, SolverBudget
<1>5. CASE caller = "builder"
  BY <1>3, <1>5 DEF CallBudget, Chats, BudgetInv
<1>6. CASE caller = "generator"
  BY <1>3, <1>6 DEF CallBudget, Chats, BudgetInv
<1>7. CASE caller = "judges"
  BY <1>3, <1>7 DEF CallBudget, Chats, BudgetInv
<1>8. QED
  BY <1>4, <1>5, <1>6, <1>7 DEF BudgetInv

-----------------------------------------------------------------------------
(* The variant generator: what its file holds. *)

LEMMA GenInvInit == CallersInit => GenInv
  BY DEF CallersInit, GenInit, GenInv, EmittedIsUsable, NoFile, PartialFile

\* A valid draft is no empty or broken file, and all of it is usable.
LEMMA ValidDraft ==
  ASSUME NEW draft \in Drafts, Valid(draft)
  PROVE  /\ draft \notin {NoFile, PartialFile}
         /\ Len(draft) = NVariants
         /\ \A i \in DOMAIN draft : draft[i] = "usable"
<1>1. draft # NotAnObject /\ Len(draft) = NVariants /\ \A i \in 1..NVariants : draft[i] = "usable"
  BY DEF Valid
<1>2. draft \in Seq(VariantKinds)
  <2>1. PICK n \in Nat : draft \in [1..n -> VariantKinds]
    BY <1>1, VariantsAssumption DEF Drafts
  <2>2. QED
    BY <2>1
<1>3. DOMAIN draft = 1..NVariants
  BY <1>1, <1>2
<1>4. draft[1] = "usable"
  BY <1>1, VariantsAssumption
<1>5. draft # NoFile
  BY <1>1, VariantsAssumption DEF NoFile
<1>6. draft # PartialFile
  BY <1>4 DEF PartialFile
<1>7. QED
  BY <1>1, <1>3, <1>5, <1>6

LEMMA GenInvStep == GenInv /\ [CallersNext]_callersVars => GenInv'
<1> SUFFICES ASSUME GenInv, [CallersNext]_callersVars PROVE GenInv'
  OBVIOUS
<1>1. CASE StartGenerator \/ AskForVariants
  BY <1>1 DEF StartGenerator, AskForVariants, GenInv, EmittedIsUsable
<1>2. CASE ChatFails \/ ChatRaises
  BY <1>2 DEF ChatFails, ChatRaises, Exit, GenInv, EmittedIsUsable
<1>3. CASE TakeDraft
  <2>1. PICK draft \in Drafts :
          \/ Valid(draft) /\ genFile' = draft /\ Exit("ok")
          \/ genFile' \in {NoFile, PartialFile} /\ Exit("traceback")
          \/ genAttempt' = 2 /\ UNCHANGED <<genFile, genExit>>
          \/ Exit("failed") /\ UNCHANGED genFile
    BY <1>3 DEF TakeDraft
  <2>2. genExit = "none" /\ genFile = NoFile
    BY <1>3 DEF TakeDraft, GenInv
  <2>3. CASE Valid(draft) /\ genFile' = draft /\ Exit("ok")
    <3>1. /\ draft \notin {NoFile, PartialFile}
          /\ Len(draft) = NVariants
          /\ \A i \in DOMAIN draft : draft[i] = "usable"
      BY <2>3, ValidDraft
    <3>2. QED
      BY <2>3, <3>1 DEF Exit, GenInv, EmittedIsUsable
  <2>4. QED
    BY <2>1, <2>2, <2>3 DEF Exit, GenInv, EmittedIsUsable
<1>4. CASE UNCHANGED genVars
  BY <1>4 DEF GenInv, EmittedIsUsable
<1>5. QED
  BY <1>1, <1>2, <1>3, <1>4 DEF CallersNext, GenStep, Solving, Building, Judging

-----------------------------------------------------------------------------
(* The builder and its validator. *)

LEMMA BuildInvInit == CallersInit => BuildInv
<1> SUFFICES ASSUME CallersInit PROVE BuildInv
  OBVIOUS
<1>1. problems = <<>> /\ buildStep = "next" /\ verdict = "none"
  BY DEF CallersInit, BuildInit
<1>2. cut \in BOOLEAN
  BY DEF CallersInit, BuildInit
<1>3. ASSUME NEW S PROVE problems \in Seq(S)
  BY <1>1
<1>4. problems \in Seq({problems[i] : i \in DOMAIN problems})
  BY <1>3
<1>5. DOMAIN problems = {}
  BY <1>1
<1>6. QED
  BY <1>1, <1>2, <1>4, <1>5 DEF BuildInv, RejectedForCause

LEMMA BuildInvStep == BuildInv /\ [CallersNext]_callersVars => BuildInv'
<1> SUFFICES ASSUME BuildInv, [CallersNext]_callersVars PROVE BuildInv'
  OBVIOUS
<1>1. CASE NextProblem \/ ReceiveCases \/ SkipProblem
  BY <1>1 DEF NextProblem, ReceiveCases, SkipProblem, BuildGoto, BuildInv, RejectedForCause
<1>2. CASE RunReference \/ ReferenceCut
  <2>1. \/ cases' = [n \in 1..Cardinality(WithValue(cases)) |-> "repr"] /\ UNCHANGED cut
        \/ cases' = <<>> /\ cut' = TRUE
    BY <1>2 DEF RunReference, ReferenceCut, Corrected
  <2>2. \A i \in DOMAIN cases' : cases'[i] = "repr"
    <3>1. ASSUME NEW S, cases' = [n \in S |-> "repr"]
          PROVE  \A i \in DOMAIN cases' : cases'[i] = "repr"
      BY <3>1
    <3>2. ASSUME cases' = <<>> PROVE \A i \in DOMAIN cases' : cases'[i] = "repr"
      BY <3>2
    <3>3. QED
      BY <2>1, <3>1, <3>2
  <2>3. cut' \in BOOLEAN /\ (cut => cut')
    BY <2>1 DEF BuildInv
  <2>4. buildStep' = "variant" /\ UNCHANGED <<problems, verdict>>
    BY <1>2 DEF RunReference, ReferenceCut, BuildGoto
  <2>5. QED
    BY <2>2, <2>3, <2>4 DEF BuildInv, RejectedForCause
<1>3. CASE RunVariant
  <2>1. PICK failing \in 0..Len(cases), short \in BOOLEAN :
          /\ problems' = Append(problems, [cases |-> cases, failing |-> failing,
                                           expectedFailures |-> IF short THEN 0 ELSE failing])
          /\ cut' = (cut \/ short)
    BY <1>3 DEF RunVariant
  <2> DEFINE p == [cases |-> cases, failing |-> failing,
                   expectedFailures |-> IF short THEN 0 ELSE failing]
             Seen == {problems[i] : i \in DOMAIN problems}
  <2>2. problems \in Seq(Seen \cup {p})
    BY DEF BuildInv
  <2>3. /\ problems' \in Seq(Seen \cup {p})
        /\ Len(problems') = Len(problems) + 1
        /\ \A i \in 1..Len(problems) : problems'[i] = problems[i]
        /\ problems'[Len(problems) + 1] = p
    BY <2>1, <2>2
  <2>4. problems' \in Seq({problems'[i] : i \in DOMAIN problems'})
    BY <2>3
  <2>5. ~cut' => Reproducible(p)
    BY <1>3, <2>1 DEF RunVariant, BuildInv, Reproducible, ReferencePasses, Passing
  <2>6. ~cut' => \A i \in DOMAIN problems' : Reproducible(problems'[i])
    BY <2>1, <2>2, <2>3, <2>5 DEF BuildInv
  <2>7. buildStep' = "next" /\ verdict' = verdict /\ cut' \in BOOLEAN /\ (cut => cut')
    BY <1>3, <2>1 DEF RunVariant, BuildGoto, BuildInv
  <2>8. QED
    BY <2>4, <2>6, <2>7 DEF BuildInv, RejectedForCause
<1>4. CASE WriteDataset \/ LoadDataset \/ EndValidation
  BY <1>4 DEF WriteDataset, LoadDataset, EndValidation, BuildGoto, BuildInv, RejectedForCause
<1>5. CASE ValidateProblem
  <2>1. PICK refShort \in BOOLEAN, variantShort \in BOOLEAN :
          /\ LET q == problems[at]
                 ok == ~refShort /\ ReferencePasses(q)
                 drift == q.expectedFailures # (IF variantShort THEN 0 ELSE q.failing)
             IN verdict' = IF ok /\ ~drift THEN verdict ELSE "rejected"
          /\ cut' = (cut \/ refShort \/ variantShort)
    BY <1>5 DEF ValidateProblem
  <2>2. at \in DOMAIN problems
    BY <1>5 DEF ValidateProblem, BuildInv
  <2>3. ~cut' => verdict' = verdict
    BY <2>1, <2>2 DEF BuildInv, Reproducible
  <2>4. /\ buildStep = "check" /\ buildStep' = "check" /\ at' = at + 1
        /\ UNCHANGED <<cases, problems>> /\ cut' \in BOOLEAN /\ (cut => cut')
    BY <1>5, <2>1 DEF ValidateProblem, BuildInv
  <2>5. QED
    BY <2>3, <2>4 DEF BuildInv, RejectedForCause
<1>6. CASE UNCHANGED buildVars
  BY <1>6 DEF BuildInv, RejectedForCause
<1>7. QED
  BY <1>1, <1>2, <1>3, <1>4, <1>5, <1>6
     DEF CallersNext, BuildStep, BuildProgress, ServeCases, Solving, Generating, Judging

-----------------------------------------------------------------------------
(* Counting records. *)

LEMMA DisjointSum ==
  ASSUME NEW S, NEW T, IsFiniteSet(S), IsFiniteSet(T), S \cap T = {}
  PROVE  /\ IsFiniteSet(S \cup T)
         /\ Cardinality(S \cup T) = Cardinality(S) + Cardinality(T)
<1>1. Cardinality(S) \in Nat /\ Cardinality(T) \in Nat /\ Cardinality(S \cap T) = 0
  BY FS_CardinalityType, FS_EmptySet
<1>2. /\ IsFiniteSet(S \cup T)
      /\ Cardinality(S \cup T) = Cardinality(S) + Cardinality(T) - Cardinality(S \cap T)
  BY FS_Union
<1>3. QED
  BY <1>1, <1>2

\* The places in a list that HowMany counts.
Places(seq, kinds) == {i \in DOMAIN seq : seq[i] \in kinds}

LEMMA HowManyType ==
  ASSUME NEW S, NEW seq \in Seq(S), NEW kinds
  PROVE  /\ IsFiniteSet(Places(seq, kinds))
         /\ HowMany(seq, kinds) = Cardinality(Places(seq, kinds))
         /\ HowMany(seq, kinds) \in Nat
<1>1. DOMAIN seq = 1..Len(seq) /\ Len(seq) \in Nat
  OBVIOUS
<1>2. IsFiniteSet(DOMAIN seq)
  BY <1>1, FS_Interval
<1>3. IsFiniteSet(Places(seq, kinds))
  BY <1>2, FS_Subset DEF Places
<1>4. QED
  BY <1>3, FS_CardinalityType DEF HowMany, Places

LEMMA HowManyAppended ==
  ASSUME NEW S, NEW seq \in Seq(S), NEW x \in S, NEW kinds
  PROVE  HowMany(Append(seq, x), kinds) = HowMany(seq, kinds) + IF x \in kinds THEN 1 ELSE 0
<1>1. PICK n \in Nat : n = Len(seq)
  OBVIOUS
<1>2. /\ Append(seq, x) \in Seq(S) /\ DOMAIN Append(seq, x) = 1..(n + 1) /\ DOMAIN seq = 1..n
      /\ Append(seq, x)[n + 1] = x /\ \A i \in 1..n : Append(seq, x)[i] = seq[i]
  BY <1>1
<1>3. Places(Append(seq, x), kinds) =
        IF x \in kinds THEN Places(seq, kinds) \cup {n + 1} ELSE Places(seq, kinds)
  BY <1>2 DEF Places
<1>4. n + 1 \notin Places(seq, kinds)
  BY <1>2 DEF Places
<1>5. /\ IsFiniteSet(Places(seq, kinds)) /\ HowMany(seq, kinds) \in Nat
      /\ HowMany(seq, kinds) = Cardinality(Places(seq, kinds))
      /\ HowMany(Append(seq, x), kinds) = Cardinality(Places(Append(seq, x), kinds))
  BY <1>2, HowManyType
<1>6. Cardinality(Places(seq, kinds) \cup {n + 1}) = Cardinality(Places(seq, kinds)) + 1
  BY <1>4, <1>5, FS_AddElement
<1>7. QED
  BY <1>3, <1>5, <1>6

LEMMA HowManyOfBoth ==
  ASSUME NEW S, NEW seq \in Seq(S), NEW K, NEW L, K \cap L = {}
  PROVE  HowMany(seq, K \cup L) = HowMany(seq, K) + HowMany(seq, L)
<1>1. /\ Places(seq, K \cup L) = Places(seq, K) \cup Places(seq, L)
      /\ Places(seq, K) \cap Places(seq, L) = {}
  BY DEF Places
<1>2. /\ IsFiniteSet(Places(seq, K)) /\ IsFiniteSet(Places(seq, L))
      /\ HowMany(seq, K) = Cardinality(Places(seq, K))
      /\ HowMany(seq, L) = Cardinality(Places(seq, L))
      /\ HowMany(seq, K \cup L) = Cardinality(Places(seq, K \cup L))
  BY HowManyType
<1>3. Cardinality(Places(seq, K) \cup Places(seq, L)) =
        Cardinality(Places(seq, K)) + Cardinality(Places(seq, L))
  BY <1>1, <1>2, DisjointSum
<1>4. QED
  BY <1>1, <1>2, <1>3

LEMMA HowManyMore ==
  ASSUME NEW S, NEW seq \in Seq(S), NEW K, NEW L, K \subseteq L
  PROVE  HowMany(seq, K) <= HowMany(seq, L)
<1>1. Places(seq, K) \subseteq Places(seq, L)
  BY DEF Places
<1>2. QED
  BY <1>1, HowManyType, FS_Subset

LEMMA HowManyInAll ==
  ASSUME NEW S, NEW seq \in Seq(S), NEW K, S \subseteq K
  PROVE  HowMany(seq, K) = Len(seq)
<1>1. PICK n \in Nat : n = Len(seq)
  OBVIOUS
<1>2. Places(seq, K) = 1..n
  BY <1>1 DEF Places
<1>3. Cardinality(1..n) = n
  BY FS_Interval
<1>4. HowMany(seq, K) = Cardinality(Places(seq, K))
  BY HowManyType
<1>5. QED
  BY <1>1, <1>2, <1>3, <1>4

LEMMA HowManyOfNone ==
  ASSUME NEW K
  PROVE  HowMany(<<>>, K) = 0
  BY FS_EmptySet DEF HowMany

-----------------------------------------------------------------------------
(* The report of the benchmark. *)

Hints(phrases, leaks, helps) == HowMany(hints, Evaluated(phrases, leaks, helps))
Hinted == Evaluated(BOOLEAN, LeakFindings, HelpFindings)

LEMMA ReportInvInit == CallersInit => ReportInv
<1> SUFFICES ASSUME CallersInit PROVE ReportInv
  OBVIOUS
<1>1. /\ evalStep = "solve" /\ checks = <<>> /\ hints = <<>>
      /\ foundClean = 0 /\ unsaid = 0 /\ foundFixing = 0 /\ unusable = 0
  BY DEF CallersInit, ReportInit
<1>2. \A K : HowMany(hints, K) = 0
  BY <1>1, HowManyOfNone
<1>3. \A S : <<>> \in Seq(S)
  OBVIOUS
<1>4. QED
  BY <1>1, <1>2, <1>3 DEF ReportInv, AtHand, One

\* A judged hint gets its record with what was at hand of it.
LEMMA HintRecorded ==
  ASSUME ReportInv, JudgeHelpful
  PROVE  ReportInv'
<1>1. PICK finding \in HelpFindings :
        /\ hints' = Append(hints, [success |-> TRUE, phrase |-> audit.phrase,
                                   leak |-> audit.leak, helpful |-> finding])
        /\ foundFixing' = foundFixing + IF finding = "fixes" THEN 1 ELSE 0
        /\ unusable' = unusable + IF finding = "judge_error" THEN 1 ELSE 0
  <2>1. PICK said \in Sayings({"fixes", "useless"}) :
          /\ hints' = Append(hints, [success |-> TRUE, phrase |-> audit.phrase,
                                     leak |-> audit.leak,
                                     helpful |-> IF said = "unsaid" THEN "useless" ELSE said])
          /\ foundFixing' = foundFixing + One(said = "fixes")
          /\ unusable' = unusable + One(said = "judge_error")
    BY DEF JudgeHelpful
  <2> DEFINE finding == IF said = "unsaid" THEN "useless" ELSE said
  <2>2. /\ finding \in HelpFindings
        /\ said = "fixes" <=> finding = "fixes"
        /\ said = "judge_error" <=> finding = "judge_error"
    BY DEF Sayings, HelpFindings
  <2>3. QED
    BY <2>1, <2>2 DEF One
<1> DEFINE h == [success |-> TRUE, phrase |-> audit.phrase,
                 leak |-> audit.leak, helpful |-> finding]
           Records == Hinted \cup {HintFailed}
<1>2. /\ evalStep = "helpful" /\ evalStep' = "hint"
      /\ UNCHANGED <<checks, foundClean, unsaid>>
  BY DEF JudgeHelpful
<1>3. audit.phrase \in BOOLEAN /\ audit.leak \in LeakFindings
  BY <1>2 DEF ReportInv
<1>4. h \in Hinted
  BY <1>3 DEF Hinted, Evaluated
<1>5. hints \in Seq(Records) /\ hints' = Append(hints, h) /\ checks \in Seq(Checks)
  BY <1>1 DEF ReportInv, Hinted
<1>6. ASSUME NEW K
      PROVE  HowMany(hints', K) = HowMany(hints, K) + IF h \in K THEN 1 ELSE 0
  BY <1>4, <1>5, HowManyAppended
<1>7. /\ h \in Evaluated({TRUE}, {"clean"}, HelpFindings) <=>
           audit.phrase /\ audit.leak = "clean"
      /\ h \in Evaluated(BOOLEAN, {"judge_error"}, HelpFindings) <=> audit.leak = "judge_error"
      /\ h \in Evaluated(BOOLEAN, LeakFindings, {"judge_error"}) <=> finding = "judge_error"
      /\ h \in Evaluated(BOOLEAN, LeakFindings, {"fixes"}) <=> finding = "fixes"
  BY <1>3 DEF Evaluated
<1>8. \A K : HowMany(hints, K) \in Nat
  BY <1>5, HowManyType
<1>9. foundClean' + unsaid' = HowMany(hints', Evaluated({TRUE}, {"clean"}, HelpFindings))
  <2>1. foundClean + unsaid = HowMany(hints, Evaluated({TRUE}, {"clean"}, HelpFindings)) +
                       IF audit.phrase /\ audit.leak = "clean" THEN 1 ELSE 0
    BY <1>2 DEF ReportInv, AtHand, One
  <2>2. QED
    BY <1>2, <1>6, <1>7, <2>1
<1>10. unusable' = HowMany(hints', Evaluated(BOOLEAN, {"judge_error"}, HelpFindings)) +
                     HowMany(hints', Evaluated(BOOLEAN, LeakFindings, {"judge_error"}))
  <2>1. unusable = HowMany(hints, Evaluated(BOOLEAN, {"judge_error"}, HelpFindings)) +
                     HowMany(hints, Evaluated(BOOLEAN, LeakFindings, {"judge_error"})) +
                     IF audit.leak = "judge_error" THEN 1 ELSE 0
    BY <1>2 DEF ReportInv, AtHand, One
  <2>2. /\ HowMany(hints', Evaluated(BOOLEAN, {"judge_error"}, HelpFindings)) =
             HowMany(hints, Evaluated(BOOLEAN, {"judge_error"}, HelpFindings)) +
               IF audit.leak = "judge_error" THEN 1 ELSE 0
        /\ HowMany(hints', Evaluated(BOOLEAN, LeakFindings, {"judge_error"})) =
             HowMany(hints, Evaluated(BOOLEAN, LeakFindings, {"judge_error"})) +
               IF finding = "judge_error" THEN 1 ELSE 0
    BY <1>6, <1>7
  <2>3. /\ HowMany(hints, Evaluated(BOOLEAN, {"judge_error"}, HelpFindings)) \in Nat
        /\ HowMany(hints, Evaluated(BOOLEAN, LeakFindings, {"judge_error"})) \in Nat
    BY <1>8
  <2>4. QED
    BY <1>1, <2>1, <2>2, <2>3
<1>11. hints' \in Seq(Records)
  BY <1>4, <1>5
<1>12. \A K : HowMany(hints', K) \in Nat
  BY <1>11, HowManyType
<1>13. /\ AtHand(audit.phrase /\ audit.leak = "clean")' = 0
       /\ AtHand(audit.leak = "judge_error")' = 0
  BY <1>2 DEF AtHand, One
<1>14. foundFixing' = HowMany(hints', Evaluated(BOOLEAN, LeakFindings, {"fixes"}))
  <2>1. foundFixing = HowMany(hints, Evaluated(BOOLEAN, LeakFindings, {"fixes"}))
    BY <1>2 DEF ReportInv
  <2>2. QED
    BY <1>1, <1>6, <1>7, <2>1
<1>15. /\ foundClean' + unsaid' = HowMany(hints', Evaluated({TRUE}, {"clean"}, HelpFindings)) +
                           AtHand(audit.phrase /\ audit.leak = "clean")'
       /\ unusable' = HowMany(hints', Evaluated(BOOLEAN, {"judge_error"}, HelpFindings)) +
                         HowMany(hints', Evaluated(BOOLEAN, LeakFindings, {"judge_error"})) +
                         AtHand(audit.leak = "judge_error")'
  BY <1>9, <1>10, <1>12, <1>13
<1>16. foundClean' \in Nat /\ unsaid' \in Nat
  BY <1>2 DEF ReportInv
<1>17. QED
  BY <1>2, <1>5, <1>11, <1>15, <1>16, <1>14 DEF ReportInv, Hinted

LEMMA ReportInvStep == ReportInv /\ [CallersNext]_callersVars => ReportInv'
<1> SUFFICES ASSUME ReportInv, [CallersNext]_callersVars PROVE ReportInv'
  OBVIOUS
<1>1. CASE JudgeHelpful
  BY <1>1, HintRecorded
<1>2. ASSUME JudgeLeak PROVE ReportInv'
  <2>1. PICK finding \in LeakFindings :
          /\ audit' = [phrase |-> audit.phrase, leak |-> finding]
          /\ foundClean' \in Nat /\ unsaid' \in Nat
          /\ foundClean' + unsaid' =
               foundClean + unsaid + IF audit.phrase /\ finding = "clean" THEN 1 ELSE 0
          /\ unusable' = unusable + IF finding = "judge_error" THEN 1 ELSE 0
    <3>1. PICK said \in Sayings({"clean", "leaks"}) :
            /\ audit' = [phrase |-> audit.phrase, leak |-> IF said = "unsaid" THEN "clean" ELSE said]
            /\ foundClean' = foundClean + One(audit.phrase /\ said = "clean")
            /\ unsaid' = unsaid + One(audit.phrase /\ said = "unsaid")
            /\ unusable' = unusable + One(said = "judge_error")
      BY <1>2 DEF JudgeLeak
    <3> DEFINE finding == IF said = "unsaid" THEN "clean" ELSE said
    <3>2. /\ finding \in LeakFindings
          /\ finding = "clean" <=> said = "clean" \/ said = "unsaid"
          /\ said = "judge_error" <=> finding = "judge_error"
      BY DEF Sayings, LeakFindings
    <3>3. foundClean \in Nat /\ unsaid \in Nat
      BY DEF ReportInv
    <3>4. foundClean' + unsaid' =
            foundClean + unsaid + IF audit.phrase /\ finding = "clean" THEN 1 ELSE 0
      BY <3>1, <3>2, <3>3 DEF One
    <3>5. QED
      BY <3>1, <3>2, <3>3, <3>4 DEF One
  <2>2. /\ evalStep = "leak" /\ evalStep' = "helpful"
        /\ UNCHANGED <<checks, hints, others, foundFixing>>
        /\ audit \in [phrase : BOOLEAN]
    BY <1>2 DEF JudgeLeak, ReportInv
  <2>3. audit' \in [phrase : BOOLEAN, leak : LeakFindings]
    BY <2>1, <2>2
  <2>4. audit'.phrase = audit.phrase /\ audit'.leak = finding
    BY <2>1
  <2>5. \A K : HowMany(hints, K) \in Nat
    BY HowManyType DEF ReportInv
  <2>6. foundClean + unsaid = HowMany(hints, Evaluated({TRUE}, {"clean"}, HelpFindings)) + 0
    BY <2>2 DEF ReportInv, AtHand, One
  <2>7. foundClean' + unsaid' = HowMany(hints, Evaluated({TRUE}, {"clean"}, HelpFindings)) +
                                  AtHand(audit.phrase /\ audit.leak = "clean")'
    BY <2>1, <2>2, <2>4, <2>5, <2>6 DEF AtHand, One
  <2>8. unusable' = HowMany(hints, Evaluated(BOOLEAN, {"judge_error"}, HelpFindings)) +
                      HowMany(hints, Evaluated(BOOLEAN, LeakFindings, {"judge_error"})) +
                      AtHand(audit.leak = "judge_error")'
    BY <2>1, <2>2, <2>4, <2>5 DEF ReportInv, AtHand, One
  <2>9. QED
    BY <2>1, <2>2, <2>3, <2>7, <2>8 DEF ReportInv
<1>3. ASSUME evalStep \notin {"helpful", "lost", "written"},
             evalStep' \notin {"helpful", "lost", "written"},
             UNCHANGED <<hints, seen>>,
             checks' \in Seq(Checks),
             evalStep' = "leak" => audit' \in [phrase : BOOLEAN]
      PROVE  ReportInv'
  BY <1>3 DEF ReportInv, AtHand
<1>4. CASE FetchHint
  <2>1. evalStep = "hint" /\ UNCHANGED <<checks, seen>>
    BY <1>4 DEF FetchHint
  <2>2. CASE hints' = Append(hints, HintFailed) /\ UNCHANGED <<evalStep, audit>>
    <3>1. /\ hints \in Seq(Hinted \cup {HintFailed})
          /\ hints' \in Seq(Hinted \cup {HintFailed})
      BY <2>2 DEF ReportInv, Hinted
    <3>2. ASSUME NEW K, HintFailed \notin K PROVE HowMany(hints', K) = HowMany(hints, K)
      BY <2>2, <3>1, <3>2, HowManyAppended, HowManyType
    <3>3. \A P, L, H : HintFailed \notin Evaluated(P, L, H)
      BY DEF HintFailed, Evaluated
    <3>4. \A P, L, H :
            HowMany(hints', Evaluated(P, L, H)) = HowMany(hints, Evaluated(P, L, H))
      BY <3>2, <3>3
    <3>5. QED
      BY <2>1, <2>2, <3>1, <3>4 DEF ReportInv, AtHand, Hinted
  <2>3. CASE audit' \in [phrase : BOOLEAN] /\ evalStep' = "leak" /\ UNCHANGED hints
    BY <1>3, <2>1, <2>3 DEF ReportInv
  <2>4. QED
    BY <1>4, <2>2, <2>3 DEF FetchHint
<1>5. CASE VerifyProblem
  <2>1. PICK check \in Checks :
          /\ checks' = Append(checks, check)
          /\ evalStep' = CASE evalStep = "reference" -> "variant"
                           [] check = "failed" -> "gather"
                           [] OTHER -> "hint"
    BY <1>5 DEF VerifyProblem
  <2>2. checks' \in Seq(Checks)
    BY <2>1 DEF ReportInv
  <2>3. evalStep' \in {"variant", "gather", "hint"}
    BY <2>1
  <2>4. evalStep \in {"reference", "variant"} /\ UNCHANGED <<hints, seen>>
    BY <1>5 DEF VerifyProblem
  <2>5. QED
    BY <1>3, <2>2, <2>3, <2>4
<1>6. CASE SolveProblem \/ EndVariant
  <2>1. /\ evalStep \in {"solve", "hint"} /\ evalStep' \in {"reference", "gather"}
        /\ UNCHANGED <<checks, hints, seen>>
    BY <1>6 DEF SolveProblem, EndVariant
  <2>2. QED
    BY <1>3, <2>1 DEF ReportInv
<1>7. CASE OthersEnd
  <2>1. /\ UNCHANGED <<evalStep, checks, hints, audit, report, seen>>
        /\ others' = "done"
    BY <1>7 DEF OthersEnd
  <2>2. Aggregate' = Aggregate
    BY <2>1 DEF Aggregate, HowMany
  <2>3. QED
    BY <2>1, <2>2 DEF ReportInv, AtHand
<1>8. CASE RunRaises
  BY <1>8 DEF RunRaises, ReportInv
<1>9. CASE WriteReport
  <2>1. /\ evalStep = "gather" /\ evalStep' = "written" /\ others = "done"
        /\ UNCHANGED <<checks, hints, audit, others, seen>>
        /\ report' = Aggregate
    BY <1>9 DEF WriteReport
  <2>2. Aggregate' = Aggregate
    BY <2>1 DEF Aggregate, HowMany
  <2>3. QED
    BY <2>1, <2>2 DEF ReportInv, AtHand
<1>10. CASE UNCHANGED reportVars
  <2>1. Aggregate' = Aggregate
    BY <1>10 DEF Aggregate, HowMany
  <2>2. QED
    BY <1>10, <2>1 DEF ReportInv, AtHand
<1>11. QED
  BY <1>1, <1>2, <1>4, <1>5, <1>6, <1>7, <1>8, <1>9, <1>10
     DEF CallersNext, ReportStep, AskJudge, Solving, Building, Generating

\* What the records say of one another.
LEMMA RecordsAddUp ==
  ASSUME ReportInv
  PROVE  /\ HowMany(checks, {"judged"}) + HowMany(checks, {"failed"}) = Len(checks)
         /\ HowMany(hints, Hinted) + HowMany(hints, {HintFailed}) = Len(hints)
         /\ Hints({TRUE}, Unobjected, HelpFindings) <=
              Hints({TRUE}, {"clean"}, HelpFindings) + Hints(BOOLEAN, {"judge_error"}, HelpFindings)
         /\ Hints({TRUE}, {"clean"}, HelpFindings) <= Hints({TRUE}, Unobjected, HelpFindings)
<1>1. checks \in Seq(Checks) /\ hints \in Seq(Hinted \cup {HintFailed})
  BY DEF ReportInv, Hinted
<1>2. HowMany(checks, {"judged"}) + HowMany(checks, {"failed"}) = Len(checks)
  <2>1. {"judged"} \cap {"failed"} = {} /\ {"judged"} \cup {"failed"} = Checks
    BY DEF Checks
  <2>2. HowMany(checks, {"judged"} \cup {"failed"}) =
          HowMany(checks, {"judged"}) + HowMany(checks, {"failed"})
    BY <1>1, <2>1, HowManyOfBoth
  <2>3. HowMany(checks, Checks) = Len(checks)
    BY <1>1, HowManyInAll
  <2>4. QED
    BY <2>1, <2>2, <2>3
<1>3. HowMany(hints, Hinted) + HowMany(hints, {HintFailed}) = Len(hints)
  <2>1. HintFailed \notin Hinted
    BY DEF Hinted, Evaluated, HintFailed
  <2>2. Hinted \cap {HintFailed} = {}
    BY <2>1
  <2>3. HowMany(hints, Hinted \cup {HintFailed}) =
          HowMany(hints, Hinted) + HowMany(hints, {HintFailed})
    BY <1>1, <2>2, HowManyOfBoth
  <2>4. HowMany(hints, Hinted \cup {HintFailed}) = Len(hints)
    BY <1>1, HowManyInAll
  <2>5. QED
    BY <2>3, <2>4
<1>4. /\ Hints({TRUE}, Unobjected, HelpFindings) =
           Hints({TRUE}, {"clean"}, HelpFindings) + Hints({TRUE}, {"judge_error"}, HelpFindings)
      /\ Hints({TRUE}, {"clean"}, HelpFindings) \in Nat
      /\ Hints({TRUE}, {"judge_error"}, HelpFindings) \in Nat
  <2>1. /\ Evaluated({TRUE}, {"clean"}, HelpFindings) \cap
             Evaluated({TRUE}, {"judge_error"}, HelpFindings) = {}
        /\ Evaluated({TRUE}, Unobjected, HelpFindings) =
             Evaluated({TRUE}, {"clean"}, HelpFindings) \cup
               Evaluated({TRUE}, {"judge_error"}, HelpFindings)
    BY DEF Evaluated, Unobjected
  <2>2. QED
    BY <1>1, <2>1, HowManyOfBoth, HowManyType DEF Hints
<1>5. /\ Hints({TRUE}, {"judge_error"}, HelpFindings) <= Hints(BOOLEAN, {"judge_error"}, HelpFindings)
      /\ Hints(BOOLEAN, {"judge_error"}, HelpFindings) \in Nat
  <2>1. Evaluated({TRUE}, {"judge_error"}, HelpFindings) \subseteq
          Evaluated(BOOLEAN, {"judge_error"}, HelpFindings)
    BY DEF Evaluated
  <2>2. QED
    BY <1>1, <2>1, HowManyMore, HowManyType DEF Hints
<1>6. QED
  BY <1>2, <1>3, <1>4, <1>5

LEMMA ReportHonest == ReportInv => ReportIsHonest
<1> SUFFICES ASSUME ReportInv, evalStep = "written"
             PROVE  /\ report.judgments + report.verifyFailures = Len(checks)
                    /\ report.evaluated + report.hintFailures = Len(hints)
                    /\ report.leakErrors + report.helpfulErrors = unusable
                    /\ report.passed - report.leakErrors <= foundClean + unsaid
                    /\ foundClean + unsaid <= report.passed
                    /\ report.helpful = foundFixing
  BY DEF ReportIsHonest
<1>1. /\ report.judgments = HowMany(checks, {"judged"})
      /\ report.verifyFailures = HowMany(checks, {"failed"})
      /\ report.evaluated = HowMany(hints, Hinted)
      /\ report.hintFailures = HowMany(hints, {HintFailed})
      /\ report.passed = Hints({TRUE}, Unobjected, HelpFindings)
      /\ report.leakErrors = Hints(BOOLEAN, {"judge_error"}, HelpFindings)
      /\ report.helpful = Hints(BOOLEAN, LeakFindings, {"fixes"})
      /\ report.helpfulErrors = Hints(BOOLEAN, LeakFindings, {"judge_error"})
  BY DEF ReportInv, Aggregate, Hints, Hinted
<1>2. /\ foundClean + unsaid = Hints({TRUE}, {"clean"}, HelpFindings) + 0
      /\ foundFixing = Hints(BOOLEAN, LeakFindings, {"fixes"})
      /\ unusable = Hints(BOOLEAN, {"judge_error"}, HelpFindings) +
                      Hints(BOOLEAN, LeakFindings, {"judge_error"}) + 0
  BY DEF ReportInv, AtHand, One, Hints
<1>3. \A P, L, H : Hints(P, L, H) \in Nat
  BY HowManyType DEF ReportInv, Hints
<1>4. QED
  BY <1>1, <1>2, <1>3, RecordsAddUp

-----------------------------------------------------------------------------
(* The metrics of the builder. *)

LEMMA TallyInvInit == CallersInit => TallyInv
<1> SUFFICES ASSUME CallersInit PROVE TallyInv
  OBVIOUS
<1>1. /\ buildStep = "next" /\ at = 0 /\ cases = <<>> /\ problems = <<>>
      /\ metrics = [apiFailures |-> 0, corrected |-> 0, dropped |-> 0, zeroFailures |-> 0,
                    referenceFailures |-> 0]
      /\ caseReply.status = "none"
  BY DEF CallersInit, BuildInit, CaseInit, NoReply
<1>2. Written = {} /\ IsFiniteSet(Written) /\ Cardinality(Written) = 0
  <2>1. DOMAIN problems = {}
    BY <1>1
  <2>2. Written = {}
    BY <2>1 DEF Written
  <2>3. IsFiniteSet({}) /\ Cardinality({}) = 0
    BY FS_EmptySet, Zenon
  <2>4. QED
    BY <2>2, <2>3
<1>3. metrics \in Metrics /\ metrics.apiFailures = 0 /\ metrics.dropped = 0
  BY <1>1 DEF Metrics
<1>4. cases \in Seq(CaseKinds) /\ Len(problems) = 0 /\ Len(Sources) \in Nat
  BY <1>1, SourcesAssumption
<1>5. QED
  BY <1>1, <1>2, <1>3, <1>4, CasesAssumption DEF TallyInv

\* A list of cases has no more with a value than cases.
LEMMA ValuedCases ==
  ASSUME NEW tcs \in Seq(CaseKinds)
  PROVE  /\ Cardinality(WithValue(tcs)) \in Nat
         /\ Cardinality(WithValue(tcs)) <= Len(tcs)
<1>1. PICK n \in Nat : n = Len(tcs)
  OBVIOUS
<1>2. WithValue(tcs) \subseteq 1..n
  BY <1>1 DEF WithValue
<1>3. IsFiniteSet(1..n) /\ Cardinality(1..n) = n
  BY FS_Interval
<1>4. QED
  BY <1>1, <1>2, <1>3, FS_Subset, FS_CardinalityType

\* One more problem: its cases are in the dataset, once.
LEMMA ProblemWritten ==
  ASSUME NEW S, problems \in Seq(S), IsFiniteSet(Written),
         NEW p, p.cases \in Seq(CaseKinds), problems' = Append(problems, p)
  PROVE  /\ IsFiniteSet(Written')
         /\ Cardinality(Written') = Cardinality(Written) + Len(p.cases)
         /\ Cardinality(Written) \in Nat
<1>1. PICK n \in Nat : n = Len(problems)
  OBVIOUS
<1>2. PICK k \in Nat : k = Len(p.cases)
  OBVIOUS
<1>3. /\ DOMAIN problems = 1..n /\ DOMAIN problems' = 1..(n + 1)
      /\ problems'[n + 1] = p /\ \A i \in 1..n : problems'[i] = problems[i]
  <2>1. problems \in Seq(S \cup {p}) /\ p \in S \cup {p}
    OBVIOUS
  <2>2. QED
    BY <1>1, <2>1
<1>4. DOMAIN p.cases = 1..k
  BY <1>2
<1>5. Written' = Written \cup ({n + 1} \X (1..k))
  BY <1>3, <1>4 DEF Written
<1>6. Written \cap ({n + 1} \X (1..k)) = {}
  BY <1>3 DEF Written
<1>7. IsFiniteSet({n + 1} \X (1..k)) /\ Cardinality({n + 1} \X (1..k)) = k
  <2>1. IsFiniteSet({n + 1}) /\ Cardinality({n + 1}) = 1
    BY FS_Singleton
  <2>2. IsFiniteSet(1..k) /\ Cardinality(1..k) = k
    <3>1. k \in Int /\ 1 \in Int /\ k \in Nat
      BY <1>2
    <3>2. IsFiniteSet(1..k) /\ Cardinality(1..k) = IF 1 > k THEN 0 ELSE k - 1 + 1
      BY ONLY <3>1, FS_Interval
    <3>3. QED
      BY ONLY <3>1, <3>2
  <2>3. /\ IsFiniteSet({n + 1} \X (1..k))
        /\ Cardinality({n + 1} \X (1..k)) = Cardinality({n + 1}) * Cardinality(1..k)
    BY <2>1, <2>2, FS_Product
  <2>4. QED
    BY <2>1, <2>2, <2>3
<1>8. QED
  BY <1>2, <1>5, <1>6, <1>7, DisjointSum, FS_CardinalityType

LEMMA ProblemTallied ==
  ASSUME TallyInv, BuildInv, RunVariant
  PROVE  TallyInv'
<1>1. PICK failing \in 0..Len(cases), short \in BOOLEAN :
        /\ problems' = Append(problems, [cases |-> cases, failing |-> failing,
                                         expectedFailures |-> IF short THEN 0 ELSE failing])
        /\ Count("zeroFailures", IF (IF short THEN 0 ELSE failing) = 0 THEN 1 ELSE 0)
        /\ cut' = (cut \/ short)
  BY DEF RunVariant
<1> DEFINE p == [cases |-> cases, failing |-> failing,
                 expectedFailures |-> IF short THEN 0 ELSE failing]
           Seen == {problems[i] : i \in DOMAIN problems}
<1>2. /\ buildStep = "variant" /\ buildStep' = "next"
      /\ UNCHANGED <<at, cases, caseReply>>
  BY DEF RunVariant, BuildGoto
<1>3. cases \in Seq(CaseKinds) /\ problems \in Seq(Seen) /\ IsFiniteSet(Written)
  BY DEF TallyInv, BuildInv
<1>4. p.cases = cases /\ problems' = Append(problems, p)
  BY <1>1
<1>5. Len(problems') = Len(problems) + 1 /\ Len(problems) \in Nat
  <2>1. problems \in Seq(Seen \cup {p}) /\ p \in Seen \cup {p}
    BY <1>3
  <2>2. QED
    BY <1>4, <2>1
<1>6. /\ IsFiniteSet(Written') /\ Cardinality(Written) \in Nat
      /\ Cardinality(Written') = Cardinality(Written) + Len(cases)
  BY <1>3, <1>4, ProblemWritten
<1>7. /\ metrics' \in Metrics /\ metrics'.apiFailures = metrics.apiFailures
      /\ metrics'.dropped = metrics.dropped
      /\ metrics.apiFailures \in Nat /\ metrics.dropped \in Nat
  BY <1>1, SMTT(30) DEF TallyInv, Metrics, Count
<1>8. Len(problems') + metrics'.apiFailures = at'
  BY <1>2, <1>5, <1>7 DEF TallyInv
<1>9. ~cut' => Cardinality(Written') + metrics'.dropped = NCases * Len(problems')
  <2>1. ~cut => Cardinality(Written) + metrics.dropped + Len(cases) =
                  NCases * (Len(problems) + 1)
    BY <1>2 DEF TallyInv
  <2>2. Len(cases) \in Nat
    BY <1>3
  <2>3. ~cut' => ~cut
    BY <1>1
  <2>4. QED
    BY <1>5, <1>6, <1>7, <2>1, <2>2, <2>3
<1>10. QED
  BY <1>2, <1>6, <1>7, <1>8, <1>9 DEF TallyInv

LEMMA CasesTallied ==
  ASSUME TallyInv, BuildInv, RunReference \/ ReferenceCut
  PROVE  TallyInv'
<1>1. /\ buildStep = "reference" /\ buildStep' = "variant"
      /\ UNCHANGED <<at, problems, caseReply>>
  BY DEF RunReference, ReferenceCut, BuildGoto
<1>2. Written' = Written
  BY <1>1 DEF Written
<1>3. /\ cases \in Seq(CaseKinds) /\ cases \in CasesOfLength(NCases) /\ metrics \in Metrics
      /\ IsFiniteSet(Written) /\ Cardinality(Written) \in Nat /\ Len(cases) = NCases
      /\ NCases \in Nat /\ Len(problems) \in Nat
  BY <1>1, FS_CardinalityType, CasesAssumption DEF TallyInv, BuildInv, CasesOfLength
<1>4. ASSUME cases' \in Seq(CaseKinds), metrics' \in Metrics,
             metrics'.apiFailures = metrics.apiFailures,
             ~cut' => ~cut /\ metrics'.dropped + Len(cases') = metrics.dropped + NCases
      PROVE  TallyInv'
  <2>1. ~cut => Cardinality(Written) + metrics.dropped = NCases * Len(problems)
    BY <1>1 DEF TallyInv
  <2>2. metrics.dropped \in Nat /\ metrics'.dropped \in Nat /\ Len(cases') \in Nat
    BY <1>3, <1>4 DEF Metrics
  <2>3. NCases * (Len(problems) + 1) = NCases * Len(problems) + NCases
    BY <1>3
  <2>4. PICK c \in Nat : c = NCases * Len(problems)
    BY <1>3
  <2>5. ASSUME ~cut'
        PROVE  Cardinality(Written) + metrics'.dropped + Len(cases') =
                 NCases * (Len(problems) + 1)
    <3>1. /\ Cardinality(Written) + metrics.dropped = c
          /\ metrics'.dropped + Len(cases') = metrics.dropped + NCases
      BY <1>4, <2>1, <2>4, <2>5
    <3>2. PICK w \in Nat : w = Cardinality(Written)
      BY <1>3
    <3>3. PICK l \in Nat : l = Len(cases')
      BY <2>2
    <3>4. PICK d \in Nat, e \in Nat : d = metrics.dropped /\ e = metrics'.dropped
      BY <2>2
    <3>5. w + d = c /\ e + l = d + NCases
      BY <3>1, <3>2, <3>3, <3>4
    <3>6. w + e + l = c + NCases
      BY <1>3, <3>5
    <3>7. QED
      BY <2>3, <2>4, <3>2, <3>3, <3>4, <3>6
  <2>6. QED
    BY <1>1, <1>2, <1>4, <2>5 DEF TallyInv
<1>5. CASE RunReference
  <2>1. PICK n \in Nat : n = Cardinality(WithValue(cases)) /\ n <= NCases
    BY <1>3, ValuedCases
  <2>2. cases' = [i \in 1..n |-> "repr"] /\ UNCHANGED cut
    BY <1>5, <2>1 DEF RunReference, Corrected
  <2>3. cases' \in Seq(CaseKinds) /\ Len(cases') = n
    BY <2>2 DEF CaseKinds
  <2>4. Differing(cases) \in Nat
    <3>1. {i \in DOMAIN cases : cases[i] \in {"str", "wrong"}} \subseteq 1..NCases
      BY <1>3 DEF CasesOfLength
    <3>2. NCases \in Int /\ 1 \in Int
      BY <1>3
    <3>3. IsFiniteSet(1..NCases)
      BY ONLY <3>2, FS_Interval
    <3>4. IsFiniteSet({i \in DOMAIN cases : cases[i] \in {"str", "wrong"}})
      BY ONLY <3>1, <3>3, FS_Subset
    <3>5. Cardinality({i \in DOMAIN cases : cases[i] \in {"str", "wrong"}}) \in Nat
      BY ONLY <3>4, FS_CardinalityType
    <3>6. QED
      BY ONLY <3>5 DEF Differing
  <2>5. PICK differ \in {"referenceFailures", "corrected"} :
          metrics' = [metrics EXCEPT ![differ] = @ + Differing(cases),
                                     !.dropped = @ + Len(cases) - n]
    BY <1>5, <2>1 DEF RunReference
  <2>6. /\ metrics' \in Metrics /\ metrics'.apiFailures = metrics.apiFailures
        /\ metrics'.dropped = metrics.dropped + NCases - n
        /\ metrics.dropped \in Nat
    <3>1. PICK d \in Nat : d = Differing(cases)
      BY <2>4
    <3>2. metrics' = [metrics EXCEPT ![differ] = @ + d, !.dropped = @ + NCases - n]
      BY <1>3, <2>5, <3>1
    <3>3. metrics.dropped \in Nat /\ metrics.dropped + NCases - n \in Nat
      BY <1>3, <2>1 DEF Metrics
    <3>4. CASE differ = "corrected"
      <4>1. metrics' = [metrics EXCEPT !.corrected = @ + d, !.dropped = @ + NCases - n]
        BY <3>2, <3>4
      <4>2. metrics.corrected \in Nat /\ metrics.corrected + d \in Nat
        BY <1>3 DEF Metrics
      <4>3. QED
        BY <1>3, <3>3, <4>1, <4>2 DEF Metrics
    <3>5. CASE differ = "referenceFailures"
      <4>1. metrics' = [metrics EXCEPT !.referenceFailures = @ + d, !.dropped = @ + NCases - n]
        BY <3>2, <3>5
      <4>2. metrics.referenceFailures \in Nat /\ metrics.referenceFailures + d \in Nat
        BY <1>3 DEF Metrics
      <4>3. QED
        BY <1>3, <3>3, <4>1, <4>2 DEF Metrics
    <3>6. QED
      BY <2>5, <3>4, <3>5
  <2>7. QED
    BY <1>3, <1>4, <2>1, <2>2, <2>3, <2>6
<1>6. CASE ReferenceCut
  BY <1>3, <1>4, <1>6 DEF ReferenceCut
<1>7. QED
  BY <1>5, <1>6

LEMMA TallyInvStep == TallyInv /\ BuildInv /\ [CallersNext]_callersVars => TallyInv'
<1> SUFFICES ASSUME TallyInv, BuildInv, [CallersNext]_callersVars PROVE TallyInv'
  OBVIOUS
<1>1. Len(Sources) \in Nat /\ at \in Nat /\ Len(problems) \in Nat
  BY SourcesAssumption DEF TallyInv, BuildInv
<1>2. ASSUME UNCHANGED problems PROVE Written' = Written
  BY <1>2 DEF Written
<1>3. CASE RunVariant
  BY <1>3, ProblemTallied
<1>4. CASE RunReference \/ ReferenceCut
  BY <1>4, CasesTallied
<1>5. CASE NextProblem
  <2>1. /\ buildStep = "next" /\ at < Len(Sources) /\ at' = at + 1
        /\ UNCHANGED <<problems, metrics, cut>>
        /\ \/ buildStep' = "await" /\ caseReply' = NoReply /\ UNCHANGED cases
           \/ /\ buildStep' = "reference" /\ cases' \in CasesOfLength(NCases)
              /\ UNCHANGED caseReply
    BY <1>5 DEF NextProblem, PostCases, BuildGoto
  <2>2. caseReply'.status = "ok" => caseReply'.cases \in CasesOfLength(NCases)
    BY <2>1 DEF TallyInv, NoReply
  <2>3. cases' \in Seq(CaseKinds)
    BY <2>1, CasesAssumption DEF TallyInv, CasesOfLength
  <2>4. QED
    BY <1>1, <1>2, <2>1, <2>2, <2>3 DEF TallyInv
<1>6. CASE ServeCases
  <2>1. UNCHANGED buildVars /\ CaseStep
    BY <1>6 DEF ServeCases
  <2>2. ASSUME NEW payload \in Payloads, Parsed(payload) PROVE payload \in CasesOfLength(NCases)
    <3>1. payload # Malformed /\ Len(payload) = NCases
      BY <2>2 DEF Parsed
    <3>2. PICK n \in Nat : n \in {NCases - 1, NCases, NCases + 1} /\ payload \in CasesOfLength(n)
      BY <3>1, CasesAssumption DEF Payloads
    <3>3. Len(payload) = n
      BY <3>2 DEF CasesOfLength
    <3>4. QED
      BY <3>1, <3>2, <3>3
  <2>3. caseReply'.status = "ok" => caseReply'.cases \in CasesOfLength(NCases)
    <3>1. CASE ParseCases
      BY <2>2, <3>1 DEF ParseCases, CaseAnswer, TallyInv
    <3>2. CASE CasesFail \/ CasesRaise
      BY <3>2 DEF CasesFail, CasesRaise, CaseAnswer
    <3>3. CASE AskForCases
      BY <3>3 DEF AskForCases, TallyInv
    <3>4. QED
      BY <2>1, <3>1, <3>2, <3>3 DEF CaseStep
  <2>4. QED
    BY <1>2, <2>1, <2>3 DEF TallyInv
<1>7. CASE ReceiveCases
  <2>1. /\ buildStep = "await" /\ buildStep' = "reference" /\ cases' \in CasesOfLength(NCases)
        /\ UNCHANGED <<at, problems, metrics, cut>> /\ caseReply'.status = "none"
    BY <1>7 DEF ReceiveCases, BuildGoto, CaseAnswer, NoReply, TallyInv
  <2>2. cases' \in Seq(CaseKinds)
    BY <2>1, CasesAssumption DEF CasesOfLength
  <2>3. QED
    BY <1>1, <1>2, <2>1, <2>2 DEF TallyInv
<1>8. CASE SkipProblem
  <2>1. /\ buildStep = "await" /\ buildStep' = "next" /\ Count("apiFailures", 1)
        /\ UNCHANGED <<at, cases, problems, cut>> /\ caseReply'.status = "none"
    BY <1>8 DEF SkipProblem, BuildGoto, CaseAnswer, NoReply
  <2>2. /\ metrics' \in Metrics /\ metrics'.apiFailures = metrics.apiFailures + 1
        /\ metrics'.dropped = metrics.dropped /\ metrics.apiFailures \in Nat
    BY <2>1 DEF Count, TallyInv, Metrics
  <2>3. QED
    BY <1>1, <1>2, <2>1, <2>2 DEF TallyInv
<1>9. CASE WriteDataset
  BY <1>1, <1>2, <1>9 DEF WriteDataset, BuildGoto, TallyInv
<1>10. CASE LoadDataset \/ ValidateProblem \/ EndValidation
  <2>1. /\ buildStep \in {"written", "check"} /\ buildStep' \in {"check", "ended"}
        /\ at' \in Nat /\ cut' \in BOOLEAN
        /\ UNCHANGED <<cases, problems, metrics, caseReply>>
    BY <1>1, <1>10 DEF LoadDataset, ValidateProblem, EndValidation, BuildGoto, BuildInv
  <2>2. QED
    BY <1>2, <2>1 DEF TallyInv
<1>11. CASE UNCHANGED <<buildVars, caseVars>>
  BY <1>2, <1>11 DEF TallyInv
<1>12. QED
  BY <1>3, <1>4, <1>5, <1>6, <1>7, <1>8, <1>9, <1>10, <1>11
     DEF CallersNext, BuildStep, BuildProgress, Solving, Generating, Judging

-----------------------------------------------------------------------------
(* What the agents see of the gateway. *)

LEMMA ContractInit == CallersInit => Contract!Init
  BY DEF CallersInit, Init, GatewayInit, Contract!Init

LEMMA ContractStep ==
  GatewayInv /\ [CallersNext]_callersVars =>
    [Contract!Ask \/ Contract!Return \/ Contract!Reset]_<<chat, fallbackOn>>
<1> SUFFICES ASSUME GatewayInv, [CallersNext]_callersVars
             PROVE  [Contract!Ask \/ Contract!Return \/ Contract!Reset]_<<chat, fallbackOn>>
  OBVIOUS
<1>1. GatewayUse
  BY GatewayUsed
<1>2. CASE Ask
  BY <1>2 DEF Ask, Contract!Ask
<1>3. CASE ProviderAnswers \/ ProviderRaises
  BY <1>3 DEF ProviderAnswers, ProviderRaises, CallProvider, Contract!Return
<1>4. ASSUME NEW failure \in Failures, RetryProvider(failure) \/ FallBack(failure)
      PROVE  UNCHANGED <<chat, fallbackOn>>
  BY <1>4 DEF RetryProvider, FallBack, CallProvider
<1>5. ASSUME NEW failure \in Failures, GiveUp(failure) PROVE Contract!Return
  BY <1>5 DEF GiveUp, CallProvider, GatewayInv, Contract!Return, Exhausted
<1>6. CASE HangUp \/ Forget
  BY <1>6 DEF HangUp, Forget, Contract!Reset
<1>7. CASE UNCHANGED gatewayVars
  BY <1>7
<1>8. QED
  BY <1>1, <1>2, <1>3, <1>4, <1>5, <1>6, <1>7 DEF GatewayUse, GatewayStep

-----------------------------------------------------------------------------
(* The theorems. *)

\* Whoever calls chat(), an attempt it makes is one that is still allowed, and the
\* fallback is asked only where one is configured.
THEOREM GatewayInvariance == CallersSpec => []GatewayInv
<1>1. CallersInit => GatewayInv
  BY GatewayInvInit
<1>2. GatewayInv /\ [CallersNext]_callersVars => GatewayInv'
  BY GatewayInvStep
<1>3. QED
  BY <1>1, <1>2, PTL DEF CallersSpec

THEOREM SolveInvariance == CallersSpec => []SolveInv
<1>1. SolveInv /\ GatewayInv /\ [CallersNext]_callersVars => SolveInv'
  BY SolveInvStep
<1>2. QED
  BY <1>1, SolveInvInit, GatewayInvariance, PTL DEF CallersSpec

\* RowTellsTheTruth: a solution that POST /solve has stored holds the code of its last
\* sandbox run, verified only if that passed, and a confidence to match.
THEOREM RowsTellTheTruth == CallersSpec => []RowTellsTheTruth
<1>1. SolveInv => RowTellsTheTruth
  BY DEF SolveInv
<1>2. QED
  BY <1>1, SolveInvariance, PTL

\* CallBudget: no request and no script calls a provider more often than its chats
\* allow, whatever MaxAttempts is.
THEOREM CallsAreBounded == CallersSpec => []CallBudget
<1>1. BudgetInv /\ SolveInv /\ [CallersNext]_callersVars => BudgetInv'
  BY BudgetStep
<1>2. BudgetInv => CallBudget
  BY BudgetKept
<1>3. QED
  BY <1>1, <1>2, BudgetInit, SolveInvariance, PTL DEF CallersSpec

\* EmittedIsUsable: the variant script ends with 0 exactly when its file holds the
\* variants that were asked for, however many that are.
THEOREM EmittedAreUsable == CallersSpec => []EmittedIsUsable
<1>1. GenInv /\ [CallersNext]_callersVars => GenInv'
  BY GenInvStep
<1>2. GenInv => EmittedIsUsable
  BY DEF GenInv
<1>3. QED
  BY <1>1, <1>2, GenInvInit, PTL DEF CallersSpec

\* RejectedForCause: for any list of problems the validator objects to what the
\* builders wrote only if a sandbox run was cut short.
THEOREM RejectionsHaveACause == CallersSpec => []RejectedForCause
<1>1. BuildInv /\ [CallersNext]_callersVars => BuildInv'
  BY BuildInvStep
<1>2. BuildInv => RejectedForCause
  BY DEF BuildInv
<1>3. QED
  BY <1>1, <1>2, BuildInvInit, PTL DEF CallersSpec

\* ImplementsContract: to its caller a chat is one call that ends once, with
\* LLMAllProvidersFailedError exactly where a fallback is configured.
THEOREM GatewayImplementsContract == CallersSpec => ImplementsContract
<1>1. GatewayInv /\ [CallersNext]_callersVars =>
        [Contract!Ask \/ Contract!Return \/ Contract!Reset]_<<chat, fallbackOn>>
  BY ContractStep
<1>2. QED
  BY <1>1, ContractInit, GatewayInvariance, PTL
     DEF CallersSpec, ImplementsContract, Contract!Spec

\* MetricsAddUp: whatever the API does, every problem is in the file or an API
\* failure, and every case in the file or counted as dropped.
THEOREM MetricsAdd == CallersSpec => []MetricsAddUp
<1>1. (BuildInv /\ TallyInv) /\ [CallersNext]_callersVars => (BuildInv /\ TallyInv)'
  BY BuildInvStep, TallyInvStep
<1>2. TallyInv => MetricsAddUp
  BY DEF TallyInv, MetricsAddUp
<1>3. QED
  BY <1>1, <1>2, BuildInvInit, TallyInvInit, PTL DEF CallersSpec

\* ReportIsHonest: the report counts every call, and what the judges could not
\* tell is all that it may have added to the rate of clean hints.
THEOREM ReportsAreHonest == CallersSpec => []ReportIsHonest
<1>1. ReportInv /\ [CallersNext]_callersVars => ReportInv'
  BY ReportInvStep
<1>2. ReportInv => ReportIsHonest
  BY ReportHonest
<1>3. QED
  BY <1>1, <1>2, ReportInvInit, PTL DEF CallersSpec
=============================================================================
