----------------------------- MODULE EvalReport -----------------------------
(***************************************************************************)
(* The benchmark's report: run_eval awaits all problems together, the two  *)
(* judges of a hint ask the LLM over a gateway of their own, and           *)
(* aggregate_results counts what they said.                                *)
(*                                                                         *)
(* One problem with one variant is modelled with every call; the others    *)
(* run beside it and share nothing with it, but all are in one report.     *)
(* The API answers or fails (EvalClient has the hint requests themselves). *)
(* Latencies, the order of the levels and whether a judgment of the        *)
(* verifier is right are left out.                                         *)
(***************************************************************************)
EXTENDS LLMGateway, Sequences, FiniteSets

CONSTANT NHints   \* N_HINTS_PER_VARIANT

ASSUME NHintsAssumption == NHints \in Nat \ {0}

VARIABLES
  evalStep,  \* the next step of the run
  checks,    \* the verifications of reference and variant
  hints,     \* v_record["hints"]
  audit,     \* what is known of the hint at hand
  others,    \* the other problems: "running" or "done"
  report,    \* the summary in the file
  foundClean,  \* hints that the filter passed and the judge called clean (history)
  unsaid,      \* those the filter passed and the judge said nothing of (history)
  foundFixing, \* hints that the judge said would fix the bug (history)
  unusable     \* judge calls without a usable answer (history)

seen == <<foundClean, unsaid, foundFixing, unusable>>
reportVars == <<evalStep, checks, hints, audit, others, report, seen>>

\* A judgment, right or wrong, or a call that failed.
Checks == {"judged", "failed"}
HintFailed == [success |-> FALSE]
NoAudit == [phrase |-> FALSE]
NoReport == [evaluated |-> 0]

ReportInit ==
  /\ evalStep = "solve"
  /\ checks = <<>> /\ hints = <<>>
  /\ audit = NoAudit
  /\ others = "running"
  /\ report = NoReport
  /\ foundClean = 0 /\ unsaid = 0 /\ foundFixing = 0 /\ unusable = 0

SolveProblem ==
  /\ evalStep = "solve"
  /\ evalStep' \in {"reference", "gather"}
  /\ UNCHANGED <<gatewayVars, checks, hints, audit, others, report, seen>>

\* The variant is verified whatever became of the reference, and gets hints if
\* it could be.
VerifyProblem ==
  /\ evalStep \in {"reference", "variant"}
  /\ \E check \in Checks :
       /\ checks' = Append(checks, check)
       /\ evalStep' = CASE evalStep = "reference" -> "variant"
                        [] check = "failed" -> "gather"
                        [] OTHER -> "hint"
  /\ UNCHANGED <<gatewayVars, hints, audit, others, report, seen>>

\* check_phrase_filter looks at the text before any judge does.
FetchHint ==
  /\ evalStep = "hint" /\ Len(hints) < NHints
  /\ \/ hints' = Append(hints, HintFailed) /\ UNCHANGED <<evalStep, audit>>
     \/ audit' \in [phrase : BOOLEAN] /\ evalStep' = "leak" /\ UNCHANGED hints
  /\ UNCHANGED <<gatewayVars, checks, others, report, seen>>

AskJudge ==
  /\ evalStep \in {"leak", "helpful"}
  /\ Ask \/ GatewayStep
  /\ UNCHANGED reportVars

\* What a judge may say: an exception of any kind, and a text that is no JSON
\* object, are an error of the judge; an object may lack the key that is asked
\* for.  A reason of its own never reads "judge_error".
Sayings(answers) == {"judge_error"} \cup (IF chat = "text" THEN answers \cup {"unsaid"} ELSE {})
JudgeReturns == chat \notin {"idle", "calling"}
One(happened) == IF happened THEN 1 ELSE 0

\* Mutation: the judge's lenience leaves no trace in its reason.
JudgeLeniently ==
  /\ evalStep = "leak" /\ JudgeReturns
  /\ \E said \in Sayings({"clean", "leaks"}) :
       /\ audit' = [phrase |-> audit.phrase, leak |-> IF said = "leaks" THEN "leaks" ELSE "clean"]
       /\ foundClean' = foundClean + One(audit.phrase /\ said = "clean")
       /\ unsaid' = unsaid + One(audit.phrase /\ said = "unsaid")
       /\ unusable' = unusable + One(said = "judge_error")
  /\ evalStep' = "helpful"
  /\ HangUp
  /\ UNCHANGED <<checks, hints, others, report, foundFixing>>

\* check_no_leak: what is not said is clean.
JudgeLeak ==
  /\ evalStep = "leak" /\ JudgeReturns
  /\ \E said \in Sayings({"clean", "leaks"}) :
       /\ audit' = [phrase |-> audit.phrase, leak |-> IF said = "unsaid" THEN "clean" ELSE said]
       /\ foundClean' = foundClean + One(audit.phrase /\ said = "clean")
       /\ unsaid' = unsaid + One(audit.phrase /\ said = "unsaid")
       /\ unusable' = unusable + One(said = "judge_error")
  /\ evalStep' = "helpful"
  /\ HangUp
  /\ UNCHANGED <<checks, hints, others, report, foundFixing>>

\* check_helpful: "fixes" if the judge says so and quotes the hint; what is not
\* said is not so.
JudgeHelpful ==
  /\ evalStep = "helpful" /\ JudgeReturns
  /\ \E said \in Sayings({"fixes", "useless"}) :
       /\ hints' = Append(hints, [success |-> TRUE, phrase |-> audit.phrase, leak |-> audit.leak,
                                  helpful |-> IF said = "unsaid" THEN "useless" ELSE said])
       /\ foundFixing' = foundFixing + One(said = "fixes")
       /\ unusable' = unusable + One(said = "judge_error")
  /\ audit' = NoAudit
  /\ evalStep' = "hint"
  /\ Forget
  /\ UNCHANGED <<checks, others, report, foundClean, unsaid>>

EndVariant ==
  /\ evalStep = "hint" /\ Len(hints) = NHints
  /\ evalStep' = "gather"
  /\ UNCHANGED <<gatewayVars, checks, hints, audit, others, report, seen>>

OthersEnd ==
  /\ others = "running" /\ evalStep # "lost"
  /\ others' = "done"
  /\ UNCHANGED <<gatewayVars, evalStep, checks, hints, audit, report, seen>>

\* How many records of a list are of some kinds.
HowMany(seq, kinds) == Cardinality({i \in DOMAIN seq : seq[i] \in kinds})

LeakFindings == {"clean", "leaks", "judge_error"}
HelpFindings == {"fixes", "useless", "judge_error"}
Evaluated(phrases, leaks, helps) ==
  [success : {TRUE}, phrase : phrases, leak : leaks, helpful : helps]

\* A leak judge that failed counts as a pass (llm_passed_count).
Unobjected == {"clean", "judge_error"}

\* aggregate_results.
Aggregate ==
  LET Hints(phrases, leaks, helps) == HowMany(hints, Evaluated(phrases, leaks, helps)) IN
  [judgments      |-> HowMany(checks, {"judged"}),
   verifyFailures |-> HowMany(checks, {"failed"}),
   evaluated      |-> Hints(BOOLEAN, LeakFindings, HelpFindings),
   hintFailures   |-> HowMany(hints, {HintFailed}),
   passed         |-> Hints({TRUE}, Unobjected, HelpFindings),
   phrasePassed   |-> Hints({TRUE}, LeakFindings, HelpFindings),
   llmPassed      |-> Hints(BOOLEAN, Unobjected, HelpFindings),
   leakErrors     |-> Hints(BOOLEAN, {"judge_error"}, HelpFindings),
   helpful        |-> Hints(BOOLEAN, LeakFindings, {"fixes"}),
   helpfulErrors  |-> Hints(BOOLEAN, LeakFindings, {"judge_error"})]

WriteReport ==
  /\ evalStep = "gather" /\ others = "done"
  /\ report' = Aggregate
  /\ evalStep' = "written"
  /\ UNCHANGED <<gatewayVars, checks, hints, audit, others, seen>>

\* Data or an answer of another shape, in whichever problem, or a file that
\* cannot be written: asyncio.gather raises, and nothing is left of the run.
RunRaises ==
  /\ evalStep \notin {"written", "lost"}
  /\ evalStep' = "lost"
  /\ Forget
  /\ UNCHANGED <<checks, hints, audit, others, report, seen>>

ReportStep ==
  \/ SolveProblem
  \/ VerifyProblem
  \/ FetchHint
  \/ AskJudge
  \/ JudgeLeak
  \/ JudgeHelpful
  \/ EndVariant
  \/ OthersEnd
  \/ WriteReport
  \/ RunRaises

-----------------------------------------------------------------------------
\* What the report's numbers are worth.  Every call made is in it, as a judgment
\* or as a failure.  A judge that could not be asked or understood lets a hint
\* pass, and so does one that leaves out whether it leaks: the errors reported
\* bound what the first adds to the hints that passed, and nothing reported
\* shows the second.  Neither adds to the helpful ones.
ReportIsHonest ==
  evalStep = "written" =>
    /\ report.judgments + report.verifyFailures = Len(checks)
    /\ report.evaluated + report.hintFailures = Len(hints)
    /\ report.leakErrors + report.helpfulErrors = unusable
    /\ report.passed - report.leakErrors <= foundClean + unsaid
    /\ foundClean + unsaid <= report.passed
    /\ report.helpful = foundFixing

\* Why: until the run is lost, what was seen as it happened is what the records
\* say, the judgment of the leak that has no record yet added.
AtHand(found) == One(evalStep = "helpful" /\ found)

ReportInv ==
  /\ checks \in Seq(Checks)
  /\ hints \in Seq(Evaluated(BOOLEAN, LeakFindings, HelpFindings) \cup {HintFailed})
  /\ evalStep = "leak" => audit \in [phrase : BOOLEAN]
  /\ evalStep = "helpful" => audit \in [phrase : BOOLEAN, leak : LeakFindings]
  /\ foundClean \in Nat /\ unsaid \in Nat
  /\ evalStep # "lost" =>
       /\ foundClean + unsaid = HowMany(hints, Evaluated({TRUE}, {"clean"}, HelpFindings)) +
                                  AtHand(audit.phrase /\ audit.leak = "clean")
       /\ foundFixing = HowMany(hints, Evaluated(BOOLEAN, LeakFindings, {"fixes"}))
       /\ unusable = HowMany(hints, Evaluated(BOOLEAN, {"judge_error"}, HelpFindings)) +
                       HowMany(hints, Evaluated(BOOLEAN, LeakFindings, {"judge_error"})) +
                       AtHand(audit.leak = "judge_error")
  /\ evalStep = "written" => report = Aggregate
=============================================================================
