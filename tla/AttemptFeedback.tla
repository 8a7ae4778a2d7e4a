-------------------------- MODULE AttemptFeedback --------------------------
(***************************************************************************)
(* What is said about an attempt after its run (SandboxRun): the row that  *)
(* is stored of it, and the prompts and texts of its hints: HintAgent and  *)
(* its prompt, the leak check of HintService, the filter of                *)
(* RetrievalService.                                                       *)
(*                                                                         *)
(* A text is the set of facts in it.  A fact is a field of a test, named   *)
(* verbatim, or Dictation, a phrase that gives the algorithm away.  What   *)
(* the student's program put out, the results it printed itself among it,  *)
(* its errors and the problem itself are no facts.  The LLM may repeat     *)
(* every fact it is shown, and may dictate of itself.  Hints are made one  *)
(* after another: HintSession has their races.                             *)
(***************************************************************************)
EXTENDS SandboxRun, FiniteSets

CONSTANTS
  NTests,      \* the tests of the problem are 1, 2, ..., NTests, in their order
  Short,       \* those whose input has fewer than 3 characters
  Topics,      \* the topics of the problem
  Constrained, \* those TOPIC_ANTI_LEAK_CONSTRAINTS has a text for
  PastFacts,   \* what is said in the diagnoses and hints of other attempts
  MaxShown,    \* _MAX_FAILED_INPUTS_IN_PROMPT and _MAX_FAILED_TESTS_IN_PROMPT
  MaxChecked   \* _MAX_LEAK_CHECK_INPUTS

Tests == 1..NTests
Fields == {"input", "expected", "description"}
Dictation == <<0, "dictation">>
Reveal(tests, fields) == tests \X fields

\* What may be said of the tests: nothing but their inputs.
Sayable == Reveal(Tests, {"input"}) \cup {Dictation}

ASSUME FeedbackAssumption ==
  /\ NTests \in Nat
  /\ Short \subseteq Tests
  /\ PastFacts \subseteq Sayable
  /\ {MaxShown, MaxChecked} \subseteq Nat
  /\ MaxShown <= MaxChecked

VARIABLES
  row,     \* the verifier_sessions row of the attempt
  hstep,   \* the next step of the hint request, "idle" between two requests
  hinted,  \* whether the attempt has a hint
  told,    \* what its hints say
  prompt,  \* what the LLM is given for the next hint
  text,    \* hint_text
  asked    \* how often the agent was asked for it

hintVars == <<hstep, hinted, told, prompt, text, asked>>
feedbackVars == <<row, hintVars>>
allVars == <<vars, feedbackVars>>

NoRow == [status |-> "none"]
NoPrompt == [failed |-> {}]

\* The first n tests of a set.
First(n, tests) == {i \in tests : Cardinality({j \in tests : j <= i}) <= n}

-----------------------------------------------------------------------------
(* The verifier agent and its row. *)

\* Mutation: RedactedTestResult inherits TestExecutionResult.
StoredUnredacted == {"input", "expected"}

\* _redact_results: the fields of a RedactedTestResult.
StoredFields == {"input"}

\* build_diagnosis_prompt.
DiagnosisPrompt(failed) == Reveal(First(MaxShown, failed), {"input"})

\* The LLM's diagnosis, or one of the fixed sentences.
Diagnoses(failed) ==
  IF diagnosis = "llm" THEN SUBSET (DiagnosisPrompt(failed) \cup {Dictation}) ELSE {{}}

\* Which tests have a result of the wrapper, and which of them passed.
Results ==
  CASE status = "all_passed" /\ program = "passes" -> {[i \in Tests |-> TRUE]}
    [] status = "some_failed" /\ program = "fails" ->
         {passed \in [Tests -> BOOLEAN] : \E i \in Tests : ~passed[i]}
    [] OTHER -> {[i \in {} |-> TRUE]}

FailedIn(results) == {i \in DOMAIN results : ~results[i]}

\* The run is over and leaves nothing but the row.
StoreAttempt ==
  /\ pc = "idle" /\ reply = "output"
  /\ row = NoRow
  /\ \E results \in Results : \E said \in Diagnoses(FailedIn(results)) :
       row' = [status |-> status, results |-> results, fields |-> StoredFields,
               diagnosis |-> said]
  /\ container' = "none" /\ held' = FALSE
  /\ files' = {} /\ known' = {}
  /\ finished' = FALSE /\ expired' = FALSE
  /\ ended' = "none"
  /\ status' = "none" /\ verdicts' = {} /\ diagnosis' = "none" /\ reply' = "none"
  /\ faultAt' = {} /\ faults' = 0
  /\ UNCHANGED <<pc, program, hintVars>>

\* The student submits another attempt.
NextAttempt ==
  /\ row # NoRow /\ hstep \in {"idle", "shipped"}
  /\ row' = NoRow
  /\ hstep' = "idle"
  /\ hinted' = FALSE /\ told' = {}
  /\ prompt' = NoPrompt /\ text' = {} /\ asked' = 0
  /\ UNCHANGED vars

-----------------------------------------------------------------------------
(* The hint. *)

\* filter_dangerous_hints: it drops hints, never diagnoses.
Safe(hints) == {h \in hints : Dictation \notin h}

\* Mutation: the inputs the prompt does not show are checked.
ViolationsBeyondPrompt(said) ==
  LET failed == FailedIn(row.results)
      unseen == First(MaxChecked, failed) \ First(MaxShown, failed)
  IN said \cap (Reveal(unseen \ Short, {"input"}) \cup {Dictation})

\* _find_violations.
Violations(said) ==
  said \cap (Reveal(First(MaxChecked, FailedIn(row.results)) \ Short, {"input"}) \cup {Dictation})

\* The prior hints, or the diagnosis in their place; the cases that retrieval
\* finds, if it works: here, one with one hint.
RequestHint ==
  /\ row # NoRow /\ row.status # "all_passed"
  /\ hstep \in {"idle", "shipped"}
  /\ \E pastHint, pastDiagnosis \in SUBSET PastFacts :
       prompt' = [failed |-> Reveal(First(MaxShown, FailedIn(row.results)), row.fields),
                  prior |-> IF hinted THEN told ELSE row.diagnosis,
                  past |-> UNION Safe({pastHint}),
                  cases |-> pastDiagnosis,
                  warning |-> {},
                  topics |-> Topics \cap Constrained]
  /\ hstep' = "ask"
  /\ text' = {} /\ asked' = 0
  /\ UNCHANGED <<vars, row, hinted, told>>

Shown(p) == p.failed \cup p.prior \cup p.past \cup p.cases \cup p.warning

\* HintAgent.generate: the LLM's answer, or in place of an LLMError a fallback,
\* which says nothing.
Generate ==
  /\ hstep = "ask"
  /\ text' \in SUBSET (Shown(prompt) \cup {Dictation})
  /\ asked' = asked + 1
  /\ hstep' = "check"
  /\ UNCHANGED <<vars, row, hinted, told, prompt>>

\* The second prompt is the first with the violations named in it.
Regenerate ==
  /\ hstep = "check" /\ asked = 1
  /\ Violations(text) # {}
  /\ prompt' = [prompt EXCEPT !.warning = Violations(text)]
  /\ hstep' = "ask"
  /\ UNCHANGED <<vars, row, hinted, told, text, asked>>

\* Clean, or the second text whatever it says.
ShipHint ==
  /\ hstep = "check"
  /\ Violations(text) = {} \/ asked = 2
  /\ hinted' = TRUE /\ told' = told \cup text
  /\ hstep' = "shipped"
  /\ UNCHANGED <<vars, row, prompt, text, asked>>

\* An exception that is no LLMError, or a hint that could not be stored.
HintFails ==
  /\ hstep \in {"ask", "check"}
  /\ hstep' = "idle"
  /\ UNCHANGED <<vars, row, hinted, told, prompt, text, asked>>

-----------------------------------------------------------------------------
FeedbackInit ==
  /\ Init
  /\ row = NoRow
  /\ hstep = "idle"
  /\ hinted = FALSE /\ told = {}
  /\ prompt = NoPrompt /\ text = {} /\ asked = 0

RunAttempt == row = NoRow /\ Next /\ UNCHANGED feedbackVars

FeedbackNext ==
  \/ RunAttempt
  \/ StoreAttempt
  \/ NextAttempt
  \/ RequestHint
  \/ Generate
  \/ Regenerate
  \/ ShipHint
  \/ HintFails

FeedbackSpec == FeedbackInit /\ [][FeedbackNext]_allVars

\* The worker thread of the run goes on, as in SandboxRun.
FairFeedbackSpec == FeedbackSpec /\ WF_allVars(RunStep /\ UNCHANGED feedbackVars)

-----------------------------------------------------------------------------
\* No expected value and no description of a test gets past the run: not into
\* the row, a prompt, a diagnosis or a hint, whatever the LLM repeats and
\* however often its texts come back as prior hints, past cases or warnings.
AnswersStayHidden ==
  /\ row # NoRow => Reveal(DOMAIN row.results, row.fields) \cup row.diagnosis \subseteq Sayable
  /\ prompt # NoPrompt => Shown(prompt) \subseteq Sayable
  /\ told \cup text \subseteq Sayable

\* A hint that names an input which its prompt lists as failed, or that
\* dictates, was asked for again, with a warning and under the same rules; and
\* what it dictates it never has from a hint of another attempt.
LeaksWereAskedTwice ==
  hstep = "shipped" =>
    /\ \A leak \in text :
         leak \in (prompt.failed \ Reveal(Short, Fields)) \cup {Dictation} =>
           asked = 2 /\ prompt.warning # {}
    /\ prompt.topics = Topics \cap Constrained
    /\ Dictation \notin prompt.past
-----------------------------------------------------------------------------
(* The inductive invariant: why the two properties hold. *)

Rows ==
  [status : {"all_passed", "some_failed", "error", "timeout"},
   results : [Tests -> BOOLEAN] \cup [{} -> BOOLEAN],
   fields : {StoredFields},
   diagnosis : SUBSET Sayable]

Prompts ==
  [failed : SUBSET Reveal(Tests, StoredFields), prior : SUBSET Sayable, past : SUBSET Sayable,
   cases : SUBSET Sayable, warning : SUBSET Sayable, topics : {Topics \cap Constrained}]

FeedbackTypeOK ==
  /\ row \in Rows \cup {NoRow}
  /\ hstep \in {"idle", "ask", "check", "shipped"}
  /\ hinted \in BOOLEAN
  /\ told \subseteq Sayable
  /\ prompt \in Prompts \cup {NoPrompt}
  /\ text \subseteq Sayable
  /\ asked \in 0..2

\* Every input a prompt lists is among those the check knows, and the second
\* prompt has its warning.
PromptInv ==
  hstep # "idle" =>
    /\ row \in Rows /\ prompt \in Prompts
    /\ prompt.failed \subseteq Reveal(First(MaxShown, FailedIn(row.results)), StoredFields)
    /\ Dictation \notin prompt.past
    /\ hstep = "ask" => asked \in {0, 1} /\ (asked = 1 => prompt.warning # {})
    /\ hstep # "ask" => asked \in {1, 2} /\ (asked = 2 => prompt.warning # {})
    /\ hstep = "shipped" => Violations(text) = {} \/ asked = 2

FeedbackInv == RunInv /\ FeedbackTypeOK /\ PromptInv
=============================================================================
