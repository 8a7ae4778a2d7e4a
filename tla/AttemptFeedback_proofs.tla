---------------------- MODULE AttemptFeedback_proofs ----------------------
(***************************************************************************)
(* Proofs about SandboxRun: the verdict is the program's own and nothing   *)
(* outlives the run, for every bound on the infrastructure's faults.  And  *)
(* about AttemptFeedback: for any number of tests and any limits no answer *)
(* gets past the run, and no leak that the prompt invites is shipped at    *)
(* the first try.                                                          *)
(***************************************************************************)
EXTENDS AttemptFeedback, FiniteSetTheorems, TLAPS

USE DEF Goto, vars, resources, verdict, history, faultVars, Steps, Programs

-----------------------------------------------------------------------------
(* The run. *)

\* The run's invariant is inductive: it holds at first ...
LEMMA RunInvInit == Init => RunInv
<1> SUFFICES ASSUME Init PROVE RunInv
  OBVIOUS
<1>1. TypeOK
  <2>1. faults \in 0..MaxFaults
    BY SandboxAssumption DEF Init
  <2>2. QED
    BY <2>1 DEF Init, TypeOK
<1>2. VerdictInv
  BY DEF Init, VerdictInv, VerdictIsSound
<1>3. TimeoutInv
  BY DEF Init, TimeoutInv, TimeoutHasCause
<1>4. ContainerInv
  BY DEF Init, ContainerInv
<1>5. FilesInv
  BY DEF Init, FilesInv
<1>6. QED
  BY <1>1, <1>2, <1>3, <1>4, <1>5 DEF RunInv

\* A fault is counted, and remembered by its step.
LEMMA FaultCounted ==
  ASSUME TypeOK, NEW step \in Steps, FaultAt(step)
  PROVE  faults' \in 0..MaxFaults /\ faultAt' \subseteq Steps \cup {"crash"}
<1>1. faults' \in 0..MaxFaults
  BY SandboxAssumption DEF TypeOK, FaultAt
<1>2. QED
  BY <1>1 DEF TypeOK, FaultAt

\* ... and each step of the run or of the container keeps it, whatever fails.
LEMMA RunInvStep == RunInv /\ [Next]_vars => RunInv'
<1> SUFFICES ASSUME RunInv, [Next]_vars
             PROVE  RunInv'
  OBVIOUS
<1> USE SandboxAssumption DEF RunInv, TypeOK, VerdictInv, VerdictIsSound, TimeoutInv, TimeoutHasCause,
      ContainerInv, FilesInv, Judge, Printed
<1>1. ASSUME NEW p \in Programs, Start(p) PROVE RunInv'
  <2>1. TypeOK'
    <3>1. faults' \in 0..MaxFaults
      BY <1>1 DEF Start
    <3>2. QED
      BY <1>1, <3>1 DEF Start
  <2>2. VerdictInv'
    BY <1>1 DEF Start
  <2>3. TimeoutInv'
    BY <1>1 DEF Start
  <2>4. ContainerInv'
    BY <1>1 DEF Start
  <2>5. FilesInv'
    BY <1>1 DEF Start
  <2>6. QED
    BY <2>1, <2>2, <2>3, <2>4, <2>5
<1>2. CASE ProgramEnds
  BY <1>2 DEF ProgramEnds
<1>3. CASE WriteFile
  BY <1>3 DEF WriteFile
<1>4. CASE CreateContainer
  BY <1>4 DEF CreateContainer
<1>5. CASE StartContainer
  <2>1. TypeOK'
    BY <1>5 DEF StartContainer
  <2>2. VerdictInv'
    BY <1>5 DEF StartContainer
  <2>3. TimeoutInv'
    BY <1>5 DEF StartContainer
  <2>4. ContainerInv'
    BY <1>5 DEF StartContainer
  <2>5. FilesInv'
    BY <1>5 DEF StartContainer
  <2>6. QED
    BY <2>1, <2>2, <2>3, <2>4, <2>5
<1>6. CASE WaitReturns
  BY <1>6 DEF WaitReturns
<1>7. CASE WaitExpires
  BY <1>7 DEF WaitExpires
<1>8. CASE KillContainer
  BY <1>8 DEF KillContainer
<1>9. CASE SettleAfterKill
  BY <1>9 DEF SettleAfterKill
<1>10. CASE ReadLogs
  BY <1>10 DEF ReadLogs
<1>11. CASE RemoveContainer
  BY <1>11 DEF RemoveContainer
<1>12. CASE UnlinkFiles
  BY <1>12 DEF UnlinkFiles
<1>13. CASE SandboxUnavailable
  BY <1>13 DEF SandboxUnavailable
<1>14. CASE TakeResult
  <2>1. TypeOK'
    <3>1. verdicts' \subseteq BOOLEAN
      BY <1>14 DEF TakeResult
    <3>2. status' \in {"all_passed", "some_failed", "error", "timeout"}
      BY <1>14 DEF TakeResult
    <3>3. QED
      BY <1>14, <3>1, <3>2 DEF TakeResult
  <2>2. VerdictInv'
    BY <1>14 DEF TakeResult
  <2>3. TimeoutInv'
    BY <1>14 DEF TakeResult
  <2>4. ContainerInv'
    BY <1>14 DEF TakeResult
  <2>5. FilesInv'
    BY <1>14 DEF TakeResult
  <2>6. QED
    BY <2>1, <2>2, <2>3, <2>4, <2>5
<1>15. CASE ResultsInvalid
  BY <1>15 DEF ResultsInvalid
<1>16. CASE DiagnoseWithoutLLM
  BY <1>16 DEF DiagnoseWithoutLLM
<1>17. CASE DiagnoseFailedTests
  BY <1>17 DEF DiagnoseFailedTests
<1>18. CASE WriteFails
  <2>1. TypeOK'
    <3>1. files' \subseteq {"code", "input"} /\ known' \subseteq {"code", "input"}
      BY <1>18 DEF WriteFails
    <3>2. FaultAt("write_code") \/ FaultAt("write_input")
      BY <1>18 DEF WriteFails
    <3>3. faults' \in 0..MaxFaults /\ faultAt' \subseteq Steps \cup {"crash"}
      BY <3>2, FaultCounted
    <3>4. QED
      BY <1>18, <3>1, <3>3 DEF WriteFails, Raised
  <2>2. VerdictInv'
    BY <1>18 DEF WriteFails, FaultAt, Raised
  <2>3. TimeoutInv'
    BY <1>18 DEF WriteFails, FaultAt, Raised
  <2>4. ContainerInv'
    BY <1>18 DEF WriteFails, FaultAt, Raised
  <2>5. FilesInv'
    BY <1>18 DEF WriteFails, FaultAt, Raised
  <2>6. QED
    BY <2>1, <2>2, <2>3, <2>4, <2>5
<1>19. CASE CreateFails
  BY <1>19 DEF CreateFails, FaultAt, Raised
<1>20. CASE StartFails
  <2>1. TypeOK'
    BY <1>20 DEF StartFails, FaultAt, Raised
  <2>2. VerdictInv'
    BY <1>20 DEF StartFails, FaultAt, Raised
  <2>3. TimeoutInv'
    BY <1>20 DEF StartFails, FaultAt, Raised
  <2>4. ContainerInv'
    BY <1>20 DEF StartFails, FaultAt, Raised
  <2>5. FilesInv'
    BY <1>20 DEF StartFails, FaultAt, Raised
  <2>6. QED
    BY <2>1, <2>2, <2>3, <2>4, <2>5
<1>21. CASE WaitFails
  BY <1>21 DEF WaitFails, FaultAt, Raised
<1>22. CASE KillFails
  BY <1>22 DEF KillFails, FaultAt, Raised
<1>23. CASE LogsFail
  BY <1>23 DEF LogsFail, FaultAt, Raised
<1>24. CASE RemoveFails
  <2>1. TypeOK'
    BY <1>24 DEF RemoveFails, FaultAt, Raised
  <2>2. VerdictInv'
    BY <1>24 DEF RemoveFails, FaultAt, Raised
  <2>3. TimeoutInv'
    BY <1>24 DEF RemoveFails, FaultAt, Raised
  <2>4. ContainerInv'
    BY <1>24 DEF RemoveFails, FaultAt, Raised
  <2>5. FilesInv'
    BY <1>24 DEF RemoveFails, FaultAt, Raised
  <2>6. QED
    BY <2>1, <2>2, <2>3, <2>4, <2>5
<1>25. CASE UnlinkFails
  BY <1>25 DEF UnlinkFails, FaultAt
<1>26. CASE Crash
  BY <1>26 DEF Crash
<1>27. CASE UNCHANGED vars
  BY <1>27
<1>28. QED
  BY <1>1, <1>2, <1>3, <1>4, <1>5, <1>6, <1>7, <1>8, <1>9, <1>10, <1>11, <1>12, <1>13, <1>14, <1>15, <1>16, <1>17, <1>18, <1>19, <1>20, <1>21, <1>22, <1>23, <1>24, <1>25, <1>26, <1>27
     DEF Next, RunStep, RunFault

\* The inductive invariant holds of every run.
THEOREM RunInvariance == Spec => []RunInv
  BY RunInvInit, RunInvStep, PTL DEF Spec

\* CleansUp from what is known of the container and of the files.
LEMMA RunInvCleansUp == RunInv => CleansUp
  BY DEF RunInv, ContainerInv, FilesInv, CleansUp

\* No program is judged that did not come to its own end, and passed is only
\* one that passed a test and failed none, or printed its results itself.
THEOREM VerdictSoundness == Spec => []VerdictIsSound
<1>1. RunInv => VerdictIsSound
  BY DEF RunInv, VerdictInv
<1>2. QED
  BY RunInvariance, <1>1, PTL

\* No program is called too slow but after an expired or a broken wait, nor
\* while it goes on.
THEOREM TimeoutsHaveACause == Spec => []TimeoutHasCause
<1>1. RunInv => TimeoutHasCause
  BY DEF RunInv, TimeoutInv
<1>2. QED
  BY RunInvariance, <1>1, PTL

\* Every path through the try, except and finally blocks gives back the
\* container and the files, but for the failures CleansUp names.
THEOREM RunCleansUp == Spec => []CleansUp
  BY RunInvariance, RunInvCleansUp, PTL

-----------------------------------------------------------------------------
(* What is said of the run. *)

USE DEF hintVars, feedbackVars, allVars

LEMMA FirstIsSubset ==
  ASSUME NEW n, NEW tests PROVE First(n, tests) \subseteq tests
  BY DEF First

\* What the prompt shows is among what the check looks at: 3 and 5.
LEMMA ShownIsChecked ==
  ASSUME NEW tests \in SUBSET Tests PROVE First(MaxShown, tests) \subseteq First(MaxChecked, tests)
<1>1. SUFFICES ASSUME NEW i \in First(MaxShown, tests) PROVE i \in First(MaxChecked, tests)
  OBVIOUS
<1>2. IsFiniteSet({j \in tests : j <= i})
  <2>1. IsFiniteSet(Tests)
    BY FS_Interval, FeedbackAssumption DEF Tests
  <2>2. QED
    BY <2>1, FS_Subset
<1>3. Cardinality({j \in tests : j <= i}) \in Nat
  BY <1>2, FS_CardinalityType
<1>4. QED
  BY <1>1, <1>3, FeedbackAssumption DEF First

LEMMA FailedType ==
  ASSUME NEW results \in [Tests -> BOOLEAN] \cup [{} -> BOOLEAN]
  PROVE  FailedIn(results) \in SUBSET Tests
  BY DEF FailedIn

LEMMA RowFields ==
  ASSUME NEW r \in Rows
  PROVE  /\ r # NoRow
         /\ r.fields = StoredFields /\ r.diagnosis \subseteq Sayable
         /\ r.results \in [Tests -> BOOLEAN] \cup [{} -> BOOLEAN]
         /\ DOMAIN r.results \subseteq Tests
  BY DEF Rows, NoRow

LEMMA PromptFields ==
  ASSUME NEW p \in Prompts
  PROVE  Shown(p) \subseteq Sayable
  BY DEF Prompts, Shown, Sayable, Reveal, StoredFields

-----------------------------------------------------------------------------
(* The run's invariant holds beside the row and its hints as well. *)

LEMMA FeedbackKeepsRunInv == RunInv /\ [FeedbackNext]_allVars => RunInv'
<1> SUFFICES ASSUME RunInv, [FeedbackNext]_allVars PROVE RunInv'
  OBVIOUS
<1>1. CASE RunAttempt
  BY <1>1, RunInvStep DEF RunAttempt
<1>2. CASE StoreAttempt
  <2>1. TypeOK'
    <3>1. faults' \in 0..MaxFaults
      BY <1>2, SandboxAssumption DEF StoreAttempt
    <3>2. QED
      BY <1>2, <3>1 DEF StoreAttempt, RunInv, TypeOK
  <2>2. VerdictInv' /\ TimeoutInv' /\ ContainerInv' /\ FilesInv'
    BY <1>2 DEF StoreAttempt, VerdictInv, VerdictIsSound, TimeoutInv, TimeoutHasCause, ContainerInv,
       FilesInv
  <2>3. QED
    BY <2>1, <2>2 DEF RunInv
<1>3. CASE UNCHANGED vars
  BY <1>3, RunInvStep
<1>4. QED
  BY <1>1, <1>2, <1>3
     DEF FeedbackNext, NextAttempt, RequestHint, Generate, Regenerate, ShipHint, HintFails

-----------------------------------------------------------------------------
(* The invariant of the row and the hints. *)

\* What is stored of an attempt is a row.
LEMMA StoredRow == RunInv /\ StoreAttempt => row' \in Rows
<1> SUFFICES ASSUME RunInv, StoreAttempt PROVE row' \in Rows
  OBVIOUS
<1>1. PICK results \in Results : \E said \in Diagnoses(FailedIn(results)) :
        row' = [status |-> status, results |-> results, fields |-> StoredFields,
                diagnosis |-> said]
  BY DEF StoreAttempt
<1>2. PICK said \in Diagnoses(FailedIn(results)) :
        row' = [status |-> status, results |-> results, fields |-> StoredFields,
                diagnosis |-> said]
  BY <1>1
<1>3. results \in [Tests -> BOOLEAN] \cup [{} -> BOOLEAN]
  BY DEF Results
<1>4. said \in SUBSET Sayable
  <2>1. First(MaxShown, FailedIn(results)) \subseteq Tests
    BY <1>3, FailedType, FirstIsSubset
  <2>2. QED
    BY <2>1 DEF Diagnoses, DiagnosisPrompt, Sayable, Reveal
<1>5. status \in {"all_passed", "some_failed", "error", "timeout"}
  BY DEF StoreAttempt, RunInv, TypeOK, VerdictInv
<1>6. QED
  BY <1>2, <1>3, <1>4, <1>5 DEF Rows

\* A prompt is made of what may be said and lists what the check will know.
LEMMA NewPrompt ==
  ASSUME FeedbackTypeOK, row \in Rows, RequestHint
  PROVE  /\ prompt' \in Prompts
         /\ prompt'.failed \subseteq Reveal(First(MaxShown, FailedIn(row.results)), StoredFields)
         /\ Dictation \notin prompt'.past
<1>1. PICK pastHint \in SUBSET PastFacts, pastDiagnosis \in SUBSET PastFacts :
        prompt' = [failed |-> Reveal(First(MaxShown, FailedIn(row.results)), row.fields),
                   prior |-> IF hinted THEN told ELSE row.diagnosis,
                   past |-> UNION Safe({pastHint}),
                   cases |-> pastDiagnosis,
                   warning |-> {},
                   topics |-> Topics \cap Constrained]
  BY DEF RequestHint
<1>2. row.fields = StoredFields /\ row.diagnosis \subseteq Sayable
  BY RowFields
<1>3. First(MaxShown, FailedIn(row.results)) \subseteq Tests
  BY RowFields, FailedType, FirstIsSubset
<1>4. UNION Safe({pastHint}) \subseteq Sayable /\ Dictation \notin UNION Safe({pastHint})
  BY FeedbackAssumption DEF Safe
<1>5. Reveal(First(MaxShown, FailedIn(row.results)), row.fields) \subseteq Reveal(Tests, StoredFields)
  BY <1>2, <1>3 DEF Reveal
<1>6. pastDiagnosis \subseteq Sayable
  BY FeedbackAssumption
<1>7. (IF hinted THEN told ELSE row.diagnosis) \subseteq Sayable
  BY <1>2 DEF FeedbackTypeOK
<1>8. prompt' \in Prompts
  BY <1>1, <1>4, <1>5, <1>6, <1>7 DEF Prompts
<1>9. QED
  BY <1>1, <1>2, <1>4, <1>8

\* The second prompt is one as well.
LEMMA WarnedPrompt ==
  ASSUME prompt \in Prompts, row \in Rows, Regenerate
  PROVE  /\ prompt' \in Prompts
         /\ prompt'.failed = prompt.failed /\ prompt'.past = prompt.past
         /\ prompt'.warning # {}
<1>1. prompt' = [prompt EXCEPT !.warning = Violations(text)] /\ Violations(text) # {}
  BY DEF Regenerate
<1>2. Violations(text) \subseteq Sayable
  <2>1. First(MaxChecked, FailedIn(row.results)) \subseteq Tests
    BY RowFields, FailedType, FirstIsSubset
  <2>2. QED
    BY <2>1 DEF Violations, Sayable, Reveal
<1>3. QED
  BY <1>1, <1>2 DEF Prompts

LEMMA FeedbackInvInit == FeedbackInit => FeedbackInv
<1> SUFFICES ASSUME FeedbackInit PROVE FeedbackInv
  OBVIOUS
<1>1. RunInv
  BY RunInvInit DEF FeedbackInit
<1>2. hinted \in BOOLEAN
  BY DEF FeedbackInit
<1>3. told \subseteq Sayable /\ text \subseteq Sayable /\ asked \in 0..2
  BY DEF FeedbackInit
<1>4. FeedbackTypeOK /\ PromptInv
  BY <1>2, <1>3 DEF FeedbackInit, FeedbackTypeOK, PromptInv
<1>5. QED
  BY <1>1, <1>4 DEF FeedbackInv

\* Every step of the row or of a hint keeps it.
LEMMA FeedbackInvStep == FeedbackInv /\ [FeedbackNext]_allVars => FeedbackInv'
<1> SUFFICES ASSUME FeedbackInv, [FeedbackNext]_allVars PROVE FeedbackInv'
  OBVIOUS
<1>1. RunInv'
  BY FeedbackKeepsRunInv DEF FeedbackInv
<1>2. SUFFICES FeedbackTypeOK' /\ PromptInv'
  BY <1>1 DEF FeedbackInv
<1>3. FeedbackTypeOK /\ PromptInv /\ RunInv
  BY DEF FeedbackInv
<1>4. CASE UNCHANGED feedbackVars
  BY <1>3, <1>4 DEF FeedbackTypeOK, PromptInv, Violations
<1>5. CASE StoreAttempt
  <2>1. row' \in Rows
    BY <1>3, <1>5, StoredRow
  <2>2. hstep = "idle"
    BY <1>3, <1>5, RowFields DEF StoreAttempt, PromptInv, FeedbackTypeOK
  <2>3. QED
    BY <1>3, <1>5, <2>1, <2>2 DEF StoreAttempt, FeedbackTypeOK, PromptInv
<1>6. CASE NextAttempt
  <2>1. hinted' \in BOOLEAN
    BY <1>6 DEF NextAttempt
  <2>2. told' \subseteq Sayable /\ text' \subseteq Sayable /\ asked' \in 0..2
    BY <1>6 DEF NextAttempt
  <2>3. QED
    BY <1>6, <2>1, <2>2 DEF NextAttempt, FeedbackTypeOK, PromptInv
<1>7. CASE RequestHint
  <2>1. row \in Rows
    BY <1>3, <1>7 DEF RequestHint, FeedbackTypeOK
  <2>2. /\ prompt' \in Prompts
        /\ prompt'.failed \subseteq Reveal(First(MaxShown, FailedIn(row.results)), StoredFields)
        /\ Dictation \notin prompt'.past
    BY <1>3, <1>7, <2>1, NewPrompt
  <2>3. row' = row /\ hinted' = hinted /\ told' = told /\ text' = {} /\ asked' = 0 /\ hstep' = "ask"
    BY <1>7 DEF RequestHint
  <2>4. QED
    BY <1>3, <2>1, <2>2, <2>3 DEF FeedbackTypeOK, PromptInv
<1>8. CASE Generate
  <2>1. text' \subseteq Sayable
    BY <1>3, <1>8, PromptFields DEF Generate, PromptInv, Sayable
  <2>2. QED
    BY <1>3, <1>8, <2>1 DEF Generate, FeedbackTypeOK, PromptInv
<1>9. CASE Regenerate
  <2>1. row \in Rows /\ prompt \in Prompts
    BY <1>3, <1>9 DEF Regenerate, PromptInv
  <2>2. QED
    BY <1>3, <1>9, <2>1, WarnedPrompt DEF Regenerate, FeedbackTypeOK, PromptInv
<1>10. CASE ShipHint
  BY <1>3, <1>10 DEF ShipHint, FeedbackTypeOK, PromptInv, Violations
<1>11. CASE HintFails
  BY <1>3, <1>11 DEF HintFails, FeedbackTypeOK, PromptInv
<1>12. QED
  BY <1>4, <1>5, <1>6, <1>7, <1>8, <1>9, <1>10, <1>11 DEF FeedbackNext, RunAttempt

\* The inductive invariant holds of every attempt, its run and its hints.
THEOREM FeedbackInvariance == FeedbackSpec => []FeedbackInv
  BY FeedbackInvInit, FeedbackInvStep, PTL DEF FeedbackSpec

\* No expected value and no description reaches a row, a prompt or a hint.
THEOREM AnswersHidden == FeedbackSpec => []AnswersStayHidden
<1>1. FeedbackInv => AnswersStayHidden
  <2> SUFFICES ASSUME FeedbackInv PROVE AnswersStayHidden
    OBVIOUS
  <2>1. row \in Rows \cup {NoRow} /\ prompt \in Prompts \cup {NoPrompt} /\ told \cup text \subseteq Sayable
    BY DEF FeedbackInv, FeedbackTypeOK
  <2>2. ASSUME row # NoRow
        PROVE  Reveal(DOMAIN row.results, row.fields) \cup row.diagnosis \subseteq Sayable
    BY <2>1, <2>2, RowFields DEF Sayable, Reveal, StoredFields
  <2>3. ASSUME prompt # NoPrompt PROVE Shown(prompt) \subseteq Sayable
    BY <2>1, <2>3, PromptFields
  <2>4. QED
    BY <2>1, <2>2, <2>3 DEF AnswersStayHidden
<1>2. QED
  BY FeedbackInvariance, <1>1, PTL

\* No hint that names an input its prompt lists, or that dictates, is shipped
\* without a second try.
THEOREM LeaksAskedTwice == FeedbackSpec => []LeaksWereAskedTwice
<1>1. FeedbackInv => LeaksWereAskedTwice
  <2> SUFFICES ASSUME FeedbackInv, hstep = "shipped"
               PROVE  /\ \A leak \in text :
                           leak \in (prompt.failed \ Reveal(Short, Fields)) \cup {Dictation} =>
                             asked = 2 /\ prompt.warning # {}
                      /\ prompt.topics = Topics \cap Constrained
                      /\ Dictation \notin prompt.past
    BY DEF LeaksWereAskedTwice
  <2>1. /\ row \in Rows /\ prompt \in Prompts
        /\ prompt.failed \subseteq Reveal(First(MaxShown, FailedIn(row.results)), StoredFields)
        /\ Dictation \notin prompt.past
        /\ asked = 2 => prompt.warning # {}
        /\ Violations(text) = {} \/ asked = 2
    BY DEF FeedbackInv, PromptInv
  <2>2. First(MaxShown, FailedIn(row.results)) \subseteq First(MaxChecked, FailedIn(row.results))
    BY <2>1, RowFields, FailedType, ShownIsChecked
  <2>3. ASSUME NEW leak \in text,
               leak \in (prompt.failed \ Reveal(Short, Fields)) \cup {Dictation}
        PROVE  leak \in Violations(text)
    BY <2>1, <2>2, <2>3 DEF Violations, Reveal, StoredFields, Fields
  <2>4. prompt.topics = Topics \cap Constrained
    BY <2>1 DEF Prompts
  <2>5. QED
    BY <2>1, <2>3, <2>4
<1>2. QED
  BY FeedbackInvariance, <1>1, PTL
=============================================================================
