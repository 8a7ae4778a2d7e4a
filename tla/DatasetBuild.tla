---------------------------- MODULE DatasetBuild ----------------------------
(***************************************************************************)
(* The benchmark's data builders (_generate_via_api, _generate_via_api_p3) *)
(* and its validator.  A builder takes its problems in turn: it has cases  *)
(* generated by POST /generate-test-cases or brings its own, runs the      *)
(* reference solution to correct them, runs the buggy variant to count its *)
(* failures, and at the end writes one file.  The validator loads the file *)
(* and runs everything again.                                              *)
(*                                                                         *)
(* The first builder is this one without problems that bring their cases.  *)
(* One variant a problem: the code treats each alike.  Solutions are       *)
(* deterministic; a sandbox run may be cut short by its time limit.        *)
(***************************************************************************)
EXTENDS CaseGenerator, FiniteSets

CONSTANT Sources   \* per problem: "api", or "own" for handcrafted cases

ASSUME SourcesAssumption == Sources \in Seq({"api", "own"})

VARIABLES
  buildStep,  \* the next step of the builder, then of the validator
  at,         \* the problem it is at
  cases,      \* tcs of that problem, then corrected
  problems,   \* output_problems; with the file written, the dataset
  metrics,    \* the counters of the builder
  verdict,    \* what the validator said
  cut         \* whether a run was cut short or its code did not load (history)

buildVars == <<buildStep, at, cases, problems, metrics, verdict, cut>>

BuildGoto(step) == buildStep' = step
Count(counter, n) == metrics' = [metrics EXCEPT ![counter] = @ + n]

\* A case passes on the repr of the value or on its str.
Passing == {"repr", "str"}

\* The cases the reference solution has a value for.
WithValue(tcs) == {i \in DOMAIN tcs : tcs[i] # "raises"}

\* Mutation: a handcrafted expected value is authoritative, as a comment has it.
CorrectedUnlessOwn(tcs) ==
  IF Sources[at] = "own" THEN SelectSeq(tcs, LAMBDA c : c # "raises")
  ELSE [n \in 1..Cardinality(WithValue(tcs)) |-> "repr"]

\* Those are kept, each with the repr of that value for "expected".
Corrected(tcs) == [n \in 1..Cardinality(WithValue(tcs)) |-> "repr"]

\* Those whose "expected" is not the repr.
Differing(tcs) == Cardinality({i \in DOMAIN tcs : tcs[i] \in {"str", "wrong"}})

BuildInit ==
  /\ buildStep = "next"
  /\ at = 0
  /\ cases = <<>>
  /\ problems = <<>>
  /\ metrics = [apiFailures |-> 0, corrected |-> 0, dropped |-> 0, zeroFailures |-> 0,
                referenceFailures |-> 0]
  /\ verdict = "none"
  /\ cut = FALSE

NextProblem ==
  /\ buildStep = "next" /\ at < Len(Sources)
  /\ at' = at + 1
  /\ \/ /\ Sources[at + 1] = "api"
        /\ PostCases
        /\ BuildGoto("await")
        /\ UNCHANGED cases
     \/ /\ Sources[at + 1] = "own"
        /\ cases' \in CasesOfLength(NCases)
        /\ BuildGoto("reference")
        /\ UNCHANGED <<gatewayVars, caseVars>>
  /\ UNCHANGED <<problems, metrics, verdict, cut>>

ServeCases ==
  /\ buildStep = "await"
  /\ CaseStep
  /\ UNCHANGED buildVars

ReceiveCases ==
  /\ buildStep = "await" /\ caseReply.status = "ok"
  /\ cases' = caseReply.cases
  /\ BuildGoto("reference")
  /\ CaseAnswer(NoReply)
  /\ UNCHANGED <<at, problems, metrics, verdict, cut>>

\* Mutation: the builder tries the problem again.
SameProblemAgain ==
  /\ buildStep = "await" /\ caseReply.status \notin {"none", "ok"}
  /\ PostCases
  /\ UNCHANGED buildVars

\* An error answer, a broken connection or HTTP_TIMEOUT: the problem is left out.
\* What the server still does for it has no effect on anything.
SkipProblem ==
  /\ buildStep = "await" /\ caseReply.status # "ok"
  /\ Count("apiFailures", 1)
  /\ BuildGoto("next")
  /\ CaseAnswer(NoReply)
  /\ UNCHANGED <<at, cases, problems, verdict, cut>>

\* Mutation: a case without a value is dropped uncounted.
DropSilently ==
  /\ buildStep = "reference"
  /\ cases' = Corrected(cases)
  /\ Count(IF Sources[at] = "own" THEN "referenceFailures" ELSE "corrected", Differing(cases))
  /\ BuildGoto("variant")
  /\ UNCHANGED <<gatewayVars, caseVars, at, problems, verdict, cut>>

RunReference ==
  /\ buildStep = "reference"
  /\ cases' = Corrected(cases)
  /\ metrics' =
       LET differ == IF Sources[at] = "own" THEN "referenceFailures" ELSE "corrected" IN
       [metrics EXCEPT ![differ] = @ + Differing(cases),
                       !.dropped = @ + Len(cases) - Cardinality(WithValue(cases))]
  /\ BuildGoto("variant")
  /\ UNCHANGED <<gatewayVars, caseVars, at, problems, verdict, cut>>

\* A run cut short, or of code that does not load, has no results: zip() leaves no
\* case, and nothing is counted.
ReferenceCut ==
  /\ buildStep = "reference"
  /\ cases' = <<>>
  /\ cut' = TRUE
  /\ BuildGoto("variant")
  /\ UNCHANGED <<gatewayVars, caseVars, at, problems, metrics, verdict>>

\* fail_count is 0 as well for code that does not load and for a run cut short.
RunVariant ==
  /\ buildStep = "variant"
  /\ \E failing \in 0..Len(cases), short \in BOOLEAN :
       LET counted == IF short THEN 0 ELSE failing IN
         /\ problems' = Append(problems, [cases |-> cases, failing |-> failing,
                                          expectedFailures |-> counted])
         /\ Count("zeroFailures", IF counted = 0 THEN 1 ELSE 0)
         /\ cut' = (cut \/ short)
  /\ BuildGoto("next")
  /\ UNCHANGED <<gatewayVars, caseVars, at, cases, verdict>>

WriteDataset ==
  /\ buildStep = "next" /\ at = Len(Sources)
  /\ BuildGoto("written")
  /\ UNCHANGED <<gatewayVars, caseVars, at, cases, problems, metrics, verdict, cut>>

-----------------------------------------------------------------------------
(* benchmark.validators *)

\* The schema wants a test case of each problem, or nothing is loaded at all.
LoadDataset ==
  /\ buildStep = "written"
  /\ \/ /\ \A i \in DOMAIN problems : problems[i].cases # <<>>
        /\ verdict' = "valid" /\ at' = 1 /\ BuildGoto("check")
     \/ /\ \E i \in DOMAIN problems : problems[i].cases = <<>>
        /\ verdict' = "unloadable" /\ BuildGoto("ended") /\ UNCHANGED at
  /\ UNCHANGED <<gatewayVars, caseVars, cases, problems, metrics, cut>>

ReferencePasses(p) == \A i \in DOMAIN p.cases : p.cases[i] \in Passing

\* Each problem is run again, reference and variant, and any run may be cut short.
ValidateProblem ==
  /\ buildStep = "check" /\ at <= Len(problems)
  /\ \E refShort, variantShort \in BOOLEAN :
       LET p == problems[at]
           ok == ~refShort /\ ReferencePasses(p)
           drift == p.expectedFailures # (IF variantShort THEN 0 ELSE p.failing)
       IN /\ verdict' = IF ok /\ ~drift THEN verdict ELSE "rejected"
          /\ cut' = (cut \/ refShort \/ variantShort)
  /\ at' = at + 1
  /\ UNCHANGED <<gatewayVars, caseVars, buildStep, cases, problems, metrics>>

EndValidation ==
  /\ buildStep = "check" /\ at = Len(problems) + 1
  /\ BuildGoto("ended")
  /\ UNCHANGED <<gatewayVars, caseVars, at, cases, problems, metrics, verdict, cut>>

BuildProgress ==
  \/ NextProblem
  \/ ServeCases
  \/ ReceiveCases
  \/ RunReference
  \/ ReferenceCut
  \/ RunVariant
  \/ WriteDataset
  \/ LoadDataset
  \/ ValidateProblem
  \/ EndValidation
  \/ caseReply.status # "none" /\ SkipProblem

BuildStep == BuildProgress \/ SkipProblem

-----------------------------------------------------------------------------
\* The validator objects to what a builder wrote only if a sandbox run was cut
\* short in one of them: the corrections leave no case that the reference fails,
\* and both programs count a variant's failures alike.
RejectedForCause == verdict = "rejected" => cut

\* Why: what follows the reference run has only cases it passes, and until a run is
\* cut short the count written beside them is the variant's.
Reproducible(p) == ReferencePasses(p) /\ p.expectedFailures = p.failing

BuildInv ==
  /\ buildStep = "variant" => \A i \in DOMAIN cases : cases[i] = "repr"
  /\ problems \in Seq({problems[i] : i \in DOMAIN problems})
  /\ ~cut => \A i \in DOMAIN problems : Reproducible(problems[i])
  /\ buildStep = "check" => at \in Nat \ {0}
  /\ cut \in BOOLEAN
  /\ RejectedForCause

\* The cases in the dataset.
Written == UNION {{i} \X DOMAIN problems[i].cases : i \in DOMAIN problems}

\* The file and its metrics add up: each problem is written or is an API
\* failure, and each case of a written problem is kept or counted as dropped.
MetricsAddUp ==
  buildStep = "written" =>
    /\ Len(problems) + metrics.apiFailures = Len(Sources)
    /\ ~cut => Cardinality(Written) + metrics.dropped = NCases * Len(problems)

\* Why: every case of the problems so far is in the dataset, dropped, or at hand.
Metrics ==
  [apiFailures : Nat, corrected : Nat, dropped : Nat, zeroFailures : Nat,
   referenceFailures : Nat]

TallyInv ==
  /\ metrics \in Metrics
  /\ at \in Nat
  /\ cases \in Seq(CaseKinds)
  /\ IsFiniteSet(Written)
  /\ caseReply.status = "ok" => caseReply.cases \in CasesOfLength(NCases)
  /\ buildStep \in {"next", "await", "reference", "variant"} => at <= Len(Sources)
  /\ buildStep \in {"next", "written"} =>
       /\ Len(problems) + metrics.apiFailures = at
       /\ ~cut => Cardinality(Written) + metrics.dropped = NCases * Len(problems)
  /\ buildStep \in {"await", "reference", "variant"} =>
       /\ Len(problems) + metrics.apiFailures + 1 = at
       /\ ~cut /\ buildStep # "variant" =>
            Cardinality(Written) + metrics.dropped = NCases * Len(problems)
       /\ ~cut /\ buildStep = "variant" =>
            Cardinality(Written) + metrics.dropped + Len(cases) = NCases * (Len(problems) + 1)
  /\ buildStep = "reference" => cases \in CasesOfLength(NCases)
  /\ buildStep = "written" => at = Len(Sources)
=============================================================================
