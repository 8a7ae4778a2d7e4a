--------------------------- MODULE CaseGenerator ---------------------------
(***************************************************************************)
(* POST /generate-test-cases: TestCaseGeneratorService.generate and the    *)
(* route's mapping of exceptions.  The second caller of the gateway; it    *)
(* keeps nothing between requests.                                         *)
(***************************************************************************)
EXTENDS LLMGateway, Sequences

CONSTANT NCases   \* n, how many cases the client wants

ASSUME CasesAssumption == NCases \in Nat \ {0}

VARIABLES
  caseAttempt,  \* attempt, 0 while no request is served
  caseReply     \* the answer: a status and the cases

caseVars == <<caseAttempt, caseReply>>

\* A case by what its "expected" is to the value the reference solution
\* returns: its repr, only its str, or neither; or the reference raises.
CaseKinds == {"repr", "str", "wrong", "raises"}

CasesOfLength(n) == [1..n -> CaseKinds]
Malformed == <<"malformed">>
Payloads ==
  {Malformed} \cup CasesOfLength(NCases - 1) \cup CasesOfLength(NCases)
              \cup CasesOfLength(NCases + 1)

\* _parse: JSON of the right shape with as many cases as were asked for.
Parsed(payload) == payload # Malformed /\ Len(payload) = NCases

NoReply == [status |-> "none"]
CaseAnswer(what) == caseAttempt' = 0 /\ caseReply' = what /\ Forget

CaseInit == caseAttempt = 0 /\ caseReply = NoReply

PostCases ==
  /\ caseAttempt' = 1
  /\ caseReply' = NoReply
  /\ UNCHANGED gatewayVars

AskForCases ==
  /\ caseAttempt > 0
  /\ Ask \/ GatewayStep
  /\ UNCHANGED caseVars

\* The same prompt is sent once more if the answer cannot be used.
ParseCases ==
  /\ caseAttempt > 0 /\ chat = "text"
  /\ \E payload \in Payloads :
       \/ Parsed(payload) /\ CaseAnswer([status |-> "ok", cases |-> payload])
       \/ ~Parsed(payload) /\ caseAttempt = 1 /\ caseAttempt' = 2 /\ HangUp /\ UNCHANGED caseReply
       \/ ~Parsed(payload) /\ caseAttempt = 2 /\ CaseAnswer([status |-> "bad_gateway"])

\* Nothing is asked again after an LLMError.
CasesFail ==
  /\ caseAttempt > 0 /\ chat \in LLMErrors
  /\ CaseAnswer([status |-> IF chat = "timeout" THEN "gateway_timeout" ELSE "bad_gateway"])

CasesRaise ==
  /\ caseAttempt > 0 /\ chat = "raised"
  /\ CaseAnswer([status |-> "error"])

CaseStep == AskForCases \/ ParseCases \/ CasesFail \/ CasesRaise

=============================================================================
