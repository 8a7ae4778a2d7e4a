----------------------------- MODULE SandboxRun -----------------------------
(***************************************************************************)
(* VerifierAgent.verify over DockerCodeRunner: one attempt of a student    *)
(* run in a fresh container, judged and diagnosed, beside the container    *)
(* itself, which runs, ends or hangs on its own.  The temporary files and  *)
(* the container are resources of the run, given back in its finally       *)
(* block.  Runs share nothing, so one slot that serves one after another   *)
(* shows them all; what a run has leaked is looked at before the next.     *)
(***************************************************************************)
EXTENDS Naturals

CONSTANT MaxFaults   \* bound on the infrastructure faults of a run

ASSUME SandboxAssumption == MaxFaults \in Nat

VARIABLES
  pc,         \* the next step of the run, "idle" between two runs
  program,    \* what the student's program does with the tests
  container,  \* the state of the run's container in the Docker daemon
  held,       \* whether the variable container is set
  files,      \* the run's temporary files on the host
  known,      \* those whose path the finally block knows
  finished,   \* whether the program came to its own end (history)
  expired,    \* whether a wait ran into its limit (history)
  ended,      \* how the try block ended
  status,     \* SandboxRunResult.status
  verdicts,   \* which values "passed" has in its test_results
  diagnosis,  \* where the diagnosis comes from
  reply,      \* what verify() gave its caller
  faultAt,    \* the steps at which the infrastructure failed (history)
  faults      \* how many times it did

resources == <<container, held, files, known>>
verdict == <<status, verdicts, diagnosis, reply>>
history == <<finished, expired>>
faultVars == <<faultAt, faults>>
vars == <<pc, program, resources, history, ended, verdict, faultVars>>

\* Every test passes, and there is one; some fail; there are none; the code
\* cannot be loaded (exit 2); it ends the interpreter with another code, or
\* with 0 before the results are printed; it never ends; or it ends with 0 and
\* has printed results of its own after the wrapper's or in their place.
Programs == {"passes", "fails", "no_tests", "fatal", "exits", "garbled", "hangs", "prints_results"}

\* What stands between the last markers of the output, if it is results at all.
Printed ==
  CASE program = "passes" -> {{TRUE}}
    [] program = "fails" -> {{FALSE}, BOOLEAN}
    [] program = "no_tests" -> {{}}
    [] program = "prints_results" -> SUBSET BOOLEAN
    [] OTHER -> {}

\* Mutation: no failure is enough.
JudgeNoFailure(found) == IF FALSE \in found THEN "some_failed" ELSE "all_passed"

\* The end of _parse_execution_result.
Judge(found) == IF found # {} /\ FALSE \notin found THEN "all_passed" ELSE "some_failed"

Steps == {"write_code", "write_input", "create", "start", "wait", "kill", "settle",
          "logs", "remove", "unlink", "result", "diagnose"}

Goto(step) == pc' = step
FaultAt(step) ==
  /\ pc = step
  /\ faults < MaxFaults
  /\ faults' = faults + 1
  /\ faultAt' = faultAt \cup {step}

\* The exception leaves the try block for the finally block.
Raised == ended' = "raised" /\ Goto("remove")

Init ==
  /\ pc = "idle"
  /\ program \in Programs
  /\ container = "none" /\ held = FALSE
  /\ files = {} /\ known = {}
  /\ finished = FALSE /\ expired = FALSE
  /\ ended = "none"
  /\ status = "none" /\ verdicts = {} /\ diagnosis = "none" /\ reply = "none"
  /\ faultAt = {} /\ faults = 0

Start(p) ==
  /\ pc = "idle"
  /\ Goto("write_code")
  /\ program' = p
  /\ container' = "none" /\ held' = FALSE
  /\ files' = {} /\ known' = {}
  /\ finished' = FALSE /\ expired' = FALSE
  /\ ended' = "none"
  /\ status' = "none" /\ verdicts' = {} /\ diagnosis' = "none" /\ reply' = "none"
  /\ faultAt' = {} /\ faults' = 0

-----------------------------------------------------------------------------
(* The container. *)

ProgramEnds ==
  /\ container = "running"
  /\ program # "hangs"
  /\ container' = "exited"
  /\ finished' = TRUE
  /\ UNCHANGED <<pc, program, held, files, known, expired, ended, verdict, faultVars>>

-----------------------------------------------------------------------------
(* _execute_code_sync. *)

WriteFile ==
  /\ \/ pc = "write_code" /\ files' = {"code"} /\ Goto("write_input")
     \/ pc = "write_input" /\ files' = {"code", "input"} /\ Goto("create")
  /\ known' = files'
  /\ UNCHANGED <<program, container, held, history, ended, verdict, faultVars>>

CreateContainer ==
  /\ pc = "create"
  /\ container' = "created" /\ held' = TRUE
  /\ Goto("start")
  /\ UNCHANGED <<program, files, known, history, ended, verdict, faultVars>>

StartContainer ==
  /\ pc = "start"
  /\ container' = "running"
  /\ Goto("wait")
  /\ UNCHANGED <<program, held, files, known, history, ended, verdict, faultVars>>

WaitReturns ==
  /\ pc = "wait"
  /\ container = "exited"
  /\ ended' = "exited"
  /\ Goto("logs")
  /\ UNCHANGED <<program, resources, history, verdict, faultVars>>

\* Mutation: when the time is over it is waited for again.
WaitAgain ==
  /\ pc = "wait"
  /\ expired' = TRUE
  /\ UNCHANGED <<pc, program, resources, finished, ended, verdict, faultVars>>

\* ReadTimeout, or the ConnectionError some daemons turn it into: the limit is
\* the client's, and the program may have ended while the answer is on its way.
WaitExpires ==
  /\ pc = "wait"
  /\ expired' = TRUE
  /\ Goto("kill")
  /\ UNCHANGED <<program, resources, finished, ended, verdict, faultVars>>

\* A container that has ended meanwhile cannot be killed: an APIError, passed
\* over.
KillContainer ==
  /\ pc = "kill"
  /\ container' = IF container = "running" THEN "killed" ELSE container
  /\ Goto("settle")
  /\ UNCHANGED <<program, held, files, known, history, ended, verdict, faultVars>>

\* Mutation: the exit code of the killed container is taken for the program's.
JudgeKilled ==
  /\ pc = "settle"
  /\ ended' = "exited"
  /\ Goto("logs")
  /\ UNCHANGED <<program, resources, history, verdict, faultVars>>

\* The second wait, whose exceptions are all passed over; its exit code is not
\* looked at.
SettleAfterKill ==
  /\ pc = "settle"
  /\ ended' = "timed_out"
  /\ Goto("logs")
  /\ UNCHANGED <<program, resources, history, verdict, faultVars>>

ReadLogs ==
  /\ pc = "logs"
  /\ Goto("remove")
  /\ UNCHANGED <<program, resources, history, ended, verdict, faultVars>>

\* Mutation: the container is removed only if nothing was raised.
RemoveUnlessRaised ==
  /\ pc = "remove"
  /\ container' = IF held /\ ended # "raised" THEN "removed" ELSE container
  /\ Goto("unlink")
  /\ UNCHANGED <<program, held, files, known, history, ended, verdict, faultVars>>

RemoveContainer ==
  /\ pc = "remove"
  /\ container' = IF held THEN "removed" ELSE container
  /\ Goto("unlink")
  /\ UNCHANGED <<program, held, files, known, history, ended, verdict, faultVars>>

UnlinkFiles ==
  /\ pc = "unlink"
  /\ files' = files \ known
  /\ Goto("result")
  /\ UNCHANGED <<program, container, held, known, history, ended, verdict, faultVars>>

-----------------------------------------------------------------------------
(* TestRunner.run and VerifierAgent.verify. *)

\* Whatever the sandbox raised becomes a VerifierError.
SandboxUnavailable ==
  /\ pc = "result"
  /\ ended = "raised"
  /\ reply' = "unavailable"
  /\ Goto("idle")
  /\ UNCHANGED <<program, resources, history, ended, status, verdicts, diagnosis, faultVars>>

\* So does what the results fail to validate with: any JSON may be printed.
ResultsInvalid ==
  /\ pc = "result"
  /\ ended = "exited" /\ program = "prints_results"
  /\ reply' = "unavailable"
  /\ Goto("idle")
  /\ UNCHANGED <<program, resources, history, ended, status, verdicts, diagnosis, faultVars>>

TakeResult ==
  /\ pc = "result"
  /\ \/ ended = "timed_out" /\ status' = "timeout" /\ UNCHANGED verdicts
     \/ ended = "exited" /\ Printed = {} /\ status' = "error" /\ UNCHANGED verdicts
     \/ ended = "exited" /\ verdicts' \in Printed /\ status' = Judge(verdicts')
  /\ Goto("diagnose")
  /\ UNCHANGED <<program, resources, history, ended, diagnosis, reply, faultVars>>

\* Only failed tests are shown to the LLM.
DiagnoseWithoutLLM ==
  /\ pc = "diagnose"
  /\ FALSE \notin verdicts
  /\ diagnosis' = IF status = "timeout" THEN "timeout" ELSE "none"
  /\ reply' = "output"
  /\ Goto("idle")
  /\ UNCHANGED <<program, resources, history, ended, status, verdicts, faultVars>>

\* An LLMError is replaced by a fixed sentence; an exception the provider did
\* not translate goes through to the client.
DiagnoseFailedTests ==
  /\ pc = "diagnose"
  /\ FALSE \in verdicts
  /\ \/ diagnosis' \in {"llm", "fallback"} /\ reply' = "output"
     \/ reply' = "error" /\ UNCHANGED diagnosis
  /\ Goto("idle")
  /\ UNCHANGED <<program, resources, history, ended, status, verdicts, faultVars>>

-----------------------------------------------------------------------------
(* Faults of the host's disk, of the daemon and of the connection to it. *)

\* The file may have been made; the large payload is written through at once,
\* and then its path is not known yet.
WriteFails ==
  /\ \/ FaultAt("write_code") /\ files' \in {{}, {"code"}} /\ known' = files'
     \/ FaultAt("write_input") /\ files' \in {{"code"}, {"code", "input"}} /\ known' \in {known, files'}
  /\ Raised
  /\ UNCHANGED <<program, container, held, history, verdict>>

\* The daemon may have done what it was asked before the answer was lost.
CreateFails ==
  /\ FaultAt("create")
  /\ container' \in {"none", "created"}
  /\ Raised
  /\ UNCHANGED <<program, held, files, known, history, verdict>>

StartFails ==
  /\ FaultAt("start")
  /\ container' \in {"created", "running"}
  /\ Raised
  /\ UNCHANGED <<program, held, files, known, history, verdict>>

\* A lost connection is taken for the timeout; any other error is raised.
WaitFails ==
  /\ FaultAt("wait")
  /\ \/ Goto("kill") /\ UNCHANGED ended
     \/ Raised
  /\ UNCHANGED <<program, resources, history, verdict>>

\* The daemon's error is passed over, a lost connection is raised.
KillFails ==
  /\ FaultAt("kill")
  /\ \/ Goto("settle") /\ UNCHANGED ended
     \/ Raised
  /\ UNCHANGED <<program, resources, history, verdict>>

\* Mutation: the except clause for the timeout covers the logs as well.
LogsFailAsTimeout ==
  /\ FaultAt("logs")
  /\ ended' = "timed_out"
  /\ Goto("remove")
  /\ UNCHANGED <<program, resources, history, verdict>>

LogsFail ==
  /\ FaultAt("logs")
  /\ Raised
  /\ UNCHANGED <<program, resources, history, verdict>>

\* In the finally block the daemon's error is passed over; a lost connection
\* ends the block before the files are unlinked.
RemoveFails ==
  /\ FaultAt("remove")
  /\ held
  /\ \/ Goto("unlink") /\ UNCHANGED <<ended, container>>
     \/ ended' = "raised" /\ Goto("result") /\ container' \in {container, "removed"}
  /\ UNCHANGED <<program, held, files, known, history, verdict>>

\* The first unlink that raises leaves what comes after it, and what the block
\* would have returned or raised is lost.
UnlinkFails ==
  /\ FaultAt("unlink")
  /\ known # {}
  /\ files' \in {files} \cup (IF "input" \in known THEN {files \ {"code"}} ELSE {})
  /\ ended' = "raised"
  /\ Goto("result")
  /\ UNCHANGED <<program, container, held, known, history, verdict>>

\* The API process dies; the container does not.
Crash ==
  /\ pc # "idle"
  /\ faults < MaxFaults
  /\ faults' = faults + 1
  /\ faultAt' = faultAt \cup {"crash"}
  /\ reply' = "lost"
  /\ Goto("idle")
  /\ UNCHANGED <<program, resources, history, ended, status, verdicts, diagnosis>>

-----------------------------------------------------------------------------
RunStep ==
  \/ WriteFile
  \/ CreateContainer
  \/ StartContainer
  \/ WaitReturns
  \/ WaitExpires
  \/ KillContainer
  \/ SettleAfterKill
  \/ ReadLogs
  \/ RemoveContainer
  \/ UnlinkFiles
  \/ SandboxUnavailable
  \/ ResultsInvalid
  \/ TakeResult
  \/ DiagnoseWithoutLLM
  \/ DiagnoseFailedTests

RunFault ==
  \/ WriteFails
  \/ CreateFails
  \/ StartFails
  \/ WaitFails
  \/ KillFails
  \/ LogsFail
  \/ RemoveFails
  \/ UnlinkFails
  \/ Crash

Next ==
  \/ \E p \in Programs : Start(p)
  \/ ProgramEnds
  \/ RunStep
  \/ RunFault

Spec == Init /\ [][Next]_vars

\* The worker thread runs and wait() has a time limit.  Nothing obliges the
\* student's program to end.
FairSpec == Spec /\ WF_vars(RunStep)

-----------------------------------------------------------------------------
TypeOK ==
  /\ pc \in Steps \cup {"idle"}
  /\ program \in Programs
  /\ container \in {"none", "created", "running", "exited", "killed", "removed"}
  /\ held \in BOOLEAN /\ finished \in BOOLEAN /\ expired \in BOOLEAN
  /\ files \subseteq {"code", "input"} /\ known \subseteq {"code", "input"}
  /\ ended \in {"none", "exited", "timed_out", "raised"}
  /\ status \in {"none", "all_passed", "some_failed", "error", "timeout"}
  /\ verdicts \subseteq BOOLEAN
  /\ diagnosis \in {"none", "timeout", "llm", "fallback"}
  /\ reply \in {"none", "output", "unavailable", "error", "lost"}
  /\ faultAt \subseteq Steps \cup {"crash"}
  /\ faults \in 0..MaxFaults

\* A verdict is given of no program that was killed, whatever failed on the way
\* and whenever it ended; and it is the program's own: passed is only one that
\* passed a test and failed none, or that printed results itself, which the
\* parser cannot tell from the wrapper's; and one that passed is called nothing
\* else, but for a timeout.
VerdictIsSound ==
  status \notin {"none", "timeout"} =>
    /\ finished
    /\ status = "all_passed" => program \in {"passes", "prints_results"}
    /\ status = "some_failed" => program \in {"fails", "no_tests", "prints_results"}
    /\ program = "passes" => status = "all_passed"

\* Only an expired or a broken wait is called a timeout, no later failure of the
\* daemon; and the program does not go on when its student is told so, though
\* the kill may have failed and the second wait expired, unless its container
\* could not be removed either.
TimeoutHasCause ==
  status = "timeout" =>
    /\ expired \/ "wait" \in faultAt
    /\ container # "running" \/ "remove" \in faultAt

\* Nothing outlives the run, on any path through its try, except and finally
\* blocks.  A container may stay behind only when its creation was not
\* acknowledged, its removal failed or the process died; a file only when the
\* payload could not be written, a removal failed or the process died.
CleansUp ==
  pc = "idle" =>
    /\ container \in {"none", "removed"} \/ faultAt \cap {"create", "remove", "crash"} # {}
    /\ files = {} \/ faultAt \cap {"write_input", "remove", "unlink", "crash"} # {}

\* Every attempt gets its answer, the one that hangs included.
RunEnds == pc # "idle" ~> pc = "idle"
-----------------------------------------------------------------------------
(* The inductive invariant: why the three properties hold. *)

\* The exit code that is judged is that of a container that ended by itself.
VerdictInv ==
  /\ container = "exited" => finished
  /\ ended = "exited" => finished
  /\ pc \notin {"diagnose", "idle"} => status = "none"
  /\ pc = "diagnose" \/ reply = "output" => status # "none"
  /\ VerdictIsSound

\* Only an expired or a broken wait leads to kill, and from there to
\* "timed_out".
TimeoutInv ==
  /\ pc \in {"kill", "settle"} \/ ended = "timed_out" => expired \/ "wait" \in faultAt
  /\ TimeoutHasCause

\* The finally block knows the container unless its creation was lost, and has
\* removed it when it is over.
ContainerInv ==
  /\ pc \in {"start", "wait", "kill", "settle", "logs"} \/ ended = "timed_out" => held
  /\ ~held => container = "none" \/ "create" \in faultAt
  /\ held /\ pc \in {"unlink", "result", "diagnose", "idle"} =>
       container = "removed" \/ "remove" \in faultAt \/ (pc = "idle" /\ "crash" \in faultAt)

\* Likewise the files, unless the payload could not be written.
FilesInv ==
  /\ files \subseteq known \/ "write_input" \in faultAt
  /\ pc \in {"result", "diagnose", "idle"} =>
       files = {} \/ faultAt \cap {"write_input", "remove", "unlink", "crash"} # {}

RunInv == TypeOK /\ VerdictInv /\ TimeoutInv /\ ContainerInv /\ FilesInv
=============================================================================
