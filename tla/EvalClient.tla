----------------------------- MODULE EvalClient -----------------------------
(***************************************************************************)
(* The benchmark, evaluate_problem, as a client of POST /hint.  For each   *)
(* variant of a problem it verifies the code and then asks for a hint      *)
(* NHints times, one after the other, whatever it was answered; each       *)
(* answer or failure becomes a record under its number in the loop.        *)
(*                                                                         *)
(* The client waits 90 seconds.  A hint takes up to two LLM calls with all *)
(* their retries, so the client may stop waiting while the server goes on: *)
(* its next request then runs beside the last one.                         *)
(*                                                                         *)
(* Problems that are evaluated at the same time have no session in common; *)
(* one is modelled.  /solve and /verify answer or fail.  The server takes  *)
(* every request: there is a slot for each hint that may be asked for.     *)
(***************************************************************************)
EXTENDS HintSession, Sequences

CONSTANT NHints   \* N_HINTS_PER_VARIANT

ASSUME HintsPerVariantAssumption ==
  /\ NHints \in Nat \ {0}
  /\ IsFiniteSet(Sessions)
  /\ Cardinality(Requests) >= NHints * Cardinality(Sessions)

VARIABLES
  epc,      \* the next step of evaluate_problem
  todo,     \* the variants, by their verifier session, not taken yet
  variant,  \* the variant of the loop's iteration
  level,    \* hint_idx
  waiting,  \* the request whose answer the client waits for
  records   \* v_record["hints"] of each variant

clientVars == <<epc, todo, variant, level, waiting, records>>
evalVars == <<vars, clientVars>>

\* Mutation: range(N_HINTS_PER_VARIANT) numbers the records from 0.
LevelFromZero(error, at) ==
  [index |-> level - 1, success |-> error = "none", error |-> error, at |-> at]

\* "index" is the number in the loop; "at" is the hint_index of the response,
\* which the client does not look at (history).
Record(error, at) ==
  [index |-> level, success |-> error = "none", error |-> error, at |-> at]

EvalInit ==
  /\ Init
  /\ epc = "solve"
  /\ todo = Sessions
  /\ variant \in Sessions
  /\ level = 0
  /\ waiting \in Requests
  /\ records = [s \in Sessions |-> <<>>]

Solve ==
  /\ epc = "solve"
  /\ epc' \in {"reference", "done"}
  /\ UNCHANGED <<vars, todo, variant, level, waiting, records>>

\* Whether or not the reference solution could be verified, it goes on.
VerifyReference ==
  /\ epc = "reference"
  /\ epc' = "variant"
  /\ UNCHANGED <<vars, todo, variant, level, waiting, records>>

\* A variant that could not be verified gets no hints; one that was verified
\* gets them even if it passed.
VerifyVariant ==
  /\ epc = "variant"
  /\ \E s \in todo :
       /\ todo' = todo \ {s}
       /\ variant' = s
       /\ \/ epc' = "ask" /\ level' = 1
          \/ UNCHANGED <<epc, level>>
  /\ UNCHANGED <<vars, waiting, records>>

EndProblem ==
  /\ epc = "variant"
  /\ todo = {}
  /\ epc' = "done"
  /\ UNCHANGED <<vars, todo, variant, level, waiting, records>>

AskForHint ==
  /\ epc = "ask"
  /\ LET r == CHOOSE slot \in Requests : ~Active(slot)
     IN Submit(r, variant) /\ waiting' = r
  /\ epc' = "wait"
  /\ UNCHANGED <<todo, variant, level, records>>

NextHint ==
  \/ level = NHints /\ epc' = "variant" /\ UNCHANGED level
  \/ level < NHints /\ epc' = "ask" /\ level' = level + 1

Note(error, at) == records' = [records EXCEPT ![variant] = Append(@, Record(error, at))]

\* The request does not reach the server.
ConnectFails ==
  /\ epc = "ask"
  /\ Note("unreachable", 0)
  /\ NextHint
  /\ UNCHANGED <<vars, todo, variant, waiting>>

ReceiveHint ==
  /\ epc = "wait"
  /\ reply[waiting] = "ok"
  /\ epc' = "judge_leak"
  /\ UNCHANGED <<vars, todo, variant, level, waiting, records>>

\* Mutation: a refused hint is asked for again.
AskUntilAnswered ==
  /\ epc = "wait"
  /\ ~Active(waiting) /\ reply[waiting] # "ok"
  /\ epc' = "ask"
  /\ UNCHANGED <<vars, todo, variant, level, waiting, records>>

ReceiveRefusal ==
  /\ epc = "wait"
  /\ ~Active(waiting) /\ reply[waiting] # "ok"
  /\ Note(reply[waiting], 0)
  /\ NextHint
  /\ UNCHANGED <<vars, todo, variant, waiting>>

\* The client gives up; the server does not notice.
StopWaiting ==
  /\ epc = "wait"
  /\ Active(waiting)
  /\ Note("timeout", 0)
  /\ NextHint
  /\ UNCHANGED <<vars, todo, variant, waiting>>

\* The two judges: whatever their LLM calls raise is part of the record.
JudgeLeak ==
  /\ epc = "judge_leak"
  /\ epc' = "judge_helpful"
  /\ UNCHANGED <<vars, todo, variant, level, waiting, records>>

JudgeHelpful ==
  /\ epc = "judge_helpful"
  /\ Note("none", index[waiting])
  /\ NextHint
  /\ UNCHANGED <<vars, todo, variant, waiting>>

ClientStep ==
  \/ Solve
  \/ VerifyReference
  \/ VerifyVariant
  \/ EndProblem
  \/ AskForHint
  \/ ConnectFails
  \/ ReceiveHint
  \/ ReceiveRefusal
  \/ StopWaiting
  \/ JudgeLeak
  \/ JudgeHelpful

ServerStep ==
  \/ \E r \in Requests : Step(r)
  \/ \E r \in Requests : RequestFails(r)
  \/ \E r \in Requests : CommitUnacknowledged(r)
  \/ Crash

EvalNext == ClientStep \/ (ServerStep /\ UNCHANGED clientVars)

\* The client's own steps end, the wait by its time limit; nothing is asked of
\* the server.
EvalSpec == EvalInit /\ [][EvalNext]_evalVars /\ WF_evalVars(ClientStep)

-----------------------------------------------------------------------------
Won(s) == {i \in 1..Len(records[s]) : records[s][i].success}
Lost(s) == {i \in 1..Len(records[s]) : ~records[s][i].success}

\* aggregate_results: hints_total and hint_failures, over the variants.
HintsEvaluated(s) == Cardinality(Won(s))
HintFailures(s) == Cardinality(Lost(s))

\* "Would-fix-bug rate per hint level": a hint counts under the number of the
\* loop, not under its hint_index.  The two differ when a hint failed, in one
\* direction only: no hint counts under a level below its own, and the hints
\* of a session are recorded in the order of their levels.
LevelsNeverUnderstated ==
  \A s \in Sessions : \A i \in Won(s) :
    /\ records[s][i].at <= records[s][i].index
    /\ \A j \in Won(s) : j < i => records[s][j].at < records[s][i].at

\* The failures of an asked server that do not tell whether a hint was made.
Unexplained == {"timeout", "error", "lost"}
Unsure(s) == {i \in 1..Len(records[s]) : records[s][i].error \in Unexplained}

\* A hint is asked for and has no record yet.
Awaited == {"wait", "judge_leak", "judge_helpful"}
Pending(s) == IF epc \in Awaited /\ variant = s THEN 1 ELSE 0

\* The report's counts against the table: every hint evaluated is a row, every
\* row was evaluated or counts among the failures without a reason, and in the
\* end every hint asked for is counted once.
ReportMatchesTable ==
  \A s \in Sessions :
    /\ HintsEvaluated(s) <= Count(s)
    /\ Count(s) <= HintsEvaluated(s) + Cardinality(Unsure(s)) + Pending(s)
    /\ epc = "done" /\ records[s] # <<>> => HintsEvaluated(s) + HintFailures(s) = NHints

\* The evaluation comes to its end however slow or broken the server is.
EvaluationEnds == <>(epc = "done")

-----------------------------------------------------------------------------
(* The inductive invariant: why the report matches the table. *)

Looping == epc \in {"ask"} \cup Awaited

Reported ==
  [index : Nat, success : BOOLEAN, error : Replies \cup {"unreachable", "timeout"}, at : Nat]

ClientTypeOK ==
  /\ epc \in {"solve", "reference", "variant", "done", "ask"} \cup Awaited
  /\ todo \subseteq Sessions
  /\ variant \in Sessions
  /\ level \in Nat
  /\ waiting \in Requests
  /\ records \in [Sessions -> Seq(Reported)]

\* A variant gets NHints records, or none; the one at hand has one for each
\* number of the loop that is over.
LoopInv ==
  /\ Looping => variant \notin todo /\ level \in 1..NHints /\ Len(records[variant]) = level - 1
  /\ \A s \in todo : Len(records[s]) = 0
  /\ \A s \in Sessions : Len(records[s]) \in {0, NHints} \/ (Looping /\ s = variant)

\* A slot has an answer when it is done; the one waited for is the variant's.
WaitInv ==
  /\ \A r \in Requests : Active(r) => reply[r] = "none"
  /\ epc \in Awaited => target[waiting] = variant /\ (reply[waiting] = "none" => Active(waiting))
  /\ epc \in Awaited \ {"wait"} => reply[waiting] = "ok"

\* Those of a session's requests that may still make a hint.
Open(s) ==
  {r \in Requests : target[r] = s /\ pc[r] \in {"lookup", "list", "count"} \cup Admitted}

\* The answer that is waited for is none yet, a hint, or no explanation.
Owed(s) ==
  IF epc \in Awaited /\ variant = s /\ reply[waiting] \in {"none", "ok"} \cup Unexplained
  THEN 1 ELSE 0

\* A hint, or a request that may make one, has a record that says or allows so,
\* or is the one waited for.
OwedInv ==
  \A s \in Sessions :
    Count(s) + Cardinality(Open(s)) <= HintsEvaluated(s) + Cardinality(Unsure(s)) + Owed(s)

\* A hint is recorded at a level not below its own, before those made after it.
RecordInv ==
  \A s \in Sessions : \A i \in 1..Len(records[s]) :
    LET rec == records[s][i] IN
    /\ rec.index = i
    /\ rec.success <=> rec.error = "none"
    /\ rec.success => /\ rec.at \in 1..Count(s) /\ rec.at <= i
                      /\ \A j \in Won(s) : j < i => records[s][j].at < rec.at

\* The hint that is waited for comes after those recorded.
LaterInv ==
  epc \in Awaited =>
    \A i \in Won(variant) :
      /\ pc[waiting] \in Admitted => records[variant][i].at <= counted[waiting]
      /\ pc[waiting] = "refresh" \/ reply[waiting] = "ok" =>
           records[variant][i].at < index[waiting]

\* The requests at work are no more than were ever sent: there is a slot for each.
Asked ==
  IF Looping
  THEN NHints * Cardinality(Sessions \ (todo \cup {variant})) +
         IF epc = "ask" THEN level - 1 ELSE level
  ELSE NHints * Cardinality(Sessions \ todo)

SlotsInv == Cardinality({r \in Requests : Active(r)}) <= Asked

ClientInv ==
  ClientTypeOK /\ LoopInv /\ WaitInv /\ OwedInv /\ RecordInv /\ LaterInv /\ SlotsInv
=============================================================================
