---------------------------- MODULE HintSession ----------------------------
(***************************************************************************)
(* POST /hint: HintService.generate_and_persist running in several         *)
(* concurrent requests over the hint_sessions table.                       *)
(*                                                                         *)
(* A request is a coroutine of the API process; it yields at every await,  *)
(* so each statement it sends to the database and each call of the LLM is  *)
(* an action of its own.  Transactions are READ COMMITTED: every SELECT    *)
(* sees the rows committed when it runs.  The table has the constraint     *)
(* UNIQUE (verifier_session_id, hint_index), checked when the INSERT is    *)
(* flushed; an INSERT that meets an uncommitted row with its key waits     *)
(* until the transaction that holds it ends.                               *)
(*                                                                         *)
(* A member of Requests is a request slot: it serves one request after     *)
(* another, so Cardinality(Requests) is how many requests run at a time    *)
(* and not how many are ever made.                                         *)
(***************************************************************************)
EXTENDS Naturals, FiniteSets

CONSTANTS
  Requests,     \* the request slots
  Sessions,     \* the verifier_session ids that clients send
  Verdict,      \* what the verifier_sessions table holds for each id
  Diagnosed,    \* the sessions whose diagnosis is not empty
  MaxHints,     \* MAX_HINTS_PER_VERIFIER_SESSION
  RagDbErrors,  \* whether the similarity query may fail in the database
  MaxFaults     \* bound on the infrastructure faults of a behaviour

Verdicts == {"failed", "passed", "malformed", "absent"}

ASSUME RequestsAssumption == IsFiniteSet(Requests)
ASSUME VerdictAssumption ==
  /\ Verdict \in [Sessions -> Verdicts]
  /\ Diagnosed \subseteq Sessions
ASSUME BoundsAssumption ==
  /\ MaxHints \in Nat \ {0}
  /\ MaxFaults \in Nat
  /\ RagDbErrors \in BOOLEAN

VARIABLES
  hints,    \* the committed rows of hint_sessions, by verifier session
  pc,       \* the next step of each request, "idle" between two requests
  target,   \* the verifier_session_id of the request
  listed,   \* len(prior_hint_rows): the prior hints the prompt is built from
  counted,  \* actual_prior_hint_count
  index,    \* output_hint_index
  attempt,  \* the iteration of the insert loop
  txn,      \* "aborted" once a statement of the transaction has failed
  wrote,    \* how many rows the request has committed (history)
  reply,    \* the outcome of the slot's last request
  faults    \* the infrastructure faults so far, at most MaxFaults

local == <<listed, counted, index, attempt, txn>>
vars == <<hints, pc, target, local, wrote, reply, faults>>

Steps == {"lookup", "list", "count", "retrieve", "generate", "regenerate",
          "insert", "relist", "commit", "refresh"}

\* The exceptions of hint_service.py, by the answer the route maps them to;
\* "error" is any other exception (500), "lost" a connection that died with
\* the process.
Replies == {"none", "ok", "not_found", "passed", "limit", "malformed",
            "conflict", "error", "lost"}

\* hint_text stands for itself as the slot that generated it.
Row == [index : Nat \ {0}, text : Requests, prior : Nat]

Active(r) == pc[r] # "idle"
Count(s) == Cardinality(hints[s])
Indices(s) == {h.index : h \in hints[s]}

\* The diagnosis is put in front of the LLM when the list of prior hints is
\* empty.
Seeded(r) == listed[r] = 0 /\ target[r] \in Diagnosed

\* Mutation: the diagnosis is put in front of the prior hints, not in their
\* place.
SeedAlways(r) == listed[r] + (IF target[r] \in Diagnosed THEN 1 ELSE 0)

\* llm_prior_hints_count: what the LLM saw, the seed included.
PriorHintsCount(r) == IF Seeded(r) THEN 1 ELSE listed[r]

NewRow(r) == [index |-> index[r], text |-> r, prior |-> PriorHintsCount(r)]

\* Another transaction holds an uncommitted row with the key r inserts.
KeyIsHeld(r) ==
  \E q \in Requests \ {r} :
    pc[q] = "commit" /\ target[q] = target[r] /\ index[q] = index[r]

\* Mutation: no UNIQUE constraint.
NoUniqueKey(r) == FALSE

KeyIsTaken(r) == index[r] \in Indices(target[r])

Goto(r, step) == pc' = [pc EXCEPT ![r] = step]

Finish(r, answer) ==
  /\ Goto(r, "idle")
  /\ reply' = [reply EXCEPT ![r] = answer]

Persist(r) ==
  /\ hints' = [hints EXCEPT ![target[r]] = @ \cup {NewRow(r)}]
  /\ wrote' = [wrote EXCEPT ![r] = @ + 1]

-----------------------------------------------------------------------------
Init ==
  /\ hints = [s \in Sessions |-> {}]
  /\ pc = [r \in Requests |-> "idle"]
  /\ target \in [Requests -> Sessions]
  /\ listed = [r \in Requests |-> 0]
  /\ counted = [r \in Requests |-> 0]
  /\ index = [r \in Requests |-> 0]
  /\ attempt = [r \in Requests |-> 0]
  /\ txn = [r \in Requests |-> "live"]
  /\ wrote = [r \in Requests |-> 0]
  /\ reply = [r \in Requests |-> "none"]
  /\ faults = 0

\* A client posts a verifier_session_id.
Submit(r, s) ==
  /\ ~Active(r)
  /\ Goto(r, "lookup")
  /\ target' = [target EXCEPT ![r] = s]
  /\ listed' = [listed EXCEPT ![r] = 0]
  /\ counted' = [counted EXCEPT ![r] = 0]
  /\ index' = [index EXCEPT ![r] = 0]
  /\ attempt' = [attempt EXCEPT ![r] = 0]
  /\ txn' = [txn EXCEPT ![r] = "live"]
  /\ wrote' = [wrote EXCEPT ![r] = 0]
  /\ reply' = [reply EXCEPT ![r] = "none"]
  /\ UNCHANGED <<hints, faults>>

\* The verifier row, then its solver row: 404, 409, or go on.
LookUpSession(r) ==
  /\ pc[r] = "lookup"
  /\ \/ Verdict[target[r]] = "absent" /\ Finish(r, "not_found")
     \/ Verdict[target[r]] = "passed" /\ Finish(r, "passed")
     \/ Verdict[target[r]] \in {"failed", "malformed"} /\ Goto(r, "list") /\ UNCHANGED reply
  /\ UNCHANGED <<hints, target, local, wrote, faults>>

ListPriorHints(r) ==
  /\ pc[r] = "list"
  /\ listed' = [listed EXCEPT ![r] = Count(target[r])]
  /\ Goto(r, "count")
  /\ UNCHANGED <<hints, target, counted, index, attempt, txn, wrote, reply, faults>>

\* Mutation: the cap is compared with > and not >=.
CapOffByOne(r) ==
  /\ pc[r] = "count"
  /\ counted' = [counted EXCEPT ![r] = Count(target[r])]
  /\ \/ Count(target[r]) > MaxHints /\ Finish(r, "limit")
     \/ /\ Count(target[r]) <= MaxHints
        /\ \/ Verdict[target[r]] = "malformed" /\ Finish(r, "malformed")
           \/ Verdict[target[r]] # "malformed" /\ Goto(r, "retrieve") /\ UNCHANGED reply
  /\ UNCHANGED <<hints, target, listed, index, attempt, txn, wrote, faults>>

\* The count is a second statement: it may see rows the list did not.
CountPriorHints(r) ==
  /\ pc[r] = "count"
  /\ counted' = [counted EXCEPT ![r] = Count(target[r])]
  /\ \/ Count(target[r]) >= MaxHints /\ Finish(r, "limit")
     \/ /\ Count(target[r]) < MaxHints
        /\ \/ Verdict[target[r]] = "malformed" /\ Finish(r, "malformed")
           \/ Verdict[target[r]] # "malformed" /\ Goto(r, "retrieve") /\ UNCHANGED reply
  /\ UNCHANGED <<hints, target, listed, index, attempt, txn, wrote, faults>>

\* RAG is off, finds something or nothing, or fails outside the database.
RetrieveContext(r) ==
  /\ pc[r] = "retrieve"
  /\ Goto(r, "generate")
  /\ UNCHANGED <<hints, target, local, wrote, reply, faults>>

\* The similarity query fails in the database: the exception is swallowed and
\* nothing rolls the transaction back.
RetrieveDbError(r) ==
  /\ RagDbErrors
  /\ pc[r] = "retrieve"
  /\ txn' = [txn EXCEPT ![r] = "aborted"]
  /\ Goto(r, "generate")
  /\ UNCHANGED <<hints, target, listed, counted, index, attempt, wrote, reply, faults>>

\* The first LLM call; its hint is clean, or it leaks and is regenerated.
GenerateHint(r) ==
  /\ pc[r] = "generate"
  /\ \/ /\ index' = [index EXCEPT ![r] = counted[r] + 1]
        /\ Goto(r, "insert")
     \/ Goto(r, "regenerate") /\ UNCHANGED index
  /\ UNCHANGED <<hints, target, listed, counted, attempt, txn, wrote, reply, faults>>

\* The second call is shipped whatever it says.
RegenerateHint(r) ==
  /\ pc[r] = "regenerate"
  /\ index' = [index EXCEPT ![r] = counted[r] + 1]
  /\ Goto(r, "insert")
  /\ UNCHANGED <<hints, target, listed, counted, attempt, txn, wrote, reply, faults>>

\* HintRepository.create: the flush goes through and awaits its commit.
InsertHint(r) ==
  /\ pc[r] = "insert"
  /\ txn[r] = "live"
  /\ ~KeyIsTaken(r)
  /\ ~KeyIsHeld(r)
  /\ Goto(r, "commit")
  /\ UNCHANGED <<hints, target, local, wrote, reply, faults>>

\* PostgreSQL refuses every statement of an aborted transaction, and what it
\* raises is not an IntegrityError.
InsertIntoAborted(r) ==
  /\ pc[r] = "insert"
  /\ txn[r] = "aborted"
  /\ Finish(r, "error")
  /\ UNCHANGED <<hints, target, local, wrote, faults>>

\* Mutations: no second attempt; or one with the stale index, again and again.
GiveUpAtOnce(r) ==
  /\ pc[r] = "insert"
  /\ txn[r] = "live"
  /\ KeyIsTaken(r)
  /\ Finish(r, "conflict")
  /\ UNCHANGED <<hints, target, local, wrote, faults>>

\* IntegrityError: roll back; the second time give up.
InsertCollides(r) ==
  /\ pc[r] = "insert"
  /\ txn[r] = "live"
  /\ KeyIsTaken(r)
  /\ \/ attempt[r] = 1 /\ Finish(r, "conflict") /\ UNCHANGED attempt
     \/ /\ attempt[r] = 0
        /\ attempt' = [attempt EXCEPT ![r] = 1]
        /\ Goto(r, "relist")
        /\ UNCHANGED reply
  /\ UNCHANGED <<hints, target, listed, counted, index, txn, wrote, faults>>

\* A fresh index from the rows now committed; neither the cap nor the prompt
\* is looked at again.
RelistHints(r) ==
  /\ pc[r] = "relist"
  /\ index' = [index EXCEPT ![r] = Count(target[r]) + 1]
  /\ Goto(r, "insert")
  /\ UNCHANGED <<hints, target, listed, counted, attempt, txn, wrote, reply, faults>>

\* Mutation: flushed and never committed.
CommitForgotten(r) ==
  /\ pc[r] = "commit"
  /\ Goto(r, "refresh")
  /\ UNCHANGED <<hints, target, local, wrote, reply, faults>>

CommitHint(r) ==
  /\ pc[r] = "commit"
  /\ Persist(r)
  /\ Goto(r, "refresh")
  /\ UNCHANGED <<target, local, reply, faults>>

\* Mutation: the insert loop is not left once the row is committed.
LoopGoesOn(r) ==
  /\ pc[r] = "refresh"
  /\ attempt' = [attempt EXCEPT ![r] = 1]
  /\ Goto(r, "insert")
  /\ UNCHANGED <<hints, target, listed, counted, index, txn, wrote, reply, faults>>

RefreshHint(r) ==
  /\ pc[r] = "refresh"
  /\ Finish(r, "ok")
  /\ UNCHANGED <<hints, target, local, wrote, faults>>

-----------------------------------------------------------------------------
\* Faults.  The connection dies, the pool times out or the LLM raises what
\* HintAgent does not catch: get_db_session rolls back and the client gets 500.
RequestFails(r) ==
  /\ faults < MaxFaults
  /\ Active(r)
  /\ Finish(r, "error")
  /\ faults' = faults + 1
  /\ UNCHANGED <<hints, target, local, wrote>>

\* The server commits, and the connection dies before the answer arrives.
CommitUnacknowledged(r) ==
  /\ faults < MaxFaults
  /\ pc[r] = "commit"
  /\ Persist(r)
  /\ Finish(r, "error")
  /\ faults' = faults + 1
  /\ UNCHANGED <<target, local>>

\* The API process dies: what was not committed is rolled back.
Crash ==
  /\ faults < MaxFaults
  /\ \E r \in Requests : Active(r)
  /\ pc' = [r \in Requests |-> "idle"]
  /\ reply' = [r \in Requests |-> IF Active(r) THEN "lost" ELSE reply[r]]
  /\ faults' = faults + 1
  /\ UNCHANGED <<hints, target, local, wrote>>

-----------------------------------------------------------------------------
Step(r) ==
  \/ LookUpSession(r)
  \/ ListPriorHints(r)
  \/ CountPriorHints(r)
  \/ RetrieveContext(r)
  \/ RetrieveDbError(r)
  \/ GenerateHint(r)
  \/ RegenerateHint(r)
  \/ InsertHint(r)
  \/ InsertIntoAborted(r)
  \/ InsertCollides(r)
  \/ RelistHints(r)
  \/ CommitHint(r)
  \/ RefreshHint(r)

Next ==
  \/ \E r \in Requests, s \in Sessions : Submit(r, s)
  \/ \E r \in Requests : Step(r)
  \/ \E r \in Requests : RequestFails(r)
  \/ \E r \in Requests : CommitUnacknowledged(r)
  \/ Crash

Spec == Init /\ [][Next]_vars

\* Every await returns: statements and commits by the database, LLM calls by
\* their timeouts.  Nothing obliges a client to submit or a fault to happen.
FairSpec == Spec /\ \A r \in Requests : WF_vars(Step(r))

-----------------------------------------------------------------------------
TypeOK ==
  /\ hints \in [Sessions -> SUBSET Row]
  /\ \A s \in Sessions : IsFiniteSet(hints[s])
  /\ pc \in [Requests -> Steps \cup {"idle"}]
  /\ target \in [Requests -> Sessions]
  /\ listed \in [Requests -> Nat]
  /\ counted \in [Requests -> Nat]
  /\ index \in [Requests -> Nat]
  /\ attempt \in [Requests -> {0, 1}]
  /\ txn \in [Requests -> {"live", "aborted"}]
  /\ wrote \in [Requests -> Nat]
  /\ reply \in [Requests -> Replies]
  /\ faults \in 0..MaxFaults

\* The committed hints of a session are numbered 1, 2, ..., n, each number
\* once, although every request numbers its own from a count that may be
\* stale: only the UNIQUE constraint and the one retry keep them so.
Contiguous ==
  \A s \in Sessions :
    /\ Indices(s) = 1..Count(s)
    /\ \A g, h \in hints[s] : g.index = h.index => g = h

\* The steps after the cap check and before the row is committed.
Admitted == {"retrieve", "generate", "regenerate", "insert", "relist", "commit"}
InFlight(s) == {r \in Requests : target[r] = s /\ pc[r] \in Admitted}

\* What the unlocked cap check guarantees: a session never gets more than
\* MAX_HINTS_PER_VERIFIER_SESSION - 1 hints plus one for each request that
\* can run at the same time.
MostHints == MaxHints - 1 + Cardinality(Requests)
OvershootBound == \A s \in Sessions : Count(s) <= MostHints

\* What the comment in generate_and_persist accepts: "at most one extra hint
\* past the cap".
AtMostOneOverCap == \A s \in Sessions : Count(s) <= MaxHints + 1

\* The provenance column: prior_hints_count never claims more hints than were
\* committed before the row, except the diagnosis seeded for an empty list.
PromptNeverAhead ==
  \A s \in Sessions : \A h \in hints[s] :
    \/ h.prior < h.index
    \/ h.prior = 1 /\ h.index = 1 /\ s \in Diagnosed

\* A client that got 200 holds a hint that is in the table, under the index it
\* was told and written by its own request, once.
SuccessIsDurable ==
  \A r \in Requests : reply[r] = "ok" =>
    /\ wrote[r] = 1
    /\ \E h \in hints[target[r]] : h.index = index[r] /\ h.text = r

\* A refused request has used up no hint, so the client may ask again; even
\* an internal error has used up one at most.
RefusalLeavesNoRow ==
  \A r \in Requests :
    /\ reply[r] \in {"not_found", "passed", "limit", "malformed", "conflict"} => wrote[r] = 0
    /\ wrote[r] <= 1

\* 429 means the cap is reached; 409 after the retry means two other requests
\* added hints meanwhile, so contention never refuses everyone.
RefusalIsJustified ==
  \A r \in Requests :
    /\ reply[r] = "limit" => Count(target[r]) >= MaxHints
    /\ reply[r] = "conflict" => Count(target[r]) >= counted[r] + 2

\* With no infrastructure fault (MaxFaults = 0) nobody gets an internal
\* server error, a failing retrieval included.
NoServerError == \A r \in Requests : reply[r] # "error"

\* No request hangs, whatever it waits for behind other requests' inserts.
EveryRequestAnswered == \A r \in Requests : Active(r) ~> ~Active(r)

-----------------------------------------------------------------------------
(* The inductive invariant: why Contiguous and OvershootBound hold. *)

\* An index is computed from a count of rows, and rows are never taken back:
\* it is at most one ahead of the table.  A row that waits for its commit has
\* an index nobody else has, committed or not; so it is exactly one ahead.
NumberingInv ==
  \A r \in Requests :
    /\ pc[r] \in Admitted => counted[r] <= Count(target[r])
    /\ pc[r] \in {"insert", "commit"} => index[r] \in 1..(Count(target[r]) + 1)
    /\ pc[r] = "commit" => ~KeyIsTaken(r) /\ ~KeyIsHeld(r)

\* A request is admitted while its session has fewer than MaxHints hints, and
\* stops being in flight when it commits: rows and requests in flight trade.
AdmissionInv ==
  \A s \in Sessions : Count(s) + Cardinality(InFlight(s)) <= MostHints

IInv == TypeOK /\ Contiguous /\ NumberingInv /\ AdmissionInv

(* What it takes besides for the answers and the provenance column. *)

\* A request writes once, as its last step but one; its prompt is no newer than
\* its count; and its index is one ahead of its count, or two and more after a
\* collision, which a row in the table accounts for.
AttemptInv ==
  \A r \in Requests :
    /\ pc[r] \in {"lookup", "list", "count"} \cup Admitted => wrote[r] = 0 /\ reply[r] = "none"
    /\ pc[r] = "refresh" =>
         wrote[r] = 1 /\ \E h \in hints[target[r]] : h.index = index[r] /\ h.text = r
    /\ pc[r] = "count" => listed[r] <= Count(target[r])
    /\ pc[r] \in Admitted => listed[r] <= counted[r]
    /\ pc[r] \in {"lookup", "list", "count", "retrieve", "generate", "regenerate"} => attempt[r] = 0
    /\ pc[r] \in {"insert", "commit"} => index[r] > counted[r] + attempt[r]
    /\ pc[r] = "insert" /\ attempt[r] = 0 => index[r] = counted[r] + 1
    /\ pc[r] = "relist" => Count(target[r]) > counted[r] /\ attempt[r] = 1

AnswersInv ==
  /\ AttemptInv
  /\ PromptNeverAhead
  /\ SuccessIsDurable
  /\ RefusalLeavesNoRow
  /\ RefusalIsJustified

-----------------------------------------------------------------------------
\* The ledger a client reads with GET /verifier-sessions/{id}/hints: the rows of
\* the session ordered by hint_index, one for each index as long as Contiguous.
RowAt(s, i) == CHOOSE h \in hints[s] : h.index = i
Ledger == [s \in Sessions |-> [i \in 1..Count(s) |-> RowAt(s, i).text]]

Abstract == INSTANCE HintLedger
  WITH ledger <- Ledger, Texts <- Requests, MostHints <- MostHints

\* The service implements an append-only ledger of bounded length.
ImplementsLedger == Abstract!Spec
=============================================================================
