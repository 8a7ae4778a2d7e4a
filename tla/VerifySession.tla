--------------------------- MODULE VerifySession ---------------------------
(***************************************************************************)
(* POST /verify: VerifierService.verify_and_persist and its RAG hook, over *)
(* the verifier_sessions table.                                            *)
(*                                                                         *)
(* A request runs the student's code, commits a row, answers with it, and  *)
(* for a failed attempt first embeds the failure and records the outcome   *)
(* in the row (embedding_status).  Each request makes the one row that has *)
(* its name.  An UPDATE locks the row until its transaction ends; other    *)
(* updates of the row wait.  The script backfill_embeddings updates the    *)
(* same rows: see EmbeddingBackfill.                                       *)
(***************************************************************************)
EXTENDS Naturals

CONSTANTS
  Requests,   \* the verify requests, each the name of the row it makes
  Runs,       \* other transactions that may hold a row's lock
  MaxFaults   \* bound on the infrastructure faults of a behaviour

ASSUME VerifyAssumption == MaxFaults \in Nat /\ Requests \cap Runs = {}

VARIABLES
  table,      \* the committed embedding columns of each row
  update,     \* the uncommitted UPDATE of each row, with its transaction
  kind,       \* what the verifier said of the attempt
  pc,         \* the next step of each request
  expired,    \* whether the ORM attributes of the request's row are expired
  reply,      \* what the client got
  faults      \* the infrastructure faults so far

verifyVars == <<table, update, kind, pc, expired, reply, faults>>

NoUpdate == [by |-> "nobody"]
NoRow == [status |-> "none", embedding |-> "null"]
Fresh == [status |-> "pending", embedding |-> "null"]
Embedded == [status |-> "success", embedding |-> "vector"]
Failed == [status |-> "failed", embedding |-> "null"]
RowStates == {NoRow, Fresh, Embedded, Failed}

\* all_passed; some_failed, with test results; timeout or error, without.
Kinds == {"passed", "failed", "no_results"}

\* The steps before the response is settled, those of the RAG hook's try
\* block, and those of its except branch.
MainSteps == {"lookup", "verify", "insert", "commit", "refresh"}
EmbedSteps == {"embed", "update", "commit_success", "refresh_success"}
RecoverySteps == {"rollback", "mark", "commit_failed", "refresh_failed"}
Replies == {"none", "ok", "not_found", "malformed", "unavailable", "error", "lost"}

Active(v) == pc[v] # "done"
Goto(v, step) == pc' = [pc EXCEPT ![v] = step]
Answer(v, what) == Goto(v, "done") /\ reply' = [reply EXCEPT ![v] = what]

Exists(v) == table[v] # NoRow
IsLocked(v) == update[v] # NoUpdate
Locks(t, v) == update[v] # NoUpdate /\ update[v].by = t

\* update_embedding: UPDATE ... WHERE id = v, whatever the row now holds.
UpdateEmbedding(t, v, row) ==
  /\ ~IsLocked(v)
  /\ update' = [update EXCEPT ![v] = [by |-> t, row |-> row]]

CommitUpdate(t, v) ==
  /\ Locks(t, v)
  /\ table' = [table EXCEPT ![v] = update[v].row]
  /\ update' = [update EXCEPT ![v] = NoUpdate]

\* The transaction ends without a commit.
Unlocked(t, v) == IF Locks(t, v) THEN [update EXCEPT ![v] = NoUpdate] ELSE update

\* EmbeddingService.embed returns a vector, or raises: into the except branch.
EmbedOutcomes == {"update", "rollback"}

\* The rows a hint may quote: the WHERE clause of _SIMILARITY_SQL.  The session
\* that asks, the similarity and the limit only take fewer.
Retrievable ==
  {v \in Requests :
     /\ table[v].embedding = "vector"
     /\ table[v].status = "success"
     /\ kind[v] # "passed"}

-----------------------------------------------------------------------------
VerifyInit ==
  /\ table = [v \in Requests |-> NoRow]
  /\ update = [v \in Requests |-> NoUpdate]
  /\ kind = [v \in Requests |-> "passed"]
  /\ pc = [v \in Requests |-> "lookup"]
  /\ expired = [v \in Requests |-> FALSE]
  /\ reply = [v \in Requests |-> "none"]
  /\ faults = 0

\* The solver row and its test cases; VerifierInput wants an entry function, and the
\* ValidationError of a row without one is handled nowhere.
LookUpSolver(v) ==
  /\ pc[v] = "lookup"
  /\ \/ \E refusal \in {"not_found", "malformed", "error"} : Answer(v, refusal)
     \/ Goto(v, "verify") /\ UNCHANGED reply
  /\ UNCHANGED <<table, update, kind, expired, faults>>

\* VerifierAgent.verify: the sandbox, then the diagnosis; a sandbox that cannot
\* run is a VerifierError (503), a diagnosis that cannot be had is replaced.
RunVerifier(v) ==
  /\ pc[v] = "verify"
  /\ \/ Answer(v, "unavailable") /\ UNCHANGED kind
     \/ /\ \E k \in Kinds : kind' = [kind EXCEPT ![v] = k]
        /\ Goto(v, "insert")
        /\ UNCHANGED reply
  /\ UNCHANGED <<table, update, expired, faults>>

InsertRow(v) ==
  /\ pc[v] = "insert"
  /\ Goto(v, "commit")
  /\ UNCHANGED <<table, update, kind, expired, reply, faults>>

\* Mutation: the row is flushed and never committed.
CommitRowForgotten(v) ==
  /\ pc[v] = "commit"
  /\ Goto(v, "refresh")
  /\ UNCHANGED <<table, update, kind, expired, reply, faults>>

CommitRow(v) ==
  /\ pc[v] = "commit"
  /\ table' = [table EXCEPT ![v] = Fresh]
  /\ Goto(v, "refresh")
  /\ UNCHANGED <<update, kind, expired, reply, faults>>

\* Only a failed attempt with test results is embedded.
RefreshRow(v) ==
  /\ pc[v] = "refresh"
  /\ \/ kind[v] = "failed" /\ Goto(v, "embed") /\ UNCHANGED reply
     \/ kind[v] # "failed" /\ Answer(v, "ok")
  /\ UNCHANGED <<table, update, kind, expired, faults>>

EmbedFailure(v) ==
  /\ pc[v] = "embed"
  /\ \E step \in EmbedOutcomes : Goto(v, step)
  /\ UNCHANGED <<table, update, kind, expired, reply, faults>>

UpdateSuccess(v) ==
  /\ pc[v] = "update"
  /\ UpdateEmbedding(v, v, Embedded)
  /\ Goto(v, "commit_success")
  /\ UNCHANGED <<table, kind, expired, reply, faults>>

CommitSuccess(v) ==
  /\ pc[v] = "commit_success"
  /\ CommitUpdate(v, v)
  /\ Goto(v, "refresh_success")
  /\ UNCHANGED <<kind, expired, reply, faults>>

RefreshSuccess(v) ==
  /\ pc[v] = "refresh_success"
  /\ Answer(v, "ok")
  /\ UNCHANGED <<table, update, kind, expired, faults>>

\* session.rollback() expires every attribute of the row.
RollbackHook(v) ==
  /\ pc[v] = "rollback"
  /\ update' = Unlocked(v, v)
  /\ expired' = [expired EXCEPT ![v] = TRUE]
  /\ Goto(v, "mark")
  /\ UNCHANGED <<table, kind, reply, faults>>

MarkFailed(v) ==
  /\ pc[v] = "mark"
  /\ UpdateEmbedding(v, v, Failed)
  /\ Goto(v, "commit_failed")
  /\ UNCHANGED <<table, kind, expired, reply, faults>>

CommitFailed(v) ==
  /\ pc[v] = "commit_failed"
  /\ CommitUpdate(v, v)
  /\ Goto(v, "refresh_failed")
  /\ UNCHANGED <<kind, expired, reply, faults>>

RefreshFailed(v) ==
  /\ pc[v] = "refresh_failed"
  /\ expired' = [expired EXCEPT ![v] = FALSE]
  /\ Answer(v, "ok")
  /\ UNCHANGED <<table, update, kind, faults>>

-----------------------------------------------------------------------------
(* Faults. *)

Fault == faults < MaxFaults /\ faults' = faults + 1

\* Before the hook an exception reaches the client.
RequestFails(v) ==
  /\ Fault
  /\ pc[v] \in MainSteps
  /\ Answer(v, "error")
  /\ UNCHANGED <<table, update, kind, expired>>

RowCommitUnacknowledged(v) ==
  /\ Fault
  /\ pc[v] = "commit"
  /\ table' = [table EXCEPT ![v] = Fresh]
  /\ Answer(v, "error")
  /\ UNCHANGED <<update, kind, expired>>

\* In the try block it leads to the except branch.
HookFails(v) ==
  /\ Fault
  /\ pc[v] \in EmbedSteps \ {"embed"}
  /\ Goto(v, "rollback")
  /\ UNCHANGED <<table, update, kind, expired, reply>>

\* In the except branch it is swallowed: the row is returned as it is, and the
\* route reads row.id, which an expired row can only load by a query that
\* asyncpg refuses outside a greenlet.
MarkingFails(v) ==
  /\ Fault
  /\ pc[v] \in RecoverySteps
  /\ LET nowExpired == expired[v] \/ pc[v] = "rollback" IN
       /\ expired' = [expired EXCEPT ![v] = nowExpired]
       /\ Answer(v, IF nowExpired THEN "error" ELSE "ok")
  /\ update' = Unlocked(v, v)
  /\ UNCHANGED <<table, kind>>

\* The server commits an UPDATE whose acknowledgement is lost.
UpdateUnacknowledged(v) ==
  /\ Fault
  /\ CommitUpdate(v, v)
  /\ \/ pc[v] = "commit_success" /\ Goto(v, "rollback") /\ UNCHANGED reply
     \/ pc[v] = "commit_failed" /\ Answer(v, IF expired[v] THEN "error" ELSE "ok")
  /\ UNCHANGED <<kind, expired>>

\* The API process dies with every request in it.
ApiCrash ==
  /\ Fault
  /\ \E v \in Requests : Active(v)
  /\ pc' = [v \in Requests |-> "done"]
  /\ reply' = [v \in Requests |-> IF Active(v) THEN "lost" ELSE reply[v]]
  /\ update' = [v \in Requests |-> IF Locks(v, v) THEN NoUpdate ELSE update[v]]
  /\ UNCHANGED <<table, kind, expired>>

VerifyStep(v) ==
  \/ LookUpSolver(v)
  \/ RunVerifier(v)
  \/ InsertRow(v)
  \/ CommitRow(v)
  \/ RefreshRow(v)
  \/ EmbedFailure(v)
  \/ UpdateSuccess(v)
  \/ CommitSuccess(v)
  \/ RefreshSuccess(v)
  \/ RollbackHook(v)
  \/ MarkFailed(v)
  \/ CommitFailed(v)
  \/ RefreshFailed(v)

VerifyFault ==
  \/ \E v \in Requests : RequestFails(v)
  \/ \E v \in Requests : RowCommitUnacknowledged(v)
  \/ \E v \in Requests : HookFails(v)
  \/ \E v \in Requests : MarkingFails(v)
  \/ \E v \in Requests : UpdateUnacknowledged(v)
  \/ ApiCrash

-----------------------------------------------------------------------------
VerifyTypeOK ==
  /\ table \in [Requests -> RowStates]
  /\ update \in [Requests ->
                   {NoUpdate} \cup [by : Requests \cup Runs, row : {Embedded, Failed}]]
  /\ \A v \in Requests : IsLocked(v) => update[v].by \in {v} \cup Runs
  /\ kind \in [Requests -> Kinds]
  /\ pc \in [Requests -> MainSteps \cup EmbedSteps \cup RecoverySteps \cup {"done"}]
  /\ expired \in [Requests -> BOOLEAN]
  /\ reply \in [Requests -> Replies]
  /\ faults \in 0..MaxFaults

\* A 200 names a row that is committed, and not left pending if it is a failure to
\* embed and the database did not fail; a 404, a 503 and a malformed solver session
\* leave no row behind.
AnswersMatchTable ==
  \A v \in Requests :
    /\ reply[v] = "ok" => Exists(v)
    /\ reply[v] = "ok" /\ kind[v] = "failed" /\ faults = 0 => table[v] \in {Embedded, Failed}
    /\ reply[v] \in {"not_found", "malformed", "unavailable"} => ~Exists(v)

\* A passed attempt never gets a vector, whichever of the two programs gets hold
\* of its row; and no row has a vector that the retrieval query would pass over,
\* so that neither program pays for an embedding the other then hides.
OnlyFailuresEmbedded ==
  \A v \in Requests :
    /\ kind[v] = "passed" => table[v] \in {NoRow, Fresh}
    /\ table[v].embedding = "vector" => v \in Retrievable

\* "Swallow - the verifier response itself must still succeed": no step of the
\* RAG hook or of its except branch ends the request with an error.
HookNeverFailsRequest ==
  [][\A v \in Requests :
       pc[v] \in EmbedSteps \cup RecoverySteps => reply'[v] # "error"]_verifyVars
=============================================================================
