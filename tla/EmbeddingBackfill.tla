------------------------- MODULE EmbeddingBackfill -------------------------
(***************************************************************************)
(* The script backfill_embeddings beside the verify requests.  A run reads *)
(* the rows to embed once, then embeds and commits them one by one; a run  *)
(* with --retry-failed takes the failed rows as well.  Between the two the *)
(* rows may have changed: nothing locks them, and the UPDATE names only    *)
(* the row's id.                                                           *)
(*                                                                         *)
(* The order of the rows is that of created_at, which is not the order of  *)
(* their commits: any.  --limit, which only takes fewer rows, is left out. *)
(***************************************************************************)
EXTENDS VerifySession, FiniteSets

VARIABLES
  bpc,      \* the next step of each run of the script
  batch,    \* the rows its SELECT returned
  todo,     \* those it has not taken yet
  current,  \* the one it works on, or "nobody"
  warned    \* those it says it could not even mark as failed

runVars == <<bpc, batch, todo, current, warned>>
vars == <<verifyVars, runVars>>

RunSteps == {"idle", "next", "embed", "update", "commit", "rollback", "mark",
             "commit_failed", "ended"}

BGoto(b, step) == bpc' = [bpc EXCEPT ![b] = step]

\* Mutation: the WHERE clause does not look at verified.
AllPending(withFailed) ==
  {v \in Requests : table[v] = Fresh \/ (withFailed /\ table[v] = Failed)}

\* The WHERE clause of _SELECT_PENDING.
ToEmbed(withFailed) ==
  {v \in Requests :
     /\ kind[v] # "passed"
     /\ table[v] = Fresh \/ (withFailed /\ table[v] = Failed)}

Init ==
  /\ VerifyInit
  /\ bpc = [b \in Runs |-> "idle"]
  /\ batch = [b \in Runs |-> {}]
  /\ todo = [b \in Runs |-> {}]
  /\ current = [b \in Runs |-> "nobody"]
  /\ warned = [b \in Runs |-> {}]

SelectPending(b, withFailed) ==
  /\ bpc[b] \in {"idle", "ended"}
  /\ batch' = [batch EXCEPT ![b] = ToEmbed(withFailed)]
  /\ todo' = [todo EXCEPT ![b] = ToEmbed(withFailed)]
  /\ warned' = [warned EXCEPT ![b] = {}]
  /\ BGoto(b, "next")
  /\ UNCHANGED <<verifyVars, current>>

TakeRow(b) ==
  /\ bpc[b] = "next"
  /\ \E v \in todo[b] :
       /\ current' = [current EXCEPT ![b] = v]
       /\ todo' = [todo EXCEPT ![b] = @ \ {v}]
  /\ BGoto(b, "embed")
  /\ UNCHANGED <<verifyVars, batch, warned>>

EndRun(b) ==
  /\ bpc[b] = "next"
  /\ todo[b] = {}
  /\ BGoto(b, "ended")
  /\ current' = [current EXCEPT ![b] = "nobody"]
  /\ UNCHANGED <<verifyVars, batch, todo, warned>>

\* sync_embed_one returns a vector or raises.
EmbedRow(b) ==
  /\ bpc[b] = "embed"
  /\ \E step \in {"update", "rollback"} : BGoto(b, step)
  /\ UNCHANGED <<verifyVars, batch, todo, current, warned>>

UpdateRow(b) ==
  /\ bpc[b] = "update"
  /\ UpdateEmbedding(b, current[b], Embedded)
  /\ BGoto(b, "commit")
  /\ UNCHANGED <<table, kind, pc, expired, reply, faults, batch, todo, current, warned>>

\* Mutation: no commit for the row, so its lock stays.
NoCommitPerRow(b) ==
  /\ bpc[b] = "commit"
  /\ BGoto(b, "next")
  /\ UNCHANGED <<verifyVars, batch, todo, current, warned>>

CommitEmbedded(b) ==
  /\ bpc[b] = "commit"
  /\ CommitUpdate(b, current[b])
  /\ BGoto(b, "next")
  /\ UNCHANGED <<kind, pc, expired, reply, faults, batch, todo, current, warned>>

\* Mutation: a row that cannot be embedded is skipped.
SkipRow(b) ==
  /\ bpc[b] = "rollback"
  /\ update' = Unlocked(b, current[b])
  /\ BGoto(b, "next")
  /\ UNCHANGED <<table, kind, pc, expired, reply, faults, batch, todo, current, warned>>

RollbackRow(b) ==
  /\ bpc[b] = "rollback"
  /\ update' = Unlocked(b, current[b])
  /\ BGoto(b, "mark")
  /\ UNCHANGED <<table, kind, pc, expired, reply, faults, batch, todo, current, warned>>

MarkRowFailed(b) ==
  /\ bpc[b] = "mark"
  /\ UpdateEmbedding(b, current[b], Failed)
  /\ BGoto(b, "commit_failed")
  /\ UNCHANGED <<table, kind, pc, expired, reply, faults, batch, todo, current, warned>>

CommitMark(b) ==
  /\ bpc[b] = "commit_failed"
  /\ CommitUpdate(b, current[b])
  /\ BGoto(b, "next")
  /\ UNCHANGED <<kind, pc, expired, reply, faults, batch, todo, current, warned>>

Warn(b) ==
  /\ warned' = [warned EXCEPT ![b] = @ \cup {current[b]}]
  /\ BGoto(b, "next")

\* A database error leads to the except branch; in that branch it is logged and
\* the loop goes on.  Its first rollback is not guarded: there the run dies.
RunFails(b) ==
  /\ Fault
  /\ \/ bpc[b] \in {"update", "commit"} /\ BGoto(b, "rollback") /\ UNCHANGED <<update, warned>>
     \/ /\ bpc[b] \in {"mark", "commit_failed"}
        /\ update' = Unlocked(b, current[b])
        /\ Warn(b)
  /\ UNCHANGED <<table, kind, pc, expired, reply, batch, todo, current>>

\* The same of a commit that was made.
RunUnacknowledged(b) ==
  /\ Fault
  /\ \/ bpc[b] = "commit" /\ BGoto(b, "rollback") /\ UNCHANGED warned
     \/ bpc[b] = "commit_failed" /\ Warn(b)
  /\ CommitUpdate(b, current[b])
  /\ UNCHANGED <<kind, pc, expired, reply, batch, todo, current>>

RunDies(b) ==
  /\ Fault
  /\ bpc[b] \notin {"idle", "ended"}
  /\ update' = [v \in Requests |-> IF Locks(b, v) THEN NoUpdate ELSE update[v]]
  /\ BGoto(b, "idle")
  /\ batch' = [batch EXCEPT ![b] = {}]
  /\ todo' = [todo EXCEPT ![b] = {}]
  /\ current' = [current EXCEPT ![b] = "nobody"]
  /\ warned' = [warned EXCEPT ![b] = {}]
  /\ UNCHANGED <<table, kind, pc, expired, reply>>

RunStep(b) ==
  \/ TakeRow(b)
  \/ EndRun(b)
  \/ EmbedRow(b)
  \/ UpdateRow(b)
  \/ CommitEmbedded(b)
  \/ RollbackRow(b)
  \/ MarkRowFailed(b)
  \/ CommitMark(b)

Next ==
  \/ \E v \in Requests : VerifyStep(v) /\ UNCHANGED runVars
  \/ VerifyFault /\ UNCHANGED runVars
  \/ \E b \in Runs, withFailed \in BOOLEAN : SelectPending(b, withFailed)
  \/ \E b \in Runs : RunStep(b)
  \/ \E b \in Runs : RunFails(b)
  \/ \E b \in Runs : RunUnacknowledged(b)
  \/ \E b \in Runs : RunDies(b)

Spec == Init /\ [][Next]_vars

\* Calls return; nobody need start the script, and no fault need happen.
\* PostgreSQL queues the transactions that wait for a row's lock, so one that
\* keeps waiting is served although others keep taking the lock.
FairSpec ==
  /\ Spec
  /\ \A v \in Requests :
       /\ WF_vars(VerifyStep(v) /\ UNCHANGED runVars)
       /\ SF_vars((UpdateSuccess(v) \/ MarkFailed(v)) /\ UNCHANGED runVars)
  /\ \A b \in Runs :
       /\ WF_vars(RunStep(b))
       /\ SF_vars(UpdateRow(b) \/ MarkRowFailed(b))

-----------------------------------------------------------------------------
TypeOK ==
  /\ VerifyTypeOK
  /\ bpc \in [Runs -> RunSteps]
  /\ batch \in [Runs -> SUBSET Requests]
  /\ todo \in [Runs -> SUBSET Requests]
  /\ current \in [Runs -> Requests \cup {"nobody"}]
  /\ warned \in [Runs -> SUBSET Requests]

\* A run that ends has left none of the rows it selected pending that it has not
\* warned of, whatever failed before it or while it ran: that goes for the rows of
\* requests that died between their commit and their embedding, and for those
\* that verify requests and other runs have had meanwhile.
RunSettlesBatch ==
  \A b \in Runs : bpc[b] = "ended" =>
    \A v \in batch[b] \ warned[b] : table[v] \in {Embedded, Failed}

\* Nobody waits for ever for a row's lock: each request is answered and each run
\* comes to its end.
EveryoneFinishes ==
  /\ \A v \in Requests : Active(v) ~> ~Active(v)
  /\ \A b \in Runs : bpc[b] = "next" ~> bpc[b] \in {"idle", "ended"}

-----------------------------------------------------------------------------
(* The inductive invariant: why AnswersMatchTable, OnlyFailuresEmbedded and *)
(* RunSettlesBatch hold.                                                    *)

Settled(v) == table[v] \in {Embedded, Failed}

\* Only rows that exist are locked, only failures are, and what is known of a
\* request's row at each of its steps.
RowInv(v) ==
  /\ IsLocked(v) => Exists(v) /\ kind[v] # "passed"
  /\ kind[v] = "passed" => ~Settled(v)
  /\ Active(v) => reply[v] = "none"
  /\ pc[v] \in MainSteps \ {"refresh"} => ~Exists(v)
  /\ pc[v] = "refresh" => Exists(v)
  /\ pc[v] \in EmbedSteps \cup RecoverySteps => Exists(v) /\ kind[v] = "failed"
  /\ pc[v] \in {"refresh_success", "refresh_failed"} => Settled(v)
  /\ reply[v] = "ok" => Exists(v)
  /\ reply[v] = "ok" /\ kind[v] = "failed" /\ faults = 0 => Settled(v)
  /\ reply[v] \in {"not_found", "malformed", "unavailable"} => ~Exists(v)

Working(b, v) == bpc[b] \notin {"idle", "next", "ended"} /\ v = current[b]

\* A run works on failures that exist; what it has selected and left is settled.
BatchInv(b) ==
  /\ bpc[b] \notin {"idle", "next", "ended"} => current[b] \in Requests
  /\ \A v \in Requests : v \in todo[b] \/ Working(b, v) => Exists(v) /\ kind[v] # "passed"
  /\ \A v \in batch[b] \ warned[b] : v \in todo[b] \/ Working(b, v) \/ Settled(v)
  /\ bpc[b] = "ended" => todo[b] = {}

EmbeddingInv ==
  /\ TypeOK
  /\ \A v \in Requests : RowInv(v)
  /\ \A b \in Runs : BatchInv(b)
=============================================================================
