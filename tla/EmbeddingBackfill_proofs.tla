---------------------- MODULE EmbeddingBackfill_proofs ----------------------
(***************************************************************************)
(* Proofs about EmbeddingBackfill, for any number of verify requests, of   *)
(* runs of the script and of faults: what may be embedded, what an answer  *)
(* says of the table, and what a finished run has settled.                 *)
(***************************************************************************)
EXTENDS EmbeddingBackfill, TLAPS

USE DEF Active, Goto, Answer, BGoto, Warn

\* The states of a row are four.
LEMMA RowStatesDiffer ==
  /\ NoRow # Fresh /\ NoRow # Embedded /\ NoRow # Failed
  /\ Fresh # Embedded /\ Fresh # Failed /\ Embedded # Failed
BY DEF NoRow, Fresh, Embedded, Failed

-----------------------------------------------------------------------------
(* Type correctness. *)

LEMMA EmbeddingInit == Init => EmbeddingInv
<1> SUFFICES ASSUME Init PROVE EmbeddingInv
  OBVIOUS
<1> USE DEF Init, VerifyInit
<1>1. TypeOK
  <2>1. update \in [Requests -> {NoUpdate}] /\ \A v \in Requests : ~IsLocked(v)
    BY DEF IsLocked
  <2>2. expired \in [Requests -> BOOLEAN]
    OBVIOUS
  <2>3. VerifyTypeOK
    BY <2>1, <2>2, VerifyAssumption DEF VerifyTypeOK, MainSteps, Replies, Kinds, RowStates
  <2>4. QED
    BY <2>3 DEF TypeOK, RunSteps
<1>2. \A v \in Requests : RowInv(v)
  BY RowStatesDiffer DEF RowInv, Settled, Exists, IsLocked, MainSteps, EmbedSteps, RecoverySteps
<1>3. \A b \in Runs : BatchInv(b)
  BY DEF BatchInv, Working
<1>4. QED
  BY <1>1, <1>2, <1>3 DEF EmbeddingInv

\* The types of the request's own variables, and of the runs'.
LEMMA VerifyTypeStep ==
  ASSUME TypeOK, NEW v \in Requests, VerifyStep(v), UNCHANGED runVars
  PROVE  TypeOK'
<1> USE DEF TypeOK, VerifyTypeOK, IsLocked, runVars, MainSteps, EmbedSteps, RecoverySteps, Replies
<1>1. CASE LookUpSolver(v) \/ RunVerifier(v) \/ InsertRow(v)
  BY <1>1 DEF LookUpSolver, RunVerifier, InsertRow
<1>2. CASE CommitRow(v) \/ RefreshRow(v)
  BY <1>2 DEF CommitRow, RefreshRow, RowStates
<1>3. CASE EmbedFailure(v) \/ RefreshSuccess(v)
  BY <1>3 DEF EmbedFailure, EmbedOutcomes, RefreshSuccess
<1>8. CASE RefreshFailed(v)
  BY <1>8 DEF RefreshFailed
<1>4. CASE UpdateSuccess(v) \/ MarkFailed(v)
  <2>1. /\ update'[v] = [by |-> v, row |-> Embedded] \/ update'[v] = [by |-> v, row |-> Failed]
        /\ update' = [update EXCEPT ![v] = update'[v]]
    BY <1>4 DEF UpdateSuccess, MarkFailed, UpdateEmbedding
  <2>2. update'[v] \in [by : Requests \cup Runs, row : {Embedded, Failed}] /\ update'[v].by = v
    BY <2>1
  <2>3. QED
    BY <1>4, <2>1, <2>2 DEF UpdateSuccess, MarkFailed
<1>5. CASE CommitSuccess(v) \/ CommitFailed(v)
  BY <1>5 DEF CommitSuccess, CommitFailed, CommitUpdate, Locks, RowStates
<1>6. CASE RollbackHook(v)
  BY <1>6 DEF RollbackHook, Unlocked
<1>7. QED
  BY <1>1, <1>2, <1>3, <1>4, <1>5, <1>6, <1>8 DEF VerifyStep

LEMMA VerifyTypeFault ==
  ASSUME TypeOK, VerifyFault, UNCHANGED runVars
  PROVE  TypeOK'
<1> USE VerifyAssumption DEF TypeOK, VerifyTypeOK, IsLocked, runVars, Fault, MainSteps,
        EmbedSteps, RecoverySteps, Replies
<1>1. ASSUME NEW v \in Requests, RequestFails(v) \/ RowCommitUnacknowledged(v) \/ HookFails(v)
      PROVE  TypeOK'
  BY <1>1 DEF RequestFails, RowCommitUnacknowledged, HookFails, RowStates
<1>2. ASSUME NEW v \in Requests, MarkingFails(v) PROVE TypeOK'
  <2>1. (expired[v] \/ pc[v] = "rollback") \in BOOLEAN
    OBVIOUS
  <2>2. expired' \in [Requests -> BOOLEAN]
    BY <1>2, <2>1 DEF MarkingFails
  <2>3. QED
    BY <1>2, <2>2 DEF MarkingFails, Unlocked
<1>3. ASSUME NEW v \in Requests, UpdateUnacknowledged(v) PROVE TypeOK'
  BY <1>3 DEF UpdateUnacknowledged, CommitUpdate, Locks, RowStates
<1>4. CASE ApiCrash
  BY <1>4 DEF ApiCrash, Locks
<1>5. QED
  BY <1>1, <1>2, <1>3, <1>4 DEF VerifyFault

LEMMA RunTypeStep ==
  ASSUME EmbeddingInv, NEW b \in Runs,
         \/ \E withFailed \in BOOLEAN : SelectPending(b, withFailed)
         \/ RunStep(b) \/ RunFails(b) \/ RunUnacknowledged(b) \/ RunDies(b)
  PROVE  TypeOK'
<1> USE DEF TypeOK, VerifyTypeOK, IsLocked, RunSteps, verifyVars
<1>1. TypeOK /\ BatchInv(b)
  BY DEF EmbeddingInv
<1>2. ASSUME NEW withFailed \in BOOLEAN, SelectPending(b, withFailed) PROVE TypeOK'
  BY <1>1, <1>2 DEF SelectPending, ToEmbed
<1>3. CASE TakeRow(b) \/ EndRun(b) \/ EmbedRow(b)
  BY <1>1, <1>3 DEF TakeRow, EndRun, EmbedRow
<1>4. CASE UpdateRow(b) \/ MarkRowFailed(b)
  <2>1. PICK v \in Requests : v = current[b]
    BY <1>1, <1>4 DEF BatchInv, UpdateRow, MarkRowFailed
  <2>2. /\ update'[v] = [by |-> b, row |-> Embedded] \/ update'[v] = [by |-> b, row |-> Failed]
        /\ update' = [update EXCEPT ![v] = update'[v]]
    BY <1>1, <1>4, <2>1 DEF UpdateRow, MarkRowFailed, UpdateEmbedding
  <2>3. update'[v] \in [by : Requests \cup Runs, row : {Embedded, Failed}] /\ update'[v].by = b
    BY <2>2
  <2>4. QED
    BY <1>1, <1>4, <2>2, <2>3 DEF UpdateRow, MarkRowFailed
<1>5. CASE CommitEmbedded(b) \/ CommitMark(b)
  <2>1. PICK v \in Requests : v = current[b]
    BY <1>1, <1>5 DEF BatchInv, CommitEmbedded, CommitMark
  <2>2. QED
    BY <1>1, <1>5, <2>1, SMTT(30) DEF CommitEmbedded, CommitMark, CommitUpdate, Locks, RowStates
<1>6. CASE RollbackRow(b)
  BY <1>1, <1>6 DEF RollbackRow, Unlocked
<1>7. CASE RunFails(b)
  <2>1. current[b] \in Requests
    BY <1>1, <1>7 DEF BatchInv, RunFails
  <2>2. faults' \in 0..MaxFaults
    BY <1>1, <1>7, VerifyAssumption DEF RunFails, Fault
  <2>3. QED
    BY <1>1, <1>7, <2>1, <2>2 DEF RunFails, Unlocked
<1>8. CASE RunDies(b)
  BY <1>1, <1>8, VerifyAssumption DEF RunDies, Fault, Locks
<1>9. CASE RunUnacknowledged(b)
  <2>1. PICK v \in Requests : v = current[b]
    BY <1>1, <1>9 DEF BatchInv, RunUnacknowledged
  <2>2. faults' \in 0..MaxFaults
    BY <1>1, <1>9, VerifyAssumption DEF RunUnacknowledged, Fault
  <2>3. QED
    BY <1>1, <1>9, <2>1, <2>2 DEF RunUnacknowledged, CommitUpdate, Locks, RowStates
<1>10. QED
  BY <1>2, <1>3, <1>4, <1>5, <1>6, <1>7, <1>8, <1>9 DEF RunStep

-----------------------------------------------------------------------------
(* One row at a time. *)

\* A row is committed once and never deleted; one that is settled stays so.
LEMMA UpdateSettles ==
  ASSUME TypeOK, NEW t, NEW v \in Requests, CommitUpdate(t, v)
  PROVE  /\ Settled(v)' /\ Exists(v)' /\ ~IsLocked(v)'
         /\ \A w \in Requests \ {v} : table'[w] = table[w] /\ update'[w] = update[w]
<1>1. update[v].row \in {Embedded, Failed}
  BY DEF CommitUpdate, Locks, TypeOK, VerifyTypeOK
<1>2. QED
  BY <1>1, RowStatesDiffer DEF CommitUpdate, Settled, Exists, IsLocked, TypeOK, VerifyTypeOK

\* What the others know of their rows and batches survives a step that changes
\* only the row v, does not take it away, and leaves what kind of row it is.
LEMMA OtherRows ==
  ASSUME EmbeddingInv, NEW v \in Requests, faults' = 0 => faults = 0,
         \A w \in Requests \ {v} :
           /\ table'[w] = table[w] /\ update'[w] = update[w] /\ kind'[w] = kind[w]
           /\ pc'[w] = pc[w] /\ reply'[w] = reply[w]
  PROVE  \A w \in Requests \ {v} : RowInv(w)'
BY DEF EmbeddingInv, RowInv, IsLocked, Exists, Settled

LEMMA BatchesKept ==
  ASSUME EmbeddingInv, NEW b \in Runs,
         bpc'[b] = bpc[b], batch'[b] = batch[b], todo'[b] = todo[b], current'[b] = current[b],
         warned'[b] = warned[b],
         \A w \in Requests :
           /\ Exists(w) => Exists(w)' /\ kind'[w] = kind[w]
           /\ Settled(w) => Settled(w)'
  PROVE  BatchInv(b)'
BY DEF EmbeddingInv, BatchInv, Working, TypeOK

\* The steps of a request, about its own row.
LEMMA OwnRowStep ==
  ASSUME EmbeddingInv, NEW v \in Requests, VerifyStep(v)
  PROVE  RowInv(v)' /\ (Exists(v) => Exists(v)' /\ kind'[v] = kind[v]) /\ (Settled(v) => Settled(v)')
<1> USE RowStatesDiffer DEF RowInv, IsLocked, Exists, Settled, MainSteps, EmbedSteps, RecoverySteps
<1>1. TypeOK /\ RowInv(v) /\ table[v] \in RowStates
  BY DEF EmbeddingInv, TypeOK, VerifyTypeOK
<1>2. CASE LookUpSolver(v)
  BY <1>1, <1>2 DEF LookUpSolver, TypeOK, VerifyTypeOK
<1>3. CASE RunVerifier(v)
  BY <1>1, <1>3 DEF RunVerifier, TypeOK, VerifyTypeOK
<1>4. CASE InsertRow(v)
  BY <1>1, <1>4 DEF InsertRow, TypeOK, VerifyTypeOK
<1>5. CASE CommitRow(v)
  BY <1>1, <1>5 DEF CommitRow, TypeOK, VerifyTypeOK
<1>6. CASE RefreshRow(v)
  BY <1>1, <1>6 DEF RefreshRow, TypeOK, VerifyTypeOK
<1>7. CASE EmbedFailure(v)
  BY <1>1, <1>7 DEF EmbedFailure, EmbedOutcomes, TypeOK, VerifyTypeOK
<1>8. CASE UpdateSuccess(v) \/ MarkFailed(v)
  BY <1>1, <1>8 DEF UpdateSuccess, MarkFailed, UpdateEmbedding, TypeOK, VerifyTypeOK
<1>9. CASE CommitSuccess(v) \/ CommitFailed(v)
  <2>1. Settled(v)' /\ Exists(v)' /\ ~IsLocked(v)' /\ IsLocked(v)
    BY <1>1, <1>9, UpdateSettles DEF CommitSuccess, CommitFailed, CommitUpdate, Locks
  <2>2. QED
    BY <1>1, <1>9, <2>1 DEF CommitSuccess, CommitFailed, TypeOK, VerifyTypeOK
<1>10. CASE RefreshSuccess(v) \/ RefreshFailed(v)
  BY <1>1, <1>10 DEF RefreshSuccess, RefreshFailed, TypeOK, VerifyTypeOK
<1>11. CASE RollbackHook(v)
  BY <1>1, <1>11 DEF RollbackHook, Unlocked, TypeOK, VerifyTypeOK
<1>12. QED
  BY <1>2, <1>3, <1>4, <1>5, <1>6, <1>7, <1>8, <1>9, <1>10, <1>11 DEF VerifyStep

\* The steps of a request are about its own row only.
LEMMA OwnRowOnly ==
  ASSUME TypeOK, NEW v \in Requests,
         \/ VerifyStep(v) \/ RequestFails(v) \/ RowCommitUnacknowledged(v) \/ HookFails(v)
         \/ MarkingFails(v) \/ UpdateUnacknowledged(v)
  PROVE  \A w \in Requests \ {v} :
           /\ table'[w] = table[w] /\ update'[w] = update[w] /\ kind'[w] = kind[w]
           /\ pc'[w] = pc[w] /\ reply'[w] = reply[w]
BY DEF TypeOK, VerifyTypeOK, VerifyStep, LookUpSolver, RunVerifier, InsertRow, CommitRow,
   RefreshRow, EmbedFailure, UpdateSuccess, CommitSuccess, RefreshSuccess, RollbackHook,
   MarkFailed, CommitFailed, RefreshFailed, RequestFails, RowCommitUnacknowledged, HookFails,
   MarkingFails, UpdateUnacknowledged, UpdateEmbedding, CommitUpdate, Unlocked

LEMMA OwnRowFault ==
  ASSUME EmbeddingInv, NEW v \in Requests,
         \/ RequestFails(v) \/ RowCommitUnacknowledged(v) \/ HookFails(v)
         \/ MarkingFails(v) \/ UpdateUnacknowledged(v)
  PROVE  /\ RowInv(v)' /\ faults' # 0
         /\ Exists(v) => Exists(v)' /\ kind'[v] = kind[v]
         /\ Settled(v) => Settled(v)'
<1> USE RowStatesDiffer, VerifyAssumption DEF RowInv, IsLocked, Exists, Settled, MainSteps,
        EmbedSteps, RecoverySteps, Fault
<1>1. TypeOK /\ RowInv(v) /\ table[v] \in RowStates /\ faults \in Nat
  BY DEF EmbeddingInv, TypeOK, VerifyTypeOK
<1>2. CASE RequestFails(v)
  BY <1>1, <1>2 DEF RequestFails, TypeOK, VerifyTypeOK
<1>3. CASE RowCommitUnacknowledged(v)
  BY <1>1, <1>3 DEF RowCommitUnacknowledged, TypeOK, VerifyTypeOK
<1>4. CASE HookFails(v)
  BY <1>1, <1>4 DEF HookFails, TypeOK, VerifyTypeOK
<1>5. CASE MarkingFails(v)
  BY <1>1, <1>5 DEF MarkingFails, Unlocked, TypeOK, VerifyTypeOK
<1>6. CASE UpdateUnacknowledged(v)
  <2>1. Settled(v)' /\ Exists(v)' /\ ~IsLocked(v)' /\ IsLocked(v)
    BY <1>1, <1>6, UpdateSettles DEF UpdateUnacknowledged, CommitUpdate, Locks
  <2>2. QED
    BY <1>1, <1>6, <2>1 DEF UpdateUnacknowledged, TypeOK, VerifyTypeOK
<1>7. QED
  BY <1>2, <1>3, <1>4, <1>5, <1>6

LEMMA CrashStep ==
  ASSUME EmbeddingInv, ApiCrash, UNCHANGED runVars
  PROVE  (\A v \in Requests : RowInv(v)') /\ (\A b \in Runs : BatchInv(b)')
<1>1. TypeOK /\ (\A v \in Requests : RowInv(v)) /\ faults \in Nat /\ faults' # 0
  BY VerifyAssumption DEF EmbeddingInv, TypeOK, VerifyTypeOK, ApiCrash, Fault
<1>2. ASSUME NEW v \in Requests PROVE RowInv(v)'
  BY <1>1, RowStatesDiffer DEF ApiCrash, RowInv, IsLocked, Exists, Settled, MainSteps, EmbedSteps,
     RecoverySteps, TypeOK, VerifyTypeOK
<1>3. ASSUME NEW b \in Runs PROVE BatchInv(b)'
  BY <1>1, BatchesKept DEF ApiCrash, runVars, Exists, Settled
<1>4. QED
  BY <1>2, <1>3

-----------------------------------------------------------------------------
(* One run at a time. *)

\* A run changes what is known of the row it works on, and never what kind.
LEMMA RunRows ==
  ASSUME EmbeddingInv, NEW b \in Runs,
         \/ \E withFailed \in BOOLEAN : SelectPending(b, withFailed)
         \/ RunStep(b) \/ RunFails(b) \/ RunUnacknowledged(b) \/ RunDies(b)
  PROVE  \A v \in Requests :
           /\ RowInv(v)'
           /\ Exists(v) => Exists(v)' /\ kind'[v] = kind[v]
           /\ Settled(v) => Settled(v)'
<1>1. /\ TypeOK /\ BatchInv(b) /\ (\A v \in Requests : RowInv(v))
      /\ faults \in Nat
  BY VerifyAssumption DEF EmbeddingInv, TypeOK, VerifyTypeOK
<1> USE DEF RowInv, Exists, Settled, IsLocked, verifyVars
<1>2. CASE (\E withFailed \in BOOLEAN : SelectPending(b, withFailed)) \/ TakeRow(b) \/ EndRun(b)
             \/ EmbedRow(b)
  BY <1>1, <1>2 DEF SelectPending, TakeRow, EndRun, EmbedRow
<1>3. CASE UpdateRow(b) \/ MarkRowFailed(b)
  <2>1. PICK v \in Requests : v = current[b] /\ Exists(v) /\ kind[v] # "passed"
    BY <1>1, <1>3 DEF BatchInv, Working, UpdateRow, MarkRowFailed
  <2>2. \A w \in Requests \ {v} : update'[w] = update[w]
    BY <1>1, <1>3, <2>1 DEF UpdateRow, MarkRowFailed, UpdateEmbedding, TypeOK, VerifyTypeOK
  <2>3. QED
    BY <1>1, <1>3, <2>1, <2>2 DEF UpdateRow, MarkRowFailed
<1>4. CASE CommitEmbedded(b) \/ CommitMark(b) \/ RunUnacknowledged(b)
  <2>1. PICK v \in Requests : v = current[b] /\ Exists(v) /\ kind[v] # "passed"
    BY <1>1, <1>4 DEF BatchInv, Working, CommitEmbedded, CommitMark, RunUnacknowledged
  <2>2. /\ Settled(v)' /\ Exists(v)' /\ ~IsLocked(v)'
        /\ \A w \in Requests \ {v} : table'[w] = table[w] /\ update'[w] = update[w]
    BY <1>1, <1>4, <2>1, UpdateSettles DEF CommitEmbedded, CommitMark, RunUnacknowledged
  <2>3. UNCHANGED <<kind, pc, reply>> /\ (faults' = 0 => faults = 0)
    BY <1>1, <1>4 DEF CommitEmbedded, CommitMark, RunUnacknowledged, Fault
  <2>4. pc[v] \notin MainSteps \ {"refresh"} /\ reply[v] \notin {"not_found", "malformed", "unavailable"}
    BY <1>1, <2>1
  <2>5. RowInv(v)'
    BY <1>1, <2>1, <2>2, <2>3, <2>4
  <2>6. \A w \in Requests \ {v} : RowInv(w)'
    BY <1>1, <2>2, <2>3
  <2>7. QED
    BY <2>1, <2>2, <2>3, <2>5, <2>6
<1>5. ASSUME NEW v \in Requests, UNCHANGED <<table, kind, pc, reply>>, faults' = 0 => faults = 0,
             update'[v] \in {update[v], NoUpdate}
      PROVE  RowInv(v)' /\ (Exists(v) => Exists(v)' /\ kind'[v] = kind[v]) /\ (Settled(v) => Settled(v)')
  BY <1>1, <1>5
<1>6. CASE RollbackRow(b)
  BY <1>1, <1>5, <1>6 DEF RollbackRow, Unlocked, TypeOK, VerifyTypeOK
<1>7. CASE RunFails(b)
  BY <1>1, <1>5, <1>7 DEF RunFails, Fault, Unlocked, TypeOK, VerifyTypeOK
<1>8. CASE RunDies(b)
  BY <1>1, <1>5, <1>8 DEF RunDies, Fault, TypeOK, VerifyTypeOK
<1>9. QED
  BY <1>2, <1>3, <1>4, <1>6, <1>7, <1>8 DEF RunStep

\* The run itself.
LEMMA RunBatch ==
  ASSUME EmbeddingInv, NEW b \in Runs,
         \/ \E withFailed \in BOOLEAN : SelectPending(b, withFailed)
         \/ RunStep(b) \/ RunFails(b) \/ RunUnacknowledged(b) \/ RunDies(b)
  PROVE  BatchInv(b)'
<1>1. TypeOK /\ BatchInv(b) /\ faults \in Nat
  BY VerifyAssumption DEF EmbeddingInv, TypeOK, VerifyTypeOK
<1>2. \A v \in Requests : (Exists(v) => Exists(v)' /\ kind'[v] = kind[v]) /\ (Settled(v) => Settled(v)')
  BY RunRows
<1> USE DEF TypeOK, BatchInv, Working, verifyVars
<1>3. ASSUME NEW withFailed \in BOOLEAN, SelectPending(b, withFailed) PROVE BatchInv(b)'
  <2>1. \A v \in ToEmbed(withFailed) : v \in Requests /\ Exists(v) /\ kind[v] # "passed"
    BY RowStatesDiffer DEF ToEmbed, Exists
  <2>2. bpc'[b] = "next" /\ todo'[b] = ToEmbed(withFailed) /\ batch'[b] = ToEmbed(withFailed)
    BY <1>1, <1>3 DEF SelectPending
  <2>3. QED
    BY <1>2, <2>1, <2>2
<1>4. CASE TakeRow(b)
  BY <1>1, <1>2, <1>4 DEF TakeRow
<1>5. CASE EndRun(b)
  BY <1>1, <1>2, <1>5 DEF EndRun
<1>6. CASE EmbedRow(b)
  BY <1>1, <1>2, <1>6 DEF EmbedRow
<1>7. CASE UpdateRow(b) \/ MarkRowFailed(b) \/ RollbackRow(b)
  BY <1>1, <1>2, <1>7 DEF UpdateRow, MarkRowFailed, RollbackRow
<1>8. CASE CommitEmbedded(b) \/ CommitMark(b)
  <2>1. PICK v \in Requests : v = current[b]
    BY <1>1, <1>8 DEF CommitEmbedded, CommitMark
  <2>2. Settled(v)'
    BY <1>1, <1>8, <2>1, UpdateSettles DEF CommitEmbedded, CommitMark
  <2>3. QED
    BY <1>1, <1>2, <1>8, <2>1, <2>2 DEF CommitEmbedded, CommitMark
<1>9. CASE RunFails(b)
  BY <1>1, <1>2, <1>9 DEF RunFails, Fault
<1>10. CASE RunDies(b)
  BY <1>1, <1>2, <1>10 DEF RunDies, Fault
<1>11. CASE RunUnacknowledged(b)
  <2>1. PICK v \in Requests : v = current[b]
    BY <1>1, <1>11 DEF RunUnacknowledged
  <2>2. Settled(v)'
    BY <1>1, <1>11, <2>1, UpdateSettles DEF RunUnacknowledged
  <2>3. /\ bpc'[b] \in {"rollback", "next"} /\ batch'[b] = batch[b] /\ todo'[b] = todo[b]
        /\ current'[b] = current[b] /\ warned[b] \subseteq warned'[b]
    BY <1>1, <1>11 DEF RunUnacknowledged
  <2>4. bpc[b] \notin {"idle", "next", "ended"}
    BY <1>11 DEF RunUnacknowledged
  <2>5. QED
    BY <1>1, <1>2, <2>1, <2>2, <2>3, <2>4
<1>12. QED
  BY <1>3, <1>4, <1>5, <1>6, <1>7, <1>8, <1>9, <1>10, <1>11 DEF RunStep

-----------------------------------------------------------------------------
LEMMA EmbeddingStep == EmbeddingInv /\ [Next]_vars => EmbeddingInv'
<1> SUFFICES ASSUME EmbeddingInv, [Next]_vars PROVE EmbeddingInv'
  OBVIOUS
<1>1. TypeOK /\ faults \in Nat
  BY VerifyAssumption DEF EmbeddingInv, TypeOK, VerifyTypeOK
<1>2. ASSUME NEW v \in Requests, UNCHANGED runVars,
             \/ VerifyStep(v) \/ RequestFails(v) \/ RowCommitUnacknowledged(v) \/ HookFails(v)
             \/ MarkingFails(v) \/ UpdateUnacknowledged(v)
      PROVE  (\A w \in Requests : RowInv(w)') /\ (\A b \in Runs : BatchInv(b)')
  <2>1. \A w \in Requests \ {v} :
           /\ table'[w] = table[w] /\ update'[w] = update[w] /\ kind'[w] = kind[w]
           /\ pc'[w] = pc[w] /\ reply'[w] = reply[w]
    BY <1>1, <1>2, OwnRowOnly
  <2>2. /\ RowInv(v)'
        /\ faults' = 0 => faults = 0
        /\ Exists(v) => Exists(v)' /\ kind'[v] = kind[v]
        /\ Settled(v) => Settled(v)'
    <3>1. CASE VerifyStep(v)
      <4>1. faults' = faults
        BY <3>1 DEF VerifyStep, LookUpSolver, RunVerifier, InsertRow, CommitRow, RefreshRow,
           EmbedFailure, UpdateSuccess, CommitSuccess, RefreshSuccess, RollbackHook, MarkFailed,
           CommitFailed, RefreshFailed
      <4>2. QED
        BY <3>1, <4>1, OwnRowStep
    <3>2. CASE ~VerifyStep(v)
      BY <1>2, <3>2, OwnRowFault
    <3>3. QED
      BY <3>1, <3>2
  <2>3. \A w \in Requests : (Exists(w) => Exists(w)' /\ kind'[w] = kind[w]) /\ (Settled(w) => Settled(w)')
    BY <2>1, <2>2 DEF Exists, Settled
  <2>4. ASSUME NEW b \in Runs PROVE BatchInv(b)'
    BY <1>2, <2>2, <2>3, BatchesKept DEF runVars
  <2>5. \A w \in Requests \ {v} : RowInv(w)'
    BY <2>1, <2>2, OtherRows
  <2>6. QED
    BY <2>2, <2>4, <2>5
<1>3. ASSUME NEW v \in Requests, VerifyStep(v), UNCHANGED runVars PROVE EmbeddingInv'
  BY <1>1, <1>2, <1>3, VerifyTypeStep DEF EmbeddingInv
<1>4. ASSUME VerifyFault, UNCHANGED runVars PROVE EmbeddingInv'
  <2>1. TypeOK'
    BY <1>1, <1>4, VerifyTypeFault
  <2>2. (\A w \in Requests : RowInv(w)') /\ (\A b \in Runs : BatchInv(b)')
    BY <1>2, <1>4, CrashStep DEF VerifyFault
  <2>3. QED
    BY <2>1, <2>2 DEF EmbeddingInv
<1>5. ASSUME NEW b \in Runs,
             \/ \E withFailed \in BOOLEAN : SelectPending(b, withFailed)
             \/ RunStep(b) \/ RunFails(b) \/ RunUnacknowledged(b) \/ RunDies(b)
      PROVE  EmbeddingInv'
  <2>1. TypeOK' /\ BatchInv(b)'
    BY <1>5, RunTypeStep, RunBatch
  <2>2. \A v \in Requests :
           /\ RowInv(v)'
           /\ Exists(v) => Exists(v)' /\ kind'[v] = kind[v]
           /\ Settled(v) => Settled(v)'
    BY <1>5, RunRows
  <2>3. faults' = 0 => faults = 0
    BY <1>1, <1>5 DEF SelectPending, RunStep, TakeRow, EndRun, EmbedRow, UpdateRow, CommitEmbedded,
       RollbackRow, MarkRowFailed, CommitMark, RunFails, RunUnacknowledged, RunDies, Fault, verifyVars
  <2>4. \A c \in Runs \ {b} :
          /\ bpc'[c] = bpc[c] /\ batch'[c] = batch[c] /\ todo'[c] = todo[c]
          /\ current'[c] = current[c] /\ warned'[c] = warned[c]
    BY <1>1, <1>5 DEF TypeOK, SelectPending, RunStep, TakeRow, EndRun, EmbedRow, UpdateRow,
       CommitEmbedded, RollbackRow, MarkRowFailed, CommitMark, RunFails, RunUnacknowledged, RunDies, verifyVars
  <2>5. ASSUME NEW c \in Runs, c # b PROVE BatchInv(c)'
    BY <2>2, <2>3, <2>4, <2>5, BatchesKept
  <2>6. QED
    BY <2>1, <2>2, <2>5 DEF EmbeddingInv
<1>6. CASE UNCHANGED vars
  BY <1>6 DEF vars, verifyVars, runVars, EmbeddingInv, TypeOK, VerifyTypeOK, RowInv, BatchInv,
     Working, Settled, Exists, IsLocked
<1>7. QED
  BY <1>3, <1>4, <1>5, <1>6 DEF Next

-----------------------------------------------------------------------------
(* The theorems. *)

\* The inductive invariant holds for every set of requests and runs.
THEOREM EmbeddingInvariance == Spec => []EmbeddingInv
BY EmbeddingInit, EmbeddingStep, PTL DEF Spec

\* Whatever fails while a failure is embedded, a 200 names a committed row that
\* is settled unless the database failed, and a refusal has left no row.
THEOREM AnswersAreTrue == Spec => []AnswersMatchTable
<1>1. EmbeddingInv => AnswersMatchTable
  BY DEF EmbeddingInv, RowInv, AnswersMatchTable, Settled
<1>2. QED
  BY <1>1, EmbeddingInvariance, PTL

\* Neither the request nor the script ever embeds an attempt that passed, and
\* every vector is one that retrieval may find.
THEOREM FailuresOnly == Spec => []OnlyFailuresEmbedded
<1>1. EmbeddingInv => OnlyFailuresEmbedded
  <2> SUFFICES ASSUME EmbeddingInv, NEW v \in Requests
               PROVE  /\ kind[v] = "passed" => table[v] \in {NoRow, Fresh}
                      /\ table[v].embedding = "vector" => v \in Retrievable
    BY DEF OnlyFailuresEmbedded
  <2>1. table[v] \in RowStates /\ (kind[v] = "passed" => ~Settled(v))
    BY DEF EmbeddingInv, TypeOK, VerifyTypeOK, RowInv
  <2>2. kind[v] = "passed" => table[v] \in {NoRow, Fresh}
    BY <2>1 DEF RowStates, Settled
  <2>3. table[v].embedding = "vector" => table[v] = Embedded
    BY <2>1 DEF RowStates, NoRow, Fresh, Failed
  <2>4. QED
    BY <2>1, <2>2, <2>3 DEF Retrievable, Settled, Embedded
<1>2. QED
  BY <1>1, EmbeddingInvariance, PTL

\* A run that ends has settled every row of its batch or warned of it, whatever the
\* requests and the other runs did to them meanwhile and whatever failed.
THEOREM RunsSettle == Spec => []RunSettlesBatch
<1>1. EmbeddingInv => RunSettlesBatch
  BY DEF EmbeddingInv, BatchInv, Working, RunSettlesBatch, Settled
<1>2. QED
  BY <1>1, EmbeddingInvariance, PTL
=============================================================================
