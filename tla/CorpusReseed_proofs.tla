------------------------ MODULE CorpusReseed_proofs ------------------------
(***************************************************************************)
(* Proofs about CorpusReseed: for any number of requests beside the script *)
(* and any list of variants.                                               *)
(***************************************************************************)
EXTENDS CorpusReseed, TLAPS

USE DEF tables, requestVars, scriptVars, vars

-----------------------------------------------------------------------------
(* What a request does to the tables. *)

\* It changes none of them,
Elsewhere(q) ==
  /\ UNCHANGED tables
  /\ pc[q] # "commit" /\ pc'[q] # "commit"
  /\ pc[q] \in Made => pc'[q] \in Made

\* inserts a row whose parent is there and not locked,
Inserting(q) ==
  /\ pc[q] \in {"insert", "insert_again"} /\ pc'[q] = "commit"
  /\ Parent(q) \in rows \ locked
  /\ Inserted(q)

\* commits it,
Committing(q) == pc[q] = "commit" /\ pc'[q] = "refresh" /\ CommitInsert(q)

\* or updates a verifier row that nobody has locked.
Updating(v) ==
  /\ v \in Verifies /\ pc[v] \in Made /\ pc'[v] \in Made
  /\ UNCHANGED <<rows, inserting>>
  /\ \/ v \notin locked /\ updating' = updating \cup ({v} \cap rows)
     \/ updating' = updating \ {v}

LEMMA RequestEffect ==
  ASSUME TypeOK, NEW q \in Verifies \cup Hints, RequestStep(q)
  PROVE  /\ about' = about
         /\ pc' = [pc EXCEPT ![q] = pc'[q]]
         /\ q \in Verifies => pc'[q] \in VerifySteps \cup {"done"}
         /\ q \in Hints => pc'[q] \in HintSteps \cup {"done"}
         /\ Elsewhere(q) \/ Inserting(q) \/ Committing(q) \/ Updating(q)
<1> USE RowsAssumption DEF Goto, Answer, VerifySteps, HintSteps, Made
<1>1. /\ q \in Verifies => pc[q] \in VerifySteps \cup {"done"}
      /\ q \in Hints => pc[q] \in HintSteps \cup {"done"}
      /\ \A step : [pc EXCEPT ![q] = step][q] = step
  BY DEF TypeOK
<1>2. CASE LookUpSolverFor(q)
  BY <1>1, <1>2 DEF LookUpSolverFor, Elsewhere
<1>3. CASE RunVerifier(q)
  BY <1>1, <1>3 DEF RunVerifier, Elsewhere
<1>4. CASE InsertVerifier(q)
  BY <1>1, <1>4 DEF InsertVerifier, Elsewhere, Inserting, Free, Parent
<1>5. CASE CommitVerifier(q)
  BY <1>1, <1>5 DEF CommitVerifier, Committing
<1>6. CASE RefreshVerifier(q)
  BY <1>1, <1>6 DEF RefreshVerifier, Elsewhere
<1>7. CASE UpdateVerifier(q)
  BY <1>1, <1>7 DEF UpdateVerifier, Updating, Free
<1>8. CASE CommitUpdate(q)
  BY <1>1, <1>8 DEF CommitUpdate, Updating
<1>9. CASE RefreshUpdated(q)
  BY <1>1, <1>9 DEF RefreshUpdated, Elsewhere
<1>10. CASE LookUpVerifierFor(q)
  BY <1>1, <1>10 DEF LookUpVerifierFor, Elsewhere
<1>11. CASE LookUpSolverOf(q)
  BY <1>1, <1>11 DEF LookUpSolverOf, Elsewhere
<1>12. CASE GenerateHint(q)
  BY <1>1, <1>12 DEF GenerateHint, Elsewhere
<1>13. CASE InsertHint(q)
  BY <1>1, <1>13 DEF InsertHint, Elsewhere, Inserting, Free, Parent
<1>14. CASE CommitHint(q)
  BY <1>1, <1>14 DEF CommitHint, Committing
<1>15. CASE RefreshHint(q)
  BY <1>1, <1>15 DEF RefreshHint, Elsewhere
<1>16. QED
  BY <1>2, <1>3, <1>4, <1>5, <1>6, <1>7, <1>8, <1>9, <1>10, <1>11, <1>12, <1>13, <1>14, <1>15
     DEF RequestStep

-----------------------------------------------------------------------------
(* The invariant. *)

\* No row refers to a hint or to itself, and a row is one of three kinds.
LEMMA Parents ==
  ASSUME TypeOK, NEW r \in Rows
  PROVE  /\ r \in Hints => Parent(r) \in Verifies
         /\ r \in Verifies => Parent(r) = Solver
         /\ HasParent(r) => r \in Verifies \cup Hints
  BY RowsAssumption DEF TypeOK, Parent, HasParent, Rows

LEMMA ReseedInit == Init => ReseedInv
<1> SUFFICES ASSUME Init PROVE ReseedInv
  OBVIOUS
<1> USE RowsAssumption, VariantsAssumption
<1>1. PICK v \in SUBSET Verifies, h \in SUBSET Hints :
        /\ \A hint \in h : about[hint] \in v
        /\ rows = {Solver} \cup v \cup h
        /\ pc = [q \in Verifies \cup Hints |-> IF q \in v \cup h THEN "done" ELSE "lookup"]
        /\ reply = [q \in Verifies \cup Hints |-> IF q \in v \cup h THEN "ok" ELSE "none"]
  BY Zenon DEF Init
<1>2. Len(Variants) \in Nat
  OBVIOUS
<1>3. summary = [skipped |-> 0, failed |-> 0] /\ seeding = 1
  BY DEF Init
<1>4. summary \in [{"skipped", "failed"} -> 0..Len(Variants)]
  BY <1>2, <1>3
<1>5. TypeOK
  BY <1>1, <1>3, <1>4 DEF Init, TypeOK, Rows, VerifySteps, HintSteps, ScriptSteps
<1>6. RequestInv
  BY <1>1, <1>5 DEF Init, RequestInv, Made, HasParent, Parent
<1>7. ScriptInv /\ ReseedFailsForCause
  BY <1>1, <1>3 DEF Init, ScriptInv, ReseedFailsForCause
<1>8. QED
  BY <1>5, <1>6, <1>7 DEF ReseedInv

LEMMA RequestKeepsInv ==
  ASSUME ReseedInv, NEW q \in Verifies \cup Hints, RequestStep(q), UNCHANGED scriptVars
  PROVE  ReseedInv'
<1> USE RowsAssumption
<1>1. TypeOK /\ RequestInv /\ ScriptInv /\ ReseedFailsForCause
  BY DEF ReseedInv
<1>2. /\ about' = about
      /\ pc' = [pc EXCEPT ![q] = pc'[q]]
      /\ q \in Verifies => pc'[q] \in VerifySteps \cup {"done"}
      /\ q \in Hints => pc'[q] \in HintSteps \cup {"done"}
      /\ Elsewhere(q) \/ Inserting(q) \/ Committing(q) \/ Updating(q)
  BY <1>1, RequestEffect
<1>3. /\ pc' \in [Verifies \cup Hints -> VerifySteps \cup HintSteps \cup {"done"}]
      /\ \A v \in Verifies : pc'[v] \in VerifySteps \cup {"done"}
      /\ \A h \in Hints : pc'[h] \in HintSteps \cup {"done"}
      /\ \A x \in Verifies \cup Hints : x # q => pc'[x] = pc[x]
  BY <1>1, <1>2 DEF TypeOK
<1>4. (Children(rows \ deleted, Solver) = {})' => Children(rows \ deleted, Solver) = {}
  BY <1>1, <1>2 DEF Elsewhere, Inserting, Committing, Updating, Inserted, CommitInsert,
                    Children, Parent, HasParent
<1>5. \/ rows' = rows
      \/ rows' = rows \cup {q} /\ pc[q] = "commit" /\ Parent(q) \in rows \ locked
  <2>1. CASE Elsewhere(q) \/ Inserting(q) \/ Updating(q)
    BY <2>1 DEF Elsewhere, Inserting, Updating, Inserted
  <2>2. CASE Committing(q)
    <3>1. q \in inserting
      BY <1>1, <2>2 DEF Committing, RequestInv
    <3>2. QED
      BY <1>1, <2>2, <3>1 DEF Committing, CommitInsert, RequestInv
  <2>3. QED
    BY <1>2, <2>1, <2>2
<1>6. TypeOK'
  BY <1>1, <1>2, <1>3, <1>5
     DEF TypeOK, Elsewhere, Inserting, Committing, Updating, Inserted, CommitInsert, Rows
<1>7. RequestInv'
  <2>1. \A r : Parent(r)' = Parent(r)
    BY <1>2 DEF Parent
  <2>2. (\A r \in rows : HasParent(r) => Parent(r) \in rows)'
    BY <1>1, <1>5, <2>1 DEF RequestInv, HasParent
  <2>3. (inserting = {x \in Verifies \cup Hints : pc[x] = "commit"})'
    BY <1>1, <1>2, <1>3
       DEF RequestInv, Elsewhere, Inserting, Committing, Updating, Inserted, CommitInsert, Made
  <2>4. (\A x \in inserting : Parent(x) \in rows \ locked)'
    BY <1>1, <1>2, <1>5, <2>1
       DEF RequestInv, Elsewhere, Inserting, Committing, Updating, Inserted, CommitInsert
  <2>5. (\A x \in (rows \cup planned) \ {Solver} : pc[x] \in Made)'
    <3>1. \A x \in (rows \cup planned) \ {Solver} : x \in Verifies \cup Hints
      BY <1>1 DEF TypeOK, Rows
    <3>2. pc'[q] \in Made \/ q \notin rows' \cup planned
      BY <1>1, <1>2, <3>1
         DEF RequestInv, Elsewhere, Inserting, Committing, Updating, Inserted, CommitInsert, Made
    <3>3. QED
      BY <1>1, <1>3, <1>5, <3>1, <3>2 DEF RequestInv
  <2>6. (updating \cap locked = {})'
    BY <1>1, <1>2
       DEF RequestInv, Elsewhere, Inserting, Committing, Updating, Inserted, CommitInsert
  <2>7. QED
    BY <2>2, <2>3, <2>4, <2>5, <2>6 DEF RequestInv
<1>8. ScriptInv'
  <2>1. (\A p \in deleted : Children(rows \ deleted, p) = {})'
    BY <1>1, <1>2, <1>5 DEF ScriptInv, TypeOK, Children, Parent, HasParent
  <2>2. planned \cap rows' = planned \cap rows
    BY <1>1, <1>5 DEF RequestInv, Made
  <2>3. QED
    BY <1>1, <1>4, <1>5, <2>1, <2>2 DEF ScriptInv
<1>9. ReseedFailsForCause'
  BY <1>1, <1>5 DEF ReseedFailsForCause
<1>10. QED
  BY <1>6, <1>7, <1>8, <1>9 DEF ReseedInv

\* The script's DELETEs.
LEMMA DeletionKeepsInv ==
  ASSUME ReseedInv, DeleteHints \/ LockTarget \/ DeleteVerifiers \/ DeleteSolvers
  PROVE  ReseedInv'
<1> USE RowsAssumption
<1>1. TypeOK /\ RequestInv /\ ScriptInv /\ ReseedFailsForCause
  BY DEF ReseedInv
<1>2. UNCHANGED <<tables, requestVars, planned, seeding, summary>>
  BY DEF DeleteHints, LockTarget, DeleteVerifiers, DeleteSolvers
<1>3. \A set, p : Children(set, p)' = Children(set, p)
  BY <1>2 DEF Children, Parent, HasParent
<1>4. CASE DeleteHints
  <2>1. /\ rpc = "hints" /\ rpc' = "verifiers"
        /\ deleted' = rows \cap Hints /\ locked' = rows \cap Hints /\ targets' = rows \cap Verifies
    BY <1>4 DEF DeleteHints
  <2>2. TypeOK'
    BY <1>1, <1>2, <2>1 DEF TypeOK, ScriptSteps
  <2>3. RequestInv'
    <3>1. \A q \in inserting : Parent(q) \notin Hints
      BY <1>1 DEF TypeOK, Parent
    <3>2. QED
      BY <1>1, <1>2, <2>1, <3>1 DEF RequestInv, TypeOK, Parent, HasParent
  <2>4. \A p \in rows \cap Hints : Children(rows \ deleted', p) = {}
    BY <1>1 DEF TypeOK, Children, Parent, HasParent, Rows
  <2>5. ScriptInv'
    BY <1>1, <1>2, <1>3, <2>1, <2>4 DEF ScriptInv, TypeOK, Rows
  <2>6. QED
    BY <1>1, <1>2, <2>1, <2>2, <2>3, <2>5 DEF ReseedInv, ReseedFailsForCause
<1>5. CASE LockTarget
  <2>1. PICK r \in targets \ locked :
          r \notin updating /\ Children(inserting, r) = {} /\ locked' = locked \cup {r}
    BY <1>5 DEF LockTarget
  <2>2. rpc \in {"verifiers", "solvers"} /\ UNCHANGED <<rpc, targets, deleted>>
    BY <1>5 DEF LockTarget
  <2>3. r \in rows
    BY <1>1, <2>1, <2>2 DEF ScriptInv, TypeOK
  <2>4. \A q \in inserting : Parent(q) # r
    BY <1>1, <2>1 DEF Children, HasParent, TypeOK
  <2>5. TypeOK'
    BY <1>1, <1>2, <2>1, <2>2, <2>3 DEF TypeOK
  <2>6. RequestInv'
    BY <1>1, <1>2, <2>1, <2>4 DEF RequestInv, Parent, HasParent
  <2>7. ScriptInv'
    BY <1>1, <1>2, <1>3, <2>1, <2>2 DEF ScriptInv
  <2>8. QED
    BY <1>1, <1>2, <2>2, <2>5, <2>6, <2>7 DEF ReseedInv, ReseedFailsForCause
<1>6. CASE DeleteVerifiers
  <2>1. /\ rpc = "verifiers" /\ rpc' = "solvers" /\ targets \subseteq locked
        /\ \A r \in targets : Children(rows \ deleted, r) = {}
        /\ deleted' = deleted \cup targets /\ locked' = locked
        /\ targets' = {x \in {Solver} \cap rows : Children(rows \ deleted', x) = {}}
    BY <1>6 DEF DeleteVerifiers, Restricted
  <2>2. TypeOK'
    BY <1>1, <1>2, <2>1 DEF TypeOK, ScriptSteps
  <2>3. RequestInv'
    BY <1>1, <1>2, <2>1 DEF RequestInv, Parent, HasParent
  <2>4. \A p \in deleted' : Children(rows \ deleted', p) = {}
    BY <1>1, <2>1 DEF ScriptInv, Children
  <2>5. Solver \in rows
    BY <1>1, <2>1 DEF ScriptInv
  <2>6. ScriptInv'
    BY <1>1, <1>2, <1>3, <2>1, <2>4, <2>5 DEF ScriptInv
  <2>7. QED
    BY <1>1, <1>2, <2>1, <2>2, <2>3, <2>6 DEF ReseedInv, ReseedFailsForCause
<1>7. CASE DeleteSolvers
  <2>1. /\ rpc = "solvers" /\ rpc' = "committing" /\ targets \subseteq locked
        /\ \A r \in targets : Children(rows \ deleted, r) = {}
        /\ deleted' = deleted \cup targets /\ locked' = locked /\ targets' = {}
    BY <1>7 DEF DeleteSolvers, Restricted
  <2>2. TypeOK'
    BY <1>1, <1>2, <2>1 DEF TypeOK, ScriptSteps
  <2>3. RequestInv'
    BY <1>1, <1>2, <2>1 DEF RequestInv, Parent, HasParent
  <2>4. \A p \in deleted' : Children(rows \ deleted', p) = {}
    BY <1>1, <2>1 DEF ScriptInv, Children
  <2>5. Solver \in deleted' \/ Children(rows \ deleted', Solver) # {}
    <3>1. CASE Solver \in targets
      BY <2>1, <3>1
    <3>2. CASE Solver \notin targets
      <4>1. targets = {}
        BY <1>1, <2>1, <3>2 DEF ScriptInv
      <4>2. Children(rows \ deleted, Solver) # {}
        BY <1>1, <2>1, <3>2 DEF ScriptInv
      <4>3. QED
        BY <2>1, <4>1, <4>2
    <3>3. QED
      BY <3>1, <3>2
  <2>6. ScriptInv'
    BY <1>1, <1>2, <1>3, <2>1, <2>4, <2>5 DEF ScriptInv
  <2>7. QED
    BY <1>1, <1>2, <2>1, <2>2, <2>3, <2>6 DEF ReseedInv, ReseedFailsForCause
<1>8. QED
  BY <1>4, <1>5, <1>6, <1>7

\* The end of the transaction, whichever it is.
LEMMA ReleaseKeepsInv ==
  ASSUME ReseedInv, DeleteRestricted \/ CommitDeletion \/ ScriptKilled
  PROVE  ReseedInv'
<1> USE RowsAssumption
<1>1. TypeOK /\ RequestInv /\ ScriptInv /\ ReseedFailsForCause
  BY DEF ReseedInv
<1>2. /\ UNCHANGED <<inserting, updating, requestVars, planned, seeding, summary>>
      /\ targets' = {} /\ locked' = {} /\ deleted' = {}
      /\ rpc' \in {"failed", "seed", "killed"}
  BY DEF DeleteRestricted, CommitDeletion, ScriptKilled, LetGo
<1>3. rows' = rows \/ rows' = rows \ deleted
  BY DEF DeleteRestricted, CommitDeletion, ScriptKilled
<1>4. TypeOK'
  BY <1>1, <1>2, <1>3 DEF TypeOK, RequestInv, ScriptEnds, ScriptSteps
<1>5. RequestInv'
  <2>1. \A r : Parent(r)' = Parent(r)
    BY <1>2 DEF Parent
  <2>2. \A r \in rows' : HasParent(r) => Parent(r) \in rows'
    BY <1>1, <1>3 DEF RequestInv, ScriptInv, Children
  <2>3. \A q \in inserting : Parent(q) \in rows'
    BY <1>1, <1>3 DEF RequestInv, TypeOK
  <2>4. QED
    BY <1>1, <1>2, <1>3, <2>1, <2>2, <2>3 DEF RequestInv, HasParent
<1>6. CASE DeleteRestricted
  <2>1. rpc \in {"verifiers", "solvers"} /\ rpc' = "failed" /\ UNCHANGED rows
    BY <1>6 DEF DeleteRestricted, LetGo
  <2>2. PICK r \in targets, c \in rows \ deleted : HasParent(c) /\ Parent(c) = r
    BY <1>6 DEF DeleteRestricted, Restricted, Children
  <2>3. c \notin planned
    BY <1>1, <2>1, <2>2, Parents DEF ScriptInv, TypeOK, HasParent
  <2>4. ScriptInv' /\ ReseedFailsForCause'
    BY <1>1, <1>2, <2>1, <2>2, <2>3 DEF ScriptInv, ReseedFailsForCause
  <2>5. QED
    BY <1>4, <1>5, <2>4 DEF ReseedInv
<1>7. CASE CommitDeletion
  <2>1. rpc = "committing" /\ rpc' = "seed" /\ rows' = rows \ deleted
    BY <1>7 DEF CommitDeletion, LetGo
  <2>2. ScriptInv' /\ ReseedFailsForCause'
    BY <1>1, <1>2, <2>1 DEF ScriptInv, ReseedFailsForCause
  <2>3. QED
    BY <1>4, <1>5, <2>2 DEF ReseedInv
<1>8. CASE ScriptKilled
  <2>1. rpc' = "killed" /\ UNCHANGED rows
    BY <1>8 DEF ScriptKilled, LetGo
  <2>2. ScriptInv' /\ ReseedFailsForCause'
    BY <1>1, <1>2, <2>1 DEF ScriptInv, ReseedFailsForCause
  <2>3. QED
    BY <1>4, <1>5, <2>2 DEF ReseedInv
<1>9. QED
  BY <1>6, <1>7, <1>8

\* The plan, its confirmation and the seeding.
LEMMA SeedingKeepsInv ==
  ASSUME ReseedInv, PrintPlan \/ Confirm \/ SeedVariant \/ EndSeeding PROVE ReseedInv'
<1> USE RowsAssumption
<1>1. TypeOK /\ RequestInv /\ ScriptInv /\ ReseedFailsForCause
  BY DEF ReseedInv
<1>2. UNCHANGED <<tables, requestVars, targets, locked, deleted>>
  BY DEF PrintPlan, Confirm, SeedVariant, EndSeeding
<1>3. \A set, p : Children(set, p)' = Children(set, p)
  BY <1>2 DEF Children, Parent, HasParent
<1>4. CASE PrintPlan
  BY <1>1, <1>2, <1>3, <1>4
     DEF PrintPlan, ReseedInv, TypeOK, ScriptSteps, RequestInv, ScriptInv, ReseedFailsForCause,
         Parent, HasParent
<1>5. CASE Confirm
  BY <1>1, <1>2, <1>3, <1>5
     DEF Confirm, ReseedInv, TypeOK, ScriptSteps, ScriptEnds, RequestInv, ScriptInv,
         ReseedFailsForCause, Parent, HasParent
<1>6. CASE SeedVariant
  <2>1. PICK outcome \in {"skipped", "failed"} :
          /\ summary' = [summary EXCEPT ![outcome] = @ + 1]
          /\ outcome = "skipped" => AlreadySeeded(Variants[seeding])
    BY <1>6 DEF SeedVariant
  <2>2. rpc = "seed" /\ seeding <= Len(Variants) /\ seeding' = seeding + 1 /\ UNCHANGED <<rpc, planned>>
    BY <1>6 DEF SeedVariant
  <2>3. Len(Variants) \in Nat
    BY VariantsAssumption
  <2>4. /\ summary.skipped \in Nat /\ summary.failed \in Nat
        /\ summary.skipped + summary.failed = seeding - 1
        /\ seeding \in Nat \ {0}
    BY <1>1, <2>3 DEF TypeOK
  <2>5. \/ summary'.skipped = summary.skipped + 1 /\ summary'.failed = summary.failed
        \/ summary'.skipped = summary.skipped /\ summary'.failed = summary.failed + 1
    BY <1>1, <2>1 DEF TypeOK
  <2>6. summary' \in [{"skipped", "failed"} -> 0..Len(Variants)]
    <3>1. /\ summary'.skipped \in 0..Len(Variants)
          /\ summary'.failed \in 0..Len(Variants)
      BY <2>2, <2>3, <2>4, <2>5
    <3>2. DOMAIN summary' = {"skipped", "failed"}
      BY <1>1, <2>1 DEF TypeOK
    <3>3. summary' = [x \in {"skipped", "failed"} |-> summary'[x]]
      BY <1>1, <2>1, <3>2 DEF TypeOK
    <3>4. QED
      BY <3>1, <3>3
  <2>7. TypeOK'
    BY <1>1, <1>2, <2>2, <2>4, <2>5, <2>6 DEF TypeOK
  <2>8. RequestInv' /\ ScriptInv'
    BY <1>1, <1>2, <1>3, <2>2 DEF RequestInv, ScriptInv, Parent, HasParent
  <2>9. ReseedFailsForCause'
    <3>1. CASE outcome = "skipped"
      <4>1. PICK v \in Verifies \cap rows : TRUE
        BY <2>1, <3>1 DEF AlreadySeeded
      <4>2. v \notin planned
        BY <1>1, <2>2 DEF ScriptInv
      <4>3. QED
        BY <1>2, <2>2, <4>1, <4>2 DEF ReseedFailsForCause
    <3>2. CASE outcome = "failed"
      BY <1>1, <1>2, <2>1, <2>2, <3>2 DEF ReseedFailsForCause, TypeOK
    <3>3. QED
      BY <3>1, <3>2
  <2>10. QED
    BY <2>7, <2>8, <2>9 DEF ReseedInv
<1>7. CASE EndSeeding
  BY <1>1, <1>2, <1>3, <1>7
     DEF EndSeeding, ReseedInv, TypeOK, ScriptEnds, RequestInv, ScriptInv, ReseedFailsForCause,
         Parent, HasParent
<1>8. QED
  BY <1>4, <1>5, <1>6, <1>7

LEMMA ReseedStep == ReseedInv /\ [Next]_vars => ReseedInv'
<1> SUFFICES ASSUME ReseedInv, [Next]_vars PROVE ReseedInv'
  OBVIOUS
<1>1. CASE UNCHANGED vars
  BY <1>1
     DEF ReseedInv, TypeOK, RequestInv, ScriptInv, ReseedFailsForCause, Children, Parent, HasParent
<1>2. QED
  BY <1>1, RequestKeepsInv, DeletionKeepsInv, ReleaseKeepsInv, SeedingKeepsInv DEF Next, ScriptStep

-----------------------------------------------------------------------------
(* The theorems. *)

THEOREM ReseedInvariance == Spec => []ReseedInv
  BY ReseedInit, ReseedStep, PTL DEF Spec

\* ReseedFailsForCause: however many requests run beside it, the script meets a foreign
\* key or a variant in place only if a row was committed that its plan did not show.
THEOREM FailuresHaveACause == Spec => []ReseedFailsForCause
<1>1. ReseedInv => ReseedFailsForCause
  BY DEF ReseedInv
<1>2. QED
  BY <1>1, ReseedInvariance, PTL

\* ReseedIsWhole: the only step that deletes anything deletes the whole plan and leaves
\* no row without the one it refers to.
THEOREM DeletionIsWhole == Spec => ReseedIsWhole
<1> DEFINE Whole ==
      ~(rows \subseteq rows') =>
        /\ planned \cap rows' \subseteq {Solver}
        /\ \A r \in rows' : HasParent(r) => Parent(r) \in rows'
        /\ Solver \in rows' => Children(rows', Solver) # {}
<1>1. ReseedInv /\ [Next]_vars => [Whole]_vars
  <2> SUFFICES ASSUME ReseedInv, Next, ~(rows \subseteq rows') PROVE Whole
    OBVIOUS
  <2>1. CommitDeletion
    <3>1. ASSUME NEW q \in Verifies \cup Hints, RequestStep(q) PROVE rows \subseteq rows'
      BY <3>1, RequestEffect
         DEF ReseedInv, Elsewhere, Inserting, Committing, Updating, Inserted, CommitInsert
    <3>2. QED
      BY <3>1
         DEF Next, ScriptStep, PrintPlan, Confirm, DeleteHints, LockTarget, DeleteVerifiers,
             DeleteSolvers, DeleteRestricted, SeedVariant, EndSeeding, ScriptKilled
  <2>2. rows' = rows \ deleted /\ rpc = "committing"
    BY <2>1 DEF CommitDeletion
  <2>3. QED
    BY <2>2 DEF ReseedInv, RequestInv, ScriptInv, Children
<1>2. QED
  BY <1>1, ReseedInvariance, PTL DEF Spec, ReseedIsWhole
=============================================================================
