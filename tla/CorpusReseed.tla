---------------------------- MODULE CorpusReseed ----------------------------
(***************************************************************************)
(* The script seed_failure_corpus with --delete-existing, beside live      *)
(* verify and hint requests on the same problem.                           *)
(*                                                                         *)
(* A verifier row refers to a solver row and a hint row to a verifier row, *)
(* both ON DELETE RESTRICT.  PostgreSQL at READ COMMITTED: a statement     *)
(* sees what was committed when it began; an INSERT takes a share of the   *)
(* lock of the row it refers to until its transaction ends, an UPDATE and  *)
(* a DELETE lock the row; a DELETE then looks for rows that refer to it.   *)
(*                                                                         *)
(* Each request makes the one row that has its name.  Numbering and cap of *)
(* hints are in HintSession, the embedding columns in VerifySession.       *)
(***************************************************************************)
EXTENDS Naturals, Sequences

CONSTANTS
  Solver,    \* the solver row of the problem
  Verifies,  \* verify requests for it, and the rows they make
  Hints,     \* hint requests, and their rows
  Variants,  \* the codes of the variants file, in its order
  Code       \* the student_code of each verify request

ASSUME CodeAssumption == DOMAIN Code = Verifies
ASSUME VariantsAssumption == Variants \in Seq(STRING)
ASSUME RowsAssumption == Solver \notin Verifies \cup Hints /\ Verifies \cap Hints = {}

Rows == {Solver} \cup Verifies \cup Hints

VARIABLES
  rows,      \* the committed rows
  about,     \* the verifier session a hint request is for
  pc,        \* the next step of each request
  inserting, \* rows inserted and not committed
  updating,  \* verifier rows updated and not committed
  reply,     \* the status of each answer
  rpc,       \* the next step of the script
  planned,   \* the rows that the printed plan counts
  targets,   \* the rows its current DELETE is to delete
  locked,    \* the rows it has locked
  deleted,   \* the rows it has deleted and not committed
  seeding,   \* the variant it is at
  summary    \* skipped and failed variants

tables == <<rows, inserting, updating>>
requestVars == <<about, pc, reply>>
scriptVars == <<rpc, planned, targets, locked, deleted, seeding, summary>>
vars == <<tables, requestVars, scriptVars>>

Parent(r) == IF r \in Hints THEN about[r] ELSE Solver
HasParent(r) == r # Solver

\* Those of some set that refer to a row.
Children(set, p) == {r \in set : HasParent(r) /\ Parent(r) = p}

VerifySteps == {"lookup", "verify", "insert", "commit", "refresh",
                "update1", "commit1", "refresh1", "update2", "commit2", "refresh2"}
HintSteps == {"lookup", "lookup_solver", "generate", "insert", "insert_again", "commit",
              "refresh"}
ScriptSteps == {"idle", "confirm", "hints", "verifiers", "solvers", "committing", "seed"}
ScriptEnds == {"ended", "aborted", "failed", "killed"}

Active(q) == pc[q] # "done"
Goto(q, step) == pc' = [pc EXCEPT ![q] = step] /\ UNCHANGED <<about, reply>>
Answer(q, what) ==
  /\ pc' = [pc EXCEPT ![q] = "done"]
  /\ reply' = [reply EXCEPT ![q] = what]
  /\ UNCHANGED about

\* Some requests were answered before.
Init ==
  /\ about \in [Hints -> Verifies]
  /\ \E v \in SUBSET Verifies, h \in SUBSET Hints :
       /\ \A hint \in h : about[hint] \in v
       /\ rows = {Solver} \cup v \cup h
       /\ pc = [q \in Verifies \cup Hints |-> IF q \in v \cup h THEN "done" ELSE "lookup"]
       /\ reply = [q \in Verifies \cup Hints |-> IF q \in v \cup h THEN "ok" ELSE "none"]
  /\ inserting = {}
  /\ updating = {}
  /\ rpc = "idle"
  /\ planned = {}
  /\ targets = {}
  /\ locked = {}
  /\ deleted = {}
  /\ seeding = 1
  /\ summary = [skipped |-> 0, failed |-> 0]

-----------------------------------------------------------------------------
(* The requests. *)

Free(r) == r \notin locked

\* The INSERT waits for a lock of its parent; a parent that is gone is an
\* IntegrityError, which inserted says nothing of.
Inserted(q) == inserting' = inserting \cup {q} /\ UNCHANGED <<rows, updating>>
CommitInsert(q) ==
  /\ rows' = rows \cup {q}
  /\ inserting' = inserting \ {q}
  /\ UNCHANGED updating

LookUpSolverFor(v) ==
  /\ v \in Verifies /\ pc[v] = "lookup"
  /\ \/ Solver \in rows /\ Goto(v, "verify")
     \/ Solver \notin rows /\ Answer(v, "not_found")
  /\ UNCHANGED tables

RunVerifier(v) ==
  /\ pc[v] = "verify"
  /\ Goto(v, "insert") \/ Answer(v, "unavailable")
  /\ UNCHANGED tables

InsertVerifier(v) ==
  /\ v \in Verifies /\ pc[v] = "insert"
  /\ Free(Solver)
  /\ \/ Solver \in rows /\ Inserted(v) /\ Goto(v, "commit")
     \/ Solver \notin rows /\ Answer(v, "error") /\ UNCHANGED tables

CommitVerifier(v) ==
  /\ v \in Verifies /\ pc[v] = "commit"
  /\ CommitInsert(v)
  /\ Goto(v, "refresh")

\* refresh() raises if the row is gone; then the hook, for a failed attempt: with
\* a vector, or with the status failed if there is none.
RefreshVerifier(v) ==
  /\ v \in Verifies /\ pc[v] = "refresh"
  /\ \/ v \notin rows /\ Answer(v, "error")
     \/ v \in rows /\ (Answer(v, "ok") \/ Goto(v, "update1") \/ Goto(v, "update2"))
  /\ UNCHANGED tables

\* An UPDATE of a row that is gone updates none.
UpdateVerifier(v) ==
  /\ pc[v] \in {"update1", "update2"}
  /\ Free(v)
  /\ updating' = updating \cup ({v} \cap rows)
  /\ Goto(v, IF pc[v] = "update1" THEN "commit1" ELSE "commit2")
  /\ UNCHANGED <<rows, inserting>>

CommitUpdate(v) ==
  /\ pc[v] \in {"commit1", "commit2"}
  /\ updating' = updating \ {v}
  /\ Goto(v, IF pc[v] = "commit1" THEN "refresh1" ELSE "refresh2")
  /\ UNCHANGED <<rows, inserting>>

\* The first refresh that raises leads to the except branch, the second is
\* swallowed, and the route meets an expired row.
RefreshUpdated(v) ==
  /\ pc[v] \in {"refresh1", "refresh2"}
  /\ \/ v \in rows /\ Answer(v, "ok")
     \/ v \notin rows /\ pc[v] = "refresh1" /\ Goto(v, "update2")
     \/ v \notin rows /\ pc[v] = "refresh2" /\ Answer(v, "error")
  /\ UNCHANGED tables

\* An attempt that passed gets no hint.
LookUpVerifierFor(h) ==
  /\ h \in Hints /\ pc[h] = "lookup"
  /\ \/ about[h] \in rows /\ (Goto(h, "lookup_solver") \/ Answer(h, "passed"))
     \/ about[h] \notin rows /\ Answer(h, "not_found")
  /\ UNCHANGED tables

\* A second SELECT, which may see a later state of the tables than the first.
LookUpSolverOf(h) ==
  /\ pc[h] = "lookup_solver"
  /\ \/ Solver \in rows /\ Goto(h, "generate")
     \/ Solver \notin rows /\ Answer(h, "inconsistent")
  /\ UNCHANGED tables

\* The cap, malformed results and a failing LLM are refusals or errors.
GenerateHint(h) ==
  /\ pc[h] = "generate"
  /\ Goto(h, "insert") \/ Answer(h, "error")
  /\ UNCHANGED tables

\* Every IntegrityError is taken for a collision of indexes: retry, then 409.
InsertHint(h) ==
  /\ h \in Hints /\ pc[h] \in {"insert", "insert_again"}
  /\ Free(about[h])
  /\ \/ about[h] \in rows /\ Inserted(h) /\ Goto(h, "commit")
     \/ /\ about[h] \notin rows
        /\ IF pc[h] = "insert" THEN Goto(h, "insert_again") ELSE Answer(h, "conflict")
        /\ UNCHANGED tables

CommitHint(h) ==
  /\ h \in Hints /\ pc[h] = "commit"
  /\ CommitInsert(h)
  /\ Goto(h, "refresh")

RefreshHint(h) ==
  /\ h \in Hints /\ pc[h] = "refresh"
  /\ Answer(h, IF h \in rows THEN "ok" ELSE "error")
  /\ UNCHANGED tables

RequestStep(q) ==
  \/ LookUpSolverFor(q)
  \/ RunVerifier(q)
  \/ InsertVerifier(q)
  \/ CommitVerifier(q)
  \/ RefreshVerifier(q)
  \/ UpdateVerifier(q)
  \/ CommitUpdate(q)
  \/ RefreshUpdated(q)
  \/ LookUpVerifierFor(q)
  \/ LookUpSolverOf(q)
  \/ GenerateHint(q)
  \/ InsertHint(q)
  \/ CommitHint(q)
  \/ RefreshHint(q)

-----------------------------------------------------------------------------
(* The script. *)

PrintPlan ==
  /\ rpc = "idle"
  /\ planned' = rows
  /\ rpc' = "confirm"
  /\ UNCHANGED <<tables, requestVars, targets, locked, deleted, seeding, summary>>

\* --yes-dev-db is a yes at once; the operator may also never answer.
Confirm ==
  /\ rpc = "confirm"
  /\ rpc' \in {"hints", "aborted"}
  /\ UNCHANGED <<tables, requestVars, planned, targets, locked, deleted, seeding, summary>>

\* Mutation: the hints' DELETE is a transaction of its own.
DeleteHintsAndCommit ==
  /\ rpc = "hints"
  /\ rows' = rows \ Hints
  /\ targets' = rows \cap Verifies
  /\ rpc' = "verifiers"
  /\ UNCHANGED <<inserting, updating, requestVars, planned, locked, deleted, seeding, summary>>

\* Mutation: the verifiers' DELETE is issued first.
DeleteVerifiersFirst ==
  /\ rpc = "hints"
  /\ targets' = rows \cap Verifies
  /\ rpc' = "verifiers"
  /\ UNCHANGED <<tables, requestVars, planned, locked, deleted, seeding, summary>>

\* DELETE_HINTS_SQL; nobody else locks a hint row.  The next statement begins.
DeleteHints ==
  /\ rpc = "hints"
  /\ deleted' = rows \cap Hints
  /\ locked' = rows \cap Hints
  /\ targets' = rows \cap Verifies
  /\ rpc' = "verifiers"
  /\ UNCHANGED <<tables, requestVars, planned, seeding, summary>>

\* A DELETE locks its rows one by one: not while another transaction has updated
\* the row or inserted one that refers to it.
LockTarget ==
  /\ rpc \in {"verifiers", "solvers"}
  /\ \E r \in targets \ locked :
       /\ r \notin updating
       /\ Children(inserting, r) = {}
       /\ locked' = locked \cup {r}
  /\ UNCHANGED <<tables, requestVars, rpc, planned, targets, deleted, seeding, summary>>

Restricted == \E r \in targets : Children(rows \ deleted, r) # {}

\* Mutation: the operator is asked once the rows are locked.
ConfirmLast ==
  /\ rpc = "verifiers" /\ targets \subseteq locked
  /\ ~Restricted
  /\ deleted' = deleted \cup targets
  /\ targets' = {}
  /\ rpc' = "confirm"
  /\ UNCHANGED <<tables, requestVars, planned, locked, seeding, summary>>

\* DELETE_VERIFIERS_SQL ends and DELETE_SOLVERS_SQL begins: NOT IN excludes a
\* solver row that a verifier row still refers to.
DeleteVerifiers ==
  /\ rpc = "verifiers" /\ targets \subseteq locked
  /\ ~Restricted
  /\ deleted' = deleted \cup targets
  /\ targets' = {s \in {Solver} \cap rows : Children(rows \ deleted', s) = {}}
  /\ rpc' = "solvers"
  /\ UNCHANGED <<tables, requestVars, planned, locked, seeding, summary>>

DeleteSolvers ==
  /\ rpc = "solvers" /\ targets \subseteq locked
  /\ ~Restricted
  /\ deleted' = deleted \cup targets
  /\ targets' = {}
  /\ rpc' = "committing"
  /\ UNCHANGED <<tables, requestVars, planned, locked, seeding, summary>>

LetGo(end) ==
  /\ targets' = {}
  /\ locked' = {}
  /\ deleted' = {}
  /\ rpc' = end

\* A row still refers to one of the targets: IntegrityError, a traceback.
DeleteRestricted ==
  /\ rpc \in {"verifiers", "solvers"} /\ targets \subseteq locked
  /\ Restricted
  /\ LetGo("failed")
  /\ UNCHANGED <<tables, requestVars, planned, seeding, summary>>

CommitDeletion ==
  /\ rpc = "committing"
  /\ rows' = rows \ deleted
  /\ LetGo("seed")
  /\ UNCHANGED <<inserting, updating, requestVars, planned, seeding, summary>>

ScriptKilled ==
  /\ rpc \in ScriptSteps \ {"idle"}
  /\ LetGo("killed")
  /\ UNCHANGED <<tables, requestVars, planned, seeding, summary>>

\* EXISTS_SQL.
AlreadySeeded(variant) ==
  Solver \in rows /\ \E v \in Verifies \cap rows : Code[v] = variant

\* A variant without a row: _seed_one posts to /solve without entry_function,
\* which SolverInput requires, and the 422 is counted as a failure.
SeedVariant ==
  /\ rpc = "seed" /\ seeding <= Len(Variants)
  /\ LET outcome == IF AlreadySeeded(Variants[seeding]) THEN "skipped" ELSE "failed" IN
       summary' = [summary EXCEPT ![outcome] = @ + 1]
  /\ seeding' = seeding + 1
  /\ UNCHANGED <<tables, requestVars, rpc, planned, targets, locked, deleted>>

EndSeeding ==
  /\ rpc = "seed" /\ seeding > Len(Variants)
  /\ rpc' = "ended"
  /\ UNCHANGED <<tables, requestVars, planned, targets, locked, deleted, seeding, summary>>

ScriptStep ==
  \/ DeleteHints
  \/ LockTarget
  \/ DeleteVerifiers
  \/ DeleteSolvers
  \/ DeleteRestricted
  \/ CommitDeletion
  \/ SeedVariant
  \/ EndSeeding

Next ==
  \/ \E q \in Verifies \cup Hints : RequestStep(q) /\ UNCHANGED scriptVars
  \/ PrintPlan
  \/ Confirm
  \/ ScriptStep
  \/ ScriptKilled

Spec == Init /\ [][Next]_vars

\* Calls return and a lock goes to one that waits for it.  No operator need
\* answer, and nobody need start or kill the script.
FairSpec ==
  /\ Spec
  /\ \A q \in Verifies \cup Hints : WF_vars(RequestStep(q) /\ UNCHANGED scriptVars)
  /\ WF_vars(ScriptStep)

-----------------------------------------------------------------------------
TypeOK ==
  /\ rows \subseteq Rows
  /\ about \in [Hints -> Verifies]
  /\ pc \in [Verifies \cup Hints -> VerifySteps \cup HintSteps \cup {"done"}]
  /\ \A v \in Verifies : pc[v] \in VerifySteps \cup {"done"}
  /\ \A h \in Hints : pc[h] \in HintSteps \cup {"done"}
  /\ inserting \subseteq Verifies \cup Hints
  /\ updating \subseteq Verifies \cap rows
  /\ rpc \in ScriptSteps \cup ScriptEnds
  /\ planned \subseteq Rows
  /\ deleted \subseteq locked /\ locked \subseteq rows
  /\ summary \in [{"skipped", "failed"} -> 0..Len(Variants)]
  /\ seeding \in Nat \ {0} /\ summary.skipped + summary.failed = seeding - 1

\* The deletion is whole or nothing.  When rows go, all go that the operator was
\* shown but a solver row with a newer attempt, no row stays without the row it
\* refers to, and no solver row stays for nothing.
ReseedIsWhole ==
  [][ ~(rows \subseteq rows') =>
        /\ planned \cap rows' \subseteq {Solver}
        /\ \A r \in rows' : HasParent(r) => Parent(r) \in rows'
        /\ Solver \in rows' => Children(rows', Solver) # {} ]_vars

\* The script fails on a foreign key, or finds a variant in place after it deleted
\* them all, only if a request has committed a row that the plan did not show.
ReseedFailsForCause ==
  rpc = "failed" \/ summary.skipped > 0 => ~(rows \subseteq planned)

\* Why, the requests: a row refers to a row, one that is being inserted to one that
\* nobody deletes, and a request makes its row once.
Made == {"refresh", "update1", "commit1", "refresh1", "update2", "commit2", "refresh2", "done"}
RequestInv ==
  /\ \A r \in rows : HasParent(r) => Parent(r) \in rows
  /\ inserting = {q \in Verifies \cup Hints : pc[q] = "commit"}
  /\ \A q \in inserting : Parent(q) \in rows \ locked
  /\ \A q \in (rows \cup planned) \ {Solver} : pc[q] \in Made
  /\ updating \cap locked = {}

\* Why, the script: what its statements have deleted leaves no row behind, and with
\* each of them more of the plan is gone.
ScriptInv ==
  /\ \A p \in deleted : Children(rows \ deleted, p) = {}
  /\ rpc \in {"idle", "confirm", "hints", "verifiers", "solvers", "committing"} =>
       Solver \in rows /\ planned \subseteq rows /\ summary.skipped = 0
  /\ rpc \notin {"verifiers", "solvers", "committing"} =>
       targets = {} /\ locked = {} /\ deleted = {}
  /\ rpc = "verifiers" =>
       /\ targets \subseteq Verifies \cap rows
       /\ planned \subseteq {Solver} \cup targets \cup deleted
  /\ rpc = "solvers" =>
       /\ targets \subseteq {Solver}
       /\ Solver \in targets \/ Children(rows \ deleted, Solver) # {}
  /\ rpc = "committing" => Solver \in deleted \/ Children(rows \ deleted, Solver) # {}
  /\ rpc \in {"solvers", "committing"} => planned \subseteq {Solver} \cup deleted
  /\ rpc \in {"seed", "ended"} => planned \cap rows \subseteq {Solver}
  /\ rpc \in {"aborted", "failed"} => summary.skipped = 0

ReseedInv == TypeOK /\ RequestInv /\ ScriptInv /\ ReseedFailsForCause

\* Each request is answered and the script ends once it is confirmed, whatever
\* they hold and wait for; an operator who does not answer keeps nobody waiting.
EveryoneAnswered ==
  /\ \A q \in Verifies \cup Hints : Active(q) ~> ~Active(q)
  /\ rpc = "hints" ~> rpc \in ScriptEnds

\* "Should be impossible due to FK RESTRICT": a hint request that finds the
\* verifier session finds its solver session.
SolverOfVerifierFound == \A h \in Hints : reply[h] # "inconsistent"
=============================================================================
