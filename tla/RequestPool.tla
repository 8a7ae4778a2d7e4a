---------------------------- MODULE RequestPool ----------------------------
(***************************************************************************)
(* The hint requests of HintSession over the connection pool of            *)
(* app/db/session.py.                                                      *)
(*                                                                         *)
(* A session has no connection until its first statement.  It keeps the    *)
(* one it took until its transaction ends, across every await in between,  *)
(* the LLM calls included: commit() and rollback() give it back, and the   *)
(* next statement takes one again.  Who finds none waits for pool_timeout  *)
(* seconds at most; waiters are not served in order.  The pool is of one   *)
(* API process and is also used by the requests of the other endpoints.    *)
(***************************************************************************)
EXTENDS HintSession

CONSTANT PoolSize  \* pool_size + max_overflow

ASSUME PoolAssumption == PoolSize \in Nat \ {0}

VARIABLES
  holds,   \* the hint requests whose session has a connection
  others   \* how many connections the requests of other endpoints have

poolVars == <<vars, holds, others>>

\* The first statement of a transaction: of the request, after the rollback of
\* a collision, and after the commit.
FirstStatements == {"lookup", "relist", "refresh"}

InUse == Cardinality(holds) + others
\* Mutation: max_overflow = -1, a pool without a limit.
NoLimit == TRUE

Free == InUse < PoolSize

NeedsConnection(r) == pc[r] \in FirstStatements /\ r \notin holds

\* Mutation: the session of a request that failed is not closed.
LeakedOnError(r) ==
  IF pc'[r] \in FirstStatements \/ (pc'[r] = "idle" /\ reply'[r] # "error")
  THEN holds \ {r} ELSE holds

\* What r has after a step: commit, rollback and the end of the request give
\* the connection back.
Released(r) == IF pc'[r] \in FirstStatements \cup {"idle"} THEN holds \ {r} ELSE holds

-----------------------------------------------------------------------------
PoolInit ==
  /\ Init
  /\ holds = {}
  /\ others = 0

TakeConnection(r) ==
  /\ NeedsConnection(r)
  /\ Free
  /\ holds' = holds \cup {r}
  /\ UNCHANGED <<vars, others>>

\* Mutation: no pool_timeout.
WaitForever(r) == FALSE

\* QueuePool raises TimeoutError, which nobody catches: 500, after a commit too.
PoolTimeout(r) ==
  /\ NeedsConnection(r)
  /\ ~Free
  /\ Finish(r, "error")
  /\ UNCHANGED <<hints, target, local, wrote, faults, holds, others>>

Serve(r) ==
  /\ Step(r)
  /\ ~NeedsConnection(r)
  /\ holds' = Released(r)
  /\ UNCHANGED others

Post(r, s) == Submit(r, s) /\ UNCHANGED <<holds, others>>

\* get_db_session rolls back and closes the session.
Fail(r) ==
  /\ RequestFails(r) \/ CommitUnacknowledged(r)
  /\ holds' = Released(r)
  /\ UNCHANGED others

Die ==
  /\ Crash
  /\ holds' = {}
  /\ others' = 0

OthersTake ==
  /\ Free
  /\ others' = others + 1
  /\ UNCHANGED <<vars, holds>>

OthersReturn ==
  /\ others > 0
  /\ others' = others - 1
  /\ UNCHANGED <<vars, holds>>

Progress(r) == TakeConnection(r) \/ PoolTimeout(r) \/ Serve(r)

PoolNext ==
  \/ \E r \in Requests, s \in Sessions : Post(r, s)
  \/ \E r \in Requests : Progress(r)
  \/ \E r \in Requests : Fail(r)
  \/ Die
  \/ OthersTake
  \/ OthersReturn

PoolSpec == PoolInit /\ [][PoolNext]_poolVars

\* As in HintSession, and a wait for a connection ends by one or by the time
\* limit.  The other endpoints need not ever give theirs back.
FairPoolSpec == PoolSpec /\ \A r \in Requests : WF_poolVars(Progress(r))

-----------------------------------------------------------------------------
\* The pool is never exceeded and never leaks: who has a connection is being
\* served.  A request that was admitted has kept its connection ever since, its
\* LLM calls included, but while it waits for one to relist.
ConnectionsAccounted ==
  /\ holds \subseteq {r \in Requests : Active(r)}
  /\ others \in Nat /\ InUse <= PoolSize
  /\ \A r \in Requests : pc[r] \notin FirstStatements \cup {"idle"} => r \in holds

\* The unlocked cap check, seen from the pool: however many requests come, a
\* session gets at most MaxHints * PoolSize hints.  A request that collides
\* makes room for another to pass the check, so MaxHints - 1 + PoolSize is not
\* a bound.
PoolBoundsHints == \A s \in Sessions : Count(s) <= MaxHints * PoolSize

-----------------------------------------------------------------------------
(* The inductive invariant: why PoolBoundsHints holds. *)

\* The requests in flight whose count has since been overtaken, and the others.
Overtaken(s) == {r \in InFlight(s) : counted[r] < Count(s)}
Current(s) == InFlight(s) \ Overtaken(s)

\* A request loses its connection only by colliding, when its count has been
\* overtaken; and each hint of a session overtakes at most PoolSize - 1.
CollidedInv ==
  \A r \in Requests :
    /\ pc[r] \in {"lookup", "list", "count"} => attempt[r] = 0
    /\ pc[r] = "insert" /\ attempt[r] = 0 => index[r] = counted[r] + 1
    /\ pc[r] = "relist" => attempt[r] = 1
    /\ pc[r] \in Admitted /\ attempt[r] = 1 => counted[r] < Count(target[r])
OvertakenInv ==
  \A s \in Sessions : Cardinality(Overtaken(s)) <= Count(s) * (PoolSize - 1)
CapInv ==
  \A s \in Sessions :
    Count(s) >= MaxHints => Count(s) + Cardinality(InFlight(s)) <= MaxHints * PoolSize

PoolInv == IInv /\ ConnectionsAccounted /\ CollidedInv /\ OvertakenInv /\ CapInv
=============================================================================
