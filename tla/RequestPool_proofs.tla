------------------------- MODULE RequestPool_proofs -------------------------
(***************************************************************************)
(* Proofs about RequestPool: with a pool of P connections a session gets   *)
(* at most MaxHints * P hints, however many requests run at a time.  They  *)
(* rest on the invariants proved in HintSession_proofs, which a wait for a *)
(* connection does not disturb.                                            *)
(***************************************************************************)
EXTENDS RequestPool, HintSession_proofs

USE DEF Active, Goto, Finish

-----------------------------------------------------------------------------
(* Counting. *)

\* The number of requests that hold a connection.
LEMMA HoldsType ==
  ASSUME holds \in SUBSET Requests
  PROVE  IsFiniteSet(holds) /\ Cardinality(holds) \in Nat
  BY FS_Subset, FS_CardinalityType, RequestsAssumption

LEMMA FlightParts ==
  ASSUME NEW s \in Sessions
  PROVE  /\ IsFiniteSet(InFlight(s)) /\ Cardinality(InFlight(s)) \in Nat
         /\ IsFiniteSet(Overtaken(s)) /\ Cardinality(Overtaken(s)) \in Nat
         /\ IsFiniteSet(Current(s)) /\ Cardinality(Current(s)) \in Nat
         /\ Overtaken(s) \subseteq InFlight(s)
<1>1. Overtaken(s) \subseteq InFlight(s) /\ Current(s) \subseteq InFlight(s)
  BY DEF Overtaken, Current
<1>2. QED
  BY <1>1, InFlightType, FS_Subset, FS_CardinalityType

\* The same of the next state: the prover does not prime a lemma.
LEMMA FlightPartsNext ==
  ASSUME NEW s \in Sessions
  PROVE  /\ IsFiniteSet(InFlight(s)') /\ Cardinality(InFlight(s)') \in Nat
         /\ IsFiniteSet(Overtaken(s)') /\ Cardinality(Overtaken(s)') \in Nat
<1>1. InFlight(s)' \subseteq Requests /\ Overtaken(s)' \subseteq Requests
  BY DEF InFlight, Overtaken
<1>2. QED
  BY <1>1, FS_Subset, FS_CardinalityType, RequestsAssumption

-----------------------------------------------------------------------------
(* A step over the pool is a step of HintSession, or a time limit. *)

LEMMA PoolStepIsStep ==
  ASSUME [PoolNext]_poolVars
  PROVE  [Next]_vars \/ \E r \in Requests : PoolTimeout(r)
<1>1. ASSUME NEW r \in Requests, NEW s \in Sessions, Post(r, s) PROVE Next
  BY <1>1 DEF Post, Next
<1>2. ASSUME NEW r \in Requests, Progress(r) PROVE [Next]_vars \/ PoolTimeout(r)
  BY <1>2 DEF Progress, TakeConnection, Serve, Next
<1>3. ASSUME NEW r \in Requests, Fail(r) PROVE Next
  BY <1>3 DEF Fail, Next
<1>4. CASE Die
  BY <1>4 DEF Die, Next
<1>5. CASE OthersTake \/ OthersReturn \/ UNCHANGED poolVars
  BY <1>5 DEF OthersTake, OthersReturn, poolVars
<1>6. QED
  BY <1>1, <1>2, <1>3, <1>4, <1>5 DEF PoolNext

\* Whoever gives up waiting leaves the table and the other requests alone.
LEMMA TimeoutKeepsIInv ==
  ASSUME IInv, NEW r \in Requests, PoolTimeout(r)
  PROVE  IInv'
<1> USE DEF local
<1>1. /\ UNCHANGED <<hints, target, listed, counted, index, attempt, txn, wrote, faults>>
      /\ pc' = [pc EXCEPT ![r] = "idle"]
      /\ reply' = [reply EXCEPT ![r] = "error"]
  BY DEF PoolTimeout
<1>2. TypeOK'
  BY <1>1 DEF IInv, TypeOK, Steps, Replies
<1>3. Contiguous'
  BY <1>1 DEF IInv, Contiguous, Count, Indices
<1>4. NumberingInv'
  <2>1. Numbered(r)'
    BY <1>1 DEF IInv, TypeOK, Numbered, Admitted
  <2>2. \A q \in Requests \ {r} : pc'[q] = pc[q]
    BY <1>1 DEF IInv, TypeOK
  <2>3. pc'[r] # "commit"
    BY <1>1 DEF IInv, TypeOK
  <2>4. QED
    BY <1>1, <2>1, <2>2, <2>3, QuietNumbering
<1>5. AdmissionInv'
  <2>1. SUFFICES ASSUME NEW s \in Sessions
                 PROVE  Count(s)' + Cardinality(InFlight(s))' <= MostHints
    BY DEF AdmissionInv, MostHints
  <2>2. InFlight(s)' \subseteq InFlight(s)
    BY <1>1 DEF IInv, TypeOK, InFlight, Admitted
  <2>3. Cardinality(InFlight(s)') <= Cardinality(InFlight(s))
    BY <2>2, InFlightType, FS_Subset
  <2>4. Count(s)' = Count(s) /\ Count(s) \in Nat
    BY <1>1, CountType DEF Count, IInv
  <2>5. Count(s) + Cardinality(InFlight(s)) <= MostHints
    BY DEF IInv, AdmissionInv
  <2>6. QED
    BY <2>3, <2>4, <2>5, InFlightType, FlightPartsNext, MostHintsType
<1>6. QED
  BY <1>2, <1>3, <1>4, <1>5 DEF IInv

LEMMA PoolKeepsIInv == IInv /\ [PoolNext]_poolVars => IInv'
<1>1. IInv /\ [Next]_vars => IInv'
  BY TypeStep, ContiguousStep, NumberingStep, AdmissionStep DEF IInv
<1>2. QED
  BY <1>1, PoolStepIsStep, TimeoutKeepsIInv

-----------------------------------------------------------------------------
(* Who has a connection. *)

\* A step of one request moves no other request.
LEMMA OneMoves ==
  ASSUME IInv, NEW r \in Requests,
         Progress(r) \/ Fail(r) \/ \E s \in Sessions : Post(r, s)
  PROVE  /\ \A q \in Requests \ {r} : /\ pc'[q] = pc[q] /\ target'[q] = target[q]
                                      /\ counted'[q] = counted[q] /\ index'[q] = index[q]
                                      /\ attempt'[q] = attempt[q]
         /\ others' = others
  BY DEF IInv, TypeOK, Progress, TakeConnection, PoolTimeout, Serve, Fail, Post, Submit, Step,
     LookUpSession, ListPriorHints, CountPriorHints, RetrieveContext, RetrieveDbError,
     GenerateHint, RegenerateHint, InsertHint, InsertIntoAborted, InsertCollides, RelistHints,
     CommitHint, RefreshHint, RequestFails, CommitUnacknowledged, local, vars

\* Past its first statement a request has its connection until it is released.
LEMMA ServedHolds ==
  ASSUME PoolInv, NEW r \in Requests, Serve(r)
  PROVE  r \in holds
<1>1. pc[r] # "idle"
  BY DEF Serve, Step, LookUpSession, ListPriorHints, CountPriorHints, RetrieveContext,
     RetrieveDbError, GenerateHint, RegenerateHint, InsertHint, InsertIntoAborted,
     InsertCollides, RelistHints, CommitHint, RefreshHint
<1>2. CASE pc[r] \in FirstStatements
  BY <1>2 DEF Serve, NeedsConnection
<1>3. CASE pc[r] \notin FirstStatements
  BY <1>1, <1>3 DEF PoolInv, ConnectionsAccounted
<1>4. QED
  BY <1>2, <1>3

LEMMA AccountingStep == PoolInv /\ [PoolNext]_poolVars => ConnectionsAccounted'
<1> SUFFICES ASSUME PoolInv, [PoolNext]_poolVars PROVE ConnectionsAccounted'
  OBVIOUS
<1> DEFINE Served == \A r \in Requests : pc[r] \notin FirstStatements \cup {"idle"} => r \in holds
<1>1. /\ IInv /\ TypeOK
      /\ holds \subseteq {r \in Requests : Active(r)}
      /\ others \in Nat /\ Cardinality(holds) + others <= PoolSize
      /\ Served
      /\ IsFiniteSet(holds) /\ Cardinality(holds) \in Nat
  BY HoldsType DEF PoolInv, ConnectionsAccounted, InUse, IInv
<1>2. ASSUME holds' \subseteq holds, others' = others
      PROVE  others' \in Nat /\ InUse' <= PoolSize
  <2>1. Cardinality(holds') <= Cardinality(holds) /\ Cardinality(holds') \in Nat
    BY <1>1, <1>2, FS_Subset, FS_CardinalityType
  <2>2. QED
    BY <1>1, <1>2, <2>1, PoolAssumption DEF InUse
<1>3. ASSUME NEW r \in Requests, Serve(r) \/ Fail(r) PROVE ConnectionsAccounted'
  <2>1. /\ holds' = IF pc'[r] \in FirstStatements \cup {"idle"} THEN holds \ {r} ELSE holds
        /\ others' = others
        /\ \A q \in Requests \ {r} : pc'[q] = pc[q]
    BY <1>1, <1>3, OneMoves DEF Serve, Fail, Released, Progress
  <2>2. holds' \subseteq {q \in Requests : pc'[q] # "idle"}
    BY <1>1, <2>1
  <2>3. CASE Serve(r)
    <3>1. r \in holds
      BY <2>3, ServedHolds
    <3>2. Served'
      BY <1>1, <2>1, <3>1
    <3>3. QED
      BY <1>2, <2>1, <2>2, <3>2 DEF ConnectionsAccounted
  <2>4. CASE Fail(r)
    <3>1. pc'[r] = "idle"
      BY <1>1, <2>4 DEF Fail, RequestFails, CommitUnacknowledged, TypeOK
    <3>2. Served'
      BY <1>1, <2>1, <3>1
    <3>3. QED
      BY <1>2, <2>1, <2>2, <3>2 DEF ConnectionsAccounted
  <2>5. QED
    BY <1>3, <2>3, <2>4
<1>4. ASSUME NEW r \in Requests, NEW s \in Sessions, Post(r, s) PROVE ConnectionsAccounted'
  <2>1. /\ UNCHANGED <<holds, others>>
        /\ \A q \in Requests \ {r} : pc'[q] = pc[q]
        /\ pc'[r] = "lookup"
    BY <1>1, <1>4, OneMoves DEF Post, Submit, TypeOK
  <2>2. QED
    BY <1>1, <1>2, <2>1 DEF ConnectionsAccounted, FirstStatements
<1>5. ASSUME NEW r \in Requests, TakeConnection(r) PROVE ConnectionsAccounted'
  <2>1. /\ UNCHANGED <<pc, others>> /\ pc[r] # "idle"
        /\ r \notin holds /\ holds' = holds \cup {r}
        /\ Cardinality(holds) + others < PoolSize
    BY <1>5 DEF TakeConnection, NeedsConnection, Free, InUse, vars, FirstStatements
  <2>2. Cardinality(holds') = Cardinality(holds) + 1
    BY <1>1, <2>1, FS_AddElement
  <2>3. Cardinality(holds') + others' <= PoolSize
    BY <1>1, <2>1, <2>2, PoolAssumption
  <2>4. QED
    BY <1>1, <2>1, <2>3 DEF ConnectionsAccounted, InUse
<1>6. ASSUME NEW r \in Requests, PoolTimeout(r) PROVE ConnectionsAccounted'
  <2>1. /\ UNCHANGED <<holds, others>>
        /\ \A q \in Requests \ {r} : pc'[q] = pc[q]
        /\ pc'[r] = "idle" /\ r \notin holds
    BY <1>1, <1>6 DEF PoolTimeout, NeedsConnection, TypeOK
  <2>2. QED
    BY <1>1, <1>2, <2>1 DEF ConnectionsAccounted
<1>7. CASE Die
  <2>1. holds' = {} /\ others' = 0 /\ \A r \in Requests : pc'[r] = "idle"
    BY <1>7 DEF Die, Crash
  <2>2. QED
    BY <2>1, FS_EmptySet, PoolAssumption DEF ConnectionsAccounted, InUse
<1>8. CASE OthersTake \/ OthersReturn
  <2>1. /\ UNCHANGED <<pc, holds>>
        /\ others' \in Nat /\ Cardinality(holds) + others' <= PoolSize
    BY <1>1, <1>8, PoolAssumption DEF OthersTake, OthersReturn, Free, InUse, vars
  <2>2. QED
    BY <1>1, <2>1 DEF ConnectionsAccounted, InUse
<1>9. CASE UNCHANGED poolVars
  BY <1>1, <1>9 DEF poolVars, vars, ConnectionsAccounted, InUse
<1>10. QED
  BY <1>3, <1>4, <1>5, <1>6, <1>7, <1>8, <1>9 DEF PoolNext, Progress

-----------------------------------------------------------------------------
(* A collision means that the count was overtaken. *)

\* What CollidedInv says of one request.
Collided(r) ==
  /\ pc[r] \in {"lookup", "list", "count"} => attempt[r] = 0
  /\ pc[r] = "insert" /\ attempt[r] = 0 => index[r] = counted[r] + 1
  /\ pc[r] = "relist" => attempt[r] = 1
  /\ pc[r] \in Admitted /\ attempt[r] = 1 => counted[r] < Count(target[r])

\* A request that does not move stays as it is: the table only grows.
LEMMA OthersCollided ==
  ASSUME IInv, [PoolNext]_poolVars, CollidedInv, NEW q \in Requests,
         pc'[q] = pc[q], target'[q] = target[q], counted'[q] = counted[q],
         index'[q] = index[q], attempt'[q] = attempt[q]
  PROVE  Collided(q)'
<1>1. target[q] \in Sessions /\ counted[q] \in Nat
  BY DEF IInv, TypeOK
<1>2. Count(target[q]) \in Nat /\ Count(target[q])' \in Nat /\ Count(target[q])' >= Count(target[q])
  <2>1. CASE [Next]_vars
    <3>1. PICK s \in Sessions : s = target[q]
      BY <1>1
    <3>2. Count(s) \in Nat /\ Count(s)' \in Nat /\ Count(s)' >= Count(s)
      BY <2>1, CountGrows
    <3>3. QED
      BY <3>1, <3>2 DEF Count
  <2>2. ASSUME NEW r \in Requests, PoolTimeout(r) PROVE Count(target[q])' = Count(target[q])
    BY <2>2 DEF PoolTimeout, Count
  <2>3. QED
    BY <1>1, <2>1, <2>2, PoolStepIsStep, CountType DEF IInv
<1>3. QED
  BY <1>1, <1>2 DEF CollidedInv, Collided, Count

LEMMA CollidedStep == PoolInv /\ [PoolNext]_poolVars => CollidedInv'
<1> SUFFICES ASSUME PoolInv, [PoolNext]_poolVars PROVE CollidedInv'
  OBVIOUS
<1>1. /\ IInv /\ TypeOK /\ CollidedInv /\ Contiguous
      /\ \A r \in Requests : /\ Collided(r) /\ target[r] \in Sessions
                             /\ Count(target[r]) \in Nat
                             /\ counted[r] \in Nat /\ attempt[r] \in {0, 1}
  BY CountType DEF PoolInv, IInv, CollidedInv, Collided, TypeOK
<1>2. ASSUME NEW r \in Requests, NEW s \in Sessions, Post(r, s) PROVE Collided(r)'
  BY <1>1, <1>2 DEF Post, Submit, Collided, Admitted, TypeOK
<1>3. ASSUME NEW r \in Requests, Serve(r) PROVE Collided(r)'
  <2> USE DEF Collided, Admitted, TypeOK, local
  <2>1. CASE LookUpSession(r) \/ ListPriorHints(r) \/ CountPriorHints(r)
    BY <1>1, <2>1 DEF LookUpSession, ListPriorHints, CountPriorHints
  <2>2. CASE RetrieveContext(r) \/ RetrieveDbError(r)
    BY <1>1, <2>2 DEF RetrieveContext, RetrieveDbError, Count
  <2>3. CASE GenerateHint(r) \/ RegenerateHint(r)
    BY <1>1, <2>3 DEF GenerateHint, RegenerateHint, Count
  <2>4. CASE InsertHint(r) \/ InsertIntoAborted(r)
    BY <1>1, <2>4 DEF InsertHint, InsertIntoAborted, Count
  <2>5. CASE InsertCollides(r)
    <3>1. index[r] \in 1..Count(target[r])
      BY <1>1, <2>5 DEF InsertCollides, KeyIsTaken, Contiguous
    <3>2. attempt[r] = 0 => counted[r] < Count(target[r])
      BY <1>1, <2>5, <3>1 DEF InsertCollides
    <3>3. Count(target[r])' = Count(target[r])
      BY <2>5 DEF InsertCollides, Count
    <3>4. QED
      BY <1>1, <2>5, <3>2, <3>3 DEF InsertCollides
  <2>6. CASE RelistHints(r)
    BY <1>1, <2>6 DEF RelistHints, Count
  <2>7. CASE CommitHint(r) \/ RefreshHint(r)
    BY <1>1, <2>7 DEF CommitHint, RefreshHint
  <2>8. QED
    BY <1>3, <2>1, <2>2, <2>3, <2>4, <2>5, <2>6, <2>7 DEF Serve, Step
<1>4. ASSUME NEW r \in Requests, Fail(r) \/ PoolTimeout(r) PROVE Collided(r)'
  BY <1>1, <1>4 DEF Fail, RequestFails, CommitUnacknowledged, PoolTimeout, Collided, Admitted, TypeOK
<1>5. ASSUME NEW r \in Requests, TakeConnection(r) PROVE Collided(r)'
  BY <1>1, <1>5, OthersCollided DEF TakeConnection, vars, local
<1>6. ASSUME NEW r \in Requests, Progress(r) \/ Fail(r) \/ \E s \in Sessions : Post(r, s)
      PROVE  CollidedInv'
  <2>1. Collided(r)'
    BY <1>2, <1>3, <1>4, <1>5, <1>6 DEF Progress
  <2>2. ASSUME NEW q \in Requests, q # r PROVE Collided(q)'
    BY <1>1, <1>6, <2>2, OneMoves, OthersCollided
  <2>3. QED
    BY <2>1, <2>2 DEF CollidedInv, Collided
<1>7. CASE Die
  BY <1>7 DEF Die, Crash, CollidedInv, Admitted
<1>8. CASE OthersTake \/ OthersReturn \/ UNCHANGED poolVars
  <2>1. \A q \in Requests : Collided(q)'
    BY <1>1, <1>8, OthersCollided DEF OthersTake, OthersReturn, poolVars, vars, local
  <2>2. QED
    BY <2>1 DEF CollidedInv, Collided
<1>9. QED
  BY <1>6, <1>7, <1>8 DEF PoolNext

-----------------------------------------------------------------------------
(* How many counts a hint overtakes. *)

\* Whoever is in flight with a count still true has a connection.
LEMMA CurrentHolds ==
  ASSUME PoolInv, NEW s \in Sessions
  PROVE  Current(s) \subseteq holds
<1> SUFFICES ASSUME NEW r \in Current(s) PROVE r \in holds
  OBVIOUS
<1>1. r \in Requests /\ pc[r] \in Admitted /\ target[r] = s /\ ~(counted[r] < Count(s))
  BY DEF Current, Overtaken, InFlight
<1>2. pc[r] # "relist"
  BY <1>1 DEF PoolInv, CollidedInv
<1>3. pc[r] \notin FirstStatements \cup {"idle"}
  BY <1>1, <1>2 DEF FirstStatements, Admitted
<1>4. QED
  BY <1>1, <1>3 DEF PoolInv, ConnectionsAccounted

\* A commit leaves in flight what was overtaken, and at most PoolSize - 1 more.
LEMMA CommitOvertakes ==
  ASSUME PoolInv, NEW r \in Requests, Commits(r), NEW t \in Sessions, t = target[r]
  PROVE  /\ Count(t)' = Count(t) + 1
         /\ InFlight(t)' = InFlight(t) \ {r} /\ r \in InFlight(t)
         /\ Cardinality(InFlight(t) \ {r}) <= Cardinality(Overtaken(t)) + (PoolSize - 1)
<1>1. /\ IInv /\ TypeOK
      /\ holds \in SUBSET Requests /\ Cardinality(holds) <= PoolSize
      /\ IsFiniteSet(holds) /\ Cardinality(holds) \in Nat
  BY HoldsType, PoolAssumption DEF PoolInv, ConnectionsAccounted, InUse, IInv, TypeOK
<1>2. Count(t)' = Count(t) + 1
  BY <1>1, CommitIsNext, PersistCounts DEF Commits
<1>3. InFlight(t)' = InFlight(t) \ {r} /\ r \in InFlight(t)
  BY <1>1 DEF Commits, InFlight, Admitted, TypeOK, local
<1>4. r \in holds
  BY DEF Commits, PoolInv, ConnectionsAccounted, FirstStatements
<1>5. Cardinality(Current(t) \ {r}) <= PoolSize - 1 /\ Cardinality(Current(t) \ {r}) \in Nat
  <2>1. Current(t) \ {r} \subseteq holds \ {r}
    BY <1>1, CurrentHolds
  <2>2. IsFiniteSet(holds \ {r}) /\ Cardinality(holds \ {r}) = Cardinality(holds) - 1
    BY <1>1, <1>4, FS_RemoveElement
  <2>3. Cardinality(Current(t) \ {r}) <= Cardinality(holds) - 1 /\ Cardinality(Current(t) \ {r}) \in Nat
    BY <2>1, <2>2, FS_Subset, FS_CardinalityType
  <2>4. QED
    BY <1>1, <2>3, PoolAssumption
<1>6. Cardinality(InFlight(t) \ {r}) <= Cardinality(Overtaken(t)) + Cardinality(Current(t) \ {r})
  <2>1. InFlight(t) \ {r} \subseteq Overtaken(t) \cup (Current(t) \ {r})
    BY DEF Current
  <2>2. /\ IsFiniteSet(Overtaken(t)) /\ IsFiniteSet(Current(t) \ {r})
        /\ Cardinality(Overtaken(t)) \in Nat
    BY <1>1, FlightParts, FS_RemoveElement, FS_Subset
  <2>3. Overtaken(t) \cap (Current(t) \ {r}) = {}
    BY DEF Current
  <2>4. /\ IsFiniteSet(Overtaken(t) \cup (Current(t) \ {r}))
        /\ Cardinality(Overtaken(t) \cup (Current(t) \ {r})) =
             Cardinality(Overtaken(t)) + Cardinality(Current(t) \ {r}) - Cardinality(Overtaken(t) \cap (Current(t) \ {r}))
    BY <2>2, FS_Union
  <2>5. Cardinality(Overtaken(t) \cap (Current(t) \ {r})) = 0
    BY <2>3, FS_EmptySet
  <2>6. Cardinality(InFlight(t) \ {r}) <= Cardinality(Overtaken(t) \cup (Current(t) \ {r}))
    BY <2>1, <2>4, FS_Subset
  <2>7. QED
    BY <1>5, <2>2, <2>4, <2>5, <2>6
<1>7. Cardinality(InFlight(t) \ {r}) \in Nat /\ Cardinality(Overtaken(t)) \in Nat
  BY <1>1, FlightParts, FS_RemoveElement, FS_CardinalityType
<1>8. Cardinality(InFlight(t) \ {r}) <= Cardinality(Overtaken(t)) + (PoolSize - 1)
  BY <1>5, <1>6, <1>7, PoolAssumption
<1>9. QED
  BY <1>2, <1>3, <1>8

\* A step that leaves the table overtakes nobody, and lets somebody in only
\* below the cap.
LEMMA QuietStep ==
  ASSUME PoolInv, [PoolNext]_poolVars, UNCHANGED hints, NEW s \in Sessions
  PROVE  /\ Overtaken(s)' \subseteq Overtaken(s)
         /\ InFlight(s)' \subseteq InFlight(s) \/ Count(s) < MaxHints
<1>1. TypeOK /\ Count(s)' = Count(s) /\ Count(s) \in Nat
  BY CountType DEF PoolInv, IInv, Count
<1> USE DEF Overtaken, InFlight, Admitted, TypeOK, local
<1>2. ASSUME NEW r \in Requests, NEW t \in Sessions, Post(r, t)
      PROVE  /\ Overtaken(s)' \subseteq Overtaken(s)
             /\ InFlight(s)' \subseteq InFlight(s)
  BY <1>1, <1>2 DEF Post, Submit
<1>3. ASSUME NEW r \in Requests, Step(r)
      PROVE  /\ Overtaken(s)' \subseteq Overtaken(s)
             /\ InFlight(s)' \subseteq InFlight(s) \/ Count(s) < MaxHints
  <2>1. CASE LookUpSession(r) \/ ListPriorHints(r)
    BY <1>1, <2>1 DEF LookUpSession, ListPriorHints
  <2>2. CASE CountPriorHints(r)
    <3>1. \A q \in Requests \ {r} : pc'[q] = pc[q] /\ target'[q] = target[q] /\ counted'[q] = counted[q]
      BY <1>1, <2>2 DEF CountPriorHints
    <3>2. counted'[r] = Count(target[r]) /\ target'[r] = target[r] /\ pc[r] = "count"
      BY <1>1, <2>2 DEF CountPriorHints
    <3>3. r \notin Overtaken(s)'
      BY <1>1, <3>2
    <3>4. Overtaken(s)' \subseteq Overtaken(s)
      BY <1>1, <3>1, <3>3
    <3>5. CASE target[r] = s
      BY <1>1, <2>2, <3>1, <3>4, <3>5, BoundsAssumption DEF CountPriorHints
    <3>6. CASE target[r] # s
      BY <1>1, <3>1, <3>2, <3>4, <3>6
    <3>7. QED
      BY <3>5, <3>6
  <2>3. CASE RetrieveContext(r) \/ RetrieveDbError(r)
    BY <1>1, <2>3 DEF RetrieveContext, RetrieveDbError
  <2>4. CASE GenerateHint(r) \/ RegenerateHint(r)
    BY <1>1, <2>4 DEF GenerateHint, RegenerateHint
  <2>5. CASE InsertHint(r) \/ InsertIntoAborted(r) \/ InsertCollides(r)
    BY <1>1, <2>5 DEF InsertHint, InsertIntoAborted, InsertCollides
  <2>6. CASE RelistHints(r) \/ CommitHint(r) \/ RefreshHint(r)
    BY <1>1, <2>6 DEF RelistHints, CommitHint, RefreshHint
  <2>7. QED
    BY <1>3, <2>1, <2>2, <2>3, <2>4, <2>5, <2>6 DEF Step
<1>4. ASSUME NEW r \in Requests, Fail(r) \/ PoolTimeout(r)
      PROVE  /\ Overtaken(s)' \subseteq Overtaken(s)
             /\ InFlight(s)' \subseteq InFlight(s)
  BY <1>1, <1>4 DEF Fail, RequestFails, CommitUnacknowledged, PoolTimeout
<1>5. CASE Die
  BY <1>1, <1>5 DEF Die, Crash
<1>6. ASSUME UNCHANGED vars PROVE Overtaken(s)' \subseteq Overtaken(s) /\ InFlight(s)' \subseteq InFlight(s)
  BY <1>1, <1>6 DEF vars
<1>7. QED
  BY <1>2, <1>3, <1>4, <1>5, <1>6
     DEF PoolNext, Progress, TakeConnection, Serve, OthersTake, OthersReturn, poolVars

\* The table changes only by a commit, over the pool too.
LEMMA PoolTableStep ==
  ASSUME [PoolNext]_poolVars
  PROVE  UNCHANGED hints \/ \E r \in Requests : Commits(r)
<1>1. ASSUME NEW r \in Requests, PoolTimeout(r) PROVE UNCHANGED hints
  BY <1>1 DEF PoolTimeout
<1>2. QED
  BY <1>1, PoolStepIsStep, TableStep DEF vars

\* A commit for another session is nothing to this one.
LEMMA CommitElsewhere ==
  ASSUME PoolInv, NEW r \in Requests, Commits(r), NEW s \in Sessions, s # target[r]
  PROVE  Count(s)' = Count(s) /\ InFlight(s)' = InFlight(s) /\ Overtaken(s)' = Overtaken(s)
<1>1. TypeOK /\ Count(s)' = Count(s)
  BY CommitIsNext, PersistCounts DEF PoolInv, IInv, Commits
<1>2. InFlight(s)' = InFlight(s)
  BY <1>1 DEF Commits, InFlight, Admitted, TypeOK
<1>3. counted' = counted
  BY DEF Commits, local
<1>4. QED
  BY <1>1, <1>2, <1>3 DEF Overtaken

LEMMA OvertakenStep == PoolInv /\ [PoolNext]_poolVars => OvertakenInv'
<1> SUFFICES ASSUME PoolInv, [PoolNext]_poolVars, NEW s \in Sessions
             PROVE  Cardinality(Overtaken(s))' <= Count(s)' * (PoolSize - 1)
  BY DEF OvertakenInv
<1>1. /\ Cardinality(Overtaken(s)) <= Count(s) * (PoolSize - 1)
      /\ Count(s) \in Nat /\ PoolSize \in Nat \ {0}
      /\ Cardinality(Overtaken(s)) \in Nat /\ Cardinality(Overtaken(s)') \in Nat
      /\ IsFiniteSet(Overtaken(s))
  BY CountType, FlightParts, FlightPartsNext, PoolAssumption DEF PoolInv, OvertakenInv, IInv
<1>2. CASE UNCHANGED hints
  <2>1. Overtaken(s)' \subseteq Overtaken(s)
    BY <1>2, QuietStep
  <2>2. Cardinality(Overtaken(s)') <= Cardinality(Overtaken(s))
    BY <1>1, <2>1, FS_Subset
  <2>3. Count(s)' = Count(s)
    BY <1>2 DEF Count
  <2>4. QED
    BY <1>1, <2>2, <2>3
<1>3. ASSUME NEW r \in Requests, Commits(r), s = target[r]
      PROVE  Cardinality(Overtaken(s))' <= Count(s)' * (PoolSize - 1)
  <2>1. /\ Count(s)' = Count(s) + 1
        /\ InFlight(s)' = InFlight(s) \ {r}
        /\ Cardinality(InFlight(s) \ {r}) <= Cardinality(Overtaken(s)) + (PoolSize - 1)
    BY <1>3, CommitOvertakes
  <2>2. IsFiniteSet(InFlight(s) \ {r}) /\ Cardinality(InFlight(s) \ {r}) \in Nat
    BY FlightParts, FS_RemoveElement, FS_CardinalityType
  <2>3. Overtaken(s)' \subseteq InFlight(s) \ {r}
    BY <2>1 DEF Overtaken
  <2>4. Cardinality(Overtaken(s)') <= Cardinality(InFlight(s) \ {r})
    BY <2>2, <2>3, FS_Subset
  <2>5. Count(s) * (PoolSize - 1) + (PoolSize - 1) = (Count(s) + 1) * (PoolSize - 1)
    BY <1>1
  <2>6. Count(s) * (PoolSize - 1) \in Nat
    BY <1>1
  <2>7. Cardinality(Overtaken(s)') <= (Count(s) + 1) * (PoolSize - 1)
    BY <1>1, <2>1, <2>2, <2>4, <2>5, <2>6
  <2>8. QED
    BY <2>1, <2>7
<1>4. ASSUME NEW r \in Requests, Commits(r), s # target[r]
      PROVE  Cardinality(Overtaken(s))' <= Count(s)' * (PoolSize - 1)
  BY <1>1, <1>4, CommitElsewhere
<1>5. QED
  BY <1>2, <1>3, <1>4, PoolTableStep

LEMMA CapStep == PoolInv /\ [PoolNext]_poolVars => CapInv'
<1> SUFFICES ASSUME PoolInv, [PoolNext]_poolVars, NEW s \in Sessions, Count(s)' >= MaxHints
             PROVE  Count(s)' + Cardinality(InFlight(s))' <= MaxHints * PoolSize
  BY DEF CapInv
<1>1. /\ Count(s) >= MaxHints => Count(s) + Cardinality(InFlight(s)) <= MaxHints * PoolSize
      /\ Cardinality(Overtaken(s)) <= Count(s) * (PoolSize - 1)
      /\ Count(s) \in Nat /\ PoolSize \in Nat \ {0} /\ MaxHints \in Nat \ {0}
      /\ Cardinality(InFlight(s)) \in Nat /\ IsFiniteSet(InFlight(s))
      /\ Cardinality(InFlight(s)') \in Nat /\ Cardinality(Overtaken(s)) \in Nat
  BY CountType, FlightParts, FlightPartsNext, PoolAssumption, BoundsAssumption
     DEF PoolInv, OvertakenInv, CapInv, IInv
<1>2. CASE UNCHANGED hints
  <2>1. Count(s)' = Count(s)
    BY <1>2 DEF Count
  <2>2. InFlight(s)' \subseteq InFlight(s)
    BY <1>1, <1>2, <2>1, QuietStep
  <2>3. Cardinality(InFlight(s)') <= Cardinality(InFlight(s))
    BY <1>1, <2>2, FS_Subset
  <2>4. QED
    BY <1>1, <2>1, <2>3
<1>3. ASSUME NEW r \in Requests, Commits(r), s = target[r]
      PROVE  Count(s)' + Cardinality(InFlight(s))' <= MaxHints * PoolSize
  <2>1. /\ Count(s)' = Count(s) + 1
        /\ InFlight(s)' = InFlight(s) \ {r} /\ r \in InFlight(s)
        /\ Cardinality(InFlight(s) \ {r}) <= Cardinality(Overtaken(s)) + (PoolSize - 1)
    BY <1>3, CommitOvertakes
  <2>2. CASE Count(s) >= MaxHints
    <3>1. Cardinality(InFlight(s)') = Cardinality(InFlight(s)) - 1
      BY <1>1, <2>1, FS_RemoveElement
    <3>2. QED
      BY <1>1, <2>1, <2>2, <3>1
  <2>3. CASE Count(s) < MaxHints
    <3>1. Count(s) + 1 = MaxHints
      BY <1>1, <2>1, <2>3
    <3>2. Count(s) * (PoolSize - 1) + (PoolSize - 1) = (Count(s) + 1) * (PoolSize - 1)
      BY <1>1
    <3>3. Count(s) * (PoolSize - 1) \in Nat /\ MaxHints * (PoolSize - 1) \in Nat
      BY <1>1
    <3>4. Cardinality(InFlight(s)') <= MaxHints * (PoolSize - 1)
      BY <1>1, <2>1, <3>1, <3>2, <3>3
    <3>5. MaxHints + MaxHints * (PoolSize - 1) = MaxHints * PoolSize
      BY <1>1
    <3>6. QED
      BY <1>1, <2>1, <3>1, <3>3, <3>4, <3>5
  <2>4. QED
    BY <1>1, <2>2, <2>3
<1>4. ASSUME NEW r \in Requests, Commits(r), s # target[r]
      PROVE  Count(s)' + Cardinality(InFlight(s))' <= MaxHints * PoolSize
  BY <1>1, <1>4, CommitElsewhere
<1>5. QED
  BY <1>2, <1>3, <1>4, PoolTableStep

-----------------------------------------------------------------------------
(* The theorems. *)

LEMMA InitPoolInv == PoolInit => PoolInv
<1> SUFFICES ASSUME PoolInit PROVE PoolInv
  OBVIOUS
<1>1. Init /\ holds = {} /\ others = 0
  BY DEF PoolInit
<1>2. IInv
  BY <1>1, InitIInv
<1>3. ConnectionsAccounted
  BY <1>1, FS_EmptySet, PoolAssumption DEF Init, ConnectionsAccounted, InUse
<1>4. CollidedInv
  BY <1>1 DEF Init, CollidedInv, Admitted
<1>5. ASSUME NEW s \in Sessions
      PROVE  Count(s) = 0 /\ Cardinality(Overtaken(s)) = 0
  <2>1. InFlight(s) = {} /\ hints[s] = {}
    BY <1>1 DEF Init, InFlight, Admitted
  <2>2. Overtaken(s) = {}
    BY <2>1 DEF Overtaken
  <2>3. QED
    BY <2>1, <2>2, FS_EmptySet DEF Count
<1>6. OvertakenInv
  BY <1>5, PoolAssumption DEF OvertakenInv
<1>7. CapInv
  BY <1>5, BoundsAssumption DEF CapInv
<1>8. QED
  BY <1>2, <1>3, <1>4, <1>6, <1>7 DEF PoolInv

\* The inductive invariant of the pool holds in every reachable state: nobody
\* keeps a connection he is not served with, and the pool is never exceeded.
THEOREM PoolInvariance == PoolSpec => []PoolInv
<1>1. PoolInv /\ [PoolNext]_poolVars => PoolInv'
  BY PoolKeepsIInv, AccountingStep, CollidedStep, OvertakenStep, CapStep DEF PoolInv
<1>2. QED
  BY InitPoolInv, <1>1, PTL DEF PoolSpec

\* However many requests are made, the pool bounds the hints of a session by
\* MaxHints * PoolSize, although the check of the cap takes no lock.
THEOREM PoolBound == PoolSpec => []PoolBoundsHints
<1>1. PoolInv => PoolBoundsHints
  <2> SUFFICES ASSUME PoolInv, NEW s \in Sessions PROVE Count(s) <= MaxHints * PoolSize
    BY DEF PoolBoundsHints
  <2>1. /\ Count(s) \in Nat /\ PoolSize \in Nat \ {0} /\ MaxHints \in Nat \ {0}
        /\ Cardinality(InFlight(s)) \in Nat
    BY CountType, FlightParts, PoolAssumption, BoundsAssumption DEF PoolInv, IInv
  <2>2. MaxHints <= MaxHints * PoolSize /\ MaxHints * PoolSize \in Nat
    BY <2>1
  <2>3. CASE Count(s) >= MaxHints
    BY <2>1, <2>2, <2>3 DEF PoolInv, CapInv
  <2>4. CASE Count(s) < MaxHints
    BY <2>1, <2>2, <2>4
  <2>5. QED
    BY <2>1, <2>3, <2>4
<1>2. QED
  BY <1>1, PoolInvariance, PTL

\* Waiting for connections and giving up on them, the service still implements
\* the append-only ledger of HintLedger.
THEOREM PoolRefinement == PoolSpec => ImplementsLedger
<1>1. PoolInit => Abstract!Init
  <2> SUFFICES ASSUME PoolInit PROVE Abstract!Init
    OBVIOUS
  <2>1. \A s \in Sessions : Count(s) = 0
    BY FS_EmptySet DEF PoolInit, Init, Count
  <2>2. \A s \in Sessions : [i \in 1..Count(s) |-> RowAt(s, i).text] = <<>>
    BY <2>1
  <2>3. QED
    BY <2>2 DEF Abstract!Init, Ledger
<1>2. PoolInv /\ PoolInv' /\ [PoolNext]_poolVars => [Abstract!Next]_Ledger
  <2> SUFFICES ASSUME PoolInv, PoolInv', [PoolNext]_poolVars PROVE [Abstract!Next]_Ledger
    OBVIOUS
  <2>1. CASE UNCHANGED hints
    BY <2>1 DEF Ledger, RowAt, Count
  <2>2. ASSUME NEW r \in Requests, Commits(r) PROVE Abstract!Next
    BY <2>2, CommitAppends DEF Abstract!Next, PoolInv, IInv, TypeOK
  <2>3. QED
    BY <2>1, <2>2, PoolTableStep
<1>3. QED
  BY <1>1, <1>2, PoolInvariance, PTL DEF PoolSpec, ImplementsLedger, Abstract!Spec
=============================================================================
