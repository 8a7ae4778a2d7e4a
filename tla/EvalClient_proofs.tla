-------------------------- MODULE EvalClient_proofs --------------------------
(***************************************************************************)
(* Proofs about EvalClient: for any variants, any number of hints for each *)
(* and any cap the report agrees with the table of the server, however     *)
(* often the client gives up on a request that goes on.  They rest on the  *)
(* invariants proved in HintSession_proofs.                                *)
(***************************************************************************)
EXTENDS EvalClient, HintSession_proofs

USE DEF clientVars, evalVars, Active, Goto, Finish

-----------------------------------------------------------------------------
(* The evaluation is one way of using the service. *)

LEMMA ServerIsNext == ServerStep => Next
  BY DEF ServerStep, Next

\* The steps of the client that the server does not see.
LEMMA ClientIsQuiet == ClientStep => AskForHint \/ UNCHANGED vars
  BY DEF ClientStep, Solve, VerifyReference, VerifyVariant, EndProblem, ConnectFails, ReceiveHint,
     ReceiveRefusal, StopWaiting, JudgeLeak, JudgeHelpful

OpenSteps == {"lookup", "list", "count"} \cup Admitted
Refusals == {"not_found", "passed", "limit", "malformed", "conflict"}

\* What a step of the server may do to a slot.
Moved(q) ==
  /\ target'[q] = target[q]
  /\ pc[q] = "idle" => pc'[q] = "idle" /\ reply'[q] = reply[q] /\ index'[q] = index[q]
  /\ pc'[q] # "idle" => reply'[q] = "none"
  /\ pc[q] # "idle" /\ pc'[q] = "idle" => reply'[q] # "none"
  /\ pc'[q] \in OpenSteps => pc[q] \in OpenSteps
  /\ pc[q] # "idle" /\ reply'[q] \in Refusals => pc[q] \in OpenSteps /\ pc'[q] = "idle"
  /\ pc'[q] \in Admitted =>
       \/ pc[q] \in Admitted /\ counted'[q] = counted[q]
       \/ counted'[q] = Count(target[q])
  /\ pc'[q] = "refresh" \/ (pc[q] # "idle" /\ reply'[q] = "ok") =>
       pc[q] \in {"commit", "refresh"} /\ index'[q] = index[q]

LEMMA SlotRests ==
  ASSUME NEW q \in Requests, WaitInv,
         pc'[q] = pc[q], target'[q] = target[q], reply'[q] = reply[q], counted'[q] = counted[q],
         index'[q] = index[q]
  PROVE  Moved(q)
  BY DEF Moved, WaitInv, Admitted, Refusals

LEMMA ServerMoves ==
  ASSUME IInv, WaitInv, ServerStep, NEW q \in Requests
  PROVE  Moved(q)
<1> USE DEF local
<1>1. TypeOK /\ (Active(q) => reply[q] = "none")
  BY DEF IInv, WaitInv
<1>2. ASSUME NEW r \in Requests, r # q, Step(r) \/ RequestFails(r) \/ CommitUnacknowledged(r)
      PROVE  Moved(q)
  <2>1. /\ pc'[q] = pc[q] /\ target'[q] = target[q] /\ reply'[q] = reply[q]
        /\ counted'[q] = counted[q] /\ index'[q] = index[q]
    BY <1>1, <1>2 DEF TypeOK, RequestFails, CommitUnacknowledged, Persist, Step,
       LookUpSession, ListPriorHints, CountPriorHints, RetrieveContext, RetrieveDbError,
       GenerateHint, RegenerateHint, InsertHint, InsertIntoAborted, InsertCollides, RelistHints,
       CommitHint, RefreshHint
  <2>2. QED
    BY <2>1, SlotRests
<1>3. CASE Step(q)
  <2> USE DEF Moved, OpenSteps, Admitted, Refusals, TypeOK
  <2>1. CASE LookUpSession(q) \/ ListPriorHints(q)
    BY <1>1, <2>1 DEF LookUpSession, ListPriorHints
  <2>2. CASE CountPriorHints(q)
    BY <1>1, <2>2 DEF CountPriorHints
  <2>3. CASE RetrieveContext(q) \/ RetrieveDbError(q) \/ GenerateHint(q) \/ RegenerateHint(q)
    BY <1>1, <2>3 DEF RetrieveContext, RetrieveDbError, GenerateHint, RegenerateHint
  <2>4. CASE InsertHint(q) \/ InsertIntoAborted(q) \/ InsertCollides(q)
    BY <1>1, <2>4 DEF InsertHint, InsertIntoAborted, InsertCollides
  <2>5. CASE RelistHints(q) \/ CommitHint(q) \/ RefreshHint(q)
    BY <1>1, <2>5 DEF RelistHints, CommitHint, RefreshHint, Persist
  <2>6. QED
    BY <1>3, <2>1, <2>2, <2>3, <2>4, <2>5 DEF Step
<1>4. CASE RequestFails(q) \/ CommitUnacknowledged(q)
  BY <1>1, <1>4
     DEF RequestFails, CommitUnacknowledged, Persist, Moved, OpenSteps, Admitted, Refusals, TypeOK
<1>5. CASE Crash
  BY <1>1, <1>5 DEF Crash, Moved, OpenSteps, Admitted, Refusals, TypeOK
<1>6. QED
  BY <1>2, <1>3, <1>4, <1>5 DEF ServerStep

-----------------------------------------------------------------------------
(* Counting. *)

LEMMA OpenType ==
  ASSUME NEW s
  PROVE  /\ IsFiniteSet(Open(s)) /\ Cardinality(Open(s)) \in Nat
         /\ IsFiniteSet(Open(s)') /\ Cardinality(Open(s)') \in Nat
<1>1. Open(s) \subseteq Requests /\ Open(s)' \subseteq Requests
  BY DEF Open
<1>2. QED
  BY <1>1, FS_Subset, FS_CardinalityType, RequestsAssumption

LEMMA Disjoint ==
  ASSUME NEW S, NEW T, IsFiniteSet(S), IsFiniteSet(T), S \cap T = {}
  PROVE  Cardinality(S \cup T) = Cardinality(S) + Cardinality(T)
<1>1. Cardinality(S) \in Nat /\ Cardinality(T) \in Nat /\ Cardinality(S \cap T) = 0
  BY FS_CardinalityType, FS_EmptySet
<1>2. Cardinality(S \cup T) = Cardinality(S) + Cardinality(T) - Cardinality(S \cap T)
  BY FS_Union
<1>3. QED
  BY <1>1, <1>2

LEMMA RecordCounts ==
  ASSUME ClientTypeOK, NEW s \in Sessions
  PROVE  /\ Len(records[s]) \in Nat
         /\ IsFiniteSet(Won(s)) /\ Cardinality(Won(s)) \in Nat
         /\ IsFiniteSet(Lost(s)) /\ Cardinality(Lost(s)) \in Nat
         /\ IsFiniteSet(Unsure(s)) /\ Cardinality(Unsure(s)) \in Nat
         /\ Cardinality(Won(s)) + Cardinality(Lost(s)) = Len(records[s])
<1>1. records[s] \in Seq(Reported) /\ Len(records[s]) \in Nat
  BY DEF ClientTypeOK
<1>2. IsFiniteSet(1..Len(records[s])) /\ Cardinality(1..Len(records[s])) = Len(records[s])
  BY <1>1, FS_Interval
<1>3. /\ Won(s) \subseteq 1..Len(records[s]) /\ Lost(s) \subseteq 1..Len(records[s])
      /\ Unsure(s) \subseteq 1..Len(records[s])
  BY DEF Won, Lost, Unsure
<1>4. /\ IsFiniteSet(Won(s)) /\ IsFiniteSet(Lost(s)) /\ IsFiniteSet(Unsure(s))
      /\ Cardinality(Won(s)) \in Nat /\ Cardinality(Lost(s)) \in Nat
      /\ Cardinality(Unsure(s)) \in Nat
  BY <1>2, <1>3, FS_Subset, FS_CardinalityType
<1>5. Won(s) \cup Lost(s) = 1..Len(records[s]) /\ Won(s) \cap Lost(s) = {}
  BY DEF Won, Lost
<1>6. Cardinality(Won(s)) + Cardinality(Lost(s)) = Len(records[s])
  BY <1>2, <1>4, <1>5, Disjoint
<1>7. QED
  BY <1>1, <1>4, <1>6

\* A success has an explanation; so both kinds together are no more than the records.
LEMMA ExplainedOrNot ==
  ASSUME ClientTypeOK, RecordInv, NEW s \in Sessions
  PROVE  Cardinality(Won(s)) + Cardinality(Unsure(s)) <= Len(records[s])
<1>1. Won(s) \cap Unsure(s) = {}
  BY DEF Won, Unsure, Unexplained, RecordInv
<1>2. Won(s) \cup Unsure(s) \subseteq 1..Len(records[s])
  BY DEF Won, Unsure
<1>3. IsFiniteSet(1..Len(records[s])) /\ Cardinality(1..Len(records[s])) = Len(records[s])
  BY RecordCounts, FS_Interval
<1>4. Cardinality(Won(s) \cup Unsure(s)) <= Len(records[s])
  BY <1>2, <1>3, FS_Subset
<1>5. Cardinality(Won(s) \cup Unsure(s)) = Cardinality(Won(s)) + Cardinality(Unsure(s))
  BY <1>1, RecordCounts, Disjoint
<1>6. QED
  BY <1>4, <1>5

-----------------------------------------------------------------------------
(* A step of the server. *)

LEMMA ServerKeepsRecords ==
  ASSUME IInv, ClientInv, ServerStep, UNCHANGED clientVars
  PROVE  ClientTypeOK' /\ LoopInv' /\ RecordInv'
<1>1. ClientTypeOK' /\ LoopInv'
  BY DEF ClientInv, ClientTypeOK, LoopInv, Looping
<1>2. \A s \in Sessions : Count(s) \in Nat /\ Count(s)' \in Nat /\ Count(s)' >= Count(s)
  BY ServerIsNext, CountGrows
<1>3. RecordInv'
  <2>1. ASSUME NEW s \in Sessions, NEW i \in 1..Len(records[s])
        PROVE  LET rec == records[s][i] IN
               /\ rec.index = i
               /\ rec.success <=> rec.error = "none"
               /\ rec.success => /\ rec.at \in 1..Count(s)' /\ rec.at <= i
                                 /\ \A j \in Won(s) : j < i => records[s][j].at < rec.at
    BY <1>2 DEF ClientInv, RecordInv
  <2>2. \A s : Won(s)' = Won(s)
    BY DEF Won
  <2>3. QED
    BY <2>1, <2>2 DEF RecordInv
<1>4. QED
  BY <1>1, <1>3

LEMMA ServerKeepsWait ==
  ASSUME IInv, ClientInv, ServerStep, UNCHANGED clientVars
  PROVE  WaitInv'
<1>1. \A q \in Requests : Moved(q)
  BY ServerMoves DEF ClientInv
<1>2. WaitInv /\ waiting \in Requests
  BY DEF ClientInv, ClientTypeOK
<1>3. \A r \in Requests : Active(r)' => reply'[r] = "none"
  BY <1>1 DEF Moved
<1>4. ASSUME epc \in Awaited
      PROVE  /\ target'[waiting] = variant
             /\ reply'[waiting] = "none" => Active(waiting)'
  BY <1>1, <1>2, <1>4 DEF Moved, WaitInv
<1>5. ASSUME epc \in Awaited \ {"wait"} PROVE reply'[waiting] = "ok"
  BY <1>1, <1>2, <1>5 DEF Moved, WaitInv
<1>6. QED
  BY <1>3, <1>4, <1>5 DEF WaitInv

LEMMA ServerKeepsOwed ==
  ASSUME IInv, ClientInv, ServerStep, UNCHANGED clientVars, NEW s \in Sessions
  PROVE  Count(s)' + Cardinality(Open(s)') <=
           Cardinality(Won(s)) + Cardinality(Unsure(s)) + Owed(s)'
<1>1. /\ ClientTypeOK /\ WaitInv /\ waiting \in Requests
      /\ Count(s) + Cardinality(Open(s)) <=
           Cardinality(Won(s)) + Cardinality(Unsure(s)) + Owed(s)
  BY DEF ClientInv, ClientTypeOK, OwedInv, HintsEvaluated
<1>2. \A q \in Requests : Moved(q)
  BY <1>1, ServerMoves
<1>3. /\ Count(s) \in Nat /\ Cardinality(Won(s)) \in Nat /\ Cardinality(Unsure(s)) \in Nat
      /\ IsFiniteSet(Open(s)) /\ Cardinality(Open(s)) \in Nat /\ Cardinality(Open(s)') \in Nat
      /\ Owed(s) \in 0..1 /\ Owed(s)' \in 0..1
  BY <1>1, CountType, OpenType, RecordCounts DEF IInv, Owed
<1>4. Open(s)' \subseteq Open(s)
  BY <1>2 DEF Open, Moved, OpenSteps
<1>5. reply[waiting] \in Replies /\ reply'[waiting] \in Replies
  BY <1>1, ServerIsNext, TypeStep DEF IInv, TypeOK
\* A request that is refused is open no more.
<1>6. ASSUME Owed(s) > Owed(s)'
      PROVE  waiting \in Open(s) /\ waiting \notin Open(s)'
  <2>1. /\ epc \in Awaited /\ variant = s
        /\ reply[waiting] \in {"none", "ok"} \cup Unexplained
        /\ reply'[waiting] \notin {"none", "ok"} \cup Unexplained
    BY <1>6 DEF Owed
  <2>2. reply'[waiting] \in Refusals
    BY <1>5, <2>1 DEF Replies, Refusals, Unexplained
  <2>3. reply'[waiting] # reply[waiting] /\ target[waiting] = s
    BY <1>1, <2>1 DEF WaitInv
  <2>4. pc[waiting] \in OpenSteps /\ pc'[waiting] = "idle"
    BY <1>1, <1>2, <2>2, <2>3 DEF Moved
  <2>5. QED
    BY <1>1, <1>2, <2>3, <2>4 DEF Open, Moved, OpenSteps, Admitted
<1>7. CASE UNCHANGED hints
  <2>1. Count(s)' = Count(s)
    BY <1>7 DEF Count
  <2>2. Cardinality(Open(s)') <= Cardinality(Open(s))
    BY <1>3, <1>4, FS_Subset
  <2>3. CASE Owed(s) > Owed(s)'
    <3>1. Open(s)' \subseteq Open(s) \ {waiting} /\ waiting \in Open(s)
      BY <1>4, <1>6, <2>3
    <3>2. /\ IsFiniteSet(Open(s) \ {waiting})
          /\ Cardinality(Open(s) \ {waiting}) = Cardinality(Open(s)) - 1
      BY <1>3, <3>1, FS_RemoveElement
    <3>3. Cardinality(Open(s)') <= Cardinality(Open(s)) - 1
      BY <3>1, <3>2, FS_Subset
    <3>4. QED
      BY <1>1, <1>3, <2>1, <3>3
  <2>4. CASE ~(Owed(s) > Owed(s)')
    BY <1>1, <1>3, <2>1, <2>2, <2>4
  <2>5. QED
    BY <2>3, <2>4
<1>8. ASSUME NEW r \in Requests, Commits(r)
      PROVE  Count(s)' + Cardinality(Open(s)') <=
               Cardinality(Won(s)) + Cardinality(Unsure(s)) + Owed(s)'
  <2>1. Count(s)' = IF s = target[r] THEN Count(s) + 1 ELSE Count(s)
    BY <1>8, CommitIsNext, PersistCounts DEF IInv, Commits
  <2>2. pc' = [pc EXCEPT ![r] = pc'[r]] /\ pc'[r] \notin OpenSteps /\ pc[r] = "commit"
        /\ target' = target
    BY <1>8 DEF Commits, OpenSteps, Admitted, IInv, TypeOK
  <2>3. Open(s)' = Open(s) \ {r} /\ (r \in Open(s) <=> s = target[r])
    BY <2>2 DEF Open, OpenSteps, Admitted, IInv, TypeOK
  <2>4. Cardinality(Open(s)') =
          IF s = target[r] THEN Cardinality(Open(s)) - 1 ELSE Cardinality(Open(s))
    BY <1>3, <2>3, FS_RemoveElement
  <2>5. ~(Owed(s) > Owed(s)')
    <3>1. SUFFICES ASSUME Owed(s) > Owed(s)' PROVE FALSE
      OBVIOUS
    <3>2. waiting = r
      BY <1>6, <2>3, <3>1
    <3>3. reply'[r] \in {"none", "error", "lost"}
      <4>1. pc[r] = "commit" /\ reply[r] = "none" /\ DOMAIN reply = Requests
        BY <1>1, <1>8 DEF Commits, WaitInv, Active, IInv, TypeOK
      <4>2. ASSUME NEW x \in Requests, Step(x) PROVE reply'[r] = reply[r]
        <5>1. UNCHANGED reply \/ (x # r /\ \E what : reply' = [reply EXCEPT ![x] = what])
          BY <4>1, <4>2
             DEF Step, LookUpSession, ListPriorHints, CountPriorHints, RetrieveContext,
                 RetrieveDbError, GenerateHint, RegenerateHint, InsertHint, InsertIntoAborted,
                 InsertCollides, RelistHints, CommitHint, RefreshHint, Finish
        <5>2. QED
          BY <4>1, <5>1
      <4>3. ASSUME NEW x \in Requests, RequestFails(x) \/ CommitUnacknowledged(x)
            PROVE  reply'[r] \in {"none", "error"}
        BY <4>1, <4>3 DEF RequestFails, CommitUnacknowledged, Finish
      <4>4. CASE Crash
        BY <4>1, <4>4 DEF Crash
      <4>5. QED
        BY <4>1, <4>2, <4>3, <4>4 DEF ServerStep
    <3>4. QED
      BY <3>1, <3>2, <3>3 DEF Owed, Unexplained
  <2>6. QED
    BY <1>1, <1>3, <2>1, <2>4, <2>5
<1>9. QED
  BY <1>7, <1>8, ServerIsNext, TableStep

LEMMA ServerKeepsLater ==
  ASSUME IInv, AnswersInv, ClientInv, ServerStep, UNCHANGED clientVars
  PROVE  LaterInv'
<1>1. WaitInv /\ waiting \in Requests /\ variant \in Sessions /\ LaterInv /\ RecordInv
  BY DEF ClientInv, ClientTypeOK
<1>2. \A q \in Requests : Moved(q)
  BY <1>1, ServerMoves
<1>3. SUFFICES ASSUME epc \in Awaited, NEW i \in Won(variant)
               PROVE  /\ pc'[waiting] \in Admitted =>
                           records[variant][i].at <= counted'[waiting]
                      /\ pc'[waiting] = "refresh" \/ reply'[waiting] = "ok" =>
                           records[variant][i].at < index'[waiting]
  BY DEF LaterInv, Won
<1>4. PICK k \in Nat : k = records[variant][i].at
  <2>1. records[variant] \in Seq(Reported) /\ i \in 1..Len(records[variant])
    BY <1>1 DEF ClientInv, ClientTypeOK, Won
  <2>2. records[variant][i] \in Reported
    BY <2>1
  <2>3. QED
    BY <2>2 DEF Reported
<1>5. k <= Count(variant) /\ target[waiting] = variant
  BY <1>1, <1>3, <1>4 DEF RecordInv, WaitInv, Won
<1>6. /\ pc[waiting] \in Admitted => k <= counted[waiting]
      /\ pc[waiting] = "refresh" \/ reply[waiting] = "ok" => k < index[waiting]
  BY <1>1, <1>3, <1>4 DEF LaterInv
<1>7. pc'[waiting] \in Admitted => k <= counted'[waiting]
  BY <1>1, <1>2, <1>5, <1>6 DEF Moved
<1>8. pc[waiting] = "commit" => k < index[waiting]
  <2>1. /\ counted[waiting] \in Nat /\ index[waiting] \in Nat /\ attempt[waiting] \in {0, 1}
    BY <1>1 DEF IInv, TypeOK
  <2>2. pc[waiting] = "commit" => index[waiting] > counted[waiting] + attempt[waiting]
    BY <1>1 DEF AnswersInv, AttemptInv
  <2>3. QED
    BY <1>6, <2>1, <2>2 DEF Admitted
<1>9. pc'[waiting] = "refresh" \/ reply'[waiting] = "ok" => k < index'[waiting]
  BY <1>1, <1>2, <1>6, <1>8 DEF Moved
<1>10. QED
  BY <1>4, <1>7, <1>9

\* The slots at work.
Busy == {r \in Requests : Active(r)}

LEMMA BusyType ==
  /\ IsFiniteSet(Busy) /\ Cardinality(Busy) \in Nat
  /\ IsFiniteSet(Busy') /\ Cardinality(Busy') \in Nat
<1>1. Busy \subseteq Requests /\ Busy' \subseteq Requests
  BY DEF Busy
<1>2. QED
  BY <1>1, FS_Subset, FS_CardinalityType, RequestsAssumption

LEMMA ServerKeepsSlots ==
  ASSUME IInv, ClientInv, ServerStep, UNCHANGED clientVars
  PROVE  SlotsInv'
<1>1. \A q \in Requests : Moved(q)
  BY ServerMoves DEF ClientInv
<1>2. Busy' \subseteq Busy
  BY <1>1 DEF Busy, Moved
<1>3. Cardinality(Busy') <= Cardinality(Busy)
  BY <1>2, BusyType, FS_Subset
<1>4. Asked' = Asked /\ Asked \in Int
  <2>1. IsFiniteSet(Sessions \ (todo \cup {variant})) /\ IsFiniteSet(Sessions \ todo)
    BY HintsPerVariantAssumption, FS_Subset
  <2>2. /\ Cardinality(Sessions \ (todo \cup {variant})) \in Nat
        /\ Cardinality(Sessions \ todo) \in Nat
    BY <2>1, FS_CardinalityType
  <2>3. level \in Nat
    BY DEF ClientInv, ClientTypeOK
  <2>4. QED
    BY <2>2, <2>3, HintsPerVariantAssumption DEF Asked, Looping
<1>5. Cardinality(Busy) <= Asked
  BY DEF ClientInv, SlotsInv, Busy
<1>6. Cardinality(Busy') <= Asked'
  BY <1>3, <1>4, <1>5, BusyType
<1>7. QED
  BY <1>6 DEF SlotsInv, Busy

LEMMA ServerKeeps ==
  ASSUME IInv, AnswersInv, ClientInv, ServerStep, UNCHANGED clientVars
  PROVE  ClientInv'
<1>1. OwedInv'
  <2>1. \A s : Won(s)' = Won(s) /\ Unsure(s)' = Unsure(s)
    BY DEF Won, Unsure
  <2>2. QED
    BY <2>1, ServerKeepsOwed DEF OwedInv, HintsEvaluated
<1>2. QED
  BY <1>1, ServerKeepsRecords, ServerKeepsWait, ServerKeepsLater, ServerKeepsSlots DEF ClientInv

-----------------------------------------------------------------------------
(* Steps of the client between two hints, and while it judges one. *)

LEMMA SessionsType ==
  ASSUME NEW S \in SUBSET Sessions
  PROVE  IsFiniteSet(S) /\ Cardinality(S) \in Nat /\ NHints * Cardinality(S) \in Nat
<1>1. IsFiniteSet(S) /\ Cardinality(S) \in Nat
  BY HintsPerVariantAssumption, FS_Subset, FS_CardinalityType
<1>2. \A c \in Nat : NHints * c \in Nat
  BY HintsPerVariantAssumption
<1>3. QED
  BY <1>1, <1>2

\* One more variant: NHints more hints.
LEMMA AnotherVariant ==
  ASSUME NEW T \in SUBSET Sessions, NEW s \in Sessions \ T
  PROVE  NHints * Cardinality(Sessions \ T) =
           NHints * Cardinality(Sessions \ (T \cup {s})) + NHints
<1>1. Sessions \ T = (Sessions \ (T \cup {s})) \cup {s} /\ s \notin Sessions \ (T \cup {s})
  OBVIOUS
<1>2. /\ IsFiniteSet(Sessions \ (T \cup {s}))
      /\ Cardinality(Sessions \ (T \cup {s})) \in Nat
  BY SessionsType
<1>3. Cardinality(Sessions \ T) = Cardinality(Sessions \ (T \cup {s})) + 1
  BY <1>1, <1>2, FS_AddElement
<1>4. \A c \in Nat : NHints * (c + 1) = NHints * c + NHints
  BY HintsPerVariantAssumption
<1>5. QED
  BY <1>2, <1>3, <1>4

\* While no hint is at hand only the counts of the report matter.
LEMMA NothingAwaited ==
  ASSUME ClientInv, UNCHANGED <<vars, records, waiting>>, epc' \notin Awaited, epc \notin Awaited,
         ClientTypeOK'
  PROVE  WaitInv' /\ OwedInv' /\ RecordInv' /\ LaterInv'
<1>1. \A t : Won(t)' = Won(t) /\ Unsure(t)' = Unsure(t) /\ Count(t)' = Count(t) /\ Open(t)' = Open(t)
  BY DEF Won, Unsure, Count, Open, vars
<1>2. \A t : Owed(t) = 0 /\ Owed(t)' = 0
  BY DEF Owed
<1>3. WaitInv'
  BY DEF ClientInv, WaitInv, vars, Awaited
<1>4. OwedInv'
  BY <1>1, <1>2 DEF ClientInv, OwedInv, HintsEvaluated
<1>5. RecordInv'
  BY <1>1 DEF ClientInv, RecordInv
<1>6. LaterInv'
  BY DEF LaterInv
<1>7. QED
  BY <1>3, <1>4, <1>5, <1>6

LEMMA BetweenVariants ==
  ASSUME ClientInv, Solve \/ VerifyReference \/ EndProblem
  PROVE  ClientInv'
<1>1. /\ UNCHANGED <<vars, todo, variant, level, waiting, records>>
      /\ epc \in {"solve", "reference", "variant"} /\ epc' \in {"reference", "variant", "done"}
  BY DEF Solve, VerifyReference, EndProblem
<1>2. ~Looping /\ ~Looping' /\ epc \notin Awaited /\ epc' \notin Awaited
  BY <1>1 DEF Looping, Awaited
<1>3. ClientTypeOK'
  BY <1>1 DEF ClientInv, ClientTypeOK
<1>4. LoopInv'
  BY <1>1, <1>2 DEF ClientInv, LoopInv
<1>5. Asked' = Asked /\ Busy' = Busy
  BY <1>1, <1>2 DEF Asked, Busy, vars
<1>6. SlotsInv'
  BY <1>5 DEF ClientInv, SlotsInv, Busy
<1>7. QED
  BY <1>1, <1>2, <1>3, <1>4, <1>6, NothingAwaited DEF ClientInv

LEMMA NextVariant ==
  ASSUME ClientInv, VerifyVariant
  PROVE  ClientInv'
<1>1. PICK s \in todo :
        /\ todo' = todo \ {s} /\ variant' = s
        /\ \/ epc' = "ask" /\ level' = 1
           \/ epc' = epc /\ level' = level
  BY DEF VerifyVariant
<1>2. UNCHANGED <<vars, waiting, records>> /\ epc = "variant" /\ ~Looping
  BY DEF VerifyVariant, Looping, Awaited
<1>3. ClientTypeOK /\ LoopInv /\ s \in Sessions /\ Len(records[s]) = 0
  BY <1>1 DEF ClientInv, ClientTypeOK, LoopInv
<1>4. ClientTypeOK'
  BY <1>1, <1>2, <1>3 DEF ClientTypeOK
<1>5. LoopInv'
  <2>1. Looping' => variant' \notin todo' /\ level' \in 1..NHints
                    /\ Len(records'[variant']) = level' - 1
    BY <1>1, <1>2, <1>3, HintsPerVariantAssumption DEF Looping, Awaited
  <2>2. \A t \in Sessions : Len(records'[t]) \in {0, NHints}
    BY <1>2, <1>3 DEF LoopInv
  <2>3. \A t \in todo' : Len(records'[t]) = 0
    BY <1>1, <1>2, <1>3 DEF LoopInv
  <2>4. QED
    BY <2>1, <2>2, <2>3 DEF LoopInv
<1>6. SlotsInv'
  <2>1. PICK T \in SUBSET Sessions : T = todo
    BY <1>3 DEF ClientTypeOK
  <2>2. s \in T /\ todo' = T \ {s} /\ (T \ {s}) \cup {s} = T
    BY <1>1, <2>1
  <2>3. NHints * Cardinality(Sessions \ (T \ {s})) = NHints * Cardinality(Sessions \ T) + NHints
    BY <1>3, <2>2, AnotherVariant
  <2>4. Asked = NHints * Cardinality(Sessions \ T)
    BY <1>2, <2>1 DEF Asked
  <2>5. NHints * Cardinality(Sessions \ T) \in Nat
    BY SessionsType
  <2>6. Asked' >= Asked /\ Asked \in Nat /\ Asked' \in Nat
    <3>1. CASE epc' = "ask" /\ level' = 1
      BY <1>1, <2>2, <2>4, <2>5, <3>1 DEF Asked, Looping
    <3>2. CASE epc' = epc
      <4>1. Asked' = NHints * Cardinality(Sessions \ (T \ {s}))
        BY <1>2, <2>2, <3>2 DEF Asked, Looping, Awaited
      <4>2. QED
        BY <2>3, <2>4, <2>5, <4>1, HintsPerVariantAssumption
    <3>3. QED
      BY <1>1, <3>1, <3>2
  <2>7. Busy' = Busy /\ Cardinality(Busy) <= Asked
    BY <1>2 DEF Busy, vars, ClientInv, SlotsInv
  <2>8. QED
    BY <2>6, <2>7, BusyType DEF SlotsInv, Busy
<1>7. epc \notin Awaited /\ epc' \notin Awaited
  BY <1>1, <1>2 DEF Awaited
<1>8. QED
  BY <1>2, <1>4, <1>5, <1>6, <1>7, NothingAwaited DEF ClientInv

LEMMA HintAtHand ==
  ASSUME ClientInv, ReceiveHint \/ JudgeLeak
  PROVE  ClientInv'
<1>1. /\ UNCHANGED <<vars, todo, variant, level, waiting, records>>
      /\ epc \in {"wait", "judge_leak"} /\ epc' \in {"judge_leak", "judge_helpful"}
      /\ reply[waiting] = "ok"
  BY DEF ReceiveHint, JudgeLeak, ClientInv, WaitInv, Awaited
<1>2. Looping /\ Looping' /\ epc \in Awaited /\ epc' \in Awaited /\ epc # "ask" /\ epc' # "ask"
  BY <1>1 DEF Looping, Awaited
<1>3. \A t : /\ Won(t)' = Won(t) /\ Unsure(t)' = Unsure(t)
             /\ Count(t)' = Count(t) /\ Open(t)' = Open(t) /\ Owed(t)' = Owed(t)
  BY <1>1, <1>2 DEF Won, Unsure, Count, Open, Owed, vars
<1>4. ClientTypeOK'
  BY <1>1, <1>2 DEF ClientInv, ClientTypeOK
<1>5. LoopInv'
  BY <1>1, <1>2 DEF ClientInv, LoopInv
<1>6. WaitInv'
  BY <1>1, <1>2 DEF ClientInv, WaitInv, vars
<1>7. OwedInv'
  BY <1>3 DEF ClientInv, OwedInv, HintsEvaluated
<1>8. RecordInv'
  BY <1>1, <1>3 DEF ClientInv, RecordInv
<1>9. LaterInv'
  BY <1>1, <1>2, <1>3 DEF ClientInv, LaterInv, vars, local
<1>10. SlotsInv'
  <2>1. Asked' = Asked /\ Busy' = Busy
    BY <1>1, <1>2 DEF Asked, Busy, vars
  <2>2. QED
    BY <2>1 DEF ClientInv, SlotsInv, Busy
<1>11. QED
  BY <1>4, <1>5, <1>6, <1>7, <1>8, <1>9, <1>10 DEF ClientInv

-----------------------------------------------------------------------------
(* A hint is asked for. *)

\* There is a slot for it: fewer are at work than the hints asked for so far.
LEMMA SlotForHint ==
  ASSUME ClientInv, epc = "ask"
  PROVE  /\ \E r \in Requests : ~Active(r)
         /\ Cardinality(Busy) < NHints * Cardinality(Sessions \ (todo \cup {variant})) + level
         /\ level \in Nat
<1>1. /\ ClientTypeOK /\ variant \notin todo /\ level \in 1..NHints
      /\ Cardinality(Busy) <= Asked
  <2>1. Looping
    BY DEF Looping
  <2>2. Cardinality(Busy) <= Asked
    BY DEF ClientInv, SlotsInv, Busy
  <2>3. QED
    BY <2>1, <2>2 DEF ClientInv, LoopInv
<1>2. PICK T \in SUBSET Sessions, s \in Sessions : T = todo /\ s = variant /\ s \notin T
  BY <1>1 DEF ClientTypeOK
<1>3. Asked = NHints * Cardinality(Sessions \ (T \cup {s})) + (level - 1)
  BY <1>2 DEF Asked, Looping
<1>4. /\ NHints * Cardinality(Sessions \ (T \cup {s})) \in Nat
      /\ NHints * Cardinality(Sessions \ T) =
           NHints * Cardinality(Sessions \ (T \cup {s})) + NHints
  BY <1>2, AnotherVariant, SessionsType
<1>5. NHints * Cardinality(Sessions \ T) <= NHints * Cardinality(Sessions)
  <2>1. Cardinality(Sessions \ T) <= Cardinality(Sessions)
    BY HintsPerVariantAssumption, FS_Subset
  <2>2. Cardinality(Sessions \ T) \in Nat /\ Cardinality(Sessions) \in Nat
    BY SessionsType
  <2>3. \A a, b \in Nat : a <= b => NHints * a <= NHints * b
    BY HintsPerVariantAssumption
  <2>4. QED
    BY <2>1, <2>2, <2>3
<1>6. Cardinality(Busy) < Cardinality(Requests)
  <2>1. /\ NHints * Cardinality(Sessions) \in Nat /\ NHints * Cardinality(Sessions \ T) \in Nat
        /\ Cardinality(Requests) \in Nat
    BY SessionsType, RequestsAssumption, FS_CardinalityType
  <2>2. QED
    BY <1>1, <1>3, <1>4, <1>5, <2>1, BusyType, HintsPerVariantAssumption
<1>7. \E r \in Requests : ~Active(r)
  <2>1. Busy \subseteq Requests
    BY DEF Busy
  <2>2. Busy # Requests
    BY <1>6, BusyType
  <2>3. QED
    BY <2>1, <2>2 DEF Busy
<1>8. QED
  BY <1>1, <1>2, <1>3, <1>4, <1>7, BusyType

LEMMA HintAsked ==
  ASSUME IInv, ClientInv, AskForHint
  PROVE  /\ ClientInv'
         /\ Next
<1>1. ClientTypeOK /\ LoopInv /\ WaitInv /\ Looping /\ TypeOK
  BY DEF IInv, ClientInv, AskForHint, Looping
<1>2. PICK r \in Requests : Submit(r, variant) /\ waiting' = r /\ ~Active(r)
  BY SlotForHint DEF AskForHint
<1>3. /\ UNCHANGED <<todo, variant, level, records, hints>>
      /\ epc = "ask" /\ epc' = "wait"
      /\ epc \notin Awaited /\ epc' \in Awaited /\ Looping'
  BY <1>2 DEF AskForHint, Submit, Awaited, Looping
<1>4. /\ pc' = [pc EXCEPT ![r] = "lookup"] /\ target' = [target EXCEPT ![r] = variant]
      /\ reply' = [reply EXCEPT ![r] = "none"] /\ pc[r] = "idle"
  BY <1>2 DEF Submit
<1>5. \A t : /\ Won(t)' = Won(t) /\ Unsure(t)' = Unsure(t) /\ Count(t)' = Count(t)
  BY <1>3 DEF Won, Unsure, Count
<1>6. ClientTypeOK' /\ LoopInv'
  BY <1>1, <1>2, <1>3 DEF ClientTypeOK, LoopInv, Awaited
<1>7. WaitInv'
  BY <1>1, <1>2, <1>3, <1>4 DEF TypeOK, WaitInv, ClientTypeOK
<1>8. OwedInv'
  <2>1. ASSUME NEW s \in Sessions
        PROVE  Count(s) + Cardinality(Open(s)') <=
                 Cardinality(Won(s)) + Cardinality(Unsure(s)) + Owed(s)'
    <3>1. Open(s)' = IF s = variant THEN Open(s) \cup {r} ELSE Open(s)
      BY <1>1, <1>4 DEF Open, TypeOK, Admitted, ClientTypeOK
    <3>2. r \notin Open(s)
      BY <1>4 DEF Open, Admitted
    <3>3. Cardinality(Open(s)') =
            IF s = variant THEN Cardinality(Open(s)) + 1 ELSE Cardinality(Open(s))
      BY <3>1, <3>2, OpenType, FS_AddElement
    <3>4. reply'[waiting'] = "none"
      BY <1>1, <1>2, <1>4 DEF TypeOK
    <3>5. Owed(s) = 0 /\ Owed(s)' = IF s = variant THEN 1 ELSE 0
      BY <1>3, <3>4 DEF Owed
    <3>6. Count(s) + Cardinality(Open(s)) <= Cardinality(Won(s)) + Cardinality(Unsure(s)) + Owed(s)
      BY DEF ClientInv, OwedInv, HintsEvaluated
    <3>7. Count(s) \in Nat
      BY <1>1, CountType
    <3>8. QED
      BY <1>1, <3>3, <3>5, <3>6, <3>7, OpenType, RecordCounts
  <2>2. QED
    BY <1>5, <2>1 DEF OwedInv, HintsEvaluated
<1>9. RecordInv'
  BY <1>3, <1>5 DEF ClientInv, RecordInv
<1>10. LaterInv'
  BY <1>1, <1>2, <1>4 DEF TypeOK, LaterInv, Admitted
<1>11. SlotsInv'
  <2>1. Busy' = Busy \cup {r} /\ r \notin Busy
    BY <1>1, <1>4 DEF Busy, TypeOK
  <2>2. Cardinality(Busy') = Cardinality(Busy) + 1
    BY <2>1, BusyType, FS_AddElement
  <2>3. Asked' = NHints * Cardinality(Sessions \ (todo \cup {variant})) + level
    BY <1>3 DEF Asked
  <2>4. NHints * Cardinality(Sessions \ (todo \cup {variant})) \in Nat
    BY SessionsType
  <2>5. Cardinality(Busy') <= Asked'
    BY <1>3, <2>2, <2>3, <2>4, SlotForHint, BusyType
  <2>6. QED
    BY <2>5 DEF SlotsInv, Busy
<1>12. Next
  BY <1>1, <1>2 DEF Next, ClientTypeOK
<1>13. QED
  BY <1>6, <1>7, <1>8, <1>9, <1>10, <1>11, <1>12 DEF ClientInv

-----------------------------------------------------------------------------
(* A hint is over: it gets its record. *)

Errors == Replies \cup {"unreachable", "timeout"}

\* What a new record has to say: a hint, where it is in the table; a failure,
\* that it is unexplained if the server may have made one.
RecordFits(error, at) ==
  /\ error = "none" =>
       /\ at \in 1..Count(variant) /\ at <= level
       /\ \A j \in Won(variant) : records[variant][j].at < at
  /\ error = "none" \/ error \in Unexplained \/ Owed(variant) = 0

LEMMA NoteType ==
  ASSUME ClientInv, NEW error \in Errors, NEW at \in Nat, Note(error, at), Looping
  PROVE  /\ records' \in [Sessions -> Seq(Reported)]
         /\ \A s \in Sessions \ {variant} : records'[s] = records[s]
         /\ Len(records[variant]) = level - 1 /\ Len(records'[variant]) = level
         /\ level \in Nat \ {0}
         /\ records'[variant][level] = Record(error, at)
         /\ \A i \in 1..(level - 1) : records'[variant][i] = records[variant][i]
<1>1. /\ ClientTypeOK /\ Len(records[variant]) = level - 1 /\ level \in 1..NHints
      /\ records[variant] \in Seq(Reported)
  BY DEF ClientInv, ClientTypeOK, LoopInv
<1>2. Record(error, at) \in Reported
  BY <1>1 DEF Record, Reported, Errors, ClientTypeOK
<1>3. PICK n \in Nat \ {0} : n = level
  BY <1>1, HintsPerVariantAssumption
<1>4. Len(records[variant]) = n - 1
  BY <1>1, <1>3
<1>5. /\ Append(records[variant], Record(error, at)) \in Seq(Reported)
      /\ Len(Append(records[variant], Record(error, at))) = n
      /\ Append(records[variant], Record(error, at))[n] = Record(error, at)
      /\ \A i \in 1..(n - 1) :
           Append(records[variant], Record(error, at))[i] = records[variant][i]
  BY <1>1, <1>2, <1>4
<1>6. records' = [records EXCEPT ![variant] = Append(records[variant], Record(error, at))]
  BY DEF Note
<1>7. QED
  BY <1>1, <1>3, <1>5, <1>6 DEF ClientTypeOK

\* The record is counted once: as a hint, or as a failure with or without a reason.
LEMMA NoteCounts ==
  ASSUME ClientInv, NEW error \in Errors, NEW at \in Nat, Note(error, at), Looping,
         NEW s \in Sessions
  PROVE  /\ s # variant => Won(s)' = Won(s) /\ Unsure(s)' = Unsure(s)
         /\ s = variant =>
              /\ Won(s)' = IF error = "none" THEN Won(s) \cup {level} ELSE Won(s)
              /\ Unsure(s)' = IF error \in Unexplained THEN Unsure(s) \cup {level} ELSE Unsure(s)
              /\ level \notin Won(s) /\ level \notin Unsure(s)
<1>1. PICK n \in Nat \ {0} : n = level
  BY NoteType
<1>2. CASE s # variant
  BY <1>2, NoteType DEF Won, Unsure
<1>3. CASE s = variant
  <2>1. /\ Len(records[s]) = n - 1 /\ Len(records'[s]) = n
        /\ records'[s][n] = Record(error, at)
        /\ \A i \in 1..(n - 1) : records'[s][i] = records[s][i]
    BY <1>1, <1>3, NoteType
  <2>2. Record(error, at).success = (error = "none") /\ Record(error, at).error = error
    BY DEF Record
  <2>3. Won(s)' = IF error = "none" THEN Won(s) \cup {n} ELSE Won(s)
    <3>1. 1..n = (1..(n - 1)) \cup {n}
      OBVIOUS
    <3>2. Won(s)' = {i \in (1..(n - 1)) \cup {n} : records'[s][i].success}
      BY <2>1, <3>1 DEF Won
    <3>3. Won(s) = {i \in 1..(n - 1) : records[s][i].success}
      BY <2>1 DEF Won
    <3>4. records'[s][n].success <=> error = "none"
      BY <2>1, <2>2
    <3>5. QED
      BY <2>1, <3>2, <3>3, <3>4, Zenon
  <2>4. Unsure(s)' = IF error \in Unexplained THEN Unsure(s) \cup {n} ELSE Unsure(s)
    BY <2>1, <2>2 DEF Unsure
  <2>5. n \notin Won(s) /\ n \notin Unsure(s)
    BY <2>1 DEF Won, Unsure
  <2>6. QED
    BY <1>1, <1>3, <2>3, <2>4, <2>5
<1>4. QED
  BY <1>2, <1>3

\* The end of a hint, however it came: what the noting steps have in common.
LEMMA HintIsOver ==
  ASSUME IInv, ClientInv, NEW error \in Errors, NEW at \in Nat, RecordFits(error, at), Looping,
         Note(error, at), NextHint, UNCHANGED <<vars, todo, variant, waiting>>
  PROVE  ClientInv'
<1>1. /\ ClientTypeOK /\ LoopInv /\ RecordInv /\ variant \in Sessions /\ variant \notin todo
      /\ todo \subseteq Sessions /\ level \in 1..NHints
  BY DEF ClientInv, ClientTypeOK, LoopInv
<1>2. /\ epc' \notin Awaited
      /\ \/ level = NHints /\ epc' = "variant" /\ level' = level /\ ~Looping'
         \/ level < NHints /\ epc' = "ask" /\ level' = level + 1 /\ Looping'
  BY DEF NextHint, Awaited, Looping
<1>3. ClientTypeOK'
  BY <1>1, <1>2, NoteType DEF ClientTypeOK
<1>4. LoopInv'
  <2>1. Looping' => variant' \notin todo' /\ level' \in 1..NHints
                    /\ Len(records'[variant']) = level' - 1
    BY <1>1, <1>2, NoteType, HintsPerVariantAssumption
  <2>2. \A s \in todo' : Len(records'[s]) = 0
    BY <1>1, NoteType DEF LoopInv
  <2>3. \A s \in Sessions : Len(records'[s]) \in {0, NHints} \/ (Looping' /\ s = variant')
    BY <1>1, <1>2, NoteType DEF LoopInv
  <2>4. QED
    BY <2>1, <2>2, <2>3 DEF LoopInv
<1>5. WaitInv'
  BY <1>2 DEF ClientInv, WaitInv, vars
<1>6. LaterInv'
  BY <1>2 DEF LaterInv
<1>7. \A s \in Sessions : Count(s)' = Count(s) /\ Open(s)' = Open(s) /\ Count(s) \in Nat
  BY CountType DEF IInv, Count, Open, vars
<1>8. OwedInv'
  <2>1. ASSUME NEW s \in Sessions
        PROVE  Count(s) + Cardinality(Open(s)) <=
                 Cardinality(Won(s)') + Cardinality(Unsure(s)') + Owed(s)'
    <3>1. /\ Count(s) + Cardinality(Open(s)) <=
               Cardinality(Won(s)) + Cardinality(Unsure(s)) + Owed(s)
          /\ Owed(s) \in 0..1 /\ Owed(s)' = 0 /\ (s # variant => Owed(s) = 0)
      BY <1>2 DEF ClientInv, OwedInv, HintsEvaluated, Owed
    <3>2. /\ IsFiniteSet(Won(s)) /\ IsFiniteSet(Unsure(s)) /\ Count(s) \in Nat
          /\ Cardinality(Won(s)) \in Nat /\ Cardinality(Unsure(s)) \in Nat
          /\ Cardinality(Open(s)) \in Nat
      BY <1>1, <1>7, RecordCounts, OpenType
    <3>3. CASE s # variant
      BY <3>1, <3>2, <3>3, NoteCounts
    <3>4. CASE s = variant
      <4>1. /\ Cardinality(Won(s)') =
                 IF error = "none" THEN Cardinality(Won(s)) + 1 ELSE Cardinality(Won(s))
            /\ Cardinality(Unsure(s)') =
                 IF error \in Unexplained THEN Cardinality(Unsure(s)) + 1
                 ELSE Cardinality(Unsure(s))
        <5>1. /\ Won(s)' = IF error = "none" THEN Won(s) \cup {level} ELSE Won(s)
              /\ Unsure(s)' = IF error \in Unexplained THEN Unsure(s) \cup {level} ELSE Unsure(s)
              /\ level \notin Won(s) /\ level \notin Unsure(s)
          BY <3>4, NoteCounts
        <5>2. /\ Cardinality(Won(s) \cup {level}) = Cardinality(Won(s)) + 1
              /\ Cardinality(Unsure(s) \cup {level}) = Cardinality(Unsure(s)) + 1
          BY <3>2, <5>1, FS_AddElement
        <5>3. QED
          BY <5>1, <5>2
      <4>2. error = "none" \/ error \in Unexplained \/ Owed(s) = 0
        BY <3>4 DEF RecordFits
      <4>3. "none" \notin Unexplained
        BY DEF Unexplained
      <4>4. QED
        BY <3>1, <3>2, <4>1, <4>2, <4>3
    <3>5. QED
      BY <3>3, <3>4
  <2>2. QED
    BY <1>7, <2>1 DEF OwedInv, HintsEvaluated
<1>9. RecordInv'
  <2>1. SUFFICES ASSUME NEW s \in Sessions, NEW i \in 1..Len(records'[s])
                 PROVE  LET rec == records'[s][i] IN
                        /\ rec.index = i
                        /\ rec.success <=> rec.error = "none"
                        /\ rec.success =>
                             /\ rec.at \in 1..Count(s) /\ rec.at <= i
                             /\ \A j \in Won(s)' : j < i => records'[s][j].at < rec.at
    BY <1>7 DEF RecordInv
  <2>2. CASE s # variant
    <3>1. records'[s] = records[s] /\ Won(s)' = Won(s)
      BY <2>2, NoteType, NoteCounts
    <3>2. QED
      BY <1>1, <3>1 DEF RecordInv
  <2>3. CASE s = variant
    <3>1. PICK n \in Nat \ {0} : n = level
      BY NoteType
    <3>2. /\ Len(records[s]) = n - 1 /\ Len(records'[s]) = n
          /\ records'[s][n] = Record(error, at)
          /\ \A j \in 1..(n - 1) : records'[s][j] = records[s][j]
      BY <2>3, <3>1, NoteType
    <3>3. /\ \A j \in Won(s)' : j < n => j \in Won(s)
          /\ Won(s) \subseteq 1..(n - 1)
      BY <2>3, <3>1, <3>2, NoteCounts DEF Won
    <3>4. CASE i = n
      <4>1. /\ records'[s][i].index = n /\ records'[s][i].at = at
            /\ records'[s][i].error = error /\ records'[s][i].success = (error = "none")
        BY <3>1, <3>2, <3>4 DEF Record
      <4>2. error = "none" =>
              at \in 1..Count(s) /\ at <= n /\ \A j \in Won(s) : records[s][j].at < at
        BY <2>3, <3>1 DEF RecordFits
      <4>3. error = "none" => \A j \in Won(s)' : j < i => records'[s][j].at < at
        BY <3>2, <3>3, <3>4, <4>2
      <4>4. QED
        BY <3>4, <4>1, <4>2, <4>3
    <3>5. CASE i # n
      <4>1. i \in 1..(n - 1) /\ i \in 1..Len(records[s]) /\ records'[s][i] = records[s][i]
        BY <3>2, <3>5
      <4>2. \A j \in Won(s)' : j < i => j \in Won(s) /\ records'[s][j] = records[s][j]
        BY <3>2, <3>3, <4>1 DEF Won
      <4>3. QED
        BY <1>1, <4>1, <4>2 DEF RecordInv
    <3>6. QED
      BY <3>4, <3>5
  <2>4. QED
    BY <2>2, <2>3
<1>10. SlotsInv'
  <2>1. PICK T \in SUBSET Sessions, s \in Sessions : T = todo /\ s = variant /\ s \notin T
    BY <1>1
  <2>2. /\ NHints * Cardinality(Sessions \ (T \cup {s})) \in Nat
        /\ NHints * Cardinality(Sessions \ T) =
             NHints * Cardinality(Sessions \ (T \cup {s})) + NHints
    BY <2>1, AnotherVariant, SessionsType
  <2>3. Asked = NHints * Cardinality(Sessions \ (T \cup {s})) +
                  IF epc = "ask" THEN level - 1 ELSE level
    BY <2>1 DEF Asked
  <2>4. Asked' = NHints * Cardinality(Sessions \ (T \cup {s})) + level
    BY <1>1, <1>2, <2>1, <2>2 DEF Asked
  <2>5. Asked <= Asked' /\ Asked \in Int /\ Asked' \in Int
    BY <1>1, <2>2, <2>3, <2>4, HintsPerVariantAssumption
  <2>6. Busy' = Busy /\ Cardinality(Busy) <= Asked
    BY DEF Busy, vars, ClientInv, SlotsInv
  <2>7. Cardinality(Busy') <= Asked'
    BY <2>5, <2>6, BusyType
  <2>8. QED
    BY <2>7 DEF SlotsInv, Busy
<1>11. QED
  BY <1>3, <1>4, <1>5, <1>6, <1>8, <1>9, <1>10 DEF ClientInv

\* The hint that was judged is a row nobody recorded before, and not above its level.
LEMMA JudgedIsLater ==
  ASSUME IInv, AnswersInv, ClientInv, epc = "judge_helpful"
  PROVE  /\ index[waiting] \in 1..Count(variant) /\ index[waiting] <= level
         /\ \A j \in Won(variant) : records[variant][j].at < index[waiting]
<1>1. /\ waiting \in Requests /\ variant \in Sessions /\ target[waiting] = variant
      /\ reply[waiting] = "ok" /\ ClientTypeOK /\ RecordInv
      /\ Looping /\ level \in 1..NHints /\ Len(records[variant]) = level - 1
  BY DEF ClientInv, ClientTypeOK, WaitInv, Awaited, LoopInv, Looping
<1>2. index[waiting] \in 1..Count(variant)
  <2>1. index[waiting] \in Indices(variant)
    BY <1>1 DEF AnswersInv, SuccessIsDurable, Indices
  <2>2. QED
    BY <1>1, <2>1 DEF IInv, Contiguous
<1>3. Count(variant) <= level
  <2>1. Count(variant) + Cardinality(Open(variant)) <=
          Cardinality(Won(variant)) + Cardinality(Unsure(variant)) + Owed(variant)
    BY <1>1 DEF ClientInv, OwedInv, HintsEvaluated
  <2>2. Owed(variant) \in 0..1 /\ Count(variant) \in Nat
    BY <1>1, CountType DEF IInv, Owed
  <2>3. /\ Cardinality(Won(variant)) + Cardinality(Unsure(variant)) <= level - 1
        /\ Cardinality(Won(variant)) \in Nat /\ Cardinality(Unsure(variant)) \in Nat
    BY <1>1, ExplainedOrNot, RecordCounts
  <2>4. Cardinality(Open(variant)) \in Nat /\ level \in Nat
    BY <1>1, OpenType, HintsPerVariantAssumption
  <2>5. QED
    BY <2>1, <2>2, <2>3, <2>4
<1>4. \A j \in Won(variant) : records[variant][j].at < index[waiting]
  BY <1>1 DEF ClientInv, LaterInv, Awaited
<1>5. Count(variant) \in Nat /\ level \in Nat
  BY <1>1, CountType, HintsPerVariantAssumption DEF IInv
<1>6. QED
  BY <1>2, <1>3, <1>4, <1>5

LEMMA HintIsNoted ==
  ASSUME IInv, AnswersInv, ClientInv,
         ConnectFails \/ ReceiveRefusal \/ StopWaiting \/ JudgeHelpful
  PROVE  ClientInv'
<1>1. UNCHANGED <<vars, todo, variant, waiting>> /\ NextHint /\ Looping
  BY DEF ConnectFails, ReceiveRefusal, StopWaiting, JudgeHelpful, Looping, Awaited
<1>2. WaitInv /\ waiting \in Requests /\ TypeOK /\ variant \in Sessions
  BY DEF IInv, ClientInv, ClientTypeOK
<1>3. CASE ConnectFails
  <2>1. RecordFits("unreachable", 0) /\ Note("unreachable", 0)
    BY <1>3 DEF ConnectFails, RecordFits, Owed, Awaited
  <2>2. "unreachable" \in Errors /\ 0 \in Nat
    BY DEF Errors
  <2>3. QED
    BY <1>1, <2>1, <2>2, HintIsOver
<1>4. CASE ReceiveRefusal
  <2>1. PICK e \in Replies : e = reply[waiting]
    BY <1>2 DEF TypeOK
  <2>2. e # "none" /\ e # "ok" /\ Note(e, 0)
    BY <1>2, <1>4, <2>1 DEF ReceiveRefusal, WaitInv, Awaited
  <2>3. RecordFits(e, 0)
    BY <2>1, <2>2 DEF RecordFits, Owed
  <2>4. e \in Errors /\ 0 \in Nat
    BY DEF Errors
  <2>5. QED
    BY <1>1, <2>2, <2>3, <2>4, HintIsOver
<1>5. CASE StopWaiting
  <2>1. RecordFits("timeout", 0) /\ Note("timeout", 0)
    BY <1>5 DEF StopWaiting, RecordFits, Unexplained
  <2>2. "timeout" \in Errors /\ 0 \in Nat
    BY DEF Errors
  <2>3. QED
    BY <1>1, <2>1, <2>2, HintIsOver
<1>6. CASE JudgeHelpful
  <2>1. PICK a \in Nat : a = index[waiting]
    BY <1>2 DEF TypeOK
  <2>2. Note("none", a) /\ epc = "judge_helpful"
    BY <1>6, <2>1 DEF JudgeHelpful
  <2>3. RecordFits("none", a)
    BY <2>1, <2>2, JudgedIsLater DEF RecordFits
  <2>4. "none" \in Errors
    BY DEF Errors, Replies
  <2>5. QED
    BY <1>1, <2>2, <2>3, <2>4, HintIsOver
<1>7. QED
  BY <1>3, <1>4, <1>5, <1>6

-----------------------------------------------------------------------------
(* The invariant of the evaluation, and what it says of the report. *)

LEMMA InitClient == EvalInit => ClientInv
<1> SUFFICES ASSUME EvalInit PROVE ClientInv
  OBVIOUS
<1> USE DEF EvalInit, Init
<1>1. /\ epc \notin Awaited /\ ~Looping /\ \A r \in Requests : pc[r] = "idle" /\ reply[r] = "none"
      /\ \A s \in Sessions : records[s] = <<>> /\ hints[s] = {}
  BY DEF Awaited, Looping
<1>2. ClientTypeOK /\ LoopInv /\ WaitInv /\ LaterInv
  BY <1>1 DEF ClientTypeOK, LoopInv, WaitInv, LaterInv
<1>3. \A s \in Sessions :
        /\ Count(s) = 0 /\ Cardinality(Open(s)) = 0 /\ Cardinality(Won(s)) = 0
        /\ Cardinality(Unsure(s)) = 0 /\ Owed(s) = 0
  <2>1. \A s \in Sessions : /\ hints[s] = {} /\ Open(s) = {} /\ Won(s) = {} /\ Unsure(s) = {}
                            /\ Owed(s) = 0
    BY <1>1 DEF Open, Won, Unsure, Owed, Admitted
  <2>2. QED
    BY <2>1, FS_EmptySet DEF Count
<1>4. OwedInv /\ RecordInv
  BY <1>1, <1>3 DEF OwedInv, RecordInv, HintsEvaluated
<1>5. SlotsInv
  <2>1. Busy = {} /\ Sessions \ todo = {}
    BY <1>1 DEF Busy
  <2>2. Asked = NHints * Cardinality(Sessions \ todo)
    BY <1>1 DEF Asked
  <2>3. Cardinality(Busy) = 0 /\ Cardinality(Sessions \ todo) = 0
    BY <2>1, FS_EmptySet
  <2>4. Cardinality(Busy) <= Asked
    BY <2>2, <2>3, HintsPerVariantAssumption
  <2>5. QED
    BY <2>4 DEF SlotsInv, Busy
<1>6. QED
  BY <1>2, <1>4, <1>5 DEF ClientInv

\* The client uses the service: every step is one of the service, or none.
LEMMA EvalIsNext ==
  ASSUME IInv, ClientInv, [EvalNext]_evalVars
  PROVE  [Next]_vars
<1>1. CASE ServerStep
  BY <1>1, ServerIsNext
<1>2. CASE ClientStep
  BY <1>2, ClientIsQuiet, HintAsked
<1>3. QED
  BY <1>1, <1>2 DEF EvalNext

LEMMA ClientRests ==
  ASSUME ClientInv, UNCHANGED evalVars
  PROVE  ClientInv'
<1> USE DEF ClientInv, vars, local
<1>1. \A s : /\ Won(s)' = Won(s) /\ Unsure(s)' = Unsure(s)
             /\ Count(s)' = Count(s) /\ Open(s)' = Open(s) /\ Owed(s)' = Owed(s)
  BY DEF Won, Unsure, Count, Open, Owed
<1>2. ClientTypeOK' /\ LoopInv' /\ WaitInv'
  BY DEF ClientTypeOK, LoopInv, Looping, WaitInv
<1>3. OwedInv' /\ RecordInv' /\ LaterInv'
  BY <1>1 DEF OwedInv, HintsEvaluated, RecordInv, LaterInv
<1>4. SlotsInv'
  BY DEF SlotsInv, Asked, Looping
<1>5. QED
  BY <1>2, <1>3, <1>4

LEMMA ClientInvStep ==
  ASSUME IInv, AnswersInv, ClientInv, [EvalNext]_evalVars
  PROVE  ClientInv'
<1>1. CASE ClientStep
  BY <1>1, BetweenVariants, NextVariant, HintAsked, HintAtHand, HintIsNoted DEF ClientStep
<1>2. CASE ServerStep /\ UNCHANGED clientVars
  BY <1>2, ServerKeeps
<1>3. CASE UNCHANGED evalVars
  BY <1>3, ClientRests
<1>4. QED
  BY <1>1, <1>2, <1>3 DEF EvalNext

\* The invariant: between the two sides, the benchmark's records and the table,
\* nothing is lost that is not accounted for.
THEOREM EvalInvariance == EvalSpec => [](IInv /\ AnswersInv /\ ClientInv)
<1>1. EvalInit => IInv /\ AnswersInv /\ ClientInv
  BY InitIInv, InitAnswers, InitClient DEF EvalInit
<1>2. (IInv /\ AnswersInv /\ ClientInv) /\ [EvalNext]_evalVars => (IInv /\ AnswersInv /\ ClientInv)'
  <2> SUFFICES ASSUME IInv, AnswersInv, ClientInv, [EvalNext]_evalVars
               PROVE  (IInv /\ AnswersInv /\ ClientInv)'
    OBVIOUS
  <2>1. [Next]_vars
    BY EvalIsNext
  <2>2. IInv'
    BY <2>1, TypeStep, ContiguousStep, NumberingStep, AdmissionStep DEF IInv
  <2>3. QED
    BY <2>1, <2>2, AnswersStep, ClientInvStep
<1>3. QED
  BY <1>1, <1>2, PTL DEF EvalSpec

\* The report's levels: no hint counts under a level below its own, however
\* many the client gave up on, and the recorded ones come in the table's order.
THEOREM LevelsAreHonest == EvalSpec => []LevelsNeverUnderstated
<1>1. ClientInv => LevelsNeverUnderstated
  BY DEF ClientInv, RecordInv, LevelsNeverUnderstated, Won
<1>2. QED
  BY <1>1, EvalInvariance, PTL

\* The evaluated hints are different rows, as each comes before the next.
LEMMA EvaluatedAreRows ==
  ASSUME IInv, ClientInv, NEW s \in Sessions
  PROVE  HintsEvaluated(s) <= Count(s)
<1>1. ClientTypeOK /\ RecordInv /\ Count(s) \in Nat
  BY CountType DEF IInv, ClientInv
<1>2. DEFINE f == [i \in Won(s) |-> records[s][i].at]
<1>3. \A i \in Won(s) : i \in Int /\ records[s][i].at \in 1..Count(s)
  BY <1>1 DEF RecordInv, Won
<1>4. f \in [Won(s) -> 1..Count(s)]
  BY <1>3
<1>5. \A i, j \in Won(s) : j < i => f[j] < f[i]
  BY <1>1 DEF RecordInv, Won
<1>6. \A i \in Won(s) : f[i] \in Int
  BY <1>1, <1>4
<1>7. f \in Injection(Won(s), 1..Count(s))
  BY <1>3, <1>4, <1>5, <1>6 DEF Injection, IsInjective
<1>8. IsFiniteSet(1..Count(s)) /\ Cardinality(1..Count(s)) = Count(s)
  BY <1>1, FS_Interval
<1>9. Cardinality(Won(s)) <= Cardinality(1..Count(s))
  <2> HIDE DEF f
  <2>1. QED
    BY <1>7, <1>8, FS_Injection DEF ExistsInjection
<1>10. QED
  BY <1>8, <1>9 DEF HintsEvaluated

\* The report against the table: no hint is evaluated that is not a row, no row
\* is missing from the report without a failure that may stand for it, and
\* every hint asked for is counted once.
THEOREM ReportAgrees == EvalSpec => []ReportMatchesTable
<1>1. IInv /\ ClientInv => ReportMatchesTable
  <2> SUFFICES ASSUME IInv, ClientInv, NEW s \in Sessions
               PROVE  /\ HintsEvaluated(s) <= Count(s)
                      /\ Count(s) <= HintsEvaluated(s) + Cardinality(Unsure(s)) + Pending(s)
                      /\ epc = "done" /\ records[s] # <<>> =>
                           HintsEvaluated(s) + HintFailures(s) = NHints
    BY DEF ReportMatchesTable
  <2>1. /\ ClientTypeOK /\ Count(s) \in Nat /\ Cardinality(Open(s)) \in Nat
        /\ Cardinality(Won(s)) \in Nat /\ Cardinality(Unsure(s)) \in Nat
    BY CountType, OpenType, RecordCounts DEF IInv, ClientInv
  <2>2. Count(s) <= HintsEvaluated(s) + Cardinality(Unsure(s)) + Pending(s)
    <3>1. Count(s) + Cardinality(Open(s)) <= Cardinality(Won(s)) + Cardinality(Unsure(s)) + Owed(s)
      BY DEF ClientInv, OwedInv, HintsEvaluated
    <3>2. Owed(s) <= Pending(s) /\ Owed(s) \in Nat /\ Pending(s) \in Nat
      BY DEF Owed, Pending
    <3>3. QED
      BY <2>1, <3>1, <3>2 DEF HintsEvaluated
  <2>3. ASSUME epc = "done", records[s] # <<>> PROVE HintsEvaluated(s) + HintFailures(s) = NHints
    <3>1. records[s] \in Seq(Reported) /\ Len(records[s]) # 0
      BY <2>1, <2>3 DEF ClientTypeOK
    <3>2. Len(records[s]) = NHints
      BY <2>3, <3>1 DEF ClientInv, LoopInv, Looping, Awaited
    <3>3. QED
      BY <2>1, <3>2, RecordCounts DEF HintsEvaluated, HintFailures
  <2>4. QED
    BY <2>2, <2>3, EvaluatedAreRows
<1>2. QED
  BY <1>1, EvalInvariance, PTL
=============================================================================
