------------------------ MODULE HintSession_proofs ------------------------
(***************************************************************************)
(* Proofs about HintSession, for every set of sessions, every finite set   *)
(* of request slots and every cap: types, the numbering of the hints, and  *)
(* how far past the cap a session can get.                                 *)
(***************************************************************************)
EXTENDS HintSession, Sequences, FiniteSetTheorems, TLAPS

USE DEF Active, Goto, Finish

-----------------------------------------------------------------------------
(* Counting. *)

\* The number of committed hints of a session is a natural number.
LEMMA CountType == ASSUME TypeOK PROVE \A s \in Sessions : Count(s) \in Nat
  BY FS_CardinalityType DEF TypeOK, Count

\* The requests in flight of a session are a finite set of request slots.
LEMMA InFlightType ==
  \A s \in Sessions :
    /\ IsFiniteSet(InFlight(s))
    /\ Cardinality(InFlight(s)) \in Nat
    /\ Cardinality(InFlight(s)) <= Cardinality(Requests)
<1>1. \A s : InFlight(s) \in SUBSET Requests
  BY DEF InFlight
<1>2. \A s : IsFiniteSet(InFlight(s)) /\ Cardinality(InFlight(s)) <= Cardinality(Requests)
  BY <1>1, FS_Subset, RequestsAssumption
<1>3. QED
  BY <1>2, FS_CardinalityType

LEMMA MostHintsType == MostHints \in Nat
  BY FS_CardinalityType, RequestsAssumption, BoundsAssumption DEF MostHints

\* A commit adds one row to the session of the request and none to another.
LEMMA PersistCounts ==
  ASSUME TypeOK, NEW r \in Requests, Persist(r), ~KeyIsTaken(r)
  PROVE  \A s \in Sessions : Count(s)' = IF s = target[r] THEN Count(s) + 1 ELSE Count(s)
<1>1. target[r] \in Sessions /\ IsFiniteSet(hints[target[r]])
  BY DEF TypeOK
<1>2. NewRow(r) \notin hints[target[r]]
  BY DEF KeyIsTaken, Indices, NewRow
<1>3. Cardinality(hints[target[r]] \cup {NewRow(r)}) = Cardinality(hints[target[r]]) + 1
  BY <1>1, <1>2, FS_AddElement
<1>4. QED
  BY <1>1, <1>3 DEF Persist, Count, TypeOK

-----------------------------------------------------------------------------
(* Type correctness. *)

\* Rows committed by a request have the type of a row.
LEMMA NewRowType ==
  ASSUME TypeOK, NEW r \in Requests, index[r] > 0
  PROVE  NewRow(r) \in Row
  BY DEF TypeOK, NewRow, Row, PriorHintsCount, Seeded

LEMMA PersistType ==
  ASSUME TypeOK, NEW r \in Requests, index[r] > 0, Persist(r)
  PROVE  /\ hints' \in [Sessions -> SUBSET Row]
         /\ \A s \in Sessions : IsFiniteSet(hints'[s])
         /\ wrote' \in [Requests -> Nat]
<1>1. NewRow(r) \in Row /\ target[r] \in Sessions
  BY NewRowType DEF TypeOK
<1>2. IsFiniteSet(hints[target[r]] \cup {NewRow(r)})
  BY <1>1, FS_AddElement DEF TypeOK
<1>3. QED
  BY <1>1, <1>2 DEF Persist, TypeOK

LEMMA InitIInv == Init => IInv
<1> SUFFICES ASSUME Init PROVE IInv
  OBVIOUS
<1>1. \A s \in Sessions : hints[s] = {} /\ Count(s) = 0 /\ Indices(s) = {}
  BY FS_EmptySet DEF Init, Count, Indices
<1>2. TypeOK
  BY FS_EmptySet, BoundsAssumption DEF Init, TypeOK, Replies, Steps
<1>3. Contiguous
  <2>1. 1..0 = {}
    OBVIOUS
  <2>2. \A s \in Sessions : Indices(s) = 1..Count(s)
    BY <1>1, <2>1
  <2>3. QED
    BY <1>1, <2>2 DEF Contiguous
<1>4. NumberingInv
  BY DEF Init, NumberingInv, Admitted
<1>5. AdmissionInv
  <2>1. \A s \in Sessions : Cardinality(InFlight(s)) <= Cardinality(Requests)
    BY InFlightType
  <2>2. \A s \in Sessions : InFlight(s) = {}
    BY DEF Init, InFlight, Admitted
  <2>3. QED
    BY <1>1, <2>2, FS_EmptySet, MostHintsType DEF AdmissionInv
<1>6. QED
  BY <1>2, <1>3, <1>4, <1>5 DEF IInv

\* Every action keeps the types; a commit needs its index to be positive,
\* which NumberingInv says.
LEMMA TypeStep == IInv /\ [Next]_vars => TypeOK'
<1> SUFFICES ASSUME IInv, [Next]_vars PROVE TypeOK'
  OBVIOUS
<1> USE DEF TypeOK, Steps, Replies, local, vars
<1>1. \A r \in Requests : pc[r] = "commit" => index[r] > 0
  BY CountType DEF IInv, NumberingInv
<1>2. TypeOK
  BY DEF IInv
<1>3. ASSUME NEW r \in Requests, NEW s \in Sessions, Submit(r, s) PROVE TypeOK'
  BY <1>2, <1>3 DEF Submit
<1>4. ASSUME NEW r \in Requests, Step(r) PROVE TypeOK'
  <2>1. CASE LookUpSession(r)
    BY <1>2, <2>1 DEF LookUpSession
  <2>2. CASE ListPriorHints(r)
    BY <1>2, <2>2, CountType DEF ListPriorHints
  <2>3. CASE CountPriorHints(r)
    BY <1>2, <2>3, CountType DEF CountPriorHints
  <2>4. CASE RetrieveContext(r) \/ RetrieveDbError(r)
    BY <1>2, <2>4 DEF RetrieveContext, RetrieveDbError
  <2>5. CASE GenerateHint(r) \/ RegenerateHint(r)
    BY <1>2, <2>5 DEF GenerateHint, RegenerateHint
  <2>6. CASE InsertHint(r) \/ InsertIntoAborted(r) \/ InsertCollides(r)
    BY <1>2, <2>6 DEF InsertHint, InsertIntoAborted, InsertCollides
  <2>7. CASE RelistHints(r)
    BY <1>2, <2>7, CountType DEF RelistHints
  <2>8. CASE CommitHint(r)
    BY <1>1, <1>2, <2>8, PersistType DEF CommitHint
  <2>9. CASE RefreshHint(r)
    BY <1>2, <2>9 DEF RefreshHint
  <2>10. QED
    BY <1>4, <2>1, <2>2, <2>3, <2>4, <2>5, <2>6, <2>7, <2>8, <2>9 DEF Step
<1>5. ASSUME NEW r \in Requests, RequestFails(r) PROVE TypeOK'
  BY <1>2, <1>5, BoundsAssumption DEF RequestFails
<1>6. ASSUME NEW r \in Requests, CommitUnacknowledged(r) PROVE TypeOK'
  BY <1>1, <1>2, <1>6, PersistType, BoundsAssumption DEF CommitUnacknowledged
<1>7. CASE Crash
  BY <1>2, <1>7, BoundsAssumption DEF Crash
<1>8. CASE UNCHANGED vars
  BY <1>2, <1>8
<1>9. QED
  BY <1>3, <1>4, <1>5, <1>6, <1>7, <1>8 DEF Next

-----------------------------------------------------------------------------
(* What a step does to the table. *)

\* A committed row of r, whatever the client hears of it.
Commits(r) ==
  /\ pc[r] = "commit"
  /\ Persist(r)
  /\ \E step \in {"refresh", "idle"} : Goto(r, step)
  /\ UNCHANGED <<target, local>>

\* The table changes only by a commit.
LEMMA TableStep ==
  ASSUME Next
  PROVE  UNCHANGED hints \/ \E r \in Requests : Commits(r)
<1> USE DEF local
<1>1. ASSUME NEW r \in Requests, NEW s \in Sessions, Submit(r, s) PROVE UNCHANGED hints
  BY <1>1 DEF Submit
<1>2. ASSUME NEW r \in Requests, Step(r) PROVE UNCHANGED hints \/ Commits(r)
  BY <1>2 DEF Step, LookUpSession, ListPriorHints, CountPriorHints, RetrieveContext,
     RetrieveDbError, GenerateHint, RegenerateHint, InsertHint, InsertIntoAborted,
     InsertCollides, RelistHints, CommitHint, RefreshHint, Commits
<1>3. ASSUME NEW r \in Requests, RequestFails(r) PROVE UNCHANGED hints
  BY <1>3 DEF RequestFails
<1>4. ASSUME NEW r \in Requests, CommitUnacknowledged(r) PROVE Commits(r)
  BY <1>4 DEF CommitUnacknowledged, Commits
<1>5. CASE Crash
  BY <1>5 DEF Crash
<1>6. QED
  BY <1>1, <1>2, <1>3, <1>4, <1>5 DEF Next

\* The row a commit adds is the next one of its session.
LEMMA CommitIsNext ==
  ASSUME IInv, NEW r \in Requests, Commits(r)
  PROVE  /\ index[r] = Count(target[r]) + 1
         /\ ~KeyIsTaken(r)
<1>1. target[r] \in Sessions /\ Count(target[r]) \in Nat
  BY CountType DEF IInv, TypeOK
<1>2. index[r] \in 1..(Count(target[r]) + 1) /\ ~KeyIsTaken(r)
  BY DEF IInv, NumberingInv, Commits
<1>3. index[r] \notin 1..Count(target[r])
  BY <1>1, <1>2 DEF IInv, Contiguous, KeyIsTaken
<1>4. QED
  BY <1>1, <1>2, <1>3

LEMMA ContiguousStep == IInv /\ [Next]_vars => Contiguous'
<1> SUFFICES ASSUME IInv, [Next]_vars PROVE Contiguous'
  OBVIOUS
<1>1. CASE UNCHANGED hints
  BY <1>1 DEF IInv, Contiguous, Count, Indices
<1>2. ASSUME NEW r \in Requests, Commits(r), NEW s \in Sessions
      PROVE  /\ Indices(s)' = 1..Count(s)'
             /\ \A g, h \in hints'[s] : g.index = h.index => g = h
  <2>1. target[r] \in Sessions /\ Count(s) \in Nat
    BY CountType DEF IInv, TypeOK
  <2>2. index[r] = Count(target[r]) + 1 /\ ~KeyIsTaken(r)
    BY <1>2, CommitIsNext
  <2>3. Count(s)' = IF s = target[r] THEN Count(s) + 1 ELSE Count(s)
    BY <1>2, <2>2, PersistCounts DEF IInv, Commits
  <2>4. hints'[s] = IF s = target[r] THEN hints[s] \cup {NewRow(r)} ELSE hints[s]
    BY <1>2 DEF IInv, TypeOK, Commits, Persist
  <2>5. NewRow(r).index = index[r]
    BY DEF NewRow
  <2>6. CASE s # target[r]
    BY <2>3, <2>4, <2>6 DEF IInv, Contiguous, Indices
  <2>7. CASE s = target[r]
    <3>1. Indices(s)' = Indices(s) \cup {index[r]}
      BY <2>4, <2>5, <2>7 DEF Indices
    <3>2. Indices(s)' = (1..Count(s)) \cup {Count(s) + 1}
      BY <2>2, <2>7, <3>1 DEF IInv, Contiguous
    <3>3. Indices(s)' = 1..Count(s)'
      BY <2>1, <2>3, <2>7, <3>2
    <3>4. \A g \in hints[s] : g.index # index[r]
      BY <2>2, <2>7 DEF KeyIsTaken, Indices
    <3>5. \A g, h \in hints'[s] : g.index = h.index => g = h
      BY <2>4, <2>5, <2>7, <3>4 DEF IInv, Contiguous
    <3>6. QED
      BY <3>3, <3>5
  <2>8. QED
    BY <2>6, <2>7
<1>3. QED
  BY <1>1, <1>2, TableStep DEF vars, Contiguous

-----------------------------------------------------------------------------
(* Numbering. *)

\* Rows are never taken back.
LEMMA CountGrows ==
  ASSUME IInv, [Next]_vars
  PROVE  \A s \in Sessions :
           /\ Count(s) \in Nat /\ Count(s)' \in Nat
           /\ Count(s)' >= Count(s)
<1>1. \A s \in Sessions : Count(s) \in Nat
  BY CountType DEF IInv
<1>2. CASE UNCHANGED hints
  BY <1>1, <1>2 DEF Count
<1>3. ASSUME NEW r \in Requests, Commits(r), NEW s \in Sessions
      PROVE  Count(s)' \in Nat /\ Count(s)' >= Count(s)
  <2>1. Count(s)' = IF s = target[r] THEN Count(s) + 1 ELSE Count(s)
    BY <1>3, CommitIsNext, PersistCounts DEF IInv, Commits
  <2>2. QED
    BY <1>1, <2>1
<1>4. QED
  BY <1>1, <1>2, <1>3, TableStep DEF vars

\* What NumberingInv says of one request.
Numbered(r) ==
  /\ pc[r] \in Admitted => counted[r] <= Count(target[r])
  /\ pc[r] \in {"insert", "commit"} => index[r] \in 1..(Count(target[r]) + 1)
  /\ pc[r] = "commit" => ~KeyIsTaken(r) /\ ~KeyIsHeld(r)

\* A request that does not move keeps its number while the others leave the
\* table alone and none of them enters its commit.
LEMMA OthersKeepNumber ==
  ASSUME IInv, UNCHANGED hints, NEW q \in Requests,
         pc'[q] = pc[q], target'[q] = target[q], counted'[q] = counted[q], index'[q] = index[q],
         \A p \in Requests : pc'[p] = "commit" =>
            pc[p] = "commit" /\ target'[p] = target[p] /\ index'[p] = index[p]
  PROVE  Numbered(q)'
<1>1. Numbered(q)
  BY DEF IInv, NumberingInv, Numbered
<1>2. \A s : Count(s)' = Count(s) /\ Indices(s)' = Indices(s)
  BY DEF Count, Indices
<1>3. QED
  BY <1>1, <1>2 DEF Numbered, KeyIsTaken, KeyIsHeld

\* Steps that leave the table, and no request in its commit that was not there.
LEMMA QuietNumbering ==
  ASSUME IInv, UNCHANGED hints, NEW r \in Requests,
         \A q \in Requests \ {r} :
           /\ pc'[q] = pc[q] /\ target'[q] = target[q]
           /\ counted'[q] = counted[q] /\ index'[q] = index[q],
         pc'[r] # "commit",
         Numbered(r)'
  PROVE  NumberingInv'
<1>1. ASSUME NEW q \in Requests, q # r PROVE Numbered(q)'
  BY <1>1, OthersKeepNumber
<1>2. QED
  BY <1>1 DEF NumberingInv, Numbered

\* A commit leaves the numbers of the other requests right: one that waits for
\* its own commit is about another session, or two rows had the same key.
LEMMA CommitNumbering ==
  ASSUME IInv, [Next]_vars, NEW r \in Requests, Commits(r)
  PROVE  NumberingInv'
<1>1. /\ \A q \in Requests : Numbered(q) /\ target[q] \in Sessions
      /\ pc \in [Requests -> Steps \cup {"idle"}]
      /\ index \in [Requests -> Nat] /\ counted \in [Requests -> Nat]
  BY DEF IInv, NumberingInv, Numbered, TypeOK
<1>2. /\ UNCHANGED <<target, counted, index>>
      /\ \A q \in Requests \ {r} : pc'[q] = pc[q]
      /\ pc'[r] \in {"refresh", "idle"}
  BY <1>1 DEF Commits, local
<1>3. \A s \in Sessions : /\ Count(s) \in Nat /\ Count(s)' \in Nat
                          /\ Count(s)' >= Count(s)
  BY CountGrows
<1>4. ASSUME NEW q \in Requests, q = r PROVE Numbered(q)'
  BY <1>2, <1>4 DEF Numbered, Admitted
<1>5. ASSUME NEW q \in Requests, q # r PROVE Numbered(q)'
  <2>1. pc'[q] = pc[q] /\ target'[q] = target[q] /\ counted'[q] = counted[q] /\ index'[q] = index[q]
    BY <1>2, <1>5
  <2>2. PICK s \in Sessions : s = target[q]
    BY <1>1
  <2>3. /\ Count(s)' = Count(target[q])'
        /\ Count(s)' >= Count(target[q]) /\ Count(s)' \in Nat /\ Count(target[q]) \in Nat
    BY <1>3, <2>1, <2>2 DEF Count
  <2>4. (pc[q] \in Admitted => counted[q] <= Count(target[q]))'
    BY <1>1, <2>1, <2>3 DEF Numbered
  <2>5. (pc[q] \in {"insert", "commit"} => index[q] \in 1..(Count(target[q]) + 1))'
    BY <1>1, <2>1, <2>3 DEF Numbered
  <2>6. ASSUME pc'[q] = "commit" PROVE ~KeyIsTaken(q)' /\ ~KeyIsHeld(q)'
    <3>1. ~KeyIsTaken(q) /\ ~KeyIsHeld(q)
      BY <1>1, <2>1, <2>6 DEF Numbered
    <3>2. ~KeyIsHeld(q)'
      BY <1>2, <2>1, <3>1 DEF KeyIsHeld
    <3>3. ~(target[q] = target[r] /\ index[q] = index[r])
      BY <1>5, <3>1 DEF KeyIsHeld, Commits
    <3>4. index[q] # index[r] \/ target[q] # target[r]
      BY <3>3
    <3>5. hints'[target[q]] =
            IF target[q] = target[r] THEN hints[target[q]] \cup {NewRow(r)} ELSE hints[target[q]]
      BY <1>1 DEF IInv, TypeOK, Commits, Persist
    <3>6. ~KeyIsTaken(q)'
      BY <2>1, <3>1, <3>4, <3>5 DEF KeyIsTaken, Indices, NewRow
    <3>7. QED
      BY <3>2, <3>6
  <2>7. QED
    BY <2>4, <2>5, <2>6 DEF Numbered
<1>6. QED
  BY <1>4, <1>5 DEF NumberingInv, Numbered

LEMMA NumberingStep == IInv /\ [Next]_vars => NumberingInv'
<1> SUFFICES ASSUME IInv, [Next]_vars PROVE NumberingInv'
  OBVIOUS
<1> USE DEF local
<1>1. TypeOK /\ \A r \in Requests : Numbered(r) /\ target[r] \in Sessions
  BY DEF IInv, NumberingInv, Numbered, TypeOK
<1>2. \A s \in Sessions : Count(s) \in Nat
  BY <1>1, CountType
<1>3. ASSUME NEW r \in Requests, NEW s \in Sessions, Submit(r, s) PROVE NumberingInv'
  <2>1. Numbered(r)'
    BY <1>1, <1>3 DEF Submit, Numbered, Admitted, TypeOK
  <2>2. QED
    BY <1>1, <1>3, <2>1, QuietNumbering DEF Submit, TypeOK
<1>4. ASSUME NEW r \in Requests, Step(r) PROVE NumberingInv'
  <2>1. CASE LookUpSession(r) \/ ListPriorHints(r)
    <3>1. Numbered(r)'
      BY <1>1, <2>1 DEF LookUpSession, ListPriorHints, Numbered, Admitted, TypeOK
    <3>2. QED
      BY <1>1, <2>1, <3>1, QuietNumbering DEF LookUpSession, ListPriorHints, TypeOK
  <2>2. CASE CountPriorHints(r)
    <3>1. Numbered(r)'
      BY <1>1, <1>2, <2>2 DEF CountPriorHints, Numbered, Admitted, TypeOK, Count
    <3>2. QED
      BY <1>1, <2>2, <3>1, QuietNumbering DEF CountPriorHints, TypeOK
  <2>3. CASE RetrieveContext(r) \/ RetrieveDbError(r)
    <3>1. Numbered(r)'
      BY <1>1, <2>3 DEF RetrieveContext, RetrieveDbError, Numbered, Admitted, TypeOK, Count
    <3>2. QED
      BY <1>1, <2>3, <3>1, QuietNumbering DEF RetrieveContext, RetrieveDbError, TypeOK
  <2>4. CASE GenerateHint(r) \/ RegenerateHint(r)
    <3>1. Numbered(r)'
      BY <1>1, <1>2, <2>4 DEF GenerateHint, RegenerateHint, Numbered, Admitted, TypeOK, Count
    <3>2. QED
      BY <1>1, <2>4, <3>1, QuietNumbering DEF GenerateHint, RegenerateHint, TypeOK
  <2>5. CASE InsertHint(r)
    BY <1>1, <2>5 DEF InsertHint, NumberingInv, Numbered, Admitted, TypeOK, KeyIsTaken,
       KeyIsHeld, Count, Indices
  <2>6. CASE InsertIntoAborted(r) \/ InsertCollides(r)
    <3>1. Numbered(r)'
      BY <1>1, <2>6 DEF InsertIntoAborted, InsertCollides, Numbered, Admitted, TypeOK, Count
    <3>2. QED
      BY <1>1, <2>6, <3>1, QuietNumbering DEF InsertIntoAborted, InsertCollides, TypeOK
  <2>7. CASE RelistHints(r)
    <3>1. Numbered(r)'
      BY <1>1, <1>2, <2>7 DEF RelistHints, Numbered, Admitted, TypeOK, Count
    <3>2. QED
      BY <1>1, <2>7, <3>1, QuietNumbering DEF RelistHints, TypeOK
  <2>8. CASE CommitHint(r)
    BY <2>8, CommitNumbering DEF CommitHint, Commits
  <2>9. CASE RefreshHint(r)
    <3>1. Numbered(r)'
      BY <1>1, <2>9 DEF RefreshHint, Numbered, Admitted, TypeOK, Count
    <3>2. QED
      BY <1>1, <2>9, <3>1, QuietNumbering DEF RefreshHint, TypeOK
  <2>10. QED
    BY <1>4, <2>1, <2>2, <2>3, <2>4, <2>5, <2>6, <2>7, <2>8, <2>9 DEF Step
<1>5. ASSUME NEW r \in Requests, RequestFails(r) PROVE NumberingInv'
  <2>1. Numbered(r)'
    BY <1>1, <1>5 DEF RequestFails, Numbered, Admitted, TypeOK
  <2>2. QED
    BY <1>1, <1>5, <2>1, QuietNumbering DEF RequestFails, TypeOK
<1>6. ASSUME NEW r \in Requests, CommitUnacknowledged(r) PROVE NumberingInv'
  BY <1>6, CommitNumbering DEF CommitUnacknowledged, Commits
<1>7. CASE Crash
  BY <1>1, <1>7 DEF Crash, NumberingInv, Admitted
<1>8. CASE UNCHANGED vars
  BY <1>1, <1>8 DEF vars, NumberingInv, Numbered, KeyIsTaken, KeyIsHeld, Count, Indices
<1>9. QED
  BY <1>3, <1>4, <1>5, <1>6, <1>7, <1>8 DEF Next

-----------------------------------------------------------------------------
(* How far past the cap. *)

\* Only the cap check admits a request, and only below the cap.
LEMMA AdmissionStep == IInv /\ [Next]_vars => AdmissionInv'
<1> SUFFICES ASSUME IInv, [Next]_vars, NEW s \in Sessions
             PROVE  Count(s)' + Cardinality(InFlight(s))' <= MostHints
  BY DEF AdmissionInv, MostHints
<1> USE DEF local
<1>1. /\ TypeOK
      /\ Count(s) + Cardinality(InFlight(s)) <= MostHints
      /\ Count(s) \in Nat /\ MostHints \in Nat
  BY CountType, MostHintsType DEF IInv, AdmissionInv
<1>2. /\ IsFiniteSet(InFlight(s)) /\ Cardinality(InFlight(s)) \in Nat
      /\ Cardinality(InFlight(s)') \in Nat
      /\ Cardinality(InFlight(s)') <= Cardinality(Requests)
  <2>1. InFlight(s)' \in SUBSET Requests
    BY DEF InFlight
  <2>2. QED
    BY <2>1, InFlightType, FS_Subset, FS_CardinalityType, RequestsAssumption
<1>3. ASSUME UNCHANGED hints, InFlight(s)' \subseteq InFlight(s)
      PROVE  Count(s)' + Cardinality(InFlight(s))' <= MostHints
  <2>1. Cardinality(InFlight(s)') <= Cardinality(InFlight(s))
    BY <1>2, <1>3, FS_Subset
  <2>2. Count(s)' = Count(s)
    BY <1>3 DEF Count
  <2>3. QED
    BY <1>1, <1>2, <2>1, <2>2
<1>4. ASSUME NEW r \in Requests, Commits(r)
      PROVE  Count(s)' + Cardinality(InFlight(s))' <= MostHints
  <2>1. Count(s)' = IF s = target[r] THEN Count(s) + 1 ELSE Count(s)
    BY <1>4, CommitIsNext, PersistCounts DEF IInv, Commits
  <2>2. InFlight(s)' = InFlight(s) \ {r}
    BY <1>1, <1>4 DEF Commits, InFlight, Admitted, TypeOK
  <2>3. r \in InFlight(s) <=> s = target[r]
    BY <1>4 DEF InFlight, Admitted, Commits
  <2>4. Cardinality(InFlight(s)') =
          IF r \in InFlight(s) THEN Cardinality(InFlight(s)) - 1 ELSE Cardinality(InFlight(s))
    BY <1>2, <2>2, FS_RemoveElement
  <2>5. QED
    BY <1>1, <1>2, <2>1, <2>3, <2>4
<1>5. ASSUME NEW r \in Requests, CountPriorHints(r)
      PROVE  Count(s)' + Cardinality(InFlight(s))' <= MostHints
  <2>1. UNCHANGED <<hints, target>> /\ Count(s)' = Count(s)
    BY <1>5 DEF CountPriorHints, Count
  <2>2. CASE s = target[r] /\ Count(s) < MaxHints
    BY <1>1, <1>2, <2>1, <2>2, BoundsAssumption, FS_CardinalityType, RequestsAssumption DEF MostHints
  <2>3. CASE ~(s = target[r] /\ Count(s) < MaxHints)
    <3>1. InFlight(s)' \subseteq InFlight(s)
      BY <1>1, <1>5, <2>3, BoundsAssumption DEF CountPriorHints, InFlight, Admitted, TypeOK
    <3>2. QED
      BY <1>3, <2>1, <3>1
  <2>4. QED
    BY <2>2, <2>3
<1>6. ASSUME NEW r \in Requests, NEW t \in Sessions, Submit(r, t)
      PROVE  UNCHANGED hints /\ InFlight(s)' \subseteq InFlight(s)
  BY <1>1, <1>6 DEF Submit, InFlight, Admitted, TypeOK
<1>7. ASSUME NEW r \in Requests, Step(r), ~CountPriorHints(r), ~CommitHint(r)
      PROVE  UNCHANGED hints /\ InFlight(s)' \subseteq InFlight(s)
  <2>1. CASE LookUpSession(r) \/ ListPriorHints(r)
    BY <1>1, <2>1 DEF LookUpSession, ListPriorHints, InFlight, Admitted, TypeOK
  <2>2. CASE RetrieveContext(r) \/ RetrieveDbError(r)
    BY <1>1, <2>2 DEF RetrieveContext, RetrieveDbError, InFlight, Admitted, TypeOK
  <2>3. CASE GenerateHint(r) \/ RegenerateHint(r)
    BY <1>1, <2>3 DEF GenerateHint, RegenerateHint, InFlight, Admitted, TypeOK
  <2>4. CASE InsertHint(r) \/ InsertIntoAborted(r) \/ InsertCollides(r)
    BY <1>1, <2>4 DEF InsertHint, InsertIntoAborted, InsertCollides, InFlight, Admitted, TypeOK
  <2>5. CASE RelistHints(r) \/ RefreshHint(r)
    BY <1>1, <2>5 DEF RelistHints, RefreshHint, InFlight, Admitted, TypeOK
  <2>6. QED
    BY <1>7, <2>1, <2>2, <2>3, <2>4, <2>5 DEF Step
<1>8. ASSUME NEW r \in Requests, RequestFails(r)
      PROVE  UNCHANGED hints /\ InFlight(s)' \subseteq InFlight(s)
  BY <1>1, <1>8 DEF RequestFails, InFlight, Admitted, TypeOK
<1>9. ASSUME NEW r \in Requests, CommitHint(r) \/ CommitUnacknowledged(r) PROVE Commits(r)
  BY <1>9 DEF CommitHint, CommitUnacknowledged, Commits
<1>10. ASSUME Crash PROVE UNCHANGED hints /\ InFlight(s)' \subseteq InFlight(s)
  BY <1>1, <1>10 DEF Crash, InFlight, Admitted, TypeOK
<1>11. ASSUME UNCHANGED vars PROVE UNCHANGED hints /\ InFlight(s)' \subseteq InFlight(s)
  BY <1>11 DEF vars, InFlight
<1>12. QED
  BY <1>3, <1>4, <1>5, <1>6, <1>7, <1>8, <1>9, <1>10, <1>11 DEF Next

-----------------------------------------------------------------------------
(* The theorems. *)

\* The inductive invariant holds in every reachable state.
THEOREM Invariance == Spec => []IInv
<1>1. IInv /\ [Next]_vars => IInv'
  BY TypeStep, ContiguousStep, NumberingStep, AdmissionStep DEF IInv
<1>2. QED
  BY InitIInv, <1>1, PTL DEF Spec

\* Every variable of the service keeps its type.
THEOREM TypeCorrect == Spec => []TypeOK
<1>1. IInv => TypeOK
  BY DEF IInv
<1>2. QED
  BY <1>1, Invariance, PTL

\* generate_and_persist with its UNIQUE constraint and one retry numbers the
\* hints of every verifier session 1, 2, ..., n without a gap or a repeat.
THEOREM HintsAreContiguous == Spec => []Contiguous
<1>1. IInv => Contiguous
  BY DEF IInv
<1>2. QED
  BY <1>1, Invariance, PTL

\* The unlocked cap check lets a session overshoot the cap by one hint for
\* every concurrent request but the first, and never by more.
THEOREM CapOvershoot == Spec => []OvershootBound
<1>1. IInv => OvershootBound
  <2> SUFFICES ASSUME IInv, NEW s \in Sessions PROVE Count(s) <= MostHints
    BY DEF OvershootBound
  <2>1. Count(s) \in Nat /\ MostHints \in Nat /\ Cardinality(InFlight(s)) \in Nat
    BY CountType, MostHintsType, InFlightType DEF IInv
  <2>2. Count(s) + Cardinality(InFlight(s)) <= MostHints
    BY DEF IInv, AdmissionInv
  <2>3. QED
    BY <2>1, <2>2
<1>2. QED
  BY <1>1, Invariance, PTL

-----------------------------------------------------------------------------
(* What the clients are told, and what a row says of its prompt. *)

\* What AttemptInv and the three properties of the answers say of one request.
Attempted(r) ==
  /\ pc[r] \in {"lookup", "list", "count"} \cup Admitted => wrote[r] = 0 /\ reply[r] = "none"
  /\ pc[r] = "refresh" =>
       wrote[r] = 1 /\ \E h \in hints[target[r]] : h.index = index[r] /\ h.text = r
  /\ pc[r] = "count" => listed[r] <= Count(target[r])
  /\ pc[r] \in Admitted => listed[r] <= counted[r]
  /\ pc[r] \in {"lookup", "list", "count", "retrieve", "generate", "regenerate"} => attempt[r] = 0
  /\ pc[r] \in {"insert", "commit"} => index[r] > counted[r] + attempt[r]
  /\ pc[r] = "insert" /\ attempt[r] = 0 => index[r] = counted[r] + 1
  /\ pc[r] = "relist" => Count(target[r]) > counted[r] /\ attempt[r] = 1

Told(r) ==
  /\ reply[r] = "ok" =>
       wrote[r] = 1 /\ \E h \in hints[target[r]] : h.index = index[r] /\ h.text = r
  /\ reply[r] \in {"not_found", "passed", "limit", "malformed", "conflict"} => wrote[r] = 0
  /\ wrote[r] <= 1
  /\ reply[r] = "limit" => Count(target[r]) >= MaxHints
  /\ reply[r] = "conflict" => Count(target[r]) >= counted[r] + 2

LEMMA AnswersParts ==
  AnswersInv <=> PromptNeverAhead /\ \A r \in Requests : Attempted(r) /\ Told(r)
BY DEF AnswersInv, AttemptInv, Attempted, Told, SuccessIsDurable, RefusalLeavesNoRow,
   RefusalIsJustified

LEMMA InitAnswers == Init => AnswersInv
<1> SUFFICES ASSUME Init PROVE AnswersInv
  OBVIOUS
<1>1. PromptNeverAhead
  BY DEF Init, PromptNeverAhead
<1>2. \A r \in Requests : Attempted(r) /\ Told(r)
  BY DEF Init, Attempted, Told, Admitted
<1>3. QED
  BY <1>1, <1>2, AnswersParts

\* The rows that were there are still there.
LEMMA HintsGrow ==
  ASSUME IInv, [Next]_vars
  PROVE  \A s \in Sessions : hints[s] \subseteq hints'[s]
<1>1. CASE UNCHANGED hints
  BY <1>1
<1>2. ASSUME NEW r \in Requests, Commits(r) PROVE \A s \in Sessions : hints[s] \subseteq hints'[s]
  BY <1>2 DEF IInv, TypeOK, Commits, Persist
<1>3. QED
  BY <1>1, <1>2, TableStep DEF vars

\* What is true of a request stays true while it does not move.
LEMMA OthersKeepAnswer ==
  ASSUME IInv, [Next]_vars, NEW q \in Requests, Attempted(q), Told(q),
         pc'[q] = pc[q], target'[q] = target[q], listed'[q] = listed[q],
         counted'[q] = counted[q], index'[q] = index[q], attempt'[q] = attempt[q],
         wrote'[q] = wrote[q], reply'[q] = reply[q]
  PROVE  Attempted(q)' /\ Told(q)'
<1>1. PICK s \in Sessions : s = target[q]
  BY DEF IInv, TypeOK
<1>2. Count(s) \in Nat /\ Count(s)' \in Nat /\ Count(s)' >= Count(s) /\ hints[s] \subseteq hints'[s]
  BY CountGrows, HintsGrow
<1>3. Count(target[q])' = Count(s)' /\ hints'[target'[q]] = hints'[s]
  BY <1>1 DEF Count
<1>4. listed[q] \in Nat /\ counted[q] \in Nat /\ index[q] \in Nat /\ attempt[q] \in {0, 1}
  BY DEF IInv, TypeOK
<1>5. Attempted(q)'
  BY <1>1, <1>2, <1>3, <1>4 DEF Attempted
<1>6. Told(q)'
  BY <1>1, <1>2, <1>3, <1>4, BoundsAssumption DEF Told
<1>7. QED
  BY <1>5, <1>6

\* The row of a commit: its prompt was no newer than its count.
LEMMA CommitIsDurable ==
  ASSUME IInv, NEW r \in Requests, Commits(r), Attempted(r), PromptNeverAhead
  PROVE  /\ PromptNeverAhead'
         /\ wrote'[r] = 1
         /\ \E h \in hints'[target'[r]] : h.index = index'[r] /\ h.text = r
         /\ reply[r] = "none"
<1>1. TypeOK /\ target[r] \in Sessions
  BY DEF IInv, TypeOK
<1>2. \A s \in Sessions : hints'[s] =
        IF s = target[r] THEN hints[s] \cup {NewRow(r)} ELSE hints[s]
  BY <1>1 DEF TypeOK, Commits, Persist
<1>3. listed[r] <= counted[r] /\ index[r] > counted[r] + attempt[r] /\ wrote[r] = 0
  BY DEF Attempted, Commits, Admitted
<1>4. listed[r] \in Nat /\ counted[r] \in Nat /\ index[r] \in Nat /\ attempt[r] \in {0, 1}
  BY <1>1 DEF TypeOK
<1>5. \/ NewRow(r).prior < NewRow(r).index
      \/ NewRow(r).prior = 1 /\ NewRow(r).index = 1 /\ target[r] \in Diagnosed
  BY <1>3, <1>4 DEF NewRow, PriorHintsCount, Seeded
<1>6. PromptNeverAhead'
  BY <1>2, <1>5 DEF PromptNeverAhead
<1>7. wrote'[r] = 1 /\ target'[r] = target[r] /\ index'[r] = index[r]
  BY <1>1, <1>3 DEF TypeOK, Commits, Persist, local
<1>8. NewRow(r).index = index[r] /\ NewRow(r).text = r
  BY DEF NewRow
<1>9. QED
  BY <1>1, <1>2, <1>6, <1>7, <1>8 DEF Attempted, Commits, Admitted

\* A request whose step leaves the table alone.
LEMMA StepAnswers ==
  ASSUME IInv, NEW r \in Requests, Step(r), UNCHANGED hints, Attempted(r), Told(r)
  PROVE  Attempted(r)' /\ Told(r)'
<1> USE DEF local, Admitted
<1>1. TypeOK /\ target[r] \in Sessions /\ Count(target[r]) \in Nat
  BY CountType DEF IInv, TypeOK
<1>2. listed[r] \in Nat /\ counted[r] \in Nat /\ index[r] \in Nat /\ attempt[r] \in {0, 1}
  BY <1>1 DEF TypeOK
<1>3. CASE LookUpSession(r)
  BY <1>1, <1>2, <1>3 DEF LookUpSession, Attempted, Told, TypeOK
<1>4. CASE ListPriorHints(r)
  BY <1>1, <1>2, <1>4 DEF ListPriorHints, Attempted, Told, TypeOK, Count
<1>5. CASE CountPriorHints(r)
  <2>1. Attempted(r)'
    <3>1. pc'[r] \in {"idle", "retrieve"} /\ (pc'[r] = "retrieve" => reply'[r] = reply[r])
      BY <1>1, <1>5 DEF CountPriorHints, TypeOK
    <3>2. /\ counted'[r] = Count(target[r]) /\ listed[r] <= Count(target[r])
          /\ wrote[r] = 0 /\ reply[r] = "none" /\ attempt[r] = 0
      BY <1>1, <1>5 DEF CountPriorHints, Attempted, TypeOK
    <3>3. UNCHANGED <<target, listed, attempt, wrote>>
      BY <1>5 DEF CountPriorHints
    <3>4. QED
      BY <3>1, <3>2, <3>3 DEF Attempted
  <2>2. Told(r)'
    BY <1>1, <1>2, <1>5, BoundsAssumption DEF CountPriorHints, Attempted, Told, TypeOK, Count
  <2>3. QED
    BY <2>1, <2>2
<1>6. CASE RetrieveContext(r) \/ RetrieveDbError(r)
  BY <1>1, <1>2, <1>6 DEF RetrieveContext, RetrieveDbError, Attempted, Told, TypeOK
<1>7. CASE GenerateHint(r) \/ RegenerateHint(r)
  BY <1>1, <1>2, <1>7 DEF GenerateHint, RegenerateHint, Attempted, Told, TypeOK
<1>8. CASE InsertHint(r) \/ InsertIntoAborted(r)
  BY <1>1, <1>2, <1>8 DEF InsertHint, InsertIntoAborted, Attempted, Told, TypeOK
<1>9. CASE InsertCollides(r)
  <2>1. index[r] <= Count(target[r])
    BY <1>1, <1>9 DEF InsertCollides, KeyIsTaken, IInv, Contiguous
  <2>2. Count(target[r])' = Count(target[r])
    BY <1>9 DEF InsertCollides, Count
  <2>3. Attempted(r)'
    BY <1>1, <1>2, <1>9, <2>1, <2>2 DEF InsertCollides, Attempted, TypeOK
  <2>4. Told(r)'
    BY <1>1, <1>2, <1>9, <2>1, <2>2 DEF InsertCollides, Attempted, Told, TypeOK
  <2>5. QED
    BY <2>3, <2>4
<1>10. CASE RelistHints(r)
  BY <1>1, <1>2, <1>10 DEF RelistHints, Attempted, Told, TypeOK
<1>11. CASE CommitHint(r)
  <2>1. NewRow(r) \in hints[target[r]]
    BY <1>1, <1>11 DEF CommitHint, Persist, TypeOK
  <2>2. KeyIsTaken(r)
    BY <2>1 DEF KeyIsTaken, Indices, NewRow
  <2>3. QED
    BY <1>11, <2>2 DEF CommitHint, IInv, NumberingInv
<1>12. CASE RefreshHint(r)
  BY <1>1, <1>2, <1>12 DEF RefreshHint, Attempted, Told, TypeOK
<1>13. QED
  BY <1>3, <1>4, <1>5, <1>6, <1>7, <1>8, <1>9, <1>10, <1>11, <1>12 DEF Step

LEMMA AnswersStep == IInv /\ AnswersInv /\ [Next]_vars => AnswersInv'
<1> SUFFICES ASSUME IInv, AnswersInv, [Next]_vars PROVE AnswersInv'
  OBVIOUS
<1> USE DEF local
<1>1. TypeOK /\ PromptNeverAhead /\ \A q \in Requests : Attempted(q) /\ Told(q)
  BY AnswersParts DEF IInv
<1>2. SUFFICES PromptNeverAhead' /\ \A q \in Requests : Attempted(q)' /\ Told(q)'
  BY DEF AnswersInv, AttemptInv, Attempted, Told, SuccessIsDurable, RefusalLeavesNoRow,
     RefusalIsJustified
<1>3. ASSUME UNCHANGED hints PROVE PromptNeverAhead'
  BY <1>1, <1>3 DEF PromptNeverAhead
<1>4. ASSUME NEW r \in Requests, NEW q \in Requests, q # r,
             \/ \E s \in Sessions : Submit(r, s)
             \/ Step(r) \/ RequestFails(r) \/ CommitUnacknowledged(r)
      PROVE  Attempted(q)' /\ Told(q)'
  <2>1. /\ pc'[q] = pc[q] /\ target'[q] = target[q] /\ listed'[q] = listed[q]
        /\ counted'[q] = counted[q] /\ index'[q] = index[q] /\ attempt'[q] = attempt[q]
        /\ wrote'[q] = wrote[q] /\ reply'[q] = reply[q]
    BY <1>1, <1>4 DEF TypeOK, Submit, RequestFails, CommitUnacknowledged, Persist, Step,
       LookUpSession, ListPriorHints, CountPriorHints, RetrieveContext, RetrieveDbError,
       GenerateHint, RegenerateHint, InsertHint, InsertIntoAborted, InsertCollides, RelistHints,
       CommitHint, RefreshHint
  <2>2. QED
    BY <1>1, <2>1, OthersKeepAnswer
<1>5. ASSUME NEW r \in Requests, NEW s \in Sessions, Submit(r, s)
      PROVE  UNCHANGED hints /\ Attempted(r)' /\ Told(r)'
  BY <1>1, <1>5 DEF Submit, Attempted, Told, Admitted, TypeOK
<1>6. ASSUME NEW r \in Requests, Step(r), ~Commits(r)
      PROVE  UNCHANGED hints /\ Attempted(r)' /\ Told(r)'
  <2>1. UNCHANGED hints
    BY <1>6 DEF Step, LookUpSession, ListPriorHints, CountPriorHints, RetrieveContext,
       RetrieveDbError, GenerateHint, RegenerateHint, InsertHint, InsertIntoAborted,
       InsertCollides, RelistHints, CommitHint, RefreshHint, Commits
  <2>2. QED
    BY <1>1, <1>6, <2>1, StepAnswers
<1>7. ASSUME NEW r \in Requests, RequestFails(r)
      PROVE  UNCHANGED hints /\ Attempted(r)' /\ Told(r)'
  <2>1. UNCHANGED hints /\ Attempted(r)'
    BY <1>1, <1>7 DEF RequestFails, Attempted, Admitted, TypeOK
  <2>2. Told(r)'
    BY <1>1, <1>7 DEF RequestFails, Told, TypeOK
  <2>3. QED
    BY <2>1, <2>2
<1>8. ASSUME NEW r \in Requests, Commits(r), Step(r) \/ CommitUnacknowledged(r)
      PROVE  PromptNeverAhead' /\ Attempted(r)' /\ Told(r)'
  <2>1. /\ PromptNeverAhead' /\ wrote'[r] = 1 /\ reply[r] = "none"
        /\ \E h \in hints'[target'[r]] : h.index = index'[r] /\ h.text = r
    BY <1>1, <1>8, CommitIsDurable
  <2>2. pc'[r] \in {"refresh", "idle"}
    BY <1>1, <1>8 DEF TypeOK, Commits
  <2>3. reply'[r] \in {"none", "error"}
    BY <1>1, <1>8, <2>1 DEF TypeOK, Commits, CommitUnacknowledged, Step, LookUpSession,
       ListPriorHints, CountPriorHints, RetrieveContext, RetrieveDbError, GenerateHint,
       RegenerateHint, InsertHint, InsertIntoAborted, InsertCollides, RelistHints, CommitHint,
       RefreshHint
  <2>4. Attempted(r)' /\ Told(r)'
    BY <2>1, <2>2, <2>3 DEF Attempted, Told, Admitted
  <2>5. QED
    BY <2>1, <2>4
<1>9. ASSUME NEW r \in Requests, CommitUnacknowledged(r) PROVE Commits(r)
  BY <1>9 DEF CommitUnacknowledged, Commits
<1>10. CASE Crash
  <2>1. PromptNeverAhead'
    BY <1>3, <1>10 DEF Crash
  <2>2. ASSUME NEW q \in Requests PROVE Attempted(q)' /\ Told(q)'
    BY <1>1, <1>10, <2>2 DEF Crash, Attempted, Told, Admitted, TypeOK, Count
  <2>3. QED
    BY <2>1, <2>2
<1>11. CASE UNCHANGED vars
  BY <1>1, <1>3, <1>11, OthersKeepAnswer DEF vars
<1>12. QED
  BY <1>3, <1>4, <1>5, <1>6, <1>7, <1>8, <1>9, <1>10, <1>11 DEF Next

LEMMA AnswersInvariance == Spec => []AnswersInv
BY InitAnswers, AnswersStep, Invariance, PTL DEF Spec

\* What a row says of its prompt is never more than was in the table before it.
THEOREM ProvenanceIsHonest == Spec => []PromptNeverAhead
<1>1. AnswersInv => PromptNeverAhead
  BY DEF AnswersInv
<1>2. QED
  BY <1>1, AnswersInvariance, PTL

\* A 200 names a row of the request's own making that stays in the table.
THEOREM SuccessDurability == Spec => []SuccessIsDurable
<1>1. AnswersInv => SuccessIsDurable
  BY DEF AnswersInv
<1>2. QED
  BY <1>1, AnswersInvariance, PTL

\* No refusal costs the student a hint, and no request writes two.
THEOREM RefusalsAreFree == Spec => []RefusalLeavesNoRow
<1>1. AnswersInv => RefusalLeavesNoRow
  BY DEF AnswersInv
<1>2. QED
  BY <1>1, AnswersInvariance, PTL

\* A 429 is given at the cap only, and a 409 only to a request that two others
\* have overtaken.
THEOREM RefusalsAreJustified == Spec => []RefusalIsJustified
<1>1. AnswersInv => RefusalIsJustified
  BY DEF AnswersInv
<1>2. QED
  BY <1>1, AnswersInvariance, PTL

-----------------------------------------------------------------------------
(* Refinement. *)

\* Every position of a ledger is a row of the table.
LEMMA RowAtPosition ==
  ASSUME IInv, NEW s \in Sessions, NEW i \in 1..Count(s)
  PROVE  RowAt(s, i) \in hints[s] /\ RowAt(s, i).index = i
<1>1. i \in Indices(s)
  BY DEF IInv, Contiguous
<1>2. \E h \in hints[s] : h.index = i
  BY <1>1 DEF Indices
<1>3. QED
  BY <1>2 DEF RowAt

LEMMA LedgerType ==
  ASSUME IInv, NEW s \in Sessions
  PROVE  Ledger[s] \in Seq(Requests) /\ Len(Ledger[s]) = Count(s)
<1>1. Count(s) \in Nat
  BY CountType DEF IInv
<1>2. \A i \in 1..Count(s) : RowAt(s, i).text \in Requests
  BY RowAtPosition DEF IInv, TypeOK, Row
<1>3. Ledger[s] = [i \in 1..Count(s) |-> RowAt(s, i).text]
  BY DEF Ledger
<1>4. QED
  BY <1>1, <1>2, <1>3

\* A commit appends the hint of its request to the ledger of its session.
LEMMA CommitAppends ==
  ASSUME IInv, IInv', NEW r \in Requests, Commits(r)
  PROVE  Abstract!AddHint(target[r], r)
<1>1. PICK t \in Sessions : t = target[r]
  BY DEF IInv, TypeOK
<1>2. index[r] = Count(t) + 1 /\ ~KeyIsTaken(r) /\ Count(t) \in Nat
  BY <1>1, CommitIsNext, CountType DEF IInv
<1>3. \A s \in Sessions :
        /\ Count(s)' = IF s = t THEN Count(s) + 1 ELSE Count(s)
        /\ hints'[s] = IF s = t THEN hints[s] \cup {NewRow(r)} ELSE hints[s]
  BY <1>1, <1>2, PersistCounts DEF IInv, TypeOK, Commits, Persist
<1>4. PICK n \in Nat : n = Count(t)
  BY <1>2
<1>5. Len(Ledger[t]) < MostHints
  <2>1. Count(t)' + Cardinality(InFlight(t))' <= MostHints
    BY DEF IInv, AdmissionInv, MostHints
  <2>2. InFlight(t)' \in SUBSET Requests
    BY DEF InFlight
  <2>3. Cardinality(InFlight(t))' \in Nat
    BY <2>2, FS_Subset, FS_CardinalityType, RequestsAssumption
  <2>4. Count(t)' = n + 1
    BY <1>3, <1>4
  <2>5. n < MostHints
    BY <2>1, <2>3, <2>4, MostHintsType
  <2>6. QED
    BY <1>4, <2>5, LedgerType
<1>6. \A s \in Sessions : Ledger'[s] = IF s = t THEN Append(Ledger[s], r) ELSE Ledger[s]
  <2>1. ASSUME NEW s \in Sessions, s # t PROVE Ledger'[s] = Ledger[s]
    <3>1. Count(s)' = Count(s) /\ hints'[s] = hints[s]
      BY <1>3, <2>1
    <3>2. \A i : RowAt(s, i)' = RowAt(s, i)
      BY <3>1 DEF RowAt
    <3>3. QED
      BY <3>1, <3>2 DEF Ledger
  <2>2. Ledger'[t] = [i \in 1..(n + 1) |-> RowAt(t, i)'.text]
    BY <1>3, <1>4 DEF Ledger
  <2>3. \A i \in 1..(n + 1) : \A g, h \in hints'[t] : g.index = i /\ h.index = i => g = h
    BY DEF IInv, Contiguous
  <2>4. ASSUME NEW i \in 1..n PROVE RowAt(t, i)' = RowAt(t, i)
    <3>1. RowAt(t, i) \in hints'[t] /\ RowAt(t, i).index = i
      BY <1>3, <1>4, RowAtPosition
    <3>2. QED
      BY <1>4, <2>3, <3>1 DEF RowAt
  <2>5. ASSUME NEW i, i = n + 1 PROVE RowAt(t, i)' = NewRow(r)
    <3>1. NewRow(r) \in hints'[t] /\ NewRow(r).index = i
      BY <1>2, <1>3, <1>4, <2>5 DEF NewRow
    <3>2. \A g \in hints'[t] : g.index = i => g = NewRow(r)
      BY <1>4, <2>3, <2>5, <3>1
    <3>3. QED
      BY <3>1, <3>2 DEF RowAt
  <2>6. NewRow(r).text = r
    BY DEF NewRow
  <2>7. Ledger[t] = [i \in 1..n |-> RowAt(t, i).text] /\ Len(Ledger[t]) = n
    BY <1>4, LedgerType DEF Ledger
  <2>8. Ledger[t] \in Seq(Requests)
    BY LedgerType
  <2>9. Append(Ledger[t], r) = [i \in 1..(n + 1) |-> IF i = n + 1 THEN r ELSE Ledger[t][i]]
    BY <1>4, <2>7, <2>8
  <2>10. ASSUME NEW i \in 1..(n + 1)
         PROVE  RowAt(t, i)'.text = IF i = n + 1 THEN r ELSE Ledger[t][i]
    BY <1>4, <2>4, <2>5, <2>6, <2>7
  <2>11. QED
    BY <2>1, <2>2, <2>9, <2>10
<1>7. Ledger' = [Ledger EXCEPT ![t] = Append(@, r)]
  BY <1>6 DEF Ledger
<1>8. QED
  BY <1>1, <1>5, <1>7 DEF Abstract!AddHint

\* The hint service, with its races, retries and faults, implements the
\* append-only bounded ledger of HintLedger.
THEOREM Refinement == Spec => ImplementsLedger
<1>1. Init => Abstract!Init
  <2> SUFFICES ASSUME Init PROVE Abstract!Init
    OBVIOUS
  <2>1. \A s \in Sessions : Count(s) = 0
    BY FS_EmptySet DEF Init, Count
  <2>2. \A s \in Sessions : [i \in 1..Count(s) |-> RowAt(s, i).text] = <<>>
    BY <2>1
  <2>3. QED
    BY <2>2 DEF Abstract!Init, Ledger
<1>2. IInv /\ IInv' /\ [Next]_vars => [Abstract!Next]_Ledger
  <2> SUFFICES ASSUME IInv, IInv', [Next]_vars PROVE [Abstract!Next]_Ledger
    OBVIOUS
  <2>1. CASE UNCHANGED hints
    BY <2>1 DEF Ledger, RowAt, Count
  <2>2. ASSUME NEW r \in Requests, Commits(r) PROVE Abstract!Next
    BY <2>2, CommitAppends DEF Abstract!Next, IInv, TypeOK
  <2>3. QED
    BY <2>1, <2>2, TableStep DEF vars
<1>3. QED
  BY <1>1, <1>2, Invariance, PTL DEF Spec, ImplementsLedger, Abstract!Spec
=============================================================================
