-------------------------- MODULE WardReviewProofs ---------------------------
(***************************************************************************)
(* Proofs about the review cycle of the wards, for every number of pupils,  *)
(* contents, classifications and wards.                                     *)
(***************************************************************************)
EXTENDS WardReview, TLAPS

\* The two kinds of row differ in their status, and what a live row holds.
LEMMA RowFacts ==
  /\ AbsentWard \in WardRow
  /\ AbsentWard.status \notin Status
  /\ AbsentWard.prev = NoWard
  /\ AbsentWard.student \notin Students
  /\ \A row \in WardRow : row.status # "absent" => row \in LiveRow
  /\ \A row \in WardRow : row.status \in Status => row \in LiveRow
  /\ \A row \in LiveRow : row.status \in Status /\ row.status # "absent"
  BY WardsConstants
  DEF AbsentWard, WardRow, LiveRow, Status, Editable, Decided, NoWard

\* An edit writes one live row, of the same pupil and with the same past.
LEMMA EditWritesRow ==
  ASSUME TypeOK, NEW w \in WardIds, Edit(w)
  PROVE  /\ ward[w] \in LiveRow
         /\ \E row \in LiveRow : /\ ward' = [ward EXCEPT ![w] = row]
                                 /\ row.student = ward[w].student
                                 /\ row.prev = ward[w].prev
<1>1. ward[w] \in LiveRow
  BY RowFacts DEF Edit, TypeOK, Status
<1>2. PICK c \in Contents, k \in Tracks \cup {Nothing} :
        ward' = [ward EXCEPT ![w].content = c, ![w].track = k,
                             ![w].status = "new", ![w].graded = FALSE]
  BY DEF Edit
<1> DEFINE row == [ward[w] EXCEPT !.content = c, !.track = k,
                                  !.status = "new", !.graded = FALSE]
<1>3. row \in LiveRow /\ row.student = ward[w].student /\ row.prev = ward[w].prev
  BY <1>1 DEF LiveRow, Status, Editable
<1>4. ward' = [ward EXCEPT ![w] = row]
  BY <1>2 DEF TypeOK
<1> QED BY <1>1, <1>3, <1>4

\* A step keeps every row a row.
LEMMA TypePreserved ==
  ASSUME TypeOK, [Next]_ward
  PROVE  TypeOK'
<1>1. CASE UNCHANGED ward
  BY <1>1 DEF TypeOK
<1>2. ASSUME NEW w \in WardIds, Step(w) PROVE TypeOK'
  <2>1. CASE Record(w)
    BY <2>1 DEF Record, TypeOK, WardRow
  <2>3. CASE Edit(w)
    BY <2>3, EditWritesRow DEF TypeOK, WardRow
  <2>4. CASE Classify(w)
    <3>1. ward[w] \in LiveRow
      BY <2>4, RowFacts DEF Classify, TypeOK, Status
    <3> QED BY <2>4, <3>1 DEF Classify, TypeOK, LiveRow, WardRow
  <2>5. CASE Remove(w)
    BY <2>5, RowFacts DEF Remove, TypeOK
  <2>6. CASE Review(w)
    <3>1. ward[w] \in LiveRow
      BY <2>6, RowFacts DEF Review, Exists, TypeOK
    <3> QED BY <2>6, <3>1 DEF Review, TypeOK, LiveRow, WardRow
  <2>7. CASE Grade(w)
    <3>1. ward[w] \in LiveRow
      BY <2>7, RowFacts DEF Grade, Exists, TypeOK
    <3> QED BY <2>7, <3>1 DEF Grade, TypeOK, LiveRow, WardRow
  <2> QED BY <1>2, <2>1, <2>3, <2>4, <2>5, <2>6, <2>7 DEF Step
<1> QED BY <1>1, <1>2 DEF Next

\* Every row of the table is a live row or the absent one.
THEOREM TypeCorrect == Spec => []TypeOK
<1>1. Init => TypeOK
  BY RowFacts DEF Init, TypeOK
<1> QED BY <1>1, TypePreserved, PTL DEF Spec

-----------------------------------------------------------------------------
\* A step on a live ward that stays leaves its pupil and its predecessor.
LEMMA IdentityKept ==
  ASSUME TypeOK, NEW w \in WardIds, Edit(w) \/ Classify(w) \/ Review(w) \/ Grade(w)
  PROVE  /\ ward[w] \in LiveRow
         /\ ward'[w].student = ward[w].student
         /\ ward'[w].prev = ward[w].prev
         /\ ward'[w].status \in Status
         /\ \A v \in WardIds \ {w} : ward'[v] = ward[v]
<1>1. ward[w] \in LiveRow
  BY RowFacts DEF TypeOK, Edit, Classify, Review, Grade, Exists, Status
<1>2. CASE Edit(w)
  BY <1>1, <1>2, EditWritesRow DEF TypeOK, LiveRow
<1>3. CASE Classify(w)
  BY <1>1, <1>3 DEF Classify, TypeOK, LiveRow
<1>4. CASE Review(w)
  BY <1>1, <1>4 DEF Review, TypeOK, LiveRow
<1>5. CASE Grade(w)
  BY <1>1, <1>5 DEF Grade, TypeOK, LiveRow
<1> QED BY <1>1, <1>2, <1>3, <1>4, <1>5

\* The chain of attempts ends, stays with one pupil and never dangles.
THEOREM ChainCorrect == Spec => []ChainWellFounded
<1>1. Init => ChainWellFounded
  BY RowFacts DEF Init, ChainWellFounded
<1>2. TypeOK /\ TypeOK' /\ ChainWellFounded /\ [Next]_ward => ChainWellFounded'
  <2> SUFFICES ASSUME TypeOK, TypeOK', ChainWellFounded, [Next]_ward
               PROVE  ChainWellFounded'
    OBVIOUS
  <2>1. CASE UNCHANGED ward
    BY <2>1 DEF ChainWellFounded, Exists
  <2>2. ASSUME NEW w \in WardIds, Step(w) PROVE ChainWellFounded'
    <3> SUFFICES ASSUME NEW v \in WardIds, ward'[v].prev # NoWard
                 PROVE  /\ ward'[v].prev < v
                        /\ Exists(ward[v].prev)'
                        /\ ward'[ward'[v].prev].student = ward'[v].student
      BY DEF ChainWellFounded
    <3>1. CASE Record(w)
      <4>1. PICK row \in LiveRow : /\ MayFollow(w, row.student, row.prev)
                                   /\ ward' = [ward EXCEPT ![w] = row]
        BY <3>1 DEF Record
      <4>2. CASE v = w
        <5>1. ward'[v] = row
          BY <4>1, <4>2 DEF TypeOK
        <5>2. row.prev \in 1..(w - 1) /\ ward[row.prev].student = row.student
          BY <4>1, <5>1 DEF MayFollow
        <5>3. row.prev \in WardIds /\ row.prev < w
          BY <5>2, WardsConstants DEF WardIds
        <5>4. ward'[row.prev] = ward[row.prev]
          BY <4>1, <5>3 DEF TypeOK, WardIds
        <5>5. ward[row.prev].student \in Students
          BY <5>2 DEF LiveRow
        <5>6. ward[row.prev].status # "absent"
          BY <5>3, <5>5, RowFacts DEF TypeOK, WardRow
        <5> QED BY <4>2, <5>1, <5>2, <5>3, <5>4, <5>6 DEF Exists
      <4>3. CASE v # w
        <5>1. ward'[v] = ward[v]
          BY <4>1, <4>3 DEF TypeOK
        <5>2. /\ ward[v].prev < v
              /\ Exists(ward[v].prev)
              /\ ward[ward[v].prev].student = ward[v].student
          BY <5>1 DEF ChainWellFounded
        <5>3. ward[v].prev # w
          BY <3>1, <5>2 DEF Record
        <5>4. ward'[ward[v].prev] = ward[ward[v].prev]
          BY <4>1, <5>3 DEF TypeOK
        <5> QED BY <5>1, <5>2, <5>4 DEF Exists
      <4> QED BY <4>2, <4>3
    <3>2. CASE Remove(w)
      <4>1. v # w
        BY <3>2, RowFacts DEF Remove, TypeOK
      <4>2. ward'[v] = ward[v]
        BY <3>2, <4>1 DEF Remove, TypeOK
      <4>3. ward[v].prev # w
        BY <3>2 DEF Remove
      <4>4. ward'[ward[v].prev] = ward[ward[v].prev]
        BY <3>2, <4>3 DEF Remove, TypeOK
      <4> QED BY <4>2, <4>4 DEF ChainWellFounded, Exists
    <3>3. CASE Edit(w) \/ Classify(w) \/ Review(w) \/ Grade(w)
      <4>1. /\ ward[w] \in LiveRow
            /\ ward'[w].student = ward[w].student
            /\ ward'[w].prev = ward[w].prev
            /\ ward'[w].status \in Status
            /\ \A u \in WardIds \ {w} : ward'[u] = ward[u]
        BY <3>3, IdentityKept
      <4>2. ward'[v].prev = ward[v].prev /\ ward'[v].student = ward[v].student
        BY <4>1
      <4>3. /\ ward[v].prev < v
            /\ Exists(ward[v].prev)
            /\ ward[ward[v].prev].student = ward[v].student
        BY <4>2 DEF ChainWellFounded
      <4>4. ward[v].prev \in WardIds
        BY <4>2, RowFacts DEF TypeOK, WardRow, LiveRow
      <4>5. ward'[ward[v].prev].student = ward[ward[v].prev].student
        BY <4>1, <4>4
      <4>6. Exists(ward[v].prev)'
        BY <4>1, <4>2, <4>3, <4>4 DEF Exists, Status, Editable, Decided
      <4> QED BY <4>2, <4>3, <4>5, <4>6
    <3> QED BY <2>2, <3>1, <3>2, <3>3 DEF Step
  <2> QED BY <2>1, <2>2 DEF Next
<1> QED BY <1>1, <1>2, TypeCorrect, PTL DEF Spec

-----------------------------------------------------------------------------
\* No step takes a decided ward away or changes what it records.
THEOREM DecidedFrozen == Spec => DecidedIsFrozen
<1> DEFINE Frozen == \A w \in WardIds : ward[w].status \in Decided =>
                       /\ ward'[w].status \in Status
                       /\ ward'[w].content = ward[w].content
                       /\ ward'[w].track = ward[w].track
                       /\ ward'[w].prev = ward[w].prev
<1>1. TypeOK /\ [Next]_ward => [Frozen]_ward
  <2> SUFFICES ASSUME TypeOK, NEW u \in WardIds, Step(u),
                      NEW w \in WardIds, ward[w].status \in Decided
               PROVE  /\ ward'[w].status \in Status
                      /\ ward'[w].content = ward[w].content
                      /\ ward'[w].track = ward[w].track
                      /\ ward'[w].prev = ward[w].prev
    BY DEF Next
  <2>1. ward[w] \in LiveRow /\ ward[w].status \notin Editable
    BY RowFacts DEF TypeOK, Status, Editable, Decided
  <2>2. CASE Record(u)
    <3>1. u # w
      BY <2>1, <2>2, RowFacts DEF Record, Exists
    <3> QED BY <2>1, <2>2, <3>1 DEF Record, TypeOK, LiveRow
  <2>3. CASE Remove(u)
    BY <2>1, <2>3 DEF Remove, TypeOK, LiveRow
  <2>4. CASE Edit(u)
    BY <2>1, <2>4 DEF Edit, TypeOK, LiveRow
  <2>5. CASE Classify(u)
    BY <2>1, <2>5 DEF Classify, TypeOK, LiveRow
  <2>6. CASE Review(u)
    BY <2>1, <2>6 DEF Review, TypeOK, LiveRow
  <2>7. CASE Grade(u)
    BY <2>1, <2>7 DEF Grade, TypeOK, LiveRow
  <2> QED BY <2>2, <2>3, <2>4, <2>5, <2>6, <2>7 DEF Step
<1> QED BY <1>1, TypeCorrect, PTL DEF Spec, DecidedIsFrozen

\* Once approved, a ward leaves the approval by the look or the note of a teacher and never
\* by the pupil: it is not new again, and not gone.
ApprovalEnds ==
  [][\A w \in WardIds : ward[w].status = "approved" =>
       ward'[w].status \in {"approved", "needs_revision", "seen"}]_ward

\* No step makes an approved ward new.
THEOREM ApprovalEndedByTeacher == Spec => ApprovalEnds
<1>1. TypeOK /\ [Next]_ward =>
        [\A w \in WardIds : ward[w].status = "approved" =>
           ward'[w].status \in {"approved", "needs_revision", "seen"}]_ward
  <2> SUFFICES ASSUME TypeOK, NEW u \in WardIds, Step(u),
                      NEW w \in WardIds, ward[w].status = "approved"
               PROVE  ward'[w].status \in {"approved", "needs_revision", "seen"}
    BY DEF Next
  <2>1. ward[w] \in LiveRow /\ ward[w].status \notin Editable
    BY RowFacts DEF TypeOK, Editable
  <2>2. CASE Record(u)
    <3>1. u # w
      BY <2>1, <2>2, RowFacts DEF Record, Exists
    <3> QED BY <2>1, <2>2, <3>1 DEF Record, TypeOK, LiveRow
  <2>3. CASE Remove(u) \/ Edit(u) \/ Classify(u)
    BY <2>1, <2>3 DEF Remove, Edit, Classify, TypeOK, LiveRow
  <2>4. CASE Review(u)
    BY <2>1, <2>4 DEF Review, TypeOK, LiveRow, Status, Editable, Decided
  <2>5. CASE Grade(u)
    BY <2>1, <2>5 DEF Grade, TypeOK, LiveRow
  <2> QED BY <2>2, <2>3, <2>4, <2>5 DEF Step
<1> QED BY <1>1, TypeCorrect, PTL DEF Spec, ApprovalEnds

=============================================================================
