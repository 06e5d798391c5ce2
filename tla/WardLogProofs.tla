---------------------------- MODULE WardLogProofs ----------------------------
(***************************************************************************)
(* Proofs about WardLog, for every number of pupils, contents, requests in  *)
(* flight and wards: its types, its inductive invariant IInv, and that the  *)
(* committed rows implement WardReview, from which the properties proved    *)
(* there follow for the code.                                               *)
(***************************************************************************)
EXTENDS WardLog, TLAPS

IInv == TypeOK /\ RequestsOK /\ BuddyAnswersForSelf

\* A row that is not absent belongs to a pupil and is live.
LEMMA RowFacts ==
  /\ AbsentWard \in WardRow
  /\ AbsentWard.status = "absent"
  /\ AbsentWard.student = Nobody
  /\ \A row \in WardRow : row.status # "absent" => row \in LiveRow
  /\ \A row \in WardRow : row.status \in Status => row \in LiveRow
  /\ \A row \in WardRow : row.student \in Students => row \in LiveRow
  /\ \A row \in LiveRow : /\ row.status # "absent"
                          /\ row.student # Nobody
  /\ NoBuddy \in BuddyRow
  /\ \A s \in Students : Ask(s) \in BuddyRow
  BY WardsConstants
  DEF AbsentWard, WardRow, LiveRow, Status, Editable, Decided, NoWard,
      NoBuddy, Ask, BuddyRow

\* WardReview's words for a row mean the same when it speaks of `log`.
LEMMA SameWords ==
  /\ Committed!WardIds = WardIds
  /\ Committed!NoWard = NoWard
  /\ Committed!Editable = Editable
  /\ Committed!Status = Status
  /\ Committed!LiveRow = LiveRow
  /\ Committed!AbsentWard = AbsentWard
  BY DEF Committed!WardIds, Committed!NoWard, Committed!Editable, Committed!Decided,
         Committed!Status, Committed!LiveRow, Committed!AbsentWard,
         WardIds, NoWard, Editable, Decided, Status, LiveRow, AbsentWard

\* A request that does nothing is a request.
LEMMA IdleIsRequest == Idle \in Request
  BY RowFacts DEF Idle, Request, NoWard

\* The invariant holds at the start.
LEMMA InitIInv == Init => IInv
<1> SUFFICES ASSUME Init PROVE IInv
  OBVIOUS
<1>1. TypeOK
  BY RowFacts, IdleIsRequest, WardsConstants DEF Init, TypeOK
<1>2. RequestsOK
  BY RowFacts DEF Init, RequestsOK, SlotOK, Idle, Exists
<1>3. BuddyAnswersForSelf
  BY DEF Init, BuddyAnswersForSelf, NoBuddy
<1> QED BY <1>1, <1>2, <1>3 DEF IInv

-----------------------------------------------------------------------------
(* The steps of a request that write only its slot. *)

\* A step that only fills one slot, with reads that are good.
LEMMA SlotWritten ==
  ASSUME IInv, NEW r \in Requests, UNCHANGED <<log, buddy, nextId, resetOnEdit>>,
         \E q \in Request : SlotOK(q) /\ req' = [req EXCEPT ![r] = q]
  PROVE  IInv' /\ UNCHANGED log
<1>1. PICK q \in Request : SlotOK(q) /\ req' = [req EXCEPT ![r] = q]
  OBVIOUS
<1>2. TypeOK'
  BY <1>1 DEF IInv, TypeOK
<1>3. \A p \in Request : SlotOK(p) => SlotOK(p)'
  BY DEF SlotOK, MayEdit
<1>4. RequestsOK'
  BY <1>1, <1>3 DEF IInv, TypeOK, RequestsOK, Exists
<1>5. BuddyAnswersForSelf'
  BY DEF IInv, BuddyAnswersForSelf, Exists
<1> QED BY <1>2, <1>4, <1>5 DEF IInv

\* Submitting keeps the invariant.
LEMMA SubmitStep ==
  ASSUME IInv, NEW r \in Requests, Submit(r)
  PROVE  IInv' /\ UNCHANGED log
<1> SUFFICES \E q \in Request : SlotOK(q) /\ req' = [req EXCEPT ![r] = q]
  BY SlotWritten DEF Submit, StartPost, StartRecord
<1>1. ASSUME NEW s \in Students, NEW c \in Contents, NEW confirm \in BOOLEAN,
             NEW b \in Students \cup {Nobody}, NEW k \in Tracks \cup {Nothing},
             StartPost(r, s, c, b, k, confirm)
      PROVE  \E q \in Request : SlotOK(q) /\ req' = [req EXCEPT ![r] = q]
  <2> DEFINE q == [Idle EXCEPT !.pc = "checked", !.student = s, !.content = c,
                               !.buddy = b, !.track = k]
  <2>1. q \in Request
    BY IdleIsRequest DEF Request, Idle
  <2>2. SlotOK(q)
    BY <1>1, WardsConstants DEF SlotOK, Idle, StartPost, BuddyChoices
  <2> QED BY <1>1, <2>1, <2>2 DEF StartPost
<1>2. ASSUME NEW s \in Students, NEW c \in Contents, NEW confirm \in BOOLEAN,
             StartRecord(r, s, c, confirm)
      PROVE  \E q \in Request : SlotOK(q) /\ req' = [req EXCEPT ![r] = q]
  <2> DEFINE q == [Idle EXCEPT !.pc = "checked", !.via = "teacher",
                               !.student = s, !.content = c]
  <2>1. q \in Request
    BY IdleIsRequest DEF Request, Idle
  <2>2. SlotOK(q)
    BY WardsConstants DEF SlotOK, Idle
  <2> QED BY <1>2, <2>1, <2>2 DEF StartRecord
<1> QED BY <1>1, <1>2 DEF Submit

\* Reading the attempt to follow keeps the invariant.
LEMMA ReadAttemptStep ==
  ASSUME IInv, NEW r \in Requests, ReadAttempt(r)
  PROVE  IInv' /\ UNCHANGED log
<1>1. PICK p \in WardIds \cup {NoWard} :
        /\ IsOpenAttempt(req[r].student, p)
        /\ req' = [req EXCEPT ![r].pc = "linked", ![r].prev = p]
  BY DEF ReadAttempt
<1> DEFINE q == [req[r] EXCEPT !.pc = "linked", !.prev = p]
<1>2. req[r] \in Request /\ req[r].pc = "checked" /\ SlotOK(req[r])
  BY DEF IInv, TypeOK, RequestsOK, ReadAttempt
<1>3. req' = [req EXCEPT ![r] = q] /\ q \in Request
  BY <1>1, <1>2 DEF IInv, TypeOK, Request
<1>4. SlotOK(q)
  <2>1. p # NoWard => p \in WardIds /\ Exists(p) /\ log[p].student = req[r].student
    BY <1>1 DEF IsOpenAttempt, OpenRevisions, Exists
  <2>2. p # NoWard => p < nextId
    BY <2>1, WardsConstants DEF IInv, TypeOK, RequestsOK, WardIds
  <2>3. /\ q.pc = "linked" /\ q.prev = p
        /\ q.student = req[r].student /\ q.content = req[r].content
        /\ q.buddy = req[r].buddy
    BY <1>2 DEF Request
  <2> QED BY <1>2, <2>1, <2>2, <2>3 DEF SlotOK
<1> HIDE DEF q
<1> QED BY <1>3, <1>4, SlotWritten DEF ReadAttempt

\* What an edit reads first keeps the invariant.
LEMMA BeginEditStep ==
  ASSUME IInv, NEW r \in Requests, Edit(r)
  PROVE  IInv' /\ UNCHANGED log
<1>1. PICK s \in Students, w \in WardIds, c \in Contents, b \in Students \cup {Nobody},
           k \in Tracks \cup {Nothing} : BeginEdit(r, s, w, c, b, k)
  BY DEF Edit
<1> DEFINE q == [Idle EXCEPT !.pc = "begun", !.student = s, !.ward = w, !.content = c,
                   !.buddy = b, !.track = k,
                   !.old = IF resetOnEdit THEN log[w].content ELSE Nothing]
<1>2. req' = [req EXCEPT ![r] = q]
  BY <1>1 DEF BeginEdit
<1>3. q \in Request
  <2>1. log[w] \in LiveRow
    BY <1>1, RowFacts DEF BeginEdit, IInv, TypeOK
  <2>2. log[w].content \in Contents
    BY <2>1 DEF LiveRow
  <2>3. PICK old \in Contents \cup {Nothing} :
          old = IF resetOnEdit THEN log[w].content ELSE Nothing
    BY <2>2
  <2>4. [Idle EXCEPT !.pc = "begun", !.student = s, !.ward = w, !.content = c, !.buddy = b,
                     !.track = k, !.old = old] \in Request
    BY IdleIsRequest DEF Request, Idle
  <2> QED BY <2>3, <2>4
<1>4. SlotOK(q)
  <2>1. q.pc = "begun" /\ q.student = s /\ q.content = c /\ q.buddy = b /\ q.ward = w
    BY DEF Idle
  <2>2. b # s
    BY <1>1, WardsConstants DEF BeginEdit, BuddyChoices
  <2> QED BY <2>1, <2>2 DEF SlotOK
<1> HIDE DEF q
<1> QED BY <1>1, <1>2, <1>3, <1>4, SlotWritten DEF BeginEdit

\* Locking the ward keeps the invariant: it is still editable.
LEMMA LockForEditStep ==
  ASSUME IInv, NEW r \in Requests, LockForEdit(r)
  PROVE  IInv' /\ UNCHANGED log
<1> DEFINE q == [req[r] EXCEPT !.pc = "updated", !.buddyRead = buddy[req[r].ward]]
<1>1. req[r] \in Request /\ SlotOK(req[r]) /\ req[r].ward \in WardIds
  BY DEF IInv, TypeOK, RequestsOK, SlotOK, LockForEdit
<1>2. req' = [req EXCEPT ![r] = q] /\ q \in Request
  BY <1>1 DEF LockForEdit, Request, IInv, TypeOK
<1>3. SlotOK(q)
  <2>1. /\ q.pc = "updated" /\ q.student = req[r].student
        /\ q.content = req[r].content /\ q.buddy = req[r].buddy
        /\ q.ward = req[r].ward
    BY <1>1 DEF Request
  <2> QED BY <1>1, <2>1 DEF SlotOK, MayEdit, LockForEdit
<1> HIDE DEF q
<1> QED BY <1>2, <1>3, SlotWritten DEF LockForEdit

\* A request that ends without a write keeps the invariant.
LEMMA AbortStep ==
  ASSUME IInv, NEW r \in Requests, Abort(r)
  PROVE  IInv' /\ UNCHANGED log
<1>1. SlotOK(Idle)
  BY DEF SlotOK, Idle
<1> QED BY <1>1, IdleIsRequest, SlotWritten DEF Abort, Free

-----------------------------------------------------------------------------
(* The steps that write ward_logs. *)

\* Inserting a ward keeps the invariant: its id was never given out.
LEMMA InsertWardStep ==
  ASSUME IInv, NEW r \in Requests, InsertWard(r)
  PROVE  IInv' /\ Committed!Record(nextId)
<1>1. PICK q \in Request : q = req[r]
  BY DEF IInv, TypeOK
<1>2. /\ SlotOK(q) /\ q.pc = "linked" /\ ForeignKeyHolds(q.prev)
      /\ nextId \in WardIds /\ log[nextId] = AbsentWard
  <2>1. nextId \in WardIds
    BY WardsConstants DEF IInv, TypeOK, InsertWard, WardIds
  <2>2. ~Exists(nextId)
    BY <2>1, WardsConstants DEF IInv, RequestsOK, WardIds
  <2> QED BY <1>1, <2>1, <2>2, RowFacts
          DEF IInv, TypeOK, RequestsOK, InsertWard, Exists, WardRow
<1>3. PICK row \in LiveRow :
        /\ log' = [log EXCEPT ![nextId] = row]
        /\ row.status \in {"new", "approved"} /\ ~row.graded
        /\ row.student = q.student /\ row.prev = q.prev
  <2>1. NewRow(q) \in LiveRow
    BY <1>1, <1>2 DEF NewRow, LiveRow, Status, Editable, Decided, SlotOK, Request
  <2> QED BY <1>1, <2>1 DEF InsertWard, NewRow
<1>4. PICK b \in BuddyRow :
        /\ buddy' = [buddy EXCEPT ![nextId] = b]
        /\ b = NoBuddy \/ (b = Ask(q.buddy) /\ q.buddy \in Students \ {q.student})
  <2>1. q.buddy = Nobody \/ q.buddy \in Students \ {q.student}
    BY <1>2 DEF SlotOK, Request
  <2> QED BY <1>1, <2>1, RowFacts DEF InsertWard
<1>5. TypeOK'
  BY <1>2, <1>3, <1>4, IdleIsRequest, WardsConstants
  DEF IInv, TypeOK, InsertWard, Free, WardRow, WardIds
<1>6. RequestsOK'
  <2>1. ASSUME NEW p \in Request, SlotOK(p) PROVE SlotOK(p)'
    <3>1. log' = [log EXCEPT ![nextId] = row] /\ nextId' = nextId + 1
      BY <1>3 DEF InsertWard
    <3>2. nextId \in Nat /\ log \in [WardIds -> WardRow]
      BY DEF IInv, TypeOK
    <3>3. \A w \in WardIds : w # nextId => log'[w] = log[w]
      BY <3>1, <3>2
    <3>4. p.pc = "linked" /\ p.prev # NoWard => (p.prev < nextId /\ log[p.prev].student \in {p.student, Nobody})'
      <4>1. p.prev \in WardIds \cup {NoWard}
        BY DEF Request
      <4>2. p.pc = "linked" /\ p.prev # NoWard => p.prev < nextId /\ p.prev # nextId
        BY <2>1, <3>2, <4>1, WardsConstants DEF SlotOK, WardIds
      <4> QED BY <2>1, <3>1, <3>2, <3>3, <4>1, <4>2, WardsConstants DEF SlotOK, WardIds
    <3>5. p.pc = "updated" => MayEdit(p)'
      <4>1. p.pc = "updated" => p.ward # nextId
        BY <1>2, <2>1, RowFacts DEF SlotOK, MayEdit, Editable
      <4> QED BY <2>1, <3>3, <4>1 DEF SlotOK, MayEdit
    <3> QED BY <2>1, <3>4, <3>5 DEF SlotOK
  <2>2. SlotOK(Idle)'
    BY DEF SlotOK, Idle
  <2>3. \A w \in WardIds : w >= nextId' => ~Exists(w)'
    BY <1>2, <1>3, WardsConstants DEF IInv, TypeOK, RequestsOK, InsertWard, Exists, WardIds
  <2> QED BY <2>1, <2>2, <2>3 DEF RequestsOK, InsertWard, Free, IInv, TypeOK
<1>7. BuddyAnswersForSelf'
  <2> SUFFICES ASSUME NEW w \in WardIds
        PROVE  /\ buddy'[w].status # "none" => /\ Exists(w)'
                                               /\ buddy'[w].who \in Students \ {log'[w].student}
               /\ buddy'[w].status \in {"confirmed", "declined"} => buddy'[w].by = buddy'[w].who
               /\ buddy'[w].status \notin {"confirmed", "declined"} => buddy'[w].by = Nobody
    BY DEF BuddyAnswersForSelf
  <2>1. CASE w = nextId
    BY <1>2, <1>3, <1>4, <2>1, RowFacts DEF IInv, TypeOK, Exists, NoBuddy, Ask
  <2>2. CASE w # nextId
    <3>1. log'[w] = log[w] /\ buddy'[w] = buddy[w]
      BY <1>3, <1>4, <2>2 DEF IInv, TypeOK
    <3> QED BY <3>1 DEF IInv, BuddyAnswersForSelf, Exists
  <2> QED BY <2>1, <2>2
<1>8. Committed!Record(nextId)
  <2>1. ~Committed!Exists(nextId)
    BY <1>2, RowFacts DEF Committed!Exists
  <2>2. Committed!MayFollow(nextId, row.student, row.prev)
    <3>1. CASE row.prev = NoWard
      BY <3>1, SameWords DEF Committed!MayFollow
    <3>2. CASE row.prev # NoWard
      <4>1. row.prev \in WardIds /\ log[row.prev].status # "absent"
        BY <1>2, <1>3, <3>2 DEF ForeignKeyHolds, Exists
      <4>2. log[row.prev].student = row.student
        BY <1>2, <1>3, <3>2, <4>1, RowFacts DEF SlotOK, IInv, TypeOK
      <4>3. row.prev \in 1..(nextId - 1)
        BY <1>2, <1>3, <3>2, <4>1, WardsConstants DEF SlotOK, WardIds, IInv, TypeOK
      <4> QED BY <4>2, <4>3 DEF Committed!MayFollow
    <3> QED BY <3>1, <3>2
  <2> QED BY <1>3, <2>1, <2>2, SameWords DEF Committed!Record
<1> QED BY <1>5, <1>6, <1>7, <1>8 DEF IInv

\* Committing an edit keeps the invariant: the ward was locked meanwhile.
LEMMA CommitEditStep ==
  ASSUME IInv, NEW r \in Requests, CommitEdit(r)
  PROVE  IInv' /\ \E w \in WardIds : Committed!Edit(w)
<1>1. PICK q \in Request : q = req[r]
  BY DEF IInv, TypeOK
<1>2. PICK w \in WardIds : w = q.ward
  BY <1>1 DEF IInv, RequestsOK, SlotOK, CommitEdit
<1>3. /\ SlotOK(q) /\ log[w] \in LiveRow
      /\ log[w].status \in Editable /\ log[w].student = q.student
      /\ q.content \in Contents /\ q.student \in Students
  <2>1. SlotOK(q) /\ q.pc = "updated"
    BY <1>1 DEF IInv, RequestsOK, CommitEdit
  <2> QED BY <1>2, <2>1, RowFacts DEF SlotOK, MayEdit, IInv, TypeOK, Status
<1>4. PICK k \in Tracks \cup {Nothing} : k = EditedTrack(q)
  BY <1>2, <1>3 DEF EditedTrack, LiveRow, Request
<1>5. PICK row \in LiveRow :
        /\ log' = [log EXCEPT ![w] = row]
        /\ row.status \in Editable /\ row.student = log[w].student
  <2>1. EditedRow(q) \in LiveRow
    BY <1>2, <1>3, <1>4 DEF EditedRow, LiveRow, Status, Editable
  <2> QED BY <1>1, <1>2, <1>3, <1>4, <2>1
          DEF CommitEdit, EditedRow, LiveRow, Editable
<1>6. PICK b \in BuddyRow :
        /\ buddy' = [buddy EXCEPT ![w] = b]
        /\ \/ b \in {buddy[w], NoBuddy}
           \/ b = Ask(q.buddy) /\ q.buddy \in Students \ {q.student}
  <2>1. q.buddy = Nobody \/ q.buddy \in Students \ {q.student}
    BY <1>1, <1>3 DEF SlotOK, Request, CommitEdit
  <2>2. EditedBuddy(q) \in {buddy[w], NoBuddy} \/ (EditedBuddy(q) = Ask(q.buddy) /\ q.buddy # Nobody)
    BY <1>2 DEF EditedBuddy
  <2>3. buddy[w] \in BuddyRow
    BY DEF IInv, TypeOK
  <2> QED BY <1>1, <1>2, <2>1, <2>2, <2>3, RowFacts DEF CommitEdit
<1>7. TypeOK'
  BY <1>5, <1>6, IdleIsRequest DEF IInv, TypeOK, CommitEdit, Free, WardRow
<1>8. RequestsOK'
  <2>1. \A v \in WardIds : v # w => log'[v] = log[v]
    BY <1>5 DEF IInv, TypeOK
  <2>2. log'[w] = row
    BY <1>5 DEF IInv, TypeOK
  <2>3. ASSUME NEW p \in Request, SlotOK(p) PROVE SlotOK(p)'
    <3>1. p.prev # NoWard => log'[p.prev].student = log[p.prev].student
      BY <1>5, <2>1, <2>2 DEF Request
    <3>2. p.pc = "updated" => MayEdit(p)'
      BY <1>5, <2>1, <2>2, <2>3 DEF SlotOK, MayEdit
    <3> QED BY <2>3, <3>1, <3>2 DEF SlotOK, CommitEdit
  <2>4. SlotOK(Idle)'
    BY DEF SlotOK, Idle
  <2>5. \A v \in WardIds : v >= nextId' => ~Exists(v)'
    BY <1>3, <2>1, RowFacts DEF IInv, RequestsOK, CommitEdit, Exists
  <2> QED BY <2>3, <2>4, <2>5 DEF RequestsOK, CommitEdit, Free, IInv, TypeOK
<1>9. BuddyAnswersForSelf'
  <2> SUFFICES ASSUME NEW v \in WardIds
        PROVE  /\ buddy'[v].status # "none" => /\ Exists(v)'
                                               /\ buddy'[v].who \in Students \ {log'[v].student}
               /\ buddy'[v].status \in {"confirmed", "declined"} => buddy'[v].by = buddy'[v].who
               /\ buddy'[v].status \notin {"confirmed", "declined"} => buddy'[v].by = Nobody
    BY DEF BuddyAnswersForSelf
  <2>1. CASE v = w
    <3>1. buddy'[v] = b /\ log'[v] = row
      BY <1>5, <1>6, <2>1 DEF IInv, TypeOK
    <3>2. row.student = q.student /\ row.status # "absent"
      BY <1>3, <1>5, RowFacts
    <3>3. CASE b = buddy[w]
      BY <1>3, <2>1, <3>1, <3>2, <3>3 DEF IInv, BuddyAnswersForSelf, Exists
    <3>4. CASE b = NoBuddy
      BY <3>1, <3>4 DEF NoBuddy
    <3>5. CASE b = Ask(q.buddy) /\ q.buddy \in Students \ {q.student}
      BY <3>1, <3>2, <3>5 DEF Ask, Exists
    <3> QED BY <1>6, <3>3, <3>4, <3>5
  <2>2. CASE v # w
    <3>1. log'[v] = log[v] /\ buddy'[v] = buddy[v]
      BY <1>5, <1>6, <2>2 DEF IInv, TypeOK
    <3> QED BY <3>1 DEF IInv, BuddyAnswersForSelf, Exists
  <2> QED BY <2>1, <2>2
<1>10. Committed!Edit(w)
  <2>1. log' = [log EXCEPT ![w].content = q.content, ![w].track = k,
                           ![w].status = "new", ![w].graded = FALSE]
    BY <1>1, <1>2, <1>4 DEF CommitEdit, EditedRow, IInv, TypeOK
  <2> QED BY <1>3, <2>1, SameWords DEF Committed!Edit
<1> QED BY <1>7, <1>8, <1>9, <1>10 DEF IInv

\* Deleting a ward nobody follows keeps the invariant.
LEMMA DeleteWardStep ==
  ASSUME IInv, NEW s \in Students, NEW w \in WardIds, DeleteWard(s, w)
  PROVE  IInv' /\ Committed!Remove(w)
<1>1. TypeOK'
  BY RowFacts DEF IInv, TypeOK, DeleteWard
<1>2. \A v \in WardIds : v # w => log'[v] = log[v] /\ buddy'[v] = buddy[v]
  BY DEF DeleteWard, IInv, TypeOK
<1>3. log'[w] = AbsentWard /\ buddy'[w] = NoBuddy
  BY DEF DeleteWard, IInv, TypeOK
<1>4. RequestsOK'
  <2>1. ASSUME NEW u \in Requests PROVE SlotOK(req[u])'
    <3>1. req[u] \in Request /\ SlotOK(req[u]) /\ req'[u] = req[u]
      BY DEF IInv, TypeOK, RequestsOK, DeleteWard
    <3>2. req[u].pc = "updated" => req[u].ward # w
      BY DEF DeleteWard, Locked
    <3>3. req[u].pc = "updated" => MayEdit(req[u])'
      BY <1>2, <3>1, <3>2 DEF SlotOK, MayEdit
    <3>4. req[u].prev # NoWard => \/ log'[req[u].prev] = log[req[u].prev]
                                 \/ log'[req[u].prev].student = Nobody
      BY <1>2, <1>3, <3>1, RowFacts DEF Request
    <3> QED BY <3>1, <3>3, <3>4 DEF SlotOK, DeleteWard
  <2>2. \A v \in WardIds : v >= nextId' => ~Exists(v)'
    BY <1>2, <1>3, RowFacts DEF IInv, RequestsOK, DeleteWard, Exists
  <2> QED BY <2>1, <2>2 DEF RequestsOK
<1>5. BuddyAnswersForSelf'
  BY <1>2, <1>3 DEF IInv, BuddyAnswersForSelf, Exists, NoBuddy
<1>6. Committed!Remove(w)
  BY SameWords DEF DeleteWard, Unreferenced, Committed!Remove
<1> QED BY <1>1, <1>4, <1>5, <1>6 DEF IInv

\* A statement that rewrites one unlocked row and leaves its pupil.
LEMMA RowRewritten ==
  ASSUME IInv, NEW w \in WardIds, Exists(w), ~Locked(w),
         UNCHANGED <<buddy, nextId, resetOnEdit, req>>,
         \E row \in LiveRow : /\ row.student = log[w].student
                              /\ log' = [log EXCEPT ![w] = row]
  PROVE  IInv'
<1>1. PICK row \in LiveRow : /\ row.student = log[w].student
                             /\ log' = [log EXCEPT ![w] = row]
  OBVIOUS
<1>2. /\ \A v \in WardIds : v # w => log'[v] = log[v]
      /\ log'[w] = row /\ row.status # "absent"
  BY <1>1, RowFacts DEF IInv, TypeOK
<1>3. TypeOK'
  BY <1>1 DEF IInv, TypeOK, WardRow
<1>4. RequestsOK'
  <2>1. ASSUME NEW u \in Requests PROVE SlotOK(req[u])'
    <3>1. req[u] \in Request /\ SlotOK(req[u]) /\ req'[u] = req[u]
      BY DEF IInv, TypeOK, RequestsOK
    <3>2. req[u].pc = "updated" => req[u].ward # w
      BY DEF Locked
    <3>3. req[u].pc = "updated" => MayEdit(req[u])'
      BY <1>2, <3>1, <3>2 DEF SlotOK, MayEdit
    <3>4. req[u].prev # NoWard => log'[req[u].prev].student = log[req[u].prev].student
      BY <1>1, <1>2, <3>1 DEF Request
    <3> QED BY <3>1, <3>3, <3>4 DEF SlotOK
  <2>2. \A v \in WardIds : v >= nextId' => ~Exists(v)'
    BY <1>2 DEF IInv, RequestsOK, Exists
  <2> QED BY <2>1, <2>2 DEF RequestsOK
<1>5. BuddyAnswersForSelf'
  BY <1>1, <1>2 DEF IInv, BuddyAnswersForSelf, Exists
<1> QED BY <1>3, <1>4, <1>5 DEF IInv

\* A decision keeps the invariant.
LEMMA ReviewStep ==
  ASSUME IInv, NEW w \in WardIds,
         MarkSeen(w) \/ Approve(w) \/ RequestRevision(w) \/ Reopen(w)
  PROVE  IInv' /\ Committed!Review(w)
<1>1. PICK st \in Status \ {"new"} : log' = [log EXCEPT ![w].status = st]
  BY DEF MarkSeen, Approve, RequestRevision, Reopen, Status, Editable, Decided
<1>2. Exists(w) /\ ~Locked(w) /\ UNCHANGED <<buddy, nextId, resetOnEdit, req>>
  BY DEF MarkSeen, Approve, RequestRevision, Reopen, Exists
<1>3. IInv'
  <2> DEFINE row == [log[w] EXCEPT !.status = st]
  <2>1. row \in LiveRow /\ row.student = log[w].student
    BY <1>2, RowFacts DEF IInv, TypeOK, Exists, LiveRow
  <2>2. log' = [log EXCEPT ![w] = row]
    BY <1>1 DEF IInv, TypeOK
  <2> HIDE DEF row
  <2> QED BY <1>2, <2>1, <2>2, RowRewritten
<1>4. Committed!Review(w)
  BY <1>1, <1>2, SameWords DEF Committed!Review, Committed!Exists, Exists
<1> QED BY <1>3, <1>4

\* Grading keeps the invariant.
LEMMA SaveGradeStep ==
  ASSUME IInv, NEW w \in WardIds, SaveGrade(w)
  PROVE  IInv' /\ Committed!Grade(w)
<1>1. IInv'
  <2> DEFINE row == [log[w] EXCEPT !.graded = TRUE]
  <2>0. log[w] \in LiveRow
    BY RowFacts DEF SaveGrade, IInv, TypeOK, Exists
  <2>1. row \in LiveRow /\ row.student = log[w].student
    BY <2>0 DEF LiveRow
  <2>2. log' = [log EXCEPT ![w] = row]
    BY DEF SaveGrade, IInv, TypeOK
  <2> HIDE DEF row
  <2> QED BY <2>1, <2>2, RowRewritten DEF SaveGrade
<1>2. Committed!Grade(w)
  BY DEF SaveGrade, Exists, Committed!Grade, Committed!Exists
<1> QED BY <1>1, <1>2

\* Classifying keeps the invariant.
LEMMA SetTracksStep ==
  ASSUME IInv, NEW w \in WardIds, NEW k \in Tracks \cup {Nothing}, SetTracks(w, k)
  PROVE  IInv' /\ Committed!Classify(w)
<1>1. IInv'
  <2> DEFINE row == [log[w] EXCEPT !.track = k]
  <2>1. log[w] \in LiveRow /\ Exists(w)
    BY RowFacts DEF SetTracks, MayClassify, IInv, TypeOK, Exists, Status
  <2>2. row \in LiveRow /\ row.student = log[w].student
    BY <2>1 DEF LiveRow
  <2>3. log' = [log EXCEPT ![w] = row]
    BY DEF SetTracks, IInv, TypeOK
  <2> HIDE DEF row
  <2> QED BY <2>1, <2>2, <2>3, RowRewritten DEF SetTracks
<1>2. Committed!Classify(w)
  BY SameWords DEF SetTracks, MayClassify, Committed!Classify
<1> QED BY <1>1, <1>2

-----------------------------------------------------------------------------
(* The steps that write neither a ward nor a slot. *)

\* A buddy's answer keeps the invariant.
LEMMA RespondStep ==
  ASSUME IInv, NEW s \in Students, NEW w \in WardIds,
         NEW answer \in {"confirmed", "declined"}, Respond(s, w, answer)
  PROVE  IInv' /\ UNCHANGED log
<1> DEFINE b == [buddy[w] EXCEPT !.status = answer, !.by = s]
<1>1. b \in BuddyRow /\ b.who = s /\ b.by = s /\ b.status = answer
  BY DEF IInv, TypeOK, BuddyRow, Respond, MayRespond
<1>2. buddy' = [buddy EXCEPT ![w] = b]
  BY DEF Respond, IInv, TypeOK
<1> HIDE DEF b
<1>3. TypeOK'
  BY <1>1, <1>2 DEF IInv, TypeOK, Respond
<1>4. RequestsOK'
  BY DEF IInv, RequestsOK, SlotOK, MayEdit, Exists, Respond
<1>5. BuddyAnswersForSelf'
  <2> SUFFICES ASSUME NEW v \in WardIds
        PROVE  /\ buddy'[v].status # "none" => /\ Exists(v)'
                                               /\ buddy'[v].who \in Students \ {log'[v].student}
               /\ buddy'[v].status \in {"confirmed", "declined"} => buddy'[v].by = buddy'[v].who
               /\ buddy'[v].status \notin {"confirmed", "declined"} => buddy'[v].by = Nobody
    BY DEF BuddyAnswersForSelf
  <2>1. CASE v = w
    <3>1. Exists(w) /\ s \in Students \ {log[w].student}
      BY DEF Respond, MayRespond, IInv, BuddyAnswersForSelf
    <3>2. buddy'[v] = b /\ log' = log
      BY <1>2, <2>1 DEF IInv, TypeOK, Respond
    <3> QED BY <1>1, <2>1, <3>1, <3>2 DEF Exists
  <2>2. CASE v # w
    BY <1>2, <2>2 DEF IInv, TypeOK, BuddyAnswersForSelf, Exists, Respond
  <2> QED BY <2>1, <2>2
<1> QED BY <1>3, <1>4, <1>5 DEF IInv, Respond

\* Switching the option of the halaqah keeps the invariant.
LEMMA SettingStep ==
  ASSUME IInv, NEW on \in BOOLEAN, SetBuddyReset(on)
  PROVE  IInv' /\ UNCHANGED log
BY DEF IInv, TypeOK, RequestsOK, SlotOK, MayEdit, Exists, BuddyAnswersForSelf, SetBuddyReset

\* So does a step that changes nothing.
LEMMA StutterStep ==
  ASSUME IInv, UNCHANGED vars
  PROVE  IInv' /\ UNCHANGED log
BY DEF IInv, TypeOK, RequestsOK, SlotOK, MayEdit, Exists, BuddyAnswersForSelf, vars

-----------------------------------------------------------------------------
\* One step of the code keeps the invariant and is one step of the review
\* cycle, or none.
LEMMA StepCorrect ==
  ASSUME IInv, [Next]_vars
  PROVE  IInv' /\ [Committed!Next]_log
<1>1. ASSUME NEW r \in Requests, Handle(r)
      PROVE  IInv' /\ [Committed!Next]_log
  <2>1. CASE InsertWard(r)
    <3>1. nextId \in WardIds
      BY <2>1, WardsConstants DEF IInv, TypeOK, InsertWard, WardIds
    <3> QED BY <2>1, <3>1, InsertWardStep, SameWords DEF Committed!Next, Committed!Step
  <2>2. CASE CommitEdit(r)
    BY <2>2, CommitEditStep, SameWords DEF Committed!Next, Committed!Step
  <2>3. CASE Submit(r)
    BY <2>3, SubmitStep
  <2>4. CASE ReadAttempt(r)
    BY <2>4, ReadAttemptStep
  <2>5. CASE Edit(r)
    BY <2>5, BeginEditStep
  <2>6. CASE LockForEdit(r)
    BY <2>6, LockForEditStep
  <2>7. CASE Abort(r)
    BY <2>7, AbortStep
  <2> QED BY <1>1, <2>1, <2>2, <2>3, <2>4, <2>5, <2>6, <2>7 DEF Handle
<1>2. ASSUME NEW w \in WardIds, Statement(w)
      PROVE  IInv' /\ [Committed!Next]_log
  <2> USE SameWords DEF Committed!Next, Committed!Step
  <2>1. CASE MarkSeen(w) \/ Approve(w) \/ RequestRevision(w) \/ Reopen(w)
    BY <2>1, ReviewStep
  <2>2. CASE SaveGrade(w)
    BY <2>2, SaveGradeStep
  <2>3. CASE \E k \in Tracks \cup {Nothing} : SetTracks(w, k)
    BY <2>3, SetTracksStep
  <2>4. ASSUME NEW s \in Students, DeleteWard(s, w)
        PROVE  IInv' /\ [Committed!Next]_log
    BY <2>4, DeleteWardStep
  <2>5. ASSUME NEW s \in Students, NEW answer \in {"confirmed", "declined"},
               Respond(s, w, answer)
        PROVE  IInv' /\ [Committed!Next]_log
    BY <2>5, RespondStep
  <2> QED BY <1>2, <2>1, <2>2, <2>3, <2>4, <2>5 DEF Statement
<1>3. ASSUME NEW on \in BOOLEAN, SetBuddyReset(on)
      PROVE  IInv' /\ [Committed!Next]_log
  BY <1>3, SettingStep
<1>4. CASE UNCHANGED vars
  BY <1>4, StutterStep
<1> QED BY <1>1, <1>2, <1>3, <1>4 DEF Next

\* The inductive invariant.
THEOREM Invariant == Spec => []IInv
BY InitIInv, StepCorrect, PTL DEF Spec

\* No request that still names a ward writes a row that is not one.
THEOREM TypeCorrect == Spec => []TypeOK
BY Invariant, PTL DEF IInv

\* What a request has read is still good when it is used: the ward an edit has
\* locked stays editable and the pupil's own, an attempt's predecessor is never
\* replaced by another ward.
THEOREM RequestsCorrect == Spec => []RequestsOK
BY Invariant, PTL DEF IInv

\* The answer on a ward is the answer of the pupil who was asked.
THEOREM BuddyCorrect == Spec => []BuddyAnswersForSelf
BY Invariant, PTL DEF IInv

\* The committed rows of the code go through the review cycle of WardReview.
THEOREM Implementation == Spec => ImplementsReview
<1>1. Init => Committed!Init
  BY SameWords DEF Init, Committed!Init
<1> QED BY <1>1, Invariant, StepCorrect, PTL DEF Spec, ImplementsReview, Committed!Spec

-----------------------------------------------------------------------------
(* What WardReviewProofs shows of the review cycle holds of the code. *)

Proved == INSTANCE WardReviewProofs WITH ward <- log

\* The cycle WardLog implements is the one the theorems of WardReview are about.
LEMMA SameCycle ==
  /\ Committed!Init = Proved!Init
  /\ Committed!Next = Proved!Next
BY DEF
  Committed!Init, Committed!Next, Committed!Step, Committed!Exists, Committed!MayFollow,
  Committed!Record, Committed!Edit, Committed!Classify, Committed!Remove,
  Committed!Review, Committed!Grade, Committed!WardIds, Committed!NoWard,
  Committed!Editable, Committed!Decided, Committed!Status, Committed!LiveRow,
  Committed!AbsentWard,
  Proved!Init, Proved!Next, Proved!Step, Proved!Exists, Proved!MayFollow,
  Proved!Record, Proved!Edit, Proved!Classify, Proved!Remove,
  Proved!Review, Proved!Grade, Proved!WardIds, Proved!NoWard,
  Proved!Editable, Proved!Decided, Proved!Status, Proved!LiveRow,
  Proved!AbsentWard

\* The assumptions on the constants are the same.
LEMMA SameAssumption == Proved!WardsConstants
BY WardsConstants DEF WardsConstants, Proved!WardsConstants

\* The handlers follow the review cycle.
LEMMA CodeFollowsCycle == Spec => Proved!Spec
<1>1. Committed!Init => Proved!Init
  BY SameCycle
<1>2. [Committed!Next]_log => [Proved!Next]_log
  BY SameCycle
<1> QED BY <1>1, <1>2, Implementation, PTL DEF ImplementsReview, Committed!Spec, Proved!Spec

\* Attempts form a chain that ends, of one pupil, without a missing link.
THEOREM ChainCorrect == Spec => []ChainWellFounded
<1>1. Proved!ChainWellFounded => ChainWellFounded
  BY DEF Proved!ChainWellFounded, ChainWellFounded, Committed!ChainWellFounded,
         Proved!Exists, Committed!Exists, Proved!WardIds, Committed!WardIds,
         Proved!NoWard, Committed!NoWard
<1>2. Proved!Spec => []Proved!ChainWellFounded
  BY SameAssumption, Proved!ChainCorrect
<1> QED BY <1>1, <1>2, CodeFollowsCycle, PTL

\* No interleaving of the handlers takes a decided ward away or rewrites it.
THEOREM DecidedFrozen == Spec => DecidedIsFrozen
<1>1. Proved!Spec => Proved!DecidedIsFrozen
  BY SameAssumption, Proved!DecidedFrozen
<1>2. Proved!DecidedIsFrozen => DecidedIsFrozen
  BY DEF Proved!DecidedIsFrozen, Proved!WardIds, Proved!Decided, Proved!Status,
         Proved!Editable, DecidedIsFrozen, Committed!DecidedIsFrozen,
         Committed!WardIds, Committed!Decided, Committed!Status, Committed!Editable
<1> QED BY <1>1, <1>2, CodeFollowsCycle, PTL

\* An edit that read the content it overwrites and the answer that stands leaves a buddy
\* who was asked and did not answer, or none.
LEMMA ResetStep ==
  ASSUME IInv, NEW r \in Requests, CommitEdit(r), req[r].old # Nothing,
         req[r].old = log[req[r].ward].content, req[r].buddyRead = buddy[req[r].ward],
         req[r].content # log[req[r].ward].content
  PROVE  buddy'[req[r].ward].status \in {"none", "pending"}
<1>1. /\ req[r] \in Request /\ req[r].ward \in WardIds /\ buddy \in [WardIds -> BuddyRow]
  BY DEF IInv, TypeOK, RequestsOK, SlotOK, CommitEdit
<1>2. buddy'[req[r].ward] = EditedBuddy(req[r])
  BY <1>1 DEF CommitEdit
<1>3. PICK q, b : q = req[r] /\ b = buddy[req[r].ward]
  OBVIOUS
<1>4. /\ b \in BuddyRow /\ q.buddyRead = b /\ ContentChanged(q)
      /\ b.status # "none" => b.who \in Students
  BY <1>1, <1>3 DEF IInv, BuddyAnswersForSelf, ContentChanged
<1>5. EditedBuddy(q) =
        IF b.who # q.buddy
          THEN IF q.buddy = Nobody THEN NoBuddy ELSE Ask(q.buddy)
        ELSE IF q.buddy # Nobody /\ b.status \in {"confirmed", "declined"}
          THEN Ask(q.buddy)
        ELSE b
  BY <1>3, <1>4 DEF EditedBuddy
<1>6. NoBuddy.status = "none" /\ Ask(q.buddy).status = "pending"
  BY DEF NoBuddy, Ask
<1>7. b.status \in {"none", "pending", "confirmed", "declined"}
  BY <1>4 DEF BuddyRow
<1>8. Nobody \notin Students
  BY WardsConstants
<1>9. EditedBuddy(q) \in {NoBuddy, Ask(q.buddy)} \/ (EditedBuddy(q) = b /\ b.status \in {"none", "pending"})
  <2>1. CASE b.who # q.buddy
    BY <1>5, <2>1, Zenon
  <2>2. CASE b.who = q.buddy /\ q.buddy # Nobody /\ b.status \in {"confirmed", "declined"}
    BY <1>5, <2>2, Zenon
  <2>3. CASE b.who = q.buddy /\ ~(q.buddy # Nobody /\ b.status \in {"confirmed", "declined"})
    <3>1. EditedBuddy(q) = b
      BY <1>5, <2>3, Zenon
    <3>2. b.status \in {"none", "pending"}
      BY <1>4, <1>7, <1>8, <2>3
    <3> QED
      BY <3>1, <3>2
  <2> QED
    BY <2>1, <2>2, <2>3
<1>11. EditedBuddy(q).status \in {"none", "pending"}
  BY <1>6, <1>9
<1> QED
  BY <1>2, <1>3, <1>11

\* With buddy_reset_on_edit on, no answer stands for a content that is gone, unless the
\* edit read before the answer or before another edit (db.ts updateWardLog).
THEOREM ResetWorksOutsideRaces == Spec => ResetOutsideRaces
<1>1. IInv /\ [Next]_vars =>
        [\A r \in Requests :
           LET q == req[r]  w == req[r].ward IN
           /\ CommitEdit(r)
           /\ q.old # Nothing
           /\ q.old = log[w].content
           /\ q.buddyRead = buddy[w]
           /\ q.content # log[w].content
           => buddy'[w].status \in {"none", "pending"}]_vars
  BY ResetStep
<1> QED
  BY Invariant, <1>1, PTL DEF Spec, ResetOutsideRaces

\* What remains of NoSilentUnapproval: an edit that was under way when the ward was
\* approved does not take the approval away, nor does a deletion; only the look of a
\* teacher and his note do (db.ts updateWardLog, deleteWardLog, setWardLogStatus).
ApprovalEndsByTeacher ==
  [][\A w \in WardIds : log[w].status = "approved" =>
       log'[w].status \in {"approved", "needs_revision", "seen"}]_log

\* No interleaving of a pupil's requests undoes an approval.
THEOREM ApprovalOutlastsPupil == Spec => ApprovalEndsByTeacher
<1>1. Proved!Spec => Proved!ApprovalEnds
  BY SameAssumption, Proved!ApprovalEndedByTeacher
<1>2. Proved!ApprovalEnds => ApprovalEndsByTeacher
  BY DEF Proved!ApprovalEnds, Proved!WardIds, WardIds, ApprovalEndsByTeacher
<1> QED BY <1>1, <1>2, CodeFollowsCycle, PTL

=============================================================================
