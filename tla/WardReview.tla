----------------------------- MODULE WardReview ------------------------------
(***************************************************************************)
(* What the review cycle of the wards promises to somebody who reads only   *)
(* committed rows, whatever requests are in flight: a pupil changes or      *)
(* takes back a ward only while no decision stands on it, every change is   *)
(* new to the teacher and ungraded, and an attempt always follows a ward    *)
(* of the same pupil that is still there.  WardLog implements it.           *)
(***************************************************************************)
EXTENDS Wards

VARIABLE ward

TypeOK == ward \in [WardIds -> WardRow]

Exists(w) == ward[w].status # "absent"

Init == ward = [w \in WardIds |-> AbsentWard]

\* What an attempt may follow: nothing, or an older ward of the same pupil.
MayFollow(w, s, p) ==
  \/ p = NoWard
  \/ p \in 1..(w - 1) /\ ward[p].student = s

\* A pupil submits a ward, or staff record one they heard.
Record(w) ==
  /\ ~Exists(w)
  /\ \E row \in LiveRow :
       /\ row.status \in {"new", "approved"}
       /\ ~row.graded
       /\ MayFollow(w, row.student, row.prev)
       /\ ward' = [ward EXCEPT ![w] = row]

\* The pupil edits; the review and the grade of the old content are gone.
Edit(w) ==
  /\ ward[w].status \in Editable
  /\ \E c \in Contents, k \in Tracks \cup {Nothing} :
       ward' = [ward EXCEPT ![w].content = c, ![w].track = k,
                            ![w].status = "new", ![w].graded = FALSE]

Classify(w) ==
  /\ ward[w].status \in Editable
  /\ \E k \in Tracks \cup {Nothing} : ward' = [ward EXCEPT ![w].track = k]

Remove(w) ==
  /\ ward[w].status \in Editable
  /\ \A v \in WardIds : ward[v].prev # w
  /\ ward' = [ward EXCEPT ![w] = AbsentWard]

\* Staff look at it, approve it, send it back or open it again.
Review(w) ==
  /\ Exists(w)
  /\ \E st \in Status \ {"new"} : ward' = [ward EXCEPT ![w].status = st]

Grade(w) ==
  /\ Exists(w)
  /\ ward' = [ward EXCEPT ![w].graded = TRUE]

Step(w) ==
  Record(w) \/ Edit(w) \/ Classify(w) \/ Remove(w) \/ Review(w) \/ Grade(w)

Next == \E w \in WardIds : Step(w)

Spec == Init /\ [][Next]_ward

-----------------------------------------------------------------------------
\* Every attempt follows an older ward of the same pupil that still exists, so
\* the chain that the teacher pages back through ends and never leaves the
\* pupil (previous_attempt_id, db.ts createWardLog).
ChainWellFounded ==
  \A w \in WardIds : ward[w].prev # NoWard =>
    /\ ward[w].prev < w
    /\ Exists(ward[w].prev)
    /\ ward[ward[w].prev].student = ward[w].student

\* Once a decision stands on a ward its row stays and what it records stays.
DecidedIsFrozen ==
  [][\A w \in WardIds : ward[w].status \in Decided =>
       /\ ward'[w].status \in Status
       /\ ward'[w].content = ward[w].content
       /\ ward'[w].track = ward[w].track
       /\ ward'[w].prev = ward[w].prev]_ward

=============================================================================
