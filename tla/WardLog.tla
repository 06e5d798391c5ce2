------------------------------- MODULE WardLog -------------------------------
(***************************************************************************)
(* The life-cycle of a ward (a pupil's daily portion) in one halaqah: the   *)
(* tables ward_logs and ward_review_buddies of src/web/lib/db.ts and the    *)
(* handlers of src/web/app/api/wards and src/web/app/api/teacher/wards.     *)
(*                                                                         *)
(* PostgreSQL runs at READ COMMITTED.  A handler that is a single guarded   *)
(* statement is one action.  A handler that reads, waits and writes is a    *)
(* request whose reads are kept in a slot of `req` until they are used; an  *)
(* open transaction that has updated a ward row keeps that row locked       *)
(* (Locked) until it commits, and nobody else sees what it wrote.           *)
(***************************************************************************)
EXTENDS Wards

CONSTANTS
  Dates,       \* calendar days
  DateOf,      \* the date of a content
  Today,       \* the day of the run
  Grading,     \* whether the mosque has the error_grading feature
  Requests     \* the requests in flight at one time

ASSUME WardLogConstants ==
  /\ Grading \in BOOLEAN
  /\ DateOf \in [Contents -> Dates]
  /\ Today \in Dates

VARIABLES
  log,          \* ward_logs, by id
  buddy,        \* ward_review_buddies, by ward id (ward_log_id is UNIQUE)
  nextId,       \* the sequence behind ward_logs.id
  resetOnEdit,  \* halaqahs.buddy_reset_on_edit
  req           \* what each request in flight has read so far

vars == <<log, buddy, nextId, resetOnEdit, req>>

\* `by` is history: who gave the answer that the row holds now.
NoBuddy == [who |-> Nobody, status |-> "none", by |-> Nobody]
Ask(s)  == [who |-> s, status |-> "pending", by |-> Nobody]

BuddyRow ==
  [who : Students \cup {Nobody},
   status : {"none", "pending", "confirmed", "declined"},
   by : Students \cup {Nobody}]

Idle ==
  [pc |-> "idle", via |-> "student", student |-> Nobody, ward |-> NoWard,
   content |-> Nothing, track |-> Nothing, buddy |-> Nobody,
   prev |-> NoWard, old |-> Nothing, buddyRead |-> NoBuddy]

Request ==
  [pc : {"idle", "checked", "linked", "begun", "updated"},
   via : {"student", "teacher"}, student : Students \cup {Nobody},
   ward : WardIds \cup {NoWard}, content : Contents \cup {Nothing},
   track : Tracks \cup {Nothing}, buddy : Students \cup {Nobody},
   prev : WardIds \cup {NoWard}, old : Contents \cup {Nothing},
   buddyRead : BuddyRow]

Exists(w) == log[w].status # "absent"

\* Mutant: the read, the check and the write outside one transaction.
LockedNever(w) == FALSE

\* The row locks: an edit holds its ward's row from its UPDATE to its COMMIT.
Locked(w) == \E r \in Requests : req[r].pc = "updated" /\ req[r].ward = w

Free(r) == req' = [req EXCEPT ![r] = Idle]

Init ==
  /\ log = [w \in WardIds |-> AbsentWard]
  /\ buddy = [w \in WardIds |-> NoBuddy]
  /\ nextId = 1
  /\ resetOnEdit \in BOOLEAN
  /\ req = [r \in Requests |-> Idle]

-----------------------------------------------------------------------------
(* What the handlers read. *)

\* The rows of listSameDayWardStubs that findSameDayDuplicate counts: not
\* sent back, and for a pupil's own submission not the pupil's either.
Duplicates(s, d, v) ==
  {w \in WardIds : /\ log[w].status \in Status \ {"needs_revision"}
                   /\ log[w].student = s
                   /\ DateOf[log[w].content] = d
                   /\ v = "student" => log[w].via # "student"}

\* Wards of s that were sent back and that no later attempt continues.
OpenRevisions(s) ==
  {w \in WardIds : /\ log[w].status = "needs_revision"
                   /\ log[w].student = s
                   /\ \A v \in WardIds : log[v].student = s => log[v].prev # w}

\* findOpenRevisionAttempt: the newest of them, or NULL.
IsOpenAttempt(s, p) ==
  \/ /\ OpenRevisions(s) = {}
     /\ p = NoWard
  \/ /\ p \in OpenRevisions(s)
     /\ \A w \in OpenRevisions(s) : w <= p

\* assertValidBuddy: a mate of the halaqah, not the pupil.
BuddyChoices(s) == (Students \ {s}) \cup {Nobody}

-----------------------------------------------------------------------------
(* A new ward: POST /api/wards by a pupil, POST /api/teacher/wards by a      *)
(* member of staff (who hears it, so it is stored approved).  Both read the  *)
(* wards of the day, then the open attempt, then insert in a transaction.    *)

\* The duplicate guard; `confirm` is the body's confirmDuplicate.
PassesGuard(s, c, v, confirm) == confirm \/ Duplicates(s, DateOf[c], v) = {}

StartPost(r, s, c, b, k, confirm) ==
  /\ req[r].pc = "idle"
  /\ nextId <= MaxWards
  /\ DateOf[c] = Today
  /\ b \in BuddyChoices(s)
  /\ PassesGuard(s, c, "student", confirm)
  /\ req' = [req EXCEPT ![r] = [Idle EXCEPT !.pc = "checked", !.student = s,
                                            !.content = c, !.buddy = b, !.track = k]]
  /\ UNCHANGED <<log, buddy, nextId, resetOnEdit>>

StartRecord(r, s, c, confirm) ==
  /\ req[r].pc = "idle"
  /\ nextId <= MaxWards
  /\ PassesGuard(s, c, "teacher", confirm)
  /\ req' = [req EXCEPT ![r] = [Idle EXCEPT !.pc = "checked", !.via = "teacher",
                                            !.student = s, !.content = c]]
  /\ UNCHANGED <<log, buddy, nextId, resetOnEdit>>

\* The read of the previous attempt is outside the transaction that inserts.
ReadAttempt(r) ==
  /\ req[r].pc = "checked"
  /\ \E p \in WardIds \cup {NoWard} :
       /\ IsOpenAttempt(req[r].student, p)
       /\ req' = [req EXCEPT ![r].pc = "linked", ![r].prev = p]
  /\ UNCHANGED <<log, buddy, nextId, resetOnEdit>>

\* The row createWardLog or createApprovedWardLog inserts for request q.
NewRow(q) ==
  [status |-> IF q.via = "student" THEN "new" ELSE "approved",
   student |-> q.student, content |-> q.content, track |-> q.track,
   via |-> q.via, prev |-> q.prev, graded |-> FALSE]

\* Mutant: previous_attempt_id without its REFERENCES.
ForeignKeyDropped(p) == TRUE

\* The foreign key previous_attempt_id REFERENCES ward_logs(id).
ForeignKeyHolds(p) == p \in {w \in WardIds : Exists(w)} \cup {NoWard}

InsertWard(r) ==
  /\ req[r].pc = "linked"
  /\ ForeignKeyHolds(req[r].prev)
  /\ nextId <= MaxWards
  /\ log' = [log EXCEPT ![nextId] = NewRow(req[r])]
  /\ buddy' = [buddy EXCEPT ![nextId] =
                 IF req[r].buddy = Nobody THEN NoBuddy ELSE Ask(req[r].buddy)]
  /\ nextId' = nextId + 1
  /\ Free(r)
  /\ UNCHANGED resetOnEdit

-----------------------------------------------------------------------------
(* PUT /api/wards: updateWardLog, one transaction.  BeginEdit reads the      *)
(* halaqah's option and, with the option on, the content that the UPDATE     *)
(* will overwrite; LockForEdit is the guarded UPDATE and the reads under its *)
(* row lock; CommitEdit writes the buddy row and commits.                    *)

BeginEdit(r, s, w, c, b, k) ==
  /\ req[r].pc = "idle"
  /\ log[w].student = s
  /\ b \in BuddyChoices(s)
  /\ req' = [req EXCEPT ![r] =
       [Idle EXCEPT !.pc = "begun", !.student = s, !.ward = w, !.content = c,
                    !.buddy = b, !.track = k,
                    !.old = IF resetOnEdit THEN log[w].content ELSE Nothing]]
  /\ UNCHANGED <<log, buddy, nextId, resetOnEdit>>

\* WHERE id AND student_id AND status IN ('new', 'seen'), evaluated on the
\* latest committed row once no other transaction holds it.
MayEdit(q) == /\ log[q.ward].status \in Editable
              /\ log[q.ward].student = q.student

LockForEdit(r) ==
  /\ req[r].pc = "begun"
  /\ ~Locked(req[r].ward)
  /\ MayEdit(req[r])
  /\ req' = [req EXCEPT ![r].pc = "updated", ![r].buddyRead = buddy[req[r].ward]]
  /\ UNCHANGED <<log, buddy, nextId, resetOnEdit>>

\* A body without reviewTracks keeps what is stored, and carryOverReviewTracks
\* lets it survive only on an unchanged segment.
EditedTrack(q) ==
  IF q.track # Nothing THEN q.track
  ELSE IF log[q.ward].content = q.content THEN log[q.ward].track ELSE Nothing

\* wardContentChanged, on the content BeginEdit read: with the option off it
\* read none and nothing has changed.
ContentChanged(q) == q.old # Nothing /\ q.old # q.content

\* Mutant: only a confirmation is asked again, a refusal stands.
EditedBuddyRefusalStands(q) ==
  IF q.buddyRead.who # q.buddy
    THEN IF q.buddy = Nobody THEN NoBuddy ELSE Ask(q.buddy)
  ELSE IF /\ q.buddy # Nobody
          /\ q.buddyRead.status = "confirmed"
          /\ ContentChanged(q)
    THEN Ask(q.buddy)
  ELSE buddy[q.ward]

EditedBuddy(q) ==
  IF q.buddyRead.who # q.buddy
    THEN IF q.buddy = Nobody THEN NoBuddy ELSE Ask(q.buddy)
  ELSE IF /\ q.buddy # Nobody
          /\ q.buddyRead.status \in {"confirmed", "declined"}
          /\ ContentChanged(q)
    THEN Ask(q.buddy)
  ELSE buddy[q.ward]

\* Mutant: the edit leaves the status of the ward as it is.
EditedRowStatusKept(q) ==
  [log[q.ward] EXCEPT !.content = q.content, !.track = EditedTrack(q),
                      !.graded = FALSE]

EditedRow(q) ==
  [log[q.ward] EXCEPT !.content = q.content, !.track = EditedTrack(q),
                      !.status = "new", !.graded = FALSE]

CommitEdit(r) ==
  /\ req[r].pc = "updated"
  /\ log' = [log EXCEPT ![req[r].ward] = EditedRow(req[r])]
  /\ buddy' = [buddy EXCEPT ![req[r].ward] = EditedBuddy(req[r])]
  /\ Free(r)
  /\ UNCHANGED <<nextId, resetOnEdit>>

\* A refused guard, a violated constraint, an error or a lost connection:
\* the request ends and its transaction, if it has one, rolls back.
Abort(r) ==
  /\ req[r].pc # "idle"
  /\ Free(r)
  /\ UNCHANGED <<log, buddy, nextId, resetOnEdit>>

-----------------------------------------------------------------------------
(* Single statements.  Each waits for the row's lock and then evaluates its  *)
(* WHERE on the latest committed row.                                        *)

\* DELETE /api/wards: own, undecided, and not referenced by a later attempt
\* (previous_attempt_id has no ON DELETE).  The buddy row cascades.
Unreferenced(w) == \A v \in WardIds : log[v].prev # w

DeleteWard(s, w) ==
  /\ log[w].student = s
  /\ log[w].status \in Editable
  /\ ~Locked(w)
  /\ Unreferenced(w)
  /\ log' = [log EXCEPT ![w] = AbsentWard]
  /\ buddy' = [buddy EXCEPT ![w] = NoBuddy]
  /\ UNCHANGED <<nextId, resetOnEdit, req>>

\* setWardLogStatus "seen": no condition on the current status.
MarkSeen(w) ==
  /\ Exists(w)
  /\ ~Locked(w)
  /\ log' = [log EXCEPT ![w].status = "seen"]
  /\ UNCHANGED <<buddy, nextId, resetOnEdit, req>>

\* setWardLogStatus "approved": no condition on the current status.
Approve(w) ==
  /\ Exists(w)
  /\ ~Locked(w)
  /\ log' = [log EXCEPT ![w].status = "approved"]
  /\ UNCHANGED <<buddy, nextId, resetOnEdit, req>>

\* setWardLogStatus "needs_revision": status <> 'approved'.
RequestRevision(w) ==
  /\ Exists(w)
  /\ log[w].status # "approved"
  /\ ~Locked(w)
  /\ log' = [log EXCEPT ![w].status = "needs_revision"]
  /\ UNCHANGED <<buddy, nextId, resetOnEdit, req>>

\* reopenApprovedWard, tried when the statement above found no row: it needs
\* an approved ward, so together they accept every ward.
Reopen(w) ==
  /\ log[w].status = "approved"
  /\ ~Locked(w)
  /\ log' = [log EXCEPT ![w].status = "needs_revision"]
  /\ UNCHANGED <<buddy, nextId, resetOnEdit, req>>

\* saveWardErrorGrade: any ward of the halaqah, whatever its status.
SaveGrade(w) ==
  /\ Grading
  /\ Exists(w)
  /\ ~Locked(w)
  /\ log' = [log EXCEPT ![w].graded = TRUE]
  /\ UNCHANGED <<buddy, nextId, resetOnEdit, req>>

\* setWardReviewTracks: SELECT ... FOR UPDATE, so check and write are atomic.
MayClassify(w) == log[w].status \in Editable

SetTracks(w, k) ==
  /\ ~Locked(w)
  /\ MayClassify(w)
  /\ log' = [log EXCEPT ![w].track = k]
  /\ UNCHANGED <<buddy, nextId, resetOnEdit, req>>

\* Mutant: the answer taken from any pupil of the halaqah.
MayRespondAny(s, w) == buddy[w].status = "pending"

\* respondToBuddyRequest.  Its row is not the one an open edit has locked.
MayRespond(s, w) == buddy[w].who = s /\ buddy[w].status = "pending"

Respond(s, w, answer) ==
  /\ MayRespond(s, w)
  /\ buddy' = [buddy EXCEPT ![w].status = answer, ![w].by = s]
  /\ UNCHANGED <<log, nextId, resetOnEdit, req>>

\* setHalaqahBuddyResetOnEdit.
SetBuddyReset(on) ==
  /\ resetOnEdit' = on
  /\ UNCHANGED <<log, buddy, nextId, req>>

-----------------------------------------------------------------------------
Submit(r) ==
  \E s \in Students, c \in Contents, confirm \in BOOLEAN :
    \/ \E b \in Students \cup {Nobody}, k \in Tracks \cup {Nothing} :
         StartPost(r, s, c, b, k, confirm)
    \/ StartRecord(r, s, c, confirm)

Edit(r) ==
  \E s \in Students, w \in WardIds, c \in Contents, b \in Students \cup {Nobody},
     k \in Tracks \cup {Nothing} : BeginEdit(r, s, w, c, b, k)

Handle(r) ==
  \/ Submit(r)
  \/ ReadAttempt(r)
  \/ InsertWard(r)
  \/ Edit(r)
  \/ LockForEdit(r)
  \/ CommitEdit(r)
  \/ Abort(r)

Statement(w) ==
  \/ MarkSeen(w)
  \/ SaveGrade(w)
  \/ \E k \in Tracks \cup {Nothing} : SetTracks(w, k)
  \/ Approve(w)
  \/ RequestRevision(w)
  \/ Reopen(w)
  \/ \E s \in Students :
       \/ DeleteWard(s, w)
       \/ \E answer \in {"confirmed", "declined"} : Respond(s, w, answer)

Next ==
  \/ \E r \in Requests : Handle(r)
  \/ \E w \in WardIds : Statement(w)
  \/ \E on \in BOOLEAN : SetBuddyReset(on)

Spec == Init /\ [][Next]_vars

-----------------------------------------------------------------------------
(* Properties. *)

\* Rows are well formed; a row that was deleted or never inserted is not
\* written by a request that still names it.
TypeOK ==
  /\ log \in [WardIds -> WardRow]
  /\ buddy \in [WardIds -> BuddyRow]
  /\ nextId \in 1..(MaxWards + 1)
  /\ resetOnEdit \in BOOLEAN
  /\ req \in [Requests -> Request]

\* What stays true of a request's reads until it uses them.  A linked attempt
\* may be deleted meanwhile but its id is never given to another ward; a ward
\* that an edit has locked stays editable and the pupil's own.
SlotOK(q) ==
  /\ q.pc # "idle" => /\ q.student \in Students
                      /\ q.content \in Contents
                      /\ q.buddy # q.student
  /\ q.pc = "linked" /\ q.prev # NoWard =>
       q.prev < nextId /\ log[q.prev].student \in {q.student, Nobody}
  /\ q.pc \in {"begun", "updated"} => q.ward \in WardIds
  /\ q.pc = "updated" => MayEdit(q)

\* Reads that are used later are still good for what they are used for (db.ts
\* createWardLog's previousAttemptId, updateWardLog's row lock).
RequestsOK ==
  /\ \A r \in Requests : SlotOK(req[r])
  /\ \A w \in WardIds : w >= nextId => ~Exists(w)

\* Whatever the requests in flight have read, the committed rows behave as
\* WardReview says (db.ts createWardLog, updateWardLog, deleteWardLog,
\* setWardLogStatus, setWardReviewTracks).
Committed == INSTANCE WardReview WITH ward <- log

ImplementsReview == Committed!Spec

\* Attempts form a chain that ends (db.ts createWardLog, the foreign key).
ChainWellFounded == Committed!ChainWellFounded

\* A decided ward keeps its row and what it records (db.ts updateWardLog).
DecidedIsFrozen == Committed!DecidedIsFrozen

\* An answer to a buddy request stands on a ward that exists, was given by
\* the pupil it was put to, and that pupil is never the one who asked; a
\* request put to another pupil starts unanswered (db.ts updateWardLog,
\* respondToBuddyRequest).
BuddyAnswersForSelf ==
  \A w \in WardIds :
    /\ buddy[w].status # "none" => /\ Exists(w)
                                   /\ buddy[w].who \in Students \ {log[w].student}
    /\ buddy[w].status \in {"confirmed", "declined"} => buddy[w].by = buddy[w].who
    /\ buddy[w].status \notin {"confirmed", "declined"} => buddy[w].by = Nobody

\* With buddy_reset_on_edit on, an edit that read the content it overwrites
\* and the answer that stands asks the buddy again when the content changes
\* (db.ts updateWardLog).
ResetOutsideRaces ==
  [][\A r \in Requests :
       LET q == req[r]  w == req[r].ward IN
       /\ CommitEdit(r)
       /\ q.old # Nothing
       /\ q.old = log[w].content
       /\ q.buddyRead = buddy[w]
       /\ q.content # log[w].content
       => buddy'[w].status \in {"none", "pending"}]_vars

\* What db.ts 1433-1435 says of the option: no confirmation remains for a
\* content that is no longer there.
NoStaleConfirmation ==
  [][\A r \in Requests :
       LET q == req[r]  w == req[r].ward IN
       /\ CommitEdit(r)
       /\ q.old # Nothing
       /\ q.content # log[w].content
       => buddy'[w].status \in {"none", "pending"}]_vars

\* What db.ts 1791-1793 says of a decision: no way back from an approval but
\* to open the ward again with a note.
NoSilentUnapproval ==
  [][\A w \in WardIds : log[w].status = "approved" =>
       log'[w].status \in {"approved", "needs_revision"}]_vars

=============================================================================
