------------------------------ MODULE Discipline ------------------------------
(***************************************************************************)
(* A student's violations and suspensions (lib/discipline-db.ts): each      *)
(* violation moves him up a ladder, one step of it suspends him for some    *)
(* days, the first page opened after them brings him back, and the mosque's *)
(* administration may dismiss him.  His teacher edits, deletes and brings   *)
(* back his row meanwhile, and a summary from another system is merged into *)
(* it (lib/db.ts).  Students share no row, so one is the whole model.       *)
(*                                                                          *)
(* A statement with WITH reads all it reads in the snapshot of its start,   *)
(* and its UPDATE waits for the row: applySuspension is therefore two steps,*)
(* what it saw and what it writes.                                          *)
(***************************************************************************)
EXTENDS Handlers, Naturals

CONSTANTS
  Steps,          \* VIOLATION_STEPS.length
  SuspendStep,    \* the step that suspends
  EscalateEvery,  \* escalateEvery, violations for each step
  MaxViolations   \* bound: violations recorded

ASSUME DisciplineAssumption ==
  /\ Steps \in Nat \ {0} /\ SuspendStep \in 1..Steps
  /\ EscalateEvery \in Nat

VARIABLES
  student,     \* his row: active, and deleted_at is set
  susp,        \* his open suspension, and whether its days are over
  violations,  \* how many violations he has
  recorder,    \* what each recorder has read and written
  intent,      \* history: the state his teacher or the administration gave him last
  known        \* history: what is left of the suspension when it ends is `intent`

disciplineVars == <<student, susp, violations, recorder, intent, known>>

NoSuspension == [open |-> FALSE, over |-> FALSE, prev |-> TRUE]

Recorder == [pc : {"idle", "counted", "inserted", "seen", "merging"}, prior : Nat, active : BOOLEAN]

NoRecorder == [pc |-> "idle", prior |-> 0, active |-> TRUE]

Recorded(w) == recorder' = [recorder EXCEPT ![w] = NoRecorder]

DisciplineInit ==
  /\ student = [active |-> TRUE, deleted |-> FALSE]
  /\ susp = NoSuspension
  /\ violations = 0
  /\ recorder = [w \in Workers |-> NoRecorder]
  /\ intent = TRUE
  /\ known = TRUE

-----------------------------------------------------------------------------
(* recordViolation                                                           *)

AtLeast(n, low) == IF n < low THEN low ELSE n
AtMost(n, high) == IF n > high THEN high ELSE n

\* violationStepForCount: n / escalateEvery rounded up, within the ladder
StepFor(n) ==
  LET every == AtLeast(EscalateEvery, 1)
  IN  AtMost(AtLeast((n + every - 1) \div every, 1), Steps)

\* count(*) of his violations
CountPrior(w) ==
  /\ recorder[w].pc = "idle"
  /\ violations < MaxViolations
  /\ recorder' = [recorder EXCEPT ![w] = [NoRecorder EXCEPT !.pc = "counted", !.prior = violations]]
  /\ UNCHANGED <<student, susp, violations, intent, known>>

\* INSERT ... SELECT FROM students WHERE deleted_at IS NULL
InsertViolation(w) ==
  /\ recorder[w].pc = "counted"
  /\ ~student.deleted
  /\ violations' = violations + 1
  /\ recorder' = [recorder EXCEPT ![w] =
       IF StepFor(recorder[w].prior + 1) = SuspendStep
       THEN [NoRecorder EXCEPT !.pc = "inserted"] ELSE NoRecorder]
  /\ UNCHANGED <<student, susp, intent, known>>

\* No such student: 404
RefuseViolation(w) ==
  /\ recorder[w].pc = "counted"
  /\ student.deleted
  /\ Recorded(w)
  /\ UNCHANGED <<student, susp, violations, intent, known>>

\* applySuspension: its snapshot
SeeStudent(w) ==
  /\ recorder[w].pc = "inserted"
  /\ IF student.deleted THEN Recorded(w)
     ELSE recorder' = [recorder EXCEPT ![w].pc = "seen", ![w].active = student.active]
  /\ UNCHANGED <<student, susp, violations, intent, known>>

\* The INSERT, which does nothing while one is open: uq_student_suspensions_active
BeginSuspension(prev) == IF susp.open THEN susp ELSE [open |-> TRUE, over |-> FALSE, prev |-> prev]

\* What it saw has changed when it writes: prev_active is not what it overwrites
SuspensionCrossed(w) == ~susp.open /\ recorder[w].active # student.active

\* applySuspension: what it writes
Suspend(w) ==
  /\ recorder[w].pc = "seen"
  /\ student' = [student EXCEPT !.active = FALSE]
  /\ susp' = BeginSuspension(recorder[w].active)
  /\ known' = (known /\ ~SuspensionCrossed(w))
  /\ Recorded(w)
  /\ UNCHANGED <<violations, intent>>

\* The process ends, or the database gives the statement up
RecorderDies(w) ==
  /\ recorder[w].pc # "idle"
  /\ Recorded(w)
  /\ UNCHANGED <<student, susp, violations, intent, known>>

-----------------------------------------------------------------------------
(* The end of a suspension, the dismissal, and the teacher's own hand        *)

\* until <= now()
DaysPass ==
  /\ susp.open /\ ~susp.over
  /\ susp' = [susp EXCEPT !.over = TRUE]
  /\ UNCHANGED <<student, violations, recorder, intent, known>>

\* Mutant: everybody whose suspension ended becomes active.
ReturnedActive ==
  IF student.deleted \/ student.active THEN student ELSE [student EXCEPT !.active = TRUE]

\* UPDATE students SET active = prev_active WHERE deleted_at IS NULL AND NOT active
Returned ==
  IF student.deleted \/ student.active THEN student ELSE [student EXCEPT !.active = susp.prev]

\* restoreExpiredSuspensions, when a page of the discipline is opened.  A deleted
\* student's suspension ends too, and he is not touched.
EndSuspension ==
  /\ susp.open /\ susp.over
  /\ student' = Returned
  /\ susp' = NoSuspension
  /\ known' = (known /\ ~student.deleted)
  /\ UNCHANGED <<violations, recorder, intent>>

\* dismissStudent
Dismiss ==
  /\ ~student.deleted
  /\ student' = [student EXCEPT !.active = FALSE]
  /\ susp' = NoSuspension
  /\ intent' = FALSE
  /\ known' = TRUE
  /\ UNCHANGED <<violations, recorder>>

\* upsertStudent: the whole row as the teacher's page held it, deleted or not
EditStudent ==
  /\ \E active \in BOOLEAN :
       /\ student' = [student EXCEPT !.active = active]
       /\ intent' = active
  /\ known' = ~susp.open
  /\ UNCHANGED <<susp, violations, recorder>>

\* applyLinkSummary reads the student, deleted or not
ReadForSummary(w) ==
  /\ recorder[w].pc = "idle"
  /\ recorder' = [recorder EXCEPT ![w] = [NoRecorder EXCEPT !.pc = "merging",
                                                         !.active = student.active]]
  /\ UNCHANGED <<student, susp, violations, intent, known>>

\* It writes the whole row back, `active` as it was read
MergeSummary(w) ==
  /\ recorder[w].pc = "merging"
  /\ student' = [student EXCEPT !.active = recorder[w].active]
  /\ known' = (known /\ recorder[w].active = student.active)
  /\ Recorded(w)
  /\ UNCHANGED <<susp, violations, intent>>

\* deleteStudent; restoreStudent, within a day
DeleteOrRestore ==
  /\ student' = [student EXCEPT !.deleted = ~@]
  /\ UNCHANGED <<susp, violations, recorder, intent, known>>

DisciplineNext ==
  \/ \E w \in Workers :
       \/ CountPrior(w) \/ InsertViolation(w) \/ RefuseViolation(w)
       \/ SeeStudent(w) \/ Suspend(w) \/ RecorderDies(w)
       \/ ReadForSummary(w) \/ MergeSummary(w)
  \/ DaysPass \/ EndSuspension \/ Dismiss \/ EditStudent \/ DeleteOrRestore

DisciplineSpec == DisciplineInit /\ [][DisciplineNext]_disciplineVars

-----------------------------------------------------------------------------
(* Properties                                                                *)

DisciplineTypeOK ==
  /\ student \in [active : BOOLEAN, deleted : BOOLEAN]
  /\ susp \in [open : BOOLEAN, over : BOOLEAN, prev : BOOLEAN]
  /\ violations \in Nat
  /\ recorder \in [Workers -> Recorder]
  /\ intent \in BOOLEAN /\ known \in BOOLEAN

\* A suspension takes nothing for good and gives nothing: outside it the student is
\* what his teacher or the administration made him last, a dismissed one too.  Not
\* known are an edit during the suspension, an end that found him deleted, and a
\* suspension or a merged summary that read him before a change and wrote after it
\* (applySuspension, restoreExpiredSuspensions, dismissStudent, applyLinkSummary).
SuspensionGivesBack ==
  /\ known /\ ~susp.open => student.active = intent
  /\ known /\ susp.open => ~student.active /\ susp.prev = intent

=============================================================================
