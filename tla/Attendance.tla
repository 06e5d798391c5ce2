------------------------------ MODULE Attendance ------------------------------
(***************************************************************************)
(* The attendance of one student (lib/attendance-db.ts, api/attendance,     *)
(* api/student/checkin) and the ladder of absences that grows on it         *)
(* (lib/discipline.ts, lib/discipline-db.ts, lib/discipline-notify.ts).     *)
(*                                                                          *)
(* A teacher's decision is one statement that reads the decision before it  *)
(* in its snapshot and waits for the row to write: two steps.  After the    *)
(* answer the parents are told of an absence of today that was none before, *)
(* then the ladder is run: it reads all decisions once, inserts the events  *)
(* that are due one at a time, and tells the parents of those that it       *)
(* inserted itself.  The page of the discipline runs the ladder too.        *)
(*                                                                          *)
(* Students share no row.  A late day counts as a present one; notes, the   *)
(* source of a check-in, and whether a push arrives are left out, and the   *)
(* feature of the discipline is on.                                         *)
(***************************************************************************)
EXTENDS Handlers, Naturals, FiniteSets

CONSTANTS
  Days,           \* bound: days of the model, 1..Days
  MaxSaves,       \* bound: decisions of teachers
  WarnStreak,     \* warn1ConsecutiveDays
  SummonsStreak,  \* summonsConsecutiveDays
  AlertStreak,    \* adminAlertConsecutiveDays
  WarnTerm,       \* warn2TermAbsences
  TermDays,       \* termDays
  GapDays         \* consecutiveGapDays

ASSUME AttendanceAssumption == Days \in Nat \ {0} /\ IsFiniteSet(Workers)

VARIABLES
  today,       \* riyadhTodayISO
  enrolled,    \* the student: active, not active, deleted
  decision,    \* attendance, by date
  ladder,      \* discipline_events of origin 'auto': uq_discipline_auto_absence keeps one of each
  teller,      \* what each handler has read
  toldAbsent,  \* history: pushes for an absence of today
  turned,      \* history: days that became absent, decisions that crossed another
  toldLadder,  \* history: notices of each event
  lost,        \* history: events whose handler ended before it told
  saves        \* decisions so far

attendanceVars ==
  <<today, enrolled, decision, ladder, teller, toldAbsent, turned, toldLadder, lost, saves>>

Dates == 1..Days

Decisions == {"none", "present", "excused", "absent"}

Events == {"warning", "summons", "second_warning", "admin_alert"}

\* notifyParent
ToldToParents == {"warning", "summons"}

\* day: today when the request came; before: the decision its snapshot saw; due: events it
\* has still to insert; mine: those it inserted
Teller == [pc : {"idle", "saving", "push", "ladder", "inserting"}, day : Dates, date : Dates,
           status : Decisions, before : Decisions, due : SUBSET Events, mine : SUBSET Events]

NoTeller == [pc |-> "idle", day |-> 1, date |-> 1, status |-> "none", before |-> "none",
             due |-> {}, mine |-> {}]

AttendanceInit ==
  /\ today = 1
  /\ enrolled = "active"
  /\ decision = [d \in Dates |-> "none"]
  /\ ladder = {}
  /\ teller = [w \in Workers |-> NoTeller]
  /\ toldAbsent = 0
  /\ turned = 0
  /\ toldLadder = [e \in Events |-> 0]
  /\ lost = {}
  /\ saves = 0

TellerAt(w, pc) == teller[w].pc = pc
Tells(w, next) == teller' = [teller EXCEPT ![w] = next]

-----------------------------------------------------------------------------
(* The decision of a day                                                    *)

\* PUT: the snapshot of setAttendance; a student who is not active is not found
SeeDecision(w) ==
  /\ TellerAt(w, "idle")
  /\ enrolled = "active"
  /\ saves < MaxSaves
  /\ saves' = saves + 1
  /\ \E d \in 1..today, s \in Decisions \ {"none"} :
       Tells(w, [NoTeller EXCEPT !.pc = "saving", !.day = today, !.date = d, !.status = s,
                                 !.before = decision[d]])
  /\ UNCHANGED <<today, enrolled, decision, ladder, toldAbsent, turned, toldLadder, lost>>

\* Mutant: every absence is told.
NewlyAbsentAlways(before, status) == status = "absent"

\* body.status === 'absent' && result.previous !== 'absent'
NewlyAbsent(before, status) == status = "absent" /\ before # "absent"

\* Its write, once the row is free, whatever it has become
WriteDecision(w) ==
  /\ TellerAt(w, "saving")
  /\ LET t == teller[w]
         now == decision[t.date]
         news == NewlyAbsent(t.before, t.status) /\ t.date = t.day
     IN  /\ decision' = [decision EXCEPT ![t.date] = t.status]
         /\ turned' = IF t.status = "absent" /\ (now # "absent" \/ t.before # now)
                      THEN turned + 1 ELSE turned
         /\ Tells(w, IF t.status # "absent" THEN NoTeller
                     ELSE [NoTeller EXCEPT !.pc = IF news THEN "push" ELSE "ladder", !.day = t.day])
  /\ UNCHANGED <<today, enrolled, ladder, toldAbsent, toldLadder, lost, saves>>

\* sendPushToParentsOfAbsence
TellAbsence(w) ==
  /\ TellerAt(w, "push")
  /\ toldAbsent' = toldAbsent + 1
  /\ Tells(w, [teller[w] EXCEPT !.pc = "ladder"])
  /\ UNCHANGED <<today, enrolled, decision, ladder, turned, toldLadder, lost, saves>>

\* markAllPresent, recordQrCheckin: ON CONFLICT DO NOTHING; the check-in is for today
MarkPresent ==
  /\ enrolled = "active"
  /\ \E d \in 1..today :
       /\ decision[d] = "none"
       /\ decision' = [decision EXCEPT ![d] = "present"]
  /\ UNCHANGED <<today, enrolled, ladder, teller, toldAbsent, turned, toldLadder, lost, saves>>

-----------------------------------------------------------------------------
(* The ladder                                                               *)

\* The decisions it reads: those of the last termDays days
Window(day) == {d \in 1..day : d + TermDays > day}
Absences(day) == {d \in Window(day) : decision[d] = "absent"}
Decided(day) == {d \in Window(day) : decision[d] # "none"}

\* absenceStats: the absences that no other decision and no gap parts from the latest one
Streak(day) ==
  {d \in Absences(day) :
     \A e \in Decided(day) : e > d =>
       /\ e \in Absences(day)
       /\ \E f \in Absences(day) : d <= f /\ f < e /\ e - f <= GapDays}

\* absenceLadderActions
LadderEvents(day) ==
  LET streak == Cardinality(Streak(day))
  IN  {e \in Events :
         \/ e = "summons" /\ streak >= SummonsStreak
         \/ e = "warning" /\ WarnStreak <= streak /\ streak < SummonsStreak
         \/ e = "second_warning" /\ Cardinality(Absences(day)) >= WarnTerm
         \/ e = "admin_alert" /\ streak >= AlertStreak}

\* runAbsenceLadder reads the decisions of a student who is not deleted; the page of the
\* discipline starts here
RunLadder(w) ==
  /\ TellerAt(w, "ladder") \/ TellerAt(w, "idle")
  /\ LET day == IF TellerAt(w, "idle") THEN today ELSE teller[w].day
     IN  Tells(w, IF enrolled = "deleted" THEN NoTeller
                  ELSE [NoTeller EXCEPT !.pc = "inserting", !.due = LadderEvents(day)])
  /\ UNCHANGED <<today, enrolled, decision, ladder, toldAbsent, turned, toldLadder, lost, saves>>

\* Mutant: whoever asks for an event has inserted it.
InsertedAsked(e) == {e}

\* ON CONFLICT DO NOTHING RETURNING id
Inserted(e) == IF e \in ladder \/ enrolled = "deleted" THEN {} ELSE {e}

\* insertAutoAbsenceEvent; the order of the events is left open
InsertEvent(w) ==
  /\ TellerAt(w, "inserting")
  /\ \E e \in teller[w].due :
       /\ ladder' = IF enrolled = "deleted" THEN ladder ELSE ladder \union {e}
       /\ Tells(w, [teller[w] EXCEPT !.due = @ \ {e}, !.mine = @ \union Inserted(e)])
  /\ UNCHANGED <<today, enrolled, decision, toldAbsent, turned, toldLadder, lost, saves>>

Notices(w) == teller[w].mine \intersect ToldToParents

\* notifyParentsOfLadderEvents
TellLadder(w) ==
  /\ TellerAt(w, "inserting")
  /\ teller[w].due = {}
  /\ toldLadder' = [e \in Events |-> IF e \in Notices(w) THEN toldLadder[e] + 1 ELSE toldLadder[e]]
  /\ Tells(w, NoTeller)
  /\ UNCHANGED <<today, enrolled, decision, ladder, toldAbsent, turned, lost, saves>>

\* The process ends, or a statement throws: what was inserted stays, and nobody tells it
StopTelling(w) ==
  /\ ~TellerAt(w, "idle")
  /\ lost' = lost \union Notices(w)
  /\ Tells(w, NoTeller)
  /\ UNCHANGED <<today, enrolled, decision, ladder, toldAbsent, turned, toldLadder, saves>>

-----------------------------------------------------------------------------
(* The calendar and the student                                             *)

NextDay ==
  /\ today < Days
  /\ today' = today + 1
  /\ UNCHANGED <<enrolled, decision, ladder, teller, toldAbsent, turned, toldLadder, lost, saves>>

\* upsertStudent, deleteStudent, restoreStudent
Enrol ==
  /\ enrolled' \in {"active", "inactive", "deleted"} \ {enrolled}
  /\ UNCHANGED <<today, decision, ladder, teller, toldAbsent, turned, toldLadder, lost, saves>>

AttendanceNext ==
  \/ \E w \in Workers :
       \/ SeeDecision(w) \/ WriteDecision(w) \/ TellAbsence(w)
       \/ RunLadder(w) \/ InsertEvent(w) \/ TellLadder(w) \/ StopTelling(w)
  \/ MarkPresent \/ NextDay \/ Enrol

AttendanceSpec == AttendanceInit /\ [][AttendanceNext]_attendanceVars

-----------------------------------------------------------------------------
(* Properties                                                               *)

AttendanceTypeOK ==
  /\ today \in Dates
  /\ enrolled \in {"active", "inactive", "deleted"}
  /\ decision \in [Dates -> Decisions]
  /\ ladder \subseteq Events
  /\ teller \in [Workers -> Teller]
  /\ toldAbsent \in Nat /\ turned \in Nat /\ saves \in Nat
  /\ toldLadder \in [Events -> Nat]
  /\ lost \subseteq Events

Telling == {w \in Workers : TellerAt(w, "push")}

\* The parents are told of an absence once for each time a day became one; a decision
\* that crossed another, and took what it overwrote for something else, may tell it once
\* more (setAttendance, attendance-db.ts 65-86; api/attendance/route.ts 86-97).
AbsenceToldOnce == toldAbsent + Cardinality(Telling) <= turned

Tellers(e) == {w \in Workers : e \in teller[w].mine}

\* An event of the ladder that parents hear of is told by one handler: by the time it is
\* in the table it was told once, or one handler has it to tell, or it ended before it
\* did, and no later run of the ladder tells it (runAbsenceLadder, discipline-db.ts
\* 229-273; notifyParentsOfLadderEvents).
LadderToldOnce ==
  \A e \in ToldToParents :
    toldLadder[e] + Cardinality(Tellers(e)) + (IF e \in lost THEN 1 ELSE 0)
      = IF e \in ladder THEN 1 ELSE 0

=============================================================================
