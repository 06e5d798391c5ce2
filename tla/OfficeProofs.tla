------------------------------ MODULE OfficeProofs ------------------------------
(***************************************************************************)
(* What holds of nine registers of the office for any number of handlers:   *)
(* the fees' books, the suspensions, the links of mosques and associations, *)
(* the visits of the supervisors, the notices of absences, the log of a     *)
(* permit, the proposals of the assistant, the founding of mosques and the  *)
(* recitations with their reviews.  Each has an invariant that ties what    *)
(* its handlers have read to what the rows have become.  The tenth register *)
(* is the account of a teacher (TeacherAccountProofs); at the end what each *)
(* of the ten keeps is shown of the office they make up.                    *)
(***************************************************************************)
EXTENDS MCOffice, TeacherAccountProofs, FiniteSetTheorems, TLAPS

-----------------------------------------------------------------------------
(* Fees                                                                     *)

\* Who holds the row holds it alone, and has computed what the fee will have paid from
\* what it has; a fee that is absent has paid nothing.
Locked(w) == feeJob[w].pc = "locked"

RowHeld ==
  /\ \A w \in Workers : Locked(w) =>
       /\ fee.status \in {"due", "partial"}
       /\ feeJob[w].paid = fee.paid + feeJob[w].amount
       /\ feeJob[w].amount > 0 /\ feeJob[w].paid <= fee.due
  /\ \A v, w \in Workers : Locked(v) /\ Locked(w) => v = w
  /\ fee.status = "absent" => fee.paid = 0

FeeInv == FeeTypeOK /\ BooksAgree /\ RowHeld

\* The invariant holds at the start.
LEMMA FeeInitInv == FeeInit => FeeInv
<1> SUFFICES ASSUME FeeInit PROVE FeeInv
  OBVIOUS
<1>1. 0 \in Amounts /\ MaxAmount \in Amounts
  BY FeesAssumption DEF Amounts
<1>2. FeeTypeOK
  BY <1>1 DEF FeeInit, FeeTypeOK, Plan, Fee, NoFee, FeeStatuses, FeeJob, NoFeeJob
<1>3. BooksAgree /\ RowHeld
  BY DEF FeeInit, BooksAgree, RowHeld, Locked, NoFee, NoFeeJob
<1> QED
  BY <1>2, <1>3 DEF FeeInv

\* A handler that ends holds nothing.
LEMMA FeeDoneStep ==
  ASSUME FeeTypeOK, NEW w \in Workers, FeeDone(w)
  PROVE  /\ feeJob' \in [Workers -> FeeJob] /\ ~Locked(w)'
         /\ \A v \in Workers : v # w => feeJob'[v] = feeJob[v]
<1>1. NoFeeJob \in FeeJob /\ NoFeeJob.pc = "idle"
  BY FeesAssumption DEF NoFeeJob, FeeJob, Amounts
<1> QED
  BY <1>1 DEF FeeTypeOK, FeeDone, Locked

\* While a handler has read and not locked, the row is as it was.
LEMMA FeeReads ==
  ASSUME FeeInv, NEW w \in Workers, ReadPlan(w) \/ AskWaiver(w) \/ AbortFee(w) PROVE FeeInv'
<1>1. UNCHANGED <<plan, fee, received, forgiven>>
  BY DEF ReadPlan, AskWaiver, AbortFee
<1>2. PICK j : feeJob' = [feeJob EXCEPT ![w] = j] /\ j \in FeeJob /\ j.pc # "locked"
  <2>1. CASE ReadPlan(w)
    <3> PICK a \in Amounts : a = plan.amount
      BY DEF FeeInv, FeeTypeOK, Plan
    <3> PICK j : j = [NoFeeJob EXCEPT !.pc = "planned", !.amount = a]
      OBVIOUS
    <3>1. 0 \in Amounts
      BY FeesAssumption DEF Amounts
    <3>2. j \in FeeJob /\ j.pc = "planned"
      BY <3>1 DEF NoFeeJob, FeeJob
    <3> QED
      BY <2>1, <3>2 DEF ReadPlan
  <2>2. CASE AskWaiver(w)
    <3> PICK j : j = [NoFeeJob EXCEPT !.pc = "waiving"]
      OBVIOUS
    <3>1. j \in FeeJob /\ j.pc = "waiving"
      BY FeesAssumption DEF NoFeeJob, FeeJob, Amounts
    <3> QED
      BY <2>2, <3>1 DEF AskWaiver
  <2>3. CASE AbortFee(w)
    <3>1. NoFeeJob \in FeeJob /\ NoFeeJob.pc = "idle"
      BY FeesAssumption DEF NoFeeJob, FeeJob, Amounts
    <3> QED
      BY <2>3, <3>1 DEF AbortFee, FeeDone
  <2> QED
    BY <2>1, <2>2, <2>3
<1>3. \A v \in Workers : Locked(v)' => Locked(v) /\ feeJob'[v] = feeJob[v]
  BY <1>2 DEF FeeInv, FeeTypeOK, Locked
<1>4. FeeTypeOK'
  BY <1>1, <1>2 DEF FeeInv, FeeTypeOK
<1> QED
  BY <1>1, <1>3, <1>4 DEF FeeInv, BooksAgree, RowHeld

\* The dues are written where there is no row.
LEMMA DuesInv == ASSUME FeeInv, NEW w \in Workers, InsertDues(w) PROVE FeeInv'
<1>1. FeeDone(w) /\ fee' = Dues(feeJob[w].amount) /\ UNCHANGED <<plan, received, forgiven>>
  BY DEF InsertDues
<1>2. PICK a \in Amounts : a = feeJob[w].amount
  BY DEF FeeInv, FeeTypeOK, FeeJob
<1>3. a \in Nat
  BY <1>2, FeesAssumption DEF Amounts
<1>4. \A v \in Workers : Locked(v)' => Locked(v) /\ feeJob'[v] = feeJob[v]
  BY <1>1, FeeDoneStep DEF FeeInv, Locked
<1>5. fee \in Fee /\ fee.paid = received /\ (fee.status = "absent" => fee.paid = 0)
  BY DEF FeeInv, FeeTypeOK, BooksAgree, RowHeld
<1>6. CASE fee.status = "absent"
  <2>1. fee' = [status |-> IF a = 0 THEN "paid" ELSE "due", due |-> a, paid |-> 0]
    BY <1>1, <1>2, <1>6 DEF Dues
  <2>2. /\ fee' \in Fee /\ fee'.due = a /\ fee'.paid = 0
        /\ fee'.status = IF a = 0 THEN "paid" ELSE "due"
    BY <1>2, <1>3, <2>1, FeesAssumption DEF Fee, FeeStatuses, Amounts
  <2>3. FeeTypeOK'
    BY <1>1, <2>2, FeeDoneStep DEF FeeInv, FeeTypeOK
  <2>4. ~forgiven
    BY <1>6 DEF FeeInv, BooksAgree
  <2>5. BooksAgree'
    BY <1>1, <1>3, <1>5, <1>6, <2>2, <2>4 DEF BooksAgree, StatusOf
  <2>6. \A v \in Workers : ~Locked(v)'
    BY <1>4, <1>6 DEF FeeInv, RowHeld
  <2> QED
    BY <2>2, <2>3, <2>5, <2>6 DEF FeeInv, RowHeld
<1>7. CASE fee.status # "absent"
  <2>1. fee' = fee
    BY <1>1, <1>7 DEF Dues
  <2>2. FeeTypeOK'
    BY <1>1, <2>1, FeeDoneStep DEF FeeInv, FeeTypeOK
  <2> QED
    BY <1>1, <1>4, <2>1, <2>2 DEF FeeInv, BooksAgree, RowHeld
<1> QED
  BY <1>6, <1>7

\* A payment locks the row that nobody holds.
LEMMA TakeInv == ASSUME FeeInv, NEW w \in Workers, TakePayment(w) PROVE FeeInv'
<1>1. PICK amount \in 1..MaxAmount :
        /\ fee.paid + amount <= fee.due
        /\ feeJob' = [feeJob EXCEPT ![w] =
             [pc |-> "locked", amount |-> amount, paid |-> fee.paid + amount]]
  BY DEF TakePayment, Payable
<1>2. /\ UNCHANGED <<plan, fee, received, forgiven>> /\ fee.status \in {"due", "partial"}
      /\ \A v \in Workers : ~Locked(v)
  BY DEF TakePayment, FeeUnlocked, FeeLocked, FeeJobAt, Locked
<1>3. fee.paid \in Nat /\ fee.due \in Nat /\ fee.due <= MaxAmount
  BY FeesAssumption DEF FeeInv, FeeTypeOK, Fee, Amounts
<1>4. PICK p \in Amounts : p = fee.paid + amount
  BY <1>1, <1>3, FeesAssumption DEF Amounts
<1> PICK j : j = [pc |-> "locked", amount |-> amount, paid |-> p]
  OBVIOUS
<1>5. j \in FeeJob /\ j.pc = "locked" /\ j.amount = amount /\ j.paid = p
  BY FeesAssumption DEF FeeJob, Amounts
<1>6. feeJob'[w] = j /\ (\A v \in Workers : v # w => feeJob'[v] = feeJob[v]) /\ feeJob' \in [Workers -> FeeJob]
  BY <1>1, <1>4, <1>5 DEF FeeInv, FeeTypeOK
<1>7. FeeTypeOK' /\ BooksAgree'
  BY <1>2, <1>6 DEF FeeInv, FeeTypeOK, BooksAgree
<1>8. \A v \in Workers : Locked(v)' => v = w
  BY <1>2, <1>6 DEF Locked
<1>9. fee'.status \in {"due", "partial"} /\ j.paid = fee'.paid + j.amount /\ j.amount > 0 /\ j.paid <= fee'.due
  BY <1>1, <1>2, <1>4, <1>5
<1> QED
  BY <1>6, <1>7, <1>8, <1>9 DEF FeeInv, RowHeld

\* A payment and its fee are written together.
LEMMA CommitInv == ASSUME FeeInv, NEW w \in Workers, CommitPayment(w) PROVE FeeInv'
<1>1. Locked(w) /\ FeeDone(w) /\ UNCHANGED <<plan, forgiven>> /\ received' = received + feeJob[w].amount
  BY DEF CommitPayment, FeeJobAt, Locked
<1>2. PICK a \in Amounts, p \in Amounts : a = feeJob[w].amount /\ p = feeJob[w].paid
  BY DEF FeeInv, FeeTypeOK, FeeJob
<1>3. a \in Nat /\ p \in Nat
  BY FeesAssumption DEF Amounts
<1>4. p = fee.paid + a /\ a > 0 /\ p <= fee.due /\ fee.status \in {"due", "partial"}
  BY <1>1, <1>2 DEF FeeInv, RowHeld
<1> PICK s : s = StatusOf(fee.due, p)
  OBVIOUS
<1>5. s \in {"paid", "partial", "due"}
  BY DEF StatusOf
<1>6. fee' = [fee EXCEPT !.paid = p, !.status = s] /\ fee \in Fee
  BY <1>2 DEF CommitPayment, FeeInv, FeeTypeOK
<1>7. fee' \in Fee /\ fee'.paid = p /\ fee'.status = s /\ fee'.due = fee.due
  BY <1>5, <1>6 DEF Fee, FeeStatuses
<1>8. fee.due \in Nat /\ fee.paid \in Nat /\ received = fee.paid /\ ~forgiven
  BY <1>4, <1>6, FeesAssumption DEF FeeInv, BooksAgree, Fee, Amounts
<1>9. FeeTypeOK'
  BY <1>1, <1>2, <1>3, <1>7, <1>8, FeeDoneStep DEF FeeInv, FeeTypeOK
<1>10. BooksAgree'
  BY <1>1, <1>2, <1>3, <1>4, <1>7, <1>8 DEF BooksAgree
<1>11. \A v \in Workers : ~Locked(v)'
  BY <1>1, FeeDoneStep DEF FeeInv, RowHeld, Locked
<1> QED
  BY <1>5, <1>7, <1>9, <1>10, <1>11 DEF FeeInv, RowHeld

\* A waiver finds the fee unpaid.
LEMMA WaiveInv == ASSUME FeeInv, NEW w \in Workers, Waive(w) PROVE FeeInv'
<1>1. FeeDone(w) /\ UNCHANGED <<plan, received>> /\ \A v \in Workers : ~Locked(v)
  BY DEF Waive, FeeUnlocked, FeeLocked, FeeJobAt, Locked
<1>2. \A v \in Workers : ~Locked(v)'
  BY <1>1, FeeDoneStep DEF FeeInv, Locked
<1>3. fee \in Fee /\ fee.paid \in Nat /\ fee.due \in Nat
  BY FeesAssumption DEF FeeInv, FeeTypeOK, Fee, Amounts
<1>4. CASE StillWaivable
  <2>1. fee' = [fee EXCEPT !.status = "waived"] /\ forgiven' = TRUE
    BY <1>4 DEF Waive
  <2>2. fee' \in Fee /\ fee'.status = "waived" /\ fee'.paid = fee.paid /\ fee'.due = fee.due
    BY <1>3, <2>1 DEF Fee, FeeStatuses
  <2>3. fee.paid < fee.due
    BY <1>3, <1>4 DEF FeeInv, BooksAgree, StillWaivable, StatusOf
  <2>4. FeeTypeOK' /\ BooksAgree'
    BY <1>1, <2>1, <2>2, <2>3, FeeDoneStep DEF FeeInv, FeeTypeOK, BooksAgree
  <2> QED
    BY <1>2, <2>2, <2>4 DEF FeeInv, RowHeld
<1>5. CASE ~StillWaivable
  <2>1. UNCHANGED <<fee, forgiven>>
    BY <1>5 DEF Waive
  <2>2. FeeTypeOK' /\ BooksAgree'
    BY <1>1, <2>1, FeeDoneStep DEF FeeInv, FeeTypeOK, BooksAgree
  <2> QED
    BY <1>2, <2>1, <2>2 DEF FeeInv, RowHeld
<1> QED
  BY <1>4, <1>5

\* Every step of the fees keeps the invariant.
LEMMA FeeStep == FeeInv /\ [FeeNext]_feeVars => FeeInv'
<1> SUFFICES ASSUME FeeInv, [FeeNext]_feeVars PROVE FeeInv'
  OBVIOUS
<1>1. CASE UNCHANGED feeVars
  BY <1>1 DEF feeVars, FeeInv, FeeTypeOK, BooksAgree, RowHeld, Locked
<1>2. CASE EditPlan
  BY <1>2 DEF EditPlan, FeeInv, FeeTypeOK, BooksAgree, RowHeld, Locked
<1>3. ASSUME NEW w \in Workers,
             \/ ReadPlan(w) \/ InsertDues(w) \/ TakePayment(w) \/ CommitPayment(w)
             \/ AskWaiver(w) \/ Waive(w) \/ AbortFee(w)
      PROVE  FeeInv'
  BY <1>3, FeeReads, DuesInv, TakeInv, CommitInv, WaiveInv
<1> QED
  BY <1>1, <1>2, <1>3 DEF FeeNext

\* The invariant holds throughout.
LEMMA FeeInvariant == FeeSpec => []FeeInv
<1>1. FeeInv /\ [FeeNext]_feeVars => FeeInv'
  BY FeeStep
<1> QED
  BY FeeInitInv, <1>1, PTL DEF FeeSpec

\* Payments, waivers and new dues at once leave the books right (fees-db.ts).
THEOREM BooksStayRight == FeeSpec => []BooksAgree
<1>1. FeeInv => BooksAgree
  BY DEF FeeInv
<1> QED
  BY FeeInvariant, <1>1, PTL

-----------------------------------------------------------------------------
(* Suspensions                                                              *)

Student == [active : BOOLEAN, deleted : BOOLEAN]
Suspension == [open : BOOLEAN, over : BOOLEAN, prev : BOOLEAN]

DisciplineInv == DisciplineTypeOK /\ SuspensionGivesBack

\* The invariant holds at the start.
LEMMA DisciplineInitInv == DisciplineInit => DisciplineInv
  BY DEF DisciplineInit, DisciplineInv, DisciplineTypeOK, SuspensionGivesBack, NoSuspension,
     Recorder, NoRecorder

\* A recorder that ends has read nothing.
LEMMA RecordedTyped ==
  ASSUME DisciplineTypeOK, NEW w \in Workers, Recorded(w) PROVE recorder' \in [Workers -> Recorder]
<1>1. NoRecorder \in Recorder
  BY DEF NoRecorder, Recorder
<1> QED
  BY <1>1 DEF DisciplineTypeOK, Recorded

\* Steps of a recorder before it writes the student.
LEMMA RecorderReads ==
  ASSUME DisciplineInv, NEW w \in Workers,
         \/ CountPrior(w) \/ InsertViolation(w) \/ RefuseViolation(w) \/ SeeStudent(w)
         \/ RecorderDies(w) \/ ReadForSummary(w)
  PROVE  DisciplineInv'
<1>1. UNCHANGED <<student, susp, intent, known>>
  BY DEF CountPrior, InsertViolation, RefuseViolation, SeeStudent, RecorderDies, ReadForSummary
<1>2. violations' \in Nat
  BY DEF CountPrior, InsertViolation, RefuseViolation, SeeStudent, RecorderDies, ReadForSummary,
     DisciplineInv, DisciplineTypeOK
<1>3. recorder' \in [Workers -> Recorder]
  <2>1. CASE CountPrior(w)
    <3> PICK n \in Nat : n = violations
      BY DEF DisciplineInv, DisciplineTypeOK
    <3> PICK q : q = [NoRecorder EXCEPT !.pc = "counted", !.prior = n]
      OBVIOUS
    <3>1. q \in Recorder
      BY DEF NoRecorder, Recorder
    <3> QED
      BY <2>1, <3>1 DEF CountPrior, DisciplineInv, DisciplineTypeOK
  <2>2. CASE InsertViolation(w)
    <3>1. [NoRecorder EXCEPT !.pc = "inserted"] \in Recorder /\ NoRecorder \in Recorder
      BY DEF NoRecorder, Recorder
    <3> QED
      BY <2>2, <3>1 DEF InsertViolation, DisciplineInv, DisciplineTypeOK
  <2>3. CASE RefuseViolation(w) \/ RecorderDies(w)
    BY <2>3, RecordedTyped DEF RefuseViolation, RecorderDies, DisciplineInv
  <2>4. CASE SeeStudent(w) /\ student.deleted
    BY <2>4, RecordedTyped DEF SeeStudent, DisciplineInv
  <2>5. CASE SeeStudent(w) /\ ~student.deleted
    <3> PICK a \in BOOLEAN, x \in Recorder : a = student.active /\ x = recorder[w]
      BY DEF DisciplineInv, DisciplineTypeOK
    <3> PICK q : q = [x EXCEPT !.pc = "seen", !.active = a]
      OBVIOUS
    <3>1. q \in Recorder
      BY DEF Recorder
    <3>2. recorder' = [recorder EXCEPT ![w] = q]
      BY <2>5 DEF SeeStudent, DisciplineInv, DisciplineTypeOK
    <3> QED
      BY <3>1, <3>2 DEF DisciplineInv, DisciplineTypeOK
  <2>6. CASE ReadForSummary(w)
    <3> PICK a \in BOOLEAN : a = student.active
      BY DEF DisciplineInv, DisciplineTypeOK
    <3> PICK q : q = [NoRecorder EXCEPT !.pc = "merging", !.active = a]
      OBVIOUS
    <3>1. q \in Recorder
      BY DEF NoRecorder, Recorder
    <3> QED
      BY <2>6, <3>1 DEF ReadForSummary, DisciplineInv, DisciplineTypeOK
  <2> QED
    BY <2>1, <2>2, <2>3, <2>4, <2>5, <2>6
<1> QED
  BY <1>1, <1>2, <1>3 DEF DisciplineInv, DisciplineTypeOK, SuspensionGivesBack

\* The suspension keeps what it overwrites, unless it crossed another change.
LEMMA SuspendInv == ASSUME DisciplineInv, NEW w \in Workers, Suspend(w) PROVE DisciplineInv'
<1>1. /\ student' = [student EXCEPT !.active = FALSE]
      /\ susp' = BeginSuspension(recorder[w].active)
      /\ known' = (known /\ ~SuspensionCrossed(w))
      /\ Recorded(w) /\ UNCHANGED <<violations, intent>>
  BY DEF Suspend
<1>2. /\ student \in Student /\ susp \in Suspension /\ recorder[w].active \in BOOLEAN
      /\ known \in BOOLEAN /\ intent \in BOOLEAN
  BY DEF DisciplineInv, DisciplineTypeOK, Student, Suspension, Recorder
<1>3. student' \in Student /\ student'.active = FALSE
  BY <1>1, <1>2 DEF Student
<1>4. susp' \in Suspension /\ susp'.open
  BY <1>1, <1>2 DEF BeginSuspension, Suspension
<1>5. known' \in BOOLEAN /\ (known' => known)
  BY <1>1, <1>2
<1>6. known' => susp'.prev = intent
  <2>1. CASE susp.open
    BY <1>1, <1>5, <2>1 DEF BeginSuspension, DisciplineInv, SuspensionGivesBack
  <2>2. CASE ~susp.open
    <3>1. susp'.prev = recorder[w].active
      BY <1>1, <2>2 DEF BeginSuspension
    <3>2. known' => known /\ recorder[w].active = student.active
      BY <1>1, <2>2 DEF SuspensionCrossed
    <3> QED
      BY <2>2, <3>1, <3>2 DEF DisciplineInv, SuspensionGivesBack
  <2> QED
    BY <2>1, <2>2
<1>7. DisciplineTypeOK'
  BY <1>1, <1>3, <1>4, <1>5, RecordedTyped DEF DisciplineInv, DisciplineTypeOK, Student, Suspension
<1> QED
  BY <1>1, <1>3, <1>4, <1>6, <1>7 DEF DisciplineInv, SuspensionGivesBack

\* A summary that read what the row still says changes nothing.
LEMMA MergeInv == ASSUME DisciplineInv, NEW w \in Workers, MergeSummary(w) PROVE DisciplineInv'
<1> PICK a : a = recorder[w].active
  OBVIOUS
<1>1. /\ student' = [student EXCEPT !.active = a] /\ known' = (known /\ a = student.active)
      /\ Recorded(w) /\ UNCHANGED <<susp, violations, intent>>
  BY DEF MergeSummary
<1>2. student \in Student /\ a \in BOOLEAN
  BY DEF DisciplineInv, DisciplineTypeOK, Student, Recorder
<1>3. student' \in Student /\ student'.active = a
  BY <1>1, <1>2 DEF Student
<1>4. DisciplineTypeOK'
  BY <1>1, <1>3, RecordedTyped DEF DisciplineInv, DisciplineTypeOK, Student
<1> QED
  BY <1>1, <1>3, <1>4 DEF DisciplineInv, SuspensionGivesBack

\* Nobody's recording: the days, the end, the dismissal and the teacher's hand.
LEMMA HandsInv ==
  ASSUME DisciplineInv, DaysPass \/ EndSuspension \/ Dismiss \/ EditStudent \/ DeleteOrRestore
  PROVE  DisciplineInv'
<1>1. /\ student \in Student /\ susp \in Suspension /\ known \in BOOLEAN /\ intent \in BOOLEAN
      /\ UNCHANGED <<violations, recorder>> /\ NoSuspension \in Suspension /\ ~NoSuspension.open
  BY DEF DaysPass, EndSuspension, Dismiss, EditStudent, DeleteOrRestore, DisciplineInv,
     DisciplineTypeOK, Student, Suspension, NoSuspension
<1>2. CASE DaysPass
  <2>1. susp' = [susp EXCEPT !.over = TRUE] /\ UNCHANGED <<student, intent, known>>
    BY <1>2 DEF DaysPass
  <2>2. susp' \in Suspension /\ susp'.open = susp.open /\ susp'.prev = susp.prev
    BY <1>1, <2>1 DEF Suspension
  <2> QED
    BY <1>1, <2>1, <2>2 DEF DisciplineInv, DisciplineTypeOK, SuspensionGivesBack, Suspension
<1>3. CASE EndSuspension
  <2>1. /\ student' = Returned /\ susp' = NoSuspension /\ known' = (known /\ ~student.deleted)
        /\ susp.open /\ UNCHANGED intent
    BY <1>3 DEF EndSuspension
  <2>2. student' \in Student
    BY <1>1, <2>1 DEF Returned, Student, Suspension
  <2>3. known' => student'.active = intent
    BY <1>1, <2>1 DEF Returned, Student, DisciplineInv, SuspensionGivesBack
  <2>4. known' \in BOOLEAN
    BY <2>1
  <2> QED
    BY <1>1, <2>1, <2>2, <2>3, <2>4 DEF DisciplineInv, DisciplineTypeOK, SuspensionGivesBack,
       Student, Suspension
<1>4. CASE Dismiss
  <2>1. /\ student' = [student EXCEPT !.active = FALSE] /\ susp' = NoSuspension
        /\ intent' = FALSE /\ known' = TRUE
    BY <1>4 DEF Dismiss
  <2>2. student' \in Student /\ student'.active = FALSE
    BY <1>1, <2>1 DEF Student
  <2> QED
    BY <1>1, <2>1, <2>2 DEF DisciplineInv, DisciplineTypeOK, SuspensionGivesBack, Student, Suspension
<1>5. CASE EditStudent
  <2> PICK a \in BOOLEAN : student' = [student EXCEPT !.active = a] /\ intent' = a
    BY <1>5 DEF EditStudent
  <2>1. susp' = susp /\ known' = ~susp.open
    BY <1>5 DEF EditStudent
  <2>2. student' \in Student /\ student'.active = a
    BY <1>1 DEF Student
  <2> QED
    BY <1>1, <2>1, <2>2 DEF DisciplineInv, DisciplineTypeOK, SuspensionGivesBack, Student, Suspension
<1>6. CASE DeleteOrRestore
  <2>1. student' = [student EXCEPT !.deleted = ~student.deleted] /\ UNCHANGED <<susp, intent, known>>
    BY <1>1, <1>6 DEF DeleteOrRestore, Student
  <2>2. student' \in Student /\ student'.active = student.active
    BY <1>1, <2>1 DEF Student
  <2> QED
    BY <1>1, <2>1, <2>2 DEF DisciplineInv, DisciplineTypeOK, SuspensionGivesBack, Student, Suspension
<1> QED
  BY <1>2, <1>3, <1>4, <1>5, <1>6

\* Every step of the discipline keeps the invariant.
LEMMA DisciplineStep == DisciplineInv /\ [DisciplineNext]_disciplineVars => DisciplineInv'
<1> SUFFICES ASSUME DisciplineInv, [DisciplineNext]_disciplineVars PROVE DisciplineInv'
  OBVIOUS
<1>1. CASE UNCHANGED disciplineVars
  BY <1>1 DEF disciplineVars, DisciplineInv, DisciplineTypeOK, SuspensionGivesBack
<1>2. ASSUME NEW w \in Workers,
             \/ CountPrior(w) \/ InsertViolation(w) \/ RefuseViolation(w)
             \/ SeeStudent(w) \/ Suspend(w) \/ RecorderDies(w)
             \/ ReadForSummary(w) \/ MergeSummary(w)
      PROVE  DisciplineInv'
  BY <1>2, RecorderReads, SuspendInv, MergeInv
<1>3. CASE DaysPass \/ EndSuspension \/ Dismiss \/ EditStudent \/ DeleteOrRestore
  BY <1>3, HandsInv
<1> QED
  BY <1>1, <1>2, <1>3 DEF DisciplineNext

\* The invariant holds throughout.
LEMMA DisciplineInvariant == DisciplineSpec => []DisciplineInv
<1>1. DisciplineInv /\ [DisciplineNext]_disciplineVars => DisciplineInv'
  BY DisciplineStep
<1> QED
  BY DisciplineInitInv, <1>1, PTL DEF DisciplineSpec

\* A suspension gives back what it took, and no more (discipline-db.ts).
THEOREM SuspensionsGiveBack == DisciplineSpec => []SuspensionGivesBack
<1>1. DisciplineInv => SuspensionGivesBack
  BY DEF DisciplineInv
<1> QED
  BY DisciplineInvariant, <1>1, PTL

-----------------------------------------------------------------------------
(* Mosques and associations                                                 *)

\* A transaction that has locked a link knows that it is pending, and is alone with it.
LinkHeld ==
  /\ \A w \in Workers : Holds(w, {"accepting", "declining"}) =>
       linkTx[w].with \in Associations /\ links[linkTx[w].with].status = "pending"
  /\ \A v, w \in Workers :
       (/\ Holds(v, {"accepting", "declining"}) /\ Holds(w, {"accepting", "declining"})
        /\ linkTx[v].with = linkTx[w].with) => v = w

\* One that has locked the mosque knows that it is not of the association it asks for.
MosqueHeld ==
  \A w \in Workers : Holds(w, {"asking"}) =>
    linkTx[w].with \in Associations /\ mosque.association # linkTx[w].with /\ MosqueExists

\* A link put the mosque where it is, or the developer; a registration makes it once.
Registered ==
  /\ mosque.by = "link" => mosque.association \in Associations
  /\ registration.status = "pending" => registration.made = 0

AffiliationInv == AffiliationTypeOK /\ MembershipAgreed /\ LinkHeld /\ MosqueHeld /\ Registered

\* The invariant holds at the start.
LEMMA AffiliationInitInv == AffiliationInit => AffiliationInv
<1> SUFFICES ASSUME AffiliationInit PROVE AffiliationInv
  OBVIOUS
<1>1. AffiliationTypeOK
  BY DEF AffiliationInit, AffiliationTypeOK, Registration, Mosque, Link, NoLink, LinkTx, NoLinkTx
<1>2. MembershipAgreed /\ Registered
  BY DEF AffiliationInit, MembershipAgreed, Registered
<1>3. LinkHeld /\ MosqueHeld
  BY DEF AffiliationInit, LinkHeld, MosqueHeld, Holds, NoLinkTx
<1> QED
  BY <1>1, <1>2, <1>3 DEF AffiliationInv

\* A transaction that ends holds nothing.
LEMMA CloseStep ==
  ASSUME AffiliationTypeOK, NEW w \in Workers, Close(w)
  PROVE  /\ linkTx' \in [Workers -> LinkTx] /\ linkTx'[w].pc = "idle"
         /\ \A v \in Workers : v # w => linkTx'[v] = linkTx[v]
<1>1. NoLinkTx \in LinkTx /\ NoLinkTx.pc = "idle"
  BY DEF NoLinkTx, LinkTx
<1> QED
  BY <1>1 DEF AffiliationTypeOK, Close

\* One that begins holds what it began with.
LEMMA BeginStep ==
  ASSUME AffiliationTypeOK, NEW w \in Workers, NEW a \in Associations,
         NEW pc \in {"asking", "accepting", "declining"}, Begin(w, pc, a)
  PROVE  /\ linkTx' \in [Workers -> LinkTx] /\ linkTx'[w].pc = pc /\ linkTx'[w].with = a
         /\ \A v \in Workers : v # w => linkTx'[v] = linkTx[v]
  BY DEF AffiliationTypeOK, Begin, LinkTx

\* The registration, and the developer's hand.
LEMMA DeveloperInv ==
  ASSUME AffiliationInv, ApproveRegistration \/ RejectRegistration \/ SetAssociation
  PROVE  AffiliationInv'
<1>1. CASE ApproveRegistration
  <2>1. /\ Undecided /\ registration' = [status |-> "approved", made |-> registration.made + 1]
        /\ UNCHANGED linkTx
    BY <1>1 DEF ApproveRegistration
  <2> PICK set \in Associations \union {None}, asked \in Associations \union {None} :
        /\ mosque' = [association |-> set, by |-> "developer"]
        /\ links' = IF set = None /\ asked # None /\ links[asked].status = "absent"
                    THEN [links EXCEPT ![asked] = Pending("mosque")] ELSE links
    BY <1>1 DEF ApproveRegistration
  <2>2. registration.made = 0
    BY <2>1 DEF Undecided, AffiliationInv, Registered
  <2>3. registration' \in Registration /\ registration'.made = 1 /\ registration'.status = "approved"
    BY <2>1, <2>2 DEF Registration
  <2>4. links' \in [Associations -> Link]
    BY DEF AffiliationInv, AffiliationTypeOK, Pending, Link
  <2>5. \A a \in Associations : links[a].status = "pending" => links'[a].status = "pending"
    BY DEF AffiliationInv, AffiliationTypeOK, Pending
  <2>6. mosque' \in Mosque /\ mosque'.by = "developer"
    BY DEF Mosque
  <2>7. \A w \in Workers : ~Holds(w, {"asking"})
    BY <2>2 DEF AffiliationInv, MosqueHeld, MosqueExists
  <2>8. AffiliationTypeOK'
    BY <2>1, <2>3, <2>4, <2>6 DEF AffiliationInv, AffiliationTypeOK
  <2> QED
    BY <2>1, <2>3, <2>5, <2>6, <2>7, <2>8
    DEF AffiliationInv, MembershipAgreed, LinkHeld, MosqueHeld, Registered, Holds
<1>2. CASE RejectRegistration
  <2>1. /\ registration' = [registration EXCEPT !.status = "rejected"]
        /\ UNCHANGED <<mosque, links, linkTx>> /\ registration \in Registration
    BY <1>2 DEF RejectRegistration, AffiliationInv, AffiliationTypeOK
  <2>2. /\ registration' \in Registration /\ registration'.made = registration.made
        /\ registration'.status = "rejected"
    BY <2>1 DEF Registration
  <2>3. AffiliationTypeOK'
    BY <2>1, <2>2 DEF AffiliationInv, AffiliationTypeOK
  <2> QED
    BY <2>1, <2>2, <2>3
    DEF AffiliationInv, MembershipAgreed, LinkHeld, MosqueHeld, Registered, Holds, MosqueExists
<1>3. CASE SetAssociation
  <2> PICK a \in Associations \union {None} : mosque' = [association |-> a, by |-> "developer"]
    BY <1>3 DEF SetAssociation
  <2>1. UNCHANGED <<registration, links, linkTx>> /\ \A w \in Workers : ~Holds(w, {"asking"})
    BY <1>3 DEF SetAssociation, MosqueLockers
  <2>2. mosque' \in Mosque /\ mosque'.by = "developer"
    BY DEF Mosque
  <2>3. AffiliationTypeOK'
    BY <2>1, <2>2 DEF AffiliationInv, AffiliationTypeOK
  <2> QED
    BY <2>1, <2>2, <2>3
    DEF AffiliationInv, MembershipAgreed, LinkHeld, MosqueHeld, Registered, Holds
<1> QED
  BY <1>1, <1>2, <1>3

\* A transaction begins.
LEMMA BeginInv ==
  ASSUME AffiliationInv, NEW w \in Workers, NEW a \in Associations, AskLink(w, a) \/ TakeLink(w, a)
  PROVE  AffiliationInv'
<1>1. UNCHANGED <<registration, mosque, links>>
  BY DEF AskLink, TakeLink
<1>2. PICK pc \in {"asking", "accepting", "declining"} :
        /\ Begin(w, pc, a)
        /\ pc = "asking" => mosque.association # a /\ MosqueExists
        /\ pc # "asking" => LinkLockers(a) = {} /\ links[a].status = "pending"
  BY DEF AskLink, TakeLink
<1>3. /\ linkTx' \in [Workers -> LinkTx] /\ linkTx'[w].pc = pc /\ linkTx'[w].with = a
      /\ \A v \in Workers : v # w => linkTx'[v] = linkTx[v]
  BY <1>2, BeginStep DEF AffiliationInv
<1>4. AffiliationTypeOK' /\ MembershipAgreed' /\ Registered'
  BY <1>1, <1>3 DEF AffiliationInv, AffiliationTypeOK, MembershipAgreed, Registered
<1>5. LinkHeld'
  <2>1. pc # "asking" => \A v \in Workers : ~(Holds(v, {"accepting", "declining"}) /\ linkTx[v].with = a)
    BY <1>2 DEF LinkLockers
  <2> QED
    BY <1>1, <1>2, <1>3, <2>1 DEF AffiliationInv, LinkHeld, Holds
<1>6. MosqueHeld'
  BY <1>1, <1>2, <1>3 DEF AffiliationInv, MosqueHeld, Holds, MosqueExists
<1> QED
  BY <1>4, <1>5, <1>6 DEF AffiliationInv

\* A transaction commits, or is rolled back.
LEMMA CommitLinkInv ==
  ASSUME AffiliationInv, NEW w \in Workers,
         OpenLink(w) \/ AcceptLink(w) \/ DeclineLink(w) \/ AbortLink(w)
  PROVE  AffiliationInv'
<1>1. Close(w) /\ UNCHANGED registration
  BY DEF OpenLink, AcceptLink, DeclineLink, AbortLink
<1>2. /\ linkTx' \in [Workers -> LinkTx] /\ linkTx'[w].pc = "idle"
      /\ \A v \in Workers : v # w => linkTx'[v] = linkTx[v]
  BY <1>1, CloseStep DEF AffiliationInv
<1> PICK a : a = linkTx[w].with
  OBVIOUS
<1>3. CASE OpenLink(w)
  <2>1. /\ Holds(w, {"asking"}) /\ LinkLockers(a) = {} /\ UNCHANGED mosque
        /\ links' = [links EXCEPT ![a] = Pending("association")]
    BY <1>3 DEF OpenLink
  <2>2. a \in Associations /\ mosque.association # a
    BY <2>1 DEF AffiliationInv, MosqueHeld
  <2>3. /\ links' \in [Associations -> Link] /\ links'[a].status = "pending"
        /\ \A b \in Associations : b # a => links'[b] = links[b]
    BY <2>1, <2>2 DEF AffiliationInv, AffiliationTypeOK, Pending, Link
  <2>4. AffiliationTypeOK' /\ MembershipAgreed' /\ Registered'
    BY <1>1, <1>2, <2>1, <2>2, <2>3 DEF AffiliationInv, AffiliationTypeOK, MembershipAgreed, Registered
  <2>5. LinkHeld' /\ MosqueHeld'
    BY <1>1, <1>2, <2>1, <2>2, <2>3 DEF AffiliationInv, LinkHeld, MosqueHeld, Holds, MosqueExists
  <2> QED
    BY <2>4, <2>5 DEF AffiliationInv
<1>4. CASE AcceptLink(w)
  <2>1. /\ Holds(w, {"accepting", "declining"}) /\ \A v \in Workers : ~Holds(v, {"asking"})
        /\ links' = [links EXCEPT ![a].status = "approved"]
        /\ mosque' = [association |-> a, by |-> "link"]
    BY <1>4 DEF AcceptLink, Holds, MosqueLockers
  <2>2. a \in Associations
    BY <2>1 DEF AffiliationInv, LinkHeld
  <2>3. /\ links' \in [Associations -> Link] /\ links'[a].status = "approved"
        /\ \A b \in Associations : b # a => links'[b] = links[b]
    BY <2>1, <2>2 DEF AffiliationInv, AffiliationTypeOK, Link
  <2>4. mosque' \in Mosque /\ mosque'.association = a /\ mosque'.by = "link"
    BY <2>1, <2>2 DEF Mosque
  <2>5. AffiliationTypeOK' /\ MembershipAgreed' /\ Registered'
    BY <1>1, <1>2, <2>2, <2>3, <2>4 DEF AffiliationInv, AffiliationTypeOK, MembershipAgreed, Registered
  <2>6. \A v \in Workers : Holds(v, {"accepting", "declining"})' =>
          v # w /\ Holds(v, {"accepting", "declining"}) /\ linkTx'[v] = linkTx[v] /\ linkTx[v].with # a
    BY <1>2, <2>1 DEF AffiliationInv, LinkHeld, Holds
  <2>7. LinkHeld'
    <3>1. \A v \in Workers : Holds(v, {"accepting", "declining"})' =>
            linkTx'[v].with \in Associations /\ links'[linkTx'[v].with].status = "pending"
      BY <2>3, <2>6 DEF AffiliationInv, LinkHeld
    <3>2. \A u, v \in Workers :
            (/\ Holds(u, {"accepting", "declining"})' /\ Holds(v, {"accepting", "declining"})'
             /\ linkTx'[u].with = linkTx'[v].with) => u = v
      BY <2>6 DEF AffiliationInv, LinkHeld
    <3> QED
      BY <3>1, <3>2 DEF LinkHeld
  <2>8. MosqueHeld'
    BY <1>2, <2>1 DEF MosqueHeld, Holds
  <2> QED
    BY <2>5, <2>7, <2>8 DEF AffiliationInv
<1>5. CASE DeclineLink(w)
  <2>1. /\ Holds(w, {"accepting", "declining"}) /\ UNCHANGED mosque
        /\ links' = [links EXCEPT ![a].status = "declined"]
    BY <1>5 DEF DeclineLink, Holds
  <2>2. a \in Associations /\ links[a].status = "pending"
    BY <2>1 DEF AffiliationInv, LinkHeld
  <2>3. /\ links' \in [Associations -> Link] /\ links'[a].status = "declined"
        /\ \A b \in Associations : b # a => links'[b] = links[b]
    BY <2>1, <2>2 DEF AffiliationInv, AffiliationTypeOK, Link
  <2>4. AffiliationTypeOK' /\ MembershipAgreed' /\ Registered'
    BY <1>1, <1>2, <2>1, <2>2, <2>3 DEF AffiliationInv, AffiliationTypeOK, MembershipAgreed, Registered
  <2>5. \A v \in Workers : Holds(v, {"accepting", "declining"})' =>
          v # w /\ Holds(v, {"accepting", "declining"}) /\ linkTx'[v] = linkTx[v] /\ linkTx[v].with # a
    BY <1>2, <2>1 DEF AffiliationInv, LinkHeld, Holds
  <2>6. LinkHeld'
    <3>1. \A v \in Workers : Holds(v, {"accepting", "declining"})' =>
            linkTx'[v].with \in Associations /\ links'[linkTx'[v].with].status = "pending"
      BY <2>3, <2>5 DEF AffiliationInv, LinkHeld
    <3>2. \A u, v \in Workers :
            (/\ Holds(u, {"accepting", "declining"})' /\ Holds(v, {"accepting", "declining"})'
             /\ linkTx'[u].with = linkTx'[v].with) => u = v
      BY <2>5 DEF AffiliationInv, LinkHeld
    <3> QED
      BY <3>1, <3>2 DEF LinkHeld
  <2>7. MosqueHeld'
    BY <1>1, <1>2, <2>1 DEF AffiliationInv, MosqueHeld, Holds, MosqueExists
  <2> QED
    BY <2>4, <2>6, <2>7 DEF AffiliationInv
<1>6. CASE AbortLink(w)
  <2>1. UNCHANGED <<mosque, links>>
    BY <1>6 DEF AbortLink
  <2> QED
    <3>1. AffiliationTypeOK' /\ MembershipAgreed' /\ Registered'
      BY <1>1, <1>2, <2>1 DEF AffiliationInv, AffiliationTypeOK, MembershipAgreed, Registered
    <3>2. \A v \in Workers : linkTx'[v].pc # "idle" => v # w /\ linkTx'[v] = linkTx[v]
      BY <1>2
    <3>3. LinkHeld'
      <4>1. \A v \in Workers : Holds(v, {"accepting", "declining"})' =>
              Holds(v, {"accepting", "declining"}) /\ linkTx'[v] = linkTx[v]
        BY <3>2 DEF Holds
      <4>2. \A v \in Workers : Holds(v, {"accepting", "declining"})' =>
              linkTx'[v].with \in Associations /\ links'[linkTx'[v].with].status = "pending"
        BY <2>1, <4>1 DEF AffiliationInv, LinkHeld
      <4>3. \A u, v \in Workers :
              (/\ Holds(u, {"accepting", "declining"})' /\ Holds(v, {"accepting", "declining"})'
               /\ linkTx'[u].with = linkTx'[v].with) => u = v
        BY <4>1 DEF AffiliationInv, LinkHeld
      <4> QED
        BY <4>2, <4>3 DEF LinkHeld
    <3>4. MosqueHeld'
      BY <1>1, <2>1, <3>2 DEF AffiliationInv, MosqueHeld, Holds, MosqueExists
    <3> QED
      BY <3>1, <3>3, <3>4 DEF AffiliationInv
<1> QED
  BY <1>3, <1>4, <1>5, <1>6

\* Every step keeps the invariant.
LEMMA AffiliationStep == AffiliationInv /\ [AffiliationNext]_affiliationVars => AffiliationInv'
<1> SUFFICES ASSUME AffiliationInv, [AffiliationNext]_affiliationVars PROVE AffiliationInv'
  OBVIOUS
<1>1. CASE UNCHANGED affiliationVars
  BY <1>1 DEF affiliationVars, AffiliationInv, AffiliationTypeOK, MembershipAgreed, LinkHeld,
     MosqueHeld, Registered, Holds, MosqueExists
<1>2. CASE ApproveRegistration \/ RejectRegistration \/ SetAssociation
  BY <1>2, DeveloperInv
<1>3. ASSUME NEW w \in Workers, NEW a \in Associations, AskLink(w, a) \/ TakeLink(w, a)
      PROVE  AffiliationInv'
  BY <1>3, BeginInv
<1>4. ASSUME NEW w \in Workers, OpenLink(w) \/ AcceptLink(w) \/ DeclineLink(w) \/ AbortLink(w)
      PROVE  AffiliationInv'
  BY <1>4, CommitLinkInv
<1> QED
  BY <1>1, <1>2, <1>3, <1>4 DEF AffiliationNext

\* The invariant holds throughout.
LEMMA AffiliationInvariant == AffiliationSpec => []AffiliationInv
<1>1. AffiliationInv /\ [AffiliationNext]_affiliationVars => AffiliationInv'
  BY AffiliationStep
<1> QED
  BY AffiliationInitInv, <1>1, PTL DEF AffiliationSpec

\* No mosque belongs to an association without the other side's word
\* (association-links-db.ts 93-202).
THEOREM MembershipStaysAgreed == AffiliationSpec => []MembershipAgreed
<1>1. AffiliationInv => MembershipAgreed
  BY DEF AffiliationInv
<1> QED
  BY AffiliationInvariant, <1>1, PTL

-----------------------------------------------------------------------------
(* Visits                                                                   *)

\* A handler between its two writes.
Halfway(w) == VisitorAt(w, "closing") /\ visitor[w].action \in {"save", "done"}

\* What a handler that is alone has read is still so, and it does what may be done then.
ReadsAgree ==
  \A w \in Workers : ~VisitorAt(w, "idle") /\ visitor[w].alone =>
    /\ visitor[w].status = visit.status
    /\ ~VisitorAt(w, "read") => MayAct(visitor[w].action, visitor[w].status)
    /\ Halfway(w) => scores = visitor[w].scores

\* A handler that scores has a score for every criterion, when it closes the visit, or
\* when it saves the scores of a visit that was done and whole.
ScoresWhole ==
  \A w \in Workers : VisitorAt(w, "scoring") \/ Halfway(w) =>
    /\ visitor[w].action \in {"save", "done"}
    /\ visitor[w].action = "done" => Complete(visitor[w].scores)
    /\ (/\ visitor[w].action = "save" /\ visitor[w].alone /\ visitor[w].status = "done"
        /\ ~torn /\ \A v \in Workers : v # w => ~Halfway(v)) => Complete(visitor[w].scores)

VisitInv == VisitTypeOK /\ DoneIsComplete /\ ReadsAgree /\ ScoresWhole

\* The invariant holds at the start.
LEMMA VisitInitInv == VisitInit => VisitInv
<1> SUFFICES ASSUME VisitInit PROVE VisitInv
  OBVIOUS
<1>1. NoScores \in Scores
  BY DEF NoScores, Scores
<1>2. VisitTypeOK
  BY <1>1 DEF VisitInit, VisitTypeOK, Visit, VisitStatuses, Visitor, NoVisitor, Actions
<1>3. DoneIsComplete /\ ReadsAgree /\ ScoresWhole
  BY DEF VisitInit, DoneIsComplete, ReadsAgree, ScoresWhole, VisitorAt, Halfway, NoVisitor
<1> QED
  BY <1>2, <1>3 DEF VisitInv

\* Nobody's reading.
LEMMA NoVisitorTyped == NoVisitor \in Visitor /\ NoVisitor.pc = "idle"
<1>1. NoScores \in Scores
  BY DEF NoScores, Scores
<1> QED
  BY <1>1 DEF NoVisitor, Visitor, VisitStatuses, Actions

\* What one writes, the others have not read.
LEMMA WrittenStep ==
  ASSUME VisitTypeOK, NEW w \in Workers, NEW q, q \in Visitor, visitor' = Written(w, q)
  PROVE  /\ visitor' \in [Workers -> Visitor] /\ visitor'[w] = q
         /\ \A v \in Workers : v # w =>
              /\ visitor'[v].pc = visitor[v].pc /\ visitor'[v].action = visitor[v].action
              /\ visitor'[v].scores = visitor[v].scores /\ visitor'[v].status = visitor[v].status
              /\ VisitorAt(v, "idle") \/ ~visitor'[v].alone
<1>1. \A v \in Workers : v # w /\ ~VisitorAt(v, "idle") => visitor'[v] = [visitor[v] EXCEPT !.alone = FALSE]
  BY DEF Written
<1>2. \A v \in Workers : v # w /\ VisitorAt(v, "idle") => visitor'[v] = visitor[v]
  BY DEF Written
<1>3. visitor'[w] = q
  BY DEF Written
<1>4. ASSUME NEW v \in Workers, v # w
      PROVE  /\ visitor'[v] \in Visitor
             /\ visitor'[v].pc = visitor[v].pc /\ visitor'[v].action = visitor[v].action
             /\ visitor'[v].scores = visitor[v].scores /\ visitor'[v].status = visitor[v].status
             /\ VisitorAt(v, "idle") \/ ~visitor'[v].alone
  <2> PICK x \in Visitor : x = visitor[v]
    BY DEF VisitTypeOK
  <2> PICK y : y = [x EXCEPT !.alone = FALSE]
    OBVIOUS
  <2>1. /\ y \in Visitor /\ y.pc = x.pc /\ y.action = x.action /\ y.scores = x.scores
        /\ y.status = x.status /\ ~y.alone
    BY DEF Visitor
  <2> QED
    BY <1>1, <1>2, <1>4, <2>1
<1>5. visitor' \in [Workers -> Visitor]
  <2>1. \A v \in Workers : visitor'[v] \in Visitor
    BY <1>3, <1>4
  <2> QED
    BY <2>1 DEF Written
<1> QED
  BY <1>3, <1>4, <1>5

\* A step of one handler that writes nothing, and does not come between two writes.
LEMMA VisitReads ==
  ASSUME VisitInv, NEW w \in Workers, NEW q, q \in Visitor,
         visitor' = [visitor EXCEPT ![w] = q], UNCHANGED <<visit, scores>>, torn' \in BOOLEAN,
         torn => torn', Halfway(w) => torn',
         ~(q.pc = "closing" /\ q.action \in {"save", "done"}),
         q.pc # "idle" /\ q.alone =>
           q.status = visit.status /\ (q.pc # "read" => MayAct(q.action, q.status)),
         q.pc = "scoring" =>
           /\ q.action \in {"save", "done"} /\ (q.action = "done" => Complete(q.scores))
           /\ (/\ q.action = "save" /\ q.alone /\ q.status = "done"
               /\ ~torn /\ \A v \in Workers : v # w => ~Halfway(v)) => Complete(q.scores)
  PROVE  VisitInv'
<1>1. /\ visitor' \in [Workers -> Visitor] /\ visitor'[w] = q
      /\ \A v \in Workers : v # w => visitor'[v] = visitor[v]
  BY DEF VisitInv, VisitTypeOK
<1>2. VisitTypeOK'
  BY <1>1 DEF VisitInv, VisitTypeOK
<1>3. /\ ~Halfway(w)' /\ (VisitorAt(w, "scoring"))' = (q.pc = "scoring")
      /\ \A v \in Workers : v # w =>
           (Halfway(v)' = Halfway(v)) /\ (VisitorAt(v, "scoring")' = VisitorAt(v, "scoring"))
  BY <1>1 DEF Halfway, VisitorAt
<1>4. DoneIsComplete'
  <2>1. visit.status = "done" /\ ~torn' /\ ~(\E v \in Workers : Halfway(v)') =>
          ~torn /\ ~(\E v \in Workers : Halfway(v))
    BY <1>3
  <2> QED
    BY <2>1 DEF VisitInv, DoneIsComplete, Halfway
<1>5. ReadsAgree'
  BY <1>1, <1>3 DEF VisitInv, ReadsAgree, VisitorAt
<1>6. ScoresWhole'
  <2> SUFFICES ASSUME NEW u \in Workers, VisitorAt(u, "scoring")' \/ Halfway(u)'
               PROVE  /\ visitor'[u].action \in {"save", "done"}
                      /\ visitor'[u].action = "done" => Complete(visitor'[u].scores)
                      /\ (/\ visitor'[u].action = "save" /\ visitor'[u].alone
                          /\ visitor'[u].status = "done"
                          /\ ~torn' /\ \A v \in Workers : v # u => ~Halfway(v)')
                         => Complete(visitor'[u].scores)
    BY DEF ScoresWhole, Complete
  <2>1. CASE u = w
    BY <1>1, <1>3, <2>1
  <2>2. CASE u # w
    <3>1. visitor'[u] = visitor[u] /\ (VisitorAt(u, "scoring") \/ Halfway(u))
      BY <1>1, <1>3, <2>2
    <3>2. ~torn' /\ (\A v \in Workers : v # u => ~Halfway(v)') =>
            ~torn /\ \A v \in Workers : v # u => ~Halfway(v)
      BY <1>3
    <3> QED
      BY <3>1, <3>2 DEF VisitInv, ScoresWhole
  <2> QED
    BY <2>1, <2>2
<1> QED
  BY <1>2, <1>4, <1>5, <1>6 DEF VisitInv

\* A handler reads, decides or leaves.
LEMMA ReadDecideLeaveInv ==
  ASSUME VisitInv, NEW w \in Workers, ReadVisit(w) \/ DecideVisit(w) \/ LeaveVisit(w)
  PROVE  VisitInv'
<1>1. torn \in BOOLEAN /\ UNCHANGED <<visit, scores>>
  BY DEF VisitInv, VisitTypeOK, ReadVisit, DecideVisit, LeaveVisit
<1>2. CASE ReadVisit(w)
  <2> PICK st \in VisitStatuses : st = visit.status
    BY DEF VisitInv, VisitTypeOK, Visit
  <2> PICK q : q = [NoVisitor EXCEPT !.pc = "read", !.status = st]
    OBVIOUS
  <2>1. NoVisitor \in Visitor
    BY NoVisitorTyped
  <2>2. q \in Visitor /\ q.pc = "read" /\ q.status = st
    BY <2>1 DEF Visitor
  <2>3. visitor' = [visitor EXCEPT ![w] = q] /\ torn' = torn /\ ~Halfway(w)
    BY <1>2 DEF ReadVisit, VisitorAt, Halfway
  <2> QED
    BY <1>1, <2>2, <2>3, VisitReads
<1>3. CASE LeaveVisit(w)
  <2>1. visitor' = [visitor EXCEPT ![w] = NoVisitor] /\ torn' = (torn \/ Halfway(w))
    BY <1>3 DEF LeaveVisit, Halfway
  <2> QED
    BY <1>1, <2>1, NoVisitorTyped, VisitReads
<1>4. CASE DecideVisit(w)
  <2>1. PICK action \in Actions, s \in Merged(scores, visitor[w].status) :
          /\ VisitorAt(w, "read") /\ MayAct(action, visitor[w].status)
          /\ action = "done" => Complete(s)
          /\ action \in {"cancel", "reopen"} => s = scores
          /\ visitor' = [visitor EXCEPT
               ![w].pc = IF action \in {"save", "done"} THEN "scoring" ELSE "closing",
               ![w].action = action, ![w].scores = s]
    BY <1>4 DEF DecideVisit
  <2>2. PICK x \in Visitor : x = visitor[w]
    BY DEF VisitInv, VisitTypeOK
  <2>3. PICK pc \in {"scoring", "closing"} :
          pc = IF action \in {"save", "done"} THEN "scoring" ELSE "closing"
    OBVIOUS
  <2>4. PICK q : q = [x EXCEPT !.pc = pc, !.action = action, !.scores = s]
    OBVIOUS
  <2>5. s \in Scores /\ \A c \in Criteria : s[c] = Unscored => scores[c] = Unscored \/ x.status = "scheduled"
    BY <2>1, <2>2 DEF Merged
  <2>6. /\ q \in Visitor /\ q.pc = pc /\ q.action = action /\ q.scores = s
        /\ q.status = x.status /\ q.alone = x.alone
    BY <2>4, <2>5 DEF Visitor
  <2>7. visitor' = [visitor EXCEPT ![w] = q]
    BY <2>1, <2>2, <2>3, <2>4 DEF VisitInv, VisitTypeOK
  <2>8. torn' = torn /\ ~Halfway(w)
    BY <1>4, <2>1 DEF DecideVisit, VisitorAt, Halfway
  <2>9. x.alone => x.status = visit.status
    BY <2>1, <2>2 DEF VisitInv, ReadsAgree, VisitorAt
  <2>10. (/\ q.pc = "scoring" /\ q.alone /\ q.status = "done"
          /\ ~torn /\ \A v \in Workers : v # w => ~Halfway(v)) => Complete(q.scores)
    <3> HAVE /\ q.pc = "scoring" /\ q.alone /\ q.status = "done"
             /\ ~torn /\ \A v \in Workers : v # w => ~Halfway(v)
    <3>1. visit.status = "done" /\ ~(\E v \in Workers : Halfway(v))
      BY <2>6, <2>8, <2>9
    <3>2. Complete(scores)
      BY <3>1 DEF VisitInv, DoneIsComplete, Halfway
    <3> QED
      BY <2>5, <2>6, <3>2 DEF Complete
  <2> QED
    BY <1>1, <2>1, <2>2, <2>3, <2>6, <2>7, <2>8, <2>9, <2>10, VisitReads
<1> QED
  BY <1>2, <1>3, <1>4

\* The scores are written, and the row is not yet.
LEMMA SaveScoresInv == ASSUME VisitInv, NEW w \in Workers, SaveScores(w) PROVE VisitInv'
<1>1. VisitorAt(w, "scoring") /\ scores' = visitor[w].scores /\ UNCHANGED visit
  BY DEF SaveScores
<1>2. torn' \in BOOLEAN /\ (torn => torn')
  BY DEF SaveScores, VisitInv, VisitTypeOK
<1> PICK x \in Visitor : x = visitor[w]
  BY DEF VisitInv, VisitTypeOK
<1> PICK q : q = [x EXCEPT !.pc = "closing"]
  OBVIOUS
<1>3. /\ q \in Visitor /\ q.pc = "closing" /\ q.action = x.action /\ q.scores = x.scores
      /\ q.status = x.status /\ q.alone = x.alone
  BY DEF Visitor
<1>4. visitor' = Written(w, q)
  BY DEF SaveScores
<1>5. /\ visitor' \in [Workers -> Visitor] /\ visitor'[w] = q
      /\ \A v \in Workers : v # w =>
           /\ visitor'[v].pc = visitor[v].pc /\ visitor'[v].action = visitor[v].action
           /\ visitor'[v].scores = visitor[v].scores /\ visitor'[v].status = visitor[v].status
           /\ VisitorAt(v, "idle") \/ ~visitor'[v].alone
  BY <1>3, <1>4, WrittenStep DEF VisitInv
<1>6. VisitTypeOK'
  BY <1>1, <1>2, <1>5 DEF VisitInv, VisitTypeOK, Visitor
<1>7. x.action \in {"save", "done"} /\ (x.action = "done" => Complete(x.scores))
  BY <1>1 DEF VisitInv, ScoresWhole
<1>8. Halfway(w)'
  BY <1>3, <1>5, <1>7 DEF Halfway, VisitorAt
<1>9. DoneIsComplete'
  BY <1>8 DEF DoneIsComplete, Halfway
<1>10. ReadsAgree'
  <2>1. x.alone => x.status = visit.status /\ MayAct(x.action, x.status)
    BY <1>1 DEF VisitInv, ReadsAgree, VisitorAt
  <2>2. \A v \in Workers : ~VisitorAt(v, "idle")' /\ visitor'[v].alone => v = w
    BY <1>5 DEF VisitorAt
  <2>3. visitor'[w].alone =>
          /\ visitor'[w].status = visit'.status
          /\ MayAct(visitor'[w].action, visitor'[w].status)
          /\ scores' = visitor'[w].scores
    BY <1>1, <1>3, <1>5, <2>1
  <2> QED
    BY <2>2, <2>3 DEF ReadsAgree, MayAct
<1>11. ScoresWhole'
  <2> SUFFICES ASSUME NEW u \in Workers, VisitorAt(u, "scoring")' \/ Halfway(u)'
               PROVE  /\ visitor'[u].action \in {"save", "done"}
                      /\ visitor'[u].action = "done" => Complete(visitor'[u].scores)
                      /\ (/\ visitor'[u].action = "save" /\ visitor'[u].alone
                          /\ visitor'[u].status = "done"
                          /\ ~torn' /\ \A v \in Workers : v # u => ~Halfway(v)')
                         => Complete(visitor'[u].scores)
    BY DEF ScoresWhole, Complete
  <2>1. CASE u = w
    <3>1. \A v \in Workers : v # w => (Halfway(v)' = Halfway(v))
      BY <1>5 DEF Halfway, VisitorAt
    <3>2. (/\ x.action = "save" /\ x.alone /\ x.status = "done"
           /\ ~torn /\ \A v \in Workers : v # w => ~Halfway(v)) => Complete(x.scores)
      BY <1>1 DEF VisitInv, ScoresWhole
    <3>3. ~torn' /\ (\A v \in Workers : v # w => ~Halfway(v)') =>
            ~torn /\ \A v \in Workers : v # w => ~Halfway(v)
      BY <1>2, <3>1
    <3>4. /\ visitor'[u].action = x.action /\ visitor'[u].scores = x.scores
          /\ visitor'[u].status = x.status /\ visitor'[u].alone = x.alone
      BY <1>3, <1>5, <2>1
    <3>5. (/\ x.action = "save" /\ x.alone /\ x.status = "done"
           /\ ~torn' /\ \A v \in Workers : v # u => ~Halfway(v)') => Complete(x.scores)
      BY <2>1, <3>2, <3>3
    <3> QED
      BY <1>7, <3>4, <3>5 DEF Complete
  <2>2. CASE u # w
    <3>1. ~visitor'[u].alone /\ (VisitorAt(u, "scoring") \/ Halfway(u))
      BY <1>5, <2>2 DEF Halfway, VisitorAt
    <3> QED
      BY <1>5, <2>2, <3>1 DEF VisitInv, ScoresWhole
  <2> QED
    BY <2>1, <2>2
<1> QED
  BY <1>6, <1>9, <1>10, <1>11 DEF VisitInv

\* The row is written: a handler that was alone leaves the visit whole.
LEMMA UpdateVisitInv == ASSUME VisitInv, NEW w \in Workers, UpdateVisit(w) PROVE VisitInv'
<1>1. /\ VisitorAt(w, "closing") /\ visitor' = Written(w, NoVisitor) /\ UNCHANGED scores
      /\ visit' = [status |-> StatusAfterAction(visitor[w].action, visitor[w].status),
                   overall |-> OverallAfter(w)]
      /\ torn' = IF ~visitor[w].alone THEN TRUE ELSE torn /\ visitor[w].action # "done"
  BY DEF UpdateVisit
<1> PICK x \in Visitor : x = visitor[w]
  BY DEF VisitInv, VisitTypeOK
<1>2. x.status \in VisitStatuses /\ x.action \in Actions /\ x.scores \in Scores /\ x.alone \in BOOLEAN
  BY DEF Visitor
<1>3. StatusAfterAction(x.action, x.status) \in VisitStatuses
  BY <1>2 DEF StatusAfterAction, VisitStatuses, Actions
<1>4. OverallAfter(w) \in Scores
  <2>1. NoScores \in Scores /\ visit.overall \in Scores
    BY DEF NoScores, Scores, VisitInv, VisitTypeOK, Visit
  <2> QED
    BY <1>2, <2>1 DEF OverallAfter, Overall
<1>5. /\ visitor' \in [Workers -> Visitor] /\ visitor'[w] = NoVisitor
      /\ \A v \in Workers : v # w =>
           /\ visitor'[v].pc = visitor[v].pc /\ visitor'[v].action = visitor[v].action
           /\ visitor'[v].scores = visitor[v].scores /\ visitor'[v].status = visitor[v].status
           /\ VisitorAt(v, "idle") \/ ~visitor'[v].alone
  BY <1>1, NoVisitorTyped, WrittenStep DEF VisitInv
<1>6. VisitTypeOK'
  <2>1. torn' \in BOOLEAN
    BY <1>1 DEF VisitInv, VisitTypeOK
  <2>2. visit' \in Visit
    BY <1>1, <1>3, <1>4 DEF Visit
  <2> QED
    BY <1>1, <1>5, <2>1, <2>2 DEF VisitInv, VisitTypeOK
<1>7. ~Halfway(w)' /\ ~VisitorAt(w, "scoring")' /\ VisitorAt(w, "idle")'
      /\ \A v \in Workers : v # w => (Halfway(v)' = Halfway(v))
  BY <1>5, NoVisitorTyped DEF Halfway, VisitorAt
<1>8. DoneIsComplete'
  <2> SUFFICES ASSUME visit'.status = "done", ~torn', ~(\E v \in Workers : Halfway(v)')
               PROVE  Complete(scores) /\ visit'.overall = scores
    BY <1>1 DEF DoneIsComplete, Halfway, Complete
  <2>1. x.alone /\ (x.action = "done" \/ ~torn)
    BY <1>1
  <2>2. x.action = "done" \/ (x.action = "save" /\ x.status = "done")
    BY <1>1, <1>2 DEF StatusAfterAction, Actions
  <2>3. Halfway(w) /\ scores = x.scores
    BY <1>1, <2>1, <2>2 DEF VisitInv, ReadsAgree, Halfway, VisitorAt
  <2>4. Complete(x.scores)
    BY <1>7, <2>1, <2>2, <2>3 DEF VisitInv, ScoresWhole
  <2>5. visit'.overall = Overall(x.scores)
    BY <1>1, <2>2 DEF OverallAfter
  <2> QED
    BY <2>3, <2>4, <2>5 DEF Overall
<1>9. ReadsAgree'
  BY <1>5, <1>7 DEF VisitInv, ReadsAgree, VisitorAt
<1>10. ScoresWhole'
  <2> SUFFICES ASSUME NEW u \in Workers, VisitorAt(u, "scoring")' \/ Halfway(u)'
               PROVE  /\ visitor'[u].action \in {"save", "done"}
                      /\ visitor'[u].action = "done" => Complete(visitor'[u].scores)
                      /\ ~visitor'[u].alone
    BY DEF ScoresWhole, Complete
  <2>1. u # w
    BY <1>7
  <2>2. ~visitor'[u].alone /\ (VisitorAt(u, "scoring") \/ Halfway(u))
    BY <1>5, <2>1 DEF Halfway, VisitorAt
  <2> QED
    BY <1>5, <2>1, <2>2 DEF VisitInv, ScoresWhole
<1> QED
  BY <1>6, <1>8, <1>9, <1>10 DEF VisitInv

\* Every step of the visits keeps the invariant.
LEMMA VisitStep == VisitInv /\ [VisitNext]_visitVars => VisitInv'
<1> SUFFICES ASSUME VisitInv, [VisitNext]_visitVars PROVE VisitInv'
  OBVIOUS
<1>1. CASE UNCHANGED visitVars
  BY <1>1 DEF visitVars, VisitInv, VisitTypeOK, DoneIsComplete, ReadsAgree, ScoresWhole, Halfway,
     VisitorAt
<1>2. ASSUME NEW w \in Workers,
             ReadVisit(w) \/ DecideVisit(w) \/ SaveScores(w) \/ UpdateVisit(w) \/ LeaveVisit(w)
      PROVE  VisitInv'
  BY <1>2, ReadDecideLeaveInv, SaveScoresInv, UpdateVisitInv
<1> QED
  BY <1>1, <1>2 DEF VisitNext

\* The invariant holds throughout.
LEMMA VisitInvariant == VisitSpec => []VisitInv
<1>1. VisitInv /\ [VisitNext]_visitVars => VisitInv'
  BY VisitStep
<1> QED
  BY VisitInitInv, <1>1, PTL DEF VisitSpec

\* A visit that is done is whole (supervisor-visits-db.ts 283-341).
THEOREM DoneVisitsAreComplete == VisitSpec => []DoneIsComplete
<1>1. VisitInv => DoneIsComplete
  BY DEF VisitInv
<1> QED
  BY VisitInvariant, <1>1, PTL

\* Only a handler that had read before brings a cancelled visit back
\* (supervisor-visits.ts 77-90).
THEOREM CancelledStaysFinal == VisitSpec => CancelledIsFinal
<1>1. VisitInv /\ [VisitNext]_visitVars => VisitInv'
  BY VisitStep
<1>2. VisitInv /\ [VisitNext]_visitVars =>
        [visit.status = "cancelled" /\ visit'.status # "cancelled" =>
           \E w \in Workers : VisitorAt(w, "closing") /\ ~visitor[w].alone]_visitVars
  <2> SUFFICES ASSUME VisitInv, VisitNext, visit.status = "cancelled", visit'.status # "cancelled"
               PROVE  \E w \in Workers : VisitorAt(w, "closing") /\ ~visitor[w].alone
    BY DEF visitVars
  <2> PICK w \in Workers : UpdateVisit(w)
    BY DEF VisitNext, ReadVisit, DecideVisit, SaveScores, LeaveVisit
  <2>1. VisitorAt(w, "closing")
    BY DEF UpdateVisit
  <2>2. MayAct(visitor[w].action, "cancelled") => FALSE
    <3>1. visitor[w].action \in Actions
      BY DEF VisitInv, VisitTypeOK, Visitor
    <3> QED
      BY <3>1 DEF MayAct, Actions
  <2>3. ~visitor[w].alone
    BY <2>1, <2>2 DEF VisitInv, ReadsAgree, VisitorAt
  <2> QED
    BY <2>1, <2>3
<1> QED
  BY VisitInitInv, <1>1, <1>2, PTL DEF VisitSpec, CancelledIsFinal

-----------------------------------------------------------------------------
(* Attendance                                                               *)

\* Only a handler that inserts has inserted.
Mine == \A w \in Workers : ~TellerAt(w, "inserting") => teller[w].mine = {}

AttendanceInv == AttendanceTypeOK /\ AbsenceToldOnce /\ LadderToldOnce /\ Mine

\* One more, or one less, of finitely many.
LEMMA OneMore ==
  ASSUME NEW S, NEW T, NEW x, IsFiniteSet(S), x \notin S, T = S \union {x}
  PROVE  /\ IsFiniteSet(T) /\ Cardinality(S) \in Nat /\ Cardinality(T) = Cardinality(S) + 1
<1>1. IsFiniteSet(S \union {x}) /\ Cardinality(S \union {x}) = Cardinality(S) + 1
  BY FS_AddElement, Zenon
<1> QED
  BY <1>1, FS_CardinalityType

\* Those who have a notice to give, of an absence or of an event of the ladder.
LEMMA TellersFinite ==
  /\ IsFiniteSet(Telling) /\ Cardinality(Telling) \in Nat
  /\ \A e : IsFiniteSet(Tellers(e)) /\ Cardinality(Tellers(e)) \in Nat
<1>1. Telling \subseteq Workers /\ \A e : Tellers(e) \subseteq Workers
  BY DEF Telling, Tellers
<1>2. IsFiniteSet(Workers)
  BY AttendanceAssumption
<1>3. IsFiniteSet(Telling) /\ \A e : IsFiniteSet(Tellers(e))
  BY <1>1, <1>2, FS_Subset
<1> QED
  BY <1>3, FS_CardinalityType

\* What becomes of a number of handlers when one of them joins or leaves.
LEMMA OneMoves ==
  ASSUME NEW S, NEW T, NEW x, IsFiniteSet(S), S \ {x} = T \ {x}
  PROVE  /\ Cardinality(S) \in Nat /\ Cardinality(T) \in Nat /\ (x \in S => Cardinality(S) >= 1)
         /\ x \in S /\ x \notin T => Cardinality(T) + 1 = Cardinality(S)
         /\ x \notin S /\ x \in T => Cardinality(T) = Cardinality(S) + 1
         /\ (x \in S <=> x \in T) => T = S
<1> PICK R : R = S \ {x}
  OBVIOUS
<1>1. IsFiniteSet(R) /\ Cardinality(R) \in Nat /\ Cardinality(S) \in Nat
  BY FS_Subset, FS_CardinalityType
<1>2. x \notin R /\ (x \in S => S = R \union {x}) /\ (x \notin S => S = R)
  OBVIOUS
<1>3. (x \in T => T = R \union {x}) /\ (x \notin T => T = R)
  OBVIOUS
<1>4. Cardinality(R \union {x}) = Cardinality(R) + 1
  BY <1>1, <1>2, OneMore
<1>5. x \in S => Cardinality(S) = Cardinality(R) + 1
  BY <1>2, <1>4
<1>6. x \in T => Cardinality(T) = Cardinality(R) + 1
  BY <1>3, <1>4
<1>7. Cardinality(T) \in Nat
  <2>1. IsFiniteSet(R \union {x})
    BY <1>1, FS_AddElement
  <2>2. IsFiniteSet(T)
    BY <1>1, <1>3, <2>1
  <2> QED
    BY <2>2, FS_CardinalityType
<1>8. x \in S /\ x \notin T => Cardinality(T) + 1 = Cardinality(S)
  BY <1>3, <1>5
<1>9. x \notin S /\ x \in T => Cardinality(T) = Cardinality(S) + 1
  BY <1>2, <1>6
<1>10. x \in S => Cardinality(S) >= 1
  BY <1>1, <1>5
<1>11. (x \in S <=> x \in T) => T = S
  BY <1>2, <1>3
<1> QED
  BY <1>1, <1>7, <1>8, <1>9, <1>10, <1>11

\* What a step of one handler does to their numbers.
LEMMA TellerStep ==
  ASSUME AttendanceTypeOK, NEW w \in Workers, NEW t \in Teller, Tells(w, t)
  PROVE  /\ teller' \in [Workers -> Teller] /\ teller'[w] = t
         /\ \A v \in Workers : v # w => teller'[v] = teller[v]
         /\ Cardinality(Telling)' \in Nat
         /\ TellerAt(w, "push") /\ t.pc # "push" => Cardinality(Telling)' + 1 = Cardinality(Telling)
         /\ ~TellerAt(w, "push") /\ t.pc = "push" => Cardinality(Telling)' = Cardinality(Telling) + 1
         /\ (TellerAt(w, "push") <=> t.pc = "push") => Cardinality(Telling)' = Cardinality(Telling)
<1>1. /\ teller' \in [Workers -> Teller] /\ teller'[w] = t
      /\ \A v \in Workers : v # w => teller'[v] = teller[v]
  BY DEF AttendanceTypeOK, Tells
<1> PICK S, T : S = Telling /\ T = Telling'
  OBVIOUS
<1>2. (w \in S <=> TellerAt(w, "push")) /\ (w \in T <=> t.pc = "push") /\ S \ {w} = T \ {w}
  BY <1>1 DEF Telling, TellerAt
<1>3. IsFiniteSet(S)
  BY TellersFinite
<1>4. /\ Cardinality(T) \in Nat
      /\ w \in S /\ w \notin T => Cardinality(T) + 1 = Cardinality(S)
      /\ w \notin S /\ w \in T => Cardinality(T) = Cardinality(S) + 1
      /\ (w \in S <=> w \in T) => T = S
  BY <1>2, <1>3, OneMoves
<1> QED
  BY <1>1, <1>2, <1>4

\* And to the numbers of those who have inserted an event.
LEMMA NoticeStep ==
  ASSUME AttendanceTypeOK, NEW w \in Workers, NEW t \in Teller, Tells(w, t), NEW e
  PROVE  /\ Cardinality(Tellers(e))' \in Nat
         /\ e \in teller[w].mine => Cardinality(Tellers(e)) >= 1
         /\ e \in teller[w].mine /\ e \notin t.mine => Cardinality(Tellers(e))' + 1 = Cardinality(Tellers(e))
         /\ e \notin teller[w].mine /\ e \in t.mine => Cardinality(Tellers(e))' = Cardinality(Tellers(e)) + 1
         /\ (e \in teller[w].mine <=> e \in t.mine) => Cardinality(Tellers(e))' = Cardinality(Tellers(e))
<1>1. teller'[w] = t /\ \A v \in Workers : v # w => teller'[v] = teller[v]
  BY TellerStep
<1> PICK S, T : S = Tellers(e) /\ T = Tellers(e)'
  OBVIOUS
<1>2. (w \in S <=> e \in teller[w].mine) /\ (w \in T <=> e \in t.mine) /\ S \ {w} = T \ {w}
  BY <1>1 DEF Tellers
<1>3. IsFiniteSet(S)
  BY TellersFinite
<1>4. /\ Cardinality(T) \in Nat /\ (w \in S => Cardinality(S) >= 1)
      /\ w \in S /\ w \notin T => Cardinality(T) + 1 = Cardinality(S)
      /\ w \notin S /\ w \in T => Cardinality(T) = Cardinality(S) + 1
      /\ (w \in S <=> w \in T) => T = S
  BY <1>2, <1>3, OneMoves
<1> QED
  BY <1>1, <1>2, <1>4

\* The types at the start, and of a handler that has read something.
LEMMA TellersTyped == NoTeller \in Teller /\ NoTeller.mine = {} /\ NoTeller.pc = "idle"
  BY AttendanceAssumption DEF NoTeller, Teller, Dates, Decisions

\* Before it tells, a handler adds to no number, but where it is about to tell an absence.
LEMMA DecideInv ==
  ASSUME AttendanceInv, NEW w \in Workers, SeeDecision(w) \/ WriteDecision(w) PROVE AttendanceInv'
<1>1. PICK x \in Teller : x = teller[w] /\ x.mine = {}
  <2>1. ~TellerAt(w, "inserting")
    BY DEF SeeDecision, WriteDecision, TellerAt
  <2> QED
    BY <2>1 DEF AttendanceInv, AttendanceTypeOK, Mine
<1>2. CASE SeeDecision(w)
  <2>1. PICK d \in 1..today, s \in Decisions :
          Tells(w, [NoTeller EXCEPT !.pc = "saving", !.day = today, !.date = d, !.status = s,
                                    !.before = decision[d]])
    BY <1>2 DEF SeeDecision
  <2>2. d \in Dates /\ today \in Dates /\ decision[d] \in Decisions
    BY <2>1, AttendanceAssumption DEF AttendanceInv, AttendanceTypeOK, Dates
  <2>3. PICK t : t = [NoTeller EXCEPT !.pc = "saving", !.day = today, !.date = d, !.status = s,
                                      !.before = decision[d]]
    OBVIOUS
  <2>4. t \in Teller /\ t.mine = {} /\ t.pc = "saving"
    BY <2>1, <2>2, <2>3, AttendanceAssumption DEF NoTeller, Teller, Decisions
  <2>5. /\ TellerAt(w, "idle") /\ saves' = saves + 1
        /\ UNCHANGED <<today, enrolled, decision, ladder, toldAbsent, turned, toldLadder, lost>>
    BY <1>2 DEF SeeDecision
  <2>6. /\ teller' \in [Workers -> Teller] /\ teller'[w] = t
        /\ \A v \in Workers : v # w => teller'[v] = teller[v]
        /\ Cardinality(Telling)' = Cardinality(Telling)
        /\ \A e : Cardinality(Tellers(e))' = Cardinality(Tellers(e))
    <3>1. Tells(w, t) /\ ~TellerAt(w, "push")
      BY <2>1, <2>3, <2>5 DEF TellerAt
    <3> QED
      BY <1>1, <2>4, <3>1, TellerStep, NoticeStep DEF AttendanceInv
  <2>7. AttendanceTypeOK'
    BY <2>5, <2>6 DEF AttendanceInv, AttendanceTypeOK
  <2>8. Mine'
    BY <2>4, <2>6 DEF AttendanceInv, Mine, TellerAt
  <2> QED
    BY <2>5, <2>6, <2>7, <2>8 DEF AttendanceInv, AbsenceToldOnce, LadderToldOnce
<1>3. CASE WriteDecision(w)
  <2>1. /\ TellerAt(w, "saving") /\ decision' = [decision EXCEPT ![x.date] = x.status]
        /\ turned' = IF x.status = "absent" /\ (decision[x.date] # "absent" \/ x.before # decision[x.date])
                     THEN turned + 1 ELSE turned
        /\ Tells(w, IF x.status # "absent" THEN NoTeller
                    ELSE [NoTeller EXCEPT !.pc = IF NewlyAbsent(x.before, x.status) /\ x.date = x.day
                                                 THEN "push" ELSE "ladder", !.day = x.day])
        /\ UNCHANGED <<today, enrolled, ladder, toldAbsent, toldLadder, lost, saves>>
    BY <1>1, <1>3 DEF WriteDecision
  <2>2. PICK pc \in {"push", "ladder"} :
          pc = IF NewlyAbsent(x.before, x.status) /\ x.date = x.day THEN "push" ELSE "ladder"
    OBVIOUS
  <2>3. PICK t : t = IF x.status # "absent" THEN NoTeller ELSE [NoTeller EXCEPT !.pc = pc, !.day = x.day]
    OBVIOUS
  <2>4. /\ t \in Teller /\ t.mine = {} /\ t.pc \in {"idle", "push", "ladder"}
        /\ t.pc = "push" => x.status = "absent" /\ x.before # "absent"
    BY <2>2, <2>3, TellersTyped DEF Teller, NewlyAbsent
  <2>5. Tells(w, t)
    BY <2>1, <2>2, <2>3
  <2>6. t.pc = "push" => turned' = turned + 1
    BY <2>1, <2>4
  <2>7. decision' \in [Dates -> Decisions] /\ turned' \in Nat /\ turned' >= turned
    BY <2>1 DEF AttendanceInv, AttendanceTypeOK, Teller
  <2>8. ~TellerAt(w, "push")
    BY <2>1 DEF TellerAt
  <2>9. /\ teller' \in [Workers -> Teller] /\ teller'[w] = t
        /\ \A v \in Workers : v # w => teller'[v] = teller[v]
        /\ Cardinality(Telling)' = IF t.pc = "push" THEN Cardinality(Telling) + 1 ELSE Cardinality(Telling)
        /\ \A e : Cardinality(Tellers(e))' = Cardinality(Tellers(e))
    BY <1>1, <2>4, <2>5, <2>8, TellerStep, NoticeStep DEF AttendanceInv
  <2>10. AttendanceTypeOK'
    BY <2>1, <2>7, <2>9 DEF AttendanceInv, AttendanceTypeOK
  <2>11. Mine'
    BY <2>4, <2>9 DEF AttendanceInv, Mine, TellerAt
  <2>12. Cardinality(Telling) \in Nat /\ toldAbsent \in Nat /\ turned \in Nat
    BY TellersFinite DEF AttendanceInv, AttendanceTypeOK
  <2>13. AbsenceToldOnce'
    BY <2>1, <2>6, <2>7, <2>9, <2>12 DEF AttendanceInv, AbsenceToldOnce
  <2>14. LadderToldOnce'
    BY <2>1, <2>9 DEF AttendanceInv, LadderToldOnce
  <2> QED
    BY <2>10, <2>11, <2>13, <2>14 DEF AttendanceInv
<1> QED
  BY <1>2, <1>3

\* An absence is told; the ladder is read.
LEMMA ReadLadderInv ==
  ASSUME AttendanceInv, NEW w \in Workers, TellAbsence(w) \/ RunLadder(w) PROVE AttendanceInv'
<1>1. PICK x \in Teller : x = teller[w] /\ x.mine = {} /\ x.pc # "inserting"
  <2>1. ~TellerAt(w, "inserting")
    BY DEF TellAbsence, RunLadder, TellerAt
  <2> QED
    BY <2>1 DEF AttendanceInv, AttendanceTypeOK, Mine, TellerAt
<1>2. UNCHANGED <<today, enrolled, decision, ladder, turned, toldLadder, lost, saves>>
  BY DEF TellAbsence, RunLadder
<1>3. PICK t \in Teller : /\ Tells(w, t) /\ t.mine = {} /\ t.pc # "push"
                          /\ toldAbsent' = IF TellerAt(w, "push") THEN toldAbsent + 1 ELSE toldAbsent
  <2>1. CASE TellAbsence(w)
    <3> PICK t : t = [x EXCEPT !.pc = "ladder"]
      OBVIOUS
    <3>1. t \in Teller /\ t.mine = {} /\ t.pc = "ladder"
      BY <1>1 DEF Teller
    <3> QED
      BY <1>1, <2>1, <3>1 DEF TellAbsence
  <2>2. CASE RunLadder(w)
    <3> PICK due \in SUBSET Events :
          Tells(w, IF enrolled = "deleted" THEN NoTeller
                   ELSE [NoTeller EXCEPT !.pc = "inserting", !.due = due])
      <4>1. PICK day : Tells(w, IF enrolled = "deleted" THEN NoTeller
                     ELSE [NoTeller EXCEPT !.pc = "inserting", !.due = LadderEvents(day)])
        BY <2>2 DEF RunLadder
      <4>2. LadderEvents(day) \in SUBSET Events
        BY DEF LadderEvents
      <4> QED
        BY <4>1, <4>2
    <3>1. PICK t : t = IF enrolled = "deleted" THEN NoTeller
                       ELSE [NoTeller EXCEPT !.pc = "inserting", !.due = due]
      OBVIOUS
    <3>2. t \in Teller /\ t.mine = {} /\ t.pc # "push"
      BY <3>1, TellersTyped DEF Teller
    <3>3. toldAbsent' = toldAbsent /\ ~TellerAt(w, "push")
      BY <2>2 DEF RunLadder, TellerAt
    <3> QED
      BY <3>1, <3>2, <3>3
  <2> QED
    BY <2>1, <2>2
<1>4. /\ teller' \in [Workers -> Teller] /\ teller'[w] = t
      /\ \A v \in Workers : v # w => teller'[v] = teller[v]
      /\ Cardinality(Telling)' \in Nat
      /\ TellerAt(w, "push") => Cardinality(Telling)' + 1 = Cardinality(Telling)
      /\ ~TellerAt(w, "push") => Cardinality(Telling)' = Cardinality(Telling)
      /\ \A e : Cardinality(Tellers(e))' = Cardinality(Tellers(e))
  BY <1>1, <1>3, TellerStep, NoticeStep DEF AttendanceInv
<1>5. AttendanceTypeOK'
  BY <1>2, <1>3, <1>4 DEF AttendanceInv, AttendanceTypeOK
<1>6. Mine'
  BY <1>3, <1>4 DEF AttendanceInv, Mine, TellerAt
<1>7. Cardinality(Telling) \in Nat /\ toldAbsent \in Nat /\ turned \in Nat
  BY TellersFinite DEF AttendanceInv, AttendanceTypeOK
<1>8. AbsenceToldOnce'
  BY <1>2, <1>3, <1>4, <1>7 DEF AttendanceInv, AbsenceToldOnce
<1>9. LadderToldOnce'
  BY <1>2, <1>4 DEF AttendanceInv, LadderToldOnce
<1> QED
  BY <1>5, <1>6, <1>8, <1>9 DEF AttendanceInv

\* An event is inserted by the one that finds it missing.
LEMMA InsertInv == ASSUME AttendanceInv, NEW w \in Workers, InsertEvent(w) PROVE AttendanceInv'
<1>1. PICK x \in Teller : x = teller[w] /\ x.pc = "inserting" /\ x.mine \subseteq Events
  BY DEF InsertEvent, TellerAt, AttendanceInv, AttendanceTypeOK, Teller
<1>2. PICK f \in Events :
        /\ ladder' = IF enrolled = "deleted" THEN ladder ELSE ladder \union {f}
        /\ Tells(w, [teller[w] EXCEPT !.due = @ \ {f}, !.mine = @ \union Inserted(f)])
  BY <1>1 DEF InsertEvent, Teller
<1>3. UNCHANGED <<today, enrolled, decision, toldAbsent, turned, toldLadder, lost, saves>>
  BY DEF InsertEvent
<1>4. PICK mine \in SUBSET Events : mine = x.mine \union Inserted(f)
  BY <1>1 DEF Inserted
<1>5. PICK t : t = [x EXCEPT !.due = x.due \ {f}, !.mine = mine]
  OBVIOUS
<1>6. t \in Teller /\ t.pc = "inserting" /\ t.mine = mine
  BY <1>1, <1>5 DEF Teller
<1>7. Tells(w, t)
  BY <1>1, <1>2, <1>4, <1>5
<1>8. /\ teller' \in [Workers -> Teller] /\ teller'[w] = t
      /\ \A v \in Workers : v # w => teller'[v] = teller[v]
      /\ Cardinality(Telling)' = Cardinality(Telling)
  BY <1>1, <1>6, <1>7, TellerStep DEF AttendanceInv, TellerAt
<1>9. AttendanceTypeOK'
  BY <1>2, <1>3, <1>8 DEF AttendanceInv, AttendanceTypeOK
<1>10. Mine'
  BY <1>6, <1>8 DEF AttendanceInv, Mine, TellerAt
<1>11. AbsenceToldOnce'
  BY <1>3, <1>8 DEF AttendanceInv, AbsenceToldOnce
<1>12. ASSUME NEW e \in ToldToParents
       PROVE  toldLadder'[e] + Cardinality(Tellers(e))' + (IF e \in lost' THEN 1 ELSE 0)
                = IF e \in ladder' THEN 1 ELSE 0
  <2>1. /\ toldLadder[e] \in Nat /\ Cardinality(Tellers(e)) \in Nat
        /\ toldLadder[e] + Cardinality(Tellers(e)) + (IF e \in lost THEN 1 ELSE 0)
             = IF e \in ladder THEN 1 ELSE 0
    BY TellersFinite DEF AttendanceInv, AttendanceTypeOK, LadderToldOnce, ToldToParents, Events
  <2>2. e \in x.mine => Cardinality(Tellers(e)) >= 1
    BY <1>1, <1>6, <1>7, NoticeStep DEF AttendanceInv
  <2>3. CASE e = f /\ f \notin ladder /\ enrolled # "deleted"
    <3>1. e \notin x.mine /\ e \in mine
      BY <1>4, <2>1, <2>2, <2>3 DEF Inserted
    <3>2. Cardinality(Tellers(e))' = Cardinality(Tellers(e)) + 1
      BY <1>1, <1>6, <1>7, <3>1, NoticeStep DEF AttendanceInv
    <3> QED
      BY <1>2, <1>3, <2>1, <2>3, <3>2
  <2>4. CASE ~(e = f /\ f \notin ladder /\ enrolled # "deleted")
    <3>1. (e \in x.mine <=> e \in mine) /\ (e \in ladder' <=> e \in ladder)
      BY <1>2, <1>4, <2>4 DEF Inserted
    <3>2. Cardinality(Tellers(e))' = Cardinality(Tellers(e))
      BY <1>1, <1>6, <1>7, <3>1, NoticeStep DEF AttendanceInv
    <3> QED
      BY <1>3, <2>1, <3>1, <3>2
  <2> QED
    BY <2>3, <2>4
<1>13. LadderToldOnce'
  BY <1>12 DEF LadderToldOnce
<1> QED
  BY <1>9, <1>10, <1>11, <1>13 DEF AttendanceInv

\* What a handler has inserted is told by it, or is lost with it.
LEMMA EndTellingInv ==
  ASSUME AttendanceInv, NEW w \in Workers, TellLadder(w) \/ StopTelling(w) PROVE AttendanceInv'
<1>1. PICK x \in Teller : x = teller[w]
  BY DEF AttendanceInv, AttendanceTypeOK
<1>2. Tells(w, NoTeller) /\ UNCHANGED <<today, enrolled, decision, ladder, toldAbsent, turned, saves>>
  BY DEF TellLadder, StopTelling
<1>3. /\ teller' \in [Workers -> Teller] /\ teller'[w] = NoTeller
      /\ \A v \in Workers : v # w => teller'[v] = teller[v]
      /\ Cardinality(Telling)' \in Nat
      /\ TellerAt(w, "push") => Cardinality(Telling)' + 1 = Cardinality(Telling)
      /\ ~TellerAt(w, "push") => Cardinality(Telling)' = Cardinality(Telling)
  BY <1>2, TellersTyped, TellerStep DEF AttendanceInv
<1>4. /\ toldLadder' \in [Events -> Nat] /\ lost' \subseteq Events
      /\ \/ /\ lost' = lost
            /\ \A e \in Events : toldLadder'[e] = IF e \in Notices(w) THEN toldLadder[e] + 1 ELSE toldLadder[e]
         \/ toldLadder' = toldLadder /\ lost' = lost \union Notices(w)
  <2>1. toldLadder \in [Events -> Nat] /\ lost \subseteq Events /\ Notices(w) \subseteq Events
    BY DEF AttendanceInv, AttendanceTypeOK, Notices, ToldToParents, Events
  <2>2. CASE TellLadder(w)
    BY <2>1, <2>2 DEF TellLadder
  <2>3. CASE StopTelling(w)
    BY <2>1, <2>3 DEF StopTelling
  <2> QED
    BY <2>2, <2>3
<1>5. AttendanceTypeOK'
  BY <1>2, <1>3, <1>4 DEF AttendanceInv, AttendanceTypeOK
<1>6. Mine'
  BY <1>3, TellersTyped DEF AttendanceInv, Mine, TellerAt
<1>7. Cardinality(Telling) \in Nat /\ toldAbsent \in Nat /\ turned \in Nat
  BY TellersFinite DEF AttendanceInv, AttendanceTypeOK
<1>8. AbsenceToldOnce'
  BY <1>2, <1>3, <1>7 DEF AttendanceInv, AbsenceToldOnce
<1>9. ASSUME NEW e \in ToldToParents
      PROVE  toldLadder'[e] + Cardinality(Tellers(e))' + (IF e \in lost' THEN 1 ELSE 0)
               = IF e \in ladder' THEN 1 ELSE 0
  <2>1. /\ toldLadder[e] \in Nat /\ Cardinality(Tellers(e)) \in Nat /\ e \in Events
        /\ toldLadder[e] + Cardinality(Tellers(e)) + (IF e \in lost THEN 1 ELSE 0)
             = IF e \in ladder THEN 1 ELSE 0
    BY TellersFinite DEF AttendanceInv, AttendanceTypeOK, LadderToldOnce, ToldToParents, Events
  <2>2. (e \in x.mine <=> e \in Notices(w)) /\ e \notin NoTeller.mine
    BY <1>1, TellersTyped DEF Notices
  <2>3. CASE e \in x.mine
    <3>1. Cardinality(Tellers(e)) >= 1 /\ Cardinality(Tellers(e))' + 1 = Cardinality(Tellers(e))
          /\ Cardinality(Tellers(e))' \in Nat
      BY <1>1, <1>2, <2>2, <2>3, TellersTyped, NoticeStep DEF AttendanceInv
    <3>2. e \notin lost
      BY <2>1, <3>1
    <3> QED
      BY <1>2, <1>4, <2>1, <2>2, <2>3, <3>1, <3>2
  <2>4. CASE e \notin x.mine
    <3>1. Cardinality(Tellers(e))' = Cardinality(Tellers(e))
      BY <1>1, <1>2, <2>2, <2>4, TellersTyped, NoticeStep DEF AttendanceInv
    <3> QED
      BY <1>2, <1>4, <2>1, <2>2, <2>4, <3>1
  <2> QED
    BY <2>3, <2>4
<1>10. LadderToldOnce'
  BY <1>9 DEF LadderToldOnce
<1> QED
  BY <1>5, <1>6, <1>8, <1>10 DEF AttendanceInv

\* The invariant holds at the start.
LEMMA AttendanceInitInv == AttendanceInit => AttendanceInv
<1> SUFFICES ASSUME AttendanceInit PROVE AttendanceInv
  OBVIOUS
<1>1. 1 \in Dates
  BY AttendanceAssumption DEF Dates
<1>2. AttendanceTypeOK
  BY <1>1, TellersTyped DEF AttendanceInit, AttendanceTypeOK, Decisions
<1>3. \A w \in Workers : teller[w].pc = "idle" /\ teller[w].mine = {}
  BY TellersTyped DEF AttendanceInit
<1>4. Mine
  BY <1>3 DEF Mine
<1>5. Telling = {} /\ \A e : Tellers(e) = {}
  BY <1>3 DEF Telling, Tellers, TellerAt
<1>6. AbsenceToldOnce
  BY <1>5, FS_EmptySet DEF AttendanceInit, AbsenceToldOnce
<1>7. LadderToldOnce
  BY <1>5, FS_EmptySet DEF AttendanceInit, LadderToldOnce, ToldToParents, Events
<1> QED
  BY <1>2, <1>4, <1>6, <1>7 DEF AttendanceInv

\* Every step keeps the invariant.
LEMMA AttendanceStep == AttendanceInv /\ [AttendanceNext]_attendanceVars => AttendanceInv'
<1> SUFFICES ASSUME AttendanceInv, [AttendanceNext]_attendanceVars PROVE AttendanceInv'
  OBVIOUS
<1>1. ASSUME UNCHANGED <<ladder, teller, toldAbsent, turned, toldLadder, lost>>, AttendanceTypeOK'
      PROVE  AttendanceInv'
  <2>1. UNCHANGED <<Telling, Mine>> /\ \A e : UNCHANGED Tellers(e)
    BY <1>1 DEF Telling, Mine, Tellers, TellerAt
  <2> QED
    BY <1>1, <2>1 DEF AttendanceInv, AbsenceToldOnce, LadderToldOnce
<1>2. CASE UNCHANGED attendanceVars
  <2>1. UNCHANGED <<today, enrolled, decision, ladder, teller, toldAbsent, turned, toldLadder, lost, saves>>
    BY <1>2 DEF attendanceVars
  <2>2. AttendanceTypeOK'
    BY <2>1 DEF AttendanceInv, AttendanceTypeOK
  <2> QED
    BY <1>1, <2>1, <2>2
<1>3. CASE MarkPresent \/ NextDay \/ Enrol
  <2>1. UNCHANGED <<ladder, teller, toldAbsent, turned, toldLadder, lost, saves>>
    BY <1>3 DEF MarkPresent, NextDay, Enrol
  <2>2. /\ today' \in Dates /\ enrolled' \in {"active", "inactive", "deleted"}
        /\ decision' \in [Dates -> Decisions]
    BY <1>3, AttendanceAssumption
       DEF MarkPresent, NextDay, Enrol, AttendanceInv, AttendanceTypeOK, Dates, Decisions
  <2>3. AttendanceTypeOK'
    BY <2>1, <2>2 DEF AttendanceInv, AttendanceTypeOK
  <2> QED
    BY <1>1, <2>1, <2>3
<1>4. ASSUME NEW w \in Workers,
             \/ SeeDecision(w) \/ WriteDecision(w) \/ TellAbsence(w)
             \/ RunLadder(w) \/ InsertEvent(w) \/ TellLadder(w) \/ StopTelling(w)
      PROVE  AttendanceInv'
  BY <1>4, DecideInv, ReadLadderInv, InsertInv, EndTellingInv
<1> QED
  BY <1>2, <1>3, <1>4 DEF AttendanceNext

\* The invariant holds throughout.
LEMMA AttendanceInvariant == AttendanceSpec => []AttendanceInv
  BY AttendanceInitInv, AttendanceStep, PTL DEF AttendanceSpec

\* Parents hear of an absence once for each time a day became one, for any number of
\* teachers who decide at once (setAttendance, api/attendance).
THEOREM AbsencesToldOnce == AttendanceSpec => []AbsenceToldOnce
<1>1. AttendanceInv => AbsenceToldOnce
  BY DEF AttendanceInv
<1> QED
  BY AttendanceInvariant, <1>1, PTL

\* An event of the ladder is told by the one handler that inserted it, or is lost with it,
\* for any number of ladders run at once (runAbsenceLadder, notifyParentsOfLadderEvents).
THEOREM LadderIsToldOnce == AttendanceSpec => []LadderToldOnce
<1>1. AttendanceInv => LadderToldOnce
  BY DEF AttendanceInv
<1> QED
  BY AttendanceInvariant, <1>1, PTL

-----------------------------------------------------------------------------
(* Permits                                                                  *)

\* A transaction that has read a row is alone with it, and what it will write follows from
\* what the row is; one that has found no row will write a first issue.
PermitHeld ==
  /\ \A w \in Workers : permitTx[w].open =>
       IF permitTx[w].from = NoPermit
       THEN permitTx[w].to = "active" /\ permitTx[w].suspensions = 0
       ELSE /\ permitTx[w].from = permit.status
            /\ permitTx[w].suspensions = IF permitTx[w].to = "suspended" THEN permit.suspensions + 1
                                                                          ELSE permit.suspensions
  /\ \A v, w \in Workers :
       (/\ permitTx[v].open /\ permitTx[v].from # NoPermit
        /\ permitTx[w].open /\ permitTx[w].from # NoPermit) => v = w

PermitInv == PermitTypeOK /\ LogIsHistory /\ PermitHeld

\* The statuses an action leads to.
LEMMA MovesTyped ==
  ASSUME NEW action \in DOMAIN PermitMoves, NEW move \in PermitMoves[action]
  PROVE  /\ move[1] \in Statuses \union {NoPermit} /\ move[2] \in Statuses
         /\ (move[1] = NoPermit) <=> (action = "issue")
         /\ (move[2] = "suspended") <=> (action = "suspend")
         /\ action = "issue" => move[2] = "active"
  BY DEF PermitMoves, Withdrawable, Statuses, NoPermit

\* A step of one transaction that writes nothing.
LEMMA PermitTxInv ==
  ASSUME PermitInv, NEW w \in Workers, DecidePermit(w) \/ AbortPermit(w) PROVE PermitInv'
<1>1. UNCHANGED <<permit, permitsLog>>
  BY DEF DecidePermit, AbortPermit
<1>2. CASE DecidePermit(w)
  <2> PICK action \in DOMAIN PermitMoves :
        \E move \in PermitMoves[action] :
          /\ move[1] = permit.status
          /\ permitTx' = [permitTx EXCEPT ![w] =
               [open |-> TRUE, from |-> move[1], to |-> move[2],
                suspensions |-> SuspensionsAfter(action, permit.suspensions)]]
    BY <1>2 DEF DecidePermit
  <2>1. PICK move \in PermitMoves[action] :
          /\ move[1] = permit.status
          /\ permitTx' = [permitTx EXCEPT ![w] =
               [open |-> TRUE, from |-> move[1], to |-> move[2],
                suspensions |-> SuspensionsAfter(action, permit.suspensions)]]
    OBVIOUS
  <2>2. PICK n \in Nat : n = SuspensionsAfter(action, permit.suspensions)
    BY DEF SuspensionsAfter, PermitInv, PermitTypeOK, Permit
  <2>3. /\ action = "issue" => n = 0
        /\ action = "suspend" => n = permit.suspensions + 1
        /\ action \notin {"issue", "suspend"} => n = permit.suspensions
    BY <2>2 DEF SuspensionsAfter
  <2>4. PICK t : t = [open |-> TRUE, from |-> move[1], to |-> move[2], suspensions |-> n]
    OBVIOUS
  <2>5. t \in Tx /\ t.open /\ t.from = move[1] /\ t.to = move[2] /\ t.suspensions = n
    BY <2>4, MovesTyped DEF Tx
  <2>6. /\ permitTx' \in [Workers -> Tx] /\ permitTx'[w] = t
        /\ \A v \in Workers : v # w => permitTx'[v] = permitTx[v]
    BY <2>1, <2>2, <2>4, <2>5 DEF PermitInv, PermitTypeOK
  <2>7. \A v \in Workers : v # w => ~(permitTx[v].open /\ permitTx[v].from # NoPermit)
    BY <1>2 DEF DecidePermit, PermitUnlocked, LockedByOther
  <2>8. PermitHeld'
    <3>1. IF t.from = NoPermit THEN t.to = "active" /\ t.suspensions = 0
          ELSE /\ t.from = permit.status
               /\ t.suspensions = IF t.to = "suspended" THEN permit.suspensions + 1 ELSE permit.suspensions
      BY <2>1, <2>3, <2>5, MovesTyped
    <3> QED
      BY <1>1, <2>6, <2>7, <3>1 DEF PermitInv, PermitHeld
  <2> QED
    BY <1>1, <2>6, <2>8 DEF PermitInv, PermitTypeOK, LogIsHistory, StatusAfter, CountedSuspensions, FirstIssue
<1>3. CASE AbortPermit(w)
  <2>1. NoTx \in Tx /\ ~NoTx.open
    BY DEF NoTx, Tx, NoPermit, Statuses
  <2>2. /\ permitTx' \in [Workers -> Tx] /\ permitTx'[w] = NoTx
        /\ \A v \in Workers : v # w => permitTx'[v] = permitTx[v]
    BY <1>3, <2>1 DEF AbortPermit, PermitInv, PermitTypeOK
  <2>3. PermitHeld'
    BY <1>1, <2>1, <2>2 DEF PermitInv, PermitHeld
  <2> QED
    BY <1>1, <2>2, <2>3 DEF PermitInv, PermitTypeOK, LogIsHistory, StatusAfter, CountedSuspensions, FirstIssue
<1> QED
  BY <1>2, <1>3

\* The row and its entry are written together.
LEMMA CommitPermitInv == ASSUME PermitInv, NEW w \in Workers, CommitPermit(w) PROVE PermitInv'
<1>1. PICK t \in Tx : t = permitTx[w] /\ t.open
  BY DEF CommitPermit, PermitInv, PermitTypeOK
<1>2. t.from \in Statuses \union {NoPermit} /\ t.to \in Statuses /\ t.suspensions \in Nat
  BY <1>1 DEF Tx
<1>3. PICK e : e = [from |-> t.from, to |-> t.to]
  OBVIOUS
<1>4. e \in Entry /\ e.from = t.from /\ e.to = t.to
  BY <1>2, <1>3 DEF Entry
<1>5. permitsLog' = Append(permitsLog, e) /\ permitsLog \in Seq(Entry)
  BY <1>1, <1>3 DEF CommitPermit, PermitInv, PermitTypeOK
<1>6. PICK n \in Nat : n = Len(permitsLog)
  BY <1>5
<1>7. /\ permitsLog' \in Seq(Entry) /\ Len(permitsLog') = n + 1 /\ permitsLog'[n + 1] = e
      /\ \A i \in 1..n : permitsLog'[i] = permitsLog[i]
      /\ DOMAIN permitsLog = 1..n /\ DOMAIN permitsLog' = 1..(n + 1)
  BY <1>4, <1>5, <1>6
<1>8. permit' \in Permit /\ permit'.status = t.to /\ permit'.suspensions = t.suspensions
  BY <1>1, <1>2 DEF CommitPermit, Permit
<1>9. NoTx \in Tx /\ ~NoTx.open
  BY DEF NoTx, Tx, NoPermit, Statuses
<1>10. /\ permitTx' \in [Workers -> Tx] /\ permitTx'[w] = NoTx
       /\ \A v \in Workers : v # w => permitTx'[v] = permitTx[v]
  BY <1>9 DEF CommitPermit, PermitInv, PermitTypeOK
<1>11. \A v \in Workers : v # w => ~(permitTx[v].open /\ permitTx[v].from # NoPermit)
  BY DEF CommitPermit, PermitUnlocked, LockedByOther
<1>12. PermitTypeOK'
  BY <1>7, <1>8, <1>10 DEF PermitTypeOK
<1>13. PermitHeld'
  BY <1>9, <1>10, <1>11 DEF PermitInv, PermitHeld
<1>14. t.from # NoPermit => t.from = permit.status
  BY <1>1 DEF PermitInv, PermitHeld
<1>15. \A i \in DOMAIN permitsLog' : FirstIssue(i)' \/ permitsLog'[i].from = StatusAfter(i - 1)'
  <2> SUFFICES ASSUME NEW i \in 1..(n + 1) PROVE FirstIssue(i)' \/ permitsLog'[i].from = StatusAfter(i - 1)'
    BY <1>7
  <2>1. CASE i = n + 1
    <3>1. StatusAfter(n)' = StatusAfter(n)
      BY <1>6, <1>7 DEF StatusAfter
    <3>2. permit.status = StatusAfter(n)
      BY <1>6 DEF PermitInv, LogIsHistory
    <3> QED
      BY <1>4, <1>7, <1>14, <2>1, <3>1, <3>2 DEF FirstIssue
  <2>2. CASE i \in 1..n
    <3>1. StatusAfter(i - 1)' = StatusAfter(i - 1)
      BY <1>7, <2>2 DEF StatusAfter
    <3>2. FirstIssue(i) \/ permitsLog[i].from = StatusAfter(i - 1)
      BY <1>7, <2>2 DEF PermitInv, LogIsHistory
    <3> QED
      BY <1>7, <2>2, <3>1, <3>2 DEF FirstIssue
  <2> QED
    BY <2>1, <2>2
<1>16. permit'.status = StatusAfter(Len(permitsLog))'
  BY <1>4, <1>7, <1>8 DEF StatusAfter
<1>17. permit'.suspensions = Cardinality(CountedSuspensions)'
  <2> PICK S, T : S = CountedSuspensions /\ T = CountedSuspensions'
    OBVIOUS
  <2>1. S \subseteq 1..n /\ IsFiniteSet(1..n)
    BY <1>7, FS_Interval DEF CountedSuspensions
  <2>2. IsFiniteSet(S) /\ permit.suspensions = Cardinality(S) /\ Cardinality(S) \in Nat
    BY <2>1, FS_Subset, FS_CardinalityType DEF PermitInv, LogIsHistory
  <2>3. CASE t.from = NoPermit
    <3>1. t.to # "suspended" /\ t.suspensions = 0
      BY <1>1, <2>3 DEF PermitInv, PermitHeld
    <3>2. T = {}
      BY <1>4, <1>7, <2>3, <3>1 DEF CountedSuspensions, FirstIssue
    <3> QED
      BY <1>8, <3>1, <3>2, FS_EmptySet
  <2>4. CASE t.from # NoPermit
    <3>1. t.suspensions = IF t.to = "suspended" THEN permit.suspensions + 1 ELSE permit.suspensions
      BY <1>1, <2>4 DEF PermitInv, PermitHeld
    <3>2. \A i \in 1..n : FirstIssue(i)' <=> FirstIssue(i)
      BY <1>7 DEF FirstIssue
    <3>3. ~FirstIssue(n + 1)'
      BY <1>4, <1>7, <2>4 DEF FirstIssue
    <3>4. \A i \in 1..n : i \in T <=> i \in S
      BY <1>7, <3>2, <3>3 DEF CountedSuspensions
    <3>5. n + 1 \in T <=> t.to = "suspended"
      BY <1>4, <1>7 DEF CountedSuspensions
    <3>6. T \subseteq 1..(n + 1)
      BY <1>7 DEF CountedSuspensions
    <3> PICK R : R = 1..n
      OBVIOUS
    <3>7. (\A i \in T : i \in R \/ i = n + 1) /\ n + 1 \notin R /\ S \subseteq R
      BY <2>1, <3>6
    <3>8. \A i \in R : i \in T <=> i \in S
      BY <3>4
    <3>9. CASE t.to = "suspended"
      <4>1. T = S \union {n + 1} /\ n + 1 \notin S
        BY <3>5, <3>9, <3>7, <3>8, Zenon
      <4>2. Cardinality(S \union {n + 1}) = Cardinality(S) + 1
        BY <2>2, <4>1, FS_AddElement, Zenon
      <4> QED
        BY <1>8, <2>2, <3>1, <3>9, <4>1, <4>2
    <3>10. CASE t.to # "suspended"
      <4>1. T = S
        BY <3>5, <3>10, <3>7, <3>8, Zenon
      <4> QED
        BY <1>8, <2>2, <3>1, <3>10, <4>1
    <3> QED
      BY <3>9, <3>10
  <2> QED
    BY <2>3, <2>4
<1>18. LogIsHistory'
  BY <1>15, <1>16, <1>17 DEF LogIsHistory
<1> QED
  BY <1>12, <1>13, <1>18 DEF PermitInv

\* The invariant holds throughout.
LEMMA PermitInvariant == PermitSpec => []PermitInv
<1>1. PermitInit => PermitInv
  <2> SUFFICES ASSUME PermitInit PROVE PermitInv
    OBVIOUS
  <2>1. NoTx \in Tx /\ ~NoTx.open
    BY DEF NoTx, Tx, NoPermit, Statuses
  <2>2. PermitTypeOK
    BY <2>1 DEF PermitInit, PermitTypeOK, Permit
  <2>3. DOMAIN permitsLog = {} /\ Len(permitsLog) = 0
    BY DEF PermitInit
  <2>4. CountedSuspensions = {}
    BY <2>3 DEF CountedSuspensions
  <2>5. LogIsHistory
    BY <2>3, <2>4, FS_EmptySet DEF PermitInit, LogIsHistory, StatusAfter
  <2>6. PermitHeld
    BY <2>1 DEF PermitInit, PermitHeld
  <2> QED
    BY <2>2, <2>5, <2>6 DEF PermitInv
<1>2. PermitInv /\ [PermitNext]_permitVars => PermitInv'
  <2> SUFFICES ASSUME PermitInv, [PermitNext]_permitVars PROVE PermitInv'
    OBVIOUS
  <2>1. CASE UNCHANGED permitVars
    BY <2>1 DEF permitVars, PermitInv, PermitTypeOK, LogIsHistory, PermitHeld, StatusAfter,
                CountedSuspensions, FirstIssue
  <2>2. CASE PermitNext
    BY <2>2, PermitTxInv, CommitPermitInv DEF PermitNext
  <2> QED
    BY <2>1, <2>2
<1> QED
  BY <1>1, <1>2, PTL DEF PermitSpec

\* The log of a permit is its history, for any number of requests at once and for every
\* number of entries, but for issues that read before there was a permit
\* (applyPermitActionDb).
THEOREM LogStaysHistory == PermitSpec => []LogIsHistory
<1>1. PermitInv => LogIsHistory
  BY DEF PermitInv
<1> QED
  BY PermitInvariant, <1>1, PTL

-----------------------------------------------------------------------------
(* The assistant                                                            *)

\* A request that has the proposal in its hands.
Executing(w) == clicks[w] \in {"claimed", "done", "refused", "thrown"}

\* One request has it at most, while it is executing and nobody has let go of it; what it
\* has done is what was done.
OneExecutor ==
  /\ \A v, w \in Workers : Executing(v) /\ Executing(w) => v = w
  /\ \A w \in Workers : Executing(w) => proposal = "executing" /\ ~abandoned
  /\ proposal = "executing" /\ ~abandoned => \E w \in Workers : Executing(w)
  /\ abandoned => proposal = "executing"
  /\ \A w \in Workers : /\ clicks[w] \in {"claimed", "refused"} => carriedOut = 0
                        /\ clicks[w] = "done" => carriedOut = 1

\* What the row says.
RowTrue ==
  /\ carriedOut <= 1
  /\ proposal = "approved" => carriedOut = 1
  /\ proposal \in {"none", "pending", "rejected"} => carriedOut = 0

AssistantInv == AssistantTypeOK /\ RowTrue /\ OneExecutor

\* Every step of a request keeps the invariant.
LEMMA ClickInv ==
  ASSUME AssistantInv, NEW w \in Workers,
         \/ OpenProposal(w) \/ CancelProposal(w) \/ ClaimProposal(w)
         \/ RefuseChange(w) \/ MakeChange(w) \/ FinishProposal(w) \/ StopClick(w)
  PROVE  AssistantInv'
<1>1. PICK pc \in Click : clicks' = [clicks EXCEPT ![w] = pc]
  BY DEF OpenProposal, CancelProposal, ClaimProposal, RefuseChange, MakeChange, FinishProposal,
     StopClick, ClickGoes, ClickEnds, Click
<1>2. clicks' \in [Workers -> Click] /\ clicks'[w] = pc
      /\ \A v \in Workers : v # w => clicks'[v] = clicks[v]
  BY <1>1 DEF AssistantInv, AssistantTypeOK
<1>3. CASE OpenProposal(w)
  <2>1. pc \in {"executing?", "cancelling?"} /\ ~Executing(w)
    BY <1>2, <1>3 DEF OpenProposal, ClickGoes, ClickAt, Executing, AssistantInv, AssistantTypeOK
  <2> QED
    BY <1>2, <1>3, <2>1 DEF OpenProposal, AssistantInv, AssistantTypeOK, RowTrue, OneExecutor, Executing
<1>4. CASE CancelProposal(w)
  <2>1. pc = "idle" /\ ~Executing(w)
    BY <1>2, <1>4 DEF CancelProposal, ClickEnds, ClickGoes, ClickAt, Executing, AssistantInv, AssistantTypeOK
  <2>2. /\ proposal' = proposal \/ (proposal = "pending" /\ proposal' = "rejected")
        /\ UNCHANGED <<carriedOut, abandoned>>
    BY <1>4 DEF CancelProposal, Rejectable
  <2> QED
    BY <1>2, <2>1, <2>2 DEF AssistantInv, AssistantTypeOK, ProposalStatuses, RowTrue, OneExecutor, Executing
<1>5. CASE ClaimProposal(w)
  <2>1. UNCHANGED <<carriedOut, abandoned>>
    BY <1>5 DEF ClaimProposal
  <2>2. CASE proposal = "pending"
    <3>1. pc = "claimed" /\ proposal' = "executing"
      BY <1>2, <1>5, <2>2 DEF ClaimProposal, ProposalClaimable, ClickGoes, AssistantInv, AssistantTypeOK
    <3>2. \A v \in Workers : ~Executing(v)
      BY <2>2 DEF AssistantInv, OneExecutor
    <3> QED
      BY <1>2, <2>1, <2>2, <3>1, <3>2 DEF AssistantInv, AssistantTypeOK, ProposalStatuses, RowTrue, OneExecutor, Executing
  <2>3. CASE proposal # "pending"
    <3>1. pc = "idle" /\ proposal' = proposal /\ ~Executing(w)
      BY <1>2, <1>5, <2>3 DEF ClaimProposal, ProposalClaimable, ClickEnds, ClickGoes, ClickAt, Executing, AssistantInv, AssistantTypeOK
    <3> QED
      BY <1>2, <2>1, <3>1 DEF AssistantInv, AssistantTypeOK, RowTrue, OneExecutor, Executing
  <2> QED
    BY <2>2, <2>3
<1>6. CASE RefuseChange(w)
  <2>1. pc \in {"refused", "thrown"} /\ clicks[w] = "claimed" /\ UNCHANGED <<proposal, carriedOut, abandoned>>
    BY <1>2, <1>6 DEF RefuseChange, ClickGoes, ClickAt, AssistantInv, AssistantTypeOK
  <2> QED
    BY <1>2, <2>1 DEF AssistantInv, AssistantTypeOK, RowTrue, OneExecutor, Executing
<1>7. CASE MakeChange(w)
  <2>1. /\ pc \in {"done", "thrown"} /\ clicks[w] = "claimed"
        /\ carriedOut' = carriedOut + 1 /\ UNCHANGED <<proposal, abandoned>>
    BY <1>2, <1>7 DEF MakeChange, ClickGoes, ClickAt, AssistantInv, AssistantTypeOK
  <2>2. carriedOut = 0 /\ carriedOut' = 1 /\ proposal = "executing"
    BY <2>1 DEF AssistantInv, OneExecutor, Executing
  <2> QED
    BY <1>2, <2>1, <2>2 DEF AssistantInv, AssistantTypeOK, RowTrue, OneExecutor, Executing
<1>8. CASE FinishProposal(w)
  <2>1. /\ pc = "idle" /\ Executing(w) /\ clicks[w] # "claimed"
        /\ UNCHANGED <<carriedOut, abandoned>>
    BY <1>2, <1>8 DEF FinishProposal, ClickEnds, ClickGoes, Executing, AssistantInv, AssistantTypeOK
  <2>2. proposal = "executing" /\ ~abandoned /\ \A v \in Workers : v # w => ~Executing(v)
    BY <2>1 DEF AssistantInv, OneExecutor
  <2>3. (proposal' = "approved" /\ clicks[w] = "done") \/ proposal' = "failed"
    BY <1>8, <2>2 DEF FinishProposal, OutcomeOf
  <2> QED
    BY <1>2, <2>1, <2>2, <2>3 DEF AssistantInv, AssistantTypeOK, ProposalStatuses, RowTrue, OneExecutor, Executing
<1>9. CASE StopClick(w)
  <2>1. pc = "idle" /\ UNCHANGED <<proposal, carriedOut>> /\ abandoned' = (abandoned \/ Executing(w))
    BY <1>2, <1>9 DEF StopClick, ClickEnds, ClickGoes, Executing, AssistantInv, AssistantTypeOK
  <2>2. CASE Executing(w)
    <3>1. abandoned' = TRUE /\ proposal = "executing" /\ \A v \in Workers : v # w => ~Executing(v)
      BY <2>1, <2>2 DEF AssistantInv, OneExecutor
    <3> QED
      BY <1>2, <2>1, <3>1 DEF AssistantInv, AssistantTypeOK, RowTrue, OneExecutor, Executing
  <2>3. CASE ~Executing(w)
    <3>1. abandoned' = abandoned
      BY <2>1, <2>3 DEF AssistantInv, AssistantTypeOK
    <3> QED
      BY <1>2, <2>1, <2>3, <3>1 DEF AssistantInv, AssistantTypeOK, RowTrue, OneExecutor, Executing
  <2> QED
    BY <2>2, <2>3
<1> QED
  BY <1>3, <1>4, <1>5, <1>6, <1>7, <1>8, <1>9

\* The invariant holds throughout.
LEMMA AssistantInvariant == AssistantSpec => []AssistantInv
<1>1. AssistantInit => AssistantInv
  <2> SUFFICES ASSUME AssistantInit PROVE AssistantInv
    OBVIOUS
  <2>1. AssistantTypeOK
    BY DEF AssistantInit, AssistantTypeOK, ProposalStatuses, Click
  <2>4. RowTrue
    BY DEF AssistantInit, RowTrue
  <2>2. \A w \in Workers : ~Executing(w) /\ clicks[w] = "idle"
    BY DEF AssistantInit, Executing
  <2>3. OneExecutor
    BY <2>2 DEF AssistantInit, OneExecutor
  <2> QED
    BY <2>1, <2>3, <2>4 DEF AssistantInv
<1>2. AssistantInv /\ [AssistantNext]_assistantVars => AssistantInv'
  <2> SUFFICES ASSUME AssistantInv, [AssistantNext]_assistantVars PROVE AssistantInv'
    OBVIOUS
  <2>1. CASE UNCHANGED assistantVars
    BY <2>1 DEF assistantVars, AssistantInv, AssistantTypeOK, RowTrue, OneExecutor, Executing
  <2>2. CASE Propose
    BY <2>2 DEF Propose, AssistantInv, AssistantTypeOK, ProposalStatuses, RowTrue, OneExecutor, Executing
  <2>3. CASE \E w \in Workers :
               \/ OpenProposal(w) \/ CancelProposal(w) \/ ClaimProposal(w)
               \/ RefuseChange(w) \/ MakeChange(w) \/ FinishProposal(w) \/ StopClick(w)
    BY <2>3, ClickInv
  <2> QED
    BY <2>1, <2>2, <2>3 DEF AssistantNext
<1> QED
  BY <1>1, <1>2, PTL DEF AssistantSpec

\* What a proposal says of itself is true, for any number of requests that execute and
\* cancel it at once and end anywhere (store.ts 77-123, route.ts 31-60).
THEOREM ProposalsAreTruthful == AssistantSpec => []ProposalTruthful
<1>1. AssistantInv => ProposalTruthful
  <2> SUFFICES ASSUME AssistantInv
               PROVE  Cardinality(Executors) = IF proposal = "executing" /\ ~abandoned THEN 1 ELSE 0
    BY DEF AssistantInv, RowTrue, ProposalTruthful
  <2>1. CASE proposal = "executing" /\ ~abandoned
    <3>1. PICK w \in Workers : Executing(w)
      BY <2>1 DEF AssistantInv, OneExecutor
    <3>2. Executors = {w}
      BY <3>1 DEF AssistantInv, OneExecutor, Executors, Executing
    <3> QED
      BY <2>1, <3>2, FS_Singleton
  <2>2. CASE ~(proposal = "executing" /\ ~abandoned)
    <3>1. Executors = {}
      BY <2>2 DEF AssistantInv, OneExecutor, Executors, Executing
    <3> QED
      BY <2>2, <3>1, FS_EmptySet
  <2> QED
    BY <2>1, <2>2
<1> QED
  BY AssistantInvariant, <1>1, PTL

-----------------------------------------------------------------------------
(* The founding of mosques                                                  *)

\* A decision under way is alone with its application, which still waits for it; one that
\* has inserted an account is the only one with its username.
Deciding(w) == officer[w].pc \in {"approving", "checked", "founding", "rejecting"}

ApplicationHeld ==
  /\ \A w \in Workers : Deciding(w) =>
       /\ officer[w].about \in Applications
       /\ application[officer[w].about].status = "pending"
       /\ application[officer[w].about].username = officer[w].username
  /\ \A v, w \in Workers : Deciding(v) /\ officer[v].about = officer[w].about => v = w
  /\ \A w \in Workers : ~Deciding(w) => officer[w].about = OldMosque

NameHeld ==
  /\ \A w \in Workers : OfficerAt(w, "founding") => ~HasAccount(officer[w].username)
  /\ \A v, w \in Workers : OfficerAt(v, "founding") /\ OfficerAt(w, "founding")
       /\ officer[v].username = officer[w].username => v = w
  /\ \A w \in Workers : OfficerAt(w, "applying") => officer[w].username \in Usernames
  /\ \A a \in Applications : application[a].status # "absent" => application[a].username \in Usernames

RegistrationInv == RegistrationTypeOK /\ FoundedByApproval /\ ApplicationHeld /\ NameHeld

\* A handler that ends is one that does nothing.
LEMMA OfficerEnded == NoOfficer \in Officer /\ NoOfficer.pc = "idle" /\ NoOfficer.about = OldMosque
  BY DEF NoOfficer, Officer, Mosques

\* What a step of one handler leaves alone.
LEMMA OfficerStep ==
  ASSUME RegistrationTypeOK, NEW w \in Workers, NEW o \in Officer, OfficerGoes(w, o)
  PROVE  /\ officer' \in [Workers -> Officer] /\ officer'[w] = o
         /\ \A v \in Workers : v # w => officer'[v] = officer[v]
  BY DEF RegistrationTypeOK, OfficerGoes

\* The questions that are asked before something is written keep the invariant.
LEMMA AskInv ==
  ASSUME RegistrationInv, NEW w \in Workers,
         AskUsername(w) \/ OpenApplication(w) \/ CheckAccount(w) \/ InsertAccount(w) \/ AbortDecision(w)
  PROVE  RegistrationInv'
<1>1. UNCHANGED <<application, mosques, admin>>
  BY DEF AskUsername, OpenApplication, CheckAccount, InsertAccount, AbortDecision
<1>2. (FoundedByApproval /\ \A a \in Applications : application[a].status # "absent" => application[a].username \in Usernames)'
  BY <1>1 DEF RegistrationInv, FoundedByApproval, NameHeld
<1>3. \A u : HasAccount(u)' <=> HasAccount(u)
  BY <1>1 DEF HasAccount
<1>4. ASSUME OfficerEnds(w) PROVE RegistrationInv'
  <2>1. /\ officer' \in [Workers -> Officer] /\ officer'[w] = NoOfficer
        /\ \A v \in Workers : v # w => officer'[v] = officer[v]
    BY <1>4, OfficerEnded, OfficerStep DEF OfficerEnds, RegistrationInv
  <2>2. ApplicationHeld'
    BY <1>1, <2>1, OfficerEnded, RegistrationAssumption DEF RegistrationInv, ApplicationHeld, Deciding
  <2>3. NameHeld'
    BY <1>2, <1>3, <2>1, OfficerEnded DEF RegistrationInv, NameHeld, OfficerAt
  <2> QED
    BY <1>1, <1>2, <2>1, <2>2, <2>3 DEF RegistrationInv, RegistrationTypeOK
<1>5. CASE AskUsername(w)
  <2>1. PICK u \in Usernames : OfficerGoes(w, [NoOfficer EXCEPT !.pc = "applying", !.username = u])
    BY <1>5 DEF AskUsername
  <2>2. PICK o : o = [NoOfficer EXCEPT !.pc = "applying", !.username = u]
    OBVIOUS
  <2>3. o \in Officer /\ o.pc = "applying" /\ o.about = OldMosque /\ o.username = u
    BY <2>2 DEF NoOfficer, Officer, Mosques
  <2>4. /\ officer' \in [Workers -> Officer] /\ officer'[w] = o
        /\ \A v \in Workers : v # w => officer'[v] = officer[v]
    BY <2>1, <2>2, <2>3, OfficerStep DEF RegistrationInv
  <2>5. ApplicationHeld'
    BY <1>1, <2>3, <2>4, RegistrationAssumption DEF RegistrationInv, ApplicationHeld, Deciding
  <2>6. NameHeld'
    BY <1>2, <1>3, <2>3, <2>4 DEF RegistrationInv, NameHeld, OfficerAt
  <2> QED
    BY <1>1, <1>2, <2>4, <2>5, <2>6 DEF RegistrationInv, RegistrationTypeOK
<1>6. CASE OpenApplication(w)
  <2>1. PICK a \in Applications, pc \in {"approving", "rejecting"} :
          /\ Decidable(a) /\ application[a].status = "pending"
          /\ OfficerGoes(w, [pc |-> pc, about |-> a, username |-> application[a].username])
    BY <1>6 DEF OpenApplication
  <2>2. PICK o : o = [pc |-> pc, about |-> a, username |-> application[a].username]
    OBVIOUS
  <2>3. o \in Officer /\ o.pc = pc /\ o.about = a /\ o.username = application[a].username
    BY <2>2 DEF Officer, Mosques, RegistrationInv, RegistrationTypeOK, Application
  <2>4. /\ officer' \in [Workers -> Officer] /\ officer'[w] = o
        /\ \A v \in Workers : v # w => officer'[v] = officer[v]
    BY <2>1, <2>2, <2>3, OfficerStep DEF RegistrationInv
  <2>5. \A v \in Workers : officer[v].about # a
    BY <2>1 DEF Decidable
  <2>6. ApplicationHeld'
    BY <1>1, <2>1, <2>3, <2>4, <2>5 DEF RegistrationInv, ApplicationHeld, Deciding
  <2>7. NameHeld'
    BY <1>2, <1>3, <2>3, <2>4 DEF RegistrationInv, NameHeld, OfficerAt
  <2> QED
    BY <1>1, <1>2, <2>4, <2>6, <2>7 DEF RegistrationInv, RegistrationTypeOK
<1>7. CASE CheckAccount(w) \/ InsertAccount(w)
  <2>1. CASE OfficerEnds(w)
    BY <1>4, <2>1
  <2>2. CASE ~OfficerEnds(w)
    <3>1. PICK pc \in {"checked", "founding"} :
            /\ OfficerGoes(w, [officer[w] EXCEPT !.pc = pc]) /\ Deciding(w)
            /\ pc = "founding" => ~HasAccount(officer[w].username) /\ ~AccountOpen(officer[w].username)
      BY <1>7, <2>2 DEF CheckAccount, InsertAccount, AccountFree, OfficerAt, Deciding
    <3>2. PICK o : o = [officer[w] EXCEPT !.pc = pc]
      OBVIOUS
    <3>3. o \in Officer /\ o.pc = pc /\ o.about = officer[w].about /\ o.username = officer[w].username
      BY <3>2 DEF Officer, RegistrationInv, RegistrationTypeOK
    <3>4. /\ officer' \in [Workers -> Officer] /\ officer'[w] = o
          /\ \A v \in Workers : v # w => officer'[v] = officer[v]
      BY <3>1, <3>2, <3>3, OfficerStep DEF RegistrationInv
    <3>5. ApplicationHeld'
      BY <1>1, <3>1, <3>3, <3>4 DEF RegistrationInv, ApplicationHeld, Deciding
    <3>6. NameHeld'
      BY <1>2, <1>3, <3>1, <3>3, <3>4 DEF RegistrationInv, NameHeld, OfficerAt, AccountOpen
    <3> QED
      BY <1>1, <1>2, <3>4, <3>5, <3>6 DEF RegistrationInv, RegistrationTypeOK
  <2> QED
    BY <2>1, <2>2
<1>8. CASE AbortDecision(w)
  BY <1>4, <1>8 DEF AbortDecision
<1> QED
  BY <1>5, <1>6, <1>7, <1>8

\* An application that is made keeps the invariant.
LEMMA ApplyInv == ASSUME RegistrationInv, NEW w \in Workers, Apply(w) PROVE RegistrationInv'
<1> PICK u : u = officer[w].username
  OBVIOUS
<1>1. /\ officer' \in [Workers -> Officer] /\ officer'[w] = NoOfficer
      /\ \A v \in Workers : v # w => officer'[v] = officer[v]
  BY OfficerEnded, OfficerStep DEF Apply, OfficerEnds, RegistrationInv
<1>2. u \in Usernames /\ UNCHANGED <<mosques, admin>>
  BY DEF Apply, RegistrationInv, NameHeld
<1>3. \A n : HasAccount(n)' <=> HasAccount(n)
  BY <1>2 DEF HasAccount
<1>4. CASE UNCHANGED application
  <2>1. FoundedByApproval' /\ RegistrationTypeOK'
    BY <1>1, <1>2, <1>4 DEF RegistrationInv, RegistrationTypeOK, FoundedByApproval
  <2>2. ApplicationHeld'
    BY <1>1, <1>4, OfficerEnded, RegistrationAssumption DEF RegistrationInv, ApplicationHeld, Deciding
  <2>3. NameHeld'
    BY <1>1, <1>3, <1>4, OfficerEnded DEF RegistrationInv, NameHeld, OfficerAt
  <2> QED
    BY <2>1, <2>2, <2>3 DEF RegistrationInv
<1>5. CASE application' # application
  <2>1. PICK a \in Applications :
          /\ application[a].status = "absent" /\ PendingWith(u) = {}
          /\ application' = [application EXCEPT ![a] = [status |-> "pending", username |-> u]]
    BY <1>5 DEF Apply, FreeAmongPending
  <2>2. application'[a] = [status |-> "pending", username |-> u]
        /\ \A b \in Applications : b # a => application'[b] = application[b]
    BY <2>1 DEF RegistrationInv, RegistrationTypeOK
  <2>3. RegistrationTypeOK'
    BY <1>1, <1>2, <2>1 DEF RegistrationInv, RegistrationTypeOK, Application
  <2>4. \A b \in Applications : b \in mosques' <=> application'[b].status = "approved"
    BY <1>2, <2>1, <2>2 DEF RegistrationInv, FoundedByApproval
  <2>5. \A b \in Applications : application[b].status = "pending" => application[b].username # u
    BY <2>1 DEF PendingWith
  <2>6. FoundedByApproval'
    BY <1>2, <2>2, <2>4, <2>5 DEF RegistrationInv, FoundedByApproval
  <2>7. \A v \in Workers : Deciding(v) => officer[v].about # a
    BY <2>1 DEF RegistrationInv, ApplicationHeld
  <2>8. ApplicationHeld'
    BY <1>1, <2>2, <2>7, OfficerEnded, RegistrationAssumption DEF RegistrationInv, ApplicationHeld, Deciding
  <2>9. NameHeld'
    BY <1>1, <1>2, <1>3, <2>2, OfficerEnded DEF RegistrationInv, NameHeld, OfficerAt
  <2> QED
    BY <2>3, <2>6, <2>8, <2>9 DEF RegistrationInv
<1> QED
  BY <1>4, <1>5

\* A decision that is committed keeps the invariant.
LEMMA DecisionInv ==
  ASSUME RegistrationInv, NEW w \in Workers, CommitApproval(w) \/ CommitRejection(w)
  PROVE  RegistrationInv'
<1> PICK a, u : a = officer[w].about /\ u = officer[w].username
  OBVIOUS
<1>1. /\ officer' \in [Workers -> Officer] /\ officer'[w] = NoOfficer
      /\ \A v \in Workers : v # w => officer'[v] = officer[v]
  BY OfficerEnded, OfficerStep DEF CommitApproval, CommitRejection, OfficerEnds, RegistrationInv
<1>2. Deciding(w) /\ (CommitApproval(w) => OfficerAt(w, "founding"))
  BY DEF CommitApproval, CommitRejection, Deciding, OfficerAt
<1>3. a \in Applications /\ application[a].status = "pending" /\ application[a].username = u
  BY <1>2 DEF RegistrationInv, ApplicationHeld
<1>4. u \in Usernames /\ a # OldMosque /\ a \notin mosques
  BY <1>3, RegistrationAssumption DEF RegistrationInv, NameHeld, FoundedByApproval
<1>5. \A v \in Workers : v # w => officer[v].about # a
  BY <1>2, <1>3, <1>4 DEF RegistrationInv, ApplicationHeld
<1>6. PICK status \in {"approved", "rejected"} :
        /\ application' = [application EXCEPT ![a].status = status]
        /\ status = "approved" <=> CommitApproval(w)
  BY <1>2 DEF CommitApproval, CommitRejection, OfficerAt
<1>7. /\ application'[a] = [application[a] EXCEPT !.status = status]
      /\ application'[a].status = status /\ application'[a].username = u
      /\ \A b \in Applications : b # a => application'[b] = application[b]
  BY <1>3, <1>6 DEF RegistrationInv, RegistrationTypeOK, Application
<1>8. application' \in [Applications -> Application]
  BY <1>3, <1>6, <1>7 DEF RegistrationInv, RegistrationTypeOK, Application
<1>9. ApplicationHeld'
  BY <1>1, <1>5, <1>7, OfficerEnded, RegistrationAssumption DEF RegistrationInv, ApplicationHeld, Deciding
<1>10. \A b \in Applications : application'[b].status # "absent" => application'[b].username \in Usernames
  BY <1>4, <1>7 DEF RegistrationInv, NameHeld
<1>11. \A b, c \in Applications :
         b # c /\ application'[b].status = "pending" /\ application'[c].status = "pending"
           => application'[b].username # application'[c].username
  BY <1>6, <1>7 DEF RegistrationInv, FoundedByApproval
<1>12. CASE CommitApproval(w)
  <2>1. mosques' = mosques \union {a} /\ admin' = [admin EXCEPT ![a] = u]
    BY <1>12 DEF CommitApproval
  <2>2. a \in Mosques /\ admin' \in [Mosques -> Usernames \union {NoAdmin}] /\ mosques' \subseteq Mosques
    BY <1>3, <1>4, <2>1 DEF RegistrationInv, RegistrationTypeOK, Mosques
  <2>3. admin'[a] = u /\ \A m \in Mosques : m # a => admin'[m] = admin[m]
    BY <2>1, <2>2 DEF RegistrationInv, RegistrationTypeOK
  <2>4. \A m \in Mosques : admin[m] # u
    BY <1>2, <1>12 DEF RegistrationInv, NameHeld, HasAccount
  <2>5. \A b \in Applications : b \in mosques' <=> application'[b].status = "approved"
    BY <1>6, <1>7, <1>12, <2>1 DEF RegistrationInv, FoundedByApproval
  <2>6. \A m \in mosques' \ {OldMosque} : admin'[m] # NoAdmin
    BY <1>4, <2>1, <2>2, <2>3, RegistrationAssumption DEF RegistrationInv, RegistrationTypeOK, FoundedByApproval
  <2>7. \A m, n \in Mosques : m # n /\ admin'[m] # NoAdmin => admin'[m] # admin'[n]
    BY <2>3, <2>4 DEF RegistrationInv, FoundedByApproval
  <2>8. FoundedByApproval'
    BY <1>11, <2>5, <2>6, <2>7 DEF FoundedByApproval
  <2>9. ASSUME NEW v \in Workers, OfficerAt(v, "founding")' PROVE ~HasAccount(officer[v].username)'
    <3>1. v # w /\ OfficerAt(v, "founding")
      BY <1>1, <2>9, OfficerEnded DEF OfficerAt
    <3>2. officer[v].username # u /\ ~HasAccount(officer[v].username)
      BY <1>2, <1>12, <3>1 DEF RegistrationInv, NameHeld
    <3> QED
      BY <1>1, <2>3, <3>1, <3>2 DEF HasAccount
  <2>10. NameHeld'
    BY <1>1, <1>10, <2>9, OfficerEnded DEF RegistrationInv, NameHeld, OfficerAt
  <2> QED
    BY <1>1, <1>8, <1>9, <2>2, <2>8, <2>10 DEF RegistrationInv, RegistrationTypeOK
<1>13. CASE CommitRejection(w)
  <2>1. ~OfficerAt(w, "founding") /\ UNCHANGED <<mosques, admin>>
    BY <1>13 DEF CommitRejection, OfficerAt
  <2>2. ~CommitApproval(w)
    BY <1>2, <2>1
  <2>3. status # "approved"
    BY <1>6, <2>2, Zenon
  <2>4. \A b \in Applications : b \in mosques' <=> application'[b].status = "approved"
    BY <1>4, <1>7, <2>1, <2>3 DEF RegistrationInv, FoundedByApproval
  <2>5. FoundedByApproval'
    BY <1>11, <2>1, <2>4 DEF RegistrationInv, FoundedByApproval
  <2>6. NameHeld'
    BY <1>1, <1>10, <2>1, OfficerEnded DEF RegistrationInv, NameHeld, OfficerAt, HasAccount
  <2> QED
    BY <1>1, <1>8, <1>9, <2>1, <2>5, <2>6 DEF RegistrationInv, RegistrationTypeOK
<1> QED
  BY <1>12, <1>13

\* The developer's own hand keeps the invariant.
LEMMA SetAdminInv == ASSUME RegistrationInv, SetAdmin PROVE RegistrationInv'
<1>1. PICK m \in mosques, u \in Usernames :
        /\ ~AccountOpen(u) /\ \A n \in Mosques \ {m} : admin[n] # u
        /\ admin' = [admin EXCEPT ![m] = u] /\ UNCHANGED <<application, mosques, officer>>
  BY DEF SetAdmin
<1>2. m \in Mosques /\ admin' \in [Mosques -> Usernames \union {NoAdmin}]
  BY <1>1 DEF RegistrationInv, RegistrationTypeOK
<1>3. admin'[m] = u /\ \A n \in Mosques : n # m => admin'[n] = admin[n]
  BY <1>1, <1>2 DEF RegistrationInv, RegistrationTypeOK
<1>4. \A k, n \in Mosques : k # n /\ admin'[k] # NoAdmin => admin'[k] # admin'[n]
  BY <1>1, <1>2, <1>3 DEF RegistrationInv, FoundedByApproval
<1>5. \A n \in mosques' \ {OldMosque} : admin'[n] # NoAdmin
  BY <1>1, <1>2, <1>3, RegistrationAssumption DEF RegistrationInv, RegistrationTypeOK, FoundedByApproval
<1>6. FoundedByApproval'
  BY <1>1, <1>4, <1>5 DEF RegistrationInv, FoundedByApproval
<1>7. \A w \in Workers : OfficerAt(w, "founding") => ~HasAccount(officer[w].username)'
  BY <1>1, <1>3 DEF RegistrationInv, NameHeld, AccountOpen, HasAccount
<1>8. NameHeld'
  BY <1>1, <1>7 DEF RegistrationInv, NameHeld, OfficerAt
<1>9. ApplicationHeld'
  BY <1>1 DEF RegistrationInv, ApplicationHeld, Deciding
<1> QED
  BY <1>1, <1>2, <1>6, <1>8, <1>9 DEF RegistrationInv, RegistrationTypeOK

\* The invariant holds throughout.
LEMMA RegistrationInvariant == RegistrationSpec => []RegistrationInv
<1>1. RegistrationInit => RegistrationInv
  <2> SUFFICES ASSUME RegistrationInit PROVE RegistrationInv
    OBVIOUS
  <2>1. RegistrationTypeOK
    BY OfficerEnded DEF RegistrationInit, RegistrationTypeOK, Application, NoApplication, Mosques
  <2>2. FoundedByApproval
    BY RegistrationAssumption DEF RegistrationInit, FoundedByApproval, NoApplication
  <2>3. ApplicationHeld /\ NameHeld
    BY OfficerEnded DEF RegistrationInit, ApplicationHeld, NameHeld, Deciding, OfficerAt, NoApplication
  <2> QED
    BY <2>1, <2>2, <2>3 DEF RegistrationInv
<1>2. RegistrationInv /\ [RegistrationNext]_registrationVars => RegistrationInv'
  <2> SUFFICES ASSUME RegistrationInv, [RegistrationNext]_registrationVars PROVE RegistrationInv'
    OBVIOUS
  <2>1. CASE UNCHANGED registrationVars
    BY <2>1 DEF registrationVars, RegistrationInv, RegistrationTypeOK, FoundedByApproval,
       ApplicationHeld, NameHeld, Deciding, OfficerAt, HasAccount
  <2>2. ASSUME NEW w \in Workers, AskUsername(w) \/ OpenApplication(w) \/ CheckAccount(w)
               \/ InsertAccount(w) \/ AbortDecision(w)
        PROVE  RegistrationInv'
    BY <2>2, AskInv
  <2>3. ASSUME NEW w \in Workers, Apply(w) PROVE RegistrationInv'
    BY <2>3, ApplyInv
  <2>4. ASSUME NEW w \in Workers, CommitApproval(w) \/ CommitRejection(w) PROVE RegistrationInv'
    BY <2>4, DecisionInv
  <2>5. CASE SetAdmin
    BY <2>5, SetAdminInv
  <2> QED
    BY <2>1, <2>2, <2>3, <2>4, <2>5 DEF RegistrationNext
<1> QED
  BY <1>1, <1>2, PTL DEF RegistrationSpec

\* A mosque is founded by the approval of its application and by nothing else, with an
\* administrator of its own, for any number of applicants and developers at once
\* (mosque-registration-db.ts 63-272).
THEOREM MosquesFoundedByApproval == RegistrationSpec => []FoundedByApproval
<1>1. RegistrationInv => FoundedByApproval
  BY DEF RegistrationInv
<1> QED
  BY RegistrationInvariant, <1>1, PTL

-----------------------------------------------------------------------------
(* Recitations                                                              *)

\* A recitation that no two reviews crossed on has one reviewer at most, and what he read
\* of its status still holds.
AloneOnReview ==
  \A r \in Uploads \ crossed : \A v, w \in Workers :
    ClerkAt(v, "reviewing") /\ clerk[v].about = r =>
      /\ clerk[v].pending <=> r \notin reviewed
      /\ ClerkAt(w, "reviewing") /\ clerk[w].about = r => v = w

\* Who does something, does it about an upload.
ClerkBusy == \A w \in Workers : ~ClerkAt(w, "idle") => clerk[w].about \in Uploads

RecitationInv == RecitationTypeOK /\ ReviewToldOnce /\ AloneOnReview /\ ClerkBusy

\* No one does anything at the start, and who has ended is not telling.
LEMMA ClerkEnded == NoClerk \in Clerk /\ NoClerk.pc = "idle" /\ NoClerk.about = 0
  BY DEF NoClerk, Clerk

\* What a step of one handler does to the numbers of those who tell.
LEMMA ClerkStep ==
  ASSUME RecitationTypeOK, NEW w \in Workers, NEW c \in Clerk, ClerkGoes(w, c), NEW r
  PROVE  /\ clerk' \in [Workers -> Clerk] /\ clerk'[w] = c
         /\ \A v \in Workers : v # w => clerk'[v] = clerk[v]
         /\ Cardinality(TellingOf(r)) \in Nat /\ Cardinality(TellingOf(r))' \in Nat
         /\ w \in TellingOf(r) /\ ~(c.pc = "telling" /\ c.about = r)
              => Cardinality(TellingOf(r))' + 1 = Cardinality(TellingOf(r))
         /\ w \notin TellingOf(r) /\ c.pc = "telling" /\ c.about = r
              => Cardinality(TellingOf(r))' = Cardinality(TellingOf(r)) + 1
         /\ (w \in TellingOf(r) <=> c.pc = "telling" /\ c.about = r)
              => Cardinality(TellingOf(r))' = Cardinality(TellingOf(r))
<1>1. /\ clerk' \in [Workers -> Clerk] /\ clerk'[w] = c
      /\ \A v \in Workers : v # w => clerk'[v] = clerk[v]
  BY DEF RecitationTypeOK, ClerkGoes
<1> PICK S, T : S = TellingOf(r) /\ T = TellingOf(r)'
  OBVIOUS
<1>2. (w \in T <=> c.pc = "telling" /\ c.about = r) /\ S \ {w} = T \ {w}
  BY <1>1 DEF TellingOf, ClerkAt
<1>3. IsFiniteSet(S)
  <2>1. S \subseteq Workers
    BY DEF TellingOf
  <2> QED
    BY <2>1, RecitationsAssumption, FS_Subset
<1>4. /\ Cardinality(T) \in Nat
      /\ w \in S /\ w \notin T => Cardinality(T) + 1 = Cardinality(S)
      /\ w \notin S /\ w \in T => Cardinality(T) = Cardinality(S) + 1
      /\ (w \in S <=> w \in T) => T = S
  BY <1>2, <1>3, OneMoves
<1>5. Cardinality(S) \in Nat
  BY <1>3, FS_CardinalityType
<1> QED
  BY <1>1, <1>2, <1>4, <1>5


\* The uploads, which tell nothing and review nothing, keep the invariant.
LEMMA UploadInv ==
  ASSUME RecitationInv, NEW w \in Workers,
         InsertRecitation(w) \/ RankRecitations(w) \/ CommitRecitation(w)
  PROVE  RecitationInv'
<1>1. UNCHANGED <<reviewed, toldReview, unsaid, crossed>>
  BY DEF InsertRecitation, RankRecitations, CommitRecitation
<1>2. ~ClerkAt(w, "telling") /\ ~ClerkAt(w, "reviewing") /\ clerk[w] \in Clerk
  BY DEF InsertRecitation, RankRecitations, CommitRecitation, ClerkAt, RecitationInv, RecitationTypeOK
<1>3. /\ recitations' \subseteq Uploads /\ uploads' \in 0..MaxUploads
      /\ \E c \in Clerk : /\ ClerkGoes(w, c)
                          /\ c.pc \in {"idle", "inserted", "ranked"}
                          /\ c.pc # "idle" => c.about \in Uploads
  <2>1. CASE InsertRecitation(w)
    <3>1. uploads + 1 \in Uploads /\ uploads' = uploads + 1 /\ UNCHANGED recitations
      BY <2>1, RecitationsAssumption DEF InsertRecitation, RecitationInv, RecitationTypeOK, Uploads
    <3> PICK n : n = uploads + 1
      OBVIOUS
    <3> PICK c : c = [NoClerk EXCEPT !.pc = "inserted", !.about = n]
      OBVIOUS
    <3>2. ClerkGoes(w, c)
      BY <2>1 DEF InsertRecitation
    <3>3. c \in Clerk /\ c.pc = "inserted" /\ c.about \in Uploads
      BY <3>1 DEF Clerk, NoClerk
    <3>4. recitations' \subseteq Uploads /\ uploads' \in 0..MaxUploads
      BY <3>1 DEF Uploads, RecitationInv, RecitationTypeOK
    <3> QED
      BY <3>2, <3>3, <3>4
  <2>2. CASE RankRecitations(w)
    <3> PICK S : S = BeyondLimit(recitations \union {clerk[w].about})
      OBVIOUS
    <3>1. clerk[w].about \in Uploads /\ UNCHANGED <<recitations, uploads>>
      BY <2>2 DEF RankRecitations, RecitationInv, ClerkBusy, ClerkAt
    <3>2. S \subseteq Uploads
      BY <3>1 DEF RecitationInv, RecitationTypeOK, BeyondLimit
    <3> PICK c : c = [clerk[w] EXCEPT !.pc = "ranked", !.out = S]
      OBVIOUS
    <3>3. ClerkGoes(w, c)
      BY <2>2 DEF RankRecitations
    <3>4. c \in Clerk /\ c.pc = "ranked" /\ c.about \in Uploads
      BY <1>2, <3>1, <3>2 DEF Clerk
    <3> QED
      BY <3>1, <3>3, <3>4 DEF RecitationInv, RecitationTypeOK
  <2>3. CASE CommitRecitation(w)
    <3>1. clerk[w].about \in Uploads /\ UNCHANGED uploads
      BY <2>3 DEF CommitRecitation, RecitationInv, ClerkBusy, ClerkAt
    <3>2. recitations' \subseteq Uploads
      BY <2>3, <3>1 DEF CommitRecitation, RecitationInv, RecitationTypeOK
    <3> QED
      BY <2>3, <3>1, <3>2, ClerkEnded DEF CommitRecitation, RecitationInv, RecitationTypeOK
  <2> QED
    BY <2>1, <2>2, <2>3
<1> PICK c \in Clerk : /\ ClerkGoes(w, c) /\ c.pc \in {"idle", "inserted", "ranked"}
                       /\ c.pc # "idle" => c.about \in Uploads
  BY <1>3
<1>4. /\ clerk' \in [Workers -> Clerk] /\ clerk'[w] = c
      /\ \A v \in Workers : v # w => clerk'[v] = clerk[v]
      /\ \A r : Cardinality(TellingOf(r))' = Cardinality(TellingOf(r))
  <2>1. \A r : w \notin TellingOf(r)
    BY <1>2 DEF TellingOf
  <2>2. c.pc # "telling"
    OBVIOUS
  <2> QED
    BY <2>1, <2>2, ClerkStep DEF RecitationInv
<1>5. RecitationTypeOK'
  BY <1>1, <1>3, <1>4 DEF RecitationInv, RecitationTypeOK
<1>6. ReviewToldOnce'
  BY <1>1, <1>4 DEF RecitationInv, ReviewToldOnce
<1>7. AloneOnReview'
  BY <1>1, <1>2, <1>4 DEF RecitationInv, AloneOnReview, ClerkAt
<1>8. ClerkBusy'
  BY <1>4 DEF RecitationInv, ClerkBusy, ClerkAt
<1> QED
  BY <1>5, <1>6, <1>7, <1>8 DEF RecitationInv

\* A review that begins: alone on its recitation, or the recitation has been crossed.
LEMMA SeeStatusInv == ASSUME RecitationInv, NEW w \in Workers, SeeStatus(w) PROVE RecitationInv'
<1>1. PICK q \in recitations :
        /\ ClerkGoes(w, [NoClerk EXCEPT !.pc = "reviewing", !.about = q, !.pending = q \notin reviewed])
        /\ crossed' = IF Reviewing(q) = {} THEN crossed ELSE crossed \union {q}
  BY DEF SeeStatus
<1>2. /\ ClerkAt(w, "idle") /\ q \in Uploads
      /\ UNCHANGED <<recitations, reviewed, uploads, toldReview, unsaid>>
  BY DEF SeeStatus, RecitationInv, RecitationTypeOK
<1>a. PICK b \in BOOLEAN : b = (q \notin reviewed)
  OBVIOUS
<1>3. PICK c : c = [NoClerk EXCEPT !.pc = "reviewing", !.about = q, !.pending = b]
  OBVIOUS
<1>4. c \in Clerk /\ c.pc = "reviewing" /\ c.about = q /\ c.pending = b
  BY <1>2, <1>3 DEF NoClerk, Clerk
<1>5. /\ clerk' \in [Workers -> Clerk] /\ clerk'[w] = c
      /\ \A v \in Workers : v # w => clerk'[v] = clerk[v]
      /\ \A r : Cardinality(TellingOf(r))' = Cardinality(TellingOf(r))
  <2>1. ClerkGoes(w, c)
    BY <1>1, <1>a, <1>3
  <2>2. \A r : w \notin TellingOf(r)
    BY <1>2 DEF TellingOf, ClerkAt
  <2> QED
    BY <1>4, <2>1, <2>2, ClerkStep DEF RecitationInv
<1>6. crossed \subseteq crossed' /\ crossed' \subseteq Uploads
  BY <1>1, <1>2 DEF RecitationInv, RecitationTypeOK
<1>7. q \notin crossed' => \A v \in Workers : ~(ClerkAt(v, "reviewing") /\ clerk[v].about = q)
  BY <1>1 DEF Reviewing
<1>8. RecitationTypeOK'
  BY <1>2, <1>5, <1>6 DEF RecitationInv, RecitationTypeOK
<1>9. ReviewToldOnce'
  BY <1>2, <1>5, <1>6 DEF RecitationInv, ReviewToldOnce
<1>10. AloneOnReview'
  <2> SUFFICES ASSUME NEW r \in Uploads, r \notin crossed', NEW u \in Workers, NEW v \in Workers,
                      clerk'[u].pc = "reviewing", clerk'[u].about = r
               PROVE  /\ clerk'[u].pending <=> r \notin reviewed
                      /\ clerk'[v].pc = "reviewing" /\ clerk'[v].about = r => u = v
    BY <1>2 DEF AloneOnReview, ClerkAt
  <2>1. CASE r = q
    <3>1. u = w /\ (v # w => ~(clerk'[v].pc = "reviewing" /\ clerk'[v].about = r))
      BY <1>5, <1>7, <2>1 DEF ClerkAt
    <3> QED
      BY <1>a, <1>4, <1>5, <2>1, <3>1
  <2>2. CASE r # q
    BY <1>4, <1>5, <1>6, <2>2 DEF RecitationInv, AloneOnReview, ClerkAt
  <2> QED
    BY <2>1, <2>2
<1>11. ClerkBusy'
  BY <1>2, <1>4, <1>5 DEF RecitationInv, ClerkBusy, ClerkAt
<1> QED
  BY <1>8, <1>9, <1>10, <1>11 DEF RecitationInv

\* A review that is written: it was the first, and is about to be told, or was not.
LEMMA WriteReviewInv == ASSUME RecitationInv, NEW w \in Workers, WriteReview(w) PROVE RecitationInv'
<1> PICK q : q = clerk[w].about
  OBVIOUS
<1>1. /\ ClerkAt(w, "reviewing") /\ q \in Uploads /\ clerk[w] \in Clerk
      /\ UNCHANGED <<recitations, uploads, toldReview, unsaid, crossed>>
  BY DEF WriteReview, RecitationInv, RecitationTypeOK, ClerkBusy, ClerkAt
<1>2. PICK c \in Clerk :
        /\ ClerkGoes(w, c) /\ c.pc \in {"idle", "telling"}
        /\ c.pc = "telling" <=> q \in recitations /\ clerk[w].pending
        /\ c.pc = "telling" => c.about = q
        /\ reviewed' = IF q \in recitations THEN reviewed \union {q} ELSE reviewed
  <2>1. CASE q \in recitations /\ clerk[w].pending
    <3>1. /\ ClerkGoes(w, [clerk[w] EXCEPT !.pc = "telling"])
          /\ reviewed' = reviewed \union {q}
      BY <2>1 DEF WriteReview, IsFirst
    <3> QED
      BY <1>1, <2>1, <3>1 DEF Clerk
  <2>2. CASE ~(q \in recitations /\ clerk[w].pending)
    <3>1. /\ ClerkGoes(w, NoClerk)
          /\ reviewed' = IF q \in recitations THEN reviewed \union {q} ELSE reviewed
      BY <2>2 DEF WriteReview, IsFirst
    <3> QED
      BY <2>2, <3>1, ClerkEnded
  <2> QED
    BY <2>1, <2>2
<1>3. /\ clerk' \in [Workers -> Clerk] /\ clerk'[w] = c
      /\ \A v \in Workers : v # w => clerk'[v] = clerk[v]
      /\ \A r : /\ Cardinality(TellingOf(r)) \in Nat /\ Cardinality(TellingOf(r))' \in Nat
                /\ Cardinality(TellingOf(r))' = IF c.pc = "telling" /\ r = q
                                                THEN Cardinality(TellingOf(r)) + 1
                                                ELSE Cardinality(TellingOf(r))
  <2>1. \A r : w \notin TellingOf(r)
    BY <1>1 DEF TellingOf, ClerkAt
  <2> QED
    BY <1>2, <2>1, ClerkStep DEF RecitationInv
<1>4. RecitationTypeOK'
  BY <1>1, <1>2, <1>3 DEF RecitationInv, RecitationTypeOK
<1>5. ReviewToldOnce'
  <2> SUFFICES ASSUME NEW r \in Uploads \ crossed
               PROVE  toldReview[r] + Cardinality(TellingOf(r))' + (IF r \in unsaid THEN 1 ELSE 0)
                        = IF r \in reviewed' THEN 1 ELSE 0
    BY <1>1 DEF ReviewToldOnce
  <2>1. /\ toldReview[r] + Cardinality(TellingOf(r)) + (IF r \in unsaid THEN 1 ELSE 0)
             = IF r \in reviewed THEN 1 ELSE 0
        /\ toldReview[r] \in Nat
    BY DEF RecitationInv, ReviewToldOnce, RecitationTypeOK
  <2>2. r = q => (clerk[w].pending <=> r \notin reviewed)
    BY <1>1 DEF RecitationInv, AloneOnReview
  <2>3. c.pc = "telling" /\ r = q => r \in reviewed' /\ r \notin reviewed
    BY <1>2, <2>2
  <2>4. ~(c.pc = "telling" /\ r = q) => (r \in reviewed' <=> r \in reviewed)
    BY <1>2, <2>2
  <2> QED
    BY <1>3, <2>1, <2>3, <2>4
<1>6. AloneOnReview'
  <2> SUFFICES ASSUME NEW r \in Uploads \ crossed, NEW u \in Workers, NEW v \in Workers,
                      clerk'[u].pc = "reviewing", clerk'[u].about = r
               PROVE  /\ clerk'[u].pending <=> r \notin reviewed'
                      /\ clerk'[v].pc = "reviewing" /\ clerk'[v].about = r => u = v
    BY <1>1 DEF AloneOnReview, ClerkAt
  <2>1. u # w /\ clerk'[u] = clerk[u]
    BY <1>2, <1>3
  <2>2. r # q /\ (clerk[u].pending <=> r \notin reviewed)
    BY <1>1, <2>1 DEF RecitationInv, AloneOnReview, ClerkAt
  <2>3. r \in reviewed' <=> r \in reviewed
    BY <1>2, <2>2
  <2>4. clerk'[v].pc = "reviewing" /\ clerk'[v].about = r => u = v
    BY <1>2, <1>3, <2>1 DEF RecitationInv, AloneOnReview, ClerkAt
  <2> QED
    BY <2>1, <2>2, <2>3, <2>4
<1>7. ClerkBusy'
  BY <1>1, <1>2, <1>3 DEF RecitationInv, ClerkBusy, ClerkAt
<1> QED
  BY <1>4, <1>5, <1>6, <1>7 DEF RecitationInv

\* A review that is told, or a handler that ends.
LEMMA ClerkEndInv ==
  ASSUME RecitationInv, NEW w \in Workers, TellReview(w) \/ StopClerk(w) PROVE RecitationInv'
<1> PICK q, tells : q = clerk[w].about /\ tells = ClerkAt(w, "telling")
  OBVIOUS
<1>1. /\ ClerkGoes(w, NoClerk) /\ q \in Uploads
      /\ UNCHANGED <<recitations, reviewed, uploads, crossed>>
  BY DEF TellReview, StopClerk, RecitationInv, ClerkBusy, ClerkAt
<1>2. /\ clerk' \in [Workers -> Clerk] /\ clerk'[w] = NoClerk
      /\ \A v \in Workers : v # w => clerk'[v] = clerk[v]
      /\ \A r : /\ Cardinality(TellingOf(r)) \in Nat /\ Cardinality(TellingOf(r))' \in Nat
                /\ ClerkAt(w, "telling") /\ r = q => Cardinality(TellingOf(r))' + 1 = Cardinality(TellingOf(r))
                /\ ~(ClerkAt(w, "telling") /\ r = q) => Cardinality(TellingOf(r))' = Cardinality(TellingOf(r))
  <2>1. \A r : w \in TellingOf(r) <=> ClerkAt(w, "telling") /\ r = q
    BY DEF TellingOf
  <2> QED
    BY <1>1, <2>1, ClerkEnded, ClerkStep DEF RecitationInv
<1>3. /\ toldReview' \in [Uploads -> Nat] /\ unsaid' \subseteq Uploads
      /\ \A r \in Uploads : r # q => toldReview'[r] = toldReview[r] /\ (r \in unsaid' <=> r \in unsaid)
  BY <1>1 DEF TellReview, StopClerk, RecitationInv, RecitationTypeOK
<1>4. RecitationTypeOK'
  BY <1>1, <1>2, <1>3 DEF RecitationInv, RecitationTypeOK
<1>5. ReviewToldOnce'
  <2> SUFFICES ASSUME NEW r \in Uploads \ crossed
               PROVE  toldReview'[r] + Cardinality(TellingOf(r))' + (IF r \in unsaid' THEN 1 ELSE 0)
                        = IF r \in reviewed THEN 1 ELSE 0
    BY <1>1 DEF ReviewToldOnce
  <2>1. /\ toldReview[r] + Cardinality(TellingOf(r)) + (IF r \in unsaid THEN 1 ELSE 0)
             = IF r \in reviewed THEN 1 ELSE 0
        /\ toldReview[r] \in Nat
    BY DEF RecitationInv, ReviewToldOnce, RecitationTypeOK
  <2>2. CASE r # q
    BY <1>2, <1>3, <2>1, <2>2
  <2>3. CASE r = q /\ ClerkAt(w, "telling")
    <3>1. r \notin unsaid
      BY <1>2, <2>1, <2>3
    <3>2. \/ toldReview'[r] = toldReview[r] + 1 /\ r \notin unsaid'
          \/ toldReview'[r] = toldReview[r] /\ r \in unsaid'
      BY <2>3, <3>1 DEF TellReview, StopClerk, RecitationInv, RecitationTypeOK
    <3> QED
      BY <1>2, <2>1, <2>3, <3>1, <3>2
  <2>4. CASE r = q /\ ~ClerkAt(w, "telling")
    <3>1. UNCHANGED <<toldReview, unsaid>>
      BY <2>4 DEF TellReview, StopClerk
    <3> QED
      BY <1>2, <2>1, <2>4, <3>1
  <2> QED
    BY <2>2, <2>3, <2>4
<1>6. AloneOnReview'
  BY <1>1, <1>2, ClerkEnded DEF RecitationInv, AloneOnReview, ClerkAt
<1>7. ClerkBusy'
  BY <1>2, ClerkEnded DEF RecitationInv, ClerkBusy, ClerkAt
<1> QED
  BY <1>4, <1>5, <1>6, <1>7 DEF RecitationInv

LEMMA RecitationInitInv == RecitationInit => RecitationInv
<1> SUFFICES ASSUME RecitationInit PROVE RecitationInv
  OBVIOUS
<1>1. RecitationTypeOK
  BY ClerkEnded, RecitationsAssumption DEF RecitationInit, RecitationTypeOK
<1>2. \A r : TellingOf(r) = {}
  BY ClerkEnded DEF RecitationInit, TellingOf, ClerkAt
<1>3. ReviewToldOnce
  BY <1>2, FS_EmptySet DEF RecitationInit, ReviewToldOnce
<1>4. AloneOnReview /\ ClerkBusy
  BY ClerkEnded DEF RecitationInit, AloneOnReview, ClerkBusy, ClerkAt
<1> QED
  BY <1>1, <1>3, <1>4 DEF RecitationInv

LEMMA RecitationStepInv == RecitationInv /\ [RecitationNext]_recitationVars => RecitationInv'
<1> SUFFICES ASSUME RecitationInv, [RecitationNext]_recitationVars PROVE RecitationInv'
  OBVIOUS
<1>1. CASE UNCHANGED recitationVars
  BY <1>1 DEF recitationVars, RecitationInv, RecitationTypeOK, ReviewToldOnce, AloneOnReview,
     ClerkBusy, ClerkAt, TellingOf
<1>2. ASSUME NEW w \in Workers,
             InsertRecitation(w) \/ RankRecitations(w) \/ CommitRecitation(w)
      PROVE  RecitationInv'
  BY <1>2, UploadInv
<1>3. ASSUME NEW w \in Workers, SeeStatus(w) PROVE RecitationInv'
  BY <1>3, SeeStatusInv
<1>4. ASSUME NEW w \in Workers, WriteReview(w) PROVE RecitationInv'
  BY <1>4, WriteReviewInv
<1>5. ASSUME NEW w \in Workers, TellReview(w) \/ StopClerk(w) PROVE RecitationInv'
  BY <1>5, ClerkEndInv
<1> QED
  BY <1>1, <1>2, <1>3, <1>4, <1>5 DEF RecitationNext

\* The invariant holds throughout.
LEMMA RecitationInvariant == RecitationSpec => []RecitationInv
  BY RecitationInitInv, RecitationStepInv, PTL DEF RecitationSpec

\* The first review of a recitation is told once and later ones are not, for any number of
\* handlers, unless two reviews of it were under way at once (recitations-db.ts 166-188;
\* api/recitations/[id]/route.ts 30-62).
THEOREM ReviewsToldOnce == RecitationSpec => []ReviewToldOnce
<1>1. RecitationInv => ReviewToldOnce
  BY DEF RecitationInv
<1> QED
  BY RecitationInvariant, <1>1, PTL

\* Uploads that ranked what they saw and did not commit yet.
Ranked == {w \in Workers : ClerkAt(w, "ranked")}

\* What the recitations would be if the upload of v committed now.
Left(v) == (recitations \union {clerk[v].about}) \ clerk[v].out

\* Rows there are, and uploads that may still add one to them.
Near(rows, more) == Cardinality(rows) + Cardinality(more) < Keep + Cardinality(Workers)

\* before[v]: the uploads that ranked before that of v did and may still commit. early:
\* those that ranked before the one that ranked last among all that are committed. They
\* alone can bring back what it dropped, each of them one row; who ranked later drops
\* that himself, but not what those who ranked before him bring.
Ranking(before, early) ==
  /\ early \subseteq Ranked /\ Near(recitations, early)
  /\ \A v \in Ranked \ early :
       /\ early \subseteq before[v] /\ before[v] \subseteq Ranked \ {v}
       /\ Near(Left(v), before[v])
       /\ \A u \in before[v] \ early : before[u] \subseteq before[v]
       /\ \A u \in Ranked \ early : u = v \/ u \in before[v] \/ v \in before[u]

NearInv ==
  /\ RecitationInv
  /\ \E before \in [Workers -> SUBSET Workers], early \in SUBSET Workers : Ranking(before, early)

\* At most one row more, and one upload fewer that may add one.
LEMMA NearKept ==
  ASSUME NEW rows, NEW more, NEW rows2, NEW more2, NEW x, NEW y,
         IsFiniteSet(rows), IsFiniteSet(more), Near(rows, more),
         rows2 \subseteq rows \union {x}, more2 \subseteq more \ {y}, y \in more
  PROVE  Near(rows2, more2)
<1>1. Cardinality(rows2) <= Cardinality(rows) + 1
  <2>1. IsFiniteSet(rows \union {x})
        /\ Cardinality(rows \union {x}) <= Cardinality(rows) + 1
    <3>1. Cardinality(rows) \in Nat
      BY FS_CardinalityType
    <3>2. /\ IsFiniteSet(rows \union {x})
          /\ \/ Cardinality(rows \union {x}) = Cardinality(rows)
             \/ Cardinality(rows \union {x}) = Cardinality(rows) + 1
      BY FS_AddElement, Zenon
    <3> QED
      BY <3>1, <3>2
  <2>2. Cardinality(rows2) <= Cardinality(rows \union {x}) /\ IsFiniteSet(rows2)
    BY <2>1, FS_Subset
  <2> QED
    BY <2>1, <2>2, FS_CardinalityType
<1>2. Cardinality(more2) <= Cardinality(more) - 1
  <2>1. IsFiniteSet(more \ {y}) /\ Cardinality(more \ {y}) = Cardinality(more) - 1
    BY FS_RemoveElement
  <2>2. Cardinality(more2) <= Cardinality(more \ {y}) /\ IsFiniteSet(more2)
    BY <2>1, FS_Subset
  <2> QED
    BY <2>1, <2>2, FS_CardinalityType
<1>3. /\ IsFiniteSet(rows2) /\ IsFiniteSet(more2)
  <2>1. IsFiniteSet(rows \union {x})
    BY FS_AddElement
  <2>2. more2 \subseteq more
    OBVIOUS
  <2> QED
    BY <2>1, <2>2, FS_Subset
<1>4. /\ Cardinality(rows) \in Nat /\ Cardinality(more) \in Nat
      /\ Cardinality(rows2) \in Nat /\ Cardinality(more2) \in Nat /\ Cardinality(Workers) \in Nat
  BY <1>3, FS_CardinalityType, RecitationsAssumption
<1> QED
  BY <1>1, <1>2, <1>4, RecitationsAssumption DEF Near

\* Fewer rows, fewer uploads.
LEMMA NearFewer ==
  ASSUME NEW rows, NEW more, NEW rows2, NEW more2,
         IsFiniteSet(rows), IsFiniteSet(more), Near(rows, more),
         rows2 \subseteq rows, more2 \subseteq more
  PROVE  Near(rows2, more2)
<1>1. /\ IsFiniteSet(rows2) /\ Cardinality(rows2) <= Cardinality(rows)
      /\ IsFiniteSet(more2) /\ Cardinality(more2) <= Cardinality(more)
  BY FS_Subset
<1>2. /\ Cardinality(rows) \in Nat /\ Cardinality(more) \in Nat
      /\ Cardinality(rows2) \in Nat /\ Cardinality(more2) \in Nat /\ Cardinality(Workers) \in Nat
  BY <1>1, FS_CardinalityType, RecitationsAssumption
<1> QED
  BY <1>1, <1>2, RecitationsAssumption DEF Near

\* Without what is beyond the limit there are at most Keep rows: each is told from the
\* others by the number of those that are newer.
LEMMA KeptRows ==
  ASSUME NEW rows \in SUBSET Nat, IsFiniteSet(rows)
  PROVE  /\ IsFiniteSet(rows \ BeyondLimit(rows))
         /\ Cardinality(rows \ BeyondLimit(rows)) <= Keep
<1> PICK kept : kept = rows \ BeyondLimit(rows)
  OBVIOUS
<1>1. \A r \in rows : Newer(rows, r) \subseteq rows /\ IsFiniteSet(Newer(rows, r))
                      /\ Cardinality(Newer(rows, r)) \in Nat
  BY FS_Subset, FS_CardinalityType DEF Newer
<1>2. \A r \in kept : r \in rows /\ Cardinality(Newer(rows, r)) \in 0..(Keep - 1)
  BY <1>1, RecitationsAssumption DEF BeyondLimit
<1>3. \A r, s \in rows : r < s => Cardinality(Newer(rows, s)) < Cardinality(Newer(rows, r))
  <2> SUFFICES ASSUME NEW r \in rows, NEW s \in rows, r < s
               PROVE  Cardinality(Newer(rows, s)) < Cardinality(Newer(rows, r))
    OBVIOUS
  <2>1. Newer(rows, s) \subseteq Newer(rows, r) /\ s \in Newer(rows, r) /\ s \notin Newer(rows, s)
    <3>1. \A t \in rows : t \in Nat /\ ~(t > t) /\ (t > s => t > r)
      OBVIOUS
    <3> QED
      BY <3>1 DEF Newer
  <2>2. /\ Cardinality(Newer(rows, s)) <= Cardinality(Newer(rows, r))
        /\ Cardinality(Newer(rows, s)) # Cardinality(Newer(rows, r))
    BY <1>1, <2>1, FS_Subset
  <2> QED
    BY <1>1, <2>2
<1>4. \A r, s \in kept : Cardinality(Newer(rows, r)) = Cardinality(Newer(rows, s)) => r = s
  <2> SUFFICES ASSUME NEW r \in kept, NEW s \in kept, r # s,
                      Cardinality(Newer(rows, r)) = Cardinality(Newer(rows, s))
               PROVE  FALSE
    OBVIOUS
  <2>1. r \in rows /\ s \in rows /\ (r < s \/ s < r)
    BY <1>2
  <2>2. Cardinality(Newer(rows, r)) \in Nat
    BY <1>1, <2>1
  <2> QED
    BY <1>3, <2>1, <2>2
<1>5. [r \in kept |-> Cardinality(Newer(rows, r))] \in Injection(kept, 0..(Keep - 1))
  <2>1. [r \in kept |-> Cardinality(Newer(rows, r))] \in [kept -> 0..(Keep - 1)]
    BY <1>2
  <2> QED
    BY <1>4, <2>1 DEF Injection, IsInjective
<1>6. IsFiniteSet(0..(Keep - 1)) /\ Cardinality(0..(Keep - 1)) = Keep
  BY FS_Interval, RecitationsAssumption
<1> QED
  BY <1>5, <1>6, FS_Injection

\* What is counted is finite.
LEMMA NearFinite ==
  ASSUME RecitationInv
  PROVE  /\ IsFiniteSet(recitations) /\ recitations \subseteq Nat
         /\ \A v \in Workers : IsFiniteSet(Left(v))
         /\ \A S \in SUBSET Workers : IsFiniteSet(S)
<1>1. IsFiniteSet(Uploads)
  BY FS_Interval, RecitationsAssumption DEF Uploads
<1>2. IsFiniteSet(recitations)
  BY <1>1, FS_Subset DEF RecitationInv, RecitationTypeOK
<1>3. ASSUME NEW v \in Workers PROVE IsFiniteSet(Left(v))
  <2>1. IsFiniteSet(recitations \union {clerk[v].about})
    BY <1>2, FS_AddElement
  <2> QED
    BY <2>1, FS_Subset DEF Left
<1>4. recitations \subseteq Nat
  BY RecitationsAssumption DEF RecitationInv, RecitationTypeOK, Uploads
<1> QED
  BY <1>2, <1>3, <1>4, FS_Subset, RecitationsAssumption

\* The upload of w ends, with or without its commit.
LEMMA NearEnds ==
  ASSUME NearInv, RecitationInv', NEW w \in Ranked,
         \A v \in Workers : v # w => clerk'[v] = clerk[v],
         clerk'[w].pc # "ranked",
         recitations' = recitations \/ recitations' = Left(w)
  PROVE  NearInv'
<1>0. PICK before \in [Workers -> SUBSET Workers], early \in SUBSET Workers : Ranking(before, early)
  BY DEF NearInv
<1>1. /\ w \in Workers /\ Ranked' = Ranked \ {w} /\ Ranked \subseteq Workers
      /\ \A v \in Ranked' : clerk'[v] = clerk[v]
  BY DEF Ranked, ClerkAt
<1>2. PICK before2 \in [Workers -> SUBSET Workers] : \A v \in Workers : before2[v] = before[v] \ {w}
  <2>1. [v \in Workers |-> before[v] \ {w}] \in [Workers -> SUBSET Workers]
    BY <1>0
  <2> QED
    BY <2>1
<1>3. /\ IsFiniteSet(recitations) /\ IsFiniteSet(early)
      /\ \A v \in Workers : IsFiniteSet(Left(v)) /\ IsFiniteSet(before[v])
  BY <1>0, NearFinite DEF NearInv
<1>4. /\ recitations' \subseteq recitations \union {clerk[w].about}
      /\ \A v \in Ranked' : Left(v)' \subseteq Left(v) \union {clerk[w].about}
  <2>1. recitations' \subseteq recitations \union {clerk[w].about}
    BY DEF Left
  <2> QED
    BY <1>1, <2>1 DEF Left
<1>5. recitations' = recitations => \A v \in Ranked' : Left(v)' = Left(v)
  BY <1>1 DEF Left
<1>6. CASE recitations' = recitations \/ w \in early
  <2>1. PICK early2 \in SUBSET Workers : early2 = early \ {w}
    BY <1>0
  <2>2. Near(recitations', early2)
    <3>1. CASE recitations' = recitations
      BY <1>0, <1>3, <2>1, <3>1, NearFewer DEF Ranking
    <3>2. CASE w \in early
      <4>1. PICK x, y : x = clerk[w].about /\ y = w
        OBVIOUS
      <4>2. PICK rows2, more2 : rows2 = recitations' /\ more2 = early2
        OBVIOUS
      <4>3. /\ IsFiniteSet(recitations) /\ IsFiniteSet(early) /\ Near(recitations, early)
            /\ rows2 \subseteq recitations \union {x} /\ more2 \subseteq early \ {y} /\ y \in early
        BY <1>0, <1>3, <1>4, <2>1, <3>2, <4>1, <4>2 DEF Ranking
      <4>4. Near(rows2, more2)
        BY <4>3, NearKept, Zenon
      <4> QED
        BY <4>2, <4>4
    <3> QED
      BY <1>6, <3>1, <3>2
  <2>3. ASSUME NEW v \in Ranked', v \notin early2
        PROVE  /\ early2 \subseteq before2[v] /\ before2[v] \subseteq Ranked' \ {v}
               /\ Near(Left(v)', before2[v])
               /\ \A u \in before2[v] \ early2 : before2[u] \subseteq before2[v]
               /\ \A u \in Ranked' \ early2 : u = v \/ u \in before2[v] \/ v \in before2[u]
    <3>1. v \in Ranked \ early /\ v # w /\ v \in Workers
      BY <1>1, <2>1, <2>3
    <3>2. /\ early \subseteq before[v] /\ before[v] \subseteq Ranked \ {v}
          /\ Near(Left(v), before[v])
          /\ \A u \in before[v] \ early : before[u] \subseteq before[v]
          /\ \A u \in Ranked \ early : u = v \/ u \in before[v] \/ v \in before[u]
      BY <1>0, <3>1 DEF Ranking
    <3>3. early2 \subseteq before2[v] /\ before2[v] \subseteq Ranked' \ {v}
      BY <1>1, <1>2, <2>1, <3>1, <3>2
    <3>4. \A u \in before2[v] \ early2 : before2[u] \subseteq before2[v]
      BY <1>0, <1>2, <2>1, <3>1, <3>2
    <3>5. \A u \in Ranked' \ early2 : u = v \/ u \in before2[v] \/ v \in before2[u]
      BY <1>1, <1>2, <2>1, <3>1, <3>2
    <3>7. w \in before[v] => Near(Left(v)', before2[v])
      <4> SUFFICES ASSUME w \in before[v] PROVE Near(Left(v)', before2[v])
        OBVIOUS
      <4>1. PICK x, y : x = clerk[w].about /\ y = w
        OBVIOUS
      <4>2. PICK rows, more, rows2, more2 :
              rows = Left(v) /\ more = before[v] /\ rows2 = Left(v)' /\ more2 = before2[v]
        OBVIOUS
      <4>3. /\ IsFiniteSet(rows) /\ IsFiniteSet(more) /\ Near(rows, more)
            /\ rows2 \subseteq rows \union {x} /\ more2 \subseteq more \ {y} /\ y \in more
        BY <1>2, <1>3, <1>4, <2>3, <3>1, <3>2, <4>1, <4>2
      <4>4. Near(rows2, more2)
        BY <4>3, NearKept, Zenon
      <4> QED
        BY <4>2, <4>4
    <3>6. Near(Left(v)', before2[v])
      <4>1. CASE recitations' = recitations
        BY <1>2, <1>3, <1>5, <2>3, <3>1, <3>2, <4>1, NearFewer
      <4>2. CASE w \in early
        <5>1. w \in before[v] /\ before2[v] \subseteq before[v] \ {w}
          BY <1>2, <3>1, <3>2, <4>2
        <5> QED
          BY <1>3, <2>3, <3>1, <3>2, <3>7, <5>1
      <4> QED
        BY <1>6, <4>1, <4>2
    <3> QED
      BY <3>3, <3>4, <3>5, <3>6
  <2>4. early2 \subseteq Ranked'
    BY <1>0, <1>1, <2>1 DEF Ranking
  <2>5. Ranking(before2, early2)'
    BY <2>2, <2>3, <2>4 DEF Ranking, Near
  <2> QED
    BY <2>5 DEF NearInv
<1>7. CASE recitations' = Left(w) /\ w \notin early
  <2>0. /\ early \subseteq before[w] /\ before[w] \subseteq Ranked \ {w}
        /\ Near(Left(w), before[w])
        /\ \A u \in before[w] \ early : before[u] \subseteq before[w]
        /\ \A u \in Ranked \ early : u = w \/ u \in before[w] \/ w \in before[u]
    BY <1>0, <1>7 DEF Ranking
  <2>1. PICK early2 \in SUBSET Workers : early2 = before[w]
    BY <1>0, <1>1
  <2>2. Near(recitations', early2)
    BY <1>7, <2>0, <2>1
  <2>3. ASSUME NEW v \in Ranked', v \notin early2
        PROVE  /\ early2 \subseteq before2[v] /\ before2[v] \subseteq Ranked' \ {v}
               /\ Near(Left(v)', before2[v])
               /\ \A u \in before2[v] \ early2 : before2[u] \subseteq before2[v]
               /\ \A u \in Ranked' \ early2 : u = v \/ u \in before2[v] \/ v \in before2[u]
    <3>1. v \in Ranked \ early /\ v # w /\ v \in Workers /\ w \in before[v]
      BY <1>1, <2>0, <2>1, <2>3
    <3>2. /\ early \subseteq before[v] /\ before[v] \subseteq Ranked \ {v}
          /\ Near(Left(v), before[v])
          /\ \A u \in before[v] \ early : before[u] \subseteq before[v]
          /\ \A u \in Ranked \ early : u = v \/ u \in before[v] \/ v \in before[u]
      BY <1>0, <3>1 DEF Ranking
    <3>3. early2 \subseteq before2[v] /\ before2[v] \subseteq Ranked' \ {v}
      BY <1>1, <1>2, <1>7, <2>0, <2>1, <3>1, <3>2
    <3>4. \A u \in before2[v] \ early2 : before2[u] \subseteq before2[v]
      BY <1>0, <1>2, <2>0, <2>1, <3>1, <3>2
    <3>5. \A u \in Ranked' \ early2 : u = v \/ u \in before2[v] \/ v \in before2[u]
      BY <1>1, <1>2, <2>0, <2>1, <3>1, <3>2
    <3>6. Near(Left(v)', before2[v])
      <4>1. PICK x, y : x = clerk[w].about /\ y = w
        OBVIOUS
      <4>2. PICK rows, more, rows2, more2 :
              rows = Left(v) /\ more = before[v] /\ rows2 = Left(v)' /\ more2 = before2[v]
        OBVIOUS
      <4>3. /\ IsFiniteSet(rows) /\ IsFiniteSet(more) /\ Near(rows, more)
            /\ rows2 \subseteq rows \union {x} /\ more2 \subseteq more \ {y} /\ y \in more
        BY <1>2, <1>3, <1>4, <2>3, <3>1, <3>2, <4>1, <4>2
      <4>4. Near(rows2, more2)
        BY <4>3, NearKept, Zenon
      <4> QED
        BY <4>2, <4>4
    <3> QED
      BY <3>3, <3>4, <3>5, <3>6
  <2>4. early2 \subseteq Ranked'
    BY <1>1, <2>0, <2>1
  <2>5. Ranking(before2, early2)'
    BY <2>2, <2>3, <2>4 DEF Ranking, Near
  <2> QED
    BY <2>5 DEF NearInv
<1> QED
  BY <1>6, <1>7

\* An upload ranks what it sees, after all that ranked before it.
LEMMA NearRanks ==
  ASSUME NearInv, RecitationInv', NEW w \in Workers, RankRecitations(w)
  PROVE  NearInv'
<1>0. PICK before \in [Workers -> SUBSET Workers], early \in SUBSET Workers : Ranking(before, early)
  BY DEF NearInv
<1>1. /\ recitations' = recitations /\ clerk[w].pc = "inserted" /\ clerk[w] \in Clerk
      /\ clerk[w].about \in Uploads
  BY DEF RankRecitations, ClerkAt, NearInv, RecitationInv, RecitationTypeOK, ClerkBusy
<1>2. PICK c : /\ clerk' = [clerk EXCEPT ![w] = c] /\ c.pc = "ranked" /\ c.about = clerk[w].about
               /\ c.out = BeyondLimit(recitations \union {clerk[w].about})
  <2>1. PICK o : o = BeyondLimit(recitations \union {clerk[w].about})
    OBVIOUS
  <2>2. PICK c : c = [clerk[w] EXCEPT !.pc = "ranked", !.out = o]
    OBVIOUS
  <2>3. clerk' = [clerk EXCEPT ![w] = c]
    BY <2>1, <2>2 DEF RankRecitations, ClerkGoes
  <2>4. c.pc = "ranked" /\ c.about = clerk[w].about /\ c.out = o
    BY <1>1, <2>2 DEF Clerk
  <2> QED
    BY <2>1, <2>3, <2>4
<1>3. clerk'[w] = c /\ \A v \in Workers : v # w => clerk'[v] = clerk[v]
  BY <1>2 DEF NearInv, RecitationInv, RecitationTypeOK
<1>4. Ranked' = Ranked \union {w} /\ w \notin Ranked /\ Ranked \subseteq Workers
  BY <1>1, <1>2, <1>3 DEF Ranked, ClerkAt
<1>5. PICK before2 \in [Workers -> SUBSET Workers] :
        before2[w] = Ranked /\ \A v \in Workers : v # w => before2[v] = before[v]
  <2>1. [before EXCEPT ![w] = Ranked] \in [Workers -> SUBSET Workers]
    BY <1>0, <1>4
  <2> QED
    BY <1>0, <2>1
<1>6. Near(Left(w)', before2[w])
  <2>1. PICK rows : rows = recitations \union {clerk[w].about}
    OBVIOUS
  <2>2. rows \in SUBSET Nat /\ IsFiniteSet(rows)
    <3>1. IsFiniteSet(recitations) /\ recitations \subseteq Nat
      BY NearFinite DEF NearInv
    <3>2. IsFiniteSet(recitations \union {clerk[w].about})
      BY <3>1, FS_AddElement
    <3>3. clerk[w].about \in Nat
      BY <1>1, RecitationsAssumption DEF Uploads
    <3> QED
      BY <2>1, <3>1, <3>2, <3>3
  <2>3. Left(w)' = rows \ BeyondLimit(rows)
    BY <1>1, <1>2, <1>3, <2>1 DEF Left
  <2>4. IsFiniteSet(Left(w)') /\ Cardinality(Left(w)') <= Keep
    BY <2>2, <2>3, KeptRows
  <2>5. Cardinality(Ranked) < Cardinality(Workers) /\ IsFiniteSet(Ranked)
    <3>1. Ranked \subseteq Workers \ {w}
      BY <1>4
    <3>2. /\ IsFiniteSet(Workers \ {w}) /\ Cardinality(Workers \ {w}) = Cardinality(Workers) - 1
          /\ Cardinality(Workers) \in Nat
      BY FS_RemoveElement, FS_CardinalityType, RecitationsAssumption
    <3>3. IsFiniteSet(Ranked) /\ Cardinality(Ranked) <= Cardinality(Workers \ {w})
      BY <3>1, <3>2, FS_Subset
    <3> QED
      BY <3>2, <3>3, FS_CardinalityType
  <2>6. /\ Cardinality(Left(w)') \in Nat /\ Cardinality(Ranked) \in Nat
        /\ Cardinality(Workers) \in Nat /\ Keep \in Nat
    BY <2>4, <2>5, FS_CardinalityType, RecitationsAssumption
  <2> QED
    BY <1>5, <2>4, <2>5, <2>6 DEF Near
<1>7. ASSUME NEW v \in Ranked', v \notin early
      PROVE  /\ early \subseteq before2[v] /\ before2[v] \subseteq Ranked' \ {v}
             /\ Near(Left(v)', before2[v])
             /\ \A u \in before2[v] \ early : before2[u] \subseteq before2[v]
             /\ \A u \in Ranked' \ early : u = v \/ u \in before2[v] \/ v \in before2[u]
  <2>1. \A u \in Ranked \ early :
          /\ early \subseteq before[u] /\ before[u] \subseteq Ranked \ {u} /\ before2[u] = before[u]
          /\ Near(Left(u), before[u])
          /\ \A x \in before[u] \ early : before[x] \subseteq before[u]
          /\ \A x \in Ranked \ early : x = u \/ x \in before[u] \/ u \in before[x]
    BY <1>0, <1>4, <1>5 DEF Ranking
  <2>2. CASE v = w
    <3>1. early \subseteq Ranked
      BY <1>0 DEF Ranking
    <3> QED
      BY <1>4, <1>5, <1>6, <2>1, <2>2, <3>1
  <2>3. CASE v # w
    <3>1. v \in Ranked \ early /\ v \in Workers
      BY <1>4, <1>7, <2>3
    <3>2. Left(v)' = Left(v)
      BY <1>1, <1>3, <2>3, <3>1 DEF Left
    <3>3. \A u \in before2[v] \ early : before2[u] \subseteq before2[v]
      BY <1>4, <2>1, <3>1
    <3>4. \A u \in Ranked' \ early : u = v \/ u \in before2[v] \/ v \in before2[u]
      BY <1>4, <1>5, <2>1, <3>1
    <3> QED
      BY <1>4, <2>1, <3>1, <3>2, <3>3, <3>4
  <2> QED
    BY <2>2, <2>3
<1>8. early \subseteq Ranked' /\ Near(recitations', early)
  BY <1>0, <1>1, <1>4 DEF Ranking
<1>9. Ranking(before2, early)'
  BY <1>7, <1>8 DEF Ranking, Near
<1> QED
  BY <1>9 DEF NearInv

\* Steps that rank and commit nothing.
LEMMA NearQuiet ==
  ASSUME NearInv, RecitationInv', recitations' = recitations, Ranked' = Ranked,
         \A v \in Ranked : clerk'[v] = clerk[v]
  PROVE  NearInv'
<1>1. PICK before \in [Workers -> SUBSET Workers], early \in SUBSET Workers : Ranking(before, early)
  BY DEF NearInv
<1>2. \A v \in Ranked : Left(v)' = Left(v)
  BY DEF Left
<1>3. Ranking(before, early)'
  BY <1>1, <1>2 DEF Ranking, Near
<1> QED
  BY <1>3 DEF NearInv

LEMMA NearStep == NearInv /\ [RecitationNext]_recitationVars => NearInv'
<1> SUFFICES ASSUME NearInv, [RecitationNext]_recitationVars PROVE NearInv'
  OBVIOUS
<1>0. /\ RecitationInv' /\ clerk \in [Workers -> Clerk]
  BY RecitationStepInv DEF NearInv, RecitationInv, RecitationTypeOK
<1>1. CASE UNCHANGED recitationVars
  BY <1>0, <1>1, NearQuiet DEF recitationVars, Ranked, ClerkAt
<1>2. ASSUME NEW w \in Workers, RankRecitations(w) PROVE NearInv'
  BY <1>0, <1>2, NearRanks
<1>3. ASSUME NEW w \in Workers, CommitRecitation(w) PROVE NearInv'
  <2>1. w \in Ranked /\ recitations' = Left(w) /\ clerk' = [clerk EXCEPT ![w] = NoClerk]
    BY <1>3 DEF CommitRecitation, Ranked, Left, ClerkAt, ClerkGoes
  <2>2. clerk'[w].pc # "ranked" /\ \A v \in Workers : v # w => clerk'[v] = clerk[v]
    BY <1>0, <2>1, ClerkEnded
  <2> QED
    BY <1>0, <2>1, <2>2, NearEnds
<1>4. ASSUME NEW w \in Workers, StopClerk(w) PROVE NearInv'
  <2>1. recitations' = recitations /\ clerk' = [clerk EXCEPT ![w] = NoClerk]
    BY <1>4 DEF StopClerk, ClerkGoes
  <2>2. clerk'[w].pc # "ranked" /\ \A v \in Workers : v # w => clerk'[v] = clerk[v]
    BY <1>0, <2>1, ClerkEnded
  <2>3. CASE w \in Ranked
    BY <1>0, <2>1, <2>2, <2>3, NearEnds
  <2>4. CASE w \notin Ranked
    <3>1. Ranked' = Ranked /\ \A v \in Ranked : clerk'[v] = clerk[v]
      BY <2>2, <2>4 DEF Ranked, ClerkAt
    <3> QED
      BY <1>0, <2>1, <3>1, NearQuiet
  <2> QED
    BY <2>3, <2>4
<1>5. ASSUME NEW w \in Workers,
             InsertRecitation(w) \/ SeeStatus(w) \/ WriteReview(w) \/ TellReview(w)
      PROVE  NearInv'
  <2>1. /\ recitations' = recitations /\ clerk[w].pc # "ranked"
        /\ \E c : clerk' = [clerk EXCEPT ![w] = c] /\ c.pc # "ranked"
    <3>1. recitations' = recitations /\ clerk[w].pc # "ranked"
      BY <1>5 DEF InsertRecitation, SeeStatus, WriteReview, TellReview, ClerkAt
    <3>2. CASE InsertRecitation(w)
      <4>1. [NoClerk EXCEPT !.pc = "inserted", !.about = uploads + 1].pc = "inserted"
        BY DEF NoClerk
      <4> QED
        BY <3>1, <3>2, <4>1 DEF InsertRecitation, ClerkGoes
    <3>3. CASE SeeStatus(w)
      <4>1. PICK r \in recitations :
              clerk' = [clerk EXCEPT ![w] =
                [NoClerk EXCEPT !.pc = "reviewing", !.about = r, !.pending = r \notin reviewed]]
        BY <3>3 DEF SeeStatus, ClerkGoes
      <4>2. [NoClerk EXCEPT !.pc = "reviewing", !.about = r, !.pending = r \notin reviewed].pc = "reviewing"
        BY DEF NoClerk
      <4> QED
        BY <3>1, <4>1, <4>2
    <3>4. CASE WriteReview(w)
      <4>1. [clerk[w] EXCEPT !.pc = "telling"].pc = "telling"
        BY <1>0 DEF Clerk
      <4>2. \/ clerk' = [clerk EXCEPT ![w] = NoClerk]
            \/ clerk' = [clerk EXCEPT ![w] = [clerk[w] EXCEPT !.pc = "telling"]]
        BY <3>4 DEF WriteReview, ClerkGoes
      <4> QED
        BY <3>1, <4>1, <4>2, ClerkEnded
    <3>5. CASE TellReview(w)
      BY <3>1, <3>5, ClerkEnded DEF TellReview, ClerkGoes
    <3> QED
      BY <1>5, <3>2, <3>3, <3>4, <3>5
  <2>2. clerk'[w].pc # "ranked" /\ \A v \in Workers : v # w => clerk'[v] = clerk[v]
    BY <1>0, <2>1
  <2>3. Ranked' = Ranked /\ \A v \in Ranked : clerk'[v] = clerk[v]
    BY <2>1, <2>2 DEF Ranked, ClerkAt
  <2> QED
    BY <1>0, <2>1, <2>3, NearQuiet
<1> QED
  BY <1>1, <1>2, <1>3, <1>4, <1>5 DEF RecitationNext

\* The recordings of a student stay near the limit, whatever uploads overtake each other
\* (recitations-db.ts 45-96).
THEOREM RecordingsStayNear == RecitationSpec => []KeptNearLimit
<1>1. RecitationInit => NearInv
  <2> SUFFICES ASSUME RecitationInit PROVE NearInv
    OBVIOUS
  <2>1. recitations = {} /\ Ranked = {}
    BY ClerkEnded DEF RecitationInit, Ranked, ClerkAt
  <2>2. PICK before \in [Workers -> SUBSET Workers], early \in SUBSET Workers :
          early = {} /\ before = [w \in Workers |-> {}]
    <3>1. {} \in SUBSET Workers /\ [w \in Workers |-> {}] \in [Workers -> SUBSET Workers]
      OBVIOUS
    <3> QED
      BY <3>1, Zenon
  <2>3. Near({}, {})
    BY FS_EmptySet, FS_CardinalityType, RecitationsAssumption DEF Near
  <2>4. Ranking(before, early)
    BY <2>1, <2>2, <2>3 DEF Ranking
  <2> QED
    BY <2>4, RecitationInitInv DEF NearInv
<1>2. NearInv => KeptNearLimit
  <2> SUFFICES ASSUME NearInv PROVE KeptNearLimit
    OBVIOUS
  <2>1. PICK early \in SUBSET Workers : Near(recitations, early)
    BY DEF NearInv, Ranking
  <2>2. /\ Cardinality(early) \in Nat /\ Cardinality(recitations) \in Nat
        /\ Cardinality(Workers) \in Nat /\ Keep \in Nat
    BY NearFinite, FS_CardinalityType, RecitationsAssumption DEF NearInv
  <2> QED
    BY <2>1, <2>2 DEF Near, KeptNearLimit
<1> QED
  BY <1>1, <1>2, NearStep, PTL DEF RecitationSpec

-----------------------------------------------------------------------------
(* The office                                                               *)

\* A step of the office is a step of one register, and the others rest.
LEMMA DeskStep ==
  ASSUME [OfficeNext]_officeVars
  PROVE  /\ [AccountNext]_accountVars /\ [DisciplineNext]_disciplineVars
         /\ [AttendanceNext]_attendanceVars /\ [PermitNext]_permitVars
         /\ [AffiliationNext]_affiliationVars /\ [VisitNext]_visitVars
         /\ [FeeNext]_feeVars /\ [RecitationNext]_recitationVars
         /\ [AssistantNext]_assistantVars /\ [RegistrationNext]_registrationVars
<1>1. CASE UNCHANGED officeVars
  BY <1>1 DEF officeVars
<1>2. CASE OfficeNext
  BY <1>2, Zenon DEF OfficeNext, RestsUnless
<1> QED
  BY <1>1, <1>2

\* Every behaviour of the office is one of each of its registers: what is shown of a
\* register alone holds in the office.
LEMMA OfficeIsItsRegisters ==
  OfficeSpec => /\ AccountSpec /\ DisciplineSpec /\ AttendanceSpec /\ PermitSpec
                /\ AffiliationSpec /\ VisitSpec /\ FeeSpec /\ RecitationSpec
                /\ AssistantSpec /\ RegistrationSpec
<1>1. OfficeInit =>
        /\ AccountInit /\ DisciplineInit /\ AttendanceInit /\ PermitInit /\ AffiliationInit
        /\ VisitInit /\ FeeInit /\ RecitationInit /\ AssistantInit /\ RegistrationInit
  BY DEF OfficeInit
<1>2. [OfficeNext]_officeVars =>
        /\ [AccountNext]_accountVars /\ [DisciplineNext]_disciplineVars
        /\ [AttendanceNext]_attendanceVars /\ [PermitNext]_permitVars
        /\ [AffiliationNext]_affiliationVars /\ [VisitNext]_visitVars
        /\ [FeeNext]_feeVars /\ [RecitationNext]_recitationVars
        /\ [AssistantNext]_assistantVars /\ [RegistrationNext]_registrationVars
  BY DeskStep
<1> QED
  BY <1>1, <1>2, PTL DEF OfficeSpec, AccountSpec, DisciplineSpec, AttendanceSpec, PermitSpec,
     AffiliationSpec, VisitSpec, FeeSpec, RecitationSpec, AssistantSpec, RegistrationSpec

\* Every register keeps its types, in every behaviour of the office.
THEOREM OfficeTyped == OfficeSpec => []TypesOK
<1>1. /\ AccountInv => AccountTypeOK
      /\ DisciplineInv => DisciplineTypeOK
      /\ AttendanceInv => AttendanceTypeOK
      /\ PermitInv => PermitTypeOK
      /\ AffiliationInv => AffiliationTypeOK
      /\ VisitInv => VisitTypeOK
      /\ FeeInv => FeeTypeOK
      /\ RecitationInv => RecitationTypeOK
      /\ AssistantInv => AssistantTypeOK
      /\ RegistrationInv => RegistrationTypeOK
  BY DEF AccountInv, DisciplineInv, AttendanceInv, PermitInv, AffiliationInv, VisitInv, FeeInv,
     RecitationInv, AssistantInv, RegistrationInv
<1>2. /\ AccountTypeOK /\ DisciplineTypeOK /\ AttendanceTypeOK /\ PermitTypeOK
      /\ AffiliationTypeOK /\ VisitTypeOK /\ FeeTypeOK
      /\ RecitationTypeOK /\ AssistantTypeOK /\ RegistrationTypeOK
      => TypesOK
  BY DEF TypesOK
<1> QED
  BY OfficeIsItsRegisters, AccountInvariant, DisciplineInvariant, AttendanceInvariant,
     PermitInvariant, AffiliationInvariant, VisitInvariant, FeeInvariant, RecitationInvariant,
     AssistantInvariant, RegistrationInvariant, <1>1, <1>2, PTL

\* What the office promises to families, teachers, mosques and its own books holds of
\* all its registers together.
THEOREM OfficeKeepsItsWord ==
  OfficeSpec =>
    /\ [](GuessesCapped /\ CodeOpensOnce /\ OneCodeUnlessCrossed /\ SessionsFollowPassword)
    /\ [](SuspensionGivesBack /\ AbsenceToldOnce /\ LadderToldOnce /\ LogIsHistory)
    /\ [](MembershipAgreed /\ DoneIsComplete /\ BooksAgree /\ KeptNearLimit)
    /\ [](ReviewToldOnce /\ ProposalTruthful /\ FoundedByApproval)
    /\ CancelledIsFinal
  BY OfficeIsItsRegisters, GuessesAreCapped, CodeIsUsedOnce, CodesOutCrossed, SessionsAreCurrent,
     SuspensionsGiveBack, AbsencesToldOnce, LadderIsToldOnce, LogStaysHistory,
     MembershipStaysAgreed, DoneVisitsAreComplete, BooksStayRight, RecordingsStayNear,
     ReviewsToldOnce, ProposalsAreTruthful, MosquesFoundedByApproval, CancelledStaysFinal, PTL

=============================================================================
