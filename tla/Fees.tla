-------------------------------- MODULE Fees ---------------------------------
(***************************************************************************)
(* What one student owes for one period of one plan (lib/fees.ts,           *)
(* lib/fees-db.ts): the row of student_fees that generateDues writes, the   *)
(* payments recorded for it, and the waiver.  The plan's amount and its     *)
(* `active` change meanwhile (updatePlan).                                  *)
(*                                                                          *)
(* A payment locks the row until it commits.  A waiver reads the row, and   *)
(* its UPDATE waits for that lock and looks at the status again.            *)
(* generateDues reads the plan in a statement of its own, and leaves the    *)
(* rows that are there (ON CONFLICT DO NOTHING).                            *)
(*                                                                          *)
(* Amounts are in halalas; of the payments only their sum is kept; the      *)
(* student is active and not deleted.                                       *)
(***************************************************************************)
EXTENDS Handlers, Naturals

CONSTANT MaxAmount  \* bound: the largest amount of a plan

ASSUME FeesAssumption == MaxAmount \in Nat

VARIABLES
  plan,      \* the row of fee_plans
  fee,       \* the row of student_fees
  received,  \* the sum of fee_payments
  forgiven,  \* history: the fee was waived
  feeJob     \* what each handler has read

feeVars == <<plan, fee, received, forgiven, feeJob>>

Amounts == 0..MaxAmount

Plan == [amount : Amounts, active : BOOLEAN]

FeeStatuses == {"absent", "due", "partial", "paid", "waived"}

Fee == [status : FeeStatuses, due : Amounts, paid : Amounts]

NoFee == [status |-> "absent", due |-> 0, paid |-> 0]

\* `amount` is the plan's amount, or the payment; `paid` what the fee will have paid
FeeJob == [pc : {"idle", "planned", "locked", "waiving"}, amount : Amounts, paid : Amounts]

NoFeeJob == [pc |-> "idle", amount |-> 0, paid |-> 0]

\* createPlan; EditPlan leads to every other plan
FeeInit ==
  /\ plan = [amount |-> MaxAmount, active |-> TRUE]
  /\ fee = NoFee
  /\ received = 0
  /\ forgiven = FALSE
  /\ feeJob = [w \in Workers |-> NoFeeJob]

FeeJobAt(w, pc) == feeJob[w].pc = pc
FeeDone(w) == feeJob' = [feeJob EXCEPT ![w] = NoFeeJob]

-----------------------------------------------------------------------------
(* The plan and what it makes due                                           *)

\* updatePlan; a fee that exists keeps its amount
EditPlan ==
  /\ plan' \in Plan
  /\ UNCHANGED <<fee, received, forgiven, feeJob>>

\* generateDues reads the plan and goes on while it is active
ReadPlan(w) ==
  /\ FeeJobAt(w, "idle")
  /\ plan.active
  /\ feeJob' = [feeJob EXCEPT ![w] = [NoFeeJob EXCEPT !.pc = "planned", !.amount = plan.amount]]
  /\ UNCHANGED <<plan, fee, received, forgiven>>

\* INSERT ... ON CONFLICT DO NOTHING: a fee of nothing is paid
Dues(amount) ==
  IF fee.status = "absent"
  THEN [status |-> IF amount = 0 THEN "paid" ELSE "due", due |-> amount, paid |-> 0]
  ELSE fee

FeeLocked == \E v \in Workers : FeeJobAt(v, "locked")

InsertDues(w) ==
  /\ FeeJobAt(w, "planned")
  /\ fee' = Dues(feeJob[w].amount)
  /\ FeeDone(w)
  /\ UNCHANGED <<plan, received, forgiven>>

-----------------------------------------------------------------------------
(* A payment                                                                *)

\* deriveStatus
StatusOf(due, paid) == IF paid >= due THEN "paid" ELSE IF paid > 0 THEN "partial" ELSE "due"

\* Mutant: more than what is left is taken.
PayableAny(amount) == TRUE

\* applyPayment: no more than what is left
Payable(amount) == fee.paid + amount <= fee.due

\* Mutant: the fee is read without FOR UPDATE.
FeeReadable == TRUE

\* FOR UPDATE, and the UPDATE of a waiver: nobody else holds the row
FeeUnlocked == ~FeeLocked

\* recordPayment locks the fee, and applyPayment refuses one that is paid or waived
TakePayment(w) ==
  /\ FeeJobAt(w, "idle")
  /\ FeeUnlocked
  /\ fee.status \in {"due", "partial"}
  /\ \E amount \in 1..MaxAmount :
       /\ Payable(amount)
       /\ feeJob' = [feeJob EXCEPT ![w] =
            [pc |-> "locked", amount |-> amount, paid |-> fee.paid + amount]]
  /\ UNCHANGED <<plan, fee, received, forgiven>>

\* The payment and the fee are written and committed
CommitPayment(w) ==
  /\ FeeJobAt(w, "locked")
  /\ received' = received + feeJob[w].amount
  /\ fee' = [fee EXCEPT !.paid = feeJob[w].paid, !.status = StatusOf(fee.due, feeJob[w].paid)]
  /\ FeeDone(w)
  /\ UNCHANGED <<plan, forgiven>>

-----------------------------------------------------------------------------
(* The waiver                                                               *)

\* waiveFee reads the fee: canWaive
AskWaiver(w) ==
  /\ FeeJobAt(w, "idle")
  /\ fee.status \in {"due", "partial"}
  /\ feeJob' = [feeJob EXCEPT ![w] = [NoFeeJob EXCEPT !.pc = "waiving"]]
  /\ UNCHANGED <<plan, fee, received, forgiven>>

\* AND status IN ('due', 'partial'), on the row as it is once it is free
StillWaivable == fee.status \in {"due", "partial"}

\* A fee that changed meanwhile is answered 409
Waive(w) ==
  /\ FeeJobAt(w, "waiving")
  /\ FeeUnlocked
  /\ IF StillWaivable
     THEN fee' = [fee EXCEPT !.status = "waived"] /\ forgiven' = TRUE
     ELSE UNCHANGED <<fee, forgiven>>
  /\ FeeDone(w)
  /\ UNCHANGED <<plan, received>>

\* ROLLBACK or the end of the process: nothing was written
AbortFee(w) ==
  /\ ~FeeJobAt(w, "idle")
  /\ FeeDone(w)
  /\ UNCHANGED <<plan, fee, received, forgiven>>

FeeNext ==
  \/ EditPlan
  \/ \E w \in Workers :
       \/ ReadPlan(w) \/ InsertDues(w) \/ TakePayment(w) \/ CommitPayment(w)
       \/ AskWaiver(w) \/ Waive(w) \/ AbortFee(w)

FeeSpec == FeeInit /\ [][FeeNext]_feeVars

-----------------------------------------------------------------------------
(* Properties                                                               *)

FeeTypeOK ==
  /\ plan \in Plan
  /\ fee \in Fee
  /\ received \in Nat
  /\ forgiven \in BOOLEAN
  /\ feeJob \in [Workers -> FeeJob]

\* The books agree: the fee has as paid what its payments come to, never more than is
\* due, its status says which of the three it is, and a waiver is neither undone nor
\* given for a fee that was paid, though payments, waivers and new dues for the same
\* period run at once (recordPayment, waiveFee, generateDues, fees-db.ts).
BooksAgree ==
  /\ fee.paid = received
  /\ fee.paid <= fee.due
  /\ IF forgiven THEN fee.status = "waived" /\ fee.paid < fee.due
     ELSE fee.status \in {"absent", StatusOf(fee.due, fee.paid)}

=============================================================================
