------------------------------ MODULE MCOffice -------------------------------
(***************************************************************************)
(* The registers of the office for TLC. They share no state, so a behaviour *)
(* of all of them violates a property of one only if a behaviour of that    *)
(* one alone does: the run lets one register move, whichever it picks       *)
(* first, and the others rest. Its states are the sum of theirs.            *)
(***************************************************************************)
EXTENDS TeacherAccount, Discipline, Attendance, Permits, Affiliation, Visits, Fees,
        Recitations, Assistant, Registration, TLC

VARIABLE desk  \* the register that moves

Desks == {"account", "discipline", "attendance", "permits", "affiliation", "visits", "fees",
          "recitations", "assistant", "registration"}

officeVars == <<accountVars, disciplineVars, attendanceVars, permitVars, affiliationVars,
                visitVars, feeVars, recitationVars, assistantVars, registrationVars, desk>>

OfficeInit ==
  /\ desk \in Desks
  /\ AccountInit /\ DisciplineInit /\ AttendanceInit /\ PermitInit /\ AffiliationInit
  /\ VisitInit /\ FeeInit /\ RecitationInit /\ AssistantInit /\ RegistrationInit

RestsUnless(d, register) == IF desk = d THEN TRUE ELSE UNCHANGED register

OfficeNext ==
  /\ \/ desk = "account" /\ AccountNext
     \/ desk = "discipline" /\ DisciplineNext
     \/ desk = "attendance" /\ AttendanceNext
     \/ desk = "permits" /\ PermitNext
     \/ desk = "affiliation" /\ AffiliationNext
     \/ desk = "visits" /\ VisitNext
     \/ desk = "fees" /\ FeeNext
     \/ desk = "recitations" /\ RecitationNext
     \/ desk = "assistant" /\ AssistantNext
     \/ desk = "registration" /\ RegistrationNext
  /\ RestsUnless("account", accountVars)
  /\ RestsUnless("discipline", disciplineVars)
  /\ RestsUnless("attendance", attendanceVars)
  /\ RestsUnless("permits", permitVars)
  /\ RestsUnless("affiliation", affiliationVars)
  /\ RestsUnless("visits", visitVars)
  /\ RestsUnless("fees", feeVars)
  /\ RestsUnless("recitations", recitationVars)
  /\ RestsUnless("assistant", assistantVars)
  /\ RestsUnless("registration", registrationVars)
  /\ UNCHANGED desk

OfficeSpec == OfficeInit /\ [][OfficeNext]_officeVars

\* Every register keeps to its types.
TypesOK ==
  /\ AccountTypeOK /\ DisciplineTypeOK /\ AttendanceTypeOK /\ PermitTypeOK
  /\ AffiliationTypeOK /\ VisitTypeOK /\ FeeTypeOK
  /\ RecitationTypeOK /\ AssistantTypeOK /\ RegistrationTypeOK

\* The handlers of a register are alike.
OfficeSymmetry == Permutations(Workers)

=============================================================================
