-------------------------------- MODULE Wards --------------------------------
(***************************************************************************)
(* The rows of ward_logs (src/web/netlify/database/migrations), shared by   *)
(* the specification of the review cycle and by the model of its code.      *)
(***************************************************************************)
EXTENDS Naturals

CONSTANTS
  Students,    \* the pupils of the halaqah, all active
  Contents,    \* what a ward records: its date, its ranges, its one segment
  Tracks,      \* the classifications of a review segment (major, minor)
  MaxWards,    \* bound: how many ids the ward_logs sequence gives out
  Nobody,      \* SQL NULL in a column that names a person
  Nothing      \* SQL NULL in any other column, or a value not read

ASSUME WardsConstants ==
  /\ MaxWards \in Nat
  /\ Nobody \notin Students
  /\ Nothing \notin Contents \cup Tracks

WardIds == 1..MaxWards
NoWard == 0

\* WardStatus; an id without a row has the status "absent".
Editable == {"new", "seen"}
Decided  == {"approved", "needs_revision"}
Status   == Editable \cup Decided

\* The columns `student`, `content`, `track`, `status`, `via` (recorded_via),
\* `prev` (previous_attempt_id) and `graded` (error_score is not null).  Who
\* decided, when, and the notes are left out.
AbsentWard ==
  [status |-> "absent", student |-> Nobody, content |-> Nothing,
   track |-> Nothing, via |-> "student", prev |-> NoWard,
   graded |-> FALSE]

LiveRow ==
  [status : Status, student : Students, content : Contents,
   track : Tracks \cup {Nothing}, via : {"student", "teacher"},
   prev : WardIds \cup {NoWard}, graded : BOOLEAN]

WardRow == LiveRow \cup {AbsentWard}

=============================================================================
