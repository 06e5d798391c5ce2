------------------------------ MODULE Recitations ------------------------------
(***************************************************************************)
(* The recordings of one student (lib/recitations-db.ts): he uploads, each  *)
(* upload drops what is beyond the latest Keep, and the teachers of the     *)
(* halaqah review what is kept; the first review is told to the student and *)
(* the parents.                                                             *)
(*                                                                         *)
(* An upload is a transaction of two statements under READ COMMITTED: its   *)
(* DELETE ranks the rows that others had committed and its own, and not     *)
(* those of the uploads in flight beside it.  A review is one statement     *)
(* that reads the status in its snapshot and writes when the row is free.   *)
(*                                                                         *)
(* A recitation is the number of its upload, later ones are newer; audio,   *)
(* scores and notes are left out; the student stays in the halaqah.         *)
(***************************************************************************)
EXTENDS Handlers, Naturals, FiniteSets

CONSTANTS
  Keep,       \* RECITATIONS_KEEP_PER_STUDENT
  MaxUploads  \* bound: uploads of the student

ASSUME RecitationsAssumption == Keep \in Nat \ {0} /\ MaxUploads \in Nat /\ IsFiniteSet(Workers)

VARIABLES
  recitations,  \* the rows of the table
  reviewed,     \* those whose status is 'reviewed'
  uploads,      \* uploads begun
  clerk,        \* what each handler is doing
  toldReview,   \* history: how often the review of each was told
  unsaid,       \* history: a handler ended before it told the review
  crossed       \* history: two reviews of it were under way at once

recitationVars == <<recitations, reviewed, uploads, clerk, toldReview, unsaid, crossed>>

Uploads == 1..MaxUploads

Clerk == [pc : {"idle", "inserted", "ranked", "reviewing", "telling"},
          about   : Uploads \union {0},
          out     : SUBSET Uploads,   \* what the DELETE found beyond the limit
          pending : BOOLEAN]          \* the status the review read

NoClerk == [pc |-> "idle", about |-> 0, out |-> {}, pending |-> FALSE]

RecitationInit ==
  /\ recitations = {} /\ reviewed = {}
  /\ uploads = 0
  /\ clerk = [w \in Workers |-> NoClerk]
  /\ toldReview = [r \in Uploads |-> 0]
  /\ unsaid = {} /\ crossed = {}

ClerkAt(w, pc) == clerk[w].pc = pc
ClerkGoes(w, c) == clerk' = [clerk EXCEPT ![w] = c]

-----------------------------------------------------------------------------
(* insertRecitation                                                         *)

\* BEGIN and the INSERT, of a student who is active and not deleted
InsertRecitation(w) ==
  /\ ClerkAt(w, "idle")
  /\ uploads < MaxUploads
  /\ uploads' = uploads + 1
  /\ ClerkGoes(w, [NoClerk EXCEPT !.pc = "inserted", !.about = uploads + 1])
  /\ UNCHANGED <<recitations, reviewed, toldReview, unsaid, crossed>>

Newer(rows, r) == {s \in rows : s > r}

\* Mutant: the limit is one too high.
BeyondLimitLate(rows) == {r \in rows : Cardinality(Newer(rows, r)) > Keep}

\* NOT IN (... ORDER BY created_at DESC LIMIT Keep)
BeyondLimit(rows) == {r \in rows : Cardinality(Newer(rows, r)) >= Keep}

\* The DELETE ranks the rows it sees
RankRecitations(w) ==
  /\ ClerkAt(w, "inserted")
  /\ ClerkGoes(w, [clerk[w] EXCEPT !.pc = "ranked",
                                   !.out = BeyondLimit(recitations \union {clerk[w].about})])
  /\ UNCHANGED <<recitations, reviewed, uploads, toldReview, unsaid, crossed>>

\* COMMIT: the upload is there, and what it ranked beyond the limit is gone
CommitRecitation(w) ==
  /\ ClerkAt(w, "ranked")
  /\ recitations' = (recitations \union {clerk[w].about}) \ clerk[w].out
  /\ ClerkGoes(w, NoClerk)
  /\ UNCHANGED <<reviewed, uploads, toldReview, unsaid, crossed>>

-----------------------------------------------------------------------------
(* reviewRecitation and the notice of PATCH api/recitations/[id]            *)

Reviewing(r) == {w \in Workers : ClerkAt(w, "reviewing") /\ clerk[w].about = r}

\* WITH prev AS (SELECT ... status): the status in the statement's snapshot
SeeStatus(w) ==
  /\ ClerkAt(w, "idle")
  /\ \E r \in recitations :
       /\ ClerkGoes(w, [NoClerk EXCEPT !.pc = "reviewing", !.about = r, !.pending = r \notin reviewed])
       /\ crossed' = IF Reviewing(r) = {} THEN crossed ELSE crossed \union {r}
  /\ UNCHANGED <<recitations, reviewed, uploads, toldReview, unsaid>>

\* Mutant: every review is told.
IsFirstAlways(c) == TRUE

\* wasPending
IsFirst(c) == c.pending

\* The UPDATE, once the row is free: a row that an upload dropped meanwhile is not found
WriteReview(w) ==
  /\ ClerkAt(w, "reviewing")
  /\ LET r == clerk[w].about
     IN  IF r \in recitations
         THEN /\ reviewed' = reviewed \union {r}
              /\ ClerkGoes(w, IF IsFirst(clerk[w]) THEN [clerk[w] EXCEPT !.pc = "telling"] ELSE NoClerk)
         ELSE UNCHANGED reviewed /\ ClerkGoes(w, NoClerk)
  /\ UNCHANGED <<recitations, uploads, toldReview, unsaid, crossed>>

\* after(): the student and the parents are told
TellReview(w) ==
  /\ ClerkAt(w, "telling")
  /\ toldReview' = [toldReview EXCEPT ![clerk[w].about] = @ + 1]
  /\ ClerkGoes(w, NoClerk)
  /\ UNCHANGED <<recitations, reviewed, uploads, unsaid, crossed>>

\* The process ends or a statement throws: an upload is rolled back, a notice is lost
StopClerk(w) ==
  /\ ~ClerkAt(w, "idle")
  /\ unsaid' = IF ClerkAt(w, "telling") THEN unsaid \union {clerk[w].about} ELSE unsaid
  /\ ClerkGoes(w, NoClerk)
  /\ UNCHANGED <<recitations, reviewed, uploads, toldReview, crossed>>

RecitationNext ==
  \E w \in Workers :
    \/ InsertRecitation(w) \/ RankRecitations(w) \/ CommitRecitation(w)
    \/ SeeStatus(w) \/ WriteReview(w) \/ TellReview(w) \/ StopClerk(w)

RecitationSpec == RecitationInit /\ [][RecitationNext]_recitationVars

-----------------------------------------------------------------------------
(* Properties                                                               *)

RecitationTypeOK ==
  /\ recitations \subseteq Uploads /\ reviewed \subseteq Uploads
  /\ uploads \in 0..MaxUploads
  /\ clerk \in [Workers -> Clerk]
  /\ toldReview \in [Uploads -> Nat]
  /\ unsaid \subseteq Uploads /\ crossed \subseteq Uploads

\* The recordings of a student stay near the limit: beside the latest Keep there is at
\* most one for each further upload that can be in flight, whatever overtakes what and
\* whoever dies in between; nothing adds up (insertRecitation, recitations-db.ts 45-96,
\* whose comment promises the limit itself).
KeptNearLimit == Cardinality(recitations) < Keep + Cardinality(Workers)

TellingOf(r) == {w \in Workers : ClerkAt(w, "telling") /\ clerk[w].about = r}

\* The first review of a recitation is told once, later ones are not: a reviewed one was
\* told, or a handler is about to, or it ended before it did. Two reviews under way at
\* once may both take themselves for the first (reviewRecitation, recitations-db.ts
\* 166-188; api/recitations/[id]/route.ts 30-62).
ReviewToldOnce ==
  \A r \in Uploads \ crossed :
    toldReview[r] + Cardinality(TellingOf(r)) + (IF r \in unsaid THEN 1 ELSE 0)
      = IF r \in reviewed THEN 1 ELSE 0

=============================================================================
