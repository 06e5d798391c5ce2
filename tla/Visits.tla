------------------------------- MODULE Visits --------------------------------
(***************************************************************************)
(* One visit of a supervisor to a halaqah (lib/supervisor-visits.ts,        *)
(* lib/supervisor-visits-db.ts): its row, and its scores by criterion.  The *)
(* route reads the visit, applyVisitAction reads the scores, writes them    *)
(* anew in a transaction, and writes the row by its id alone; between two   *)
(* of these the mosque's administration and the association act on the same *)
(* visit, or the handler dies.                                              *)
(*                                                                          *)
(* The overall score is kept as the scores it was computed from.  Notes and *)
(* dates are left out; the mosque's criteria do not change.                 *)
(***************************************************************************)
EXTENDS Handlers, Naturals

CONSTANTS
  Criteria,  \* keys of the mosque's criteria
  MaxScore   \* CRITERION_SCORE_MAX

ASSUME VisitsAssumption == Criteria # {} /\ MaxScore \in Nat

VARIABLES
  visit,    \* the row of supervisor_visits
  scores,   \* visit_criteria_scores
  torn,     \* history: the row and the scores were last written by halves
  visitor   \* what each handler has read

visitVars == <<visit, scores, torn, visitor>>

Unscored == MaxScore + 1
Scored == 0..MaxScore
Scores == [Criteria -> Scored \union {Unscored}]
NoScores == [c \in Criteria |-> Unscored]

\* computeOverallScore: complete, or there is no overall score
Complete(s) == \A c \in Criteria : s[c] # Unscored
Overall(s) == IF Complete(s) THEN s ELSE NoScores

VisitStatuses == {"scheduled", "done", "cancelled"}

\* overall is NoScores for null
Visit == [status : VisitStatuses, overall : Scores]

Actions == {"save", "done", "cancel", "reopen"}

\* `alone` is history: nobody else wrote since this handler read the visit
Visitor == [pc : {"idle", "read", "scoring", "closing"}, status : VisitStatuses,
            action : Actions, scores : Scores, alone : BOOLEAN]

NoVisitor == [pc |-> "idle", status |-> "scheduled", action |-> "save",
              scores |-> NoScores, alone |-> TRUE]

VisitInit ==
  /\ visit = [status |-> "scheduled", overall |-> NoScores]
  /\ scores = NoScores
  /\ torn = FALSE
  /\ visitor = [w \in Workers |-> NoVisitor]

VisitorAt(w, pc) == visitor[w].pc = pc

\* What w writes, the others have not read; then w goes on as `next`
Written(w, next) ==
  [v \in Workers |-> IF v = w THEN next
                     ELSE IF VisitorAt(v, "idle") THEN visitor[v]
                     ELSE [visitor[v] EXCEPT !.alone = FALSE]]

-----------------------------------------------------------------------------
(* applyVisitAction                                                         *)

\* getVisitForMosque, getVisitForAssociation: 404 for others is left out
ReadVisit(w) ==
  /\ VisitorAt(w, "idle")
  /\ visitor' = [visitor EXCEPT ![w] = [NoVisitor EXCEPT !.pc = "read", !.status = visit.status]]
  /\ UNCHANGED <<visit, scores, torn>>

\* Mutant: whatever is not scheduled may be opened again.
MayActUnscheduled(action, status) ==
  CASE action = "cancel" -> status = "scheduled"
    [] action = "reopen" -> status # "scheduled"
    [] OTHER             -> status # "cancelled"

\* canEditVisit and canTransitionVisit
MayAct(action, status) ==
  CASE action = "cancel" -> status = "scheduled"
    [] action = "reopen" -> status = "done"
    [] OTHER             -> status # "cancelled"

\* Mutant: a score may be taken back at any time.
MergedAny(old, status) == Scores

\* The scores sent, over those stored; one is taken back only while the visit that was
\* read is scheduled
Merged(old, status) ==
  {s \in Scores : \A c \in Criteria :
     s[c] = Unscored => old[c] = Unscored \/ status = "scheduled"}

\* getVisitScores, the merge and the decision; a visit is done once every criterion has
\* a score
DecideVisit(w) ==
  /\ VisitorAt(w, "read")
  /\ \E action \in Actions : \E s \in Merged(scores, visitor[w].status) :
       /\ MayAct(action, visitor[w].status)
       /\ action = "done" => Complete(s)
       /\ action \in {"cancel", "reopen"} => s = scores
       /\ visitor' = [visitor EXCEPT
            ![w].pc = IF action \in {"save", "done"} THEN "scoring" ELSE "closing",
            ![w].action = action, ![w].scores = s]
  /\ UNCHANGED <<visit, scores, torn>>

\* saveVisitScores, one transaction
SaveScores(w) ==
  /\ VisitorAt(w, "scoring")
  /\ scores' = visitor[w].scores
  /\ visitor' = Written(w, [visitor[w] EXCEPT !.pc = "closing"])
  /\ torn' = (torn \/ ~visitor[w].alone)
  /\ UNCHANGED visit

StatusAfterAction(action, status) ==
  CASE action = "save"   -> status
    [] action = "done"   -> "done"
    [] action = "cancel" -> "cancelled"
    [] action = "reopen" -> "scheduled"

OverallAfter(w) ==
  CASE visitor[w].action = "reopen" -> NoScores
    [] visitor[w].action = "done" \/ (visitor[w].action = "save" /\ visitor[w].status = "done")
         -> Overall(visitor[w].scores)
    [] OTHER -> visit.overall

\* updateVisitRow, WHERE id: the status goes by what was read
UpdateVisit(w) ==
  /\ VisitorAt(w, "closing")
  /\ visit' = [status |-> StatusAfterAction(visitor[w].action, visitor[w].status),
               overall |-> OverallAfter(w)]
  /\ visitor' = Written(w, NoVisitor)
  /\ torn' = IF ~visitor[w].alone THEN TRUE
             ELSE torn /\ visitor[w].action # "done"
  /\ UNCHANGED scores

\* Refused, or the process ended; after the scores, the row keeps what it had
LeaveVisit(w) ==
  /\ ~VisitorAt(w, "idle")
  /\ visitor' = [visitor EXCEPT ![w] = NoVisitor]
  /\ torn' = (torn \/ (VisitorAt(w, "closing") /\ visitor[w].action \in {"save", "done"}))
  /\ UNCHANGED <<visit, scores>>

VisitNext ==
  \E w \in Workers :
    ReadVisit(w) \/ DecideVisit(w) \/ SaveScores(w) \/ UpdateVisit(w) \/ LeaveVisit(w)

VisitSpec == VisitInit /\ [][VisitNext]_visitVars

-----------------------------------------------------------------------------
(* Properties                                                               *)

VisitTypeOK ==
  /\ visit \in Visit
  /\ scores \in Scores
  /\ torn \in BOOLEAN
  /\ visitor \in [Workers -> Visitor]

\* A cancelled visit is final, unless a handler had read it before it was cancelled:
\* that one brings it back (canEditVisit, supervisor-visits.ts 77-90, against the
\* UPDATE by id of updateVisitRow, supervisor-visits-db.ts 254-262).
CancelledIsFinal ==
  [][visit.status = "cancelled" /\ visit'.status # "cancelled" =>
       \E w \in Workers : VisitorAt(w, "closing") /\ ~visitor[w].alone]_visitVars

\* A visit that is done has a score for every criterion and the overall score of those
\* it has, except between the two writes of a handler, or after two handlers crossed or
\* one died there: then until it is next done undisturbed (applyVisitAction,
\* supervisor-visits-db.ts 283-341).
DoneIsComplete ==
  visit.status = "done" /\ ~torn
    /\ ~(\E w \in Workers : VisitorAt(w, "closing") /\ visitor[w].action \in {"save", "done"})
  => Complete(scores) /\ visit.overall = scores

=============================================================================
