---------------------------------- MODULE Exams ----------------------------------
(***************************************************************************)
(* Nominations for an exam, the sessions they are scheduled in and their    *)
(* results, in one mosque and for one type of exam (lib/mosque/exams-db.ts  *)
(* and the routes that call it).                                           *)
(*                                                                         *)
(* No operation opens a transaction: a recording, the saving of a roster    *)
(* and the deletion of a session each read, and then write one statement   *)
(* after the other. What they wrote stays when they die between two.       *)
(*                                                                         *)
(* Committees, dates, counts of errors and notices are left out: a score   *)
(* stands for what is recorded.                                            *)
(***************************************************************************)
EXTENDS Integers, FiniteSets

CONSTANTS
  Nominations,   \* ids of exam_nominations
  Sessions,      \* ids of exam_sessions
  Scores,
  Requests,      \* requests of several statements in flight at once
  None           \* NULL

VARIABLES
  nom,      \* exam_nominations
  kept,     \* exam_sessions
  result,   \* exam_results, by the nomination (its key is unique)
  req       \* what each request is doing

vars == <<nom, kept, result, req>>

Nom == [status : {"absent", "pending", "scheduled", "done", "withdrawn"}, session : Sessions \union {None}]

Result == [session : Sessions, score : Scores, published : BOOLEAN]

ASSUME ExamsAssumption ==
  None \notin Sessions /\ None \notin Requests /\ None \notin Result

\* about: the nominations it has read, without those it is through with; out and in:
\* what the roster takes out and puts in; stale, a history: the nominations whose row or
\* result somebody else changed since.
Req == [at      : {"idle", "recording", "checked", "recorded", "taking", "deleting", "unscheduled"},
        about   : SUBSET Nominations,
        session : Sessions \union {None},
        score   : Scores \union {None},
        publish : BOOLEAN,
        out     : SUBSET Nominations,
        in      : SUBSET Nominations,
        stale   : SUBSET Nominations]

Idle == [at |-> "idle", about |-> {}, session |-> None, score |-> None, publish |-> FALSE,
         out |-> {}, in |-> {}, stale |-> {}]

Published(n) == result[n] # None /\ result[n].published
In(s) == {n \in Nominations : nom[n].session = s}

Init ==
  /\ nom = [n \in Nominations |-> [status |-> "absent", session |-> None]]
  /\ kept = Sessions
  /\ result = [n \in Nominations |-> None]
  /\ req = [r \in Requests |-> Idle]

\* The step of request r, or of nobody, leaves its mark on the others
Marked(q) ==
  [q EXCEPT !.stale = @ \union
     {n \in q.about : nom'[n] # nom[n] \/ result'[n] # result[n]}]

Becomes(r, q) == req' = [p \in Requests |-> IF p = r THEN q ELSE Marked(req[p])]

-----------------------------------------------------------------------------
(* Operations of one statement                                             *)

\* createNomination
Nominate ==
  /\ \E n \in Nominations :
       /\ nom[n].status = "absent"
       /\ nom' = [nom EXCEPT ![n].status = "pending"]
  /\ UNCHANGED <<kept, result>>
  /\ Becomes(None, Idle)

WithdrawableAll == {"pending", "scheduled", "done"}

Withdrawable == {"pending", "scheduled"}

\* withdrawNomination: the session stays
Withdraw ==
  /\ \E n \in Nominations :
       /\ nom[n].status \in Withdrawable
       /\ nom' = [nom EXCEPT ![n].status = "withdrawn"]
  /\ UNCHANGED <<kept, result>>
  /\ Becomes(None, Idle)

\* setResultPublished: published, or taken back
SetPublished ==
  /\ \E n \in Nominations :
       /\ result[n] # None
       /\ result' = [result EXCEPT ![n].published = ~@]
  /\ UNCHANGED <<nom, kept>>
  /\ Becomes(None, Idle)

-----------------------------------------------------------------------------
(* Recording a result                                                      *)

\* The route reads the nomination
BeginRecord(r) ==
  /\ UNCHANGED <<nom, kept, result>>
  /\ req[r].at = "idle"
  /\ \E n \in Nominations, score \in Scores, publish \in BOOLEAN :
       /\ nom[n].session # None
       /\ nom[n].status \in {"scheduled", "done"}
       /\ Becomes(r, [Idle EXCEPT !.at = "recording", !.about = {n}, !.session = nom[n].session,
                        !.score = score, !.publish = publish])

MayRecordAny(n) == TRUE

\* A published result is not recorded again
MayRecord(n) == ~Published(n)

\* recordResult reads what is there
CheckUnpublished(r) ==
  /\ UNCHANGED <<nom, kept, result>>
  /\ req[r].at = "recording"
  /\ \E n \in req[r].about :
       Becomes(r, IF MayRecord(n) THEN [req[r] EXCEPT !.at = "checked"] ELSE Idle)

\* INSERT ... ON CONFLICT DO UPDATE; it fails when the session is gone
Upsert(r) ==
  /\ req[r].at = "checked"
  /\ req[r].session \in kept
  /\ \E n \in req[r].about :
       result' = [result EXCEPT ![n] =
         [session |-> req[r].session, score |-> req[r].score, published |-> Published(n) \/ req[r].publish]]
  /\ UNCHANGED <<nom, kept>>
  /\ Becomes(r, [req[r] EXCEPT !.at = "recorded"])

\* WHERE id AND session_id, whatever the status
MarkedDone(n, s) == nom[n].session = s

MarkDone(r) ==
  /\ req[r].at = "recorded"
  /\ \E n \in req[r].about :
       nom' = IF MarkedDone(n, req[r].session) THEN [nom EXCEPT ![n].status = "done"] ELSE nom
  /\ UNCHANGED <<kept, result>>
  /\ Becomes(r, Idle)

-----------------------------------------------------------------------------
(* The roster of a session                                                 *)

\* setSessionRoster reads who is in the session
BeginRoster(r) ==
  /\ UNCHANGED <<nom, kept, result>>
  /\ req[r].at = "idle"
  /\ \E s \in kept, wanted \in SUBSET {n \in Nominations : nom[n].status # "absent"} :
       LET out == In(s) \ wanted
           in  == wanted \ In(s)
       IN  /\ out \union in # {}
           /\ Becomes(r, [Idle EXCEPT !.at = "taking", !.about = out \union in, !.session = s,
                            !.out = out, !.in = in])

Unscheduled == [status |-> "pending", session |-> None]

After(r, out, in) ==
  IF out \union in = {} THEN Idle
  ELSE [req[r] EXCEPT !.out = out, !.in = in, !.about = out \union in, !.stale = @ \intersect (out \union in)]

\* One who is not wanted goes back to wait, by id: in whatever session it is scheduled
TakeOut(r) ==
  /\ UNCHANGED <<kept, result>>
  /\ \E n \in req[r].out :
       /\ nom' = IF nom[n].status = "scheduled" THEN [nom EXCEPT ![n] = Unscheduled] ELSE nom
       /\ Becomes(r, After(r, req[r].out \ {n}, req[r].in))

\* One who is wanted and waits is scheduled; it fails when the session is gone
PutIn(r) ==
  /\ UNCHANGED <<kept, result>>
  /\ req[r].out = {}
  /\ \E n \in req[r].in :
       /\ nom[n].status = "pending" => req[r].session \in kept
       /\ nom' = IF nom[n].status = "pending"
                 THEN [nom EXCEPT ![n] = [status |-> "scheduled", session |-> req[r].session]] ELSE nom
       /\ Becomes(r, After(r, {}, req[r].in \ {n}))

-----------------------------------------------------------------------------
(* Deleting a session                                                      *)

DeletableAlways(s) == TRUE

\* A session with results is refused
Deletable(s) == \A n \in Nominations : result[n] # None => result[n].session # s

BeginDelete(r) ==
  /\ UNCHANGED <<nom, kept, result>>
  /\ req[r].at = "idle"
  /\ \E s \in kept :
       /\ Deletable(s)
       /\ Becomes(r, [Idle EXCEPT !.at = "deleting", !.about = Nominations, !.session = s])

LeavesNobody(s) == {}

LeavesSession(s) == {n \in In(s) : nom[n].status = "scheduled"}

Unschedule(r) ==
  /\ req[r].at = "deleting"
  /\ nom' = [n \in Nominations |-> IF n \in LeavesSession(req[r].session) THEN Unscheduled ELSE nom[n]]
  /\ UNCHANGED <<kept, result>>
  /\ Becomes(r, [req[r] EXCEPT !.at = "unscheduled"])

\* ON DELETE SET NULL
WithoutSession(s) ==
  [n \in Nominations |-> IF n \in In(s) THEN [nom[n] EXCEPT !.session = None] ELSE nom[n]]

\* The results of the session go with it, ON DELETE CASCADE
DropSession(r) ==
  /\ req[r].at = "unscheduled"
  /\ LET s == req[r].session
     IN  /\ kept' = kept \ {s}
         /\ nom' = WithoutSession(s)
         /\ result' = [n \in Nominations |->
              IF result[n] # None /\ result[n].session = s THEN None ELSE result[n]]
  /\ Becomes(r, Idle)

-----------------------------------------------------------------------------

\* The process ends, the database refuses a statement
Die(r) ==
  /\ req[r].at # "idle"
  /\ UNCHANGED <<nom, kept, result>>
  /\ Becomes(r, Idle)

Next ==
  \/ Nominate \/ Withdraw \/ SetPublished
  \/ \E r \in Requests :
       \/ BeginRecord(r) \/ CheckUnpublished(r) \/ Upsert(r) \/ MarkDone(r)
       \/ BeginRoster(r) \/ TakeOut(r) \/ PutIn(r)
       \/ BeginDelete(r) \/ Unschedule(r) \/ DropSession(r)
       \/ Die(r)

Spec == Init /\ [][Next]_vars

-----------------------------------------------------------------------------
(* Properties                                                              *)

\* Tables keep their types and their foreign keys, requests what they have read.
TypeOK ==
  /\ nom \in [Nominations -> Nom]
  /\ kept \subseteq Sessions
  /\ \A n \in Nominations :
       /\ nom[n].session \in kept \union {None}
       /\ result[n] = None \/ (result[n] \in Result /\ result[n].session \in kept)
  /\ req \in [Requests -> Req]
  /\ \A r \in Requests : req[r].stale \subseteq req[r].about

\* Request r takes this step, and had read of nomination n what is no longer true.
StaleStep(n) ==
  \E r \in Requests : n \in req[r].stale /\ [req'[r] EXCEPT !.stale = {}] # [req[r] EXCEPT !.stale = {}]

\* The score of a published result does not change (exams-db.ts 651-653), unless the
\* recording had begun before somebody published it.
PublishedFrozen ==
  [][\A n \in Nominations :
       Published(n) /\ result'[n] # None /\ result'[n].score # result[n].score => StaleStep(n)]_vars

\* No result is erased (exams-db.ts 540), unless the session's deletion had begun before
\* it was recorded.
GradesKept ==
  [][\A n \in Nominations : result[n] # None /\ result'[n] = None => StaleStep(n)]_vars

\* Nobody is scheduled in no session, where no roster and no examiner finds them, unless
\* a roster was saved while the session was being deleted.
NoneStranded ==
  [][\A n \in Nominations :
       nom[n].session # None /\ nom'[n].session = None /\ nom'[n].status = "scheduled"
         => StaleStep(n)]_vars

\* Who is done stays done; who is withdrawn stays withdrawn, unless the recording had
\* begun before.
EndsAreFinal ==
  [][\A n \in Nominations :
       /\ nom[n].status = "done" => nom'[n].status = "done"
       /\ nom[n].status = "withdrawn" /\ nom'[n].status # "withdrawn" => StaleStep(n)]_vars

=============================================================================
