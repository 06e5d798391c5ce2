------------------------------- MODULE ExamsProofs -------------------------------
(***************************************************************************)
(* What holds of exams for any number of nominations, sessions and          *)
(* requests.                                                               *)
(*                                                                         *)
(* Sound is the strengthening: what a request has read of a nomination      *)
(* still holds, unless it is marked stale. Every step of somebody else      *)
(* keeps it, since it marks what it changes (Bystander), so each action     *)
(* is left with the request that takes it.                                 *)
(***************************************************************************)
EXTENDS Exams, TLAPS

Records(q) == q.at \in {"recording", "checked", "recorded"}
Deletes(q) == q.at \in {"deleting", "unscheduled"}
Fresh(q) == q.about \ q.stale

\* The fields of a request fit what it is doing.
Shaped(q) ==
  /\ q \in Req
  /\ q.stale \subseteq q.about
  /\ q.at # "idle" => q.session \in Sessions
  /\ Records(q) => q.score \in Scores /\ \E n \in Nominations : q.about = {n}
  /\ Deletes(q) => q.about = Nominations
  /\ q.at # "taking" => q.out = {} /\ q.in = {}

\* What it has read of the nominations that are not stale still holds.
Current(q) ==
  \A n \in Fresh(q) :
    /\ Records(q) => nom[n].status \in {"scheduled", "done"}
    /\ q.at = "checked" => ~Published(n)
    /\ Deletes(q) => (result[n] # None => result[n].session # q.session)
    /\ q.at = "unscheduled" => ~(nom[n].session = q.session /\ nom[n].status = "scheduled")

Sound(q) == Shaped(q) /\ Current(q)

\* The tables' part of TypeOK.
Tables ==
  /\ nom \in [Nominations -> Nom]
  /\ kept \subseteq Sessions
  /\ \A n \in Nominations :
       /\ nom[n].session \in kept \union {None}
       /\ result[n] = None \/ (result[n] \in Result /\ result[n].session \in kept)

Requested == DOMAIN req = Requests /\ req = [r \in Requests |-> req[r]] /\ \A r \in Requests : Sound(req[r])

IInv == Tables /\ (DOMAIN result = Nominations /\ result = [n \in Nominations |-> result[n]]) /\ Requested

\* The invariant implies the type invariant.
LEMMA Typed == IInv => TypeOK
  BY DEF IInv, Tables, Requested, Sound, Shaped, TypeOK

\* A request that does nothing has nothing to keep.
LEMMA IdleSound ==
  /\ Sound(Idle)
  /\ Sound(Idle)'
  BY DEF Sound, Shaped, Current, Fresh, Records, Deletes, Idle, Req

\* A request stays sound through the step of another: what the step changed is stale.
LEMMA Bystander ==
  ASSUME NEW q, Sound(q)
  PROVE  Shaped(Marked(q)) /\ Marked(q).at = q.at
<1>1. Marked(q) \in Req /\ Marked(q).stale \subseteq Marked(q).about
  BY DEF Sound, Shaped, Marked, Req
<1>2. /\ Marked(q).at = q.at /\ Marked(q).session = q.session /\ Marked(q).score = q.score
      /\ Marked(q).about = q.about /\ Marked(q).out = q.out /\ Marked(q).in = q.in
  BY DEF Sound, Shaped, Marked, Req
<1> QED
  BY <1>1, <1>2 DEF Sound, Shaped, Records, Deletes

\* What it has read still holds of those the step did not mark.
LEMMA BystanderCurrent ==
  ASSUME NEW q, Sound(q), NEW p, p = Marked(q)
  PROVE  Current(p)'
<1>1. p.at = q.at /\ p.session = q.session /\ p.about = q.about
  BY DEF Sound, Shaped, Marked, Req
<1>2. \A n \in Fresh(p) : n \in Fresh(q) /\ nom'[n] = nom[n] /\ result'[n] = result[n]
  BY <1>1 DEF Sound, Shaped, Marked, Req, Fresh
<1> QED
  BY <1>1, <1>2 DEF Sound, Current, Fresh, Records, Deletes, Published

\* The requests stay sound when the one that acts does.
LEMMA Others ==
  ASSUME Requested, NEW r, NEW q, Becomes(r, q), r \in Requests => Sound(q)'
  PROVE  Requested'
<1>1. req' = [p \in Requests |-> IF p = r THEN q ELSE Marked(req[p])]
  BY DEF Becomes
<1>2. ASSUME NEW p \in Requests PROVE Sound(req[p])'
  <2>1. CASE p = r
    BY <1>1, <2>1 DEF Sound, Shaped, Current, Fresh, Records, Deletes, Published
  <2>2. CASE p # r
    <3> PICK m : m = Marked(req[p]) OBVIOUS
    <3>1. req'[p] = m
      BY <1>1, <2>2
    <3>2. Sound(req[p])
      BY DEF Requested
    <3>3. Shaped(m) /\ Current(m)'
      BY <3>2, Bystander, BystanderCurrent
    <3> QED
      BY <3>1, <3>3 DEF Sound, Shaped, Current, Fresh, Records, Deletes, Published
  <2> QED BY <2>1, <2>2
<1> QED
  BY <1>1, <1>2 DEF Requested

-----------------------------------------------------------------------------
(* Each action keeps the invariant                                         *)

Tabled == Tables /\ DOMAIN result = Nominations /\ result = [n \in Nominations |-> result[n]]

\* With nobody acting, no tables but their own change.
LEMMA ByNobody ==
  ASSUME IInv, NEW q, Becomes(None, q), Tabled'
  PROVE  IInv'
BY Others, ExamsAssumption DEF IInv, Tabled

\* A step of a request keeps the invariant if the request stays sound.
LEMMA BySomebody ==
  ASSUME IInv, NEW r \in Requests, NEW q, Becomes(r, q), Sound(q)', Tabled'
  PROVE  IInv'
BY Others DEF IInv, Tabled

\* A step that writes no table keeps what the tables promise.
LEMMA TablesKept == ASSUME IInv, UNCHANGED <<nom, kept, result>> PROVE Tabled'
BY DEF IInv, Tabled, Tables

\* Nothing a request has read changes when no table does.
LEMMA CurrentKept == ASSUME NEW q, UNCHANGED <<nom, kept, result>>, Sound(q) PROVE Sound(q)'
BY DEF Sound, Shaped, Current, Fresh, Records, Deletes, Published

\* Nominating, withdrawing and publishing keep the invariant.
LEMMA OneStatement ==
  ASSUME IInv, Nominate \/ Withdraw \/ SetPublished
  PROVE  IInv'
<1>1. CASE Nominate
  <2>1. Tabled'
    BY <1>1 DEF IInv, Tabled, Tables, Nominate, Nom
  <2> QED
    BY <1>1, <2>1, ByNobody DEF Nominate
<1>2. CASE Withdraw
  <2>1. Tabled'
    BY <1>2 DEF IInv, Tabled, Tables, Withdraw, Nom
  <2> QED
    BY <1>2, <2>1, ByNobody DEF Withdraw
<1>3. CASE SetPublished
  <2>1. PICK n \in Nominations :
          result[n] # None /\ result' = [result EXCEPT ![n].published = ~result[n].published]
    BY <1>3 DEF SetPublished
  <2>2. result[n] \in Result /\ result[n].session \in kept
    BY <2>1 DEF IInv, Tables
  <2>3. PICK x : x = [result[n] EXCEPT !.published = ~result[n].published]
    OBVIOUS
  <2>4. x \in Result /\ x.session = result[n].session
    BY <2>2, <2>3 DEF Result
  <2>5. result' = [result EXCEPT ![n] = x] /\ UNCHANGED <<nom, kept>>
    BY <1>3, <2>1, <2>3 DEF SetPublished
  <2>6. Tabled'
    BY <2>2, <2>4, <2>5 DEF IInv, Tabled, Tables
  <2> QED
    BY <1>3, <2>6, ByNobody DEF SetPublished
<1> QED
  BY <1>1, <1>2, <1>3

\* Every step of a recording keeps the invariant.
LEMMA Recording ==
  ASSUME IInv, NEW r \in Requests,
         BeginRecord(r) \/ CheckUnpublished(r) \/ Upsert(r) \/ MarkDone(r)
  PROVE  IInv'
<1>0. Sound(req[r])
  BY DEF IInv, Requested
<1>1. CASE BeginRecord(r)
  <2>1. PICK n \in Nominations, score \in Scores, publish \in BOOLEAN :
          /\ nom[n].session # None
          /\ nom[n].status \in {"scheduled", "done"}
          /\ Becomes(r, [Idle EXCEPT !.at = "recording", !.about = {n}, !.session = nom[n].session,
                           !.score = score, !.publish = publish])
    BY <1>1 DEF BeginRecord
  <2>2. PICK q : q = [Idle EXCEPT !.at = "recording", !.about = {n}, !.session = nom[n].session,
                         !.score = score, !.publish = publish]
    OBVIOUS
  <2>3. nom[n].session \in Sessions
    BY <2>1 DEF IInv, Tables
  <2>6. /\ q \in Req /\ q.at = "recording" /\ q.about = {n} /\ q.stale = {}
        /\ q.session = nom[n].session /\ q.score = score /\ q.out = {} /\ q.in = {}
    BY <2>2, <2>3 DEF Idle, Req
  <2>4. Sound(q)
    BY <2>1, <2>3, <2>6 DEF Sound, Shaped, Current, Fresh, Records, Deletes
  <2>5. UNCHANGED <<nom, kept, result>>
    BY <1>1 DEF BeginRecord
  <2> QED
    BY <2>1, <2>2, <2>4, <2>5, CurrentKept, TablesKept, BySomebody
<1>2. CASE CheckUnpublished(r)
  <2>1. PICK n \in req[r].about :
          Becomes(r, IF MayRecord(n) THEN [req[r] EXCEPT !.at = "checked"] ELSE Idle)
    BY <1>2 DEF CheckUnpublished
  <2>2. PICK q : q = IF MayRecord(n) THEN [req[r] EXCEPT !.at = "checked"] ELSE Idle
    OBVIOUS
  <2>3. req[r].at = "recording" /\ UNCHANGED <<nom, kept, result>>
    BY <1>2 DEF CheckUnpublished
  <2>4. Sound(q)
    <3>1. CASE MayRecord(n)
      <4>1. q = [req[r] EXCEPT !.at = "checked"]
        BY <2>2, <3>1
      <4>2. q \in Req /\ q.at = "checked" /\ q.about = req[r].about /\ q.stale = req[r].stale
            /\ q.session = req[r].session /\ q.score = req[r].score
            /\ q.out = req[r].out /\ q.in = req[r].in
        BY <1>0, <4>1 DEF Sound, Shaped, Req
      <4>3. q.about = {n}
        BY <1>0, <2>3, <4>2 DEF Sound, Shaped, Records
      <4> QED
        BY <1>0, <2>3, <3>1, <4>2, <4>3 DEF Sound, Shaped, Current, Fresh, Records, Deletes, MayRecord
    <3>2. CASE ~MayRecord(n)
      BY <2>2, <3>2, IdleSound
    <3> QED BY <3>1, <3>2
  <2> QED
    BY <2>1, <2>2, <2>3, <2>4, CurrentKept, TablesKept, BySomebody
<1>3. CASE Upsert(r)
  <2>1. PICK n \in req[r].about : result' = [result EXCEPT ![n] =
          [session |-> req[r].session, score |-> req[r].score, published |-> Published(n) \/ req[r].publish]]
    BY <1>3 DEF Upsert
  <2>2. PICK q : q = [req[r] EXCEPT !.at = "recorded"]
    OBVIOUS
  <2>3. req[r].at = "checked" /\ req[r].session \in kept /\ UNCHANGED <<nom, kept>> /\ Becomes(r, q)
    BY <1>3, <2>2 DEF Upsert
  <2>4. q \in Req /\ q.at = "recorded" /\ q.about = req[r].about /\ q.stale = req[r].stale
        /\ q.session = req[r].session /\ q.score = req[r].score
        /\ q.out = req[r].out /\ q.in = req[r].in
    BY <1>0, <2>2 DEF Sound, Shaped, Req
  <2>5. Sound(q)'
    BY <1>0, <2>3, <2>4 DEF Sound, Shaped, Current, Fresh, Records, Deletes
  <2>6. n \in Nominations /\ req[r].score \in Scores /\ req[r].publish \in BOOLEAN
    BY <1>0, <2>3 DEF Sound, Shaped, Records, Req
  <2>7. Published(n) \in BOOLEAN
    BY <2>6 DEF IInv, Tables, Published, Result
  <2>8. [session |-> req[r].session, score |-> req[r].score, published |-> Published(n) \/ req[r].publish]
          \in Result
    BY <2>3, <2>6, <2>7 DEF IInv, Tables, Result
  <2>9. Tabled'
    BY <2>1, <2>3, <2>6, <2>8 DEF IInv, Tabled, Tables
  <2> QED
    BY <2>3, <2>5, <2>9, BySomebody
<1>4. CASE MarkDone(r)
  <2>1. PICK n \in req[r].about :
          nom' = IF MarkedDone(n, req[r].session) THEN [nom EXCEPT ![n].status = "done"] ELSE nom
    BY <1>4 DEF MarkDone
  <2>2. n \in Nominations
    BY <1>0 DEF Sound, Shaped, Req
  <2>3. nom' \in [Nominations -> Nom] /\ \A m \in Nominations : nom'[m].session = nom[m].session
    BY <2>1, <2>2 DEF IInv, Tables, Nom
  <2>4. UNCHANGED <<kept, result>> /\ Becomes(r, Idle)
    BY <1>4 DEF MarkDone
  <2>5. Tabled'
    BY <2>3, <2>4 DEF IInv, Tabled, Tables
  <2> QED
    BY <2>4, <2>5, IdleSound, BySomebody
<1> QED
  BY <1>1, <1>2, <1>3, <1>4

\* Every step of a roster keeps the invariant.
LEMMA Rostering ==
  ASSUME IInv, NEW r \in Requests, BeginRoster(r) \/ TakeOut(r) \/ PutIn(r)
  PROVE  IInv'
<1>0. Sound(req[r])
  BY DEF IInv, Requested
<1>1. CASE BeginRoster(r)
  <2>1. PICK s \in kept, wanted \in SUBSET {n \in Nominations : nom[n].status # "absent"} :
          LET out == In(s) \ wanted
              in  == wanted \ In(s)
          IN  Becomes(r, [Idle EXCEPT !.at = "taking", !.about = out \union in, !.session = s,
                            !.out = out, !.in = in])
    BY <1>1 DEF BeginRoster
  <2> DEFINE out == In(s) \ wanted
             in == wanted \ In(s)
  <2>2. PICK q : q = [Idle EXCEPT !.at = "taking", !.about = out \union in, !.session = s,
                        !.out = out, !.in = in]
    OBVIOUS
  <2>3. s \in Sessions /\ out \subseteq Nominations /\ in \subseteq Nominations
    BY DEF IInv, Tables, In
  <2> HIDE DEF out, in
  <2>7. q \in Req /\ q.at = "taking" /\ q.session = s /\ q.stale = {}
    BY <2>2, <2>3 DEF Idle, Req
  <2>4. Sound(q)
    BY <2>3, <2>7 DEF Sound, Shaped, Current, Fresh, Records, Deletes
  <2>5. UNCHANGED <<nom, kept, result>>
    BY <1>1 DEF BeginRoster
  <2>6. Becomes(r, q)
    BY <2>1, <2>2 DEF out, in
  <2> QED
    BY <2>4, <2>5, <2>6, CurrentKept, TablesKept, BySomebody
<1>2. ASSUME NEW out, NEW in, out \subseteq req[r].out, in \subseteq req[r].in,
             req[r].at = "taking", NEW q, q = After(r, out, in)
      PROVE  Sound(q)'
  <2>1. CASE out \union in = {}
    BY <1>2, <2>1, IdleSound DEF After
  <2>2. CASE out \union in # {}
    <3> PICK about, stale : about = out \union in /\ stale = req[r].stale \intersect about
      OBVIOUS
    <3>1. q = [req[r] EXCEPT !.out = out, !.in = in, !.about = about, !.stale = stale]
      BY <1>2, <2>2 DEF After
    <3>3. req[r].out \in SUBSET Nominations /\ req[r].in \in SUBSET Nominations
      BY <1>0 DEF Sound, Shaped, Req
    <3>4. /\ out \in SUBSET Nominations /\ in \in SUBSET Nominations
          /\ about \in SUBSET Nominations /\ stale \in SUBSET about
      BY <1>2, <3>3
    <3>5. req[r] \in Req
      BY <1>0 DEF Sound, Shaped
    <3>6. q \in Req /\ q.at = req[r].at /\ q.session = req[r].session
          /\ q.about = about /\ q.stale = stale
      BY <3>1, <3>4, <3>5 DEF Req
    <3>2. q \in Req /\ q.at = "taking" /\ q.session = req[r].session /\ q.stale \subseteq q.about
      BY <1>2, <3>4, <3>6
    <3> QED
      BY <1>0, <1>2, <3>2 DEF Sound, Shaped, Current, Fresh, Records, Deletes
  <2> QED BY <2>1, <2>2
<1>3. CASE TakeOut(r)
  <2>1. PICK n \in req[r].out :
          /\ nom' = IF nom[n].status = "scheduled" THEN [nom EXCEPT ![n] = Unscheduled] ELSE nom
          /\ Becomes(r, After(r, req[r].out \ {n}, req[r].in))
    BY <1>3 DEF TakeOut
  <2>2. UNCHANGED <<kept, result>> /\ req[r].at = "taking"
    BY <1>0, <2>1, <1>3 DEF TakeOut, Sound, Shaped
  <2>3. n \in Nominations
    BY <1>0 DEF Sound, Shaped, Req
  <2>4. Tabled'
    BY <2>1, <2>2, <2>3 DEF IInv, Tabled, Tables, Nom, Unscheduled
  <2>5. PICK q : q = After(r, req[r].out \ {n}, req[r].in)
    OBVIOUS
  <2>6. Sound(q)'
    BY <1>2, <2>2, <2>5
  <2> QED
    BY <2>1, <2>4, <2>5, <2>6, BySomebody
<1>4. CASE PutIn(r)
  <2>1. PICK n \in req[r].in :
          /\ nom[n].status = "pending" => req[r].session \in kept
          /\ nom' = IF nom[n].status = "pending"
                    THEN [nom EXCEPT ![n] = [status |-> "scheduled", session |-> req[r].session]] ELSE nom
          /\ Becomes(r, After(r, {}, req[r].in \ {n}))
    BY <1>4 DEF PutIn
  <2>2. UNCHANGED <<kept, result>> /\ req[r].at = "taking"
    BY <1>0, <2>1, <1>4 DEF PutIn, Sound, Shaped
  <2>3. n \in Nominations
    BY <1>0 DEF Sound, Shaped, Req
  <2>4. Tabled'
    BY <2>1, <2>2, <2>3 DEF IInv, Tabled, Tables, Nom
  <2>5. PICK q : q = After(r, {}, req[r].in \ {n})
    OBVIOUS
  <2>6. Sound(q)'
    BY <1>2, <2>2, <2>5
  <2> QED
    BY <2>1, <2>4, <2>5, <2>6, BySomebody
<1> QED
  BY <1>1, <1>3, <1>4

\* Every step of a deletion keeps the invariant.
LEMMA Deleting ==
  ASSUME IInv, NEW r \in Requests, BeginDelete(r) \/ Unschedule(r) \/ DropSession(r) \/ Die(r)
  PROVE  IInv'
<1>0. Sound(req[r])
  BY DEF IInv, Requested
<1>1. CASE BeginDelete(r)
  <2>1. PICK s \in kept :
          /\ Deletable(s)
          /\ Becomes(r, [Idle EXCEPT !.at = "deleting", !.about = Nominations, !.session = s])
    BY <1>1 DEF BeginDelete
  <2>2. PICK q : q = [Idle EXCEPT !.at = "deleting", !.about = Nominations, !.session = s]
    OBVIOUS
  <2>3. s \in Sessions
    BY DEF IInv, Tables
  <2>4. Sound(q)
    BY <2>1, <2>2, <2>3 DEF Sound, Shaped, Current, Fresh, Records, Deletes, Idle, Req, Deletable
  <2>5. UNCHANGED <<nom, kept, result>>
    BY <1>1 DEF BeginDelete
  <2> QED
    BY <2>1, <2>2, <2>4, <2>5, CurrentKept, TablesKept, BySomebody
<1>2. CASE Unschedule(r)
  <2>1. PICK s : s = req[r].session
    OBVIOUS
  <2>2. nom' = [n \in Nominations |-> IF n \in LeavesSession(s) THEN Unscheduled ELSE nom[n]]
    BY <1>2, <2>1 DEF Unschedule
  <2>3. PICK q : q = [req[r] EXCEPT !.at = "unscheduled"]
    OBVIOUS
  <2>4. req[r].at = "deleting" /\ UNCHANGED <<kept, result>> /\ Becomes(r, q)
    BY <1>2, <2>3 DEF Unschedule
  <2>5. q \in Req /\ q.at = "unscheduled" /\ q.about = req[r].about /\ q.stale = req[r].stale
        /\ q.session = s /\ q.out = req[r].out /\ q.in = req[r].in
    BY <1>0, <2>1, <2>3 DEF Sound, Shaped, Req
  <2>6. Tabled'
    BY <2>2, <2>4 DEF IInv, Tabled, Tables, Nom, Unscheduled
  <2>7. \A n \in Nominations : ~(nom'[n].session = s /\ nom'[n].status = "scheduled")
    BY <2>2 DEF LeavesSession, In, Unscheduled
  <2>8. Sound(q)'
    BY <1>0, <2>1, <2>4, <2>5, <2>7 DEF Sound, Shaped, Current, Fresh, Records, Deletes, Req
  <2> QED
    BY <2>4, <2>6, <2>8, BySomebody
<1>3. CASE DropSession(r)
  <2>1. PICK s : s = req[r].session
    OBVIOUS
  <2>2. /\ kept' = kept \ {s}
        /\ nom' = WithoutSession(s)
        /\ result' = [n \in Nominations |->
             IF result[n] # None /\ result[n].session = s THEN None ELSE result[n]]
        /\ Becomes(r, Idle)
    BY <1>3, <2>1 DEF DropSession
  <2>3. nom' \in [Nominations -> Nom]
    BY <2>2 DEF IInv, Tables, Nom, WithoutSession
  <2>4. \A n \in Nominations : nom'[n].session \in kept' \union {None}
    BY <2>2 DEF IInv, Tables, Nom, WithoutSession, In
  <2>5. Tabled'
    BY <2>2, <2>3, <2>4 DEF IInv, Tabled, Tables
  <2> QED
    BY <2>2, <2>5, IdleSound, BySomebody
<1>4. CASE Die(r)
  BY <1>4, IdleSound, TablesKept, BySomebody DEF Die
<1> QED
  BY <1>1, <1>2, <1>3, <1>4

-----------------------------------------------------------------------------

\* The invariant is inductive.
THEOREM Invariant == Spec => []IInv
<1>1. Init => IInv
  <2> SUFFICES ASSUME Init PROVE IInv
    OBVIOUS
  <2>1. Tables /\ DOMAIN result = Nominations /\ result = [n \in Nominations |-> result[n]]
    BY DEF Init, Tables, Nom
  <2>2. Requested
    BY IdleSound DEF Init, Requested
  <2> QED
    BY <2>1, <2>2 DEF IInv
<1>2. IInv /\ [Next]_vars => IInv'
  <2> SUFFICES ASSUME IInv, [Next]_vars PROVE IInv'
    OBVIOUS
  <2>1. CASE Nominate \/ Withdraw \/ SetPublished
    BY <2>1, OneStatement
  <2>2. ASSUME NEW r \in Requests, BeginRecord(r) \/ CheckUnpublished(r) \/ Upsert(r) \/ MarkDone(r)
        PROVE  IInv'
    BY <2>2, Recording
  <2>3. ASSUME NEW r \in Requests, BeginRoster(r) \/ TakeOut(r) \/ PutIn(r)
        PROVE  IInv'
    BY <2>3, Rostering
  <2>4. ASSUME NEW r \in Requests, BeginDelete(r) \/ Unschedule(r) \/ DropSession(r) \/ Die(r)
        PROVE  IInv'
    BY <2>4, Deleting
  <2>5. CASE UNCHANGED vars
    <3>1. \A r \in Requests : Sound(req[r])'
      BY <2>5 DEF vars, IInv, Requested, Sound, Shaped, Current, Fresh, Records, Deletes, Published
    <3> QED
      BY <2>5, <3>1 DEF vars, IInv, Tables, Requested
  <2> QED
    BY <2>1, <2>2, <2>3, <2>4, <2>5 DEF Next
<1> QED
  BY <1>1, <1>2, PTL DEF Spec

\* Tables keep their types and foreign keys.
THEOREM TypeCorrect == Spec => []TypeOK
  BY Invariant, Typed, PTL

-----------------------------------------------------------------------------
(* Action properties: the step that could do harm is that of a request, and *)
(* the request is sound of what is not stale.                              *)

\* A request that goes on with something stale takes a stale step.
LEMMA Moves ==
  ASSUME IInv, NEW r \in Requests,
         Upsert(r) \/ MarkDone(r) \/ DropSession(r), NEW n \in req[r].stale
  PROVE  StaleStep(n)
<1>1. req[r] \in Req /\ req[r].at \in {"checked", "recorded", "unscheduled"}
  BY DEF IInv, Requested, Sound, Shaped, Upsert, MarkDone, DropSession
<1>2. \/ req'[r] = [req[r] EXCEPT !.at = "recorded"] /\ req[r].at = "checked"
      \/ req'[r] = Idle
  BY DEF Becomes, Upsert, MarkDone, DropSession
<1>3. [req'[r] EXCEPT !.stale = {}].at # [req[r] EXCEPT !.stale = {}].at
  BY <1>1, <1>2 DEF Req, Idle
<1> QED
  BY <1>3 DEF StaleStep

\* What each of the three steps that write results does to one of them.
LEMMA ResultOf ==
  ASSUME IInv, [Next]_vars, NEW n \in Nominations, result[n] # None, ~StaleStep(n)
  PROVE  /\ result'[n] # None
         /\ result[n].published => result'[n].score = result[n].score
<1>1. result[n] \in Result
  BY DEF IInv, Tables
<1>2. CASE UNCHANGED result
  BY <1>2
<1>3. CASE SetPublished
  <2>1. PICK m \in Nominations : result' = [result EXCEPT ![m].published = ~result[m].published]
    BY <1>3 DEF SetPublished
  <2>2. PICK x : x = [result[n] EXCEPT !.published = ~result[n].published]
    OBVIOUS
  <2>3. x \in Result /\ x.score = result[n].score
    BY <1>1, <2>2 DEF Result
  <2>4. result'[n] = x \/ result'[n] = result[n]
    BY <2>1, <2>2 DEF IInv
  <2> QED
    BY <1>1, <2>3, <2>4, ExamsAssumption
<1>4. ASSUME NEW r \in Requests, Upsert(r)
      PROVE  result'[n] # None /\ (result[n].published => result'[n].score = result[n].score)
  <2>1. PICK m \in req[r].about : result' = [result EXCEPT ![m] =
          [session |-> req[r].session, score |-> req[r].score, published |-> Published(m) \/ req[r].publish]]
    BY <1>4 DEF Upsert
  <2>2. CASE n # m
    BY <2>1, <2>2 DEF IInv
  <2>3. CASE n = m
    <3>1. req[r].at = "checked" /\ Sound(req[r])
      BY <1>4 DEF Upsert, IInv, Requested
    <3>2. n \in Fresh(req[r])
      BY <1>4, <2>1, <2>3, Moves DEF Fresh
    <3>3. ~result[n].published
      BY <3>1, <3>2 DEF Sound, Current, Published
    <3>4. req[r].score \in Scores /\ req[r].publish \in BOOLEAN /\ req[r].session \in Sessions
      BY <3>1 DEF Sound, Shaped, Records, Req
    <3>5. PICK x : x = [session |-> req[r].session, score |-> req[r].score,
                        published |-> Published(m) \/ req[r].publish]
      OBVIOUS
    <3>6. Published(m) = FALSE
      BY <2>3, <3>3, <1>1 DEF Published, Result
    <3>7. x \in Result
      BY <3>4, <3>5, <3>6 DEF Result
    <3>8. result'[n] = x
      BY <2>1, <2>3, <3>5 DEF IInv
    <3> QED
      BY <3>3, <3>7, <3>8, ExamsAssumption
  <2> QED BY <2>2, <2>3
<1>5. ASSUME NEW r \in Requests, DropSession(r)
      PROVE  result'[n] = result[n]
  <2>1. req[r].at = "unscheduled" /\ Sound(req[r])
    BY <1>5 DEF DropSession, IInv, Requested
  <2>2. n \in Fresh(req[r])
    BY <1>5, <2>1, Moves DEF Fresh, Sound, Shaped, Deletes
  <2>3. result[n].session # req[r].session
    BY <2>1, <2>2 DEF Sound, Current, Deletes
  <2> QED
    BY <1>5, <2>3 DEF DropSession
<1> QED
  BY <1>2, <1>3, <1>4, <1>5
  DEF Next, vars, Nominate, Withdraw, BeginRecord, CheckUnpublished, MarkDone, BeginRoster, TakeOut,
      PutIn, BeginDelete, Unschedule, Die

\* The score of a published result changes only by a recording that began before.
THEOREM PublishedStaysFrozen == Spec => PublishedFrozen
<1>1. IInv /\ [Next]_vars =>
        \A n \in Nominations :
          Published(n) /\ result'[n] # None /\ result'[n].score # result[n].score => StaleStep(n)
  BY ResultOf DEF Published
<1> QED
  BY <1>1, Invariant, PTL DEF Spec, PublishedFrozen

\* A result is erased only by a deletion that began before it was recorded.
THEOREM GradesStay == Spec => GradesKept
<1>1. IInv /\ [Next]_vars =>
        \A n \in Nominations : result[n] # None /\ result'[n] = None => StaleStep(n)
  BY ResultOf
<1> QED
  BY <1>1, Invariant, PTL DEF Spec, GradesKept

\* What the steps that write nominations do to one of them.
LEMMA NomOf ==
  ASSUME IInv, [Next]_vars, NEW n \in Nominations, ~StaleStep(n)
  PROVE  /\ nom[n].session # None /\ nom'[n].session = None => nom'[n].status # "scheduled"
         /\ nom[n].status \in {"done", "withdrawn"} => nom'[n].status = nom[n].status
<1> DEFINE Good == /\ nom[n].session # None /\ nom'[n].session = None => nom'[n].status # "scheduled"
                   /\ nom[n].status \in {"done", "withdrawn"} => nom'[n].status = nom[n].status
<1>0. nom \in [Nominations -> Nom]
  BY DEF IInv, Tables
<1>1. CASE UNCHANGED nom
  BY <1>1
<1>2. CASE Nominate
  BY <1>0, <1>2 DEF Nominate, Nom
<1>3. CASE Withdraw
  BY <1>0, <1>3 DEF Withdraw, Withdrawable, Nom
<1>4. ASSUME NEW r \in Requests, MarkDone(r) PROVE Good
  <2>1. PICK m \in req[r].about :
          nom' = IF MarkedDone(m, req[r].session) THEN [nom EXCEPT ![m].status = "done"] ELSE nom
    BY <1>4 DEF MarkDone
  <2>2. CASE n # m
    BY <1>0, <2>1, <2>2
  <2>3. CASE n = m
    <3>1. req[r].at = "recorded" /\ Sound(req[r])
      BY <1>4 DEF MarkDone, IInv, Requested
    <3>2. n \in Fresh(req[r])
      BY <1>4, <2>1, <2>3, Moves DEF Fresh
    <3>3. nom[n].status \in {"scheduled", "done"}
      BY <3>1, <3>2 DEF Sound, Current, Records
    <3>4. nom'[n].status \in {nom[n].status, "done"} /\ nom'[n].session = nom[n].session
      BY <1>0, <2>1, <2>3 DEF Nom
    <3> QED
      BY <3>3, <3>4
  <2> QED BY <2>2, <2>3
<1>5. ASSUME NEW r \in Requests, TakeOut(r) PROVE Good
  BY <1>0, <1>5 DEF TakeOut, Unscheduled, Nom
<1>6. ASSUME NEW r \in Requests, PutIn(r) PROVE Good
  <2>1. PICK m \in req[r].in :
          nom' = IF nom[m].status = "pending"
                 THEN [nom EXCEPT ![m] = [status |-> "scheduled", session |-> req[r].session]] ELSE nom
    BY <1>6 DEF PutIn
  <2>2. Sound(req[r]) /\ req[r].at # "idle"
    BY <2>1 DEF IInv, Requested, Sound, Shaped
  <2>3. req[r].session # None
    BY <2>2, ExamsAssumption DEF Sound, Shaped
  <2> QED
    BY <1>0, <2>1, <2>3 DEF Nom
<1>7. ASSUME NEW r \in Requests, Unschedule(r) PROVE Good
  BY <1>0, <1>7 DEF Unschedule, LeavesSession, Unscheduled, Nom
<1>8. ASSUME NEW r \in Requests, DropSession(r) PROVE Good
  <2>1. req[r].at = "unscheduled" /\ Sound(req[r])
    BY <1>8 DEF DropSession, IInv, Requested
  <2>2. n \in Fresh(req[r])
    BY <1>8, <2>1, Moves DEF Fresh, Sound, Shaped, Deletes
  <2>3. ~(nom[n].session = req[r].session /\ nom[n].status = "scheduled")
    BY <2>1, <2>2 DEF Sound, Current
  <2>4. nom'[n] = IF n \in In(req[r].session) THEN [nom[n] EXCEPT !.session = None] ELSE nom[n]
    BY <1>8 DEF DropSession, WithoutSession
  <2> QED
    BY <1>0, <2>3, <2>4 DEF In, Nom
<1> HIDE DEF Good
<1>9. Good
  BY <1>1, <1>2, <1>3, <1>4, <1>5, <1>6, <1>7, <1>8
  DEF Next, vars, SetPublished, BeginRecord, CheckUnpublished, Upsert, BeginRoster, BeginDelete, Die, Good
<1> QED
  BY <1>9 DEF Good

\* Nobody is left scheduled in no session, except by a deletion that began before.
THEOREM NobodyStranded == Spec => NoneStranded
<1>1. IInv /\ [Next]_vars =>
        \A n \in Nominations :
          nom[n].session # None /\ nom'[n].session = None /\ nom'[n].status = "scheduled" => StaleStep(n)
  BY NomOf
<1> QED
  BY <1>1, Invariant, PTL DEF Spec, NoneStranded

\* No step at all takes away that a nomination is done.
LEMMA DoneStays ==
  ASSUME IInv, [Next]_vars, NEW n \in Nominations, nom[n].status = "done"
  PROVE  nom'[n].status = "done"
<1>0. nom \in [Nominations -> Nom]
  BY DEF IInv, Tables
<1>1. CASE UNCHANGED nom
  BY <1>1
<1>2. CASE Nominate
  BY <1>0, <1>2 DEF Nominate, Nom
<1>3. CASE Withdraw
  BY <1>0, <1>3 DEF Withdraw, Withdrawable, Nom
<1>4. ASSUME NEW r \in Requests, MarkDone(r) PROVE nom'[n].status = "done"
  <2>1. PICK m \in req[r].about :
          nom' = IF MarkedDone(m, req[r].session) THEN [nom EXCEPT ![m].status = "done"] ELSE nom
    BY <1>4 DEF MarkDone
  <2>2. CASE n # m
    BY <1>0, <2>1, <2>2
  <2>3. CASE n = m
    BY <1>0, <2>1, <2>3 DEF Nom
  <2> QED BY <2>2, <2>3
<1>5. ASSUME NEW r \in Requests, TakeOut(r) PROVE nom'[n].status = "done"
  BY <1>0, <1>5 DEF TakeOut, Nom
<1>6. ASSUME NEW r \in Requests, PutIn(r) PROVE nom'[n].status = "done"
  BY <1>0, <1>6 DEF PutIn, Nom
<1>7. ASSUME NEW r \in Requests, Unschedule(r) PROVE nom'[n].status = "done"
  BY <1>0, <1>7 DEF Unschedule, LeavesSession, Nom
<1>8. ASSUME NEW r \in Requests, DropSession(r) PROVE nom'[n].status = "done"
  <2>1. nom'[n] = IF n \in In(req[r].session) THEN [nom[n] EXCEPT !.session = None] ELSE nom[n]
    BY <1>8 DEF DropSession, WithoutSession
  <2> QED
    BY <1>0, <2>1 DEF Nom
<1> QED
  BY <1>1, <1>2, <1>3, <1>4, <1>5, <1>6, <1>7, <1>8
  DEF Next, vars, SetPublished, BeginRecord, CheckUnpublished, Upsert, BeginRoster, BeginDelete, Die

\* Who is done or withdrawn stays so, except that a recording that began before a
\* withdrawal makes it done.
THEOREM EndsStay == Spec => EndsAreFinal
<1>1. IInv /\ [Next]_vars =>
        \A n \in Nominations :
          /\ nom[n].status = "done" => nom'[n].status = "done"
          /\ nom[n].status = "withdrawn" /\ nom'[n].status # "withdrawn" => StaleStep(n)
  <2> SUFFICES ASSUME IInv, [Next]_vars, NEW n \in Nominations
               PROVE  /\ nom[n].status = "done" => nom'[n].status = "done"
                      /\ nom[n].status = "withdrawn" /\ nom'[n].status # "withdrawn" => StaleStep(n)
    OBVIOUS
  <2>1. nom[n].status = "done" => nom'[n].status = "done"
    BY DoneStays
  <2>2. CASE StaleStep(n)
    BY <2>1, <2>2
  <2>3. CASE ~StaleStep(n)
    BY <2>1, <2>3, NomOf
  <2> QED
    BY <2>2, <2>3
<1> QED
  BY <1>1, Invariant, PTL DEF Spec, EndsAreFinal

=============================================================================
