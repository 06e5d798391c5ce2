---------------------------- MODULE WaOutboxProofs -----------------------------
(***************************************************************************)
(* What holds of the WhatsApp outbox for any number of messages, workers    *)
(* and mosques and for every cap: one automatic call of the provider for a  *)
(* message, the cap of a mosque, and how far the cap of a number can be     *)
(* passed.                                                                  *)
(*                                                                          *)
(* All rest on the lock from the count to the commit: who has counted for   *)
(* a mosque is alone there, and the row he will write is not there yet.  A  *)
(* number is not locked, but those who count for it at one time count for   *)
(* different mosques.                                                       *)
(***************************************************************************)
EXTENDS WaOutbox, FiniteSetTheorems, TLAPS

At(w, pc) == job[w].pc = pc
Held(w) == job[w].pc \in {"claimed", "ready", "answered"}
WillDispatch(w) == At(w, "ready") /\ job[w].by = "dispatch"

\* Who has a message has one; a resend is born of a claim; who has counted is alone for
\* his mosque, and the row he is to write is not there.
Jobs ==
  /\ \A w \in Workers :
       /\ ~At(w, "idle") => job[w].ref \in Refs
       /\ At(w, "swept") \/ At(w, "counted") => job[w].by = "dispatch"
       /\ At(w, "claimed") => job[w].by = "resend"
       /\ At(w, "counted") => row[job[w].ref].status = "none"
  /\ \A v, w \in Workers :
       At(v, "counted") /\ At(w, "counted") /\ MosqueOf[job[v].ref] = MosqueOf[job[w].ref] => v = w

\* A row that a worker holds is there, and if it is skipped its place was given back.
HeldRows ==
  \A w \in Workers : Held(w) =>
    /\ row[job[w].ref].status # "none"
    /\ row[job[w].ref].status = "skipped" => row[job[w].ref].waived

\* Before the one automatic call there was none.
Calls ==
  /\ \A r \in Refs : auto[r] <= 1 /\ (row[r].status = "none" => auto[r] = 0)
  /\ \A w \in Workers : WillDispatch(w) => auto[job[w].ref] = 0
  /\ \A v, w \in Workers : WillDispatch(v) /\ WillDispatch(w) /\ job[v].ref = job[w].ref => v = w

CountsToday(r) == row[r].status \notin {"none", "skipped"} /\ row[r].today /\ ~row[r].waived

Taken(m) == {r \in Refs : MosqueOf[r] = m /\ CountsToday(r)}

WillTake(w) == At(w, "counted") /\ job[w].verdict = "queued" /\ job[w].today

\* Who is about to take a place has found one.
Places ==
  /\ \A r \in Refs : Cardinality(Taken(MosqueOf[r])) <= MosqueCap
  /\ \A w \in Workers, r \in Refs :
       WillTake(w) /\ job[w].ref = r => Cardinality(Taken(MosqueOf[r])) < MosqueCap

\* What a number is charged with on one day, with what is about to be.
TakenOn(p) == {r \in Refs : PhoneOf[r] = p /\ CountsToday(r)}

DueOn(p) ==
  {r \in Refs : PhoneOf[r] = p /\ (CountsToday(r) \/ \E w \in Workers : WillTake(w) /\ job[w].ref = r)}

\* The mosques that write to a number.
MosquesOn(p) == {MosqueOf[r] : r \in {q \in Refs : PhoneOf[q] = p}}

\* Each mosque has one at most who counts, and the last to count saw a number below its
\* cap: the others' rows, one for each further mosque, are all he may have missed.
Numbers == \A r \in Refs : Cardinality(DueOn(PhoneOf[r])) < PhoneCap + Cardinality(MosquesOn(PhoneOf[r]))

OutboxInv == TypeOK /\ Jobs /\ HeldRows /\ Calls /\ Places /\ Numbers

-----------------------------------------------------------------------------
(* Places under the cap                                                     *)

\* The places taken can be counted.
LEMMA TakenFinite == \A m : IsFiniteSet(Taken(m)) /\ Cardinality(Taken(m)) \in Nat
<1> TAKE m
<1>1. Taken(m) \subseteq Refs /\ IsFiniteSet(Refs)
  BY OutboxConstants DEF Taken
<1>2. IsFiniteSet(Taken(m))
  BY <1>1, FS_Subset
<1> QED
  BY <1>2, FS_CardinalityType

\* Where no row begins to count and nobody newly takes a place, the cap stays kept.
LEMMA NoPlaceTaken ==
  ASSUME Places, \A r \in Refs : CountsToday(r)' => CountsToday(r),
         \A w \in Workers, r \in Refs :
           WillTake(w)' /\ job'[w].ref = r => Cardinality(Taken(MosqueOf[r])) < MosqueCap
  PROVE  Places'
<1>1. ASSUME NEW r \in Refs
      PROVE  /\ Cardinality(Taken(MosqueOf[r]))' <= Cardinality(Taken(MosqueOf[r]))
             /\ Cardinality(Taken(MosqueOf[r]))' \in Nat /\ Cardinality(Taken(MosqueOf[r])) \in Nat
  <2> PICK S, T : S = Taken(MosqueOf[r])' /\ T = Taken(MosqueOf[r])
    OBVIOUS
  <2>1. S \subseteq T
    BY DEF Taken
  <2>2. IsFiniteSet(T) /\ Cardinality(T) \in Nat
    BY TakenFinite
  <2>3. IsFiniteSet(S) /\ Cardinality(S) <= Cardinality(T)
    BY <2>1, <2>2, FS_Subset
  <2>4. Cardinality(S) \in Nat
    BY <2>3, FS_CardinalityType
  <2> QED
    BY <2>2, <2>3, <2>4
<1>2. MosqueCap \in Nat
  BY OutboxConstants
<1>3. \A r \in Refs : Cardinality(Taken(MosqueOf[r]))' <= MosqueCap
  BY <1>1, <1>2 DEF Places
<1>4. \A w \in Workers, r \in Refs :
        WillTake(w)' /\ job'[w].ref = r => Cardinality(Taken(MosqueOf[r]))' < MosqueCap
  BY <1>1, <1>2
<1> QED
  BY <1>3, <1>4 DEF Places

-----------------------------------------------------------------------------
(* A number                                                                 *)

\* What a number is charged with and the mosques that write to it can be counted; a
\* number that a message goes to has a mosque.
LEMMA NumberFinite ==
  ASSUME NEW r \in Refs
  PROVE  /\ IsFiniteSet(TakenOn(PhoneOf[r])) /\ IsFiniteSet(DueOn(PhoneOf[r]))
         /\ Cardinality(TakenOn(PhoneOf[r])) \in Nat /\ Cardinality(DueOn(PhoneOf[r])) \in Nat
         /\ IsFiniteSet(MosquesOn(PhoneOf[r])) /\ Cardinality(MosquesOn(PhoneOf[r])) \in Nat \ {0}
<1>1. PICK S, T, Q : /\ S = TakenOn(PhoneOf[r]) /\ T = DueOn(PhoneOf[r])
                     /\ Q = {q \in Refs : PhoneOf[q] = PhoneOf[r]}
  OBVIOUS
<1>2. S \subseteq Refs /\ T \subseteq Refs /\ Q \subseteq Refs /\ r \in Q
  BY <1>1 DEF TakenOn, DueOn
<1>3. IsFiniteSet(S) /\ IsFiniteSet(T) /\ IsFiniteSet(Q)
  BY <1>2, OutboxConstants, FS_Subset
<1>4. PICK M : M = MosquesOn(PhoneOf[r])
  OBVIOUS
<1>5. M = {MosqueOf[q] : q \in Q} /\ M # {}
  BY <1>1, <1>2, <1>4 DEF MosquesOn
<1>6. IsFiniteSet(M)
  <2>1. \A y \in M : \E q \in Q : [x \in Q |-> MosqueOf[x]][q] = y
    BY <1>5
  <2>2. [x \in Q |-> MosqueOf[x]] \in Surjection(Q, M)
    BY <1>5, <2>1 DEF Surjection
  <2> QED
    BY <1>3, <2>2, FS_Surjection
<1>7. Cardinality(M) \in Nat /\ Cardinality(M) # 0
  BY <1>5, <1>6, FS_CardinalityType, FS_EmptySet
<1> QED
  BY <1>1, <1>3, <1>4, <1>6, <1>7, FS_CardinalityType

\* Where a number is due no more than before, its bound stays.
LEMMA NumberKept ==
  ASSUME Numbers, NEW r \in Refs, DueOn(PhoneOf[r])' \subseteq DueOn(PhoneOf[r])
  PROVE  Cardinality(DueOn(PhoneOf[r])') < PhoneCap + Cardinality(MosquesOn(PhoneOf[r]))
<1>1. PICK S, T, M : S = DueOn(PhoneOf[r])' /\ T = DueOn(PhoneOf[r]) /\ M = MosquesOn(PhoneOf[r])
  OBVIOUS
<1>2. /\ IsFiniteSet(T) /\ S \subseteq T /\ Cardinality(T) \in Nat /\ Cardinality(M) \in Nat
      /\ Cardinality(T) < PhoneCap + Cardinality(M)
  BY <1>1, NumberFinite DEF Numbers
<1>3. IsFiniteSet(S) /\ Cardinality(S) <= Cardinality(T)
  BY <1>2, FS_Subset
<1>4. Cardinality(S) \in Nat /\ PhoneCap \in Nat
  BY <1>3, FS_CardinalityType, OutboxConstants
<1> QED
  BY <1>1, <1>2, <1>3, <1>4

\* Who counts saw less than the cap; those who are about to write count for different
\* mosques.
LEMMA NumberCounted ==
  ASSUME NEW r \in Refs, Jobs', Cardinality(TakenOn(PhoneOf[r])) < PhoneCap,
         \A q \in Refs : CountsToday(q)' => CountsToday(q)
  PROVE  Cardinality(DueOn(PhoneOf[r])') < PhoneCap + Cardinality(MosquesOn(PhoneOf[r]))
<1>1. PICK S, T, M, P :
        /\ S = DueOn(PhoneOf[r])' /\ T = TakenOn(PhoneOf[r]) /\ M = MosquesOn(PhoneOf[r])
        /\ P = {q \in Refs : PhoneOf[q] = PhoneOf[r] /\ \E w \in Workers : WillTake(w)' /\ job'[w].ref = q}
  OBVIOUS
<1>2. /\ IsFiniteSet(T) /\ IsFiniteSet(M) /\ Cardinality(T) \in Nat /\ Cardinality(M) \in Nat
      /\ Cardinality(T) < PhoneCap
  BY <1>1, NumberFinite
<1>3. S \subseteq T \union P
  BY <1>1 DEF DueOn, TakenOn
<1>4. \A p, q \in P : MosqueOf[p] = MosqueOf[q] => p = q
  <2> SUFFICES ASSUME NEW p \in P, NEW q \in P, MosqueOf[p] = MosqueOf[q] PROVE p = q
    OBVIOUS
  <2>1. PICK v \in Workers : WillTake(v)' /\ job'[v].ref = p
    BY <1>1
  <2>2. PICK w \in Workers : WillTake(w)' /\ job'[w].ref = q
    BY <1>1
  <2>3. At(v, "counted")' /\ At(w, "counted")' /\ MosqueOf[job'[v].ref] = MosqueOf[job'[w].ref]
    BY <2>1, <2>2 DEF WillTake
  <2>4. v = w
    BY <2>3 DEF Jobs
  <2> QED
    BY <2>1, <2>2, <2>4
<1>5. [q \in P |-> MosqueOf[q]] \in Injection(P, M)
  <2>1. \A q \in P : MosqueOf[q] \in M
    BY <1>1 DEF MosquesOn
  <2>2. [q \in P |-> MosqueOf[q]] \in [P -> M]
    BY <2>1
  <2> QED
    BY <1>4, <2>2 DEF Injection, IsInjective
<1>6. IsFiniteSet(P) /\ Cardinality(P) <= Cardinality(M)
  BY <1>2, <1>5, FS_Injection
<1>7. IsFiniteSet(T \union P) /\ Cardinality(T \union P) <= Cardinality(T) + Cardinality(P)
  <2>1. /\ IsFiniteSet(T \union P)
        /\ Cardinality(T \union P) = Cardinality(T) + Cardinality(P) - Cardinality(T \intersect P)
    BY <1>2, <1>6, FS_Union
  <2>2. IsFiniteSet(T \intersect P)
    BY <1>2, FS_Subset
  <2>3. Cardinality(T \intersect P) \in Nat /\ Cardinality(P) \in Nat
    BY <1>6, <2>2, FS_CardinalityType
  <2> QED
    BY <1>2, <2>1, <2>3
<1>8. Cardinality(S) <= Cardinality(T \union P) /\ IsFiniteSet(S)
  BY <1>3, <1>7, FS_Subset
<1>9. /\ Cardinality(S) \in Nat /\ Cardinality(P) \in Nat /\ Cardinality(T \union P) \in Nat
      /\ PhoneCap \in Nat
  BY <1>6, <1>7, <1>8, FS_CardinalityType, OutboxConstants
<1> QED
  BY <1>1, <1>2, <1>6, <1>7, <1>8, <1>9

-----------------------------------------------------------------------------
(* Steps that write no new row                                              *)

\* A worker that others' steps, and the hours, leave where it is.
Same(v) ==
  /\ job'[v].pc = job[v].pc /\ job'[v].by = job[v].by /\ job'[v].ref = job[v].ref
  /\ job'[v].verdict = job[v].verdict /\ (job'[v].today => job[v].today)

\* The one that moves: where it may arrive.
Moved(v) ==
  /\ ~At(v, "idle")' => job'[v].ref \in Refs
  /\ At(v, "swept")' \/ At(v, "counted")' => job'[v].by = "dispatch"
  /\ At(v, "claimed")' => job'[v].by = "resend"
  /\ ~WillDispatch(v)'
  /\ At(v, "counted")' =>
       /\ row[job'[v].ref].status = "none"
       /\ \A u \in Workers : At(u, "counted") => MosqueOf[job[u].ref] # MosqueOf[job'[v].ref]
  /\ Held(v)' => /\ row'[job'[v].ref].status # "none"
                 /\ row'[job'[v].ref].status = "skipped" => row'[job'[v].ref].waived
  /\ \A r \in Refs : WillTake(v)' /\ job'[v].ref = r =>
       /\ Cardinality(Taken(MosqueOf[r])) < MosqueCap
       /\ Cardinality(TakenOn(PhoneOf[r])) < PhoneCap

\* No row comes to be, none begins to count, and none is skipped with its place taken.
RowsKept ==
  \A r \in Refs :
    /\ (row'[r].status = "none") = (row[r].status = "none")
    /\ row'[r].status = "skipped" /\ (row[r].status = "skipped" => row[r].waived) => row'[r].waived
    /\ CountsToday(r)' => CountsToday(r)

\* The provider is called by one who was to dispatch, and is not any more.
CallsKept ==
  \A r \in Refs :
    \/ auto'[r] = auto[r]
    \/ auto'[r] = 1 /\ \E v \in Workers : WillDispatch(v) /\ ~WillDispatch(v)' /\ job[v].ref = r

\* Such a step keeps the invariant.
LEMMA KeptStep ==
  ASSUME OutboxInv, TypeOK', RowsKept, CallsKept,
         \A v \in Workers : Same(v) \/ Moved(v),
         \A u, v \in Workers : ~Same(u) /\ ~Same(v) => u = v
  PROVE  OutboxInv'
<1>1. Jobs'
  <2>1. \A w \in Workers :
          /\ ~At(w, "idle")' => job'[w].ref \in Refs
          /\ At(w, "swept")' \/ At(w, "counted")' => job'[w].by = "dispatch"
          /\ At(w, "claimed")' => job'[w].by = "resend"
    BY DEF OutboxInv, Jobs, Same, Moved, At
  <2>2. \A w \in Workers : At(w, "counted")' => row'[job'[w].ref].status = "none"
    BY <2>1 DEF OutboxInv, Jobs, Same, Moved, At, RowsKept
  <2>3. ASSUME NEW v \in Workers, NEW w \in Workers,
               At(v, "counted")', At(w, "counted")', MosqueOf[job'[v].ref] = MosqueOf[job'[w].ref]
        PROVE  v = w
    <3>1. CASE Same(v) /\ Same(w)
      BY <2>3, <3>1 DEF OutboxInv, Jobs, Same, At
    <3>2. CASE Same(v) /\ ~Same(w)
      BY <2>3, <3>2 DEF Same, Moved, At
    <3>3. CASE Same(w) /\ ~Same(v)
      BY <2>3, <3>3 DEF Same, Moved, At
    <3> QED
      BY <3>1, <3>2, <3>3
  <2> QED
    BY <2>1, <2>2, <2>3 DEF Jobs
<1>2. HeldRows'
  <2> SUFFICES ASSUME NEW w \in Workers, Held(w)'
               PROVE  /\ row'[job'[w].ref].status # "none"
                      /\ row'[job'[w].ref].status = "skipped" => row'[job'[w].ref].waived
    BY DEF HeldRows
  <2>1. CASE Moved(w)
    BY <2>1 DEF Moved
  <2>2. CASE Same(w)
    <3>1. Held(w) /\ job'[w].ref = job[w].ref /\ job[w].ref \in Refs
      BY <2>2 DEF OutboxInv, Jobs, Same, Held, At
    <3>2. /\ row[job[w].ref].status # "none"
          /\ row[job[w].ref].status = "skipped" => row[job[w].ref].waived
      BY <3>1 DEF OutboxInv, HeldRows
    <3> QED
      BY <3>1, <3>2 DEF RowsKept
  <2> QED
    BY <2>1, <2>2
<1>3. Calls'
  <2>1. \A v \in Workers : WillDispatch(v)' =>
          WillDispatch(v) /\ job'[v].ref = job[v].ref /\ job[v].ref \in Refs
    BY DEF OutboxInv, Jobs, Same, Moved, WillDispatch, At
  <2>2. \A v \in Workers : WillDispatch(v) => row[job[v].ref].status # "none"
    BY DEF OutboxInv, HeldRows, WillDispatch, Held, At
  <2>3. \A r \in Refs : auto'[r] <= 1 /\ (row'[r].status = "none" => auto'[r] = 0)
    BY <2>2 DEF OutboxInv, Calls, CallsKept, RowsKept
  <2>4. \A w \in Workers : WillDispatch(w)' => auto'[job'[w].ref] = 0
    BY <2>1 DEF OutboxInv, Calls, CallsKept
  <2>5. \A v, w \in Workers : WillDispatch(v)' /\ WillDispatch(w)' /\ job'[v].ref = job'[w].ref => v = w
    BY <2>1 DEF OutboxInv, Calls
  <2> QED
    BY <2>3, <2>4, <2>5 DEF Calls
<1>4. Places'
  <2>1. \A r \in Refs : CountsToday(r)' => CountsToday(r)
    BY DEF RowsKept
  <2>2. \A w \in Workers, r \in Refs :
          WillTake(w)' /\ job'[w].ref = r => Cardinality(Taken(MosqueOf[r])) < MosqueCap
    BY DEF OutboxInv, Places, Same, Moved, WillTake, At
  <2> QED
    BY <2>1, <2>2, NoPlaceTaken DEF OutboxInv
<1>5. Numbers'
  <2> SUFFICES ASSUME NEW r \in Refs
               PROVE  Cardinality(DueOn(PhoneOf[r])') < PhoneCap + Cardinality(MosquesOn(PhoneOf[r]))
    BY DEF Numbers, MosquesOn
  <2>1. \A q \in Refs : CountsToday(q)' => CountsToday(q)
    BY DEF RowsKept
  <2>2. ASSUME NEW v \in Workers, Moved(v), WillTake(v)', PhoneOf[job'[v].ref] = PhoneOf[r]
        PROVE  Cardinality(TakenOn(PhoneOf[r])) < PhoneCap
    <3>1. job'[v].ref \in Refs
      BY <2>2 DEF Moved, WillTake, At
    <3> QED
      BY <2>2, <3>1 DEF Moved
  <2>3. CASE \E v \in Workers : Moved(v) /\ WillTake(v)' /\ PhoneOf[job'[v].ref] = PhoneOf[r]
    BY <1>1, <2>1, <2>2, <2>3, NumberCounted
  <2>4. CASE \A v \in Workers : WillTake(v)' /\ PhoneOf[job'[v].ref] = PhoneOf[r] => Same(v)
    <3>1. \A v \in Workers :
            WillTake(v)' /\ PhoneOf[job'[v].ref] = PhoneOf[r] => WillTake(v) /\ job'[v].ref = job[v].ref
      BY <2>4 DEF Same, WillTake, At
    <3>2. DueOn(PhoneOf[r])' \subseteq DueOn(PhoneOf[r])
      BY <2>1, <3>1 DEF DueOn
    <3> QED
      BY <3>2, NumberKept DEF OutboxInv
  <2> QED
    BY <2>3, <2>4
<1> QED
  BY <1>1, <1>2, <1>3, <1>4, <1>5 DEF OutboxInv

\* What a worker is given, and the others are as they were.
LEMMA OneJob ==
  ASSUME TypeOK, NEW w \in Workers, NEW q, q \in Job, job' = [job EXCEPT ![w] = q]
  PROVE  /\ job' \in [Workers -> Job] /\ job'[w] = q
         /\ \A v \in Workers : v # w => Same(v)
         /\ \A u, v \in Workers : ~Same(u) /\ ~Same(v) => u = v
  BY DEF TypeOK, Same

\* Nobody's work.
LEMMA IdleTyped == Idle \in Job /\ Idle.pc = "idle"
  BY DEF Idle, Job

\* The sweep fails what is stale and touches nothing else.
LEMMA SweptKeeps ==
  ASSUME TypeOK, row' = row \/ row' = Swept
  PROVE  row' \in [Refs -> OutboxRow] /\ RowsKept
<1>1. CASE row' = row
  BY <1>1 DEF TypeOK, RowsKept, CountsToday
<1>2. CASE row' = Swept
  <2>1. ASSUME NEW r \in Refs
        PROVE  /\ row'[r] \in OutboxRow
               /\ row'[r].today = row[r].today /\ row'[r].waived = row[r].waived
               /\ row'[r].status = row[r].status \/ (row[r].status = "queued" /\ row'[r].status = "failed")
    <3> PICK x \in OutboxRow : x = row[r]
      BY DEF TypeOK
    <3> PICK y : y = [x EXCEPT !.status = "failed"]
      OBVIOUS
    <3>1. /\ y \in OutboxRow /\ y.today = x.today /\ y.waived = x.waived /\ y.status = "failed"
      BY DEF OutboxRow
    <3>2. row'[r] = IF Stale(x) THEN y ELSE x
      BY <1>2 DEF Swept
    <3> QED
      BY <3>1, <3>2 DEF Stale
  <2>2. row' \in [Refs -> OutboxRow]
    BY <1>2, <2>1 DEF Swept
  <2> QED
    BY <2>1, <2>2 DEF RowsKept, CountsToday
<1> QED
  BY <1>1, <1>2

\* The board sweeps; a dispatch may sweep, and its worker has a message.
LEMMA SweepInv ==
  ASSUME OutboxInv, OpenBoard \/ \E w \in Workers, r \in Refs : StartDispatch(w, r)
  PROVE  OutboxInv'
<1>1. (row' = row \/ row' = Swept) /\ UNCHANGED auto
  BY DEF OpenBoard, StartDispatch
<1>2. row' \in [Refs -> OutboxRow] /\ RowsKept /\ CallsKept
  BY <1>1, SweptKeeps DEF OutboxInv, CallsKept
<1>3. CASE OpenBoard
  <2>1. job' = job /\ \A v \in Workers : Same(v)
    BY <1>3 DEF OpenBoard, Same
  <2>2. TypeOK'
    BY <1>1, <1>2, <2>1 DEF OutboxInv, TypeOK
  <2> QED
    BY <1>2, <2>1, <2>2, KeptStep
<1>4. ASSUME NEW w \in Workers, NEW r \in Refs, StartDispatch(w, r) PROVE OutboxInv'
  <2> PICK q : q = [Idle EXCEPT !.pc = "swept", !.ref = r]
    OBVIOUS
  <2>1. q \in Job /\ q.pc = "swept" /\ q.ref = r /\ q.by = "dispatch"
    BY DEF Idle, Job
  <2>2. job' = [job EXCEPT ![w] = q]
    BY <1>4 DEF StartDispatch
  <2>3. /\ job' \in [Workers -> Job] /\ job'[w] = q
        /\ \A v \in Workers : v # w => Same(v)
        /\ \A u, v \in Workers : ~Same(u) /\ ~Same(v) => u = v
    BY <2>1, <2>2, OneJob DEF OutboxInv
  <2>4. Moved(w)
    BY <2>1, <2>3 DEF Moved, At, Held, WillDispatch, WillTake
  <2>5. TypeOK'
    BY <1>1, <1>2, <2>3 DEF OutboxInv, TypeOK
  <2> QED
    BY <1>2, <2>3, <2>4, <2>5, KeptStep
<1> QED
  BY <1>3, <1>4

\* Rows that stay as they are.
LEMMA UnchangedKeeps == ASSUME UNCHANGED <<row, auto>> PROVE RowsKept /\ CallsKept
  BY DEF RowsKept, CallsKept, CountsToday

\* The verdict leaves a place for a message that is queued, with its mosque and its number.
LEMMA VerdictFindsPlace ==
  ASSUME NEW r \in Refs, Verdict(r) = "queued"
  PROVE  /\ Cardinality(Taken(MosqueOf[r])) < MosqueCap
         /\ Cardinality(TakenOn(PhoneOf[r])) < PhoneCap
<1>1. ASSUME NEW S, NEW T, NEW cap \in Nat, ~(Cardinality(S) >= cap), T \subseteq S, S \subseteq Refs
      PROVE  Cardinality(T) < cap
  <2>1. IsFiniteSet(S)
    BY <1>1, OutboxConstants, FS_Subset
  <2>2. Cardinality(T) <= Cardinality(S) /\ IsFiniteSet(T)
    BY <1>1, <2>1, FS_Subset
  <2>3. Cardinality(S) \in Nat /\ Cardinality(T) \in Nat
    BY <2>1, <2>2, FS_CardinalityType
  <2> QED
    BY <1>1, <2>2, <2>3
<1>2. Cardinality(Taken(MosqueOf[r])) < MosqueCap
  <2>1. PICK S, T :
          /\ S = {q \in {q \in Refs : MosqueOf[q] = MosqueOf[r]} :
                    row[q].status \notin {"none", "skipped"} /\ row[q].today}
          /\ T = Taken(MosqueOf[r])
    OBVIOUS
  <2>2. ~(Cardinality(S) >= MosqueCap) /\ MosqueCap \in Nat
    BY <2>1, OutboxConstants DEF Verdict, ChargedToMosque, Charged
  <2>3. T \subseteq S /\ S \subseteq Refs
    BY <2>1 DEF Taken, CountsToday
  <2> QED
    BY <1>1, <2>1, <2>2, <2>3
<1>3. Cardinality(TakenOn(PhoneOf[r])) < PhoneCap
  <2>1. PICK S, T :
          /\ S = {q \in {q \in Refs : PhoneOf[q] = PhoneOf[r]} :
                    row[q].status \notin {"none", "skipped"} /\ row[q].today}
          /\ T = TakenOn(PhoneOf[r])
    OBVIOUS
  <2>2. ~(Cardinality(S) >= PhoneCap) /\ PhoneCap \in Nat
    BY <2>1, OutboxConstants DEF Verdict, ChargedToPhone, Charged
  <2>3. T \subseteq S /\ S \subseteq Refs
    BY <2>1 DEF TakenOn, CountsToday
  <2> QED
    BY <1>1, <2>1, <2>2, <2>3
<1> QED
  BY <1>2, <1>3

\* Who counts is alone for his mosque, and finds the place he will take.
LEMMA CountInv == ASSUME OutboxInv, NEW w \in Workers, Count(w) PROVE OutboxInv'
<1> PICK x \in Job : x = job[w]
  BY DEF OutboxInv, TypeOK
<1>1. /\ At(w, "swept") /\ ~MosqueLocked(MosqueOf[x.ref]) /\ row[x.ref].status = "none"
      /\ UNCHANGED <<row, auto>>
  BY DEF Count, At, Known
<1>2. x.ref \in Refs /\ x.by = "dispatch"
  BY <1>1 DEF OutboxInv, Jobs, At
<1>3. PICK verdict \in {"queued", "skipped"} : verdict = Verdict(x.ref)
  BY DEF Verdict
<1> PICK q : q = [x EXCEPT !.pc = "counted", !.today = TRUE, !.verdict = verdict]
  OBVIOUS
<1>4. /\ q \in Job /\ q.pc = "counted" /\ q.ref = x.ref /\ q.by = "dispatch" /\ q.verdict = verdict
  BY <1>2 DEF Job
<1>5. job' = [job EXCEPT ![w] = q]
  BY <1>3 DEF Count, OutboxInv, TypeOK
<1>6. /\ job' \in [Workers -> Job] /\ job'[w] = q
      /\ \A v \in Workers : v # w => Same(v)
      /\ \A u, v \in Workers : ~Same(u) /\ ~Same(v) => u = v
  BY <1>4, <1>5, OneJob DEF OutboxInv
<1>7. \A u \in Workers : At(u, "counted") => MosqueOf[job[u].ref] # MosqueOf[x.ref]
  BY <1>1 DEF MosqueLocked, At
<1>8. verdict = "queued" => /\ Cardinality(Taken(MosqueOf[x.ref])) < MosqueCap
                            /\ Cardinality(TakenOn(PhoneOf[x.ref])) < PhoneCap
  BY <1>2, <1>3, VerdictFindsPlace
<1>9. Moved(w)
  BY <1>1, <1>2, <1>4, <1>6, <1>7, <1>8 DEF Moved, At, Held, WillDispatch, WillTake
<1>10. TypeOK'
  BY <1>1, <1>6 DEF OutboxInv, TypeOK
<1> QED
  BY <1>1, <1>6, <1>9, <1>10, UnchangedKeeps, KeptStep

\* A worker ends without writing.
LEMMA EndInv == ASSUME OutboxInv, NEW w \in Workers, Dedupe(w) \/ Die(w) PROVE OutboxInv'
<1>1. job' = [job EXCEPT ![w] = Idle] /\ UNCHANGED <<row, auto>>
  BY DEF Dedupe, Die, Finish
<1>2. /\ job' \in [Workers -> Job] /\ job'[w] = Idle
      /\ \A v \in Workers : v # w => Same(v)
      /\ \A u, v \in Workers : ~Same(u) /\ ~Same(v) => u = v
  BY <1>1, IdleTyped, OneJob DEF OutboxInv
<1>3. Moved(w)
  BY <1>2, IdleTyped DEF Moved, At, Held, WillDispatch, WillTake
<1>4. TypeOK'
  BY <1>1, <1>2 DEF OutboxInv, TypeOK
<1> QED
  BY <1>1, <1>2, <1>3, <1>4, UnchangedKeeps, KeptStep

\* The provider is called; a resend looks again whether it may.
LEMMA SendInv == ASSUME OutboxInv, NEW w \in Workers, Send(w) \/ Recheck(w) PROVE OutboxInv'
<1> PICK x \in Job : x = job[w]
  BY DEF OutboxInv, TypeOK
<1>1. Held(w) /\ x.ref \in Refs /\ UNCHANGED row
  BY DEF Send, Recheck, Held, OutboxInv, Jobs, At
<1>2. /\ row[x.ref].status # "none"
      /\ row[x.ref].status = "skipped" => row[x.ref].waived
  BY <1>1 DEF OutboxInv, HeldRows
<1>3. PICK q : /\ job' = [job EXCEPT ![w] = q] /\ q \in Job /\ q.ref = x.ref /\ q.by = x.by
               /\ q.pc = "answered" \/ (q.pc = "ready" /\ q.by = "resend")
  <2>1. ASSUME NEW result \in {"ok", "error", "skipped"},
               job' = [job EXCEPT ![w].pc = "answered", ![w].result = result]
        PROVE  \E q : /\ job' = [job EXCEPT ![w] = q] /\ q \in Job /\ q.ref = x.ref /\ q.by = x.by
                      /\ q.pc = "answered" \/ (q.pc = "ready" /\ q.by = "resend")
    <3> PICK q : q = [x EXCEPT !.pc = "answered", !.result = result]
      OBVIOUS
    <3>1. q \in Job /\ q.pc = "answered" /\ q.ref = x.ref /\ q.by = x.by
      BY DEF Job
    <3>2. job' = [job EXCEPT ![w] = q]
      BY <2>1 DEF OutboxInv, TypeOK
    <3> QED
      BY <3>1, <3>2
  <2>2. ASSUME Recheck(w), Goto(w, "ready")
        PROVE  \E q : /\ job' = [job EXCEPT ![w] = q] /\ q \in Job /\ q.ref = x.ref /\ q.by = x.by
                      /\ q.pc = "answered" \/ (q.pc = "ready" /\ q.by = "resend")
    <3> PICK q : q = [x EXCEPT !.pc = "ready"]
      OBVIOUS
    <3>1. q \in Job /\ q.pc = "ready" /\ q.ref = x.ref /\ q.by = x.by
      BY DEF Job
    <3>2. job' = [job EXCEPT ![w] = q] /\ x.by = "resend"
      BY <2>2 DEF Recheck, Goto, OutboxInv, TypeOK, Jobs, At
    <3> QED
      BY <3>1, <3>2
  <2> QED
    BY <2>1, <2>2 DEF Send, Recheck
<1>4. /\ job' \in [Workers -> Job] /\ job'[w] = q
      /\ \A v \in Workers : v # w => Same(v)
      /\ \A u, v \in Workers : ~Same(u) /\ ~Same(v) => u = v
  BY <1>3, OneJob DEF OutboxInv
<1>5. Moved(w)
  BY <1>1, <1>2, <1>3, <1>4 DEF Moved, At, Held, WillDispatch, WillTake
<1>6. auto' \in [Refs -> 0..ManyCalls] /\ CallsKept
  <2>1. CASE UNCHANGED auto
    BY <2>1 DEF CallsKept, OutboxInv, TypeOK
  <2>2. CASE ~UNCHANGED auto
    <3>1. WillDispatch(w) /\ auto' = [auto EXCEPT ![x.ref] = auto[x.ref] + 1]
      BY <2>2 DEF Send, Recheck, WillDispatch, At
    <3>2. auto[x.ref] = 0
      BY <3>1 DEF OutboxInv, Calls
    <3>3. auto' = [auto EXCEPT ![x.ref] = 1]
      BY <3>1, <3>2
    <3>4. ~WillDispatch(w)'
      BY <1>3, <1>4 DEF WillDispatch, At
    <3> QED
      BY <1>1, <3>1, <3>3, <3>4 DEF CallsKept, OutboxInv, TypeOK, ManyCalls
  <2> QED
    BY <2>1, <2>2
<1>7. TypeOK'
  BY <1>1, <1>4, <1>6 DEF OutboxInv, TypeOK
<1>8. RowsKept
  BY <1>1 DEF RowsKept, CountsToday
<1> QED
  BY <1>4, <1>5, <1>6, <1>7, <1>8, KeptStep

\* What the provider answered is written to the row.
LEMMA MarkInv == ASSUME OutboxInv, NEW w \in Workers, Mark(w) PROVE OutboxInv'
<1> PICK x \in Job : x = job[w]
  BY DEF OutboxInv, TypeOK
<1>1. At(w, "answered") /\ Held(w) /\ x.ref \in Refs
  BY DEF Mark, Held, OutboxInv, Jobs, At
<1>2. PICK y \in OutboxRow : y = row[x.ref]
  BY <1>1 DEF OutboxInv, TypeOK
<1>3. y.status # "none" /\ (y.status = "skipped" => y.waived)
  BY <1>1, <1>2 DEF OutboxInv, HeldRows
<1>4. PICK z : z = Marked(y, x.result)
  OBVIOUS
<1>5. /\ z \in OutboxRow /\ z.today = y.today /\ z.status \in {"sent", "failed", "skipped"}
      /\ z.waived = (y.waived \/ x.result = "skipped")
      /\ z.status = "skipped" => x.result = "skipped"
  BY <1>4 DEF Marked, OutboxRow, Job
<1>6. row' = [row EXCEPT ![x.ref] = z] /\ job' = [job EXCEPT ![w] = Idle] /\ UNCHANGED auto
  BY <1>2, <1>4 DEF Mark, Finish
<1>7. /\ job' \in [Workers -> Job] /\ job'[w] = Idle
      /\ \A v \in Workers : v # w => Same(v)
      /\ \A u, v \in Workers : ~Same(u) /\ ~Same(v) => u = v
  BY <1>6, IdleTyped, OneJob DEF OutboxInv
<1>8. Moved(w)
  BY <1>7, IdleTyped DEF Moved, At, Held, WillDispatch, WillTake
<1>9. TypeOK'
  BY <1>5, <1>6, <1>7 DEF OutboxInv, TypeOK
<1>10. row'[x.ref] = z /\ \A r \in Refs : r # x.ref => row'[r] = row[r]
  BY <1>1, <1>6 DEF OutboxInv, TypeOK
<1>11. RowsKept
  BY <1>1, <1>2, <1>3, <1>5, <1>10 DEF RowsKept, CountsToday
<1>12. CallsKept
  BY <1>6 DEF CallsKept
<1> QED
  BY <1>7, <1>8, <1>9, <1>11, <1>12, KeptStep

\* A click claims the row it sends again.
LEMMA ClaimResendInv ==
  ASSUME OutboxInv, NEW w \in Workers, NEW r \in Refs, ClaimResend(w, r) PROVE OutboxInv'
<1>1. PICK y \in OutboxRow : y = row[r]
  BY DEF OutboxInv, TypeOK
<1>2. y.status \in {"failed", "queued"}
  BY <1>1 DEF ClaimResend, Claimable
<1>3. PICK z : z = [y EXCEPT !.status = "queued"]
  OBVIOUS
<1>4. z \in OutboxRow /\ z.today = y.today /\ z.waived = y.waived /\ z.status = "queued"
  BY <1>3 DEF OutboxRow
<1>5. PICK q : q = [Idle EXCEPT !.pc = "claimed", !.by = "resend", !.ref = r]
  OBVIOUS
<1>6. q \in Job /\ q.pc = "claimed" /\ q.by = "resend" /\ q.ref = r
  BY <1>5 DEF Idle, Job
<1>7. row' = [row EXCEPT ![r] = z] /\ job' = [job EXCEPT ![w] = q] /\ UNCHANGED auto
  BY <1>1, <1>3, <1>5 DEF ClaimResend, OutboxInv, TypeOK
<1>8. /\ job' \in [Workers -> Job] /\ job'[w] = q
      /\ \A v \in Workers : v # w => Same(v)
      /\ \A u, v \in Workers : ~Same(u) /\ ~Same(v) => u = v
  BY <1>6, <1>7, OneJob DEF OutboxInv
<1>9. row'[r] = z /\ \A p \in Refs : p # r => row'[p] = row[p]
  BY <1>7 DEF OutboxInv, TypeOK
<1>10. Moved(w)
  BY <1>4, <1>6, <1>8, <1>9 DEF Moved, At, Held, WillDispatch, WillTake
<1>11. TypeOK'
  BY <1>4, <1>7, <1>8 DEF OutboxInv, TypeOK
<1>12. RowsKept
  BY <1>1, <1>2, <1>4, <1>9 DEF RowsKept, CountsToday
<1>13. CallsKept
  BY <1>7 DEF CallsKept
<1> QED
  BY <1>8, <1>10, <1>11, <1>12, <1>13, KeptStep

\* Time passes.
LEMMA TimeInv == ASSUME OutboxInv, Tick \/ Midnight PROVE OutboxInv'
<1>1. ASSUME NEW r \in Refs
      PROVE  /\ row'[r] \in OutboxRow
             /\ row'[r].status = row[r].status /\ row'[r].waived = row[r].waived
             /\ row'[r].today => row[r].today
  <2> PICK x \in OutboxRow : x = row[r]
    BY DEF OutboxInv, TypeOK
  <2>1. PICK y, z : y = [x EXCEPT !.age = @ + 1] /\ z = [x EXCEPT !.today = FALSE]
    OBVIOUS
  <2>2. /\ x.age < OldAge => y \in OutboxRow
        /\ y.status = x.status /\ y.waived = x.waived /\ y.today = x.today
    BY <2>1, OutboxConstants DEF OutboxRow, OldAge
  <2>3. /\ z \in OutboxRow /\ z.status = x.status /\ z.waived = x.waived /\ z.today = FALSE
    BY <2>1 DEF OutboxRow
  <2>4. \/ row'[r] = IF x.status # "none" /\ x.age < OldAge THEN y ELSE x
        \/ row'[r] = z
    BY <2>1 DEF Tick, Midnight
  <2> QED
    BY <2>2, <2>3, <2>4
<1>2. row' \in [Refs -> OutboxRow] /\ UNCHANGED auto
  BY <1>1 DEF Tick, Midnight
<1>3. ASSUME NEW v \in Workers PROVE job'[v] \in Job /\ Same(v)
  <2> PICK x \in Job : x = job[v]
    BY DEF OutboxInv, TypeOK
  <2>1. PICK z : z = [x EXCEPT !.today = FALSE]
    OBVIOUS
  <2>2. /\ z \in Job /\ z.pc = x.pc /\ z.by = x.by /\ z.ref = x.ref /\ z.verdict = x.verdict
        /\ z.today = FALSE
    BY <2>1 DEF Job
  <2>3. job'[v] = x \/ job'[v] = z
    BY <2>1 DEF Tick, Midnight
  <2> QED
    BY <2>2, <2>3 DEF Same
<1>4. job' \in [Workers -> Job]
  BY <1>3 DEF Tick, Midnight, OutboxInv, TypeOK
<1>5. TypeOK'
  BY <1>2, <1>4 DEF OutboxInv, TypeOK
<1>6. RowsKept
  BY <1>1 DEF RowsKept, CountsToday
<1>7. CallsKept
  BY <1>2 DEF CallsKept
<1> QED
  BY <1>3, <1>5, <1>6, <1>7, KeptStep

-----------------------------------------------------------------------------
(* The row is written                                                       *)

\* Whoever has counted takes the place he found, and nobody else was to take it.
LEMMA CommitPlaces ==
  ASSUME OutboxInv, NEW w \in Workers, NEW r \in Refs,
         At(w, "counted"), job[w].ref = r,
         \A p \in Refs : p # r /\ CountsToday(p)' => CountsToday(p),
         CountsToday(r)' => WillTake(w),
         \A v \in Workers : WillTake(v)' => v # w /\ WillTake(v) /\ job'[v].ref = job[v].ref
  PROVE  Places'
<1>1. MosqueCap \in Nat
  BY OutboxConstants
<1>2. ASSUME NEW p \in Refs PROVE Cardinality(Taken(MosqueOf[p]))' <= MosqueCap
  <2> PICK S, T : S = Taken(MosqueOf[p])' /\ T = Taken(MosqueOf[p])
    OBVIOUS
  <2>1. IsFiniteSet(T) /\ Cardinality(T) \in Nat /\ Cardinality(T) <= MosqueCap
    BY TakenFinite DEF OutboxInv, Places
  <2>2. CASE MosqueOf[p] = MosqueOf[r] /\ WillTake(w)
    <3>1. Cardinality(T) < MosqueCap
      BY <2>2 DEF OutboxInv, Places, Taken
    <3>2. S \subseteq T \union {r}
      BY DEF Taken
    <3>3. IsFiniteSet(T \union {r}) /\ Cardinality(T \union {r}) <= Cardinality(T) + 1
      <4>1. /\ IsFiniteSet(T \union {r})
            /\ \/ Cardinality(T \union {r}) = Cardinality(T)
               \/ Cardinality(T \union {r}) = Cardinality(T) + 1
        BY <2>1, FS_AddElement, Zenon
      <4> QED
        BY <2>1, <4>1
    <3>4. Cardinality(S) <= Cardinality(T \union {r}) /\ IsFiniteSet(S)
      BY <3>2, <3>3, FS_Subset
    <3>5. Cardinality(S) \in Nat /\ Cardinality(T \union {r}) \in Nat
      BY <3>3, <3>4, FS_CardinalityType
    <3> QED
      BY <1>1, <2>1, <3>1, <3>3, <3>4, <3>5
  <2>3. CASE ~(MosqueOf[p] = MosqueOf[r] /\ WillTake(w))
    <3>1. S \subseteq T
      BY <2>3 DEF Taken
    <3>2. IsFiniteSet(S) /\ Cardinality(S) <= Cardinality(T)
      BY <2>1, <3>1, FS_Subset
    <3>3. Cardinality(S) \in Nat
      BY <3>2, FS_CardinalityType
    <3> QED
      BY <1>1, <2>1, <3>2, <3>3
  <2> QED
    BY <2>2, <2>3
<1>3. ASSUME NEW v \in Workers, NEW p \in Refs, WillTake(v)', job'[v].ref = p
      PROVE  Cardinality(Taken(MosqueOf[p]))' < MosqueCap
  <2>1. v # w /\ WillTake(v) /\ job[v].ref = p
    BY <1>3
  <2>2. MosqueOf[p] # MosqueOf[r]
    BY <2>1 DEF OutboxInv, Jobs, WillTake
  <2> PICK S, T : S = Taken(MosqueOf[p])' /\ T = Taken(MosqueOf[p])
    OBVIOUS
  <2>3. S \subseteq T
    BY <2>2 DEF Taken
  <2>4. IsFiniteSet(T) /\ Cardinality(T) \in Nat /\ Cardinality(T) < MosqueCap
    BY <2>1, TakenFinite DEF OutboxInv, Places
  <2>5. IsFiniteSet(S) /\ Cardinality(S) <= Cardinality(T)
    BY <2>3, <2>4, FS_Subset
  <2>6. Cardinality(S) \in Nat
    BY <2>5, FS_CardinalityType
  <2> QED
    BY <1>1, <2>4, <2>5, <2>6
<1> QED
  BY <1>2, <1>3 DEF Places

\* The transaction commits.
LEMMA CommitInv == ASSUME OutboxInv, NEW w \in Workers, CommitRow(w) PROVE OutboxInv'
<1> PICK x \in Job : x = job[w]
  BY DEF OutboxInv, TypeOK
<1>1. At(w, "counted") /\ UNCHANGED auto
  BY DEF CommitRow, At
<1>2. PICK r \in Refs : r = x.ref
  BY <1>1 DEF OutboxInv, Jobs, At
<1>3. row[r].status = "none" /\ x.by = "dispatch"
  BY <1>1, <1>2 DEF OutboxInv, Jobs
<1>4. PICK y : y = [NoRow EXCEPT !.status = x.verdict, !.today = x.today]
  OBVIOUS
<1>5. /\ y \in OutboxRow /\ y.status = x.verdict /\ y.today = x.today /\ ~y.waived
      /\ y.status \in {"queued", "skipped"}
  <2>1. PICK status \in {"queued", "skipped"}, today \in BOOLEAN :
          status = x.verdict /\ today = x.today
    BY DEF Job
  <2>2. y = [status |-> status, age |-> 0, today |-> today, waived |-> FALSE]
    BY <1>4, <2>1 DEF NoRow
  <2>3. 0 \in 0..OldAge
    BY OutboxConstants DEF OldAge
  <2> QED
    BY <2>1, <2>2, <2>3 DEF OutboxRow
<1>6. row' = [row EXCEPT ![r] = y]
  BY <1>2, <1>4 DEF CommitRow
<1>7. PICK q : q = IF x.verdict = "queued" THEN [x EXCEPT !.pc = "ready"] ELSE Idle
  OBVIOUS
<1>8. /\ q \in Job
      /\ q.pc = "idle" \/ (q.pc = "ready" /\ q.by = "dispatch" /\ q.ref = r /\ x.verdict = "queued")
  BY <1>2, <1>3, <1>7, IdleTyped DEF Job
<1>9. job' = [job EXCEPT ![w] = q]
  BY <1>7 DEF CommitRow, Goto, Finish, OutboxInv, TypeOK
<1>10. /\ job' \in [Workers -> Job] /\ job'[w] = q
       /\ \A v \in Workers : v # w => job'[v] = job[v]
  BY <1>8, <1>9 DEF OutboxInv, TypeOK
<1>11. row'[r] = y /\ \A p \in Refs : p # r => row'[p] = row[p]
  BY <1>6 DEF OutboxInv, TypeOK
<1>12. TypeOK'
  BY <1>1, <1>5, <1>6, <1>10 DEF OutboxInv, TypeOK
<1>13. Jobs'
  <2>1. \A v \in Workers : At(v, "counted")' => v # w /\ At(v, "counted") /\ job'[v].ref = job[v].ref
    BY <1>8, <1>10 DEF At
  <2>2. \A v \in Workers : At(v, "counted")' => job'[v].ref # r /\ job'[v].ref \in Refs
    BY <1>1, <1>2, <2>1 DEF OutboxInv, Jobs, At
  <2>3. \A v \in Workers : At(v, "counted")' => row'[job'[v].ref].status = "none"
    BY <1>11, <2>1, <2>2 DEF OutboxInv, Jobs
  <2>4. \A v \in Workers :
          /\ ~At(v, "idle")' => job'[v].ref \in Refs
          /\ At(v, "swept")' \/ At(v, "counted")' => job'[v].by = "dispatch"
          /\ At(v, "claimed")' => job'[v].by = "resend"
    BY <1>8, <1>10 DEF OutboxInv, Jobs, At
  <2>5. \A u, v \in Workers :
          At(u, "counted")' /\ At(v, "counted")' /\ MosqueOf[job'[u].ref] = MosqueOf[job'[v].ref] => u = v
    BY <2>1 DEF OutboxInv, Jobs
  <2> QED
    BY <2>3, <2>4, <2>5 DEF Jobs
<1>14. \A v \in Workers : v # w /\ Held(v) => job[v].ref # r /\ job[v].ref \in Refs
  BY <1>3 DEF OutboxInv, HeldRows, Jobs, Held, At
<1>15. HeldRows'
  <2> SUFFICES ASSUME NEW v \in Workers, Held(v)'
               PROVE  /\ row'[job'[v].ref].status # "none"
                      /\ row'[job'[v].ref].status = "skipped" => row'[job'[v].ref].waived
    BY DEF HeldRows
  <2>1. CASE v = w
    BY <1>5, <1>8, <1>10, <1>11, <2>1 DEF Held
  <2>2. CASE v # w
    <3>1. Held(v) /\ job'[v].ref = job[v].ref /\ row'[job[v].ref] = row[job[v].ref]
      BY <1>10, <1>11, <1>14, <2>2 DEF Held
    <3> QED
      BY <3>1 DEF OutboxInv, HeldRows
  <2> QED
    BY <2>1, <2>2
<1>16. Calls'
  <2>1. auto[r] = 0 /\ auto' = auto
    BY <1>1, <1>3 DEF OutboxInv, Calls
  <2>2. \A v \in Workers : v # w /\ WillDispatch(v)' =>
          WillDispatch(v) /\ job'[v].ref = job[v].ref /\ job[v].ref # r
    BY <1>10, <1>14 DEF WillDispatch, At, Held
  <2>3. WillDispatch(w)' => job'[w].ref = r
    BY <1>8, <1>10 DEF WillDispatch, At
  <2>4. \A p \in Refs : auto'[p] <= 1 /\ (row'[p].status = "none" => auto'[p] = 0)
    BY <1>11, <2>1 DEF OutboxInv, Calls
  <2>5. \A v \in Workers : WillDispatch(v)' => auto'[job'[v].ref] = 0
    BY <2>1, <2>2, <2>3 DEF OutboxInv, Calls
  <2>6. \A u, v \in Workers : WillDispatch(u)' /\ WillDispatch(v)' /\ job'[u].ref = job'[v].ref => u = v
    BY <2>2, <2>3 DEF OutboxInv, Calls
  <2> QED
    BY <2>4, <2>5, <2>6 DEF Calls
<1>17. Places'
  <2>1. \A p \in Refs : p # r /\ CountsToday(p)' => CountsToday(p)
    BY <1>11 DEF CountsToday
  <2>2. CountsToday(r)' => WillTake(w)
    BY <1>1, <1>5, <1>11 DEF CountsToday, WillTake
  <2>3. \A v \in Workers : WillTake(v)' => v # w /\ WillTake(v) /\ job'[v].ref = job[v].ref
    BY <1>8, <1>10 DEF WillTake, At
  <2> QED
    BY <1>1, <1>2, <2>1, <2>2, <2>3, CommitPlaces
<1>18. Numbers'
  <2> SUFFICES ASSUME NEW p \in Refs
               PROVE  Cardinality(DueOn(PhoneOf[p])') < PhoneCap + Cardinality(MosquesOn(PhoneOf[p]))
    BY DEF Numbers, MosquesOn
  <2>1. \A u \in Refs : CountsToday(u)' => CountsToday(u) \/ (u = r /\ WillTake(w))
    BY <1>1, <1>5, <1>11 DEF CountsToday, WillTake
  <2>2. \A v \in Workers : WillTake(v)' => WillTake(v) /\ job'[v].ref = job[v].ref
    BY <1>8, <1>10 DEF WillTake, At
  <2>3. job[w].ref = r
    BY <1>2
  <2>4. DueOn(PhoneOf[p])' \subseteq DueOn(PhoneOf[p])
    BY <2>1, <2>2, <2>3 DEF DueOn
  <2> QED
    BY <2>4, NumberKept DEF OutboxInv
<1> QED
  BY <1>12, <1>13, <1>15, <1>16, <1>17, <1>18 DEF OutboxInv

-----------------------------------------------------------------------------
(* The theorems                                                             *)

\* The invariant holds at the start.
LEMMA OutboxInit == Init => OutboxInv
<1> SUFFICES ASSUME Init PROVE OutboxInv
  OBVIOUS
<1>1. NoRow \in OutboxRow /\ NoRow.status = "none" /\ Idle \in Job /\ Idle.pc = "idle"
  BY IdleTyped, OutboxConstants DEF NoRow, OutboxRow, OldAge
<1>2. TypeOK
  BY <1>1 DEF Init, TypeOK, ManyCalls
<1>3. \A r \in Refs : row[r].status = "none" /\ auto[r] = 0
  BY <1>1 DEF Init
<1>4. \A w \in Workers : job[w].pc = "idle"
  BY <1>1 DEF Init
<1>5. Jobs /\ HeldRows /\ Calls
  BY <1>3, <1>4 DEF Jobs, HeldRows, Calls, At, Held, WillDispatch
<1>6. Places
  <2>1. \A m : Taken(m) = {}
    BY <1>3 DEF Taken, CountsToday
  <2>2. \A w \in Workers : ~WillTake(w)
    BY <1>4 DEF WillTake, At
  <2> QED
    BY <2>1, <2>2, FS_EmptySet, OutboxConstants DEF Places
<1>7. Numbers
  <2> SUFFICES ASSUME NEW r \in Refs
               PROVE  Cardinality(DueOn(PhoneOf[r])) < PhoneCap + Cardinality(MosquesOn(PhoneOf[r]))
    BY DEF Numbers
  <2>1. DueOn(PhoneOf[r]) = {}
    BY <1>3, <1>4 DEF DueOn, CountsToday, WillTake, At
  <2>2. Cardinality(MosquesOn(PhoneOf[r])) \in Nat \ {0}
    BY NumberFinite
  <2> QED
    BY <2>1, <2>2, FS_EmptySet, OutboxConstants
<1> QED
  BY <1>2, <1>5, <1>6, <1>7 DEF OutboxInv

\* Every step keeps the invariant.
LEMMA OutboxStep == OutboxInv /\ [Next]_vars => OutboxInv'
<1> SUFFICES ASSUME OutboxInv, [Next]_vars PROVE OutboxInv'
  OBVIOUS
<1>1. CASE UNCHANGED vars
  <2>1. UNCHANGED <<row, auto, job>>
    BY <1>1 DEF vars
  <2>2. TypeOK' /\ \A v \in Workers : Same(v)
    BY <2>1 DEF OutboxInv, TypeOK, Same
  <2> QED
    BY <2>1, <2>2, UnchangedKeeps, KeptStep
<1>2. ASSUME NEW w \in Workers, Work(w) PROVE OutboxInv'
  <2>1. CASE \E r \in Refs : StartDispatch(w, r)
    BY <2>1, SweepInv
  <2>2. ASSUME NEW r \in Refs, ClaimResend(w, r) PROVE OutboxInv'
    BY <2>2, ClaimResendInv
  <2>3. CASE Count(w)
    BY <2>3, CountInv
  <2>4. CASE Dedupe(w) \/ Die(w)
    BY <2>4, EndInv
  <2>5. CASE CommitRow(w)
    BY <2>5, CommitInv
  <2>6. CASE Send(w) \/ Recheck(w)
    BY <2>6, SendInv
  <2>7. CASE Mark(w)
    BY <2>7, MarkInv
  <2> QED
    BY <1>2, <2>1, <2>2, <2>3, <2>4, <2>5, <2>6, <2>7 DEF Work
<1>3. CASE OpenBoard
  BY <1>3, SweepInv
<1>4. CASE Tick \/ Midnight
  BY <1>4, TimeInv
<1> QED
  BY <1>1, <1>2, <1>3, <1>4 DEF Next

\* The invariant holds in every state.
LEMMA OutboxAlways == Spec => []OutboxInv
  BY OutboxInit, OutboxStep, PTL DEF Spec

\* Every value has its type.
THEOREM TypeCorrect == Spec => []TypeOK
<1>1. OutboxInv => TypeOK
  BY DEF OutboxInv
<1> QED
  BY <1>1, OutboxAlways, PTL

\* However many dispatch an event and however they die, the provider is called once at
\* most for its message unless a human asks (dispatchWhatsapp, markOutbox).
THEOREM OneAutomaticCall == Spec => []DispatchedOnce
<1>1. OutboxInv => DispatchedOnce
  BY DEF OutboxInv, Calls, DispatchedOnce
<1> QED
  BY <1>1, OutboxAlways, PTL

\* The messages charged to a mosque on one day stay within its cap, for every cap and
\* any number of workers (enqueueWhatsapp with its advisory lock).
THEOREM MosqueStaysInCap == Spec => []MosqueCapKept
<1>1. OutboxInv => MosqueCapKept
  <2> SUFFICES ASSUME OutboxInv, NEW r \in Refs
               PROVE  Charged({q \in Refs : MosqueOf[q] = MosqueOf[r] /\ ~row[q].waived}) <= MosqueCap
    BY DEF MosqueCapKept
  <2>1. {p \in {q \in Refs : MosqueOf[q] = MosqueOf[r] /\ ~row[q].waived} :
           row[p].status \notin {"none", "skipped"} /\ row[p].today} = Taken(MosqueOf[r])
    BY DEF Taken, CountsToday
  <2> QED
    BY <2>1 DEF Charged, OutboxInv, Places
<1> QED
  BY <1>1, OutboxAlways, PTL

\* The rows charged to a number on one day, but for those whose place was given back.
OnPhone(p) == {q \in Refs : PhoneOf[q] = p /\ ~row[q].waived}

\* A number gets one message more than its cap at most for each further mosque that
\* writes to it.
PhoneCapNearlyKept ==
  \A r \in Refs : Charged(OnPhone(PhoneOf[r])) < PhoneCap + Cardinality(MosquesOn(PhoneOf[r]))

\* The cap of a number is counted under the lock of a mosque, so mosques at once pass it,
\* but never by more than one message each, for every cap and any number of workers; a
\* number that one mosque writes to stays within it (enqueueWhatsapp, outbox.ts 15-17).
THEOREM PhoneStaysNearCap == Spec => []PhoneCapNearlyKept
<1>1. OutboxInv => PhoneCapNearlyKept
  <2> SUFFICES ASSUME OutboxInv, NEW r \in Refs
               PROVE  Charged(OnPhone(PhoneOf[r])) < PhoneCap + Cardinality(MosquesOn(PhoneOf[r]))
    BY DEF PhoneCapNearlyKept
  <2>1. PICK S, T : /\ S = {q \in OnPhone(PhoneOf[r]) :
                              row[q].status \notin {"none", "skipped"} /\ row[q].today}
                    /\ T = DueOn(PhoneOf[r])
    OBVIOUS
  <2>2. S \subseteq T
    BY <2>1 DEF OnPhone, DueOn, CountsToday
  <2>3. /\ IsFiniteSet(T) /\ Cardinality(T) \in Nat
        /\ Cardinality(T) < PhoneCap + Cardinality(MosquesOn(PhoneOf[r]))
        /\ Cardinality(MosquesOn(PhoneOf[r])) \in Nat
    BY <2>1, NumberFinite DEF OutboxInv, Numbers
  <2>4. IsFiniteSet(S) /\ Cardinality(S) <= Cardinality(T)
    BY <2>2, <2>3, FS_Subset
  <2>5. Cardinality(S) \in Nat /\ PhoneCap \in Nat
    BY <2>4, FS_CardinalityType, OutboxConstants
  <2>6. Charged(OnPhone(PhoneOf[r])) = Cardinality(S)
    BY <2>1 DEF Charged
  <2> QED
    BY <2>3, <2>4, <2>5, <2>6
<1> QED
  BY <1>1, OutboxAlways, PTL

=============================================================================
