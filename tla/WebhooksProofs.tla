----------------------------- MODULE WebhooksProofs -----------------------------
(***************************************************************************)
(* The outgoing webhooks for any number of endpoints, deliveries and runs,  *)
(* and for every lease, delay and maximum of attempts: types, runs that a   *)
(* lease keeps apart, attempts that are bounded, outcomes that stay.        *)
(***************************************************************************)
EXTENDS Webhooks, FiniteSetTheorems, TLAPS

\* What a run holds was written and was counted. While its lease lasts, the delivery is
\* not due, nobody else holds it, and nobody has settled it.
Leases ==
  \A r \in Runs, d \in Deliveries : Holds(r, d) =>
    /\ row[d].status # "absent"
    /\ run[r].tries[d] >= 1
    /\ d \notin run[r].slow =>
         /\ row[d].status \in {"pending", "deleted"}
         /\ row[d].status = "pending" => row[d].due > 0
         /\ \A q \in Runs : Holds(q, d) => q = r

\* The last attempt is under way, by a run that knows that it is the last, and lost as
\* soon as the delivery is due again.
LastIsHeld ==
  \A d \in Deliveries : LastAttempt(d) /\ ~row[d].lost =>
    /\ row[d].due > 0
    /\ \E r \in Runs : Holds(r, d) /\ run[r].tries[d] >= MaxAttempts

WebhooksInv == TypeOK /\ Leases /\ LastIsHeld /\ AttemptsBounded

\* The shape of a run that TypeOK asks for.
Shaped(x) ==
  /\ x.todo # {} <=> x.at \in {"reading", "sending"}
  /\ x.sent \union x.slow \subseteq x.todo /\ Cardinality(x.sent) <= 1

-----------------------------------------------------------------------------
(* Types of the pieces                                                     *)

\* A run that does nothing holds nothing.
LEMMA IdleRun ==
  /\ Idle \in Run /\ Shaped(Idle)
  /\ Idle.at = "idle" /\ Idle.todo = {} /\ Idle.slow = {} /\ Idle.sent = {}
<1>1. Idle \in Run
  BY WebhooksAssumption DEF Idle, Run
<1> QED
  BY <1>1, FS_EmptySet DEF Idle, Shaped

\* A delivery that is settled or deleted keeps its endpoint, and nothing else.
LEMMA ClosedIs ==
  ASSUME NEW d, NEW s, row[d] \in Row
  PROVE  Closed(d, s) = [status |-> s, endpoint |-> row[d].endpoint, attempts |-> 0, due |-> 0,
                         lost |-> FALSE]
<1>1. PICK v : v = [status |-> row[d].status, endpoint |-> row[d].endpoint,
                    attempts |-> row[d].attempts, due |-> row[d].due, lost |-> row[d].lost]
  OBVIOUS
<1>2. v = row[d]
  BY <1>1 DEF Row
<1>3. PICK a : a = [v EXCEPT !.status = s]
  OBVIOUS
<1>4. PICK b : b = [a EXCEPT !.attempts = 0]
  OBVIOUS
<1>5. PICK c : c = [b EXCEPT !.due = 0]
  OBVIOUS
<1>6. PICK f : f = [c EXCEPT !.lost = FALSE]
  OBVIOUS
<1>7. f = [status |-> s, endpoint |-> row[d].endpoint, attempts |-> 0, due |-> 0, lost |-> FALSE]
  BY <1>1, <1>3, <1>4, <1>5, <1>6
<1> QED
  BY <1>2, <1>3, <1>4, <1>5, <1>6, <1>7, Zenon DEF Closed

\* A row that is written, settled or deleted is a row.
LEMMA RowsTyped ==
  /\ Unwritten \in Row /\ Unwritten.status = "absent"
  /\ \A e \in Endpoints :
       /\ Written(e) \in Row
       /\ Written(e).status = "pending" /\ Written(e).attempts = 0 /\ Written(e).due = 0
  /\ \A d \in Deliveries, s \in {"delivered", "failed", "deleted"} :
       row[d] \in Row => /\ Closed(d, s) \in Row
                         /\ Closed(d, s).status = s /\ Closed(d, s).attempts = 0
<1>1. 0 \in 0..(MaxAttempts + 1)
  BY WebhooksAssumption
<1>2. \A e \in Endpoints :
        /\ Written(e) \in Row
        /\ Written(e).status = "pending" /\ Written(e).attempts = 0 /\ Written(e).due = 0
  BY <1>1 DEF Written, Row
<1>3. PICK e : e = CHOOSE f \in Endpoints : TRUE
  OBVIOUS
<1>a. e \in Endpoints
  BY <1>3, WebhooksAssumption, Zenon
<1>4. Unwritten \in Row /\ Unwritten.status = "absent"
  <2>1. Unwritten = [Written(e) EXCEPT !.status = "absent"]
    BY <1>3, Zenon DEF Unwritten
  <2>2. PICK w \in Row : w = Written(e)
    BY <1>2, <1>a
  <2>3. Unwritten = [w EXCEPT !.status = "absent"]
    BY <2>1, <2>2, Zenon
  <2>4. \A v \in Row : [v EXCEPT !.status = "absent"] \in Row /\ [v EXCEPT !.status = "absent"].status = "absent"
    BY DEF Row
  <2>5. w \in Row
    OBVIOUS
  <2>6. [w EXCEPT !.status = "absent"] \in Row /\ [w EXCEPT !.status = "absent"].status = "absent"
    BY <2>4, <2>5
  <2> QED
    BY <2>3, <2>6, Zenon
<1>5. ASSUME NEW d \in Deliveries, NEW s \in {"delivered", "failed", "deleted"}, row[d] \in Row
      PROVE  Closed(d, s) \in Row /\ Closed(d, s).status = s /\ Closed(d, s).attempts = 0
  <2>1. \A f \in Endpoints : LET c == [status |-> s, endpoint |-> f, attempts |-> 0, due |-> 0, lost |-> FALSE]
          IN  c \in Row /\ c.status = s /\ c.attempts = 0
    BY <1>1, <1>5 DEF Row
  <2>2. row[d].endpoint \in Endpoints
    BY <1>5 DEF Row
  <2>3. Closed(d, s)
          = [status |-> s, endpoint |-> row[d].endpoint, attempts |-> 0, due |-> 0, lost |-> FALSE]
    BY <1>5, ClosedIs
  <2> QED
    BY <2>1, <2>2, <2>3, Zenon
<1> QED
  BY <1>2, <1>4, <1>5

\* The invariant holds at the start.
LEMMA InitInv == Init => WebhooksInv
<1> SUFFICES ASSUME Init PROVE WebhooksInv
  OBVIOUS
<1>1. TypeOK
  BY IdleRun, RowsTyped DEF Init, TypeOK, Shaped
<1>2. Leases
  BY IdleRun DEF Init, Leases, Holds
<1>3. \A d \in Deliveries : row[d].status = "absent"
  BY RowsTyped DEF Init
<1>4. row \in [Deliveries -> Row] /\ \A d \in Deliveries : ~LastAttempt(d)
  BY <1>1, <1>3 DEF TypeOK, LastAttempt
<1>5. \A d \in Deliveries : row[d].attempts = 0
  BY DEF Init, Unwritten, Written
<1> QED
  BY <1>1, <1>2, <1>4, <1>5, WebhooksAssumption DEF WebhooksInv, LastIsHeld, AttemptsBounded

-----------------------------------------------------------------------------
(* Steps of one run                                                        *)

\* A run takes a step; the others stay where they are.
LEMMA RunStep ==
  ASSUME TypeOK, NEW r \in Runs, NEW x \in Run, Shaped(x), run' = [run EXCEPT ![r] = x]
  PROVE  /\ run' \in [Runs -> Run] /\ run'[r] = x
         /\ \A q \in Runs : q # r => run'[q] = run[q]
         /\ \A q \in Runs : Shaped(run'[q])
  BY DEF TypeOK, Shaped

\* A step that holds what was held, and writes nothing.
LEMMA QuietStep ==
  ASSUME WebhooksInv, NEW r \in Runs, NEW x \in Run, Shaped(x), run' = [run EXCEPT ![r] = x],
         x.todo = run[r].todo, x.slow = run[r].slow, \A d \in x.todo : x.tries[d] = run[r].tries[d],
         UNCHANGED <<endpoint, enabled, row>>
  PROVE  WebhooksInv'
<1>1. /\ run' \in [Runs -> Run] /\ \A q \in Runs : Shaped(run'[q])
      /\ \A q \in Runs : /\ run'[q].todo = run[q].todo /\ run'[q].slow = run[q].slow
                         /\ \A d \in run[q].todo : run'[q].tries[d] = run[q].tries[d]
  BY RunStep DEF WebhooksInv
<1>2. TypeOK'
  BY <1>1 DEF WebhooksInv, TypeOK, Shaped
<1>3. Leases'
  BY <1>1 DEF WebhooksInv, Leases, Holds
<1>4. LastIsHeld'
  BY <1>1 DEF WebhooksInv, LastIsHeld, LastAttempt, Holds
<1> QED
  BY <1>2, <1>3, <1>4 DEF WebhooksInv, AttemptsBounded

\* What asks, reads and posts writes nothing.
LEMMA ReadInv ==
  ASSUME WebhooksInv, NEW r \in Runs,
         Emit(r) \/ Ping(r) \/ AskFeature(r) \/ ReadEndpoints(r) \/ ReadFlag(r) \/ Post(r)
  PROVE  WebhooksInv'
<1>0. run[r] \in Run /\ Shaped(run[r]) /\ run \in [Runs -> Run]
  BY DEF WebhooksInv, TypeOK, Shaped
<1>1. UNCHANGED <<endpoint, enabled, row>>
  BY DEF Emit, Ping, AskFeature, ReadEndpoints, ReadFlag, Post
<1>2. PICK x : /\ x \in Run /\ Shaped(x) /\ run' = [run EXCEPT ![r] = x]
               /\ x.todo = run[r].todo /\ x.slow = run[r].slow
               /\ \A d \in x.todo : x.tries[d] = run[r].tries[d]
  <2>1. CASE Emit(r) \/ Ping(r)
    <3>1. run[r].todo = {} /\ run[r].slow = {}
      BY <1>0, <2>1 DEF Emit, Ping, Shaped
    <3>2. PICK t \in SUBSET Endpoints, o \in SUBSET Deliveries :
            run' = [run EXCEPT ![r] = [Idle EXCEPT !.at = "asking", !.target = t, !.only = o]]
      <4>1. CASE Emit(r)
        <5>1. PICK t, o : t = Endpoints /\ o = Idle.only /\ o = {}
          BY DEF Idle
        <5>2. [Idle EXCEPT !.at = "asking", !.target = t]
                = [Idle EXCEPT !.at = "asking", !.target = t, !.only = o]
          BY <5>1 DEF Idle
        <5>3. run' = [run EXCEPT ![r] = [Idle EXCEPT !.at = "asking", !.target = t]]
          BY <4>1, <5>1 DEF Emit
        <5>4. run' = [run EXCEPT ![r] = [Idle EXCEPT !.at = "asking", !.target = t, !.only = o]]
          BY <5>2, <5>3, Zenon
        <5> QED
          BY <5>1, <5>4
      <4>2. CASE Ping(r)
        BY <4>2 DEF Ping
      <4> QED
        BY <2>1, <4>1, <4>2
    <3> PICK x : x = [Idle EXCEPT !.at = "asking", !.target = t, !.only = o]
      OBVIOUS
    <3>3. x \in Run /\ x.todo = {} /\ x.slow = {} /\ x.sent = {} /\ x.at = "asking"
      BY IdleRun DEF Idle, Run
    <3>4. Shaped(x)
      BY <3>3, FS_EmptySet DEF Shaped
    <3> QED
      BY <3>1, <3>2, <3>3, <3>4
  <2>2. CASE AskFeature(r)
    <3>1. run[r].todo = {} /\ run[r].slow = {} /\ run[r].sent = {}
      BY <1>0, <2>2 DEF AskFeature, Shaped
    <3> PICK x : x = IF enabled THEN [run[r] EXCEPT !.at = "queueing"] ELSE Idle
      OBVIOUS
    <3>2. x \in Run /\ x.todo = {} /\ x.slow = {} /\ x.sent = {} /\ x.at \in {"queueing", "idle"}
      <4>1. CASE enabled
        <5>1. x = [run[r] EXCEPT !.at = "queueing"] /\ run[r] \in Run
          BY <1>0, <4>1
        <5> QED BY <3>1, <5>1 DEF Run
      <4>2. CASE ~enabled
        <5>1. x = Idle
          BY <4>2
        <5> QED BY <5>1, IdleRun
      <4> QED BY <4>1, <4>2
    <3>3. Shaped(x)
      BY <3>2, FS_EmptySet DEF Shaped
    <3>4. run' = [run EXCEPT ![r] = x]
      BY <2>2 DEF AskFeature
    <3> QED
      BY <3>1, <3>2, <3>3, <3>4
  <2>3. CASE ReadEndpoints(r)
    <3> PICK x : x = [run[r] EXCEPT !.at = "sending", !.seen = Active]
      OBVIOUS
    <3>1. x \in Run /\ x.at = "sending" /\ x.todo = run[r].todo /\ x.slow = run[r].slow
          /\ x.sent = run[r].sent /\ x.tries = run[r].tries
      BY <1>0 DEF Run, Active
    <3>2. Shaped(x) /\ run' = [run EXCEPT ![r] = x]
      BY <1>0, <2>3, <3>1 DEF ReadEndpoints, Shaped
    <3> QED
      BY <3>1, <3>2
  <2>4. CASE ReadFlag(r)
    <3> PICK f \in {"on", "off"} : f = IF enabled THEN "on" ELSE "off"
      OBVIOUS
    <3> PICK x : x = [run[r] EXCEPT !.flag = f]
      OBVIOUS
    <3>1. x \in Run /\ x.at = run[r].at /\ x.todo = run[r].todo /\ x.slow = run[r].slow
          /\ x.sent = run[r].sent /\ x.tries = run[r].tries
      BY <1>0 DEF Run
    <3>2. Shaped(x) /\ run' = [run EXCEPT ![r] = x]
      BY <1>0, <2>4, <3>1 DEF ReadFlag, Shaped
    <3> QED
      BY <3>1, <3>2
  <2>5. CASE Post(r)
    <3>1. PICK d \in run[r].todo : run' = [run EXCEPT ![r].sent = {d}]
      BY <2>5 DEF Post
    <3> PICK x : x = [run[r] EXCEPT !.sent = {d}]
      OBVIOUS
    <3>2. x \in Run /\ x.at = run[r].at /\ x.todo = run[r].todo /\ x.slow = run[r].slow
          /\ x.sent = {d} /\ x.tries = run[r].tries
      BY <1>0 DEF Run
    <3>a. Cardinality({d}) = 1
      BY FS_Singleton
    <3>3. Shaped(x)
      BY <1>0, <3>2, <3>a DEF Shaped
    <3>4. run' = [run EXCEPT ![r] = x]
      BY <3>1
    <3> QED
      BY <3>2, <3>3, <3>4
  <2> QED
    BY <2>1, <2>2, <2>3, <2>4, <2>5
<1> QED
  BY <1>1, <1>2, QuietStep

-----------------------------------------------------------------------------
(* The queue                                                               *)

\* A run that holds nothing goes on to hold nothing, and rows that nobody can hold are
\* written.
LEMMA EnqueueInv == ASSUME WebhooksInv, NEW r \in Runs, Enqueue(r) PROVE WebhooksInv'
<1>0. /\ run \in [Runs -> Run] /\ row \in [Deliveries -> Row]
      /\ run[r].todo = {} /\ run[r].slow = {} /\ run[r].only \subseteq Deliveries
      /\ run[r].target \subseteq Endpoints
  BY DEF WebhooksInv, TypeOK, Enqueue, Run
<1>1. PICK ids \in SUBSET Unused :
        /\ \E of \in [ids -> Endpoints] :
             row' = [d \in Deliveries |-> IF d \in ids THEN Written(of[d]) ELSE row[d]]
        /\ run' = [run EXCEPT ![r] =
             IF ids = {} THEN Idle
             ELSE [Idle EXCEPT !.at = "claiming", !.only = IF run[r].only = {} THEN ids ELSE run[r].only]]
  <2> PICK targets : targets = run[r].target \intersect Active
    OBVIOUS
  <2>1. PICK ids \in kSubset(Cardinality(targets), Unused) :
           /\ \E of \in Bijection(ids, targets) :
                row' = [d \in Deliveries |-> IF d \in ids THEN Written(of[d]) ELSE row[d]]
           /\ run' = [run EXCEPT ![r] =
                IF ids = {} THEN Idle
                ELSE [Idle EXCEPT !.at = "claiming", !.only = IF run[r].only = {} THEN ids ELSE run[r].only]]
    BY Zenon DEF Enqueue
  <2>2. ids \in SUBSET Unused
    BY DEF kSubset
  <2>3. targets \subseteq Endpoints
    BY DEF Active
  <2>4. Bijection(ids, targets) \subseteq [ids -> Endpoints]
    BY <2>3 DEF Bijection, Injection
  <2>5. \E of \in [ids -> Endpoints] :
          row' = [d \in Deliveries |-> IF d \in ids THEN Written(of[d]) ELSE row[d]]
    BY <2>1, <2>4, Zenon
  <2> QED
    BY <2>1, <2>2, <2>5, Zenon
<1>2. PICK of \in [ids -> Endpoints] :
        row' = [d \in Deliveries |-> IF d \in ids THEN Written(of[d]) ELSE row[d]]
  BY <1>1
<1>3. ids \subseteq Deliveries /\ \A d \in ids : row[d].status = "absent"
  BY <1>1 DEF Unused
<1>4. row' \in [Deliveries -> Row] /\ \A d \in Deliveries :
        \/ d \notin ids /\ row'[d] = row[d]
        \/ d \in ids /\ row'[d].status = "pending" /\ row'[d].attempts = 0
  BY <1>0, <1>2, <1>3, RowsTyped
<1>5. PICK x \in Run : x.todo = {} /\ x.slow = {} /\ Shaped(x) /\ run' = [run EXCEPT ![r] = x]
  <2>1. CASE ids = {}
    BY <1>1, <2>1, IdleRun
  <2>2. CASE ids # {}
    <3> PICK o \in SUBSET Deliveries : o = IF run[r].only = {} THEN ids ELSE run[r].only
      BY <1>0, <1>3
    <3> PICK x : x = [Idle EXCEPT !.at = "claiming", !.only = o]
      OBVIOUS
    <3>1. x \in Run /\ x.todo = {} /\ x.slow = {} /\ x.sent = {} /\ x.at = "claiming"
      BY IdleRun DEF Idle, Run
    <3>2. Shaped(x)
      BY <3>1, FS_EmptySet DEF Shaped
    <3> QED
      BY <1>1, <2>2, <3>1, <3>2
  <2> QED
    BY <2>1, <2>2
<1>6. /\ run' \in [Runs -> Run] /\ \A q \in Runs : Shaped(run'[q])
      /\ \A q \in Runs : /\ run'[q].todo = run[q].todo /\ run'[q].slow = run[q].slow
                         /\ \A d \in run[q].todo : run'[q].tries[d] = run[q].tries[d]
  BY <1>0, <1>5, RunStep DEF WebhooksInv
<1>7. TypeOK'
  BY <1>4, <1>6 DEF WebhooksInv, TypeOK, Shaped, Enqueue
<1>8. Leases'
  BY <1>3, <1>4, <1>6 DEF WebhooksInv, Leases, Holds
<1>9. \A d \in Deliveries : LastAttempt(d)' => row'[d] = row[d]
  BY <1>4, WebhooksAssumption DEF LastAttempt
<1>a. LastIsHeld'
  BY <1>6, <1>9 DEF WebhooksInv, LastIsHeld, LastAttempt, Holds
<1>b. AttemptsBounded'
  BY <1>4, WebhooksAssumption DEF WebhooksInv, AttemptsBounded
<1> QED
  BY <1>7, <1>8, <1>a, <1>b DEF WebhooksInv

\* A claim counts an attempt, of a maximum that it passes only where the run of the last
\* attempt is lost, and sets the delivery not due for as long as the lease.
LEMMA LeasedIs ==
  ASSUME WebhooksInv, NEW d \in Deliveries, row[d].status = "pending", row[d].due <= 0
  PROVE  /\ Leased(d) \in Row
         /\ Leased(d).status = "pending" /\ Leased(d).due > 0 /\ Leased(d).attempts >= 1
         /\ Leased(d).lost = row[d].lost
         /\ Leased(d).attempts > MaxAttempts => row[d].lost
<1>1. PICK v \in Row : v = row[d]
  BY DEF WebhooksInv, TypeOK
<1>2. PICK n : n = Counted(v.attempts)
  OBVIOUS
<1>3. n \in 0..(MaxAttempts + 1) /\ n >= 1 /\ (n > MaxAttempts => v.attempts >= MaxAttempts)
  BY <1>2, WebhooksAssumption DEF Counted, Row
<1>4. Leased(d) = [v EXCEPT !.attempts = n, !.due = Lease]
  BY <1>1, <1>2, Zenon DEF Leased
<1>5. v = [status |-> v.status, endpoint |-> v.endpoint, attempts |-> v.attempts, due |-> v.due,
           lost |-> v.lost]
  BY DEF Row
<1>6. PICK a : a = [v EXCEPT !.attempts = n]
  OBVIOUS
<1>7. PICK b : b = [a EXCEPT !.due = Lease]
  OBVIOUS
<1>8. b = [status |-> v.status, endpoint |-> v.endpoint, attempts |-> n, due |-> Lease, lost |-> v.lost]
  BY <1>5, <1>6, <1>7
<1>9. Leased(d) = b
  BY <1>4, <1>6, <1>7, Zenon
<1>a. b \in Row /\ b.status = "pending" /\ b.due > 0 /\ b.attempts = n /\ b.lost = v.lost
  BY <1>1, <1>3, <1>8, WebhooksAssumption DEF Row
<1>b. n > MaxAttempts => v.lost
  <2> SUFFICES ASSUME n > MaxAttempts, ~v.lost PROVE FALSE
    BY DEF Row
  <2>1. LastAttempt(d) /\ ~row[d].lost
    BY <1>1, <1>3 DEF LastAttempt
  <2>2. row[d].due > 0
    BY <2>1 DEF WebhooksInv, LastIsHeld
  <2> QED
    BY <1>1, <2>2 DEF Row
<1> QED
  BY <1>1, <1>3, <1>9, <1>a, <1>b

\* A run that holds nothing claims what is due: whoever holds it already is slow.
LEMMA ClaimInv ==
  ASSUME WebhooksInv, NEW r \in Runs, run[r].todo = {}, NEW only, ClaimFrom(r, only)
  PROVE  WebhooksInv'
<1>0. run \in [Runs -> Run] /\ row \in [Deliveries -> Row]
  BY DEF WebhooksInv, TypeOK
<1>1. PICK chosen \in SUBSET Deliveries :
        /\ chosen \subseteq Due
        /\ row' = [d \in Deliveries |-> IF d \in chosen THEN Leased(d) ELSE row[d]]
        /\ run' = [run EXCEPT ![r] = Started(chosen, row')]
  BY DEF ClaimFrom, FirstDue, AnyDue
<1>2. \A d \in chosen : row[d].status = "pending" /\ row[d].due <= 0
  BY <1>1 DEF Due, Pending
<1>3. \A d \in Deliveries :
        \/ d \notin chosen /\ row'[d] = row[d]
        \/ /\ d \in chosen /\ row'[d] = Leased(d)
           /\ row'[d].status = "pending" /\ row'[d].due > 0 /\ row'[d].attempts >= 1
           /\ row'[d].lost = row[d].lost
           /\ row'[d].attempts > MaxAttempts => row[d].lost
  BY <1>1, <1>2, LeasedIs
<1>4. row' \in [Deliveries -> Row]
  BY <1>0, <1>1, <1>2, LeasedIs
<1>5. PICK x \in Run :
        /\ Shaped(x) /\ run' = [run EXCEPT ![r] = x]
        /\ x.todo = chosen /\ x.slow = {d \in chosen : Slow(d)}
        /\ \A d \in chosen : x.tries[d] = row'[d].attempts
  <2>1. CASE chosen = {}
    <3>1. {d \in chosen : Slow(d)} = {}
      BY <2>1
    <3> QED
      BY <1>1, <2>1, <3>1, IdleRun DEF Started
  <2>2. CASE chosen # {}
    <3>1. PICK t \in [Deliveries -> 0..(MaxAttempts + 1)] :
            t = [d \in Deliveries |-> IF d \in chosen THEN row'[d].attempts ELSE 0]
      <4>1. \A d \in Deliveries : row'[d].attempts \in 0..(MaxAttempts + 1)
        BY <1>4 DEF Row
      <4>2. 0 \in 0..(MaxAttempts + 1)
        BY WebhooksAssumption
      <4>3. [d \in Deliveries |-> IF d \in chosen THEN row'[d].attempts ELSE 0]
              \in [Deliveries -> 0..(MaxAttempts + 1)]
        BY <4>1, <4>2
      <4> QED
        BY <4>3, Zenon
    <3>2. PICK w \in SUBSET chosen : w = {d \in chosen : Slow(d)}
      OBVIOUS
    <3>3. PICK x : x = [Idle EXCEPT !.at = "reading", !.todo = chosen, !.tries = t, !.slow = w]
      OBVIOUS
    <3>4. x = [at |-> "reading", target |-> {}, only |-> {}, todo |-> chosen, tries |-> t,
               seen |-> {}, flag |-> "unread", sent |-> {}, slow |-> w]
      BY <3>3 DEF Idle
    <3>5. x \in Run /\ x.at = "reading" /\ x.todo = chosen /\ x.tries = t /\ x.slow = w /\ x.sent = {}
      BY <1>1, <3>1, <3>2, <3>4 DEF Run
    <3>6. Shaped(x)
      BY <2>2, <3>2, <3>5, FS_EmptySet DEF Shaped
    <3>7. x = StartedWith(chosen, row')
      BY <3>1, <3>2, <3>3, Zenon DEF StartedWith
    <3>8. run' = [run EXCEPT ![r] = x]
      BY <1>1, <2>2, <3>7, Zenon DEF Started
    <3>9. \A d \in chosen : x.tries[d] = row'[d].attempts
      BY <1>1, <3>1, <3>5
    <3> QED
      BY <3>2, <3>5, <3>6, <3>8, <3>9
  <2> QED
    BY <2>1, <2>2
<1>6. /\ run' \in [Runs -> Run] /\ run'[r] = x
      /\ \A q \in Runs : q # r => run'[q] = run[q]
      /\ \A q \in Runs : Shaped(run'[q])
  BY <1>5, RunStep DEF WebhooksInv
<1>7. TypeOK'
  BY <1>1, <1>4, <1>6 DEF WebhooksInv, TypeOK, Shaped, ClaimFrom
<1>8. Leases'
  <2> SUFFICES ASSUME NEW q \in Runs, NEW d \in Deliveries, d \in run'[q].todo
               PROVE  /\ row'[d].status # "absent"
                      /\ run'[q].tries[d] >= 1
                      /\ d \notin run'[q].slow =>
                           /\ row'[d].status \in {"pending", "deleted"}
                           /\ row'[d].status = "pending" => row'[d].due > 0
                           /\ \A p \in Runs : d \in run'[p].todo => p = q
    BY DEF Leases, Holds
  <2>1. CASE d \notin chosen
    <3>1. \A p \in Runs : d \in run'[p].todo => p # r /\ d \in run[p].todo
      BY <1>5, <1>6, <2>1
    <3> QED
      BY <1>3, <1>6, <2>1, <3>1 DEF WebhooksInv, Leases, Holds
  <2>2. CASE d \in chosen
    <3>1. \A p \in Runs : p # r /\ d \in run[p].todo => d \in run[p].slow
      <4> SUFFICES ASSUME NEW p \in Runs, p # r, d \in run[p].todo, d \notin run[p].slow PROVE FALSE
        OBVIOUS
      <4>1. row[d].due > 0 /\ row[d].due <= 0
        BY <1>2, <2>2 DEF WebhooksInv, Leases, Holds
      <4> QED
        BY <1>0, <4>1 DEF Row
    <3>2. CASE q = r
      <4>1. run'[q].tries[d] >= 1
        BY <1>3, <1>5, <1>6, <2>2, <3>2
      <4>2. d \notin run'[q].slow => \A p \in Runs : d \in run'[p].todo => p = q
        BY <1>5, <1>6, <2>2, <3>1, <3>2 DEF Slow
      <4> QED
        BY <1>3, <2>2, <4>1, <4>2
    <3>3. CASE q # r
      BY <1>3, <1>6, <2>2, <3>1, <3>3 DEF WebhooksInv, Leases, Holds
    <3> QED
      BY <3>2, <3>3
  <2> QED
    BY <2>1, <2>2
<1>9. LastIsHeld'
  <2> SUFFICES ASSUME NEW d \in Deliveries, LastAttempt(d)', ~row'[d].lost
               PROVE  /\ row'[d].due > 0
                      /\ \E q \in Runs : d \in run'[q].todo /\ run'[q].tries[d] >= MaxAttempts
    BY DEF LastIsHeld, Holds
  <2>1. CASE d \notin chosen
    <3>1. row'[d] = row[d]
      BY <1>3, <2>1
    <3>2. PICK q \in Runs : row[d].due > 0 /\ d \in run[q].todo /\ run[q].tries[d] >= MaxAttempts
      BY <3>1 DEF WebhooksInv, LastIsHeld, LastAttempt, Holds
    <3> QED
      BY <1>6, <3>1, <3>2
  <2>2. CASE d \in chosen
    <3>1. row'[d].due > 0 /\ row'[d].attempts >= MaxAttempts
      BY <1>3, <2>2 DEF LastAttempt
    <3>2. d \in run'[r].todo /\ run'[r].tries[d] >= MaxAttempts
      BY <1>5, <1>6, <2>2, <3>1
    <3> QED
      BY <3>1, <3>2
  <2> QED
    BY <2>1, <2>2
<1>a. AttemptsBounded'
  BY <1>3 DEF WebhooksInv, AttemptsBounded
<1> QED
  BY <1>7, <1>8, <1>9, <1>a DEF WebhooksInv

-----------------------------------------------------------------------------
(* Outcomes                                                                *)

\* What a run makes of a delivery it holds: settled, due again later and not for the
\* last time, or left as it is because it is not pending.
Outcome(r, d, rows) ==
  /\ rows \in [Deliveries -> Row]
  /\ \A c \in Deliveries : c # d => rows[c] = row[c]
  /\ \/ rows[d].status \in {"delivered", "failed"} /\ rows[d].attempts = 0
     \/ /\ row[d].status = "pending" /\ rows[d].status = "pending" /\ rows[d].due > 0
        /\ rows[d].attempts = row[d].attempts /\ rows[d].lost = row[d].lost
        /\ run[r].tries[d] < MaxAttempts
     \/ rows[d] = row[d] /\ row[d].status # "pending"

\* After a run wrote what came of a delivery, whoever else holds it is slow.
LEMMA WriteInv ==
  ASSUME WebhooksInv, NEW r \in Runs, NEW d \in Deliveries, Holds(r, d),
         NEW rows, Outcome(r, d, rows), Write(r, d, rows)
  PROVE  WebhooksInv'
<1>0. /\ run[r] \in Run /\ run \in [Runs -> Run] /\ row \in [Deliveries -> Row] /\ Shaped(run[r])
      /\ d \in run[r].todo
  BY DEF WebhooksInv, TypeOK, Shaped, Holds
<1>1. PICK x \in Run :
        /\ Shaped(x) /\ run' = [run EXCEPT ![r] = x]
        /\ x.todo = run[r].todo \ {d} /\ x.slow = run[r].slow \ {d}
        /\ \A c \in x.todo : x.tries[c] = run[r].tries[c]
  <2>1. CASE run[r].todo = {d}
    <3>1. run[r].todo \ {d} = {} /\ run[r].slow \ {d} = {}
      BY <1>0, <2>1 DEF Shaped
    <3> QED
      BY <2>1, <3>1, IdleRun DEF Write
  <2>2. CASE run[r].todo # {d}
    <3> PICK v : v = run[r]
      OBVIOUS
    <3>1. v = [at |-> v.at, target |-> v.target, only |-> v.only, todo |-> v.todo, tries |-> v.tries,
               seen |-> v.seen, flag |-> v.flag, sent |-> v.sent, slow |-> v.slow]
      BY <1>0 DEF Run
    <3>2. PICK a : a = [v EXCEPT !.todo = @ \ {d}]
      OBVIOUS
    <3>3. PICK b : b = [a EXCEPT !.sent = {}]
      OBVIOUS
    <3>4. PICK x : x = [b EXCEPT !.slow = @ \ {d}]
      OBVIOUS
    <3>5. x = [at |-> v.at, target |-> v.target, only |-> v.only, todo |-> v.todo \ {d}, tries |-> v.tries,
               seen |-> v.seen, flag |-> v.flag, sent |-> {}, slow |-> v.slow \ {d}]
      BY <3>1, <3>2, <3>3, <3>4
    <3>6. x = [v EXCEPT !.todo = @ \ {d}, !.sent = {}, !.slow = @ \ {d}]
      BY <3>2, <3>3, <3>4, Zenon
    <3>7. x \in Run /\ x.todo = v.todo \ {d} /\ x.slow = v.slow \ {d} /\ x.tries = v.tries
          /\ x.sent = {} /\ x.at = v.at
      BY <1>0, <3>5 DEF Run
    <3>8. Shaped(x)
      BY <1>0, <2>2, <3>7, FS_EmptySet DEF Shaped
    <3>9. run' = [run EXCEPT ![r] = x]
      BY <2>2, <3>6, Zenon DEF Write
    <3> QED
      BY <3>7, <3>8, <3>9
  <2> QED
    BY <2>1, <2>2
<1>2. /\ run' \in [Runs -> Run] /\ run'[r] = x
      /\ \A q \in Runs : q # r => run'[q] = run[q]
      /\ \A q \in Runs : Shaped(run'[q])
  BY <1>1, RunStep DEF WebhooksInv
<1>3. /\ row' \in [Deliveries -> Row]
      /\ \A c \in Deliveries : c # d => row'[c] = row[c]
      /\ \/ row'[d].status \in {"delivered", "failed"} /\ row'[d].attempts = 0
         \/ /\ row'[d].status = "pending" /\ row'[d].due > 0
            /\ row'[d].attempts = row[d].attempts /\ row'[d].lost = row[d].lost
            /\ row[d].status = "pending" /\ run[r].tries[d] < MaxAttempts
         \/ row'[d] = row[d] /\ row[d].status # "pending"
  BY <1>0 DEF Write, Outcome
<1>4. \A q \in Runs, c \in Deliveries :
        c \in run'[q].todo =>
          /\ c \in run[q].todo /\ (q = r => c # d)
          /\ run'[q].tries[c] = run[q].tries[c] /\ (c \in run'[q].slow <=> c \in run[q].slow)
  BY <1>1, <1>2
<1>5. \A q \in Runs, c \in Deliveries :
        c \in run[q].todo /\ (q = r => c # d) => c \in run'[q].todo
  BY <1>1, <1>2
<1>6. TypeOK'
  BY <1>2, <1>3 DEF WebhooksInv, TypeOK, Shaped, Write
<1>7. Leases'
  <2> SUFFICES ASSUME NEW q \in Runs, NEW c \in Deliveries, c \in run'[q].todo
               PROVE  /\ row'[c].status # "absent"
                      /\ run'[q].tries[c] >= 1
                      /\ c \notin run'[q].slow =>
                           /\ row'[c].status \in {"pending", "deleted"}
                           /\ row'[c].status = "pending" => row'[c].due > 0
                           /\ \A p \in Runs : c \in run'[p].todo => p = q
    BY DEF Leases, Holds
  <2>1. CASE c # d
    BY <1>3, <1>4, <2>1 DEF WebhooksInv, Leases, Holds
  <2>2. CASE c = d
    <3>1. q # r /\ d \in run[q].slow
      BY <1>0, <1>4, <2>2 DEF WebhooksInv, Leases, Holds
    <3>2. row'[d].status # "absent"
      BY <1>0, <1>3 DEF WebhooksInv, Leases, Holds
    <3> QED
      BY <1>4, <2>2, <3>1, <3>2 DEF WebhooksInv, Leases, Holds
  <2> QED
    BY <2>1, <2>2
<1>8. LastIsHeld'
  <2> SUFFICES ASSUME NEW c \in Deliveries, LastAttempt(c)', ~row'[c].lost
               PROVE  /\ row'[c].due > 0
                      /\ \E q \in Runs : c \in run'[q].todo /\ run'[q].tries[c] >= MaxAttempts
    BY DEF LastIsHeld, Holds
  <2>1. LastAttempt(c) /\ ~row[c].lost
    BY <1>3 DEF LastAttempt
  <2>2. PICK q \in Runs : row[c].due > 0 /\ c \in run[q].todo /\ run[q].tries[c] >= MaxAttempts
    BY <2>1 DEF WebhooksInv, LastIsHeld, Holds
  <2>3. q = r => c # d
    <3> SUFFICES ASSUME q = r, c = d PROVE FALSE
      OBVIOUS
    <3>1. run[r].tries[d] < MaxAttempts
      BY <1>3, <2>1 DEF LastAttempt
    <3> QED
      BY <1>0, <2>2, <3>1, WebhooksAssumption DEF Run
  <2>4. c \in run'[q].todo /\ run'[q].tries[c] >= MaxAttempts
    BY <1>4, <1>5, <2>2, <2>3
  <2>5. row'[c].due > 0
    BY <1>3, <2>2 DEF LastAttempt
  <2> QED
    BY <2>4, <2>5
<1>9. AttemptsBounded'
  BY <1>3, WebhooksAssumption DEF WebhooksInv, AttemptsBounded
<1> QED
  BY <1>6, <1>7, <1>8, <1>9 DEF WebhooksInv

\* Refused, delivered, failed or due again: the run still holds what it posted.
LEMMA OutcomeInv ==
  ASSUME WebhooksInv, NEW r \in Runs, Refuse(r) \/ Succeed(r) \/ Fail(r)
  PROVE  WebhooksInv'
<1>0. /\ run[r] \in Run /\ row \in [Deliveries -> Row]
      /\ run[r].todo \subseteq Deliveries /\ run[r].sent \subseteq run[r].todo
  BY DEF WebhooksInv, TypeOK, Run
<1>1. \A d \in Deliveries, s \in {"delivered", "failed"} : Outcome(r, d, Settle(d, s))
  <2> SUFFICES ASSUME NEW d \in Deliveries, NEW s \in {"delivered", "failed"}
               PROVE  Outcome(r, d, Settle(d, s))
    OBVIOUS
  <2>1. Closed(d, s) \in Row /\ Closed(d, s).status = s /\ Closed(d, s).attempts = 0
    BY <1>0, RowsTyped
  <2>2. PICK w \in Row : w = Closed(d, s)
    BY <2>1
  <2>3. PICK rows : rows = [row EXCEPT ![d] = w]
    OBVIOUS
  <2>4. Settle(d, s) = rows
    BY <2>2, <2>3 DEF Settle
  <2>5. /\ rows \in [Deliveries -> Row] /\ rows[d].status = s /\ rows[d].attempts = 0
        /\ \A c \in Deliveries : c # d => rows[c] = row[c]
    BY <1>0, <2>1, <2>2, <2>3
  <2> QED
    BY <2>4, <2>5 DEF Outcome
<1>2. CASE Refuse(r)
  <2>1. PICK d \in run[r].todo : Write(r, d, Settle(d, "failed"))
    BY <1>2 DEF Refuse
  <2> QED
    BY <1>0, <1>1, <2>1, WriteInv DEF Holds
<1>3. CASE Succeed(r)
  <2>1. PICK d \in run[r].sent : Write(r, d, Settle(d, "delivered"))
    BY <1>3 DEF Succeed
  <2> QED
    BY <1>0, <1>1, <2>1, WriteInv DEF Holds
<1>4. CASE Fail(r)
  <2>1. PICK d \in run[r].sent :
          Write(r, d, IF Exhausted(run[r].tries[d]) THEN Settle(d, "failed")
                      ELSE IF row[d].status = "pending"
                           THEN [row EXCEPT ![d].due = NextDelay(run[r].tries[d])]
                           ELSE row)
    BY <1>4 DEF Fail
  <2>2. d \in Deliveries /\ Holds(r, d)
    BY <1>0 DEF Holds
  <2>3. PICK rows : Write(r, d, rows) /\
          rows = IF Exhausted(run[r].tries[d]) THEN Settle(d, "failed")
                 ELSE IF row[d].status = "pending"
                      THEN [row EXCEPT ![d].due = NextDelay(run[r].tries[d])]
                      ELSE row
    BY <2>1
  <2>4. Outcome(r, d, rows)
    <3>1. CASE Exhausted(run[r].tries[d])
      BY <1>1, <2>2, <2>3, <3>1
    <3>2. CASE ~Exhausted(run[r].tries[d]) /\ row[d].status # "pending"
      <4>1. rows = row
        BY <2>3, <3>2
      <4> QED
        BY <1>0, <3>2, <4>1 DEF Outcome
    <3>3. CASE ~Exhausted(run[r].tries[d]) /\ row[d].status = "pending"
      <4>1. run[r].tries[d] \in Nat /\ run[r].tries[d] >= 1
        BY <1>0, <2>2, WebhooksAssumption DEF WebhooksInv, Leases, Run
      <4>2. run[r].tries[d] < MaxAttempts
        BY <3>3, <4>1, WebhooksAssumption DEF Exhausted
      <4>3. PICK n \in Int : n = NextDelay(run[r].tries[d]) /\ n > 0
        BY <4>1, <4>2, WebhooksAssumption DEF NextDelay
      <4>4. rows = [row EXCEPT ![d].due = n]
        BY <2>3, <3>3, <4>3
      <4>5. /\ rows \in [Deliveries -> Row] /\ rows[d].due = n /\ rows[d].status = row[d].status
            /\ rows[d].attempts = row[d].attempts /\ rows[d].lost = row[d].lost
            /\ \A c \in Deliveries : c # d => rows[c] = row[c]
        BY <1>0, <2>2, <4>3, <4>4 DEF Row
      <4> QED
        BY <3>3, <4>2, <4>3, <4>5 DEF Outcome
    <3> QED
      BY <3>1, <3>2, <3>3
  <2> QED
    BY <2>2, <2>3, <2>4, WriteInv
<1> QED
  BY <1>2, <1>3, <1>4

-----------------------------------------------------------------------------
(* Death, endpoints, time                                                  *)

\* A note in the history of a delivery changes nothing else of it.
LEMMA NotedIs ==
  ASSUME NEW v \in Row, NEW l \in BOOLEAN, NEW w, w = [v EXCEPT !.lost = l]
  PROVE  /\ w \in Row /\ w.lost = l /\ w.status = v.status
         /\ w.due = v.due /\ w.attempts = v.attempts
  BY DEF Row

\* Nor does its age.
Older(v, n, l) == [v EXCEPT !.due = n, !.lost = l]

LEMMA OlderIs ==
  ASSUME NEW v \in Row, NEW n \in Int, NEW l \in BOOLEAN
  PROVE  /\ Older(v, n, l) \in Row /\ Older(v, n, l).lost = l /\ Older(v, n, l).status = v.status
         /\ Older(v, n, l).due = n /\ Older(v, n, l).attempts = v.attempts
<1>1. v = [status |-> v.status, endpoint |-> v.endpoint, attempts |-> v.attempts, due |-> v.due,
           lost |-> v.lost]
  BY DEF Row
<1>2. PICK a : a = [v EXCEPT !.due = n]
  OBVIOUS
<1>3. PICK b : b = [a EXCEPT !.lost = l]
  OBVIOUS
<1>4. b = [status |-> v.status, endpoint |-> v.endpoint, attempts |-> v.attempts, due |-> n, lost |-> l]
  BY <1>1, <1>2, <1>3
<1>5. Older(v, n, l) = b
  BY <1>2, <1>3, Zenon DEF Older
<1>6. b \in Row /\ b.lost = l /\ b.status = v.status /\ b.due = n /\ b.attempts = v.attempts
  BY <1>4 DEF Row
<1> QED
  BY <1>5, <1>6

\* The run dies: another holder of a last attempt goes on, or the attempt is lost.
LEMMA DieInv == ASSUME WebhooksInv, NEW r \in Runs, Die(r) PROVE WebhooksInv'
<1>0. run \in [Runs -> Run] /\ row \in [Deliveries -> Row]
  BY DEF WebhooksInv, TypeOK
<1>1. \A d \in Deliveries :
        /\ row'[d] \in Row /\ row'[d].status = row[d].status /\ row'[d].due = row[d].due
        /\ row'[d].attempts = row[d].attempts
        /\ row'[d].lost <=> row[d].lost \/ (Holds(r, d) /\ LastAttempt(d))
  <2> SUFFICES ASSUME NEW d \in Deliveries
               PROVE  /\ row'[d] \in Row /\ row'[d].status = row[d].status /\ row'[d].due = row[d].due
                      /\ row'[d].attempts = row[d].attempts
                      /\ row'[d].lost <=> row[d].lost \/ (Holds(r, d) /\ LastAttempt(d))
    OBVIOUS
  <2>1. PICK l \in BOOLEAN : l = (row[d].lost \/ (Holds(r, d) /\ LastAttempt(d)))
    BY Zenon
  <2>2. row'[d] = [row[d] EXCEPT !.lost = l]
    BY <2>1, Zenon DEF Die
  <2>3. row[d] \in Row /\ 0 \in Int
    BY <1>0
  <2>4. PICK w : w = [row[d] EXCEPT !.lost = l]
    OBVIOUS
  <2>5. /\ w \in Row /\ w.lost = l /\ w.status = row[d].status
        /\ w.due = row[d].due /\ w.attempts = row[d].attempts
    BY <2>3, <2>4, NotedIs
  <2> QED
    BY <2>1, <2>2, <2>4, <2>5
<1>2. row' \in [Deliveries -> Row]
  BY <1>1 DEF Die
<1>3. /\ run' \in [Runs -> Run] /\ run'[r] = Idle
      /\ \A q \in Runs : q # r => run'[q] = run[q]
      /\ \A q \in Runs : Shaped(run'[q])
  BY IdleRun, RunStep DEF WebhooksInv, Die
<1>4. \A q \in Runs, d \in Deliveries : d \in run'[q].todo => q # r /\ d \in run[q].todo
  BY <1>3, IdleRun
<1>5. TypeOK'
  BY <1>2, <1>3 DEF WebhooksInv, TypeOK, Shaped, Die
<1>6. Leases'
  BY <1>1, <1>3, <1>4 DEF WebhooksInv, Leases, Holds
<1>7. LastIsHeld'
  BY <1>1, <1>3 DEF WebhooksInv, LastIsHeld, LastAttempt, Holds
<1>8. AttemptsBounded'
  BY <1>1 DEF WebhooksInv, AttemptsBounded
<1> QED
  BY <1>5, <1>6, <1>7, <1>8 DEF WebhooksInv

\* Deliveries go with their endpoint, whoever holds them.
LEMMA DeleteInv == ASSUME WebhooksInv, Delete PROVE WebhooksInv'
<1>1. PICK e \in Endpoints :
        /\ endpoint' = [endpoint EXCEPT ![e] = "deleted"]
        /\ row' = [d \in Deliveries |->
             IF row[d].endpoint = e /\ row[d].status # "absent"
             THEN Closed(d, "deleted") ELSE row[d]]
  BY DEF Delete
<1>2. row' \in [Deliveries -> Row] /\ \A d \in Deliveries :
        \/ row'[d] = row[d]
        \/ row'[d].status = "deleted" /\ row'[d].attempts = 0
  BY <1>1, RowsTyped DEF WebhooksInv, TypeOK
<1>3. enabled' = enabled /\ run' = run
  BY DEF Delete
<1>4. endpoint' \in [Endpoints -> {"active", "paused", "deleted"}]
  BY <1>1 DEF WebhooksInv, TypeOK
<1>5. TypeOK'
  BY <1>2, <1>3, <1>4 DEF WebhooksInv, TypeOK
<1>6. Leases'
  BY <1>2, <1>3 DEF WebhooksInv, Leases, Holds
<1>7. LastIsHeld'
  BY <1>2, <1>3 DEF WebhooksInv, LastIsHeld, LastAttempt, Holds
<1>8. AttemptsBounded'
  BY <1>2, WebhooksAssumption DEF WebhooksInv, AttemptsBounded
<1> QED
  BY <1>5, <1>6, <1>7, <1>8 DEF WebhooksInv

\* Pausing, resuming and switching touch no delivery.
LEMMA SwitchInv == ASSUME WebhooksInv, Toggle \/ SwitchFeature PROVE WebhooksInv'
<1>1. UNCHANGED <<row, run>>
  BY DEF Toggle, SwitchFeature
<1>2. enabled' \in BOOLEAN /\ endpoint' \in [Endpoints -> {"active", "paused", "deleted"}]
  BY DEF WebhooksInv, TypeOK, Toggle, SwitchFeature
<1> QED
  BY <1>1, <1>2 DEF WebhooksInv, TypeOK, Leases, LastIsHeld, LastAttempt, Holds, AttemptsBounded

\* A time that grew older is a time.
LEMMA AgedIs == ASSUME WebhooksInv, NEW d \in Pending PROVE Aged(d) \in Int
<1>1. row \in [Deliveries -> Row] /\ d \in Deliveries /\ row[d].due \in Int
  BY DEF WebhooksInv, TypeOK, Pending, Row
<1>2. PICK younger : younger = {c \in Pending : row[c].due < row[d].due}
  OBVIOUS
<1>3. IsFiniteSet(younger)
  BY <1>2, FS_Subset, WebhooksAssumption DEF Pending
<1>4. PICK older : older = {row[c].due : c \in younger}
  OBVIOUS
<1>5. [c \in younger |-> row[c].due] \in Surjection(younger, older)
  BY <1>4 DEF Surjection
<1>6. IsFiniteSet(older)
  BY <1>3, <1>5, FS_Surjection
<1>7. Cardinality(older) \in Int /\ Cardinality(Deliveries) \in Int
  BY <1>6, FS_CardinalityType, WebhooksAssumption
<1>8. Aged(d) = IF row[d].due - 1 < Cardinality(older) + 1 - Cardinality(Deliveries)
                THEN Cardinality(older) + 1 - Cardinality(Deliveries) ELSE row[d].due - 1
  BY <1>2, <1>4, Zenon DEF Aged
<1> QED
  BY <1>1, <1>7, <1>8

\* The run y, slow for more of what it holds.
Slower(y, more) == [y EXCEPT !.slow = @ \union more]

\* It is a run, and differs in nothing else.
LEMMA SlowerRun ==
  ASSUME NEW y \in Run, NEW more \in SUBSET Deliveries
  PROVE  /\ Slower(y, more) \in Run
         /\ Slower(y, more).todo = y.todo /\ Slower(y, more).tries = y.tries
         /\ Slower(y, more).slow = y.slow \union more
         /\ Slower(y, more).sent = y.sent /\ Slower(y, more).at = y.at
<1>1. y.slow \union more \in SUBSET Deliveries
  BY DEF Run
<1> QED BY <1>1 DEF Run, Slower

\* Time passes: what is still held and was not slower than its lease is not due.
LEMMA TickInv == ASSUME WebhooksInv, Tick PROVE WebhooksInv'
<1>0. run \in [Runs -> Run] /\ row \in [Deliveries -> Row] /\ Pending \subseteq Deliveries
  BY DEF WebhooksInv, TypeOK, Pending
<1>1. PICK overrun \in [Runs -> SUBSET Deliveries] :
        /\ \A r \in Runs : overrun[r] = {d \in run[r].todo \intersect Pending : Aged(d) <= 0}
        /\ row' = [d \in Deliveries |->
             IF d \in Pending
             THEN [row[d] EXCEPT !.due = Aged(d),
                     !.lost = @ \/ (LastAttempt(d) /\ \E r \in Runs : d \in overrun[r])]
             ELSE row[d]]
        /\ run' = [r \in Runs |-> [run[r] EXCEPT !.slow = @ \union overrun[r]]]
  <2>1. PICK o : o = [r \in Runs |-> {d \in run[r].todo \intersect Pending : Aged(d) <= 0}]
    OBVIOUS
  <2>2. o \in [Runs -> SUBSET Deliveries]
    BY <1>0, <2>1
  <2>3. \A r \in Runs : o[r] = {d \in run[r].todo \intersect Pending : Aged(d) <= 0}
    BY <2>1
  <2>4. row' = [d \in Deliveries |->
             IF d \in Pending
             THEN [row[d] EXCEPT !.due = Aged(d),
                     !.lost = @ \/ (LastAttempt(d) /\ \E r \in Runs : d \in o[r])]
             ELSE row[d]]
    BY <2>3, Zenon DEF Tick
  <2>5. run' = [r \in Runs |-> [run[r] EXCEPT !.slow = @ \union o[r]]]
    BY <2>3, Zenon DEF Tick
  <2> QED
    BY <2>2, <2>3, <2>4, <2>5
<1>2. \A d \in Pending :
        /\ row'[d] \in Row /\ row'[d].status = row[d].status /\ row'[d].due = Aged(d)
        /\ row'[d].attempts = row[d].attempts
        /\ row'[d].lost <=> row[d].lost \/ (LastAttempt(d) /\ \E r \in Runs : d \in overrun[r])
  <2> SUFFICES ASSUME NEW d \in Pending
               PROVE  /\ row'[d] \in Row /\ row'[d].status = row[d].status /\ row'[d].due = Aged(d)
                      /\ row'[d].attempts = row[d].attempts
                      /\ row'[d].lost <=>
                           row[d].lost \/ (LastAttempt(d) /\ \E r \in Runs : d \in overrun[r])
    OBVIOUS
  <2>1. PICK l \in BOOLEAN : l = (row[d].lost \/ (LastAttempt(d) /\ \E r \in Runs : d \in overrun[r]))
    BY Zenon
  <2>2. row'[d] = Older(row[d], Aged(d), l)
    BY <1>0, <1>1, <2>1, Zenon DEF Older
  <2>3. row[d] \in Row /\ Aged(d) \in Int
    BY <1>0, AgedIs
  <2>4. /\ row'[d] \in Row /\ row'[d].lost = l /\ row'[d].status = row[d].status
        /\ row'[d].due = Aged(d) /\ row'[d].attempts = row[d].attempts
    BY <2>2, <2>3, OlderIs
  <2> QED
    BY <2>1, <2>4
<1>3. \A d \in Deliveries : d \notin Pending => row'[d] = row[d]
  BY <1>1
<1>4. row' \in [Deliveries -> Row]
  BY <1>0, <1>1, <1>2, <1>3
<1>5. \A r \in Runs :
        /\ run'[r] \in Run /\ Shaped(run'[r])
        /\ run'[r].todo = run[r].todo /\ run'[r].tries = run[r].tries
        /\ run'[r].slow = run[r].slow \union overrun[r]
  <2> SUFFICES ASSUME NEW r \in Runs
               PROVE  /\ run'[r] \in Run /\ Shaped(run'[r])
                      /\ run'[r].todo = run[r].todo /\ run'[r].tries = run[r].tries
                      /\ run'[r].slow = run[r].slow \union overrun[r]
    OBVIOUS
  <2>1. PICK x : x = [run[r] EXCEPT !.slow = @ \union overrun[r]]
    OBVIOUS
  <2>2. overrun[r] \subseteq run[r].todo
    BY <1>1
  <2>3. x \in Run /\ x.todo = run[r].todo /\ x.tries = run[r].tries
        /\ x.slow = run[r].slow \union overrun[r] /\ x.sent = run[r].sent /\ x.at = run[r].at
    <3>1. run[r] \in Run /\ overrun[r] \in SUBSET Deliveries
      BY <1>0, <1>1
    <3>2. x = Slower(run[r], overrun[r])
      BY <2>1, Zenon DEF Slower
    <3> QED BY <3>1, <3>2, SlowerRun
  <2>4. Shaped(x)
    BY <2>2, <2>3 DEF Shaped, WebhooksInv, TypeOK
  <2> QED
    BY <1>1, <2>1, <2>3, <2>4
<1>6. run' \in [Runs -> Run]
  BY <1>1, <1>5
<1>7. TypeOK'
  BY <1>4, <1>5, <1>6 DEF WebhooksInv, TypeOK, Shaped, Tick
<1>8. \A d \in Pending, r \in Runs : d \in run[r].todo /\ d \notin overrun[r] => row'[d].due > 0
  <2> SUFFICES ASSUME NEW d \in Pending, NEW r \in Runs, d \in run[r].todo, d \notin overrun[r]
               PROVE  row'[d].due > 0
    OBVIOUS
  <2>1. Aged(d) \in Int /\ ~(Aged(d) <= 0)
    BY <1>1, AgedIs
  <2>2. row'[d].due = Aged(d)
    BY <1>2
  <2> QED
    BY <2>1, <2>2
<1>9. \A d \in Deliveries : row'[d].status = row[d].status /\ row'[d].attempts = row[d].attempts
  BY <1>2, <1>3
<1>a. Leases'
  <2> SUFFICES ASSUME NEW q \in Runs, NEW d \in Deliveries, d \in run'[q].todo
               PROVE  /\ row'[d].status # "absent"
                      /\ run'[q].tries[d] >= 1
                      /\ d \notin run'[q].slow =>
                           /\ row'[d].status \in {"pending", "deleted"}
                           /\ row'[d].status = "pending" => row'[d].due > 0
                           /\ \A p \in Runs : d \in run'[p].todo => p = q
    BY DEF Leases, Holds
  <2>1. row'[d].status = "pending" => d \in Pending
    BY <1>9 DEF Pending
  <2> QED
    BY <1>5, <1>8, <1>9, <2>1 DEF WebhooksInv, Leases, Holds
<1>b. LastIsHeld'
  <2> SUFFICES ASSUME NEW d \in Deliveries, LastAttempt(d)', ~row'[d].lost
               PROVE  /\ row'[d].due > 0
                      /\ \E q \in Runs : d \in run'[q].todo /\ run'[q].tries[d] >= MaxAttempts
    BY DEF LastIsHeld, Holds
  <2>1. LastAttempt(d) /\ d \in Pending
    BY <1>9 DEF LastAttempt, Pending
  <2>2. ~row[d].lost /\ \A r \in Runs : d \notin overrun[r]
    BY <1>2, <2>1
  <2>3. PICK q \in Runs : d \in run[q].todo /\ run[q].tries[d] >= MaxAttempts
    BY <2>1, <2>2 DEF WebhooksInv, LastIsHeld, Holds
  <2> QED
    BY <1>5, <1>8, <2>1, <2>2, <2>3
<1>c. AttemptsBounded'
  BY <1>2, <1>3, <1>9 DEF WebhooksInv, AttemptsBounded
<1> QED
  BY <1>7, <1>a, <1>b, <1>c DEF WebhooksInv

-----------------------------------------------------------------------------
(* What the lease and the count are for                                    *)

LEMMA StepInv == WebhooksInv /\ [Next]_vars => WebhooksInv'
<1> SUFFICES ASSUME WebhooksInv, [Next]_vars PROVE WebhooksInv'
  OBVIOUS
<1>1. ASSUME NEW r \in Runs, Emit(r) \/ Ping(r) \/ Cron(r) \/ Step(r) \/ Die(r)
      PROVE  WebhooksInv'
  <2>1. CASE Claim(r) \/ Cron(r)
    <3>1. run[r].todo = {}
      BY <2>1 DEF WebhooksInv, TypeOK, Claim, Cron
    <3>2. PICK only : ClaimFrom(r, only)
      BY <2>1 DEF Claim, Cron
    <3> QED
      BY <3>1, <3>2, ClaimInv
  <2>2. CASE Enqueue(r)
    BY <2>2, EnqueueInv
  <2>3. CASE Refuse(r) \/ Succeed(r) \/ Fail(r)
    BY <2>3, OutcomeInv
  <2>4. CASE Die(r)
    BY <2>4, DieInv
  <2>5. CASE Emit(r) \/ Ping(r) \/ AskFeature(r) \/ ReadEndpoints(r) \/ ReadFlag(r) \/ Post(r)
    BY <2>5, ReadInv
  <2> QED
    BY <1>1, <2>1, <2>2, <2>3, <2>4, <2>5 DEF Step
<1>2. CASE UNCHANGED vars
  BY <1>2 DEF vars, WebhooksInv, TypeOK, Leases, LastIsHeld, LastAttempt, Holds, AttemptsBounded
<1>3. CASE Toggle \/ SwitchFeature
  BY <1>3, SwitchInv
<1> QED
  BY <1>1, <1>2, <1>3, DeleteInv, TickInv DEF Next

\* Leases and counted attempts, in every state.
THEOREM WebhooksInvariant == Spec => []WebhooksInv
<1> QED
  BY InitInv, StepInv, PTL DEF Spec

\* Tables and runs keep their types, and a run that sends has posted nothing but one
\* delivery that it claimed.
THEOREM WebhooksTyped == Spec => []TypeOK
<1>1. WebhooksInv => TypeOK
  BY DEF WebhooksInv
<1> QED
  BY <1>1, WebhooksInvariant, PTL

\* A delivery is in the hands of one run, unless some run was slower than its lease.
THEOREM LeaseApart == Spec => []LeaseKeepsApart
<1>1. WebhooksInv => LeaseKeepsApart
  <2> SUFFICES ASSUME WebhooksInv, NEW d \in Deliveries, ~Slow(d)
               PROVE  Cardinality({r \in Runs : Holds(r, d)}) <= 1
    BY DEF LeaseKeepsApart
  <2>1. \A p, q \in Runs : Holds(p, d) /\ Holds(q, d) => p = q
    BY DEF WebhooksInv, Leases, Slow
  <2>2. PICK held : held = {r \in Runs : Holds(r, d)}
    OBVIOUS
  <2>3. Cardinality(held) <= 1
    <3>1. CASE held = {}
      BY <3>1, FS_EmptySet
    <3>2. CASE held # {}
      <4>1. PICK q : q \in held
        BY <3>2
      <4>2. \A r \in held : r = q
        BY <2>1, <2>2, <4>1
      <4>3. held = {q}
        BY <4>1, <4>2
      <4>4. Cardinality({q}) = 1
        BY FS_Singleton, Zenon
      <4> QED BY <4>3, <4>4
    <3> QED BY <3>1, <3>2
  <2> QED
    BY <2>2, <2>3
<1> QED
  BY <1>1, WebhooksInvariant, PTL

\* No delivery is attempted more often than the maximum, unless the run of the last
\* attempt died or was slower than its lease.
THEOREM AttemptsAreBounded == Spec => []AttemptsBounded
<1>1. WebhooksInv => AttemptsBounded
  BY DEF WebhooksInv
<1> QED
  BY <1>1, WebhooksInvariant, PTL

\* Nobody who is not slow holds a delivery that is settled, so nobody writes it again.
LEMMA OutcomeStays ==
  ASSUME WebhooksInv, [Next]_vars, NEW d \in Deliveries,
         row[d].status \in {"delivered", "failed"}, ~Slow(d)
  PROVE  row'[d].status \in {row[d].status, "deleted"}
<1>0. run \in [Runs -> Run] /\ row \in [Deliveries -> Row]
  BY DEF WebhooksInv, TypeOK
<1>1. \A r \in Runs : d \notin run[r].todo
  BY DEF WebhooksInv, Leases, Slow, Holds
<1>2. ASSUME NEW r \in Runs, NEW c \in run[r].todo, NEW s, Write(r, c, Settle(c, s))
      PROVE  row'[d] = row[d]
  BY <1>0, <1>1, <1>2 DEF Write, Settle
<1>3. ASSUME NEW r \in Runs, Emit(r) \/ Ping(r) \/ Cron(r) \/ Step(r) \/ Die(r)
      PROVE  row'[d].status = row[d].status
  <2>1. CASE Claim(r) \/ Cron(r)
    <3>1. PICK chosen \in SUBSET Deliveries :
            /\ chosen \subseteq Due
            /\ row' = [c \in Deliveries |-> IF c \in chosen THEN Leased(c) ELSE row[c]]
      BY <2>1 DEF Claim, Cron, ClaimFrom, FirstDue, AnyDue
    <3>2. d \notin chosen
      BY <3>1 DEF Due, Pending
    <3> QED
      BY <3>1, <3>2
  <2>2. CASE Enqueue(r)
    <3>1. PICK ids \in SUBSET Unused : \E of :
            row' = [c \in Deliveries |-> IF c \in ids THEN Written(of[c]) ELSE row[c]]
      BY <2>2 DEF Enqueue, kSubset
    <3>2. d \notin ids
      BY <3>1 DEF Unused
    <3> QED
      BY <3>1, <3>2
  <2>3. CASE Refuse(r)
    <3>1. PICK c \in run[r].todo : Write(r, c, Settle(c, "failed"))
      BY <2>3 DEF Refuse
    <3> QED
      BY <1>2, <3>1
  <2>4. CASE Succeed(r)
    <3>1. PICK c \in run[r].sent : Write(r, c, Settle(c, "delivered"))
      BY <2>4 DEF Succeed
    <3>2. c \in run[r].todo
      BY DEF WebhooksInv, TypeOK
    <3> QED
      BY <1>2, <3>1, <3>2
  <2>5. CASE Fail(r)
    <3>1. PICK c \in run[r].sent :
            Write(r, c, IF Exhausted(run[r].tries[c]) THEN Settle(c, "failed")
                        ELSE IF row[c].status = "pending"
                             THEN [row EXCEPT ![c].due = NextDelay(run[r].tries[c])]
                             ELSE row)
      BY <2>5 DEF Fail
    <3>2. c \in run[r].todo /\ c # d
      BY <1>1 DEF WebhooksInv, TypeOK
    <3>3. CASE Exhausted(run[r].tries[c])
      BY <1>2, <3>1, <3>2, <3>3
    <3>4. CASE ~Exhausted(run[r].tries[c])
      <4>1. row' \in {row, [row EXCEPT ![c].due = NextDelay(run[r].tries[c])]}
        BY <3>1, <3>4 DEF Write
      <4> QED
        BY <1>0, <3>2, <4>1
    <3> QED
      BY <3>3, <3>4
  <2>6. CASE Die(r)
    <3>1. row'[d] = [row[d] EXCEPT !.lost = @ \/ (Holds(r, d) /\ LastAttempt(d))]
      BY <2>6, Zenon DEF Die
    <3> QED
      BY <1>0, <3>1 DEF Row
  <2>7. CASE Emit(r) \/ Ping(r) \/ AskFeature(r) \/ ReadEndpoints(r) \/ ReadFlag(r) \/ Post(r)
    BY <2>7 DEF Emit, Ping, AskFeature, ReadEndpoints, ReadFlag, Post
  <2> QED
    BY <1>3, <2>1, <2>2, <2>3, <2>4, <2>5, <2>6, <2>7 DEF Step
<1>4. CASE Delete
  BY <1>0, <1>4, RowsTyped DEF Delete
<1>5. CASE Tick
  <2>1. d \notin Pending
    BY DEF Pending
  <2>2. row'[d] = row[d]
    BY <1>5, <2>1, Zenon DEF Tick
  <2> QED
    BY <2>2
<1>6. CASE Toggle \/ SwitchFeature \/ UNCHANGED vars
  BY <1>6 DEF Toggle, SwitchFeature, vars
<1> QED
  BY <1>3, <1>4, <1>5, <1>6 DEF Next

\* What was delivered or given up is not touched again, unless a run was slow.
THEOREM SettledStays == Spec => SettledIsFinal
<1> DEFINE Stays == \A d \in Deliveries :
       row[d].status \in {"delivered", "failed"} /\ ~Slow(d)
         => row'[d].status \in {row[d].status, "deleted"}
<1>1. WebhooksInv /\ [Next]_vars => [Stays]_vars
  BY OutcomeStays
<1> QED
  BY <1>1, WebhooksInvariant, PTL DEF Spec, SettledIsFinal

=============================================================================
