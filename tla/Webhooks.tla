-------------------------------- MODULE Webhooks --------------------------------
(***************************************************************************)
(* Outgoing webhooks of one mosque (lib/webhooks-db.ts, the retry rules of  *)
(* lib/webhooks.ts). An event writes one delivery for each active endpoint; *)
(* runs of deliverDueWebhooks claim deliveries that are due, post them and  *)
(* write what came of it.                                                  *)
(*                                                                         *)
(* There is no lock between runs: a claim counts an attempt and leases the  *)
(* delivery by moving its next_attempt_at into the future, and what a run   *)
(* writes afterwards is guarded by the id alone. A run may be slower than   *)
(* its lease and may die anywhere.                                         *)
(*                                                                         *)
(* Payload, signature and address are left out, an endpoint's list of       *)
(* events is taken as empty, which subscribes it to all.                    *)
(***************************************************************************)
EXTENDS Integers, FiniteSets, FiniteSetsExt, Functions

CONSTANTS
  Endpoints,    \* ids of webhook_endpoints
  Deliveries,   \* ids webhook_outbox may give out
  Runs,         \* requests and cron runs in flight at once
  Limit,        \* deliveries one run claims
  Lease,        \* ticks a claim moves next_attempt_at, ten minutes in the code
  MaxAttempts,  \* MAX_ATTEMPTS
  Delay         \* BACKOFF_SECONDS in ticks, by attempts made

ASSUME WebhooksAssumption ==
  /\ Endpoints # {} /\ IsFiniteSet(Deliveries)
  /\ Limit \in Nat \ {0} /\ Lease \in Nat \ {0} /\ MaxAttempts \in Nat \ {0}
  /\ Delay \in [1..(MaxAttempts - 1) -> Nat \ {0}]

VARIABLES
  endpoint,   \* webhook_endpoints: active, paused or deleted
  enabled,    \* feature integrations of the mosque
  row,        \* webhook_outbox
  run         \* what each request or run is doing

vars == <<endpoint, enabled, row, run>>

\* due is next_attempt_at, in ticks from now; attempts beyond the maximum count as one
\* beyond; lost, a history: the run of the last attempt allowed died or was slower than
\* its lease. Nothing reads due and attempts of a row once it is settled: they are 0.
Row == [status   : {"absent", "pending", "delivered", "failed", "deleted"},
        endpoint : Endpoints,
        attempts : 0..(MaxAttempts + 1),
        due      : Int,
        lost     : BOOLEAN]

Written(e) ==
  [status |-> "pending", endpoint |-> e, attempts |-> 0, due |-> 0, lost |-> FALSE]

Unwritten == [Written(CHOOSE e \in Endpoints : TRUE) EXCEPT !.status = "absent"]

\* target: the endpoints an event is for; only: the deliveries the claim is restricted
\* to; todo: those claimed and not settled; tries: their attempts when claimed; seen:
\* the endpoints read as active; flag: what was read of the feature; sent: the delivery
\* posted; slow, a history: those whose lease ended while this run held them, or whose
\* previous holder was slow and holds them still.
Run == [at     : {"idle", "asking", "queueing", "claiming", "reading", "sending"},
        target : SUBSET Endpoints,
        only   : SUBSET Deliveries,
        todo   : SUBSET Deliveries,
        tries  : [Deliveries -> 0..(MaxAttempts + 1)],
        seen   : SUBSET Endpoints,
        flag   : {"unread", "on", "off"},
        sent   : SUBSET Deliveries,
        slow   : SUBSET Deliveries]

Idle == [at |-> "idle", target |-> {}, only |-> {}, todo |-> {},
         tries |-> [d \in Deliveries |-> 0], seen |-> {}, flag |-> "unread", sent |-> {},
         slow |-> {}]

Active == {e \in Endpoints : endpoint[e] = "active"}
Pending == {d \in Deliveries : row[d].status = "pending"}
Unused == {d \in Deliveries : row[d].status = "absent"}
DueWhateverStatus == {d \in Deliveries : row[d].status \notin {"absent", "deleted"} /\ row[d].due <= 0}

\* WHERE status = 'pending' AND next_attempt_at <= now()
Due == {d \in Pending : row[d].due <= 0}

Holds(r, d) == d \in run[r].todo
Slow(d) == \E r \in Runs : d \in run[r].slow
LastAttempt(d) == row[d].status = "pending" /\ row[d].attempts >= MaxAttempts

Init ==
  /\ endpoint = [e \in Endpoints |-> "active"]
  /\ enabled = TRUE
  /\ row = [d \in Deliveries |-> Unwritten]
  /\ run = [r \in Runs |-> Idle]

-----------------------------------------------------------------------------
(* Events                                                                  *)

\* emitEvent finds an endpoint subscribed
Emit(r) ==
  /\ run[r].at = "idle"
  /\ Active # {} /\ Unused # {}
  /\ run' = [run EXCEPT ![r] = [Idle EXCEPT !.at = "asking", !.target = Endpoints]]
  /\ UNCHANGED <<endpoint, enabled, row>>

\* The test of one endpoint, active or paused
Ping(r) ==
  /\ run[r].at = "idle" /\ Unused # {}
  /\ \E e \in Endpoints :
       /\ endpoint[e] # "deleted"
       /\ run' = [run EXCEPT ![r] = [Idle EXCEPT !.at = "asking", !.target = {e}, !.only = Deliveries]]
  /\ UNCHANGED <<endpoint, enabled, row>>

\* enqueueWebhookEvent asks whether the feature is on
AskFeature(r) ==
  /\ run[r].at = "asking"
  /\ run' = [run EXCEPT ![r] = IF enabled THEN [@ EXCEPT !.at = "queueing"] ELSE Idle]
  /\ UNCHANGED <<endpoint, enabled, row>>

\* Its INSERT: a delivery for each target active by now. The run after an event is
\* restricted to them, the one after a ping takes whatever is due.
Enqueue(r) ==
  /\ run[r].at = "queueing"
  /\ LET targets == run[r].target \intersect Active
     IN  \E ids \in kSubset(Cardinality(targets), Unused) :
           /\ \E of \in Bijection(ids, targets) :
                row' = [d \in Deliveries |-> IF d \in ids THEN Written(of[d]) ELSE row[d]]
           /\ run' = [run EXCEPT ![r] =
                IF ids = {} THEN Idle
                ELSE [Idle EXCEPT !.at = "claiming", !.only = IF run[r].only = {} THEN ids ELSE run[r].only]]
  /\ UNCHANGED <<endpoint, enabled>>

-----------------------------------------------------------------------------
(* deliverDueWebhooks                                                      *)

AnyDue(chosen, due) ==
  /\ chosen \subseteq due
  /\ Cardinality(chosen) = IF Cardinality(due) < Limit THEN Cardinality(due) ELSE Limit

\* ORDER BY next_attempt_at LIMIT
FirstDue(chosen, due) ==
  /\ AnyDue(chosen, due)
  /\ \A c \in chosen, d \in due \ chosen : row[c].due <= row[d].due

Counted(n) == IF n > MaxAttempts THEN n ELSE n + 1

LeasedNothing(d) == [row[d] EXCEPT !.attempts = Counted(@)]

Leased(d) == [row[d] EXCEPT !.attempts = Counted(@), !.due = Lease]

StartedWith(chosen, rows) ==
  [Idle EXCEPT !.at = "reading", !.todo = chosen,
     !.tries = [d \in Deliveries |-> IF d \in chosen THEN rows[d].attempts ELSE 0],
     !.slow = {d \in chosen : Slow(d)}]

\* A run that claims nothing ends at once
Started(chosen, rows) ==
  IF chosen = {} THEN Idle ELSE StartedWith(chosen, rows)

\* The claim: one UPDATE over those selected FOR UPDATE SKIP LOCKED
ClaimFrom(r, only) ==
  \E chosen \in SUBSET Deliveries :
    /\ FirstDue(chosen, Due \intersect only)
    /\ row' = [d \in Deliveries |-> IF d \in chosen THEN Leased(d) ELSE row[d]]
    /\ run' = [run EXCEPT ![r] = Started(chosen, row')]
    /\ UNCHANGED <<endpoint, enabled>>

Claim(r) == run[r].at = "claiming" /\ ClaimFrom(r, run[r].only)

\* The daily cron, over all that is due
Cron(r) == run[r].at = "idle" /\ Due # {} /\ ClaimFrom(r, Deliveries)

\* One SELECT for the endpoints of all that was claimed
ReadEndpoints(r) ==
  /\ run[r].at = "reading"
  /\ run' = [run EXCEPT ![r].at = "sending", ![r].seen = Active]
  /\ UNCHANGED <<endpoint, enabled, row>>

\* flagCache: the feature is read once, for the first endpoint found active
ReadFlag(r) ==
  /\ run[r].at = "sending" /\ run[r].flag = "unread" /\ run[r].sent = {}
  /\ \E d \in run[r].todo : row[d].endpoint \in run[r].seen
  /\ run' = [run EXCEPT ![r].flag = IF enabled THEN "on" ELSE "off"]
  /\ UNCHANGED <<endpoint, enabled, row>>

Closed(d, status) == [row[d] EXCEPT !.status = status, !.attempts = 0, !.due = 0, !.lost = FALSE]

Settle(d, status) == [row EXCEPT ![d] = Closed(d, status)]

\* UPDATE ... WHERE id: a delivery whose endpoint is deleted is gone
Write(r, d, rows) ==
  /\ row' = IF row[d].status = "deleted" THEN row ELSE rows
  /\ run' = [run EXCEPT ![r] =
       IF run[r].todo = {d} THEN Idle ELSE [run[r] EXCEPT !.todo = @ \ {d}, !.sent = {}, !.slow = @ \ {d}]]
  /\ UNCHANGED <<endpoint, enabled>>

\* The endpoint is gone or paused, or the feature off: failed for good
Refuse(r) ==
  /\ run[r].at = "sending" /\ run[r].sent = {}
  /\ \E d \in run[r].todo :
       /\ row[d].endpoint \notin run[r].seen \/ run[r].flag = "off"
       /\ Write(r, d, Settle(d, "failed"))

\* sendWebhook: the request goes out
Post(r) ==
  /\ run[r].at = "sending" /\ run[r].sent = {} /\ run[r].flag = "on"
  /\ \E d \in run[r].todo :
       /\ row[d].endpoint \in run[r].seen
       /\ run' = [run EXCEPT ![r].sent = {d}]
  /\ UNCHANGED <<endpoint, enabled, row>>

\* A 2xx answer
Succeed(r) ==
  /\ run[r].at = "sending"
  /\ \E d \in run[r].sent : Write(r, d, Settle(d, "delivered"))

ExhaustedLater(n) == n > MaxAttempts

Exhausted(n) == n >= MaxAttempts

\* nextDelaySeconds
NextDelay(n) == Delay[IF n < MaxAttempts THEN n ELSE MaxAttempts - 1]

\* Any other answer, or none: again after a while, or failed for good
Fail(r) ==
  /\ run[r].at = "sending"
  /\ \E d \in run[r].sent :
       Write(r, d, IF Exhausted(run[r].tries[d]) THEN Settle(d, "failed")
                   ELSE IF row[d].status = "pending"
                        THEN [row EXCEPT ![d].due = NextDelay(run[r].tries[d])]
                        ELSE row)

\* The function ends or the database refuses
Die(r) ==
  /\ run[r].at # "idle"
  /\ row' = [d \in Deliveries |-> [row[d] EXCEPT !.lost = @ \/ (Holds(r, d) /\ LastAttempt(d))]]
  /\ run' = [run EXCEPT ![r] = Idle]
  /\ UNCHANGED <<endpoint, enabled>>

-----------------------------------------------------------------------------
(* Endpoints, the feature, time                                            *)

\* setEndpointActive
Toggle ==
  /\ \E e \in Endpoints :
       /\ endpoint[e] # "deleted"
       /\ endpoint' = [endpoint EXCEPT ![e] = IF @ = "active" THEN "paused" ELSE "active"]
  /\ UNCHANGED <<enabled, row, run>>

\* deleteEndpoint, ON DELETE CASCADE
Delete ==
  /\ \E e \in Endpoints :
       /\ endpoint[e] # "deleted"
       /\ endpoint' = [endpoint EXCEPT ![e] = "deleted"]
       /\ row' = [d \in Deliveries |->
            IF row[d].endpoint = e /\ row[d].status # "absent"
            THEN Closed(d, "deleted") ELSE row[d]]
  /\ UNCHANGED <<enabled, run>>

SwitchFeature ==
  /\ enabled' = ~enabled
  /\ UNCHANGED <<endpoint, row, run>>

\* Of times in the past only the order is kept
Aged(d) ==
  LET older == {row[c].due : c \in {c \in Pending : row[c].due < row[d].due}}
      floor == Cardinality(older) + 1 - Cardinality(Deliveries)
  IN  IF row[d].due - 1 < floor THEN floor ELSE row[d].due - 1

Tick ==
  /\ \E d \in Pending : Aged(d) # row[d].due
  /\ LET overrun(r) == {d \in run[r].todo \intersect Pending : Aged(d) <= 0}
     IN  /\ row' = [d \in Deliveries |->
              IF d \in Pending
              THEN [row[d] EXCEPT !.due = Aged(d),
                      !.lost = @ \/ (LastAttempt(d) /\ \E r \in Runs : d \in overrun(r))]
              ELSE row[d]]
         /\ run' = [r \in Runs |-> [run[r] EXCEPT !.slow = @ \union overrun(r)]]
  /\ UNCHANGED <<endpoint, enabled>>

Step(r) ==
  \/ AskFeature(r) \/ Enqueue(r) \/ Claim(r) \/ ReadEndpoints(r) \/ ReadFlag(r)
  \/ Refuse(r) \/ Post(r) \/ Succeed(r) \/ Fail(r)

Next ==
  \/ \E r \in Runs : Emit(r) \/ Ping(r) \/ Cron(r) \/ Step(r) \/ Die(r)
  \/ Toggle \/ Delete \/ SwitchFeature \/ Tick

\* A run goes on or ends, time passes, and the cron comes again and again.
Fairness ==
  /\ \A r \in Runs : WF_vars(Die(r) \/ Step(r))
  /\ WF_vars(Tick)
  /\ SF_vars(\E r \in Runs : Cron(r))

Spec == Init /\ [][Next]_vars /\ Fairness

-----------------------------------------------------------------------------
(* Properties                                                              *)

\* Tables and runs keep their types; a run that sends has something to settle, and
\* has posted nothing else.
TypeOK ==
  /\ endpoint \in [Endpoints -> {"active", "paused", "deleted"}]
  /\ enabled \in BOOLEAN
  /\ row \in [Deliveries -> Row]
  /\ run \in [Runs -> Run]
  /\ \A r \in Runs :
       /\ run[r].todo # {} <=> run[r].at \in {"reading", "sending"}
       /\ run[r].sent \union run[r].slow \subseteq run[r].todo /\ Cardinality(run[r].sent) <= 1

\* Two runs never work on one delivery, unless one was slower than its lease: what the
\* lease is for (webhooks-db.ts 19-21).
LeaseKeepsApart ==
  \A d \in Deliveries : Slow(d) \/ Cardinality({r \in Runs : Holds(r, d)}) <= 1

\* What was delivered or given up is not touched again, though outcomes are written
\* without a guard on the status, unless a run was slower than its lease.
SettledIsFinal ==
  [][\A d \in Deliveries :
       row[d].status \in {"delivered", "failed"} /\ ~Slow(d)
         => row'[d].status \in {row[d].status, "deleted"}]_vars

\* No delivery is attempted more often than the maximum, unless the run that made the
\* last attempt died or was slower than its lease: the attempt is counted before it is
\* made.
AttemptsBounded ==
  \A d \in Deliveries : row[d].attempts > MaxAttempts => row[d].lost

\* Whatever is pending is tried, settled or deleted in the end, however many others
\* are due, fail and die before it: the claim takes the oldest first.
NobodyStarves ==
  \A d \in Deliveries :
    row[d].status = "pending" ~> (row[d].status # "pending" \/ \E r \in Runs : Holds(r, d))

=============================================================================
