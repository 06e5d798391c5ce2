------------------------------ MODULE WaOutbox -------------------------------
(***************************************************************************)
(* The WhatsApp outbox, src/web/lib/notify/outbox.ts: the table             *)
(* notifications_outbox, the dispatch of a message to a parent and the       *)
(* resend button of the developer's board.                                  *)
(*                                                                         *)
(* A worker is one server function that runs dispatchWhatsapp or            *)
(* resendWhatsappOutbox: every statement it commits and every call of the   *)
(* provider is a step, and it can die between any two of them.  A message   *)
(* is named by its `ref` (template, event and parent).                      *)
(***************************************************************************)
EXTENDS Naturals, FiniteSets

CONSTANTS
  Refs,          \* the messages
  MosqueOf,      \* the mosque a message is charged to
  PhoneOf,       \* the number it goes to
  ValidPhones,   \* the numbers normalizeSaudiPhone accepts
  MosqueCap,     \* dailyMosqueCap
  PhoneCap,      \* dailyRecipientCap
  Workers,       \* the functions running at one time
  ResendAfter,   \* ticks after which a queued row may be sent again (10 minutes)
  StaleAfter,    \* ticks after which a queued row is stale (15 minutes)
  NoRef          \* a worker without a message

ASSUME OutboxConstants ==
  /\ MosqueCap \in Nat /\ PhoneCap \in Nat
  /\ ResendAfter \in Nat /\ StaleAfter \in Nat
  /\ ResendAfter < StaleAfter
  /\ NoRef \notin Refs
  /\ IsFiniteSet(Refs)

VARIABLES
  row,   \* notifications_outbox, by ref (unique)
  job,   \* what each worker is doing
  auto   \* history: how often a dispatch called the provider for a message

vars == <<row, job, auto>>

\* Ages beyond StaleAfter are one age; calls beyond the second are one.
OldAge == StaleAfter + 1
ManyCalls == 2

\* `today` is whether created_at is in the current day of Riyadh; `waived` is
\* history: a worker closed the row as skipped, so its place under the caps
\* was given back.
NoRow == [status |-> "none", age |-> 0, today |-> FALSE, waived |-> FALSE]

OutboxRow ==
  [status : {"none", "queued", "sent", "failed", "skipped"}, age : 0..OldAge,
   today : BOOLEAN, waived : BOOLEAN]

\* `verdict` is the status the INSERT will give; `today` is whether the
\* transaction began (now()) in the current day; `result` is what the provider
\* or the check before a resend returned.
Idle == [pc |-> "idle", by |-> "dispatch", ref |-> NoRef, verdict |-> "queued",
         today |-> TRUE, result |-> "ok"]

Job ==
  [pc : {"idle", "swept", "counted", "claimed", "ready", "answered"},
   by : {"dispatch", "resend"}, ref : Refs \cup {NoRef},
   verdict : {"queued", "skipped"}, today : BOOLEAN,
   result : {"ok", "error", "skipped"}]

Init ==
  /\ row = [r \in Refs |-> NoRow]
  /\ job = [w \in Workers |-> Idle]
  /\ auto = [r \in Refs |-> 0]

Goto(w, pc) == job' = [job EXCEPT ![w].pc = pc]
Finish(w) == job' = [job EXCEPT ![w] = Idle]

-----------------------------------------------------------------------------
(* sweepStaleOutbox. *)

\* Mutant: the sweep looks only at the rows of the day.
StaleToday(x) == x.status = "queued" /\ x.age > StaleAfter /\ x.today

Stale(x) == x.status = "queued" /\ x.age > StaleAfter

Swept == [r \in Refs |-> IF Stale(row[r]) THEN [row[r] EXCEPT !.status = "failed"]
                                          ELSE row[r]]

\* listWhatsappOutbox: the board sweeps each time it is opened.
OpenBoard ==
  /\ row' = Swept
  /\ UNCHANGED <<job, auto>>

-----------------------------------------------------------------------------
(* dispatchWhatsapp. *)

\* A dispatch sweeps first, unless its process did in the last minute.
StartDispatch(w, r) ==
  /\ job[w].pc = "idle"
  /\ \E throttled \in BOOLEAN : row' = IF throttled THEN row ELSE Swept
  /\ job' = [job EXCEPT ![w] = [Idle EXCEPT !.pc = "swept", !.ref = r]]
  /\ UNCHANGED auto

\* enqueueWhatsapp: the rows of the day that count against a cap.
Charged(S) == Cardinality({r \in S : row[r].status \notin {"none", "skipped"} /\ row[r].today})
ChargedToMosque(m) == Charged({r \in Refs : MosqueOf[r] = m})
ChargedToPhone(p) == Charged({r \in Refs : PhoneOf[r] = p})

Verdict(r) ==
  IF \/ PhoneOf[r] \notin ValidPhones
     \/ ChargedToMosque(MosqueOf[r]) >= MosqueCap
     \/ ChargedToPhone(PhoneOf[r]) >= PhoneCap
  THEN "skipped" ELSE "queued"

\* Mutant: the count and the insert without the advisory lock.
MosqueLockedNever(m) == FALSE

\* pg_advisory_xact_lock, held from the count to the commit.
MosqueLocked(m) == \E w \in Workers : job[w].pc = "counted" /\ MosqueOf[job[w].ref] = m

\* Mutant: an insert that does not look for the ref.
KnownNever(r) == FALSE

\* NOT EXISTS ... WHERE ref, backed by the unique index on ref.
Known(r) == row[r].status # "none"

Count(w) ==
  /\ job[w].pc = "swept"
  /\ ~MosqueLocked(MosqueOf[job[w].ref])
  /\ ~Known(job[w].ref)
  /\ job' = [job EXCEPT ![w].pc = "counted", ![w].today = TRUE,
                        ![w].verdict = Verdict(job[w].ref)]
  /\ UNCHANGED <<row, auto>>

\* The ref is there already: deduped.
Dedupe(w) ==
  /\ job[w].pc = "swept"
  /\ ~MosqueLocked(MosqueOf[job[w].ref])
  /\ Known(job[w].ref)
  /\ Finish(w)
  /\ UNCHANGED <<row, auto>>

CommitRow(w) ==
  /\ job[w].pc = "counted"
  /\ row' = [row EXCEPT ![job[w].ref] =
               [NoRow EXCEPT !.status = job[w].verdict, !.today = job[w].today]]
  /\ IF job[w].verdict = "queued" THEN Goto(w, "ready") ELSE Finish(w)
  /\ UNCHANGED auto

\* whatsappProvider().send: an error does not tell whether the message went out;
\* "skipped" is a provider without keys, which makes no call.
Send(w) ==
  /\ job[w].pc = "ready"
  /\ \E result \in {"ok", "error", "skipped"} :
       /\ job' = [job EXCEPT ![w].pc = "answered", ![w].result = result]
       /\ auto' = IF result # "skipped" /\ job[w].by = "dispatch" /\ auto[job[w].ref] < ManyCalls
                  THEN [auto EXCEPT ![job[w].ref] = @ + 1] ELSE auto
  /\ UNCHANGED row

\* markOutbox: by id, whatever the row holds now.
Marked(x, result) ==
  [x EXCEPT !.status = CASE result = "ok"      -> "sent"
                         [] result = "error"   -> "failed"
                         [] result = "skipped" -> "skipped",
            !.waived = @ \/ result = "skipped"]

Mark(w) ==
  /\ job[w].pc = "answered"
  /\ row' = [row EXCEPT ![job[w].ref] = Marked(@, job[w].result)]
  /\ Finish(w)
  /\ UNCHANGED auto

\* The function dies, its transaction rolls back, or markOutbox fails and the
\* failure is swallowed.
Die(w) ==
  /\ job[w].pc # "idle"
  /\ Finish(w)
  /\ UNCHANGED <<row, auto>>

-----------------------------------------------------------------------------
(* resendWhatsappOutbox. *)

Claimable(x) ==
  \/ x.status = "failed"
  \/ x.status = "queued" /\ x.age > ResendAfter

ClaimResend(w, r) ==
  /\ job[w].pc = "idle"
  /\ Claimable(row[r])
  /\ row' = [row EXCEPT ![r].status = "queued"]
  /\ job' = [job EXCEPT ![w] = [Idle EXCEPT !.pc = "claimed", !.by = "resend", !.ref = r]]
  /\ UNCHANGED auto

\* The parent's consent and the mosque's feature, read again: both there, one
\* gone (the row is closed as skipped) or not readable (it fails).
Recheck(w) ==
  /\ job[w].pc = "claimed"
  /\ \/ Goto(w, "ready")
     \/ \E result \in {"skipped", "error"} :
          job' = [job EXCEPT ![w].pc = "answered", ![w].result = result]
  /\ UNCHANGED <<row, auto>>

-----------------------------------------------------------------------------
(* Time. *)

Tick ==
  /\ row' = [r \in Refs |-> IF row[r].status # "none" /\ row[r].age < OldAge
                            THEN [row[r] EXCEPT !.age = @ + 1] ELSE row[r]]
  /\ UNCHANGED <<job, auto>>

Midnight ==
  /\ row' = [r \in Refs |-> [row[r] EXCEPT !.today = FALSE]]
  /\ job' = [w \in Workers |-> IF job[w].pc = "counted"
                               THEN [job[w] EXCEPT !.today = FALSE] ELSE job[w]]
  /\ UNCHANGED auto

Work(w) ==
  \/ \E r \in Refs : StartDispatch(w, r) \/ ClaimResend(w, r)
  \/ Count(w)
  \/ Dedupe(w)
  \/ CommitRow(w)
  \/ Send(w)
  \/ Mark(w)
  \/ Die(w)
  \/ Recheck(w)

Next ==
  \/ \E w \in Workers : Work(w)
  \/ OpenBoard
  \/ Tick
  \/ Midnight

\* Time passes and the board is opened again and again.  No worker is trusted
\* to finish: any of them may die.
Spec == Init /\ [][Next]_vars /\ WF_vars(Tick) /\ WF_vars(OpenBoard)

-----------------------------------------------------------------------------
(* Properties. *)

\* Every value has its type.
TypeOK ==
  /\ row \in [Refs -> OutboxRow]
  /\ job \in [Workers -> Job]
  /\ auto \in [Refs -> 0..ManyCalls]

\* However often an event is dispatched, and however its workers die, its
\* message is handed to the provider once at most without a human asking
\* (outbox.ts 14-15).
DispatchedOnce == \A r \in Refs : auto[r] <= 1

\* The messages charged to a mosque on one day stay within its cap, but for
\* rows whose place was given back (outbox.ts 82-84).
MosqueCapKept ==
  \A r \in Refs : Charged({q \in Refs : MosqueOf[q] = MosqueOf[r] /\ ~row[q].waived}) <= MosqueCap

\* The same of a number (outbox.ts 15-17, "for each mosque and for each
\* number").
PhoneCapKept ==
  \A r \in Refs : Charged({q \in Refs : PhoneOf[q] = PhoneOf[r] /\ ~row[q].waived}) <= PhoneCap

\* No message stays queued for ever: one whose worker died shows up as failed,
\* where it can be sent again (outbox.ts 151-155).
QueuedSettles == \A r \in Refs : row[r].status = "queued" ~> row[r].status # "queued"

\* Two clicks at the same time do not send twice (outbox.ts 356-358).
TwoClicksSendOnce ==
  \A v, w \in Workers :
    /\ job[v].by = "resend" /\ job[v].pc = "answered" /\ job[v].result = "ok"
    /\ job[w].by = "resend" /\ job[w].pc = "answered" /\ job[w].result = "ok"
    /\ job[v].ref = job[w].ref
    => v = w

=============================================================================
