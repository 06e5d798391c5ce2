------------------------------ MODULE Enrollment ------------------------------
(***************************************************************************)
(* The enrolment desk of one mosque (lib/mosque/enrollment-db.ts with the  *)
(* pure rules of lib/enrollment.ts): people register, are seated in a      *)
(* halaqah that has a free seat and accepts them, or wait in line until a  *)
(* seat is freed.                                                          *)
(*                                                                         *)
(* The automatic paths run in a transaction that locks the mosque's row    *)
(* (withMosqueTx); placing by hand (api/assign), the teacher's own list of *)
(* students (api/students), the discipline module and a halaqah that joins *)
(* the mosque (lib/mosque/db.ts) write without it.                         *)
(* A job of a worker is one request: between two of its steps any other    *)
(* request may run, and a worker may die anywhere.                         *)
(*                                                                         *)
(* Data are abstracted: age and level of a registrant against a halaqah's  *)
(* criteria are one set per halaqah, the registrations it accepts; students*)
(* of a halaqah are counted. The features auto_assign, halaqat and         *)
(* registration are on, and all happens in one calendar year: ages change  *)
(* only with it.                                                           *)
(***************************************************************************)
EXTENDS Naturals, FiniteSets

CONSTANTS
  Halaqahs,     \* ids of the halaqahs that belong to the mosque or will
  Regs,         \* ids registrations may take, in the order of their creation
  Capacities,   \* the capacities an administrator may set
  Criteria,     \* the criteria he may set: each the set of registrations it accepts
  NoLimit,      \* capacity NULL
  NoHalaqah,    \* halaqah_id NULL
  Workers,      \* requests in flight at once
  MaxStudents,  \* bound: a teacher's own additions stop at this many students, and
                \* at this many during one transaction of the desk
  MaxTurn       \* bound: the largest waitlist_order given out

ASSUME EnrollmentAssumption ==
  /\ Halaqahs \subseteq Nat \ {0} /\ Halaqahs # {}
  /\ Regs \subseteq Nat \ {0} /\ IsFiniteSet(Regs)
  /\ Capacities \subseteq Nat \ {0}
  /\ NoLimit \notin Nat
  /\ NoHalaqah \notin Halaqahs
  /\ Criteria \subseteq SUBSET Regs
  /\ MaxStudents \in Nat /\ MaxTurn \in Nat

VARIABLES
  reg,       \* mosque_registrations; order 0 is waitlist_order NULL
  cap,       \* halaqahs.capacity
  accepts,   \* the registrations that match the halaqah's criteria
  joined,    \* halaqahs.mosque_id is set: the halaqah belongs to the mosque
  count,     \* active, undeleted students of the halaqah
  job,       \* what each worker is doing
  made,      \* history: students created for a registration
  lost       \* history: a seat of the halaqah came free and nobody goes on to fill it

vars == <<reg, cap, accepts, joined, count, job, made, lost>>

Status == {"absent", "pending", "waitlisted", "assigned", "removed"}
Limits == Capacities \union {NoLimit}

RegRow == [status  : Status,
           order   : Nat,
           halaqah : Halaqahs \union {NoHalaqah},
           student : BOOLEAN]

\* waitlist_order is there for those who wait and for nobody else
TurnIffWaiting(row) == row.order > 0 <=> row.status = "waitlisted"

NoRow == [status |-> "absent", order |-> 0, halaqah |-> NoHalaqah, student |-> FALSE]

\* A job: the registration r or the halaqah h it is about; the rest is what the
\* open transaction knows: registrations still to decide, new versions of rows,
\* students inserted, its view of capacities and criteria, and (history) how many
\* students others put into each halaqah since it began.
At == {"idle", "registered", "freed", "deciding", "claimed", "added"}

Job == [at     : At,
        r      : Regs \union {0},
        h      : Halaqahs \union {NoHalaqah},
        todo   : SUBSET Regs,
        new    : [Regs -> RegRow],
        taken  : [Halaqahs -> Nat],
        limit  : [Halaqahs -> Limits],
        allows : [Halaqahs -> SUBSET Regs],
        byHand : [Halaqahs -> Nat]]

Nothing == [h \in Halaqahs |-> 0]
NoRows == [r \in Regs |-> NoRow]   \* no version written
Idle == [at |-> "idle", r |-> 0, h |-> NoHalaqah, todo |-> {}, new |-> NoRows,
         taken |-> Nothing, limit |-> [h \in Halaqahs |-> NoLimit],
         allows |-> [h \in Halaqahs |-> {}], byHand |-> Nothing]

Waiting(rows) == {r \in Regs : rows[r].status = "waitlisted"}

\* The UPDATE that seats a registration: its place in line is cleared
Seated(row, h, linked) ==
  [row EXCEPT !.status = "assigned", !.order = 0, !.halaqah = h, !.student = linked]

-----------------------------------------------------------------------------
(* The pure rules of lib/enrollment.ts                                     *)

HasFreeSeat(limit, n) == limit = NoLimit \/ n < limit

\* pickHalaqah: the candidate with the fewest students, then the least id
Candidates(limit, allows, n, r) ==
  {h \in Halaqahs : joined[h] /\ HasFreeSeat(limit[h], n[h]) /\ r \in allows[h]}

Best(hs, n) ==
  {h \in hs : \A g \in hs : n[h] < n[g] \/ (n[h] = n[g] /\ h <= g)}

\* sortWaitlist: by order, then by id
Before(rows, a, b) ==
  \/ rows[a].order < rows[b].order
  \/ rows[a].order = rows[b].order /\ a < b

IsNextOrderCounted(n, rows) == n = Cardinality(Waiting(rows)) + 1

\* nextWaitlistOrder, the SELECT MAX + 1 of autoAssignTx
IsNextOrder(n, rows) ==
  /\ \A r \in Waiting(rows) : rows[r].order < n
  /\ n = 1 \/ \E r \in Waiting(rows) : rows[r].order + 1 = n

\* As many of those who match as there are free seats
Fills(chosen, match, limit, n) ==
  /\ chosen \subseteq match
  /\ chosen # match => limit # NoLimit /\ limit <= Cardinality(chosen) + n
  /\ limit # NoLimit /\ chosen # {} => Cardinality(chosen) + n <= limit

PromotionNewest(chosen, rows, limit, allowed, n) ==
  LET match == Waiting(rows) \intersect allowed
  IN  /\ Fills(chosen, match, limit, n)
      /\ \A c \in chosen, m \in match \ chosen : Before(rows, m, c)

\* selectPromotions: the first of those who wait and match
Promotion(chosen, rows, limit, allowed, n) ==
  LET match == Waiting(rows) \intersect allowed
  IN  /\ Fills(chosen, match, limit, n)
      /\ \A c \in chosen, m \in match \ chosen : Before(rows, c, m)

\* moveInWaitlist: places in line are renumbered from 1, a and its neighbour b swapped
Place(rows, r) == Cardinality({q \in Waiting(rows) : q = r \/ Before(rows, q, r)})

Renumbered(rows, a, b) ==
  [r \in Regs |->
     IF r \notin Waiting(rows) THEN rows[r]
     ELSE [rows[r] EXCEPT !.order = IF r = a THEN Place(rows, b)
                                    ELSE IF r = b THEN Place(rows, a)
                                    ELSE Place(rows, r)]]

-----------------------------------------------------------------------------
(* What a transaction sees and locks                                       *)

\* SELECT ... FROM mosques ... FOR UPDATE: one holder at a time
MosqueLockFreeAlways == TRUE
MosqueLockFree == \A w \in Workers : job[w].at # "deciding"

Wrote(w, r) == job[w].new[r].status # "absent"

\* Rows the open transaction wrote or selected FOR UPDATE
RowLocked(r) ==
  \E w \in Workers : job[w].at = "deciding" /\
    (Wrote(w, r) \/ (job[w].h # NoHalaqah /\ reg[r].status = "waitlisted"))

RowsSeenBy(w) == [r \in Regs |-> IF Wrote(w, r) THEN job[w].new[r] ELSE reg[r]]
CountSeenBy(w) == [h \in Halaqahs |-> count[h] + job[w].taken[h]]

Opened(w, todo, h, limit, allows, chosen) ==
  [at |-> "deciding", r |-> 0, h |-> h, todo |-> todo,
   new |-> [r \in Regs |-> IF r \in chosen THEN Seated(reg[r], h, TRUE) ELSE NoRow],
   taken |-> [g \in Halaqahs |-> IF g = h THEN Cardinality(chosen) ELSE 0],
   limit |-> limit, allows |-> allows, byHand |-> Nothing]

Init ==
  /\ reg = NoRows
  /\ cap = [h \in Halaqahs |-> NoLimit]
  /\ joined \in [Halaqahs -> BOOLEAN]
  /\ accepts \in [Halaqahs -> Criteria \union {Regs}]
  /\ \A h \in Halaqahs : ~joined[h] => accepts[h] = Regs   \* criteria are the mosque's to set
  /\ count = Nothing
  /\ job = [w \in Workers |-> Idle]
  /\ made = [r \in Regs |-> 0]
  /\ lost = [h \in Halaqahs |-> FALSE]

-----------------------------------------------------------------------------
(* Registration and automatic seating                                      *)

\* addMosqueRegistration, by the public link
Register(w) ==
  /\ job[w].at = "idle"
  /\ \E r \in Regs :
       /\ reg[r].status = "absent"
       /\ \A q \in Regs : q < r => reg[q].status # "absent"
       /\ reg' = [reg EXCEPT ![r].status = "pending"]
       /\ job' = [job EXCEPT ![w] = [Idle EXCEPT !.at = "registered", !.r = r]]
  /\ UNCHANGED <<cap, accepts, joined, count, made, lost>>

\* autoAssignRegistration: the transaction for one new registration
BeginAssign(w) ==
  /\ job[w].at = "registered"
  /\ MosqueLockFree
  /\ job' = [job EXCEPT ![w] = Opened(w, {job[w].r}, NoHalaqah, cap, accepts, {})]
  /\ UNCHANGED <<reg, cap, accepts, joined, count, made, lost>>

\* autoAssignPending: the transaction for all that are pending
BeginAssignPending(w) ==
  /\ job[w].at = "idle"
  /\ MosqueLockFree
  /\ LET pending == {r \in Regs : reg[r].status = "pending"}
     IN  /\ pending # {}
         /\ job' = [job EXCEPT ![w] = Opened(w, pending, NoHalaqah, cap, accepts, {})]
  /\ UNCHANGED <<reg, cap, accepts, joined, count, made, lost>>

\* autoAssignTx for the next registration: it is no longer pending or the mosque has
\* no halaqahs, or it gets the best free seat, or it goes to the end of the line
Written(j, r, row) == [j EXCEPT !.todo = @ \ {r}, !.new[r] = row]

PassOver(w, r) ==
  /\ reg[r].status # "pending" \/ \A h \in Halaqahs : ~joined[h]
  /\ job' = [job EXCEPT ![w] = [job[w] EXCEPT !.todo = @ \ {r}]]

Seat(w, r) ==
  /\ reg[r].status = "pending"
  /\ \E h \in Best(Candidates(job[w].limit, job[w].allows, CountSeenBy(w), r), CountSeenBy(w)) :
       job' = [job EXCEPT ![w] =
         [Written(job[w], r, Seated(reg[r], h, TRUE)) EXCEPT !.taken[h] = @ + 1]]

JoinLine(w, r) ==
  /\ reg[r].status = "pending"
  /\ \E h \in Halaqahs : joined[h]
  /\ Candidates(job[w].limit, job[w].allows, CountSeenBy(w), r) = {}
  /\ \E n \in 1..MaxTurn :
       /\ IsNextOrder(n, RowsSeenBy(w))
       /\ job' = [job EXCEPT ![w] =
            Written(job[w], r, [reg[r] EXCEPT !.status = "waitlisted", !.order = n])]

Decide(w) ==
  /\ job[w].at = "deciding"
  /\ \E r \in job[w].todo :
       /\ \A q \in job[w].todo : r <= q
       /\ PassOver(w, r) \/ Seat(w, r) \/ JoinLine(w, r)
  /\ UNCHANGED <<reg, cap, accepts, joined, count, made, lost>>

-----------------------------------------------------------------------------
(* Promotion from the line                                                 *)

\* onSeatFreed of a halaqah that has no mosque
NoPromotion(w) ==
  /\ job[w].at = "freed"
  /\ ~joined[job[w].h]
  /\ job' = [job EXCEPT ![w] = Idle]
  /\ UNCHANGED <<reg, cap, accepts, joined, count, made, lost>>

\* onSeatFreed, promoteTx
BeginPromote(w) ==
  /\ job[w].at = "freed"
  /\ joined[job[w].h]
  /\ MosqueLockFree
  /\ LET h == job[w].h
     IN  /\ \E chosen \in SUBSET Regs :
              /\ Promotion(chosen, reg, cap[h], accepts[h], count[h])
              /\ job' = [job EXCEPT ![w] = Opened(w, {}, h, cap, accepts, chosen)]
         /\ lost' = [lost EXCEPT ![h] = FALSE]
  /\ UNCHANGED <<reg, cap, accepts, joined, count, made>>

\* updateHalaqahCriteria: new capacity and criteria, then promoteTx with them
BeginCriteria(w) ==
  /\ job[w].at = "idle"
  /\ MosqueLockFree
  /\ \E h \in Halaqahs, l \in Limits, c \in Criteria :
       /\ joined[h]
       /\ \E chosen \in SUBSET Regs :
            /\ Promotion(chosen, reg, l, c, count[h])
            /\ job' = [job EXCEPT ![w] =
                 Opened(w, {}, h, [cap EXCEPT ![h] = l], [accepts EXCEPT ![h] = c], chosen)]
       /\ lost' = [lost EXCEPT ![h] = FALSE]
  /\ UNCHANGED <<reg, cap, accepts, joined, count, made>>

\* COMMIT of withMosqueTx
Commit(w) ==
  /\ job[w].at = "deciding" /\ job[w].todo = {}
  /\ reg' = RowsSeenBy(w)
  /\ count' = CountSeenBy(w)
  /\ cap' = job[w].limit
  /\ accepts' = job[w].allows
  /\ made' = [r \in Regs |->
       IF job[w].new[r].status = "assigned" THEN made[r] + 1 ELSE made[r]]
  /\ job' = [job EXCEPT ![w] = Idle]
  /\ UNCHANGED <<joined, lost>>

MoveEntryFar ==
  /\ MosqueLockFree
  /\ \E a, b \in Waiting(reg) : a # b /\ reg' = Renumbered(reg, a, b)
  /\ UNCHANGED <<cap, accepts, joined, count, job, made, lost>>

\* moveWaitlistEntry; a move past either end changes nothing
MoveEntry ==
  /\ MosqueLockFree
  /\ \E a, b \in Waiting(reg) :
       /\ Place(reg, b) + 1 = Place(reg, a) \/ Place(reg, a) + 1 = Place(reg, b)
       /\ reg' = Renumbered(reg, a, b)
  /\ UNCHANGED <<cap, accepts, joined, count, job, made, lost>>

\* removeWaitlistEntry
RemoveEntry ==
  /\ MosqueLockFree
  /\ \E r \in Waiting(reg) :
       reg' = [reg EXCEPT ![r].status = "removed", ![r].order = 0]
  /\ UNCHANGED <<cap, accepts, joined, count, job, made, lost>>

-----------------------------------------------------------------------------
(* Placing by hand (api/assign): claim, create the student, link him       *)

ClaimableUnlessRemoved(r) == reg[r].status \notin {"absent", "removed"}

Claimable(r) == reg[r].status \in {"pending", "waitlisted"}

Claim(w) ==
  /\ job[w].at = "idle"
  /\ \E r \in Regs, h \in Halaqahs :
       /\ Claimable(r) /\ ~RowLocked(r) /\ joined[h]
       /\ reg' = [reg EXCEPT ![r] = Seated(reg[r], h, reg[r].student)]
       /\ job' = [job EXCEPT ![w] = [Idle EXCEPT !.at = "claimed", !.r = r, !.h = h]]
  /\ UNCHANGED <<cap, accepts, joined, count, made, lost>>

\* addStudentToHalaqah
AddStudent(w) ==
  /\ job[w].at = "claimed"
  /\ LET h == job[w].h
     IN  /\ count' = [count EXCEPT ![h] = @ + 1]
         /\ job' = [v \in Workers |->
              IF v = w THEN [job[w] EXCEPT !.at = "added"]
              ELSE IF job[v].at = "deciding" THEN [job[v] EXCEPT !.byHand[h] = @ + 1]
              ELSE job[v]]
  /\ made' = [made EXCEPT ![job[w].r] = @ + 1]
  /\ UNCHANGED <<reg, cap, accepts, joined, lost>>

\* setRegistrationStudent
LinkStudent(w) ==
  /\ job[w].at = "added"
  /\ reg' = [reg EXCEPT ![job[w].r].student = TRUE]
  /\ job' = [job EXCEPT ![w] = Idle]
  /\ UNCHANGED <<cap, accepts, joined, count, made, lost>>

\* releaseRegistration, after addStudentToHalaqah failed: back to pending, and the
\* place in line a waiting registration had is not restored
Release(w) ==
  /\ job[w].at = "claimed"
  /\ reg' = [reg EXCEPT ![job[w].r] = [NoRow EXCEPT !.status = "pending"]]
  /\ job' = [job EXCEPT ![w] = Idle]
  /\ UNCHANGED <<cap, accepts, joined, count, made, lost>>

-----------------------------------------------------------------------------
(* The students of a halaqah change under the desk's hands                 *)

\* k students more outside the open transactions, which will not see them in time
SeatedByHand(h, k) ==
  /\ \A w \in Workers : job[w].byHand[h] + k <= MaxStudents
  /\ count' = [count EXCEPT ![h] = @ + k]
  /\ job' = [w \in Workers |-> IF job[w].at = "deciding"
                               THEN [job[w] EXCEPT !.byHand[h] = @ + k] ELSE job[w]]

\* A seat of h comes free beside those who wait, and onSeatFreed is not called
SeatForgotten(h) == lost' = [lost EXCEPT ![h] = TRUE]

\* upsertStudent of whoever is or becomes active, restoreStudent, the end of a suspension
StudentIn ==
  /\ \E h \in Halaqahs : count[h] < MaxStudents /\ SeatedByHand(h, 1)
  /\ UNCHANGED <<reg, cap, accepts, joined, made, lost>>

AfterStudentOutNothing(w, h) == job

\* What api/students does after it took a student out: it goes on to onSeatFreed
AfterStudentOut(w, h) == [job EXCEPT ![w] = [Idle EXCEPT !.at = "freed", !.h = h]]

\* deleteStudent and an upsert with active = false; such an upsert of a student who
\* was inactive already frees no seat and goes the same way
StudentOut(w) ==
  /\ job[w].at = "idle"
  /\ \E h \in Halaqahs :
       /\ \/ count[h] > 0 /\ count' = [count EXCEPT ![h] = @ - 1]
          \/ UNCHANGED count
       /\ job' = AfterStudentOut(w, h)
  /\ UNCHANGED <<reg, cap, accepts, joined, made, lost>>

\* applySuspension, dismissStudent, and applyLinkSummary writing back a student it read
\* while he was inactive
Suspend ==
  /\ \E h \in Halaqahs :
       /\ count[h] > 0
       /\ count' = [count EXCEPT ![h] = @ - 1]
       /\ SeatForgotten(h)
  /\ UNCHANGED <<reg, cap, accepts, joined, job, made>>

\* PUT /api/students, replaceStudents: the list goes and another comes, with n active
\* students. A supervisor may whenever he likes, another teacher only when he saw no
\* student at all, which may be over by now.
ReplaceStudents ==
  /\ \E h \in Halaqahs, n \in 0..MaxStudents :
       \/ /\ n < count[h]
          /\ count' = [count EXCEPT ![h] = n]
          /\ SeatForgotten(h)
          /\ UNCHANGED job
       \/ /\ n >= count[h]
          /\ SeatedByHand(h, n - count[h])
          /\ UNCHANGED lost
  /\ UNCHANGED <<reg, cap, accepts, joined, made>>

\* attachHalaqahToMosque: a halaqah joins with its students and its free seats, and
\* nobody is promoted to it
AttachHalaqah ==
  /\ \E h \in Halaqahs :
       /\ ~joined[h]
       /\ joined' = [joined EXCEPT ![h] = TRUE]
       /\ SeatForgotten(h)
  /\ UNCHANGED <<reg, cap, accepts, count, job, made>>

\* The process ends, or the database refuses: an open transaction is rolled back,
\* steps not yet taken are never taken
Die(w) ==
  /\ job[w].at # "idle"
  /\ lost' = [h \in Halaqahs |->
       lost[h] \/ (job[w].at \in {"freed", "deciding"} /\ job[w].h = h)]
  /\ job' = [job EXCEPT ![w] = Idle]
  /\ UNCHANGED <<reg, cap, accepts, joined, count, made>>

Next ==
  \/ \E w \in Workers :
       \/ Register(w) \/ BeginAssign(w) \/ BeginAssignPending(w) \/ Decide(w)
       \/ NoPromotion(w) \/ BeginPromote(w) \/ BeginCriteria(w) \/ Commit(w)
       \/ Claim(w) \/ AddStudent(w) \/ LinkStudent(w) \/ Release(w)
       \/ StudentOut(w) \/ Die(w)
  \/ MoveEntry \/ RemoveEntry
  \/ StudentIn \/ Suspend \/ ReplaceStudents \/ AttachHalaqah

Spec == Init /\ [][Next]_vars

-----------------------------------------------------------------------------
(* Properties                                                              *)

\* Rows, counters and jobs keep their types, and a registration has a place in
\* line exactly while it waits, whoever seats, claims, releases or removes it.
TypeOK ==
  /\ reg \in [Regs -> RegRow]
  /\ cap \in [Halaqahs -> Limits]
  /\ accepts \in [Halaqahs -> SUBSET Regs]
  /\ joined \in [Halaqahs -> BOOLEAN]
  /\ count \in [Halaqahs -> Nat]
  /\ job \in [Workers -> Job]
  /\ made \in [Regs -> Nat]
  /\ lost \in [Halaqahs -> BOOLEAN]
  /\ \A r \in Regs : TurnIffWaiting(reg[r])
  /\ \A w \in Workers :
       /\ job[w].at \in {"registered", "claimed", "added"} => job[w].r \in Regs
       /\ job[w].at \in {"freed", "claimed", "added"} => job[w].h \in Halaqahs
       /\ \A r \in Regs : TurnIffWaiting(job[w].new[r])

\* Automatic seating never fills a halaqah beyond its capacity, whatever is
\* decided at the same time: a commit that adds students leaves at most the
\* capacity, plus those placed by hand since the transaction began
\* (withMosqueTx, enrollment-db.ts 28-33).
Committing(w) == job[w].at = "deciding" /\ job'[w].at = "idle"

AutoKeepsCapacity ==
  [][\A w \in Workers, h \in Halaqahs :
       Committing(w) /\ count'[h] > count[h] /\ cap'[h] # NoLimit
         => count'[h] <= cap'[h] + job[w].byHand[h]]_vars

\* Nobody shares a place in line, through concurrent arrivals, moves, removals and
\* releases: waitlist_order puts those who wait in a strict order.
UniqueTurns ==
  \A a, b \in Waiting(reg) : a # b => reg[a].order # reg[b].order

\* A registration becomes one student at most, however many desks, batches,
\* promotions and retries work on it; a linked student was really created.
PlacedOnce ==
  \A r \in Regs : made[r] <= 1 /\ (reg[r].student => made[r] = 1)

\* The line keeps its word (WaitingLine): whoever comes stands behind everybody who is
\* there, though many come in one transaction and rows are claimed by hand meanwhile,
\* and nobody overtakes but by one place under an administrator's hand
\* (nextWaitlistOrder, moveInWaitlist, releaseRegistration).
Ahead(rows) ==
  {p \in Waiting(rows) \X Waiting(rows) : Before(rows, p[1], p[2])}

Line == INSTANCE WaitingLine WITH
  People <- Regs, waiting <- Waiting(reg), ahead <- Ahead(reg)

ImplementsLine == Line!LineSpec

\* A promotion serves the line in turn: whoever stays in line and is accepted by
\* the halaqah stood behind everybody it seats (selectPromotions).
PromotedInTurn ==
  [][\A w \in Workers, a, b \in Regs :
       /\ Committing(w)
       /\ a \in Waiting(reg) /\ reg'[a].status = "assigned"
       /\ b \in Waiting(reg) /\ b \in Waiting(reg') /\ b \in accepts'[reg'[a].halaqah]
       => Before(reg, a, b)]_vars

Unfilled(h) ==
  /\ joined[h]
  /\ HasFreeSeat(cap[h], count[h])
  /\ Waiting(reg) \intersect accepts[h] # {}

\* While somebody waits for a halaqah with a free seat, a request that will serve him
\* is on its way, unless the seat came free where nobody calls onSeatFreed, by a
\* suspension, a dismissal, a summary written back late, a list of students replaced by
\* a shorter one (api/students, PUT) or a halaqah that joined the mosque, or the request
\* that freed it died. Whatever else makes room, a deletion, a student made inactive, a
\* change of capacity or criteria, or newcomers decided meanwhile, leaves none forgotten.
SeatsOffered ==
  \A h \in Halaqahs : Unfilled(h) /\ ~lost[h] =>
    \E w \in Workers : job[w].at \in {"freed", "deciding"} /\ job[w].h = h

\* What the comment on onSeatFreed says (enrollment-db.ts 251-254): it follows
\* every event that frees a seat, a deletion, a suspension or a raised capacity.
\* So when no request is running, no seat is free for somebody who waits.
NoIdleSeat ==
  (\A w \in Workers : job[w].at = "idle") => \A h \in Halaqahs : ~Unfilled(h)

=============================================================================
