--------------------------- MODULE EnrollmentProofs ---------------------------
(***************************************************************************)
(* Proofs about Enrollment for any number of halaqahs, registrations and    *)
(* requests in flight: types, the mosque's lock, the capacity that automatic*)
(* seating keeps, that a registration becomes one student at most, and the  *)
(* line of those who wait: nobody shares a place, a promotion serves in turn.*)
(***************************************************************************)
EXTENDS Enrollment, FiniteSetTheorems, TLAPS

\* The transaction of worker w is open.
Open(w) == job[w].at = "deciding"

\* One holder of the mosque's lock.
LockInv == \A v, w \in Workers : Open(v) /\ Open(w) => v = w

\* What the open transaction has seated, with what is committed, is at most the
\* capacity it saw and what was seated by hand since.
SeatsOK(j) ==
  \A h \in Halaqahs : j.taken[h] > 0 /\ j.limit[h] # NoLimit =>
    count[h] + j.taken[h] <= j.limit[h] + j.byHand[h]

SeatsInv == \A w \in Workers : Open(w) => SeatsOK(job[w])

\* Only a registration nobody has seated is written by an open transaction, which
\* links a student to those it seats alone; one that is being placed by hand belongs
\* to one desk and has no student yet.
WritesOK(j) ==
  \A r \in Regs :
    /\ j.new[r].status # "absent" => reg[r].status \in {"pending", "waitlisted"}
    /\ j.new[r].student => j.new[r].status = "assigned"

ClaimInv ==
  /\ \A w \in Workers : Open(w) => WritesOK(job[w])
  /\ \A w \in Workers :
       /\ job[w].at \in {"claimed", "added"} => reg[job[w].r].status = "assigned"
       /\ job[w].at = "claimed" => made[job[w].r] = 0
       /\ job[w].at = "added" => made[job[w].r] = 1
  /\ \A v, w \in Workers :
       job[v].at \in {"claimed", "added"} /\ job[w].at \in {"claimed", "added"}
         /\ job[v].r = job[w].r => v = w
  /\ \A r \in Regs : made[r] > 0 \/ reg[r].student => reg[r].status = "assigned"

IInv == TypeOK /\ LockInv /\ SeatsInv /\ ClaimInv /\ PlacedOnce

-----------------------------------------------------------------------------
(* Types of the pieces                                                     *)

\* An absent row is a row, and does not wait.
LEMMA RowTypes ==
  /\ NoRow \in RegRow /\ NoRow.status = "absent" /\ NoRow.order = 0 /\ NoRow.student = FALSE
  /\ TurnIffWaiting(NoRow)
  /\ NoRows \in [Regs -> RegRow]
  /\ \A r \in Regs : NoRows[r] = NoRow
  BY DEF NoRow, RegRow, Status, TurnIffWaiting, NoRows

\* A request that does nothing is a request.
LEMMA IdleType == Idle \in Job /\ Idle.at = "idle" /\ Idle.new = NoRows
<1>1. Nothing \in [Halaqahs -> Nat]
  BY DEF Nothing
<1>2. [h \in Halaqahs |-> NoLimit] \in [Halaqahs -> Limits]
  BY DEF Limits
<1>3. [h \in Halaqahs |-> {}] \in [Halaqahs -> SUBSET Regs]
  OBVIOUS
<1> QED BY <1>1, <1>2, <1>3, RowTypes DEF Idle, Job, At

\* A row that is seated is a row without a place in line.
LEMMA SeatedType ==
  ASSUME NEW row \in RegRow, NEW h \in Halaqahs, NEW b \in BOOLEAN
  PROVE  /\ Seated(row, h, b) \in RegRow
         /\ TurnIffWaiting(Seated(row, h, b))
         /\ Seated(row, h, b).status = "assigned"
         /\ Seated(row, h, b).order = 0
         /\ Seated(row, h, b).halaqah = h
         /\ Seated(row, h, b).student = b
<1>1. Seated(row, h, b) \in RegRow
  BY DEF RegRow, Status, Seated
<1>2. /\ Seated(row, h, b).status = "assigned"
      /\ Seated(row, h, b).order = 0
      /\ Seated(row, h, b).halaqah = h
      /\ Seated(row, h, b).student = b
  BY DEF RegRow, Seated
<1> QED BY <1>1, <1>2 DEF TurnIffWaiting

\* The invariant holds at the start.
LEMMA InitIInv == Init => IInv
<1> SUFFICES ASSUME Init PROVE IInv
  OBVIOUS
<1>a. accepts \in [Halaqahs -> SUBSET Regs]
  <2>1. Criteria \union {Regs} \subseteq SUBSET Regs
    BY EnrollmentAssumption
  <2> QED BY <2>1 DEF Init
<1>1. TypeOK
  BY <1>a, RowTypes, IdleType DEF Init, TypeOK, Limits, Nothing, NoRows
<1>2. LockInv /\ SeatsInv /\ PlacedOnce
  BY RowTypes, IdleType DEF Init, LockInv, SeatsInv, PlacedOnce, Open
<1>3. ClaimInv
  BY RowTypes, IdleType DEF Init, ClaimInv, Open
<1> QED BY <1>1, <1>2, <1>3 DEF IInv

-----------------------------------------------------------------------------
(* Steps that change one job and no registration                           *)

\* A request begins, ends, dies, or goes on to promote; seats may be freed.
LEMMA QuietStep ==
  ASSUME IInv, NEW w \in Workers, NEW j \in Job,
         job' = [job EXCEPT ![w] = j],
         j.at \in {"idle", "freed"},
         j.at = "freed" => j.h \in Halaqahs,
         \A r \in Regs : TurnIffWaiting(j.new[r]),
         count' \in [Halaqahs -> Nat], \A h \in Halaqahs : count'[h] <= count[h],
         lost' \in [Halaqahs -> BOOLEAN],
         UNCHANGED <<reg, cap, accepts, joined, made>>
  PROVE  IInv'
<1>1. /\ job' \in [Workers -> Job] /\ job'[w] = j
      /\ \A v \in Workers : v # w => job'[v] = job[v]
  BY DEF IInv, TypeOK
<1>2. TypeOK'
  BY <1>1 DEF IInv, TypeOK, TurnIffWaiting
<1>3. LockInv'
  BY <1>1 DEF IInv, LockInv, Open
<1>4. SeatsInv'
  <2> SUFFICES ASSUME NEW v \in Workers, Open(v)', NEW h \in Halaqahs,
                      job'[v].taken[h] > 0, job'[v].limit[h] # NoLimit
               PROVE  count'[h] + job'[v].taken[h] <= job'[v].limit[h] + job'[v].byHand[h]
    BY DEF SeatsInv, SeatsOK
  <2>1. v # w /\ job'[v] = job[v] /\ Open(v)
    BY <1>1 DEF Open
  <2>2. count[h] + job[v].taken[h] <= job[v].limit[h] + job[v].byHand[h]
    BY <2>1 DEF IInv, SeatsInv, SeatsOK
  <2>3. count[h] \in Nat /\ count'[h] \in Nat /\ count'[h] <= count[h]
    BY DEF IInv, TypeOK
  <2>4. job[v].taken[h] \in Nat /\ job[v].byHand[h] \in Nat /\ job[v].limit[h] \in Limits
    <3>1. job[v] \in Job
      BY DEF IInv, TypeOK
    <3> QED BY <3>1 DEF Job
  <2>5. job[v].limit[h] \in Nat
    BY <2>1, <2>4, EnrollmentAssumption DEF Limits
  <2> QED BY <2>1, <2>2, <2>3, <2>4, <2>5
<1>5. ClaimInv'
  BY <1>1 DEF IInv, ClaimInv, WritesOK, Open
<1>6. PlacedOnce'
  BY DEF IInv, PlacedOnce
<1> QED BY <1>2, <1>3, <1>4, <1>5, <1>6 DEF IInv

\* The only open transaction opens or goes on.
LEMMA OpenStep ==
  ASSUME IInv, NEW w \in Workers, NEW j \in Job,
         job' = [job EXCEPT ![w] = j],
         j.at = "deciding", SeatsOK(j), WritesOK(j),
         \A v \in Workers : v # w => ~Open(v),
         \A r \in Regs : TurnIffWaiting(j.new[r]),
         lost' \in [Halaqahs -> BOOLEAN],
         UNCHANGED <<reg, cap, accepts, joined, count, made>>
  PROVE  IInv'
<1>1. /\ job' \in [Workers -> Job] /\ job'[w] = j
      /\ \A v \in Workers : v # w => job'[v] = job[v]
  BY DEF IInv, TypeOK
<1>2. TypeOK'
  BY <1>1 DEF IInv, TypeOK, TurnIffWaiting
<1>3. LockInv'
  BY <1>1 DEF LockInv, Open
<1>4. SeatsInv'
  BY <1>1 DEF SeatsInv, SeatsOK, Open
<1>5. ClaimInv'
  BY <1>1 DEF IInv, ClaimInv, WritesOK, Open
<1>6. PlacedOnce'
  BY DEF IInv, PlacedOnce
<1> QED BY <1>2, <1>3, <1>4, <1>5, <1>6 DEF IInv

\* A request that starts from nothing has the type of one.
LEMMA FreshJob ==
  ASSUME NEW a \in At, NEW r \in Regs \union {0}, NEW h \in Halaqahs \union {NoHalaqah}
  PROVE  /\ [Idle EXCEPT !.at = a, !.h = h] \in Job
         /\ [Idle EXCEPT !.at = a, !.r = r] \in Job
         /\ [Idle EXCEPT !.at = a, !.r = r, !.h = h] \in Job
  BY IdleType DEF Idle, Job

\* Deleting a student frees a seat and starts a request.
LEMMA StudentOutStep ==
  ASSUME IInv, NEW w \in Workers, StudentOut(w)
  PROVE  IInv'
<1>1. PICK h \in Halaqahs :
        /\ \/ count[h] > 0 /\ count' = [count EXCEPT ![h] = @ - 1]
           \/ UNCHANGED count
        /\ job' = [job EXCEPT ![w] = [Idle EXCEPT !.at = "freed", !.h = h]]
  BY DEF StudentOut, AfterStudentOut
<1> DEFINE j == [Idle EXCEPT !.at = "freed", !.h = h]
<1>2. j \in Job
  BY FreshJob DEF At
<1>3. j.at = "freed" /\ j.h = h /\ j.new = NoRows
  BY DEF Idle
<1>4. count' \in [Halaqahs -> Nat] /\ \A g \in Halaqahs : count'[g] <= count[g]
  BY <1>1 DEF IInv, TypeOK
<1>5. \A r \in Regs : TurnIffWaiting(j.new[r])
  BY <1>3, RowTypes
<1>6. lost' \in [Halaqahs -> BOOLEAN] /\ UNCHANGED <<reg, cap, accepts, joined, made>>
  BY DEF StudentOut, IInv, TypeOK
<1> HIDE DEF j
<1> QED BY <1>1, <1>2, <1>3, <1>4, <1>5, <1>6, QuietStep DEF j

\* A request that dies leaves the committed rows alone.
LEMMA DieStep ==
  ASSUME IInv, NEW w \in Workers, Die(w)
  PROVE  IInv'
<1>1. lost' \in [Halaqahs -> BOOLEAN]
  BY DEF Die, IInv, TypeOK
<1>2. \A r \in Regs : TurnIffWaiting(Idle.new[r])
  BY IdleType, RowTypes
<1>3. count' \in [Halaqahs -> Nat] /\ \A g \in Halaqahs : count'[g] <= count[g]
  BY DEF Die, IInv, TypeOK
<1> QED BY <1>1, <1>2, <1>3, IdleType, QuietStep DEF Die

-----------------------------------------------------------------------------
(* Steps that open the transaction                                         *)

\* Those chosen for promotion are finitely many.
LEMMA ChosenCount ==
  ASSUME NEW chosen \in SUBSET Regs
  PROVE  Cardinality(chosen) \in Nat /\ (chosen = {} => Cardinality(chosen) = 0)
<1>1. IsFiniteSet(chosen)
  BY EnrollmentAssumption, FS_Subset
<1> QED BY <1>1, FS_CardinalityType, FS_EmptySet

\* A transaction that opens counts no more students than it may seat.
LEMMA OpenedOK ==
  ASSUME IInv, NEW w \in Workers, NEW todo \in SUBSET Regs,
         NEW h \in Halaqahs \union {NoHalaqah},
         NEW limit \in [Halaqahs -> Limits], NEW allows \in [Halaqahs -> SUBSET Regs],
         NEW chosen \in SUBSET Regs, chosen \subseteq Waiting(reg),
         chosen # {} => /\ h \in Halaqahs
                        /\ limit[h] # NoLimit => Cardinality(chosen) + count[h] <= limit[h],
         NEW j, j = Opened(w, todo, h, limit, allows, chosen)
  PROVE  /\ j \in Job /\ j.at = "deciding" /\ SeatsOK(j) /\ WritesOK(j)
         /\ \A r \in Regs : TurnIffWaiting(j.new[r])
<1> DEFINE new == [r \in Regs |-> IF r \in chosen THEN Seated(reg[r], h, TRUE) ELSE NoRow]
           taken == [g \in Halaqahs |-> IF g = h THEN Cardinality(chosen) ELSE 0]
<1>1. /\ j.at = "deciding" /\ j.r = 0 /\ j.h = h /\ j.todo = todo /\ j.new = new
      /\ j.taken = taken /\ j.limit = limit /\ j.allows = allows /\ j.byHand = Nothing
      /\ j = [at |-> "deciding", r |-> 0, h |-> h, todo |-> todo, new |-> new,
              taken |-> taken, limit |-> limit, allows |-> allows, byHand |-> Nothing]
  BY DEF Opened
<1>2. ASSUME NEW r \in Regs
      PROVE  /\ new[r] \in RegRow /\ TurnIffWaiting(new[r])
             /\ r \in chosen => reg[r].status = "waitlisted" /\ new[r].status = "assigned"
             /\ r \notin chosen => new[r].status = "absent" /\ new[r].student = FALSE
  <2>1. CASE r \in chosen
    <3>1. h \in Halaqahs /\ reg[r] \in RegRow /\ reg[r].status = "waitlisted"
      BY <2>1 DEF IInv, TypeOK, Waiting
    <3>2. new[r] = Seated(reg[r], h, TRUE)
      BY <2>1
    <3> QED BY <2>1, <3>1, <3>2, SeatedType
  <2>2. CASE r \notin chosen
    BY <2>2, RowTypes
  <2> QED BY <2>1, <2>2
<1>3. new \in [Regs -> RegRow]
  BY <1>2
<1>4. taken \in [Halaqahs -> Nat]
  BY ChosenCount
<1>5. Nothing \in [Halaqahs -> Nat] /\ \A g \in Halaqahs : Nothing[g] = 0
  BY DEF Nothing
<1>6. ASSUME NEW g \in Halaqahs, j.taken[g] > 0, j.limit[g] # NoLimit
      PROVE  count[g] + j.taken[g] <= j.limit[g] + j.byHand[g]
  <2>1. g = h /\ taken[g] = Cardinality(chosen) /\ chosen # {}
    BY <1>1, <1>6, ChosenCount
  <2>2. Cardinality(chosen) + count[g] <= limit[g]
    BY <1>1, <1>6, <2>1
  <2>3. count[g] \in Nat /\ Cardinality(chosen) \in Nat
    BY ChosenCount DEF IInv, TypeOK
  <2>4. limit[g] \in Nat
    <3>1. limit[g] # NoLimit
      BY <1>1, <1>6
    <3> QED BY <3>1, EnrollmentAssumption DEF Limits
  <2> QED BY <1>1, <1>5, <2>1, <2>2, <2>3, <2>4
<1>7. SeatsOK(j)
  BY <1>6 DEF SeatsOK
<1>8. WritesOK(j) /\ \A r \in Regs : TurnIffWaiting(j.new[r])
  <2> HIDE DEF new
  <2> QED BY <1>1, <1>2 DEF WritesOK
<1>9. j \in Job
  <2> HIDE DEF new, taken
  <2> QED BY <1>1, <1>3, <1>4, <1>5 DEF Job, At
<1> QED BY <1>1, <1>7, <1>8, <1>9

\* A transaction that begins keeps the invariant.
LEMMA BeginStep ==
  ASSUME IInv, NEW w \in Workers, NEW todo \in SUBSET Regs,
         NEW h \in Halaqahs \union {NoHalaqah},
         NEW limit \in [Halaqahs -> Limits], NEW allows \in [Halaqahs -> SUBSET Regs],
         NEW chosen \in SUBSET Regs, chosen \subseteq Waiting(reg),
         chosen # {} => /\ h \in Halaqahs
                        /\ limit[h] # NoLimit => Cardinality(chosen) + count[h] <= limit[h],
         MosqueLockFree,
         job' = [job EXCEPT ![w] = Opened(w, todo, h, limit, allows, chosen)],
         lost' \in [Halaqahs -> BOOLEAN],
         UNCHANGED <<reg, cap, accepts, joined, count, made>>
  PROVE  IInv'
<1>1. PICK j : j = Opened(w, todo, h, limit, allows, chosen)
  OBVIOUS
<1>2. /\ j \in Job /\ j.at = "deciding" /\ SeatsOK(j) /\ WritesOK(j)
      /\ \A r \in Regs : TurnIffWaiting(j.new[r])
  BY <1>1, OpenedOK
<1>3. \A v \in Workers : v # w => ~Open(v)
  BY DEF MosqueLockFree, Open
<1>4. job' = [job EXCEPT ![w] = j]
  BY <1>1
<1> QED BY <1>2, <1>3, <1>4, OpenStep

\* Opening for one registration keeps the invariant.
LEMMA BeginAssignStep ==
  ASSUME IInv, NEW w \in Workers, BeginAssign(w)
  PROVE  IInv'
<1>1. PICK todo \in SUBSET Regs : todo = {job[w].r}
  BY DEF BeginAssign, IInv, TypeOK
<1>2. PICK limit \in [Halaqahs -> Limits], allows \in [Halaqahs -> SUBSET Regs] :
        limit = cap /\ allows = accepts
  BY DEF IInv, TypeOK
<1>3. job' = [job EXCEPT ![w] = Opened(w, todo, NoHalaqah, limit, allows, {})]
  BY <1>1, <1>2 DEF BeginAssign
<1>4. /\ lost' \in [Halaqahs -> BOOLEAN] /\ MosqueLockFree
      /\ UNCHANGED <<reg, cap, accepts, joined, count, made>>
  BY DEF BeginAssign, IInv, TypeOK
<1>5. PICK chosen \in SUBSET Regs : chosen = {}
  OBVIOUS
<1>6. job' = [job EXCEPT ![w] = Opened(w, todo, NoHalaqah, limit, allows, chosen)]
  BY <1>3, <1>5
<1> QED BY <1>4, <1>5, <1>6, BeginStep

\* Opening for all that are pending keeps the invariant.
LEMMA BeginAssignPendingStep ==
  ASSUME IInv, NEW w \in Workers, BeginAssignPending(w)
  PROVE  IInv'
<1>1. PICK todo \in SUBSET Regs : todo = {r \in Regs : reg[r].status = "pending"}
  OBVIOUS
<1>2. PICK limit \in [Halaqahs -> Limits], allows \in [Halaqahs -> SUBSET Regs] :
        limit = cap /\ allows = accepts
  BY DEF IInv, TypeOK
<1>3. job' = [job EXCEPT ![w] = Opened(w, todo, NoHalaqah, limit, allows, {})]
  BY <1>1, <1>2 DEF BeginAssignPending
<1>4. /\ lost' \in [Halaqahs -> BOOLEAN] /\ MosqueLockFree
      /\ UNCHANGED <<reg, cap, accepts, joined, count, made>>
  BY DEF BeginAssignPending, IInv, TypeOK
<1>5. PICK chosen \in SUBSET Regs : chosen = {}
  OBVIOUS
<1>6. job' = [job EXCEPT ![w] = Opened(w, todo, NoHalaqah, limit, allows, chosen)]
  BY <1>3, <1>5
<1> QED BY <1>4, <1>5, <1>6, BeginStep

\* Opening a promotion keeps the invariant.
LEMMA BeginPromoteStep ==
  ASSUME IInv, NEW w \in Workers, BeginPromote(w)
  PROVE  IInv'
<1>1. PICK h \in Halaqahs : h = job[w].h
  BY DEF BeginPromote, IInv, TypeOK
<1>2. PICK limit \in [Halaqahs -> Limits], allows \in [Halaqahs -> SUBSET Regs] :
        limit = cap /\ allows = accepts
  BY DEF IInv, TypeOK
<1>3. PICK chosen \in SUBSET Regs :
        /\ Promotion(chosen, reg, limit[h], allows[h], count[h])
        /\ job' = [job EXCEPT ![w] = Opened(w, {}, h, limit, allows, chosen)]
  BY <1>1, <1>2 DEF BeginPromote
<1>4. /\ chosen \subseteq Waiting(reg)
      /\ chosen # {} /\ limit[h] # NoLimit => Cardinality(chosen) + count[h] <= limit[h]
  BY <1>3 DEF Promotion, Fills
<1>5. /\ lost' \in [Halaqahs -> BOOLEAN] /\ MosqueLockFree
      /\ UNCHANGED <<reg, cap, accepts, joined, count, made>>
  BY DEF BeginPromote, IInv, TypeOK
<1> QED BY <1>3, <1>4, <1>5, BeginStep

\* Opening for a changed capacity or criteria keeps the invariant.
LEMMA BeginCriteriaStep ==
  ASSUME IInv, NEW w \in Workers, BeginCriteria(w)
  PROVE  IInv'
<1>1. PICK h \in Halaqahs, l \in Limits, c \in Criteria, chosen \in SUBSET Regs :
        /\ Promotion(chosen, reg, l, c, count[h])
        /\ job' = [job EXCEPT ![w] =
             Opened(w, {}, h, [cap EXCEPT ![h] = l], [accepts EXCEPT ![h] = c], chosen)]
        /\ lost' = [lost EXCEPT ![h] = FALSE]
  BY DEF BeginCriteria
<1>2. PICK limit \in [Halaqahs -> Limits], allows \in [Halaqahs -> SUBSET Regs] :
        limit = [cap EXCEPT ![h] = l] /\ allows = [accepts EXCEPT ![h] = c]
  BY EnrollmentAssumption DEF IInv, TypeOK
<1>3. limit[h] = l
  BY <1>2 DEF IInv, TypeOK
<1>4. /\ chosen \subseteq Waiting(reg)
      /\ chosen # {} /\ limit[h] # NoLimit => Cardinality(chosen) + count[h] <= limit[h]
  BY <1>1, <1>3 DEF Promotion, Fills
<1>5. /\ lost' \in [Halaqahs -> BOOLEAN] /\ MosqueLockFree
      /\ UNCHANGED <<reg, cap, accepts, joined, count, made>>
  BY <1>1 DEF BeginCriteria, IInv, TypeOK
<1> QED BY <1>1, <1>2, <1>4, <1>5, BeginStep

-----------------------------------------------------------------------------
(* The open transaction goes on, and commits                               *)

\* The students of taken, with those committed, fit in what w sees of the capacities.
Fits(w, taken) ==
  \A h \in Halaqahs : taken[h] > 0 /\ job[w].limit[h] # NoLimit =>
    count[h] + taken[h] <= job[w].limit[h] + job[w].byHand[h]

\* What Decide writes for one registration, and where it seats him.
LEMMA WrittenOK ==
  ASSUME IInv, NEW w \in Workers, Open(w), NEW r \in Regs, reg[r].status = "pending",
         NEW row \in RegRow, TurnIffWaiting(row), row.student => row.status = "assigned",
         NEW taken \in [Halaqahs -> Nat], Fits(w, taken),
         NEW j, j = [Written(job[w], r, row) EXCEPT !.taken = taken]
  PROVE  /\ j \in Job /\ j.at = "deciding" /\ SeatsOK(j) /\ WritesOK(j)
         /\ \A q \in Regs : TurnIffWaiting(j.new[q])
<1>1. job[w] \in Job /\ job[w].at = "deciding"
  BY DEF IInv, TypeOK, Open
<1>2. j = [job[w] EXCEPT !.todo = job[w].todo \ {r}, !.new = [job[w].new EXCEPT ![r] = row],
                         !.taken = taken]
  BY <1>1 DEF Written, Job
<1>3. /\ [job[w].new EXCEPT ![r] = row] \in [Regs -> RegRow]
      /\ job[w].todo \ {r} \in SUBSET Regs
  BY <1>1 DEF Job
<1>4. j \in Job
  BY <1>1, <1>2, <1>3 DEF Job
<1>5. /\ j.at = "deciding" /\ j.taken = taken /\ j.limit = job[w].limit
      /\ j.byHand = job[w].byHand /\ j.new = [job[w].new EXCEPT ![r] = row]
  BY <1>1, <1>2 DEF Job
<1>6. /\ j.new[r] = row /\ \A q \in Regs : q # r => j.new[q] = job[w].new[q]
  BY <1>1, <1>5 DEF Job
<1>7. SeatsOK(j)
  BY <1>5 DEF SeatsOK, Fits
<1>8. WritesOK(job[w]) /\ \A q \in Regs : TurnIffWaiting(job[w].new[q])
  BY DEF IInv, ClaimInv, TypeOK
<1>9. WritesOK(j)
  BY <1>6, <1>8 DEF WritesOK
<1>10. \A q \in Regs : TurnIffWaiting(j.new[q])
  BY <1>6, <1>8
<1> QED BY <1>4, <1>5, <1>7, <1>9, <1>10

\* A free seat found by a decision is free although others are seated meanwhile by hand.
LEMMA SeatedByOthers ==
  ASSUME IInv, NEW w \in Workers, Open(w), NEW h \in Halaqahs,
         HasFreeSeat(job[w].limit[h], CountSeenBy(w)[h])
  PROVE  \E taken \in [Halaqahs -> Nat] :
           taken = [job[w].taken EXCEPT ![h] = @ + 1] /\ Fits(w, taken)
<1>1. job[w] \in Job
  BY DEF IInv, TypeOK
<1>2. /\ job[w].taken \in [Halaqahs -> Nat] /\ job[w].byHand \in [Halaqahs -> Nat]
      /\ job[w].limit \in [Halaqahs -> Limits]
  BY <1>1 DEF Job
<1> DEFINE taken == [job[w].taken EXCEPT ![h] = @ + 1]
<1>3. taken \in [Halaqahs -> Nat] /\ taken[h] = job[w].taken[h] + 1
      /\ \A g \in Halaqahs : g # h => taken[g] = job[w].taken[g]
  BY <1>2
<1>4. ASSUME NEW g \in Halaqahs, taken[g] > 0, job[w].limit[g] # NoLimit
      PROVE  count[g] + taken[g] <= job[w].limit[g] + job[w].byHand[g]
  <2>1. count[g] \in Nat /\ job[w].taken[g] \in Nat /\ job[w].byHand[g] \in Nat
    BY <1>2 DEF IInv, TypeOK
  <2>2. job[w].limit[g] \in Nat
    BY <1>2, <1>4, EnrollmentAssumption DEF Limits
  <2>3. CASE g = h
    <3>1. count[h] + job[w].taken[h] < job[w].limit[h]
      BY <1>4, <2>3 DEF HasFreeSeat, CountSeenBy
    <3> QED BY <1>3, <2>1, <2>2, <2>3, <3>1
  <2>4. CASE g # h
    <3>1. taken[g] = job[w].taken[g]
      BY <1>3, <2>4
    <3> QED BY <1>4, <3>1 DEF IInv, SeatsInv, SeatsOK
  <2> QED BY <2>3, <2>4
<1> HIDE DEF taken
<1>5. Fits(w, taken)
  BY <1>4 DEF Fits
<1> QED BY <1>3, <1>5 DEF taken

\* A decision of an open transaction keeps the invariant.
LEMMA DecideStep ==
  ASSUME IInv, NEW w \in Workers, Decide(w)
  PROVE  IInv'
<1>1. Open(w) /\ job[w] \in Job
  BY DEF Decide, Open, IInv, TypeOK
<1>2. \A v \in Workers : v # w => ~Open(v)
  BY <1>1 DEF IInv, LockInv
<1>3. /\ lost' \in [Halaqahs -> BOOLEAN]
      /\ UNCHANGED <<reg, cap, accepts, joined, count, made>>
  BY DEF Decide, IInv, TypeOK
<1>4. PICK r \in Regs : PassOver(w, r) \/ Seat(w, r) \/ JoinLine(w, r)
  BY <1>1 DEF Decide, Job
<1>5. CASE PassOver(w, r)
  <2>1. PICK j : j = [job[w] EXCEPT !.todo = @ \ {r}]
    OBVIOUS
  <2>2. j \in Job /\ j.at = "deciding"
    BY <1>1, <2>1 DEF Job, Open
  <2>3. /\ j.new = job[w].new /\ j.taken = job[w].taken /\ j.limit = job[w].limit
        /\ j.byHand = job[w].byHand
    BY <1>1, <2>1 DEF Job
  <2>4. SeatsOK(j)
    BY <1>1, <2>3 DEF IInv, SeatsInv, SeatsOK
  <2>5. WritesOK(j) /\ \A q \in Regs : TurnIffWaiting(j.new[q])
    BY <1>1, <2>3 DEF IInv, ClaimInv, WritesOK, TypeOK
  <2>6. job' = [job EXCEPT ![w] = j]
    <3>1. job' = [job EXCEPT ![w] = [job[w] EXCEPT !.todo = @ \ {r}]]
      BY <1>5 DEF PassOver
    <3> QED BY <2>1, <3>1
  <2> QED BY <1>2, <1>3, <2>2, <2>4, <2>5, <2>6, OpenStep
<1>6. CASE Seat(w, r)
  <2>1. PICK h \in Halaqahs :
          /\ HasFreeSeat(job[w].limit[h], CountSeenBy(w)[h])
          /\ job' = [job EXCEPT ![w] =
               [Written(job[w], r, Seated(reg[r], h, TRUE)) EXCEPT !.taken[h] = @ + 1]]
    BY <1>6 DEF Seat, Best, Candidates
  <2>2. PICK taken \in [Halaqahs -> Nat] :
          taken = [job[w].taken EXCEPT ![h] = @ + 1] /\ Fits(w, taken)
    BY <1>1, <2>1, SeatedByOthers
  <2>3. PICK row \in RegRow : /\ row = Seated(reg[r], h, TRUE)
                             /\ TurnIffWaiting(row) /\ row.status = "assigned"
    BY SeatedType DEF IInv, TypeOK
  <2>4. PICK j : j = [Written(job[w], r, row) EXCEPT !.taken = taken]
    OBVIOUS
  <2>5. reg[r].status = "pending" /\ (row.student => row.status = "assigned")
    BY <1>6, <2>3 DEF Seat
  <2>6. /\ j \in Job /\ j.at = "deciding" /\ SeatsOK(j) /\ WritesOK(j)
        /\ \A q \in Regs : TurnIffWaiting(j.new[q])
    <3>1. Fits(w, taken)
      BY <2>2
    <3>2. TurnIffWaiting(row) /\ (row.student => row.status = "assigned")
      BY <2>3
    <3>3. reg[r].status = "pending"
      BY <2>5
    <3>4. Open(w)
      BY <1>1
    <3> QED BY <2>4, <3>1, <3>2, <3>3, <3>4, WrittenOK, Zenon
  <2>7. Written(job[w], r, row).taken = job[w].taken
    BY <1>1 DEF Written, Job
  <2>8. [Written(job[w], r, row) EXCEPT !.taken[h] = @ + 1] = j
    BY <2>2, <2>4, <2>7
  <2>9. job' = [job EXCEPT ![w] = j]
    BY <2>1, <2>3, <2>8
  <2> QED BY <1>2, <1>3, <2>6, <2>9, OpenStep
<1>7. CASE JoinLine(w, r)
  <2>1. PICK n \in 1..MaxTurn :
          job' = [job EXCEPT ![w] =
            Written(job[w], r, [reg[r] EXCEPT !.status = "waitlisted", !.order = n])]
    BY <1>7 DEF JoinLine
  <2>2. reg[r].status = "pending" /\ reg[r] \in RegRow /\ reg[r].student = FALSE
    <3>1. reg[r].status = "pending" /\ reg[r] \in RegRow
      BY <1>7 DEF JoinLine, IInv, TypeOK
    <3>2. ~reg[r].student
      BY <3>1 DEF IInv, ClaimInv
    <3> QED BY <3>1, <3>2 DEF RegRow
  <2>3. PICK row : row = [reg[r] EXCEPT !.status = "waitlisted", !.order = n]
    OBVIOUS
  <2>4. /\ row \in RegRow /\ row.status = "waitlisted" /\ row.order > 0
        /\ row.student = FALSE
    <3>1. n \in Nat /\ n > 0
      BY EnrollmentAssumption
    <3>2. row \in RegRow
      BY <2>2, <2>3, <3>1 DEF RegRow, Status
    <3>3. row.status = "waitlisted" /\ row.order = n /\ row.student = FALSE
      BY <2>2, <2>3 DEF RegRow
    <3> QED BY <3>1, <3>2, <3>3
  <2>5. TurnIffWaiting(row)
    BY <2>4 DEF TurnIffWaiting
  <2>6. PICK taken \in [Halaqahs -> Nat] : taken = job[w].taken
    BY <1>1 DEF Job
  <2>7. PICK j : j = [Written(job[w], r, row) EXCEPT !.taken = taken]
    OBVIOUS
  <2>8. Fits(w, taken)
    BY <1>1, <2>6 DEF IInv, SeatsInv, SeatsOK, Fits
  <2>9. /\ j \in Job /\ j.at = "deciding" /\ SeatsOK(j) /\ WritesOK(j)
        /\ \A q \in Regs : TurnIffWaiting(j.new[q])
    BY <1>1, <2>2, <2>4, <2>5, <2>7, <2>8, WrittenOK
  <2>10. Written(job[w], r, row) = j
    BY <1>1, <2>6, <2>7 DEF Written, Job
  <2>11. job' = [job EXCEPT ![w] = j]
    BY <2>1, <2>3, <2>10
  <2> QED BY <1>2, <1>3, <2>9, <2>11, OpenStep
<1> QED BY <1>4, <1>5, <1>6, <1>7

\* The rows, the counters and made after a commit.
LEMMA CommitRows ==
  ASSUME IInv, NEW w \in Workers, Commit(w)
  PROVE  \A r \in Regs :
           /\ Wrote(w, r) => /\ reg'[r] = job[w].new[r] /\ made[r] = 0
                             /\ reg[r].status \in {"pending", "waitlisted"}
                             /\ reg'[r].student => reg'[r].status = "assigned"
                             /\ made'[r] = IF reg'[r].status = "assigned" THEN 1 ELSE 0
           /\ ~Wrote(w, r) => reg'[r] = reg[r] /\ made'[r] = made[r]
<1> SUFFICES ASSUME NEW r \in Regs
             PROVE  /\ Wrote(w, r) => /\ reg'[r] = job[w].new[r] /\ made[r] = 0
                                      /\ reg[r].status \in {"pending", "waitlisted"}
                                      /\ reg'[r].student => reg'[r].status = "assigned"
                                      /\ made'[r] = IF reg'[r].status = "assigned" THEN 1 ELSE 0
                    /\ ~Wrote(w, r) => reg'[r] = reg[r] /\ made'[r] = made[r]
  OBVIOUS
<1>1. /\ reg'[r] = IF Wrote(w, r) THEN job[w].new[r] ELSE reg[r]
      /\ made'[r] = IF job[w].new[r].status = "assigned" THEN made[r] + 1 ELSE made[r]
  BY DEF Commit, RowsSeenBy
<1>2. WritesOK(job[w])
  BY DEF IInv, ClaimInv, Commit, Open
<1>3. CASE Wrote(w, r)
  <2>1. reg[r].status \in {"pending", "waitlisted"}
    BY <1>2, <1>3 DEF WritesOK, Wrote
  <2>2. made[r] \in Nat /\ ~(made[r] > 0)
    BY <2>1 DEF IInv, TypeOK, ClaimInv
  <2>3. job[w].new[r].student => job[w].new[r].status = "assigned"
    BY <1>2 DEF WritesOK
  <2> QED BY <1>1, <1>3, <2>1, <2>2, <2>3
<1>4. CASE ~Wrote(w, r)
  BY <1>1, <1>4 DEF Wrote
<1> QED BY <1>3, <1>4

\* A commit keeps the invariant: nobody else was open.
LEMMA CommitStep ==
  ASSUME IInv, NEW w \in Workers, Commit(w)
  PROVE  IInv'
<1>1. job[w] \in Job /\ Open(w)
  BY DEF IInv, TypeOK, Commit, Open
<1>2. /\ job' \in [Workers -> Job] /\ job'[w] = Idle
      /\ \A v \in Workers : v # w => job'[v] = job[v] /\ ~Open(v)
  BY <1>1, IdleType DEF Commit, IInv, TypeOK, LockInv
<1>3. \A v \in Workers : ~Open(v)'
  BY <1>2, IdleType DEF Open
<1>4. TypeOK'
  <2>1. reg' \in [Regs -> RegRow]
    BY <1>1 DEF Commit, RowsSeenBy, IInv, TypeOK, Job
  <2>2. cap' \in [Halaqahs -> Limits] /\ accepts' \in [Halaqahs -> SUBSET Regs]
    BY <1>1 DEF Commit, Job
  <2>3. count' \in [Halaqahs -> Nat]
    <3>1. job[w].taken \in [Halaqahs -> Nat]
      BY <1>1 DEF Job
    <3> QED BY <3>1 DEF Commit, CountSeenBy, IInv, TypeOK
  <2>4. /\ made' \in [Regs -> Nat] /\ lost' \in [Halaqahs -> BOOLEAN]
        /\ joined' \in [Halaqahs -> BOOLEAN]
    BY DEF Commit, IInv, TypeOK
  <2>5. \A r \in Regs : TurnIffWaiting(reg'[r])
    BY CommitRows DEF IInv, TypeOK
  <2>6. \A v \in Workers :
          /\ job'[v].at \in {"registered", "claimed", "added"} => job'[v].r \in Regs
          /\ job'[v].at \in {"freed", "claimed", "added"} => job'[v].h \in Halaqahs
          /\ \A r \in Regs : TurnIffWaiting(job'[v].new[r])
    BY <1>2, IdleType, RowTypes DEF IInv, TypeOK
  <2> QED BY <1>2, <2>1, <2>2, <2>3, <2>4, <2>5, <2>6 DEF TypeOK, TurnIffWaiting
<1>5. LockInv' /\ SeatsInv'
  BY <1>3 DEF LockInv, SeatsInv
<1>6. PlacedOnce'
  BY CommitRows DEF IInv, PlacedOnce
<1>7. ClaimInv'
  <2>1. ASSUME NEW v \in Workers, job'[v].at \in {"claimed", "added"}
        PROVE  /\ job'[v] = job[v] /\ job[v].r \in Regs
               /\ reg'[job[v].r] = reg[job[v].r] /\ made'[job[v].r] = made[job[v].r]
    <3>1. job'[v] = job[v] /\ job[v].r \in Regs /\ reg[job[v].r].status = "assigned"
      BY <1>2, <2>1, IdleType DEF IInv, TypeOK, ClaimInv
    <3>2. ~Wrote(w, job[v].r)
      BY <3>1, CommitRows
    <3> QED BY <3>1, <3>2, CommitRows
  <2>2. \A r \in Regs : made'[r] > 0 \/ reg'[r].student => reg'[r].status = "assigned"
    BY CommitRows DEF IInv, ClaimInv
  <2> QED BY <1>3, <2>1, <2>2 DEF IInv, ClaimInv
<1> QED BY <1>4, <1>5, <1>6, <1>7 DEF IInv

-----------------------------------------------------------------------------
(* Steps outside the transaction                                           *)

\* A request that goes on to a step whose registration and halaqah it knows.
JobOK(j) ==
  /\ j.at \in {"registered", "claimed", "added"} => j.r \in Regs
  /\ j.at \in {"freed", "claimed", "added"} => j.h \in Halaqahs
  /\ \A r \in Regs : TurnIffWaiting(j.new[r])

\* A step that changes one request leaves the others sound.
LEMMA JobStep ==
  ASSUME IInv, NEW w \in Workers, NEW j \in Job, JobOK(j), job' = [job EXCEPT ![w] = j]
  PROVE  /\ job' \in [Workers -> Job] /\ job'[w] = j
         /\ \A v \in Workers : v # w => job'[v] = job[v]
         /\ \A v \in Workers : JobOK(job'[v])
<1>1. /\ job' \in [Workers -> Job] /\ job'[w] = j
      /\ \A v \in Workers : v # w => job'[v] = job[v]
  BY DEF IInv, TypeOK
<1>2. \A v \in Workers : JobOK(job[v])
  BY DEF IInv, TypeOK, JobOK
<1> QED BY <1>1, <1>2

\* Types after a step that leaves open transactions their halaqahs and rows.
LEMMA TypeStep ==
  ASSUME IInv, reg' \in [Regs -> RegRow], \A r \in Regs : TurnIffWaiting(reg'[r]),
         job' \in [Workers -> Job], count' \in [Halaqahs -> Nat],
         made' \in [Regs -> Nat], lost' \in [Halaqahs -> BOOLEAN],
         \A v \in Workers : JobOK(job'[v]),
         UNCHANGED <<cap, accepts, joined>>
  PROVE  TypeOK'
  BY DEF IInv, TypeOK, TurnIffWaiting, JobOK

\* Seats are kept by a step that changes no open transaction and no count.
LEMMA SeatsKept ==
  ASSUME IInv, \A v \in Workers : job'[v].at = "deciding" => job'[v] = job[v],
         UNCHANGED count
  PROVE  LockInv' /\ SeatsInv'
  BY DEF IInv, LockInv, SeatsInv, SeatsOK, Open

\* Registering keeps the invariant.
LEMMA RegisterStep ==
  ASSUME IInv, NEW w \in Workers, Register(w)
  PROVE  IInv'
<1>1. PICK r \in Regs :
        /\ reg[r].status = "absent"
        /\ reg' = [reg EXCEPT ![r].status = "pending"]
        /\ job' = [job EXCEPT ![w] = [Idle EXCEPT !.at = "registered", !.r = r]]
  BY DEF Register
<1>2. PICK j \in Job : /\ j = [Idle EXCEPT !.at = "registered", !.r = r]
                      /\ j.at = "registered" /\ j.r = r /\ j.new = NoRows
  <2>1. [Idle EXCEPT !.at = "registered", !.r = r] \in Job
    BY FreshJob DEF At
  <2> QED BY <2>1 DEF Idle
<1>3. /\ job' \in [Workers -> Job] /\ job'[w] = j
      /\ \A v \in Workers : v # w => job'[v] = job[v]
      /\ \A v \in Workers : JobOK(job'[v])
  <2>1. JobOK(j)
    BY <1>2, RowTypes DEF JobOK
  <2> QED BY <1>1, <1>2, <2>1, JobStep
<1>4. /\ reg' \in [Regs -> RegRow] /\ reg'[r].status = "pending"
      /\ reg'[r].order = reg[r].order /\ reg'[r].student = reg[r].student
      /\ \A q \in Regs : q # r => reg'[q] = reg[q]
  <2>1. reg[r] \in RegRow /\ reg \in [Regs -> RegRow]
    BY DEF IInv, TypeOK
  <2>2. PICK row : row = [reg[r] EXCEPT !.status = "pending"]
    OBVIOUS
  <2>3. /\ row \in RegRow /\ row.status = "pending"
        /\ row.order = reg[r].order /\ row.student = reg[r].student
    BY <2>1, <2>2 DEF RegRow, Status
  <2>4. reg' = [reg EXCEPT ![r] = row]
    BY <1>1, <2>2
  <2> QED BY <2>1, <2>3, <2>4
<1>5. TypeOK'
  <2>1. \A q \in Regs : TurnIffWaiting(reg'[q])
    BY <1>1, <1>4 DEF IInv, TypeOK, TurnIffWaiting
  <2> QED BY <1>3, <1>4, <2>1, TypeStep DEF Register, IInv, TypeOK
<1>6. LockInv' /\ SeatsInv'
  BY <1>2, <1>3, SeatsKept DEF Register
<1>7. made' = made /\ made[r] = 0 /\ ~reg[r].student
  BY <1>1 DEF Register, IInv, ClaimInv, TypeOK
<1>8. PlacedOnce'
  BY <1>4, <1>7 DEF IInv, PlacedOnce
<1>9. ClaimInv'
  <2>1. ASSUME NEW v \in Workers, Open(v)' PROVE WritesOK(job[v])' /\ job'[v] = job[v]
    BY <1>1, <1>2, <1>3, <1>4, <2>1 DEF IInv, ClaimInv, WritesOK, Open
  <2>2. ASSUME NEW v \in Workers, job'[v].at \in {"claimed", "added"}
        PROVE  /\ job'[v] = job[v] /\ job[v].r \in Regs /\ job[v].r # r
    BY <1>1, <1>2, <1>3, <2>2 DEF IInv, ClaimInv, TypeOK
  <2>3. \A q \in Regs : made'[q] > 0 \/ reg'[q].student => reg'[q].status = "assigned"
    BY <1>4, <1>7 DEF IInv, ClaimInv
  <2> QED BY <1>4, <1>7, <2>1, <2>2, <2>3 DEF IInv, ClaimInv
<1> QED BY <1>5, <1>6, <1>8, <1>9 DEF IInv

\* Claiming by hand keeps the invariant.
LEMMA ClaimStep ==
  ASSUME IInv, NEW w \in Workers, Claim(w)
  PROVE  IInv'
<1>1. PICK r \in Regs, h \in Halaqahs :
        /\ Claimable(r) /\ ~RowLocked(r)
        /\ reg' = [reg EXCEPT ![r] = Seated(reg[r], h, reg[r].student)]
        /\ job' = [job EXCEPT ![w] = [Idle EXCEPT !.at = "claimed", !.r = r, !.h = h]]
  BY DEF Claim
<1>2. PICK j \in Job : /\ j = [Idle EXCEPT !.at = "claimed", !.r = r, !.h = h]
                      /\ j.at = "claimed" /\ j.r = r /\ j.h = h /\ j.new = NoRows
  <2>1. [Idle EXCEPT !.at = "claimed", !.r = r, !.h = h] \in Job
    BY FreshJob DEF At
  <2> QED BY <2>1 DEF Idle
<1>3. /\ job' \in [Workers -> Job] /\ job'[w] = j
      /\ \A v \in Workers : v # w => job'[v] = job[v]
      /\ \A v \in Workers : JobOK(job'[v])
  <2>1. JobOK(j)
    BY <1>2, RowTypes DEF JobOK
  <2> QED BY <1>1, <1>2, <2>1, JobStep
<1>4. /\ reg'[r] \in RegRow /\ TurnIffWaiting(reg'[r])
      /\ reg'[r].status = "assigned" /\ reg'[r].student = reg[r].student
  <2>1. reg[r] \in RegRow /\ reg[r].student \in BOOLEAN
    BY DEF IInv, TypeOK, RegRow
  <2>2. reg'[r] = Seated(reg[r], h, reg[r].student)
    BY <1>1 DEF IInv, TypeOK
  <2> QED BY <2>1, <2>2, SeatedType
<1>5. reg' \in [Regs -> RegRow] /\ \A q \in Regs : q # r => reg'[q] = reg[q]
  BY <1>1, <1>4 DEF IInv, TypeOK
<1>6. TypeOK'
  <2>1. \A q \in Regs : TurnIffWaiting(reg'[q])
    BY <1>4, <1>5 DEF IInv, TypeOK
  <2> QED BY <1>3, <1>5, <2>1, TypeStep DEF Claim, IInv, TypeOK
<1>7. LockInv' /\ SeatsInv'
  BY <1>2, <1>3, SeatsKept DEF Claim
<1>8. made' = made /\ made[r] = 0 /\ ~reg[r].student
  BY <1>1 DEF Claim, Claimable, IInv, ClaimInv, TypeOK
<1>9. PlacedOnce'
  BY <1>4, <1>5, <1>8 DEF IInv, PlacedOnce
<1>10. ClaimInv'
  <2>1. ASSUME NEW v \in Workers, Open(v)' PROVE WritesOK(job[v])'
    <3>1. job'[v] = job[v] /\ Open(v)
      BY <1>2, <1>3, <2>1 DEF Open
    <3>2. WritesOK(job[v]) /\ job[v].new[r].status = "absent"
      BY <1>1, <3>1 DEF IInv, ClaimInv, RowLocked, Wrote, Open
    <3> QED BY <1>5, <3>1, <3>2 DEF WritesOK
  <2>2. ASSUME NEW v \in Workers, v # w, job'[v].at \in {"claimed", "added"}
        PROVE  /\ job'[v] = job[v] /\ job[v].r \in Regs /\ job[v].r # r
    BY <1>1, <1>3, <2>2 DEF IInv, ClaimInv, TypeOK, Claimable
  <2>3. \A q \in Regs : made'[q] > 0 \/ reg'[q].student => reg'[q].status = "assigned"
    BY <1>4, <1>5, <1>8 DEF IInv, ClaimInv
  <2>4. ASSUME NEW v \in Workers
        PROVE  /\ job'[v].at \in {"claimed", "added"} => reg'[job'[v].r].status = "assigned"
               /\ job'[v].at = "claimed" => made'[job'[v].r] = 0
               /\ job'[v].at = "added" => made'[job'[v].r] = 1
    <3>1. CASE v = w
      BY <1>2, <1>3, <1>4, <1>8, <3>1
    <3>2. CASE v # w
      BY <1>3, <1>5, <1>8, <2>2, <3>2 DEF IInv, ClaimInv
    <3> QED BY <3>1, <3>2
  <2>5. ASSUME NEW u \in Workers, NEW v \in Workers, job'[u].at \in {"claimed", "added"},
               job'[v].at \in {"claimed", "added"}, job'[u].r = job'[v].r
        PROVE  u = v
    <3>1. CASE u = w \/ v = w
      BY <1>2, <1>3, <2>2, <2>5, <3>1
    <3>2. CASE u # w /\ v # w
      BY <1>3, <2>5, <3>2 DEF IInv, ClaimInv
    <3> QED BY <3>1, <3>2
  <2> QED BY <2>1, <2>3, <2>4, <2>5 DEF ClaimInv
<1> QED BY <1>6, <1>7, <1>9, <1>10 DEF IInv

\* A desk that placed a registration by hand leaves it: linked, or given back.
LEMMA LeaveStep ==
  ASSUME IInv, NEW w \in Workers, job[w].at \in {"claimed", "added"},
         NEW row \in RegRow, TurnIffWaiting(row), NEW r \in Regs, r = job[w].r,
         reg' = [reg EXCEPT ![r] = row], job' = [job EXCEPT ![w] = Idle],
         row.student => made[r] = 1,
         made[r] > 0 \/ row.student => row.status = "assigned",
         UNCHANGED <<cap, accepts, joined, count, made, lost>>
  PROVE  IInv'
<1>1. reg[r].status = "assigned"
  BY DEF IInv, ClaimInv
<1>2. /\ job' \in [Workers -> Job] /\ job'[w] = Idle
      /\ \A v \in Workers : v # w => job'[v] = job[v]
      /\ \A v \in Workers : JobOK(job'[v])
  <2>1. JobOK(Idle)
    BY IdleType, RowTypes DEF JobOK
  <2> QED BY <2>1, IdleType, JobStep
<1>3. /\ reg' \in [Regs -> RegRow] /\ reg'[r] = row
      /\ \A q \in Regs : q # r => reg'[q] = reg[q]
  BY DEF IInv, TypeOK
<1>4. TypeOK'
  <2>1. \A q \in Regs : TurnIffWaiting(reg'[q])
    BY <1>3 DEF IInv, TypeOK
  <2> QED BY <1>2, <1>3, <2>1, TypeStep DEF IInv, TypeOK
<1>5. LockInv' /\ SeatsInv'
  BY <1>2, IdleType, SeatsKept
<1>6. PlacedOnce'
  BY <1>3 DEF IInv, PlacedOnce
<1>7. ClaimInv'
  <2>1. ASSUME NEW v \in Workers, Open(v)' PROVE WritesOK(job[v])'
    <3>1. job'[v] = job[v] /\ Open(v)
      BY <1>2, <2>1, IdleType DEF Open
    <3>2. WritesOK(job[v]) /\ job[v].new[r].status = "absent"
      BY <1>1, <3>1 DEF IInv, ClaimInv, WritesOK
    <3> QED BY <1>3, <3>1, <3>2 DEF WritesOK
  <2>2. ASSUME NEW v \in Workers, job'[v].at \in {"claimed", "added"}
        PROVE  job'[v] = job[v] /\ job[v].r \in Regs /\ job[v].r # r /\ v # w
    <3>1. v # w /\ job'[v] = job[v]
      BY <1>2, <2>2, IdleType
    <3> QED BY <2>2, <3>1 DEF IInv, ClaimInv, TypeOK
  <2>3. \A q \in Regs : made'[q] > 0 \/ reg'[q].student => reg'[q].status = "assigned"
    BY <1>3 DEF IInv, ClaimInv
  <2> QED BY <1>3, <2>1, <2>2, <2>3 DEF IInv, ClaimInv
<1> QED BY <1>4, <1>5, <1>6, <1>7 DEF IInv

\* The student made by hand keeps the invariant.
LEMMA LinkStudentStep ==
  ASSUME IInv, NEW w \in Workers, LinkStudent(w)
  PROVE  IInv'
<1>1. PICK r \in Regs : r = job[w].r
  BY DEF LinkStudent, IInv, TypeOK
<1>2. reg[r] \in RegRow /\ TurnIffWaiting(reg[r]) /\ reg[r].status = "assigned" /\ made[r] = 1
  BY <1>1 DEF LinkStudent, IInv, TypeOK, ClaimInv
<1>3. PICK row : row = [reg[r] EXCEPT !.student = TRUE]
  OBVIOUS
<1>4. row \in RegRow /\ TurnIffWaiting(row) /\ row.status = "assigned"
  BY <1>2, <1>3 DEF RegRow, TurnIffWaiting
<1>5. /\ reg' = [reg EXCEPT ![r] = row] /\ job' = [job EXCEPT ![w] = Idle]
      /\ job[w].at \in {"claimed", "added"} /\ UNCHANGED <<cap, accepts, joined, count, made, lost>>
  BY <1>1, <1>3 DEF LinkStudent
<1> QED BY <1>1, <1>2, <1>4, <1>5, LeaveStep

\* A claim given back keeps the invariant.
LEMMA ReleaseStep ==
  ASSUME IInv, NEW w \in Workers, Release(w)
  PROVE  IInv'
<1>1. PICK r \in Regs : r = job[w].r
  BY DEF Release, IInv, TypeOK
<1>2. made[r] = 0
  BY <1>1 DEF Release, IInv, ClaimInv
<1>3. PICK row : row = [NoRow EXCEPT !.status = "pending"]
  OBVIOUS
<1>4. row \in RegRow /\ TurnIffWaiting(row) /\ ~row.student
  <2>1. row = [status |-> "pending", order |-> 0, halaqah |-> NoHalaqah, student |-> FALSE]
    BY <1>3 DEF NoRow
  <2>2. row \in RegRow
    BY <2>1 DEF RegRow, Status
  <2>3. row.status = "pending" /\ row.order = 0 /\ row.student = FALSE
    BY <2>1
  <2> QED BY <2>2, <2>3 DEF TurnIffWaiting
<1>5. /\ reg' = [reg EXCEPT ![r] = row] /\ job' = [job EXCEPT ![w] = Idle]
      /\ job[w].at \in {"claimed", "added"} /\ UNCHANGED <<cap, accepts, joined, count, made, lost>>
  BY <1>1, <1>3 DEF Release
<1>6. row.student => made[r] = 1
  BY <1>4
<1>7. made[r] > 0 \/ row.student => row.status = "assigned"
  BY <1>2, <1>4
<1> QED BY <1>1, <1>4, <1>5, <1>6, <1>7, LeaveStep

\* The line is changed by hand while no transaction is open.
LEMMA LineStep ==
  ASSUME IInv, MosqueLockFree, reg' \in [Regs -> RegRow],
         \A r \in Regs :
           /\ TurnIffWaiting(reg'[r]) /\ reg'[r].student = reg[r].student
           /\ reg[r].status # "waitlisted" => reg'[r].status = reg[r].status,
         UNCHANGED <<cap, accepts, joined, count, job, made, lost>>
  PROVE  IInv'
<1>1. TypeOK'
  BY DEF IInv, TypeOK, TurnIffWaiting
<1>2. \A v \in Workers : ~Open(v) /\ ~Open(v)'
  BY DEF MosqueLockFree, Open
<1>3. LockInv' /\ SeatsInv'
  BY <1>2 DEF LockInv, SeatsInv
<1>4. PlacedOnce'
  BY DEF IInv, PlacedOnce
<1>5. ClaimInv'
  <2>1. ASSUME NEW v \in Workers, job[v].at \in {"claimed", "added"}
        PROVE  reg'[job[v].r].status = "assigned"
    BY <2>1 DEF IInv, ClaimInv, TypeOK
  <2> QED BY <1>2, <2>1 DEF IInv, ClaimInv
<1> QED BY <1>1, <1>3, <1>4, <1>5 DEF IInv

\* Removing from the line keeps the invariant.
LEMMA RemoveEntryStep ==
  ASSUME IInv, RemoveEntry
  PROVE  IInv'
<1>1. PICK r \in Waiting(reg) :
        reg' = [reg EXCEPT ![r].status = "removed", ![r].order = 0]
  BY DEF RemoveEntry
<1>2. r \in Regs /\ reg[r].status = "waitlisted" /\ reg[r] \in RegRow
  BY <1>1 DEF Waiting, IInv, TypeOK
<1>3. /\ reg' \in [Regs -> RegRow] /\ reg'[r].status = "removed" /\ reg'[r].order = 0
      /\ reg'[r].student = reg[r].student
      /\ \A q \in Regs : q # r => reg'[q] = reg[q]
  BY <1>1, <1>2 DEF IInv, TypeOK, RegRow, Status
<1>4. \A q \in Regs :
        /\ TurnIffWaiting(reg'[q]) /\ reg'[q].student = reg[q].student
        /\ reg[q].status # "waitlisted" => reg'[q].status = reg[q].status
  BY <1>2, <1>3 DEF IInv, TypeOK, TurnIffWaiting
<1> QED BY <1>3, <1>4, LineStep DEF RemoveEntry

\* A place in line is a positive number.
LEMMA PlaceType ==
  ASSUME NEW rows, NEW r \in Waiting(rows)
  PROVE  Place(rows, r) \in Nat /\ Place(rows, r) > 0
<1> DEFINE ahead == {q \in Waiting(rows) : q = r \/ Before(rows, q, r)}
<1>1. ahead \subseteq Regs /\ r \in ahead
  BY DEF Waiting
<1>2. IsFiniteSet(ahead)
  BY <1>1, EnrollmentAssumption, FS_Subset
<1> HIDE DEF ahead
<1>3. Cardinality(ahead) \in Nat /\ Cardinality(ahead) # 0
  BY <1>1, <1>2, FS_CardinalityType, FS_EmptySet
<1> QED BY <1>3 DEF Place, ahead

\* Moving within the line keeps the invariant.
LEMMA MoveEntryStep ==
  ASSUME IInv, MoveEntry
  PROVE  IInv'
<1>1. PICK a \in Waiting(reg), b \in Waiting(reg) : reg' = Renumbered(reg, a, b)
  BY DEF MoveEntry
<1>2. ASSUME NEW r \in Regs
      PROVE  /\ reg'[r] \in RegRow /\ TurnIffWaiting(reg'[r])
             /\ reg'[r].student = reg[r].student /\ reg'[r].status = reg[r].status
  <2>1. reg[r] \in RegRow /\ TurnIffWaiting(reg[r])
    BY DEF IInv, TypeOK
  <2>2. CASE r \in Waiting(reg)
    <3>1. PICK n : n = IF r = a THEN Place(reg, b)
                       ELSE IF r = b THEN Place(reg, a) ELSE Place(reg, r)
      OBVIOUS
    <3>2. n \in Nat /\ n > 0
      BY <1>1, <2>2, <3>1, PlaceType
    <3>3. reg'[r] = [reg[r] EXCEPT !.order = n]
      BY <1>1, <2>2, <3>1 DEF Renumbered
    <3>4. reg[r].status = "waitlisted"
      BY <2>2 DEF Waiting
    <3> QED BY <2>1, <3>2, <3>3, <3>4 DEF RegRow, TurnIffWaiting
  <2>3. CASE r \notin Waiting(reg)
    BY <1>1, <2>1, <2>3 DEF Renumbered
  <2> QED BY <2>2, <2>3
<1>3. reg' \in [Regs -> RegRow]
  <2>1. reg' = [r \in Regs |-> reg'[r]]
    BY <1>1 DEF Renumbered
  <2> QED BY <1>2, <2>1
<1> QED BY <1>2, <1>3, LineStep DEF MoveEntry

-----------------------------------------------------------------------------
(* Students come and go without the lock                                   *)

\* The job of an open transaction while k students are put into h by somebody else.
Noticed(j, h, k) == [j EXCEPT !.byHand[h] = @ + k]

\* To notice students seated by hand changes the history and nothing else.
LEMMA NoticedJob ==
  ASSUME NEW j \in Job, NEW h \in Halaqahs, NEW k \in Nat
  PROVE  /\ Noticed(j, h, k) \in Job
         /\ Noticed(j, h, k).at = j.at /\ Noticed(j, h, k).r = j.r /\ Noticed(j, h, k).h = j.h
         /\ Noticed(j, h, k).new = j.new /\ Noticed(j, h, k).taken = j.taken
         /\ Noticed(j, h, k).limit = j.limit /\ Noticed(j, h, k).allows = j.allows
         /\ Noticed(j, h, k).todo = j.todo
         /\ Noticed(j, h, k).byHand[h] = j.byHand[h] + k
         /\ \A g \in Halaqahs : g # h => Noticed(j, h, k).byHand[g] = j.byHand[g]
<1>1. j.byHand \in [Halaqahs -> Nat]
  BY DEF Job
<1>2. Noticed(j, h, k) = [j EXCEPT !.byHand = [j.byHand EXCEPT ![h] = @ + k]]
  BY DEF Noticed
<1>3. [j.byHand EXCEPT ![h] = @ + k] \in [Halaqahs -> Nat]
  BY <1>1
<1>4. Noticed(j, h, k) \in Job
  BY <1>2, <1>3 DEF Job
<1>5. /\ Noticed(j, h, k).at = j.at /\ Noticed(j, h, k).r = j.r /\ Noticed(j, h, k).h = j.h
      /\ Noticed(j, h, k).new = j.new /\ Noticed(j, h, k).taken = j.taken
      /\ Noticed(j, h, k).limit = j.limit /\ Noticed(j, h, k).allows = j.allows
      /\ Noticed(j, h, k).todo = j.todo
      /\ Noticed(j, h, k).byHand = [j.byHand EXCEPT ![h] = @ + k]
  BY <1>2 DEF Job
<1> QED BY <1>1, <1>4, <1>5

\* Seats are kept by more students whom every open transaction notices.
LEMMA SeatsNoticed ==
  ASSUME IInv, NEW h \in Halaqahs, NEW k \in Nat, count' = [count EXCEPT ![h] = @ + k],
         \A v \in Workers : job'[v].at = "deciding" => Open(v) /\ job'[v] = Noticed(job[v], h, k)
  PROVE  LockInv' /\ SeatsInv'
<1>1. LockInv'
  BY DEF IInv, LockInv, Open
<1>2. SeatsInv'
  <2> SUFFICES ASSUME NEW v \in Workers, Open(v)', NEW g \in Halaqahs,
                      job'[v].taken[g] > 0, job'[v].limit[g] # NoLimit
               PROVE  count'[g] + job'[v].taken[g] <= job'[v].limit[g] + job'[v].byHand[g]
    BY DEF SeatsInv, SeatsOK
  <2>1. Open(v) /\ job[v] \in Job /\ job'[v] = Noticed(job[v], h, k)
    BY DEF Open, IInv, TypeOK
  <2>2. /\ job'[v].taken = job[v].taken /\ job'[v].limit = job[v].limit
        /\ job'[v].byHand[h] = job[v].byHand[h] + k
        /\ g # h => job'[v].byHand[g] = job[v].byHand[g]
    BY <2>1, NoticedJob
  <2>3. count[g] + job[v].taken[g] <= job[v].limit[g] + job[v].byHand[g]
    BY <2>1, <2>2 DEF IInv, SeatsInv, SeatsOK
  <2>4. job[v].taken[g] \in Nat /\ job[v].byHand[g] \in Nat /\ job[v].limit[g] \in Limits
    BY <2>1 DEF Job
  <2>5. job[v].limit[g] \in Nat
    BY <2>2, <2>4, EnrollmentAssumption DEF Limits
  <2>6. count[g] \in Nat /\ count'[g] = IF g = h THEN count[g] + k ELSE count[g]
    BY DEF IInv, TypeOK
  <2> QED BY <2>2, <2>3, <2>4, <2>5, <2>6
<1> QED BY <1>1, <1>2

\* Students who come in outside the desk keep the invariant.
LEMMA StudentsIn ==
  ASSUME IInv, NEW h \in Halaqahs, NEW k \in Nat, SeatedByHand(h, k),
         UNCHANGED <<reg, cap, accepts, joined, made, lost>>
  PROVE  IInv'
<1>1. /\ count' = [count EXCEPT ![h] = @ + k]
      /\ job' = [v \in Workers |-> IF job[v].at = "deciding"
                                   THEN Noticed(job[v], h, k) ELSE job[v]]
  BY DEF SeatedByHand, Noticed
<1>2. ASSUME NEW v \in Workers
      PROVE  /\ job'[v] \in Job /\ JobOK(job'[v]) /\ job'[v].at = job[v].at
             /\ job'[v].r = job[v].r /\ job'[v].new = job[v].new
             /\ Open(v) => job'[v] = Noticed(job[v], h, k)
  <2>1. job[v] \in Job /\ JobOK(job[v])
    BY DEF IInv, TypeOK, JobOK
  <2>2. CASE Open(v)
    <3>1. job'[v] = Noticed(job[v], h, k)
      BY <1>1, <2>2 DEF Open
    <3> QED BY <2>1, <3>1, NoticedJob DEF JobOK
  <2>3. CASE ~Open(v)
    BY <1>1, <2>1, <2>3 DEF Open
  <2> QED BY <2>2, <2>3
<1>3. job' \in [Workers -> Job]
  <2>1. job' = [v \in Workers |-> job'[v]]
    BY <1>1
  <2> QED BY <1>2, <2>1
<1>4. /\ count' \in [Halaqahs -> Nat]
      /\ UNCHANGED <<reg, cap, accepts, joined, made, lost>>
  BY <1>1 DEF IInv, TypeOK
<1>5. TypeOK'
  BY <1>2, <1>3, <1>4, TypeStep DEF IInv, TypeOK
<1>6. LockInv' /\ SeatsInv'
  BY <1>1, <1>2, SeatsNoticed DEF Open
<1>7. PlacedOnce'
  BY <1>4 DEF IInv, PlacedOnce
<1>8. ClaimInv'
  BY <1>2, <1>4 DEF IInv, ClaimInv, WritesOK, Open
<1> QED BY <1>5, <1>6, <1>7, <1>8 DEF IInv

\* A student added by the teacher keeps the invariant.
LEMMA AddStudentStep ==
  ASSUME IInv, NEW w \in Workers, AddStudent(w)
  PROVE  IInv'
<1>1. PICK h \in Halaqahs, r \in Regs : h = job[w].h /\ r = job[w].r
  BY DEF AddStudent, IInv, TypeOK
<1>2. /\ job[w].at = "claimed" /\ count' = [count EXCEPT ![h] = @ + 1]
      /\ job' = [v \in Workers |->
           IF v = w THEN [job[w] EXCEPT !.at = "added"]
           ELSE IF job[v].at = "deciding" THEN Noticed(job[v], h, 1) ELSE job[v]]
      /\ made' = [made EXCEPT ![r] = @ + 1]
      /\ UNCHANGED <<reg, cap, accepts, joined, lost>>
  BY <1>1 DEF AddStudent, Noticed
<1>3. /\ job'[w] \in Job /\ JobOK(job'[w]) /\ job'[w].at = "added" /\ job'[w].r = r
  <2>1. job[w] \in Job /\ JobOK(job[w])
    BY DEF IInv, TypeOK, JobOK
  <2>2. job'[w] = [job[w] EXCEPT !.at = "added"]
    BY <1>2
  <2>3. job'[w] \in Job
    BY <2>1, <2>2 DEF Job, At
  <2>4. /\ job'[w].at = "added" /\ job'[w].r = r /\ job'[w].h = h
        /\ job'[w].new = job[w].new
    BY <1>1, <2>1, <2>2 DEF Job
  <2> QED BY <2>1, <2>3, <2>4 DEF JobOK
<1>4. ASSUME NEW v \in Workers, v # w
      PROVE  /\ job'[v] \in Job /\ JobOK(job'[v]) /\ job'[v].at = job[v].at
             /\ job'[v].r = job[v].r /\ job'[v].new = job[v].new
             /\ Open(v) => job'[v] = Noticed(job[v], h, 1)
  <2>1. job[v] \in Job /\ JobOK(job[v])
    BY DEF IInv, TypeOK, JobOK
  <2>2. CASE Open(v)
    <3>1. job'[v] = Noticed(job[v], h, 1)
      BY <1>2, <1>4, <2>2 DEF Open
    <3> QED BY <2>1, <3>1, NoticedJob DEF JobOK
  <2>3. CASE ~Open(v)
    BY <1>2, <1>4, <2>1, <2>3 DEF Open
  <2> QED BY <2>2, <2>3
<1>5. job' \in [Workers -> Job]
  <2>1. job' = [v \in Workers |-> job'[v]]
    BY <1>2
  <2> QED BY <1>3, <1>4, <2>1
<1>6. /\ count' \in [Halaqahs -> Nat] /\ made' \in [Regs -> Nat]
      /\ made'[r] = made[r] + 1 /\ \A q \in Regs : q # r => made'[q] = made[q]
  BY <1>2 DEF IInv, TypeOK
<1>7. made[r] = 0 /\ reg[r].status = "assigned"
  BY <1>1, <1>2 DEF IInv, ClaimInv
<1>8. TypeOK'
  BY <1>2, <1>3, <1>4, <1>5, <1>6, TypeStep DEF IInv, TypeOK
<1>9. LockInv' /\ SeatsInv'
  BY <1>2, <1>3, <1>4, SeatsNoticed DEF Open
<1>10. PlacedOnce'
  BY <1>2, <1>6, <1>7 DEF IInv, PlacedOnce
<1>11. ClaimInv'
  <2>1. ASSUME NEW v \in Workers, Open(v)' PROVE WritesOK(job[v])'
    BY <1>2, <1>3, <1>4, <2>1 DEF IInv, ClaimInv, WritesOK, Open
  <2>2. ASSUME NEW v \in Workers, v # w, job'[v].at \in {"claimed", "added"}
        PROVE  /\ job[v].at = job'[v].at /\ job'[v].r = job[v].r
               /\ job[v].r \in Regs /\ job[v].r # r
    BY <1>1, <1>2, <1>4, <2>2 DEF IInv, ClaimInv, TypeOK
  <2>3. \A q \in Regs : made'[q] > 0 \/ reg'[q].student => reg'[q].status = "assigned"
    BY <1>2, <1>6, <1>7 DEF IInv, ClaimInv
  <2>4. ASSUME NEW v \in Workers
        PROVE  /\ job'[v].at \in {"claimed", "added"} => reg'[job'[v].r].status = "assigned"
               /\ job'[v].at = "claimed" => made'[job'[v].r] = 0
               /\ job'[v].at = "added" => made'[job'[v].r] = 1
    <3>1. CASE v = w
      BY <1>2, <1>3, <1>6, <1>7, <3>1
    <3>2. CASE v # w
      BY <1>2, <1>6, <2>2, <3>2 DEF IInv, ClaimInv
    <3> QED BY <3>1, <3>2
  <2>5. ASSUME NEW u \in Workers, NEW v \in Workers, job'[u].at \in {"claimed", "added"},
               job'[v].at \in {"claimed", "added"}, job'[u].r = job'[v].r
        PROVE  u = v
    <3>1. CASE u = w \/ v = w
      BY <1>3, <2>2, <2>5, <3>1
    <3>2. CASE u # w /\ v # w
      BY <2>2, <2>5, <3>2 DEF IInv, ClaimInv
    <3> QED BY <3>1, <3>2
  <2> QED BY <2>1, <2>3, <2>4, <2>5 DEF ClaimInv
<1> QED BY <1>8, <1>9, <1>10, <1>11 DEF IInv

\* Students who go outside the desk, and halaqahs that join, keep the invariant.
LEMMA SeatsLeft ==
  ASSUME IInv, count' \in [Halaqahs -> Nat], \A h \in Halaqahs : count'[h] <= count[h],
         lost' \in [Halaqahs -> BOOLEAN], joined' \in [Halaqahs -> BOOLEAN],
         UNCHANGED <<reg, cap, accepts, job, made>>
  PROVE  IInv'
<1>2. TypeOK'
  BY DEF IInv, TypeOK
<1>3. LockInv' /\ PlacedOnce' /\ ClaimInv'
  BY DEF IInv, LockInv, PlacedOnce, ClaimInv, WritesOK, Open
<1>4. SeatsInv'
  <2> SUFFICES ASSUME NEW v \in Workers, Open(v), NEW h \in Halaqahs,
                      job[v].taken[h] > 0, job[v].limit[h] # NoLimit
               PROVE  count'[h] + job[v].taken[h] <= job[v].limit[h] + job[v].byHand[h]
    BY DEF SeatsInv, SeatsOK, Open
  <2>1. count[h] + job[v].taken[h] <= job[v].limit[h] + job[v].byHand[h]
    BY DEF IInv, SeatsInv, SeatsOK
  <2>2. job[v] \in Job
    BY DEF IInv, TypeOK
  <2>3. job[v].taken[h] \in Nat /\ job[v].byHand[h] \in Nat /\ job[v].limit[h] \in Limits
    BY <2>2 DEF Job
  <2>4. job[v].limit[h] \in Nat
    BY <2>3, EnrollmentAssumption DEF Limits
  <2>5. count[h] \in Nat /\ count'[h] \in Nat /\ count'[h] <= count[h]
    BY DEF IInv, TypeOK
  <2> QED BY <2>1, <2>3, <2>4, <2>5
<1> QED BY <1>2, <1>3, <1>4 DEF IInv

\* A student who comes in outside the desk keeps the invariant.
LEMMA StudentInStep ==
  ASSUME IInv, StudentIn
  PROVE  IInv'
<1>1. PICK h \in Halaqahs : SeatedByHand(h, 1)
  BY DEF StudentIn
<1>2. UNCHANGED <<reg, cap, accepts, joined, made, lost>>
  BY DEF StudentIn
<1> QED BY <1>1, <1>2, StudentsIn

\* A suspension or a dismissal keeps the invariant.
LEMMA SuspendStep ==
  ASSUME IInv, Suspend
  PROVE  IInv'
<1>1. /\ count' \in [Halaqahs -> Nat] /\ \A h \in Halaqahs : count'[h] <= count[h]
      /\ lost' \in [Halaqahs -> BOOLEAN] /\ joined' \in [Halaqahs -> BOOLEAN]
      /\ UNCHANGED <<reg, cap, accepts, job, made>>
  BY DEF Suspend, SeatForgotten, IInv, TypeOK
<1> QED BY <1>1, SeatsLeft

\* A list of students replaced is a number of them gone, or a number of them come.
LEMMA ReplacedList ==
  ASSUME IInv, ReplaceStudents
  PROVE  /\ UNCHANGED <<reg, cap, accepts, joined, made>>
         /\ \/ \E h \in Halaqahs, n \in Nat :
                 /\ n < count[h] /\ count' = [count EXCEPT ![h] = n]
                 /\ SeatForgotten(h) /\ UNCHANGED job
            \/ \E h \in Halaqahs, k \in Nat : SeatedByHand(h, k) /\ UNCHANGED lost
<1>1. PICK h \in Halaqahs, n \in 0..MaxStudents :
        \/ /\ n < count[h] /\ count' = [count EXCEPT ![h] = n]
           /\ SeatForgotten(h) /\ UNCHANGED job
        \/ n >= count[h] /\ SeatedByHand(h, n - count[h]) /\ UNCHANGED lost
  BY DEF ReplaceStudents
<1>2. n \in Nat /\ count[h] \in Nat
  BY EnrollmentAssumption DEF IInv, TypeOK
<1>3. n >= count[h] => n - count[h] \in Nat
  BY <1>2
<1>4. UNCHANGED <<reg, cap, accepts, joined, made>>
  BY DEF ReplaceStudents
<1> QED BY <1>1, <1>2, <1>3, <1>4

\* A list of students replaced by another keeps the invariant.
LEMMA ReplaceStudentsStep ==
  ASSUME IInv, ReplaceStudents
  PROVE  IInv'
<1>1. UNCHANGED <<reg, cap, accepts, joined, made>>
  BY ReplacedList
<1>2. CASE \E h \in Halaqahs, k \in Nat : SeatedByHand(h, k) /\ UNCHANGED lost
  BY <1>1, <1>2, StudentsIn
<1>3. CASE \E h \in Halaqahs, n \in Nat :
             /\ n < count[h] /\ count' = [count EXCEPT ![h] = n]
             /\ SeatForgotten(h) /\ UNCHANGED job
  <2>1. PICK h \in Halaqahs, n \in Nat :
          n < count[h] /\ count' = [count EXCEPT ![h] = n] /\ SeatForgotten(h)
    BY <1>3
  <2>2. count' \in [Halaqahs -> Nat] /\ \A g \in Halaqahs : count'[g] <= count[g]
    BY <2>1 DEF IInv, TypeOK
  <2>3. lost' \in [Halaqahs -> BOOLEAN] /\ joined' \in [Halaqahs -> BOOLEAN]
    BY <1>1, <2>1 DEF SeatForgotten, IInv, TypeOK
  <2> QED BY <1>1, <1>3, <2>2, <2>3, SeatsLeft
<1> QED BY <1>2, <1>3, ReplacedList

\* A halaqah that joins the mosque keeps the invariant.
LEMMA AttachHalaqahStep ==
  ASSUME IInv, AttachHalaqah
  PROVE  IInv'
<1>1. /\ count' \in [Halaqahs -> Nat] /\ \A h \in Halaqahs : count'[h] <= count[h]
      /\ lost' \in [Halaqahs -> BOOLEAN] /\ joined' \in [Halaqahs -> BOOLEAN]
      /\ UNCHANGED <<reg, cap, accepts, job, made>>
  BY DEF AttachHalaqah, SeatForgotten, IInv, TypeOK
<1> QED BY <1>1, SeatsLeft

\* A promotion that has no mosque to promote in keeps the invariant.
LEMMA NoPromotionStep ==
  ASSUME IInv, NEW w \in Workers, NoPromotion(w)
  PROVE  IInv'
<1>1. job' = [job EXCEPT ![w] = Idle] /\ UNCHANGED <<reg, cap, accepts, joined, count, made, lost>>
  BY DEF NoPromotion
<1>2. Idle \in Job /\ Idle.at = "idle" /\ \A r \in Regs : TurnIffWaiting(Idle.new[r])
  BY IdleType, RowTypes
<1>3. count' \in [Halaqahs -> Nat] /\ \A h \in Halaqahs : count'[h] <= count[h]
  BY <1>1 DEF IInv, TypeOK
<1>4. lost' \in [Halaqahs -> BOOLEAN]
  BY <1>1 DEF IInv, TypeOK
<1> QED BY <1>1, <1>2, <1>3, <1>4, QuietStep

-----------------------------------------------------------------------------
(* The theorems                                                            *)

\* Every step keeps the invariant, by the lemma of its action.
LEMMA StepIInv == IInv /\ [Next]_vars => IInv'
<1> SUFFICES ASSUME IInv, [Next]_vars PROVE IInv'
  OBVIOUS
<1>1. ASSUME NEW w \in Workers, Register(w) PROVE IInv'
  BY <1>1, RegisterStep
<1>2. ASSUME NEW w \in Workers, BeginAssign(w) PROVE IInv'
  BY <1>2, BeginAssignStep
<1>3. ASSUME NEW w \in Workers, BeginAssignPending(w) PROVE IInv'
  BY <1>3, BeginAssignPendingStep
<1>4. ASSUME NEW w \in Workers, Decide(w) PROVE IInv'
  BY <1>4, DecideStep
<1>5. ASSUME NEW w \in Workers, BeginPromote(w) PROVE IInv'
  BY <1>5, BeginPromoteStep
<1>6. ASSUME NEW w \in Workers, BeginCriteria(w) PROVE IInv'
  BY <1>6, BeginCriteriaStep
<1>7. ASSUME NEW w \in Workers, Commit(w) PROVE IInv'
  BY <1>7, CommitStep
<1>8. ASSUME NEW w \in Workers, Claim(w) PROVE IInv'
  BY <1>8, ClaimStep
<1>9. ASSUME NEW w \in Workers, AddStudent(w) PROVE IInv'
  BY <1>9, AddStudentStep
<1>10. ASSUME NEW w \in Workers, LinkStudent(w) PROVE IInv'
  BY <1>10, LinkStudentStep
<1>11. ASSUME NEW w \in Workers, Release(w) PROVE IInv'
  BY <1>11, ReleaseStep
<1>12. ASSUME NEW w \in Workers, StudentOut(w) PROVE IInv'
  BY <1>12, StudentOutStep
<1>13. ASSUME NEW w \in Workers, Die(w) PROVE IInv'
  BY <1>13, DieStep
<1>14. CASE MoveEntry
  BY <1>14, MoveEntryStep
<1>15. CASE RemoveEntry
  BY <1>15, RemoveEntryStep
<1>16. CASE StudentIn
  BY <1>16, StudentInStep
<1>17. CASE Suspend
  BY <1>17, SuspendStep
<1>18. CASE ReplaceStudents
  BY <1>18, ReplaceStudentsStep
<1>19. CASE AttachHalaqah
  BY <1>19, AttachHalaqahStep
<1>20. ASSUME NEW w \in Workers, NoPromotion(w) PROVE IInv'
  BY <1>20, NoPromotionStep
<1>21. CASE UNCHANGED vars
  BY <1>21 DEF vars, IInv, TypeOK, LockInv, SeatsInv, SeatsOK, ClaimInv, WritesOK,
               PlacedOnce, Open
<1> QED BY <1>1, <1>2, <1>3, <1>4, <1>5, <1>6, <1>7, <1>8, <1>9, <1>10, <1>11, <1>12,
           <1>13, <1>14, <1>15, <1>16, <1>17, <1>18, <1>19, <1>20, <1>21 DEF Next

\* The inductive invariant: types, the lock, the seats an open transaction has
\* counted, the registrations it writes, and the desk that owns a claimed one.
THEOREM Invariant == Spec => []IInv
  BY InitIInv, StepIInv, PTL DEF Spec

\* Rows, counters and jobs keep their types, and a registration has a place in line
\* exactly while it waits (waitlist_order of mosque_registrations).
THEOREM TypeCorrect == Spec => []TypeOK
<1>1. IInv => TypeOK
  BY DEF IInv
<1> QED BY <1>1, Invariant, PTL

\* A registration becomes one student at most, whatever desks, batches and promotions
\* work on it at once, and a linked student exists (claimRegistration, promoteTx).
THEOREM StudentMadeOnce == Spec => []PlacedOnce
<1>1. IInv => PlacedOnce
  BY DEF IInv
<1> QED BY <1>1, Invariant, PTL

\* Two transactions of the desk are never open at once (withMosqueTx locks the row).
THEOREM LockExclusive == Spec => []LockInv
<1>1. IInv => LockInv
  BY DEF IInv
<1> QED BY <1>1, Invariant, PTL

-----------------------------------------------------------------------------
(* Capacity                                                                *)

\* An open transaction ends by its own commit or by its own death.
LEMMA EndOfJob ==
  ASSUME IInv, [Next]_vars, NEW w \in Workers, Committing(w)
  PROVE  Commit(w) \/ Die(w)
<1>1. Open(w) /\ job'[w].at # "deciding" /\ job[w] \in Job
  BY DEF Committing, Open, IInv, TypeOK
<1>2. ~UNCHANGED job
  BY <1>1 DEF Open
<1>3. ~UNCHANGED vars /\ ~MoveEntry /\ ~RemoveEntry /\ ~Suspend /\ ~AttachHalaqah
  BY <1>2 DEF vars, MoveEntry, RemoveEntry, Suspend, AttachHalaqah
<1>4. ~StudentIn /\ ~ReplaceStudents
  <2> SUFFICES ASSUME StudentIn \/ ReplaceStudents PROVE FALSE
    OBVIOUS
  <2>1. PICK g \in Halaqahs, k \in Nat : SeatedByHand(g, k)
    BY <1>2, ReplacedList DEF StudentIn
  <2>2. job'[w] = Noticed(job[w], g, k)
    BY <1>1, <2>1 DEF SeatedByHand, Noticed, Open
  <2> QED BY <1>1, <2>2, NoticedJob DEF Open
<1>5. ASSUME NEW v \in Workers
      PROVE  ~AddStudent(v)
  <2> SUFFICES ASSUME AddStudent(v) PROVE FALSE
    OBVIOUS
  <2>1. v # w
    BY <1>1 DEF AddStudent, Open
  <2>2. job[v].h \in Halaqahs
    BY DEF AddStudent, IInv, TypeOK
  <2>3. job'[w] = Noticed(job[w], job[v].h, 1)
    BY <1>1, <2>1 DEF AddStudent, Noticed, Open
  <2> QED BY <1>1, <2>2, <2>3, NoticedJob DEF Open
<1>6. ASSUME NEW v \in Workers, v # w, NEW j, job' = [job EXCEPT ![v] = j] PROVE FALSE
  <2>1. job'[w] = job[w]
    BY <1>6 DEF IInv, TypeOK
  <2> QED BY <1>1, <2>1 DEF Open
<1>7. ASSUME NEW v \in Workers
      PROVE  /\ ~Register(v) /\ ~BeginAssign(v) /\ ~BeginAssignPending(v)
             /\ ~BeginPromote(v) /\ ~BeginCriteria(v) /\ ~Claim(v) /\ ~LinkStudent(v)
             /\ ~Release(v) /\ ~StudentOut(v) /\ ~NoPromotion(v)
  <2> SUFFICES ASSUME \/ Register(v) \/ BeginAssign(v) \/ BeginAssignPending(v)
                      \/ BeginPromote(v) \/ BeginCriteria(v) \/ Claim(v) \/ LinkStudent(v)
                      \/ Release(v) \/ StudentOut(v) \/ NoPromotion(v)
               PROVE  FALSE
    OBVIOUS
  <2>1. v # w
    BY <1>1 DEF Register, BeginAssign, BeginAssignPending, BeginPromote, BeginCriteria,
                Claim, LinkStudent, Release, StudentOut, NoPromotion, Open
  <2>2. PICK j : job' = [job EXCEPT ![v] = j]
    BY DEF Register, BeginAssign, BeginAssignPending, BeginPromote, BeginCriteria,
           Claim, LinkStudent, Release, StudentOut, AfterStudentOut, NoPromotion
  <2> QED BY <1>6, <2>1, <2>2
<1>8. ASSUME NEW v \in Workers, Decide(v) PROVE FALSE
  <2>1. v = w
    BY <1>1, <1>8 DEF Decide, IInv, LockInv, Open
  <2>2. \A r, row : Written(job[w], r, row).at = "deciding"
    BY <1>1 DEF Written, Job, Open
  <2>3. PICK r : PassOver(w, r) \/ Seat(w, r) \/ JoinLine(w, r)
    BY <1>8, <2>1 DEF Decide
  <2>4. CASE PassOver(w, r)
    <3>1. job'[w] = [job[w] EXCEPT !.todo = @ \ {r}]
      BY <2>4 DEF PassOver, IInv, TypeOK
    <3> QED BY <1>1, <3>1 DEF Open
  <2>5. CASE Seat(w, r)
    <3>1. PICK h : job' = [job EXCEPT ![w] =
            [Written(job[w], r, Seated(reg[r], h, TRUE)) EXCEPT !.taken[h] = @ + 1]]
      BY <2>5 DEF Seat
    <3>2. job'[w] = [Written(job[w], r, Seated(reg[r], h, TRUE)) EXCEPT !.taken[h] = @ + 1]
      BY <3>1 DEF IInv, TypeOK
    <3>3. job'[w].at = job[w].at
      BY <1>1, <3>2 DEF Written, Job
    <3> QED BY <1>1, <3>3 DEF Open
  <2>6. CASE JoinLine(w, r)
    <3>1. PICK row : job' = [job EXCEPT ![w] = Written(job[w], r, row)]
      BY <2>6 DEF JoinLine
    <3> QED BY <1>1, <2>2, <3>1 DEF IInv, TypeOK
  <2> QED BY <2>3, <2>4, <2>5, <2>6
<1>9. PICK v \in Workers : Commit(v) \/ Die(v)
  BY <1>3, <1>4, <1>5, <1>7, <1>8 DEF Next
<1>10. v = w
  BY <1>6, <1>9 DEF Commit, Die
<1> QED BY <1>9, <1>10

\* Automatic seating never commits more students than the capacity it read, but for
\* those put in by hand since it began (withMosqueTx, pickHalaqah, selectPromotions).
THEOREM CapacityKept == Spec => AutoKeepsCapacity
<1> DEFINE Kept ==
      \A w \in Workers, h \in Halaqahs :
        Committing(w) /\ count'[h] > count[h] /\ cap'[h] # NoLimit
          => count'[h] <= cap'[h] + job[w].byHand[h]
<1>1. IInv /\ [Next]_vars => Kept
  <2> SUFFICES ASSUME IInv, [Next]_vars, NEW w \in Workers, NEW h \in Halaqahs,
                      Committing(w), count'[h] > count[h], cap'[h] # NoLimit
               PROVE  count'[h] <= cap'[h] + job[w].byHand[h]
    OBVIOUS
  <2>0. count[h] \in Nat
    BY DEF IInv, TypeOK
  <2>1. Commit(w) /\ Open(w)
    BY <2>0, EndOfJob DEF Committing, Open, Die
  <2>2. count'[h] = count[h] + job[w].taken[h] /\ cap'[h] = job[w].limit[h]
    BY <2>1 DEF Commit, CountSeenBy
  <2>3. count[h] \in Nat /\ job[w].taken[h] \in Nat
    BY DEF IInv, TypeOK, Job
  <2>4. job[w].taken[h] > 0 /\ job[w].limit[h] # NoLimit
    BY <2>2, <2>3
  <2>5. count[h] + job[w].taken[h] <= job[w].limit[h] + job[w].byHand[h]
    BY <2>1, <2>4 DEF IInv, SeatsInv, SeatsOK
  <2> QED BY <2>2, <2>5
<1>2. IInv /\ [Next]_vars => [Kept]_vars
  BY <1>1
<1> QED BY <1>2, Invariant, PTL DEF Spec, AutoKeepsCapacity

-----------------------------------------------------------------------------
(* The line of those who wait: nobody shares a place in it, and a promotion *)
(* serves it in turn.                                                      *)

\* No two who wait have the same order.
Strict(rows) == \A a, b \in Waiting(rows) : a # b => rows[a].order # rows[b].order

\* What the open transaction of job j will make of the rows.
After(j) == [r \in Regs |-> IF j.new[r].status # "absent" THEN j.new[r] ELSE reg[r]]

\* One that seats new registrations writes those that are pending, and puts them behind
\* everybody who waits; a promotion seats, all at once, the first of those who wait and
\* are accepted.
ServedOK(j) ==
  /\ j.h = NoHalaqah =>
       \A r \in Regs : j.new[r].status # "absent" =>
         /\ reg[r].status = "pending"
         /\ j.new[r].status = "waitlisted" =>
              \A q \in Waiting(reg) : reg[q].order < j.new[r].order
  /\ j.h # NoHalaqah =>
       /\ j.todo = {}
       /\ \A c \in Regs : j.new[c].status # "absent" =>
            /\ j.new[c].status = "assigned" /\ j.new[c].halaqah = j.h
            /\ \A m \in Waiting(reg) \intersect j.allows[j.h] :
                 j.new[m].status = "absent" => Before(reg, c, m)

LineInv ==
  /\ Strict(reg)
  /\ \A w \in Workers : Open(w) => Strict(After(job[w])) /\ ServedOK(job[w])

LInv == IInv /\ LineInv

-----------------------------------------------------------------------------
(* Rows that leave the line, and rows that keep their place                *)

\* When rows only leave the line, it stays strict.
LEMMA FewerWait ==
  ASSUME NEW rows, NEW rows2, Strict(rows),
         \A r \in Regs : rows2[r].status = "waitlisted" => rows2[r] = rows[r]
  PROVE  Strict(rows2)
  BY DEF Strict, Waiting

\* Steps in which nobody enters the line and open transactions keep what they wrote.
LEMMA LineKept ==
  ASSUME LInv,
         \A r \in Regs : reg'[r].status = "waitlisted" => reg'[r] = reg[r],
         \A v \in Workers : job'[v].at = "deciding" =>
           /\ job[v].at = "deciding"
           /\ job'[v].new = job[v].new /\ job'[v].h = job[v].h
           /\ job'[v].todo \subseteq job[v].todo /\ job'[v].allows = job[v].allows
           /\ \A r \in Regs : job[v].new[r].status # "absent" => reg'[r] = reg[r]
  PROVE  LineInv'
<1>1. Strict(reg)'
  <2>1. PICK rows, rows2 : rows = reg /\ rows2 = reg'
    OBVIOUS
  <2>2. Strict(rows) /\ \A r \in Regs : rows2[r].status = "waitlisted" => rows2[r] = rows[r]
    BY <2>1 DEF LInv, LineInv
  <2>3. Strict(rows2)
    BY <2>2, FewerWait
  <2> QED BY <2>1, <2>3 DEF Strict, Waiting
<1>2. ASSUME NEW v \in Workers, Open(v)'
      PROVE  Strict(After(job[v]))' /\ ServedOK(job[v])'
  <2>1. /\ Open(v) /\ job'[v].new = job[v].new /\ job'[v].h = job[v].h
        /\ job'[v].todo \subseteq job[v].todo /\ job'[v].allows = job[v].allows
        /\ \A r \in Regs : job[v].new[r].status # "absent" => reg'[r] = reg[r]
    BY <1>2 DEF Open
  <2>2. Strict(After(job[v])) /\ ServedOK(job[v])
    BY <2>1 DEF LInv, LineInv
  <2>3. Strict(After(job[v]))'
    <3>1. PICK rows, rows2 : rows = After(job[v]) /\ rows2 = After(job[v])'
      OBVIOUS
    <3>2. \A r \in Regs :
            /\ rows[r] = IF job[v].new[r].status # "absent" THEN job[v].new[r] ELSE reg[r]
            /\ rows2[r] = IF job[v].new[r].status # "absent" THEN job[v].new[r] ELSE reg'[r]
      BY <2>1, <3>1 DEF After
    <3>3. Strict(rows)
      BY <2>2, <3>1
    <3>4. Strict(rows2)
      BY <3>2, <3>3, FewerWait
    <3> QED BY <3>1, <3>4 DEF Strict, Waiting
  <2>4. ServedOK(job[v])'
    <3>1. CASE job[v].h = NoHalaqah
      <4>1. ASSUME NEW r \in Regs, job[v].new[r].status = "waitlisted",
                   NEW q \in Regs, reg'[q].status = "waitlisted"
            PROVE  reg'[q].order < job[v].new[r].order
        <5>1. reg'[q] = reg[q]
          BY <4>1
        <5>2. reg[q].order < job[v].new[r].order
          BY <2>2, <3>1, <4>1, <5>1 DEF ServedOK, Waiting
        <5> QED BY <5>1, <5>2
      <4> QED BY <2>1, <2>2, <3>1, <4>1 DEF ServedOK, Waiting
    <3>2. CASE job[v].h # NoHalaqah
      <4>1. job'[v].todo = {}
        BY <2>1, <2>2, <3>2 DEF ServedOK
      <4>2. ASSUME NEW c \in Regs, job[v].new[c].status # "absent",
                   NEW m \in Regs, reg'[m].status = "waitlisted",
                   m \in job[v].allows[job[v].h], job[v].new[m].status = "absent"
            PROVE  Before(reg, c, m)'
        <5>1. reg'[m] = reg[m] /\ reg'[c] = reg[c]
          BY <2>1, <4>2
        <5>2. Before(reg, c, m)
          BY <2>2, <3>2, <4>2, <5>1 DEF ServedOK, Waiting
        <5> QED BY <5>1, <5>2 DEF Before
      <4> QED BY <2>1, <2>2, <3>2, <4>1, <4>2 DEF ServedOK, Waiting
    <3> QED BY <3>1, <3>2
  <2> QED BY <2>3, <2>4
<1> QED BY <1>1, <1>2 DEF LineInv

-----------------------------------------------------------------------------
(* Steps in which nobody enters the line                                   *)

\* Such a step of one request, whose transaction is not open after it.
LEMMA RequestStep ==
  ASSUME LInv, NEW w \in Workers, NEW j, j.at # "deciding", job' = [job EXCEPT ![w] = j],
         \A r \in Regs : reg'[r].status = "waitlisted" => reg'[r] = reg[r],
         \A v \in Workers : v # w /\ Open(v) =>
           \A r \in Regs : job[v].new[r].status # "absent" => reg'[r] = reg[r]
  PROVE  LineInv'
<1>1. /\ job'[w] = j
      /\ \A v \in Workers : v # w => job'[v] = job[v]
  BY DEF LInv, IInv, TypeOK
<1>2. \A v \in Workers : job'[v].at = "deciding" => v # w /\ job'[v] = job[v] /\ Open(v)
  BY <1>1 DEF Open
<1> QED BY <1>2, LineKept DEF Open

\* One row is changed, to a status other than waitlisted, that no transaction wrote.
LEMMA RowStep ==
  ASSUME LInv, NEW w \in Workers, NEW j, j.at # "deciding", job' = [job EXCEPT ![w] = j],
         NEW r \in Regs, \A q \in Regs : q # r => reg'[q] = reg[q],
         reg'[r].status # "waitlisted",
         \A v \in Workers : v # w /\ Open(v) => job[v].new[r].status = "absent"
  PROVE  LineInv'
  BY RequestStep

\* A new registration does not stand in the line yet.
LEMMA RegisterLine == ASSUME LInv, NEW w \in Workers, Register(w) PROVE LineInv'
<1>1. PICK r \in Regs :
        /\ reg[r].status = "absent"
        /\ reg' = [reg EXCEPT ![r].status = "pending"]
        /\ job' = [job EXCEPT ![w] = [Idle EXCEPT !.at = "registered", !.r = r]]
  BY DEF Register
<1>2. PICK j : j = [Idle EXCEPT !.at = "registered", !.r = r]
  OBVIOUS
<1>3. j.at # "deciding" /\ job' = [job EXCEPT ![w] = j]
  BY <1>1, <1>2 DEF Idle
<1>4. reg'[r].status = "pending" /\ \A q \in Regs : q # r => reg'[q] = reg[q]
  BY <1>1 DEF LInv, IInv, TypeOK, RegRow
<1>5. \A v \in Workers : Open(v) => job[v].new[r].status = "absent"
  BY <1>1 DEF LInv, IInv, ClaimInv, WritesOK
<1> QED BY <1>3, <1>4, <1>5, RowStep

\* Placing by hand takes a row out of the line and the others keep their places.
LEMMA ClaimLine == ASSUME LInv, NEW w \in Workers, Claim(w) PROVE LineInv'
<1>1. PICK r \in Regs, h \in Halaqahs :
        /\ ~RowLocked(r)
        /\ reg' = [reg EXCEPT ![r] = Seated(reg[r], h, reg[r].student)]
        /\ job' = [job EXCEPT ![w] = [Idle EXCEPT !.at = "claimed", !.r = r, !.h = h]]
  BY DEF Claim
<1>2. PICK j : j = [Idle EXCEPT !.at = "claimed", !.r = r, !.h = h]
  OBVIOUS
<1>3. j.at # "deciding" /\ job' = [job EXCEPT ![w] = j]
  BY <1>1, <1>2 DEF Idle
<1>4. reg'[r].status = "assigned" /\ \A q \in Regs : q # r => reg'[q] = reg[q]
  <2>1. reg'[r] = Seated(reg[r], h, reg[r].student) /\ reg[r] \in RegRow
    BY <1>1 DEF LInv, IInv, TypeOK
  <2>2. reg[r].student \in BOOLEAN
    BY <2>1 DEF RegRow
  <2>3. \A q \in Regs : q # r => reg'[q] = reg[q]
    BY <1>1 DEF LInv, IInv, TypeOK
  <2> QED BY <2>1, <2>2, <2>3, SeatedType
<1>5. \A v \in Workers : Open(v) => job[v].new[r].status = "absent"
  BY <1>1 DEF RowLocked, Wrote, Open
<1> QED BY <1>3, <1>4, <1>5, RowStep

\* LinkStudent and Release of a claimed registration, which nobody else writes.
LEMMA LeaveLine ==
  ASSUME LInv, NEW w \in Workers, LinkStudent(w) \/ Release(w)
  PROVE  LineInv'
<1>1. PICK r \in Regs : r = job[w].r
  BY DEF LinkStudent, Release, LInv, IInv, TypeOK
<1>2. reg[r].status = "assigned"
  BY <1>1 DEF LinkStudent, Release, LInv, IInv, ClaimInv
<1>3. PICK j : j = Idle /\ job' = [job EXCEPT ![w] = j]
  BY DEF LinkStudent, Release
<1>4. j.at # "deciding"
  BY <1>3, IdleType
<1>5. reg'[r].status # "waitlisted" /\ \A q \in Regs : q # r => reg'[q] = reg[q]
  <2>1. CASE LinkStudent(w)
    <3>1. reg' = [reg EXCEPT ![r].student = TRUE]
      BY <1>1, <2>1 DEF LinkStudent
    <3> QED BY <1>2, <3>1 DEF LInv, IInv, TypeOK, RegRow
  <2>2. CASE Release(w)
    <3>1. reg' = [reg EXCEPT ![r] = [NoRow EXCEPT !.status = "pending"]]
      BY <1>1, <2>2 DEF Release
    <3>2. [NoRow EXCEPT !.status = "pending"].status = "pending"
      BY DEF NoRow
    <3> QED BY <3>1, <3>2 DEF LInv, IInv, TypeOK
  <2> QED BY <2>1, <2>2
<1>6. \A v \in Workers : Open(v) => job[v].new[r].status = "absent"
  BY <1>2 DEF LInv, IInv, ClaimInv, WritesOK
<1> QED BY <1>3, <1>4, <1>5, <1>6, RowStep

\* A freed seat, one that nobody is promoted to, and a death leave the rows alone.
LEMMA QuietLine ==
  ASSUME LInv, NEW w \in Workers, StudentOut(w) \/ NoPromotion(w) \/ Die(w)
  PROVE  LineInv'
<1>1. PICK j : j.at # "deciding" /\ job' = [job EXCEPT ![w] = j]
  <2>1. CASE NoPromotion(w) \/ Die(w)
    BY <2>1, IdleType DEF NoPromotion, Die
  <2>2. CASE StudentOut(w)
    <3>1. PICK h : job' = [job EXCEPT ![w] = [Idle EXCEPT !.at = "freed", !.h = h]]
      BY <2>2 DEF StudentOut, AfterStudentOut
    <3>2. [Idle EXCEPT !.at = "freed", !.h = h].at = "freed"
      BY DEF Idle
    <3> QED BY <3>1, <3>2
  <2> QED BY <2>1, <2>2
<1>2. UNCHANGED reg
  BY DEF StudentOut, NoPromotion, Die
<1> QED BY <1>1, <1>2, RequestStep

\* Students who come and go outside the desk leave the rows alone.
LEMMA ByHandLine ==
  ASSUME LInv,
         \/ StudentIn \/ Suspend \/ ReplaceStudents \/ AttachHalaqah
         \/ \E w \in Workers : AddStudent(w)
  PROVE  LineInv'
<1>1. UNCHANGED reg
  BY DEF StudentIn, Suspend, ReplaceStudents, AttachHalaqah, AddStudent
<1>2. ASSUME NEW v \in Workers, job'[v].at = "deciding"
      PROVE  /\ job[v].at = "deciding"
             /\ job'[v].new = job[v].new /\ job'[v].h = job[v].h
             /\ job'[v].todo \subseteq job[v].todo /\ job'[v].allows = job[v].allows
  <2>1. job[v] \in Job
    BY DEF LInv, IInv, TypeOK
  <2>2. CASE UNCHANGED job
    BY <1>2, <2>2
  <2>3. CASE \E h \in Halaqahs, k \in Nat : SeatedByHand(h, k)
    <3>1. PICK h \in Halaqahs, k \in Nat :
            job'[v] = IF job[v].at = "deciding" THEN Noticed(job[v], h, k) ELSE job[v]
      BY <2>3 DEF SeatedByHand, Noticed
    <3> QED BY <1>2, <2>1, <3>1, NoticedJob
  <2>4. CASE \E w \in Workers : AddStudent(w)
    <3>1. PICK w \in Workers : AddStudent(w)
      BY <2>4
    <3>2. PICK h \in Halaqahs : h = job[w].h
      BY <3>1 DEF AddStudent, LInv, IInv, TypeOK
    <3>3. job'[v] = IF v = w THEN [job[w] EXCEPT !.at = "added"]
                    ELSE IF job[v].at = "deciding" THEN Noticed(job[v], h, 1) ELSE job[v]
      BY <3>1, <3>2 DEF AddStudent, Noticed
    <3>4. v # w
      BY <1>2, <2>1, <3>3 DEF Job
    <3> QED BY <1>2, <2>1, <3>3, <3>4, NoticedJob
  <2>5. CASE Suspend \/ AttachHalaqah
    BY <2>2, <2>5 DEF Suspend, AttachHalaqah
  <2>6. CASE StudentIn
    BY <2>3, <2>6 DEF StudentIn
  <2>7. CASE ReplaceStudents
    BY <2>2, <2>3, <2>7, ReplacedList DEF LInv
  <2> QED BY <2>4, <2>5, <2>6, <2>7
<1> QED BY <1>1, <1>2, LineKept

\* What is changed while no transaction is open leaves the line strict.
LEMMA NoneOpenLine ==
  ASSUME Strict(reg)', \A v \in Workers : job'[v].at # "deciding"
  PROVE  LineInv'
  BY DEF LineInv, Open

\* Whoever is removed from the line leaves the others where they were.
LEMMA RemoveEntryLine == ASSUME LInv, RemoveEntry PROVE LineInv'
<1>1. PICK r \in Regs : reg' = [reg EXCEPT ![r].status = "removed", ![r].order = 0]
  BY DEF RemoveEntry, Waiting
<1>2. reg'[r].status = "removed" /\ \A q \in Regs : q # r => reg'[q] = reg[q]
  BY <1>1 DEF LInv, IInv, TypeOK, RegRow
<1>3. \A v \in Workers : job'[v].at # "deciding"
  BY DEF RemoveEntry, MosqueLockFree
<1> QED BY <1>2, <1>3, LineKept

\* What a transaction has prepared as a strict line becomes the line.
LEMMA CommitLine == ASSUME LInv, NEW w \in Workers, Commit(w) PROVE LineInv'
<1>1. Open(w) /\ \A v \in Workers : v # w => ~Open(v)
  BY DEF Commit, Open, LInv, IInv, LockInv
<1>2. \A v \in Workers : job'[v].at # "deciding"
  BY <1>1, IdleType DEF Commit, LInv, IInv, TypeOK, Open
<1>3. reg' = After(job[w])
  BY DEF Commit, RowsSeenBy, Wrote, After
<1>4. Strict(reg)'
  BY <1>1, <1>3 DEF LInv, LineInv, Strict, Waiting
<1> QED BY <1>2, <1>4, NoneOpenLine

-----------------------------------------------------------------------------
(* Renumbering                                                             *)

\* To stand before somebody is a strict total order of those in line.
LEMMA BeforeOrder ==
  ASSUME NEW rows, \A r \in Regs : rows[r].order \in Nat,
         NEW p \in Regs, NEW q \in Regs
  PROVE  /\ p # q => Before(rows, p, q) \/ Before(rows, q, p)
         /\ ~(Before(rows, p, q) /\ Before(rows, q, p))
         /\ ~Before(rows, p, p)
         /\ \A o \in Regs : Before(rows, o, p) /\ Before(rows, p, q) => Before(rows, o, q)
<1>1. p \in Nat /\ q \in Nat /\ \A o \in Regs : o \in Nat
  BY EnrollmentAssumption
<1> QED BY <1>1 DEF Before

\* Who stands further back has a larger place.
LEMMA PlaceGrows ==
  ASSUME NEW rows, \A r \in Regs : rows[r].order \in Nat,
         NEW p \in Waiting(rows), NEW q \in Waiting(rows), Before(rows, p, q)
  PROVE  Place(rows, p) < Place(rows, q)
<1> DEFINE upTo(r) == {o \in Waiting(rows) : o = r \/ Before(rows, o, r)}
<1>1. p \in Regs /\ q \in Regs
  BY DEF Waiting
<1>2. upTo(q) \subseteq Regs
  BY DEF Waiting
<1>3. IsFiniteSet(upTo(q))
  BY <1>2, EnrollmentAssumption, FS_Subset
<1>4. upTo(p) \subseteq upTo(q)
  <2>1. \A o \in Waiting(rows) : o \in Regs
    BY DEF Waiting
  <2> QED BY <1>1, <2>1, BeforeOrder
<1>5. q \in upTo(q) /\ q \notin upTo(p)
  BY <1>1, BeforeOrder
<1> HIDE DEF upTo
<1>6. /\ Cardinality(upTo(p)) <= Cardinality(upTo(q))
      /\ Cardinality(upTo(p)) # Cardinality(upTo(q))
      /\ IsFiniteSet(upTo(p))
  BY <1>3, <1>4, <1>5, FS_Subset
<1>7. Cardinality(upTo(p)) \in Nat /\ Cardinality(upTo(q)) \in Nat
  BY <1>3, <1>6, FS_CardinalityType
<1>8. Cardinality(upTo(p)) < Cardinality(upTo(q))
  BY <1>6, <1>7
<1> QED BY <1>8 DEF Place, upTo

\* Renumbering gives two in line two places.
LEMMA PlacesDiffer ==
  ASSUME NEW rows, \A r \in Regs : rows[r].order \in Nat,
         NEW p \in Waiting(rows), NEW q \in Waiting(rows), p # q
  PROVE  Place(rows, p) # Place(rows, q)
<1>1. p \in Regs /\ q \in Regs
  BY DEF Waiting
<1>2. Before(rows, p, q) \/ Before(rows, q, p)
  BY <1>1, BeforeOrder
<1>3. Place(rows, p) < Place(rows, q) \/ Place(rows, q) < Place(rows, p)
  BY <1>2, PlaceGrows
<1>4. Place(rows, p) \in Nat /\ Place(rows, q) \in Nat
  BY PlaceType
<1> QED BY <1>3, <1>4

\* moveInWaitlist: two neighbours change places, and the places differ.
LEMMA MoveEntryLine == ASSUME LInv, MoveEntry PROVE LineInv'
<1>1. PICK a \in Waiting(reg), b \in Waiting(reg) :
        /\ Place(reg, b) + 1 = Place(reg, a) \/ Place(reg, a) + 1 = Place(reg, b)
        /\ reg' = Renumbered(reg, a, b)
  BY DEF MoveEntry
<1>2. \A v \in Workers : job'[v].at # "deciding"
  BY DEF MoveEntry, MosqueLockFree
<1>3. \A r \in Regs : reg[r].order \in Nat
  BY DEF LInv, IInv, TypeOK, RegRow
<1>4. a # b
  BY <1>1, PlaceType
<1> DEFINE who(r) == IF r = a THEN b ELSE IF r = b THEN a ELSE r
<1>5. ASSUME NEW r \in Regs
      PROVE  /\ reg'[r].status = "waitlisted" <=> r \in Waiting(reg)
             /\ r \in Waiting(reg) => /\ who(r) \in Waiting(reg)
                                     /\ reg'[r].order = Place(reg, who(r))
  <2>1. reg[r] \in RegRow
    BY DEF LInv, IInv, TypeOK
  <2>2. CASE r \in Waiting(reg)
    <3>1. reg'[r] = [reg[r] EXCEPT !.order = Place(reg, who(r))]
      BY <1>1, <2>2 DEF Renumbered
    <3> QED BY <2>1, <2>2, <3>1 DEF RegRow, Waiting
  <2>3. CASE r \notin Waiting(reg)
    BY <1>1, <2>3 DEF Renumbered, Waiting
  <2> QED BY <2>2, <2>3
<1>6. \A r, q \in Waiting(reg) : r # q => who(r) # who(q)
  BY <1>4
<1> HIDE DEF who
<1>7. ASSUME NEW r \in Regs, NEW q \in Regs, r # q,
             reg'[r].status = "waitlisted", reg'[q].status = "waitlisted"
      PROVE  reg'[r].order # reg'[q].order
  <2>1. r \in Waiting(reg) /\ q \in Waiting(reg)
    BY <1>5, <1>7
  <2>2. who(r) \in Waiting(reg) /\ who(q) \in Waiting(reg) /\ who(r) # who(q)
    BY <1>5, <1>6, <1>7, <2>1
  <2>3. Place(reg, who(r)) # Place(reg, who(q))
    BY <1>3, <2>2, PlacesDiffer
  <2> QED BY <1>5, <2>1, <2>3
<1>8. Strict(reg)'
  BY <1>7 DEF Strict, Waiting
<1> QED BY <1>2, <1>8, NoneOpenLine

-----------------------------------------------------------------------------
(* The transaction opens                                                   *)

\* A transaction begins with the line as it is and, for a promotion, with the head of it.
LEMMA BeginLine ==
  ASSUME LInv, NEW w \in Workers, NEW todo \in SUBSET Regs,
         NEW h \in Halaqahs \union {NoHalaqah}, NEW limit, NEW allows,
         NEW chosen \in SUBSET Regs,
         h = NoHalaqah => chosen = {},
         h # NoHalaqah =>
           /\ todo = {}
           /\ \A c \in chosen, m \in (Waiting(reg) \intersect allows[h]) \ chosen :
                Before(reg, c, m),
         MosqueLockFree,
         job' = [job EXCEPT ![w] = Opened(w, todo, h, limit, allows, chosen)],
         UNCHANGED reg
  PROVE  LineInv'
<1>1. PICK j : j = Opened(w, todo, h, limit, allows, chosen)
  OBVIOUS
<1>2. /\ j.new = [r \in Regs |-> IF r \in chosen THEN Seated(reg[r], h, TRUE) ELSE NoRow]
      /\ j.h = h /\ j.todo = todo /\ j.allows = allows
  BY <1>1 DEF Opened
<1>3. /\ job'[w] = j
      /\ \A v \in Workers : v # w => job'[v].at # "deciding"
  BY <1>1 DEF LInv, IInv, TypeOK, MosqueLockFree
<1>4. ASSUME NEW r \in Regs
      PROVE  /\ r \in chosen => /\ j.new[r].status = "assigned" /\ j.new[r].halaqah = h
                               /\ h # NoHalaqah
             /\ r \notin chosen => j.new[r].status = "absent"
  <2>1. CASE r \in chosen
    <3>0. h # NoHalaqah
      BY <2>1
    <3>1. h \in Halaqahs /\ reg[r] \in RegRow
      BY <3>0 DEF LInv, IInv, TypeOK
    <3>2. j.new[r] = Seated(reg[r], h, TRUE)
      BY <1>2, <2>1
    <3>3. /\ Seated(reg[r], h, TRUE).status = "assigned"
          /\ Seated(reg[r], h, TRUE).halaqah = h
      BY <3>1, SeatedType
    <3> QED BY <2>1, <3>0, <3>2, <3>3
  <2>2. CASE r \notin chosen
    BY <1>2, <2>2, RowTypes
  <2> QED BY <2>1, <2>2
<1>5. Strict(After(j))
  <2>1. PICK rows : rows = After(j)
    OBVIOUS
  <2>2. \A r \in Regs : rows[r].status = "waitlisted" => rows[r] = reg[r]
    BY <1>4, <2>1 DEF After
  <2>3. Strict(rows)
    BY <2>2, FewerWait DEF LInv, LineInv
  <2> QED BY <2>1, <2>3
<1>6. ServedOK(j)
  <2>1. \A c \in Regs : j.new[c].status # "absent" => c \in chosen
    BY <1>4
  <2>2. CASE h = NoHalaqah
    BY <1>2, <2>1, <2>2 DEF ServedOK
  <2>3. CASE h # NoHalaqah
    <3>1. \A m \in Regs : j.new[m].status = "absent" => m \notin chosen
      BY <1>4
    <3>2. \A c \in chosen, m \in Waiting(reg) \intersect allows[h] :
            m \notin chosen => Before(reg, c, m)
      BY <2>3
    <3>3. \A m \in Waiting(reg) : m \in Regs
      BY DEF Waiting
    <3> QED BY <1>2, <1>4, <2>1, <2>3, <3>1, <3>2, <3>3 DEF ServedOK
  <2> QED BY <2>2, <2>3
<1>7. Strict(reg)' /\ Strict(After(j))' /\ ServedOK(j)'
  BY <1>5, <1>6 DEF LInv, LineInv, Strict, After, ServedOK, Waiting, Before
<1> QED BY <1>3, <1>7 DEF LineInv, Open

\* The four ways to open a transaction are covered by BeginLine.
LEMMA BeginsLine ==
  ASSUME LInv, NEW w \in Workers,
         BeginAssign(w) \/ BeginAssignPending(w) \/ BeginPromote(w) \/ BeginCriteria(w)
  PROVE  LineInv'
<1>1. MosqueLockFree /\ UNCHANGED reg
  BY DEF BeginAssign, BeginAssignPending, BeginPromote, BeginCriteria
<1>2. PICK limit : limit = cap
  OBVIOUS
<1>3. PICK allows : allows = accepts
  OBVIOUS
<1>4. PICK none \in SUBSET Regs : none = {}
  OBVIOUS
<1>5. CASE BeginAssign(w) \/ BeginAssignPending(w)
  <2>1. {job[w].r} \in SUBSET Regs \/ ~BeginAssign(w)
    BY DEF BeginAssign, LInv, IInv, TypeOK
  <2>2. PICK todo \in SUBSET Regs :
          job' = [job EXCEPT ![w] = Opened(w, todo, NoHalaqah, cap, accepts, {})]
    BY <1>5, <2>1 DEF BeginAssign, BeginAssignPending
  <2>3. job' = [job EXCEPT ![w] = Opened(w, todo, NoHalaqah, limit, allows, none)]
    BY <1>2, <1>3, <1>4, <2>2
  <2> QED BY <1>1, <1>4, <2>3, BeginLine
<1>6. CASE BeginPromote(w)
  <2>1. PICK h \in Halaqahs : h = job[w].h
    BY <1>6 DEF BeginPromote, LInv, IInv, TypeOK
  <2>2. PICK chosen \in SUBSET Regs :
          /\ Promotion(chosen, reg, cap[h], allows[h], count[h])
          /\ job' = [job EXCEPT ![w] = Opened(w, none, h, limit, allows, chosen)]
    BY <1>2, <1>3, <1>4, <1>6, <2>1 DEF BeginPromote
  <2>3. \A c \in chosen, m \in (Waiting(reg) \intersect allows[h]) \ chosen : Before(reg, c, m)
    BY <2>2 DEF Promotion
  <2>4. h # NoHalaqah
    BY EnrollmentAssumption
  <2> QED BY <1>1, <1>4, <2>2, <2>3, <2>4, BeginLine
<1>7. CASE BeginCriteria(w)
  <2>1. PICK h \in Halaqahs, l \in Limits, c \in Criteria, chosen \in SUBSET Regs :
          /\ Promotion(chosen, reg, l, c, count[h])
          /\ job' = [job EXCEPT ![w] =
               Opened(w, {}, h, [cap EXCEPT ![h] = l], [accepts EXCEPT ![h] = c], chosen)]
    BY <1>7 DEF BeginCriteria
  <2>2. PICK lim, all : lim = [cap EXCEPT ![h] = l] /\ all = [accepts EXCEPT ![h] = c]
    OBVIOUS
  <2>3. all[h] = c
    BY <2>2 DEF LInv, IInv, TypeOK
  <2>4. \A x \in chosen, m \in (Waiting(reg) \intersect all[h]) \ chosen : Before(reg, x, m)
    BY <2>1, <2>3 DEF Promotion
  <2>5. job' = [job EXCEPT ![w] = Opened(w, none, h, lim, all, chosen)]
    BY <1>4, <2>1, <2>2
  <2>6. h # NoHalaqah
    BY EnrollmentAssumption
  <2> QED BY <1>1, <1>4, <2>4, <2>5, <2>6, BeginLine
<1> QED BY <1>5, <1>6, <1>7

-----------------------------------------------------------------------------
(* The transaction seats a registration or puts it at the end of the line  *)

\* A row that is seated, or gets a place nobody has, keeps the prepared line strict.
LEMMA WriteLine ==
  ASSUME LInv, NEW w \in Workers, Open(w), NEW r \in Regs, reg[r].status = "pending",
         NEW row, row.status # "absent",
         row.status = "waitlisted" =>
           \A q \in Waiting(After(job[w])) :
             After(job[w])[q].order \in Nat /\ row.order \in Nat
               /\ After(job[w])[q].order < row.order,
         NEW j, j.new = [job[w].new EXCEPT ![r] = row], j.h = NoHalaqah,
         job[w].h = NoHalaqah, job' = [job EXCEPT ![w] = j], UNCHANGED reg
  PROVE  LineInv'
<1>1. /\ job'[w] = j
      /\ \A v \in Workers : v # w => job'[v] = job[v] /\ ~Open(v)
  BY DEF LInv, IInv, TypeOK, LockInv
<1>2. /\ j.new[r] = row
      /\ \A q \in Regs : q # r => j.new[q] = job[w].new[q]
  BY DEF LInv, IInv, TypeOK, Job
<1>3. Strict(After(job[w])) /\ ServedOK(job[w]) /\ Strict(reg)
  BY DEF LInv, LineInv
<1>4. Strict(After(j))
  <2>1. PICK rows, rows2 : rows = After(job[w]) /\ rows2 = After(j)
    OBVIOUS
  <2>2. rows2[r] = row /\ \A q \in Regs : q # r => rows2[q] = rows[q]
    BY <1>2, <2>1 DEF After
  <2>3. Strict(rows) /\ (row.status = "waitlisted" =>
                           \A q \in Waiting(rows) : rows[q].order # row.order)
    BY <1>3, <2>1
  <2>4. Strict(rows2)
    BY <2>2, <2>3 DEF Strict, Waiting
  <2> QED BY <2>1, <2>4
<1>5. ServedOK(j)
  <2>1. ASSUME NEW q \in Waiting(reg)
        PROVE  q \in Waiting(After(job[w])) /\ After(job[w])[q] = reg[q]
    BY <1>3, <2>1 DEF ServedOK, After, Waiting
  <2>2. row.status = "waitlisted" => \A q \in Waiting(reg) : reg[q].order < row.order
    BY <2>1
  <2> QED BY <1>2, <1>3, <2>2 DEF ServedOK
<1>6. Strict(reg)' /\ Strict(After(j))' /\ ServedOK(j)'
  BY <1>3, <1>4, <1>5 DEF Strict, After, ServedOK, Waiting, Before
<1> QED BY <1>1, <1>6 DEF LineInv, Open

\* Each decision of an open transaction keeps the prepared line strict.
LEMMA DecideLine == ASSUME LInv, NEW w \in Workers, Decide(w) PROVE LineInv'
<1>1. Open(w) /\ job[w] \in Job /\ UNCHANGED reg
  BY DEF Decide, Open, LInv, IInv, TypeOK
<1>2. PICK r \in Regs : r \in job[w].todo /\ (PassOver(w, r) \/ Seat(w, r) \/ JoinLine(w, r))
  BY <1>1 DEF Decide, Job
<1>3. job[w].h = NoHalaqah
  BY <1>1, <1>2 DEF LInv, LineInv, ServedOK
<1>4. CASE PassOver(w, r)
  <2>1. PICK j : j = [job[w] EXCEPT !.todo = @ \ {r}]
    OBVIOUS
  <2>2. /\ j.new = job[w].new /\ j.h = job[w].h /\ j.todo \subseteq job[w].todo
        /\ j.allows = job[w].allows
    BY <1>1, <2>1 DEF Job
  <2>3. /\ job'[w] = j /\ \A v \in Workers : v # w => job'[v] = job[v]
    BY <1>4, <2>1 DEF PassOver, LInv, IInv, TypeOK
  <2>4. ASSUME NEW v \in Workers, job'[v].at = "deciding"
        PROVE  /\ job[v].at = "deciding" /\ job'[v].new = job[v].new
               /\ job'[v].h = job[v].h /\ job'[v].todo \subseteq job[v].todo
               /\ job'[v].allows = job[v].allows
    BY <1>1, <2>2, <2>3, <2>4 DEF Open
  <2> QED BY <1>1, <2>4, LineKept
<1>5. CASE Seat(w, r)
  <2>1. PICK h \in Halaqahs :
          job' = [job EXCEPT ![w] =
            [Written(job[w], r, Seated(reg[r], h, TRUE)) EXCEPT !.taken[h] = @ + 1]]
    BY <1>5 DEF Seat, Best, Candidates
  <2>2. PICK row : row = Seated(reg[r], h, TRUE)
    OBVIOUS
  <2>3. row.status = "assigned"
    BY <2>2, SeatedType DEF LInv, IInv, TypeOK
  <2>4. PICK j : j = [Written(job[w], r, row) EXCEPT !.taken[h] = @ + 1]
    OBVIOUS
  <2>5. j.new = [job[w].new EXCEPT ![r] = row] /\ j.h = NoHalaqah
    BY <1>1, <1>3, <2>4 DEF Written, Job
  <2>6. job' = [job EXCEPT ![w] = j]
    BY <2>1, <2>2, <2>4
  <2>7. reg[r].status = "pending"
    BY <1>5 DEF Seat
  <2> QED BY <1>1, <1>3, <2>3, <2>5, <2>6, <2>7, WriteLine
<1>6. CASE JoinLine(w, r)
  <2>1. PICK n \in 1..MaxTurn :
          /\ IsNextOrder(n, RowsSeenBy(w))
          /\ job' = [job EXCEPT ![w] =
               Written(job[w], r, [reg[r] EXCEPT !.status = "waitlisted", !.order = n])]
    BY <1>6 DEF JoinLine
  <2>2. PICK row : row = [reg[r] EXCEPT !.status = "waitlisted", !.order = n]
    OBVIOUS
  <2>3. row.status = "waitlisted" /\ row.order = n
    BY <2>2 DEF LInv, IInv, TypeOK, RegRow
  <2>4. PICK j : j = Written(job[w], r, row)
    OBVIOUS
  <2>5. j.new = [job[w].new EXCEPT ![r] = row] /\ j.h = NoHalaqah
    BY <1>1, <1>3, <2>4 DEF Written, Job
  <2>6. job' = [job EXCEPT ![w] = j]
    BY <2>1, <2>2, <2>4
  <2>7. reg[r].status = "pending"
    BY <1>6 DEF JoinLine
  <2>8. After(job[w]) = RowsSeenBy(w)
    BY DEF After, RowsSeenBy, Wrote
  <2>9. ASSUME NEW q \in Waiting(After(job[w]))
        PROVE  /\ After(job[w])[q].order \in Nat /\ row.order \in Nat
               /\ After(job[w])[q].order < row.order
    <3>1. q \in Regs
      BY DEF Waiting
    <3>2. After(job[w])[q].order \in Nat
      BY <1>1, <3>1 DEF After, LInv, IInv, TypeOK, Job, RegRow
    <3>3. After(job[w])[q].order < n
      BY <2>1, <2>8 DEF IsNextOrder
    <3>4. n \in Nat
      BY EnrollmentAssumption
    <3> QED BY <2>3, <3>2, <3>3, <3>4
  <2> QED BY <1>1, <1>3, <2>3, <2>5, <2>6, <2>7, <2>9, WriteLine
<1> QED BY <1>2, <1>4, <1>5, <1>6

-----------------------------------------------------------------------------
(* The theorems                                                            *)

\* At the start nobody waits.
LEMMA InitLine == Init => LInv
<1> SUFFICES ASSUME Init PROVE LineInv
  BY InitIInv DEF LInv
<1>1. Waiting(reg) = {}
  BY RowTypes DEF Init, Waiting
<1>2. \A w \in Workers : ~Open(w)
  BY IdleType DEF Init, Open
<1> QED BY <1>1, <1>2 DEF LineInv, Strict

\* Every step keeps the line, by the lemma of its action.
LEMMA StepLine == LInv /\ [Next]_vars => LInv'
<1> SUFFICES ASSUME LInv, [Next]_vars PROVE LineInv'
  BY StepIInv DEF LInv
<1>1. ASSUME NEW w \in Workers, Register(w) PROVE LineInv'
  BY <1>1, RegisterLine
<1>2. ASSUME NEW w \in Workers,
             BeginAssign(w) \/ BeginAssignPending(w) \/ BeginPromote(w) \/ BeginCriteria(w)
      PROVE  LineInv'
  BY <1>2, BeginsLine
<1>3. ASSUME NEW w \in Workers, Decide(w) PROVE LineInv'
  BY <1>3, DecideLine
<1>4. ASSUME NEW w \in Workers, Commit(w) PROVE LineInv'
  BY <1>4, CommitLine
<1>5. ASSUME NEW w \in Workers, Claim(w) PROVE LineInv'
  BY <1>5, ClaimLine
<1>6. ASSUME NEW w \in Workers, LinkStudent(w) \/ Release(w) PROVE LineInv'
  BY <1>6, LeaveLine
<1>7. ASSUME NEW w \in Workers, StudentOut(w) \/ NoPromotion(w) \/ Die(w) PROVE LineInv'
  BY <1>7, QuietLine
<1>8. CASE \/ StudentIn \/ Suspend \/ ReplaceStudents \/ AttachHalaqah
           \/ \E w \in Workers : AddStudent(w)
  BY <1>8, ByHandLine
<1>9. CASE MoveEntry
  BY <1>9, MoveEntryLine
<1>10. CASE RemoveEntry
  BY <1>10, RemoveEntryLine
<1>11. CASE UNCHANGED vars
  BY <1>11, LineKept DEF vars
<1> QED BY <1>1, <1>2, <1>3, <1>4, <1>5, <1>6, <1>7, <1>8, <1>9, <1>10, <1>11 DEF Next

\* The inductive invariant of the line: it is strict, it will be strict when the open
\* transaction commits, and a promotion seats the first of it.
THEOREM LineInvariant == Spec => []LInv
  BY InitLine, StepLine, PTL DEF Spec

\* Nobody shares a place in line, through concurrent arrivals, moves, removals and
\* releases (nextWaitlistOrder, moveInWaitlist, releaseRegistration).
THEOREM TurnsUnique == Spec => []UniqueTurns
<1>1. LInv => UniqueTurns
  BY DEF LInv, LineInv, Strict, UniqueTurns
<1> QED BY <1>1, LineInvariant, PTL

\* A promotion serves the line in turn: whoever stays in line and is accepted stood
\* behind everybody it seats, though rows were placed by hand since it began
\* (selectPromotions, promoteTx).
THEOREM ServedInTurn == Spec => PromotedInTurn
<1> DEFINE InTurn ==
      \A w \in Workers, a, b \in Regs :
        /\ Committing(w)
        /\ a \in Waiting(reg) /\ reg'[a].status = "assigned"
        /\ b \in Waiting(reg) /\ b \in Waiting(reg') /\ b \in accepts'[reg'[a].halaqah]
        => Before(reg, a, b)
<1>1. LInv /\ [Next]_vars => InTurn
  <2> SUFFICES ASSUME LInv, [Next]_vars, NEW w \in Workers, NEW a \in Regs, NEW b \in Regs,
                      Committing(w), a \in Waiting(reg), reg'[a].status = "assigned",
                      b \in Waiting(reg), b \in Waiting(reg'),
                      b \in accepts'[reg'[a].halaqah]
               PROVE  Before(reg, a, b)
    OBVIOUS
  <2>1. reg[a].status = "waitlisted" /\ reg'[b].status = "waitlisted"
    BY DEF Waiting
  <2>2. ~UNCHANGED reg
    BY <2>1
  <2>3. Commit(w) /\ Open(w)
    BY <2>2, EndOfJob DEF LInv, Die, Committing, Open
  <2>4. reg' = After(job[w]) /\ accepts' = job[w].allows
    BY <2>3 DEF Commit, RowsSeenBy, Wrote, After
  <2>5. ServedOK(job[w])
    BY <2>3 DEF LInv, LineInv
  <2>6. job[w].new[a].status # "absent" /\ reg'[a] = job[w].new[a]
    BY <2>1, <2>4 DEF After
  <2>7. job[w].h # NoHalaqah
    BY <2>1, <2>5, <2>6 DEF ServedOK
  <2>8. job[w].new[b].status = "absent"
    BY <2>1, <2>4, <2>5, <2>7 DEF ServedOK, After
  <2>9. b \in job[w].allows[job[w].h]
    BY <2>4, <2>5, <2>6, <2>7 DEF ServedOK
  <2> QED BY <2>5, <2>6, <2>7, <2>8, <2>9 DEF ServedOK
<1>2. LInv /\ [Next]_vars => [InTurn]_vars
  BY <1>1
<1> QED BY <1>2, LineInvariant, PTL DEF Spec, PromotedInTurn

-----------------------------------------------------------------------------
(* Seats that are free: a request that will serve who waits is on its way  *)

\* A request went to fill a seat of h and has not begun.
Owed(h) == \E w \in Workers : job[w].at = "freed" /\ job[w].h = h

\* What the open transaction of w sees: a free seat of h, and somebody who waits for it.
UnfilledSeen(w, h) ==
  /\ joined[h]
  /\ HasFreeSeat(job[w].limit[h], CountSeenBy(w)[h])
  /\ Waiting(RowsSeenBy(w)) \intersect job[w].allows[h] # {}

\* When a transaction commits a seat that somebody waits for, another request will fill
\* it: it does not count on itself.
SeenOffered ==
  \A w \in Workers, h \in Halaqahs :
    Open(w) /\ UnfilledSeen(w, h) /\ ~lost[h] => Owed(h)

OInv == IInv /\ SeatsOffered /\ SeenOffered

\* A seat that is free is free with fewer students.
LEMMA FreeWithFewer ==
  ASSUME NEW l \in Limits, NEW m \in Nat, NEW n \in Nat, m <= n, HasFreeSeat(l, n)
  PROVE  HasFreeSeat(l, m)
  BY EnrollmentAssumption DEF HasFreeSeat, Limits

\* What an open transaction knows of a halaqah.
LEMMA ViewTypes ==
  ASSUME IInv, NEW w \in Workers, NEW h \in Halaqahs
  PROVE  /\ job[w].limit[h] \in Limits /\ cap[h] \in Limits
         /\ job[w].taken[h] \in Nat /\ count[h] \in Nat
         /\ CountSeenBy(w)[h] = count[h] + job[w].taken[h]
         /\ CountSeenBy(w)[h] \in Nat
<1>1. job[w] \in Job
  BY DEF IInv, TypeOK
<1>2. job[w].limit[h] \in Limits /\ job[w].taken[h] \in Nat
  BY <1>1 DEF Job
<1>3. count[h] \in Nat /\ cap[h] \in Limits
  BY DEF IInv, TypeOK
<1> QED BY <1>2, <1>3 DEF CountSeenBy

\* Outside the transactions nobody enters the line, and whoever frees a seat or brings a
\* halaqah goes on to fill it, or the seat is lost.
LEMMA OffersKept ==
  ASSUME OInv, IInv', UNCHANGED <<cap, accepts>>,
         \A h \in Halaqahs : joined'[h] => joined[h] \/ lost'[h],
         \A r \in Regs : reg'[r].status = "waitlisted" => reg[r].status = "waitlisted",
         \A h \in Halaqahs : count'[h] >= count[h] \/ lost'[h] \/ Owed(h)',
         \A h \in Halaqahs : lost[h] => lost'[h],
         \A v \in Workers : job'[v].at = "deciding" =>
           /\ job[v].at = "deciding"
           /\ job'[v].new = job[v].new /\ job'[v].taken = job[v].taken
           /\ job'[v].limit = job[v].limit /\ job'[v].allows = job[v].allows,
         \A v \in Workers, h \in Halaqahs :
           job[v].at \in {"freed", "deciding"} /\ job[v].h = h /\ joined'[h] /\ ~lost'[h] =>
             job'[v].at = job[v].at /\ job'[v].h = h
  PROVE  OInv'
<1>1. \A h \in Halaqahs : Owed(h) /\ joined'[h] /\ ~lost'[h] => Owed(h)'
  BY DEF Owed
<1>2. ASSUME NEW h \in Halaqahs, Unfilled(h)', ~lost'[h]
      PROVE  \E w \in Workers : job'[w].at \in {"freed", "deciding"} /\ job'[w].h = h
  <2>1. CASE Owed(h)'
    BY <2>1 DEF Owed
  <2>2. CASE ~Owed(h)'
    <3>1. count'[h] >= count[h] /\ count[h] \in Nat /\ count'[h] \in Nat /\ cap[h] \in Limits
      BY <1>2, <2>2 DEF OInv, IInv, TypeOK
    <3>2. HasFreeSeat(cap[h], count'[h])
      BY <1>2 DEF Unfilled
    <3>3. HasFreeSeat(cap[h], count[h])
      BY <3>1, <3>2, FreeWithFewer
    <3>4. Unfilled(h)
      BY <1>2, <3>3 DEF Unfilled, Waiting
    <3>5. PICK w \in Workers : job[w].at \in {"freed", "deciding"} /\ job[w].h = h
      BY <1>2, <3>4 DEF OInv, SeatsOffered
    <3>6. joined'[h]
      BY <1>2 DEF Unfilled
    <3> QED BY <1>2, <3>5, <3>6
  <2> QED BY <2>1, <2>2
<1>3. ASSUME NEW w \in Workers, NEW h \in Halaqahs, Open(w)', UnfilledSeen(w, h)', ~lost'[h]
      PROVE  Owed(h)'
  <2> SUFFICES ASSUME ~Owed(h)' PROVE FALSE
    OBVIOUS
  <2>1. /\ job[w].at = "deciding"
        /\ job'[w].new = job[w].new /\ job'[w].taken = job[w].taken
        /\ job'[w].limit = job[w].limit /\ job'[w].allows = job[w].allows
    BY <1>3 DEF Open
  <2>2. count'[h] >= count[h] /\ count[h] \in Nat /\ count'[h] \in Nat
    BY <1>3 DEF OInv, IInv, TypeOK
  <2>3. job[w].limit[h] \in Limits /\ job[w].taken[h] \in Nat
        /\ CountSeenBy(w)[h] = count[h] + job[w].taken[h]
    BY ViewTypes DEF OInv
  <2>4. HasFreeSeat(job[w].limit[h], count'[h] + job[w].taken[h])
    BY <1>3, <2>1 DEF UnfilledSeen, CountSeenBy
  <2>5. HasFreeSeat(job[w].limit[h], CountSeenBy(w)[h])
    BY <2>2, <2>3, <2>4, FreeWithFewer
  <2>6. PICK r \in Regs : RowsSeenBy(w)'[r].status = "waitlisted" /\ r \in job[w].allows[h]
    BY <1>3, <2>1 DEF UnfilledSeen, Waiting
  <2>7. RowsSeenBy(w)[r].status = "waitlisted"
    BY <2>1, <2>6 DEF RowsSeenBy, Wrote
  <2>8. joined'[h] /\ joined[h]
    BY <1>3 DEF UnfilledSeen
  <2>9. UnfilledSeen(w, h)
    BY <2>5, <2>6, <2>7, <2>8 DEF UnfilledSeen, Waiting
  <2>10. Owed(h)
    BY <1>3, <2>1, <2>9 DEF OInv, SeenOffered, Open
  <2> QED BY <1>1, <1>3, <2>8, <2>10
<1> QED BY <1>2, <1>3 DEF OInv, SeatsOffered, SeenOffered

\* While nobody holds the lock, every seat that is offered is owed.
LEMMA AllOwed ==
  ASSUME OInv, MosqueLockFree, NEW h \in Halaqahs, Unfilled(h), ~lost[h]
  PROVE  Owed(h)
  BY DEF OInv, SeatsOffered, MosqueLockFree, Owed

\* The transaction of w opens, for halaqah h0 or for new registrations, with its own
\* view of h0 and the committed one of the others.
Opens(w, todo, h0, limit, allows, chosen) ==
  /\ MosqueLockFree /\ UNCHANGED <<reg, cap, accepts, joined, count>>
  /\ h0 \in Halaqahs \union {NoHalaqah} /\ chosen \in SUBSET Regs
  /\ job' = [job EXCEPT ![w] = Opened(w, todo, h0, limit, allows, chosen)]
  /\ job[w].at = "freed" => job[w].h = h0
  /\ \A h \in Halaqahs : h # h0 =>
       limit[h] = cap[h] /\ allows[h] = accepts[h] /\ lost'[h] = lost[h]
  /\ h0 \in Halaqahs => Fills(chosen, Waiting(reg) \intersect allows[h0], limit[h0], count[h0])
  /\ h0 \notin Halaqahs => chosen = {}

\* It serves its own halaqah as far as there are seats, and leaves the others to those
\* who owe them.
LEMMA OffersOpened ==
  ASSUME OInv, IInv', NEW w \in Workers, NEW todo, NEW h0, NEW limit, NEW allows, NEW chosen,
         Opens(w, todo, h0, limit, allows, chosen)
  PROVE  OInv'
<1> USE DEF Opens
<1>0. job \in [Workers -> Job] /\ count \in [Halaqahs -> Nat] /\ count' = count
  BY DEF OInv, IInv, TypeOK
<1>1. PICK j : j = Opened(w, todo, h0, limit, allows, chosen)
  OBVIOUS
<1>2. /\ j.at = "deciding" /\ j.h = h0 /\ j.limit = limit /\ j.allows = allows
      /\ j.new = [r \in Regs |-> IF r \in chosen THEN Seated(reg[r], h0, TRUE) ELSE NoRow]
      /\ j.taken = [g \in Halaqahs |-> IF g = h0 THEN Cardinality(chosen) ELSE 0]
  BY <1>1 DEF Opened
<1>3. job'[w] = j /\ \A v \in Workers : v # w => job'[v] = job[v]
  BY <1>0, <1>1
<1>4. \A h \in Halaqahs : h # h0 /\ Owed(h) => Owed(h)'
  BY <1>3 DEF Owed
<1>5. \A v \in Workers : Open(v)' => v = w
  BY <1>3 DEF MosqueLockFree, Open
<1>6. \A r \in Regs :
        /\ RowsSeenBy(w)'[r].status = "waitlisted" => r \in Waiting(reg)
        /\ r \in chosen => RowsSeenBy(w)'[r].status # "waitlisted"
  <2> SUFFICES ASSUME NEW r \in Regs
               PROVE  /\ RowsSeenBy(w)'[r].status = "waitlisted" => r \in Waiting(reg)
                      /\ r \in chosen => RowsSeenBy(w)'[r].status # "waitlisted"
    OBVIOUS
  <2>1. RowsSeenBy(w)'[r] = IF j.new[r].status # "absent" THEN j.new[r] ELSE reg[r]
    BY <1>3 DEF RowsSeenBy, Wrote
  <2>2. CASE r \in chosen
    <3>1. h0 \in Halaqahs /\ reg[r] \in RegRow
      BY <2>2 DEF OInv, IInv, TypeOK
    <3>2. j.new[r] = Seated(reg[r], h0, TRUE)
      BY <1>2, <2>2
    <3>3. Seated(reg[r], h0, TRUE).status = "assigned"
      BY <3>1 DEF RegRow, Seated
    <3> QED BY <2>1, <3>2, <3>3
  <2>3. CASE r \notin chosen
    <3>1. j.new[r].status = "absent"
      BY <1>2, <2>3, RowTypes
    <3> QED BY <2>1, <2>3, <3>1 DEF Waiting
  <2> QED BY <2>2, <2>3
<1>7. \A h \in Halaqahs : CountSeenBy(w)'[h] = count[h] + (IF h = h0 THEN Cardinality(chosen) ELSE 0)
  BY <1>2, <1>3 DEF CountSeenBy
<1>8. ASSUME NEW h \in Halaqahs, h # h0, ~lost'[h], Unfilled(h)' \/ UnfilledSeen(w, h)'
      PROVE  Owed(h)'
  <2>1. Unfilled(h)' => Unfilled(h)
    BY DEF Unfilled
  <2>2. UnfilledSeen(w, h)' => Unfilled(h)
    <3> SUFFICES ASSUME UnfilledSeen(w, h)' PROVE Unfilled(h)
      OBVIOUS
    <3>1. HasFreeSeat(cap[h], count[h] + 0)
      BY <1>2, <1>3, <1>7, <1>8 DEF UnfilledSeen
    <3>2. HasFreeSeat(cap[h], count[h])
      BY <1>0, <3>1 DEF HasFreeSeat
    <3>3. PICK r \in Regs : RowsSeenBy(w)'[r].status = "waitlisted" /\ r \in accepts[h]
      BY <1>2, <1>3, <1>8 DEF UnfilledSeen, Waiting
    <3>4. joined[h]
      BY DEF UnfilledSeen
    <3> QED BY <1>6, <3>2, <3>3, <3>4 DEF Unfilled
  <2>3. Owed(h)
    BY <1>8, <2>1, <2>2, AllOwed
  <2> QED BY <1>4, <1>8, <2>3
<1>9. ASSUME h0 \in Halaqahs, UnfilledSeen(w, h0)' PROVE FALSE
  <2>1. PICK r \in Regs : RowsSeenBy(w)'[r].status = "waitlisted" /\ r \in allows[h0]
    BY <1>2, <1>3, <1>9 DEF UnfilledSeen, Waiting
  <2>2. chosen # Waiting(reg) \intersect allows[h0]
    BY <1>6, <2>1
  <2>3. limit[h0] # NoLimit /\ limit[h0] <= Cardinality(chosen) + count[h0]
    BY <1>9, <2>2 DEF Fills
  <2>4. HasFreeSeat(limit[h0], count[h0] + Cardinality(chosen))
    BY <1>2, <1>3, <1>7, <1>9 DEF UnfilledSeen
  <2>5. limit[h0] \in Nat
    <3>1. j.limit[h0] \in Limits
      <4>1. job' \in [Workers -> Job]
        BY DEF IInv, TypeOK
      <4>2. j \in Job
        BY <1>3, <4>1
      <4>3. j.limit \in [Halaqahs -> Limits]
        BY <4>2 DEF Job
      <4> QED BY <1>9, <4>3
    <3> QED BY <1>2, <2>3, <3>1, EnrollmentAssumption DEF Limits
  <2> QED BY <1>0, <1>9, <2>3, <2>4, <2>5, ChosenCount DEF HasFreeSeat
<1>10. SeatsOffered'
  <2> SUFFICES ASSUME NEW h \in Halaqahs, Unfilled(h)', ~lost'[h]
               PROVE  \E v \in Workers : job'[v].at \in {"freed", "deciding"} /\ job'[v].h = h
    BY DEF SeatsOffered
  <2>1. CASE h = h0
    BY <1>2, <1>3, <2>1
  <2>2. CASE h # h0
    BY <1>8, <2>2 DEF Owed
  <2> QED BY <2>1, <2>2
<1>11. SeenOffered'
  <2> SUFFICES ASSUME NEW v \in Workers, NEW h \in Halaqahs, Open(v)', UnfilledSeen(v, h)', ~lost'[h]
               PROVE  Owed(h)'
    BY DEF SeenOffered
  <2>1. UnfilledSeen(w, h)'
    BY <1>5
  <2> QED BY <1>8, <1>9, <2>1
<1> QED BY <1>10, <1>11 DEF OInv

\* The transactions open as the code opens them.
LEMMA OffersBegin ==
  ASSUME OInv, IInv', NEW w \in Workers,
         BeginAssign(w) \/ BeginAssignPending(w) \/ BeginPromote(w) \/ BeginCriteria(w)
  PROVE  OInv'
<1>0. UNCHANGED <<reg, cap, accepts, joined, count>> /\ MosqueLockFree
      /\ lost \in [Halaqahs -> BOOLEAN] /\ NoHalaqah \notin Halaqahs
      /\ cap \in [Halaqahs -> Limits] /\ accepts \in [Halaqahs -> SUBSET Regs]
  BY EnrollmentAssumption
     DEF BeginAssign, BeginAssignPending, BeginPromote, BeginCriteria, OInv, IInv, TypeOK
<1>1. CASE BeginAssign(w) \/ BeginAssignPending(w)
  <2>1. PICK todo : job' = [job EXCEPT ![w] = Opened(w, todo, NoHalaqah, cap, accepts, {})]
    BY <1>1 DEF BeginAssign, BeginAssignPending
  <2>2. job[w].at # "freed" /\ lost' = lost
    BY <1>1 DEF BeginAssign, BeginAssignPending
  <2>3. PICK limit, allows, chosen, h0 :
          limit = cap /\ allows = accepts /\ chosen = {} /\ h0 = NoHalaqah
    OBVIOUS
  <2>4. job' = [job EXCEPT ![w] = Opened(w, todo, h0, limit, allows, chosen)]
    BY <2>1, <2>3
  <2>5. /\ chosen \in SUBSET Regs /\ h0 \in Halaqahs \union {NoHalaqah} /\ h0 \notin Halaqahs
        /\ \A h \in Halaqahs : limit[h] = cap[h] /\ allows[h] = accepts[h] /\ lost'[h] = lost[h]
    BY <1>0, <2>2, <2>3
  <2>6. Opens(w, todo, h0, limit, allows, chosen)
    BY <1>0, <2>2, <2>3, <2>4, <2>5 DEF Opens
  <2> QED BY <2>6, OffersOpened
<1>2. CASE BeginPromote(w)
  <2>1. PICK h0 \in Halaqahs : h0 = job[w].h
    BY <1>2 DEF BeginPromote, OInv, IInv, TypeOK
  <2>2. PICK chosen \in SUBSET Regs :
          /\ Promotion(chosen, reg, cap[h0], accepts[h0], count[h0])
          /\ job' = [job EXCEPT ![w] = Opened(w, {}, h0, cap, accepts, chosen)]
    BY <1>2, <2>1 DEF BeginPromote
  <2>3. \A h \in Halaqahs : h # h0 => lost'[h] = lost[h]
    BY <1>0, <1>2, <2>1 DEF BeginPromote
  <2>4. Fills(chosen, Waiting(reg) \intersect accepts[h0], cap[h0], count[h0])
    BY <2>2 DEF Promotion
  <2>5. PICK limit, allows, todo : limit = cap /\ allows = accepts /\ todo = {}
    OBVIOUS
  <2>6. job' = [job EXCEPT ![w] = Opened(w, todo, h0, limit, allows, chosen)]
    BY <2>2, <2>5
  <2>7. \A h \in Halaqahs : h # h0 =>
           limit[h] = cap[h] /\ allows[h] = accepts[h] /\ lost'[h] = lost[h]
    BY <2>3, <2>5
  <2>8. Fills(chosen, Waiting(reg) \intersect allows[h0], limit[h0], count[h0])
    BY <2>4, <2>5
  <2>9. /\ chosen \in SUBSET Regs /\ h0 \in Halaqahs \union {NoHalaqah} /\ (h0 \notin Halaqahs => chosen = {})
        /\ (job[w].at = "freed" => job[w].h = h0)
        /\ (h0 \in Halaqahs => Fills(chosen, Waiting(reg) \intersect allows[h0], limit[h0], count[h0]))
    BY <2>1, <2>2, <2>8
  <2>10. Opens(w, todo, h0, limit, allows, chosen)
    BY <1>0, <2>6, <2>7, <2>9 DEF Opens
  <2> QED BY <2>10, OffersOpened
<1>3. CASE BeginCriteria(w)
  <2>1. PICK h0 \in Halaqahs, l \in Limits, c \in Criteria, chosen \in SUBSET Regs :
          /\ Promotion(chosen, reg, l, c, count[h0])
          /\ job' = [job EXCEPT ![w] =
               Opened(w, {}, h0, [cap EXCEPT ![h0] = l], [accepts EXCEPT ![h0] = c], chosen)]
          /\ lost' = [lost EXCEPT ![h0] = FALSE]
    BY <1>3 DEF BeginCriteria
  <2>2. PICK limit, allows, todo :
          limit = [cap EXCEPT ![h0] = l] /\ allows = [accepts EXCEPT ![h0] = c] /\ todo = {}
    OBVIOUS
  <2>3. job' = [job EXCEPT ![w] = Opened(w, todo, h0, limit, allows, chosen)]
    BY <2>1, <2>2
  <2>4. /\ limit[h0] = l /\ allows[h0] = c
        /\ \A h \in Halaqahs : h # h0 =>
             limit[h] = cap[h] /\ allows[h] = accepts[h] /\ lost'[h] = lost[h]
    BY <1>0, <2>1, <2>2
  <2>5. Fills(chosen, Waiting(reg) \intersect allows[h0], limit[h0], count[h0])
    BY <2>1, <2>4 DEF Promotion
  <2>6. /\ chosen \in SUBSET Regs /\ h0 \in Halaqahs \union {NoHalaqah} /\ (h0 \notin Halaqahs => chosen = {})
        /\ (job[w].at = "freed" => job[w].h = h0)
        /\ (h0 \in Halaqahs => Fills(chosen, Waiting(reg) \intersect allows[h0], limit[h0], count[h0]))
    BY <1>3, <2>1, <2>5 DEF BeginCriteria
  <2>7. \A h \in Halaqahs : h # h0 =>
           limit[h] = cap[h] /\ allows[h] = accepts[h] /\ lost'[h] = lost[h]
    BY <2>4
  <2>8. Opens(w, todo, h0, limit, allows, chosen)
    BY <1>0, <2>3, <2>6, <2>7 DEF Opens
  <2> QED BY <2>8, OffersOpened
<1> QED BY <1>1, <1>2, <1>3

\* A decision seats, or sends to the line whom no halaqah with a free seat accepts.
LEMMA OffersDecide == ASSUME OInv, IInv', NEW w \in Workers, Decide(w) PROVE OInv'
<1>0. /\ job \in [Workers -> Job] /\ reg \in [Regs -> RegRow] /\ count \in [Halaqahs -> Nat]
      /\ Open(w) /\ job[w] \in Job /\ UNCHANGED <<reg, cap, accepts, joined, count, made, lost>>
  BY DEF OInv, IInv, TypeOK, Decide, Open
<1>1. PICK r \in Regs : PassOver(w, r) \/ Seat(w, r) \/ JoinLine(w, r)
  BY <1>0 DEF Decide, Job
<1>2. PICK j : /\ job' = [job EXCEPT ![w] = j]
               /\ j.at = "deciding" /\ j.h = job[w].h
               /\ j.limit = job[w].limit /\ j.allows = job[w].allows
               /\ \A q \in Regs : q # r => j.new[q] = job[w].new[q]
               /\ \/ j.new = job[w].new /\ j.taken = job[w].taken
                  \/ /\ j.new[r].status = "assigned"
                     /\ \A h \in Halaqahs : j.taken[h] >= job[w].taken[h]
                  \/ /\ Candidates(job[w].limit, job[w].allows, CountSeenBy(w), r) = {}
                     /\ j.taken = job[w].taken
  <2>1. CASE PassOver(w, r)
    <3> PICK j : j = [job[w] EXCEPT !.todo = @ \ {r}]
      OBVIOUS
    <3>1. /\ j.at = "deciding" /\ j.h = job[w].h /\ j.new = job[w].new
          /\ j.limit = job[w].limit /\ j.allows = job[w].allows /\ j.taken = job[w].taken
      BY <1>0 DEF Job, Open
    <3>2. job' = [job EXCEPT ![w] = j]
      BY <2>1 DEF PassOver
    <3> QED BY <3>1, <3>2
  <2>2. CASE Seat(w, r)
    <3>1. PICK h \in Halaqahs :
            job' = [job EXCEPT ![w] =
              [Written(job[w], r, Seated(reg[r], h, TRUE)) EXCEPT !.taken[h] = @ + 1]]
      BY <2>2 DEF Seat, Best, Candidates
    <3>2. PICK row : row = Seated(reg[r], h, TRUE)
      OBVIOUS
    <3>3. row.status = "assigned"
      BY <1>0, <3>2 DEF RegRow, Seated
    <3>4. PICK a : a = Written(job[w], r, row)
      OBVIOUS
    <3>5. /\ a.at = "deciding" /\ a.h = job[w].h /\ a.taken = job[w].taken
          /\ a.limit = job[w].limit /\ a.allows = job[w].allows
          /\ a.new = [job[w].new EXCEPT ![r] = row]
          /\ a \in [at : At, r : Regs \union {0}, h : Halaqahs \union {NoHalaqah}, todo : SUBSET Regs,
                    new : {a.new}, taken : [Halaqahs -> Nat], limit : [Halaqahs -> Limits],
                    allows : [Halaqahs -> SUBSET Regs], byHand : [Halaqahs -> Nat]]
      BY <1>0, <3>4 DEF Written, Job, Open
    <3>6. PICK j : j = [a EXCEPT !.taken[h] = @ + 1]
      OBVIOUS
    <3>7. /\ j.at = "deciding" /\ j.h = job[w].h /\ j.new = a.new
          /\ j.limit = job[w].limit /\ j.allows = job[w].allows
          /\ j.taken = [job[w].taken EXCEPT ![h] = @ + 1]
      BY <3>5, <3>6
    <3>8. \A g \in Halaqahs : j.taken[g] >= job[w].taken[g]
      BY <1>0, <3>7 DEF Job
    <3>9. j.new[r] = row /\ \A q \in Regs : q # r => j.new[q] = job[w].new[q]
      BY <1>0, <3>5, <3>7 DEF Job
    <3>10. job' = [job EXCEPT ![w] = j]
      BY <3>1, <3>2, <3>4, <3>6
    <3> QED BY <3>3, <3>7, <3>8, <3>9, <3>10
  <2>3. CASE JoinLine(w, r)
    <3>1. PICK n : job' = [job EXCEPT ![w] =
            Written(job[w], r, [reg[r] EXCEPT !.status = "waitlisted", !.order = n])]
      BY <2>3 DEF JoinLine
    <3>2. PICK row : row = [reg[r] EXCEPT !.status = "waitlisted", !.order = n]
      OBVIOUS
    <3>3. PICK j : j = Written(job[w], r, row)
      OBVIOUS
    <3>4. /\ j.at = "deciding" /\ j.h = job[w].h /\ j.taken = job[w].taken
          /\ j.limit = job[w].limit /\ j.allows = job[w].allows
          /\ j.new = [job[w].new EXCEPT ![r] = row]
      BY <1>0, <3>3 DEF Written, Job, Open
    <3>5. \A q \in Regs : q # r => j.new[q] = job[w].new[q]
      BY <1>0, <3>4 DEF Job
    <3>6. job' = [job EXCEPT ![w] = j]
      BY <3>1, <3>2, <3>3
    <3>7. Candidates(job[w].limit, job[w].allows, CountSeenBy(w), r) = {}
      BY <2>3 DEF JoinLine
    <3> QED BY <3>4, <3>5, <3>6, <3>7
  <2> QED BY <1>1, <2>1, <2>2, <2>3
<1>3. job'[w] = j /\ \A v \in Workers : v # w => job'[v] = job[v]
  BY <1>0, <1>2
<1>4. \A h \in Halaqahs : Owed(h) => Owed(h)'
  BY <1>0, <1>3 DEF Owed, Open
<1>5. SeatsOffered'
  BY <1>0, <1>2, <1>3 DEF OInv, SeatsOffered, Unfilled, Open
<1>6. SeenOffered'
  <2> SUFFICES ASSUME NEW v \in Workers, NEW h \in Halaqahs, Open(v)', UnfilledSeen(v, h)', ~lost[h]
               PROVE  Owed(h)
    BY <1>0, <1>4 DEF SeenOffered
  <2>0. joined[h]
    BY <1>0 DEF UnfilledSeen
  <2>1. v = w
    BY <1>0, <1>3 DEF OInv, IInv, LockInv, Open
  <2>2. /\ job[w].limit[h] \in Limits /\ job[w].taken[h] \in Nat /\ count[h] \in Nat
        /\ CountSeenBy(w)[h] = count[h] + job[w].taken[h] /\ CountSeenBy(w)[h] \in Nat
    BY ViewTypes DEF OInv
  <2>3. j.taken[h] \in Nat /\ j.taken[h] >= job[w].taken[h]
    <3>1. j \in Job
      BY <1>3 DEF IInv, TypeOK
    <3> QED BY <1>2, <2>2, <3>1 DEF Job
  <2>4. HasFreeSeat(job[w].limit[h], count[h] + j.taken[h])
    BY <1>0, <1>2, <1>3, <2>1 DEF UnfilledSeen, CountSeenBy
  <2>5. HasFreeSeat(job[w].limit[h], CountSeenBy(w)[h])
    BY <2>2, <2>3, <2>4, FreeWithFewer
  <2>6. PICK q \in Regs : RowsSeenBy(w)'[q].status = "waitlisted" /\ q \in job[w].allows[h]
    BY <1>2, <1>3, <2>1 DEF UnfilledSeen, Waiting
  <2>7. RowsSeenBy(w)'[q] = IF j.new[q].status # "absent" THEN j.new[q] ELSE reg[q]
    BY <1>0, <1>3 DEF RowsSeenBy, Wrote
  <2>8. RowsSeenBy(w)[q] = IF job[w].new[q].status # "absent" THEN job[w].new[q] ELSE reg[q]
    BY DEF RowsSeenBy, Wrote
  <2>9. q = r => j.new = job[w].new
    <3>1. Candidates(job[w].limit, job[w].allows, CountSeenBy(w), r) = {} => q # r
      BY <2>0, <2>5, <2>6 DEF Candidates
    <3>2. j.new[r].status = "assigned" => q # r
      BY <2>6, <2>7
    <3> QED BY <1>2, <3>1, <3>2
  <2>10. j.new[q] = job[w].new[q]
    BY <1>2, <2>9
  <2>11. RowsSeenBy(w)[q].status = "waitlisted"
    BY <2>6, <2>7, <2>8, <2>10
  <2> QED BY <1>0, <2>0, <2>5, <2>6, <2>11 DEF OInv, SeenOffered, UnfilledSeen, Waiting
<1> QED BY <1>5, <1>6 DEF OInv

\* A commit makes what the transaction saw what everybody sees.
LEMMA OffersCommit == ASSUME OInv, IInv', NEW w \in Workers, Commit(w) PROVE OInv'
<1>0. job \in [Workers -> Job] /\ Open(w) /\ lost' = lost
  BY DEF OInv, IInv, TypeOK, Commit, Open
<1>1. job'[w] = Idle /\ \A v \in Workers : v # w => job'[v] = job[v] /\ ~Open(v)
  BY <1>0 DEF Commit, OInv, IInv, LockInv
<1>2. \A v \in Workers : ~Open(v)'
  BY <1>1, IdleType DEF Open
<1>3. ASSUME NEW h \in Halaqahs, Unfilled(h)', ~lost'[h]
      PROVE  Owed(h)'
  <2>1. UnfilledSeen(w, h)
    BY <1>3 DEF Commit, Unfilled, UnfilledSeen
  <2>2. Owed(h)
    BY <1>0, <1>3, <2>1 DEF OInv, SeenOffered
  <2> QED BY <1>0, <1>1, <2>2 DEF Owed, Open
<1> QED BY <1>2, <1>3 DEF OInv, SeatsOffered, SeenOffered, Owed

\* Steps outside the transactions, of one request.
LEMMA OffersRequest ==
  ASSUME OInv, IInv', NEW w \in Workers,
         \/ Register(w) \/ Claim(w) \/ AddStudent(w) \/ LinkStudent(w) \/ Release(w)
         \/ StudentOut(w) \/ NoPromotion(w) \/ Die(w)
  PROVE  OInv'
<1>0. /\ job \in [Workers -> Job] /\ reg \in [Regs -> RegRow] /\ count \in [Halaqahs -> Nat]
      /\ lost \in [Halaqahs -> BOOLEAN] /\ UNCHANGED <<cap, accepts, joined>>
  BY DEF OInv, IInv, TypeOK, Register, Claim, AddStudent, LinkStudent, Release, StudentOut,
         NoPromotion, Die
<1>1. CASE Register(w)
  <2>1. PICK r \in Regs :
          /\ reg' = [reg EXCEPT ![r].status = "pending"]
          /\ job' = [job EXCEPT ![w] = [Idle EXCEPT !.at = "registered", !.r = r]]
    BY <1>1 DEF Register
  <2>2. PICK j : j = [Idle EXCEPT !.at = "registered", !.r = r]
    OBVIOUS
  <2>3. j.at = "registered" /\ job'[w] = j /\ \A v \in Workers : v # w => job'[v] = job[v]
    BY <1>0, <2>1, <2>2 DEF Idle
  <2>4. \A q \in Regs : reg'[q].status = "waitlisted" => reg[q].status = "waitlisted"
    BY <1>0, <2>1 DEF RegRow
  <2>5. job[w].at = "idle" /\ count' = count /\ lost' = lost
    BY <1>1 DEF Register
  <2> QED BY <1>0, <2>3, <2>4, <2>5, OffersKept
<1>2. CASE Claim(w)
  <2>1. PICK r \in Regs, h \in Halaqahs :
          /\ reg' = [reg EXCEPT ![r] = Seated(reg[r], h, reg[r].student)]
          /\ job' = [job EXCEPT ![w] = [Idle EXCEPT !.at = "claimed", !.r = r, !.h = h]]
    BY <1>2 DEF Claim
  <2>2. PICK j : j = [Idle EXCEPT !.at = "claimed", !.r = r, !.h = h]
    OBVIOUS
  <2>3. j.at = "claimed" /\ job'[w] = j /\ \A v \in Workers : v # w => job'[v] = job[v]
    BY <1>0, <2>1, <2>2 DEF Idle
  <2>4. Seated(reg[r], h, reg[r].student).status = "assigned"
    BY <1>0 DEF RegRow, Seated
  <2>5. \A q \in Regs : reg'[q].status = "waitlisted" => reg[q].status = "waitlisted"
    BY <1>0, <2>1, <2>4
  <2>6. job[w].at = "idle" /\ count' = count /\ lost' = lost
    BY <1>2 DEF Claim
  <2> QED BY <1>0, <2>3, <2>5, <2>6, OffersKept
<1>3. CASE AddStudent(w)
  <2>1. job[w].at = "claimed" /\ job[w].h \in Halaqahs /\ reg' = reg /\ lost' = lost
        /\ count' = [count EXCEPT ![job[w].h] = @ + 1]
    BY <1>3 DEF AddStudent, OInv, IInv, TypeOK
  <2>2. \A h \in Halaqahs : count'[h] >= count[h]
    BY <1>0, <2>1
  <2>3. \A v \in Workers :
          job'[v] = IF v = w THEN [job[w] EXCEPT !.at = "added"]
                    ELSE IF job[v].at = "deciding" THEN [job[v] EXCEPT !.byHand[job[w].h] = @ + 1]
                    ELSE job[v]
    BY <1>3 DEF AddStudent
  <2>4. job'[w].at = "added"
    BY <1>0, <2>3 DEF Job
  <2>5. \A v \in Workers : v # w =>
          /\ job'[v].at = job[v].at /\ job'[v].h = job[v].h
          /\ job'[v].new = job[v].new /\ job'[v].taken = job[v].taken
          /\ job'[v].limit = job[v].limit /\ job'[v].allows = job[v].allows
    <3> SUFFICES ASSUME NEW v \in Workers, v # w
                 PROVE  /\ job'[v].at = job[v].at /\ job'[v].h = job[v].h
                        /\ job'[v].new = job[v].new /\ job'[v].taken = job[v].taken
                        /\ job'[v].limit = job[v].limit /\ job'[v].allows = job[v].allows
      OBVIOUS
    <3>1. job[v] \in Job
      BY <1>0
    <3>2. job'[v] \in {job[v], [job[v] EXCEPT !.byHand[job[w].h] = @ + 1]}
      BY <2>3
    <3> QED BY <3>1, <3>2 DEF Job
  <2> QED BY <1>0, <2>1, <2>2, <2>4, <2>5, OffersKept
<1>4. CASE LinkStudent(w) \/ Release(w)
  <2>1. job[w].at \in {"added", "claimed"} /\ job[w].r \in Regs /\ count' = count /\ lost' = lost
        /\ job' = [job EXCEPT ![w] = Idle]
    BY <1>4 DEF LinkStudent, Release, OInv, IInv, TypeOK
  <2>2. [NoRow EXCEPT !.status = "pending"].status = "pending"
    BY DEF NoRow
  <2>3. \A q \in Regs : reg'[q].status = "waitlisted" => reg[q].status = "waitlisted"
    <3>1. CASE LinkStudent(w)
      <4>1. reg' = [reg EXCEPT ![job[w].r].student = TRUE]
        BY <3>1 DEF LinkStudent
      <4> QED BY <1>0, <4>1 DEF RegRow
    <3>2. CASE Release(w)
      <4>1. PICK row : row = [NoRow EXCEPT !.status = "pending"]
        OBVIOUS
      <4>2. reg' = [reg EXCEPT ![job[w].r] = row] /\ row.status = "pending"
        BY <2>2, <3>2, <4>1 DEF Release
      <4> QED BY <1>0, <4>2
    <3> QED BY <1>4, <3>1, <3>2
  <2>4. job'[w].at = "idle" /\ \A v \in Workers : v # w => job'[v] = job[v]
    BY <1>0, <2>1, IdleType
  <2> QED BY <1>0, <2>1, <2>3, <2>4, OffersKept
<1>5. CASE StudentOut(w)
  <2>1. PICK h \in Halaqahs :
          /\ \/ count' = [count EXCEPT ![h] = @ - 1]
             \/ UNCHANGED count
          /\ job' = [job EXCEPT ![w] = [Idle EXCEPT !.at = "freed", !.h = h]]
    BY <1>5 DEF StudentOut, AfterStudentOut
  <2>2. PICK j : j = [Idle EXCEPT !.at = "freed", !.h = h]
    OBVIOUS
  <2>3. j.at = "freed" /\ j.h = h /\ job'[w] = j /\ \A v \in Workers : v # w => job'[v] = job[v]
    BY <1>0, <2>1, <2>2 DEF Idle
  <2>4. job[w].at = "idle" /\ reg' = reg /\ lost' = lost
    BY <1>5 DEF StudentOut
  <2>5. \A g \in Halaqahs : count'[g] >= count[g] \/ Owed(g)'
    <3>1. Owed(h)'
      BY <2>3 DEF Owed
    <3>2. \A g \in Halaqahs : g # h => count'[g] = count[g]
      BY <1>0, <2>1
    <3> QED BY <1>0, <3>1, <3>2
  <2> QED BY <1>0, <2>3, <2>4, <2>5, OffersKept
<1>6. CASE Die(w)
  <2>1. job'[w] = Idle /\ \A v \in Workers : v # w => job'[v] = job[v]
    BY <1>0, <1>6 DEF Die
  <2>2. job'[w].at = "idle" /\ reg' = reg /\ count' = count
    BY <1>6, <2>1, IdleType DEF Die
  <2>3. \A h \in Halaqahs :
          /\ lost[h] => lost'[h]
          /\ job[w].at \in {"freed", "deciding"} /\ job[w].h = h => lost'[h]
    BY <1>6 DEF Die
  <2> QED BY <1>0, <2>1, <2>2, <2>3, OffersKept
<1>7. CASE NoPromotion(w)
  <2>1. job'[w].at = "idle" /\ \A v \in Workers : v # w => job'[v] = job[v]
    BY <1>0, <1>7, IdleType DEF NoPromotion
  <2>2. job[w].at = "freed" /\ ~joined'[job[w].h]
    BY <1>7 DEF NoPromotion
  <2>3. reg' = reg /\ count' = count /\ lost' = lost
    BY <1>7 DEF NoPromotion
  <2> QED BY <1>0, <2>1, <2>2, <2>3, OffersKept
<1> QED BY <1>1, <1>2, <1>3, <1>4, <1>5, <1>6, <1>7

\* Steps outside the transactions, of nobody in particular.
LEMMA OffersOther ==
  ASSUME OInv, IInv',
         \/ MoveEntry \/ RemoveEntry \/ StudentIn \/ Suspend \/ ReplaceStudents
         \/ AttachHalaqah \/ UNCHANGED vars
  PROVE  OInv'
<1>0. /\ job \in [Workers -> Job] /\ reg \in [Regs -> RegRow] /\ count \in [Halaqahs -> Nat]
      /\ lost \in [Halaqahs -> BOOLEAN] /\ joined \in [Halaqahs -> BOOLEAN]
      /\ UNCHANGED <<cap, accepts>>
  BY DEF OInv, IInv, TypeOK, MoveEntry, RemoveEntry, StudentIn, Suspend, ReplaceStudents,
         AttachHalaqah, vars
<1>1. CASE MoveEntry \/ RemoveEntry \/ UNCHANGED vars
  <2>1. \A r \in Regs : reg'[r].status = "waitlisted" => reg[r].status = "waitlisted"
    <3>1. CASE MoveEntry
      <4>1. PICK a, b : reg' = Renumbered(reg, a, b)
        BY <3>1 DEF MoveEntry
      <4>2. \A r \in Regs : r \notin Waiting(reg) => reg'[r] = reg[r]
        BY <4>1 DEF Renumbered
      <4> QED BY <4>2 DEF Waiting
    <3>2. CASE RemoveEntry
      <4>1. PICK r \in Regs : reg' = [reg EXCEPT ![r].status = "removed", ![r].order = 0]
        BY <3>2 DEF RemoveEntry, Waiting
      <4>2. PICK row : row = [[reg[r] EXCEPT !.status = "removed"] EXCEPT !.order = 0]
        OBVIOUS
      <4>3. reg' = [reg EXCEPT ![r] = row] /\ row.status = "removed"
        BY <1>0, <4>1, <4>2 DEF RegRow
      <4> QED BY <1>0, <4>3
    <3> QED BY <1>1, <3>1, <3>2 DEF vars
  <2>2. UNCHANGED <<joined, count, job, lost>>
    BY <1>1 DEF MoveEntry, RemoveEntry, vars
  <2> QED BY <1>0, <2>1, <2>2, OffersKept
<1>2. ASSUME NEW h \in Halaqahs, NEW k \in Nat, SeatedByHand(h, k),
             UNCHANGED <<reg, joined, lost>>
      PROVE  OInv'
  <2>1. \A g \in Halaqahs : count'[g] >= count[g]
    BY <1>0, <1>2 DEF SeatedByHand
  <2>2. \A v \in Workers :
          /\ job'[v].at = job[v].at /\ job'[v].h = job[v].h
          /\ job'[v].new = job[v].new /\ job'[v].taken = job[v].taken
          /\ job'[v].limit = job[v].limit /\ job'[v].allows = job[v].allows
    <3> SUFFICES ASSUME NEW v \in Workers
                 PROVE  /\ job'[v].at = job[v].at /\ job'[v].h = job[v].h
                        /\ job'[v].new = job[v].new /\ job'[v].taken = job[v].taken
                        /\ job'[v].limit = job[v].limit /\ job'[v].allows = job[v].allows
      OBVIOUS
    <3>1. job[v] \in Job
      BY <1>0
    <3>2. job'[v] \in {job[v], Noticed(job[v], h, k)}
      BY <1>2 DEF SeatedByHand, Noticed
    <3> QED BY <3>1, <3>2, NoticedJob
  <2> QED BY <1>0, <1>2, <2>1, <2>2, OffersKept
<1>3. ASSUME NEW h \in Halaqahs, SeatForgotten(h), UNCHANGED <<reg, job>>,
             \A g \in Halaqahs : g # h => count'[g] = count[g] /\ joined'[g] = joined[g]
      PROVE  OInv'
  <2>1. lost'[h] /\ \A g \in Halaqahs : g # h => lost'[g] = lost[g]
    BY <1>0, <1>3 DEF SeatForgotten
  <2>2. \A g \in Halaqahs : lost[g] => lost'[g]
    BY <2>1
  <2>3. \A g \in Halaqahs : joined'[g] => joined[g] \/ lost'[g]
    BY <1>3, <2>1
  <2>4. \A g \in Halaqahs : count'[g] >= count[g] \/ lost'[g]
    BY <1>0, <1>3, <2>1
  <2> QED BY <1>0, <1>3, <2>2, <2>3, <2>4, OffersKept
<1>4. CASE StudentIn
  BY <1>2, <1>4 DEF StudentIn
<1>5. CASE Suspend
  <2>1. PICK h \in Halaqahs : count' = [count EXCEPT ![h] = @ - 1] /\ SeatForgotten(h)
    BY <1>5 DEF Suspend
  <2>2. \A g \in Halaqahs : g # h => count'[g] = count[g] /\ joined'[g] = joined[g]
    BY <1>0, <1>5, <2>1 DEF Suspend
  <2> QED BY <1>3, <1>5, <2>1, <2>2 DEF Suspend
<1>6. CASE ReplaceStudents
  <2>1. UNCHANGED <<reg, joined>>
    BY <1>6 DEF ReplaceStudents
  <2>2. ASSUME NEW h \in Halaqahs, NEW n \in Nat, count' = [count EXCEPT ![h] = n],
               SeatForgotten(h), UNCHANGED job
        PROVE  OInv'
    <3>1. \A g \in Halaqahs : g # h => count'[g] = count[g] /\ joined'[g] = joined[g]
      BY <1>0, <2>1, <2>2
    <3> QED BY <1>3, <2>1, <2>2, <3>1
  <2> QED BY <1>2, <1>6, <2>1, <2>2, ReplacedList DEF OInv
<1>7. CASE AttachHalaqah
  <2>1. PICK h \in Halaqahs : joined' = [joined EXCEPT ![h] = TRUE] /\ SeatForgotten(h)
    BY <1>7 DEF AttachHalaqah
  <2>2. \A g \in Halaqahs : g # h => count'[g] = count[g] /\ joined'[g] = joined[g]
    BY <1>0, <1>7, <2>1 DEF AttachHalaqah
  <2> QED BY <1>3, <1>7, <2>1, <2>2 DEF AttachHalaqah
<1> QED BY <1>1, <1>4, <1>5, <1>6, <1>7

\* At the start nobody waits.
LEMMA OffersInit == Init => OInv
<1> SUFFICES ASSUME Init PROVE OInv
  OBVIOUS
<1>1. Waiting(reg) = {}
  BY RowTypes DEF Init, Waiting
<1>2. \A w \in Workers : ~Open(w)
  BY IdleType DEF Init, Open
<1> QED BY <1>1, <1>2, InitIInv DEF OInv, SeatsOffered, SeenOffered, Unfilled

LEMMA OffersStep == OInv /\ [Next]_vars => OInv'
<1> SUFFICES ASSUME OInv, [Next]_vars PROVE OInv'
  OBVIOUS
<1>1. IInv'
  BY StepIInv DEF OInv
<1>2. CASE \E w \in Workers :
        BeginAssign(w) \/ BeginAssignPending(w) \/ BeginPromote(w) \/ BeginCriteria(w)
  BY <1>1, <1>2, OffersBegin
<1>3. CASE \E w \in Workers : Decide(w)
  BY <1>1, <1>3, OffersDecide
<1>4. CASE \E w \in Workers : Commit(w)
  BY <1>1, <1>4, OffersCommit
<1>5. CASE \E w \in Workers :
        \/ Register(w) \/ Claim(w) \/ AddStudent(w) \/ LinkStudent(w) \/ Release(w)
        \/ StudentOut(w) \/ NoPromotion(w) \/ Die(w)
  BY <1>1, <1>5, OffersRequest
<1>6. CASE \/ MoveEntry \/ RemoveEntry \/ StudentIn \/ Suspend \/ ReplaceStudents
           \/ AttachHalaqah \/ UNCHANGED vars
  BY <1>1, <1>6, OffersOther
<1> QED BY <1>2, <1>3, <1>4, <1>5, <1>6 DEF Next

\* While somebody waits for a halaqah with a free seat, a request that will serve him is
\* on its way, unless the seat came free where nobody calls onSeatFreed: by a suspension,
\* a dismissal, a summary written back late, a list of students replaced by a shorter one,
\* or a halaqah that joined the mosque, or the request that freed it died.
THEOREM SeatsAreOffered == Spec => []SeatsOffered
<1>1. OInv => SeatsOffered
  BY DEF OInv
<1> QED BY <1>1, OffersInit, OffersStep, PTL DEF Spec

-----------------------------------------------------------------------------
(* The refinement of WaitingLine. What two tables of rows, the one before   *)
(* and the one after a step, say of the line.                              *)

\* Who stands before whom, pair by pair.
LEMMA AheadPair ==
  ASSUME NEW rows, NEW p, NEW q
  PROVE  <<p, q>> \in Ahead(rows) <=>
           p \in Waiting(rows) /\ q \in Waiting(rows) /\ Before(rows, p, q)
  BY DEF Ahead

\* Two relations on the line are the same if they hold of the same people.
LEMMA SamePairs ==
  ASSUME NEW s, NEW one, NEW other, one \subseteq s \X s, other \subseteq s \X s,
         \A p, q \in s : <<p, q>> \in one <=> <<p, q>> \in other
  PROVE  one = other
  OBVIOUS

\* sortWaitlist puts those who wait in a strict total order.
LEMMA LineInOrder ==
  ASSUME NEW rows, \A r \in Regs : rows[r].order \in Nat
  PROVE  Line!InOrder(Waiting(rows), Ahead(rows))
<1>1. Waiting(rows) \subseteq Regs
  BY DEF Waiting
<1>2. Ahead(rows) \subseteq Waiting(rows) \X Waiting(rows)
  BY DEF Ahead
<1>3. \A p \in Waiting(rows) : <<p, p>> \notin Ahead(rows)
  BY <1>1, AheadPair, BeforeOrder
<1>4. \A p, q \in Waiting(rows) : p # q => <<p, q>> \in Ahead(rows) \/ <<q, p>> \in Ahead(rows)
  BY <1>1, AheadPair, BeforeOrder
<1>5. ASSUME NEW p \in Waiting(rows), NEW q \in Waiting(rows), NEW r \in Waiting(rows),
             <<p, q>> \in Ahead(rows), <<q, r>> \in Ahead(rows)
      PROVE  <<p, r>> \in Ahead(rows)
  <2>1. Before(rows, p, q) /\ Before(rows, q, r)
    BY <1>5, AheadPair
  <2>2. Before(rows, p, r)
    BY <1>1, <2>1, BeforeOrder
  <2> QED BY <2>2, AheadPair
<1> QED BY <1>2, <1>3, <1>4, <1>5 DEF Line!InOrder, Line!Between

\* When rows only leave the line, those who stay stand as they stood.
LEMMA LineGoes ==
  ASSUME NEW rows, NEW rows2,
         \A r \in Regs : rows2[r].status = "waitlisted" => rows2[r] = rows[r]
  PROVE  /\ Waiting(rows2) \subseteq Waiting(rows)
         /\ Ahead(rows2) = Ahead(rows) \intersect (Waiting(rows2) \X Waiting(rows2))
<1>1. \A r \in Waiting(rows2) : r \in Waiting(rows) /\ rows2[r] = rows[r]
  BY DEF Waiting
<1>2. \A p, q \in Waiting(rows2) : Before(rows2, p, q) <=> Before(rows, p, q)
  BY <1>1 DEF Before
<1>3. \A p, q \in Waiting(rows2) : <<p, q>> \in Ahead(rows2) <=> <<p, q>> \in Ahead(rows)
  BY <1>1, <1>2, AheadPair
<1>4. Ahead(rows2) \subseteq Waiting(rows2) \X Waiting(rows2)
  BY DEF Ahead
<1> QED BY <1>1, <1>3, <1>4, SamePairs

\* Who comes with a larger order stands behind everybody who was there.
LEMMA LineComes ==
  ASSUME NEW rows, NEW rows2,
         \A r \in Regs : rows[r].order \in Nat /\ rows2[r].order \in Nat,
         \A r \in Waiting(rows) : rows2[r] = rows[r],
         \A n \in Waiting(rows2) \ Waiting(rows), q \in Waiting(rows) :
           rows[q].order < rows2[n].order
  PROVE  /\ Waiting(rows) \subseteq Waiting(rows2) /\ Waiting(rows2) \subseteq Regs
         /\ Ahead(rows2) \intersect (Waiting(rows) \X Waiting(rows)) = Ahead(rows)
         /\ Waiting(rows) \X (Waiting(rows2) \ Waiting(rows)) \subseteq Ahead(rows2)
<1>1. Waiting(rows) \subseteq Waiting(rows2) /\ Waiting(rows2) \subseteq Regs
  BY DEF Waiting
<1>2. \A p, q \in Waiting(rows) : Before(rows2, p, q) <=> Before(rows, p, q)
  BY DEF Before
<1>3. \A p, q \in Waiting(rows) : <<p, q>> \in Ahead(rows2) <=> <<p, q>> \in Ahead(rows)
  BY <1>1, <1>2, AheadPair
<1>4. Ahead(rows) \subseteq Waiting(rows) \X Waiting(rows)
  BY DEF Ahead
<1>5. Ahead(rows2) \intersect (Waiting(rows) \X Waiting(rows)) = Ahead(rows)
  BY <1>3, <1>4, SamePairs
<1>6. \A q \in Waiting(rows), n \in Waiting(rows2) \ Waiting(rows) : Before(rows2, q, n)
  BY DEF Before
<1>7. \A q \in Waiting(rows), n \in Waiting(rows2) \ Waiting(rows) : <<q, n>> \in Ahead(rows2)
  BY <1>1, <1>6, AheadPair
<1> QED BY <1>1, <1>5, <1>7

\* From rows to rows2 the places of p and q, who stands right behind p, are exchanged.
Exchanged(rows, rows2, p, q) ==
  /\ \A r \in Regs : rows[r].order \in Nat
  /\ p \in Waiting(rows) /\ q \in Waiting(rows)
  /\ Place(rows, p) + 1 = Place(rows, q) /\ Waiting(rows2) = Waiting(rows)
  /\ rows2[p].order = Place(rows, q) /\ rows2[q].order = Place(rows, p)
  /\ \A r \in Waiting(rows) \ {p, q} : rows2[r].order = Place(rows, r)

\* p stood right before q, and now q stands before p.
PlacesChange(rows, rows2, p, q) ==
  /\ <<p, q>> \in Ahead(rows)
  /\ \A r \in Waiting(rows) : ~(<<p, r>> \in Ahead(rows) /\ <<r, q>> \in Ahead(rows))
  /\ Ahead(rows2) = (Ahead(rows) \ {<<p, q>>}) \union {<<q, p>>}

\* Renumbering lets p and its neighbour q change places and nobody else.
LEMMA NeighboursSwap ==
  ASSUME NEW rows, NEW rows2, NEW p, NEW q, Exchanged(rows, rows2, p, q)
  PROVE  PlacesChange(rows, rows2, p, q)
<1>0. /\ \A r \in Regs : rows[r].order \in Nat
      /\ p \in Waiting(rows) /\ q \in Waiting(rows)
      /\ Place(rows, p) + 1 = Place(rows, q) /\ Waiting(rows2) = Waiting(rows)
      /\ rows2[p].order = Place(rows, q) /\ rows2[q].order = Place(rows, p)
      /\ \A r \in Waiting(rows) \ {p, q} : rows2[r].order = Place(rows, r)
  BY DEF Exchanged
<1> DEFINE s == Waiting(rows)
           ahead(x, y) == Before(rows, x, y)
<1>1. s \subseteq Regs /\ p \in Regs /\ q \in Regs
  BY <1>0 DEF Waiting
<1>2. \A x \in s : Place(rows, x) \in Nat
  BY PlaceType
<1>3. p # q
  BY <1>0, <1>2
<1>4. \A x, y \in s : ahead(x, y) => Place(rows, x) < Place(rows, y)
  BY <1>0, PlaceGrows
<1>5. \A x, y \in s : x # y => ahead(x, y) \/ ahead(y, x)
  BY <1>0, <1>1, BeforeOrder
<1>6. \A x, y \in s : ahead(x, y) <=> Place(rows, x) < Place(rows, y)
  <2>1. ASSUME NEW x \in s, NEW y \in s, Place(rows, x) < Place(rows, y)
        PROVE  ahead(x, y)
    <3>1. x # y
      BY <1>2, <2>1
    <3>2. ~ahead(y, x)
      BY <1>2, <1>4, <2>1
    <3> QED BY <1>5, <3>1, <3>2
  <2> QED BY <1>4, <2>1
<1>7. \A x, y \in s : x # y => Place(rows, x) # Place(rows, y)
  BY <1>0, PlacesDiffer
<1>8. \A x, y \in s : x # y => rows2[x].order # rows2[y].order
  BY <1>0, <1>3, <1>7
<1>9. \A x, y \in s : x # y =>
        (Before(rows2, x, y) <=> rows2[x].order < rows2[y].order)
  BY <1>0, <1>8 DEF Before
<1>10. \A x \in s : ~Before(rows2, x, x) /\ ~ahead(x, x)
  <2>1. \A x \in s : ~(x < x) /\ rows2[x].order \in Nat
    BY <1>0, <1>1, <1>2, EnrollmentAssumption
  <2>2. \A x \in s : ~ahead(x, x)
    BY <1>0, <1>1, BeforeOrder
  <2> QED BY <2>1, <2>2 DEF Before
<1> HIDE DEF ahead, s
<1>11. ahead(p, q) /\ ~ahead(q, p)
  BY <1>0, <1>2, <1>6 DEF s
<1>12. \A r \in s : ~(ahead(p, r) /\ ahead(r, q))
  BY <1>0, <1>2, <1>6 DEF s
<1>13. Before(rows2, q, p) /\ ~Before(rows2, p, q)
  <2>1. rows2[q].order < rows2[p].order /\ ~(rows2[p].order < rows2[q].order)
    BY <1>0, <1>2 DEF s
  <2> QED BY <1>0, <1>3, <1>9, <2>1 DEF s
<1>14. ASSUME NEW x \in s, NEW y \in s, x # y, ~(x = p /\ y = q), ~(x = q /\ y = p)
       PROVE  Before(rows2, x, y) <=> ahead(x, y)
  <2>1. Place(rows, x) \in Nat /\ Place(rows, y) \in Nat
        /\ Place(rows, p) \in Nat /\ Place(rows, q) \in Nat
    BY <1>0, <1>2 DEF s
  <2>2. /\ rows2[x].order = IF x = p THEN Place(rows, q) ELSE IF x = q THEN Place(rows, p)
                           ELSE Place(rows, x)
        /\ rows2[y].order = IF y = p THEN Place(rows, q) ELSE IF y = q THEN Place(rows, p)
                           ELSE Place(rows, y)
    BY <1>0 DEF s
  <2>3. /\ x # p => Place(rows, x) # Place(rows, p)
        /\ x # q => Place(rows, x) # Place(rows, q)
        /\ y # p => Place(rows, y) # Place(rows, p)
        /\ y # q => Place(rows, y) # Place(rows, q)
    BY <1>0, <1>7 DEF s
  <2>4. rows2[x].order < rows2[y].order <=> Place(rows, x) < Place(rows, y)
    <3>1. Place(rows, p) + 1 = Place(rows, q)
      BY <1>0
    <3> QED BY <1>3, <1>14, <2>1, <2>2, <2>3, <3>1
  <2> QED BY <1>6, <1>9, <1>14, <2>4
<1>15. \A x, y \in s : <<x, y>> \in Ahead(rows) <=> ahead(x, y)
  BY AheadPair DEF s, ahead
<1>16. \A x, y \in s : <<x, y>> \in Ahead(rows2) <=> Before(rows2, x, y)
  BY <1>0, AheadPair DEF s
<1> DEFINE swapped == (Ahead(rows) \ {<<p, q>>}) \union {<<q, p>>}
<1>17. \A x, y \in s : <<x, y>> \in swapped <=>
         (<<x, y>> \in Ahead(rows) /\ ~(x = p /\ y = q)) \/ (x = q /\ y = p)
  OBVIOUS
<1>18. \A x, y \in s : <<x, y>> \in Ahead(rows2) <=> <<x, y>> \in swapped
  <2>1. ASSUME NEW x \in s, NEW y \in s
        PROVE  Before(rows2, x, y) <=> (ahead(x, y) /\ ~(x = p /\ y = q)) \/ (x = q /\ y = p)
    <3>1. CASE x = y
      BY <1>3, <1>10, <3>1
    <3>2. CASE x = p /\ y = q
      BY <1>3, <1>13, <3>2
    <3>3. CASE x = q /\ y = p
      BY <1>13, <3>3
    <3>4. CASE x # y /\ ~(x = p /\ y = q) /\ ~(x = q /\ y = p)
      BY <1>14, <3>4
    <3> QED BY <3>1, <3>2, <3>3, <3>4
  <2> QED BY <2>1, <1>15, <1>16, <1>17
<1>19. Ahead(rows2) \subseteq s \X s /\ Ahead(rows) \subseteq s \X s
  BY <1>0 DEF s, Ahead
<1>20. swapped \subseteq s \X s
  BY <1>0, <1>19 DEF s
<1>21. Ahead(rows2) = swapped
  BY <1>18, <1>19, <1>20, SamePairs
<1>22. p \in s /\ q \in s
  BY <1>0 DEF s
<1> QED BY <1>11, <1>12, <1>15, <1>21, <1>22 DEF s, PlacesChange

-----------------------------------------------------------------------------
(* Each step of the desk is a step of the line, or no step of it           *)

\* moveWaitlistEntry lets two neighbours change places.
LEMMA MovesAreSwaps == ASSUME LInv, MoveEntry PROVE Line!ChangePlaces
<1>1. PICK a \in Waiting(reg), b \in Waiting(reg) :
        /\ Place(reg, b) + 1 = Place(reg, a) \/ Place(reg, a) + 1 = Place(reg, b)
        /\ reg' = Renumbered(reg, a, b)
  BY DEF MoveEntry
<1>2. PICK rows, rows2 : rows = reg /\ rows2 = reg'
  OBVIOUS
<1>3. \A r \in Regs : rows[r] \in RegRow
  BY <1>2 DEF LInv, IInv, TypeOK
<1>4. \A r \in Regs : rows[r].order \in Nat
  BY <1>3 DEF RegRow
<1>5. a \in Waiting(rows) /\ b \in Waiting(rows) /\ a # b
  BY <1>1, <1>2, PlaceType
<1>6. ASSUME NEW r \in Regs
      PROVE  /\ rows2[r].status = "waitlisted" <=> r \in Waiting(rows)
             /\ r \in Waiting(rows) =>
                  rows2[r].order = IF r = a THEN Place(rows, b)
                                   ELSE IF r = b THEN Place(rows, a) ELSE Place(rows, r)
  <2>1. CASE r \in Waiting(rows)
    <3>1. PICK n : n = IF r = a THEN Place(rows, b)
                       ELSE IF r = b THEN Place(rows, a) ELSE Place(rows, r)
      OBVIOUS
    <3>2. rows2[r] = [rows[r] EXCEPT !.order = n]
      BY <1>1, <1>2, <2>1, <3>1 DEF Renumbered
    <3> QED BY <1>3, <2>1, <3>1, <3>2 DEF RegRow, Waiting
  <2>2. CASE r \notin Waiting(rows)
    BY <1>1, <1>2, <2>2 DEF Renumbered, Waiting
  <2> QED BY <2>1, <2>2
<1>7. Waiting(rows2) = Waiting(rows)
  BY <1>6 DEF Waiting
<1>8. \A r \in Waiting(rows) : r \in Regs
  BY DEF Waiting
<1>9. PICK p \in Waiting(rows), q \in Waiting(rows) :
        /\ Place(rows, p) + 1 = Place(rows, q)
        /\ rows2[p].order = Place(rows, q) /\ rows2[q].order = Place(rows, p)
        /\ \A r \in Waiting(rows) \ {p, q} : rows2[r].order = Place(rows, r)
  <2>1. CASE Place(rows, a) + 1 = Place(rows, b)
    BY <1>5, <1>6, <1>8, <2>1
  <2>2. CASE Place(rows, b) + 1 = Place(rows, a)
    BY <1>5, <1>6, <1>8, <2>2
  <2> QED BY <1>1, <1>2, <2>1, <2>2
<1>10. PlacesChange(rows, rows2, p, q)
  <2>1. Exchanged(rows, rows2, p, q)
    BY <1>4, <1>7, <1>9 DEF Exchanged
  <2> QED BY <2>1, NeighboursSwap, Zenon
<1>11. /\ Waiting(rows) = Waiting(reg) /\ Waiting(rows2) = Waiting(reg)'
       /\ Ahead(rows) = Ahead(reg) /\ Ahead(rows2) = Ahead(reg)'
  BY <1>2 DEF Waiting, Ahead, Before
<1>12. /\ UNCHANGED Waiting(reg)
       /\ p \in Waiting(reg) /\ q \in Waiting(reg) /\ <<p, q>> \in Ahead(reg)
       /\ \A r \in Waiting(reg) : ~(<<p, r>> \in Ahead(reg) /\ <<r, q>> \in Ahead(reg))
       /\ Ahead(reg)' = (Ahead(reg) \ {<<p, q>>}) \union {<<q, p>>}
  BY <1>7, <1>10, <1>11 DEF PlacesChange
<1> QED BY <1>12, Zenon DEF Line!ChangePlaces

\* Whoever leaves the line, and a step that leaves it alone, is a Go.
LEMMA LeavesAreGoes ==
  ASSUME \A r \in Regs : reg'[r].status = "waitlisted" => reg'[r] = reg[r]
  PROVE  Line!Go
<1>1. PICK rows, rows2 : rows = reg /\ rows2 = reg'
  OBVIOUS
<1>2. \A r \in Regs : rows2[r].status = "waitlisted" => rows2[r] = rows[r]
  BY <1>1
<1>3. /\ Waiting(rows2) \subseteq Waiting(rows)
      /\ Ahead(rows2) = Ahead(rows) \intersect (Waiting(rows2) \X Waiting(rows2))
  BY <1>2, LineGoes, Zenon
<1>4. /\ Waiting(rows) = Waiting(reg) /\ Waiting(rows2) = Waiting(reg)'
      /\ Ahead(rows) = Ahead(reg) /\ Ahead(rows2) = Ahead(reg)'
  BY <1>1 DEF Waiting, Ahead, Before
<1> QED BY <1>3, <1>4 DEF Line!Go, Line!Between

\* COMMIT brings those who were seated nowhere to the end of the line, or takes those who
\* were promoted out of it.
LEMMA CommitsComeOrGo ==
  ASSUME LInv, LInv', NEW w \in Workers, Commit(w)
  PROVE  Line!Come \/ Line!Go
<1>1. reg' = After(job[w]) /\ Open(w)
  BY DEF Commit, RowsSeenBy, Wrote, After, Open
<1>2. ServedOK(job[w])
  BY <1>1 DEF LInv, LineInv
<1>3. CASE job[w].h # NoHalaqah
  <2>1. \A r \in Regs : reg'[r].status = "waitlisted" => reg'[r] = reg[r]
    BY <1>1, <1>2, <1>3 DEF ServedOK, After
  <2> QED BY <2>1, LeavesAreGoes
<1>4. CASE job[w].h = NoHalaqah
  <2>1. PICK rows, rows2 : rows = reg /\ rows2 = reg'
    OBVIOUS
  <2>2. \A r \in Regs : rows[r].order \in Nat /\ rows2[r].order \in Nat
    BY <2>1 DEF LInv, IInv, TypeOK, RegRow
  <2>3. \A r \in Waiting(rows) : rows2[r] = rows[r]
    BY <1>1, <1>2, <1>4, <2>1 DEF ServedOK, After, Waiting
  <2>4. \A n \in Waiting(rows2) \ Waiting(rows), q \in Waiting(rows) :
          rows[q].order < rows2[n].order
    BY <1>1, <1>2, <1>4, <2>1 DEF ServedOK, After, Waiting
  <2>5. /\ Waiting(rows) \subseteq Waiting(rows2) /\ Waiting(rows2) \subseteq Regs
        /\ Ahead(rows2) \intersect (Waiting(rows) \X Waiting(rows)) = Ahead(rows)
        /\ Waiting(rows) \X (Waiting(rows2) \ Waiting(rows)) \subseteq Ahead(rows2)
    BY <2>2, <2>3, <2>4, LineComes, Zenon
  <2>6. Line!InOrder(Waiting(rows2), Ahead(rows2))
    BY <2>2, LineInOrder, Zenon
  <2>7. /\ Waiting(rows) = Waiting(reg) /\ Waiting(rows2) = Waiting(reg)'
        /\ Ahead(rows) = Ahead(reg) /\ Ahead(rows2) = Ahead(reg)'
    BY <2>1 DEF Waiting, Ahead, Before
  <2>8. CASE Waiting(rows2) = Waiting(rows)
    <3>1. Ahead(rows2) = Ahead(rows) \intersect (Waiting(rows2) \X Waiting(rows2))
      BY <2>5, <2>8 DEF Ahead
    <3> QED BY <2>7, <2>8, <3>1 DEF Line!Go, Line!Between
  <2>9. CASE Waiting(rows2) # Waiting(rows)
    BY <2>5, <2>6, <2>7, <2>9 DEF Line!Come, Line!Between, Line!InOrder
  <2> QED BY <2>8, <2>9
<1> QED BY <1>3, <1>4

\* Every other step takes rows out of the line or leaves it alone.
LEMMA OthersLeave ==
  ASSUME LInv, [Next]_vars, ~MoveEntry, ~(\E w \in Workers : Commit(w)),
         NEW r \in Regs, reg'[r].status = "waitlisted"
  PROVE  reg'[r] = reg[r]
<1>1. \A q \in Regs : reg[q] \in RegRow
  BY DEF LInv, IInv, TypeOK
<1>2. CASE RemoveEntry
  <2>1. PICK q \in Regs : reg' = [reg EXCEPT ![q].status = "removed", ![q].order = 0]
    BY <1>2 DEF RemoveEntry, Waiting
  <2> QED BY <2>1, <1>1 DEF LInv, IInv, TypeOK, RegRow
<1>3. ASSUME NEW w \in Workers, Register(w) PROVE reg'[r] = reg[r]
  <2>1. PICK q \in Regs : reg' = [reg EXCEPT ![q].status = "pending"]
    BY <1>3 DEF Register
  <2> QED BY <2>1, <1>1 DEF LInv, IInv, TypeOK, RegRow
<1>4. ASSUME NEW w \in Workers, Claim(w) PROVE reg'[r] = reg[r]
  <2>1. PICK q \in Regs, h \in Halaqahs :
          reg' = [reg EXCEPT ![q] = Seated(reg[q], h, reg[q].student)]
    BY <1>4 DEF Claim
  <2>2. Seated(reg[q], h, reg[q].student).status = "assigned"
    BY <1>1, SeatedType DEF RegRow
  <2> QED BY <2>1, <2>2 DEF LInv, IInv, TypeOK
<1>5. ASSUME NEW w \in Workers, LinkStudent(w) \/ Release(w) PROVE reg'[r] = reg[r]
  <2>1. PICK q \in Regs : q = job[w].r /\ reg[q].status = "assigned"
    BY <1>5 DEF LinkStudent, Release, LInv, IInv, TypeOK, ClaimInv
  <2>2. CASE LinkStudent(w)
    <3>1. reg' = [reg EXCEPT ![q].student = TRUE]
      BY <2>1, <2>2 DEF LinkStudent
    <3> QED BY <2>1, <3>1, <1>1 DEF LInv, IInv, TypeOK, RegRow
  <2>3. CASE Release(w)
    <3>1. reg' = [reg EXCEPT ![q] = [NoRow EXCEPT !.status = "pending"]]
      BY <2>1, <2>3 DEF Release
    <3>2. [NoRow EXCEPT !.status = "pending"].status = "pending"
      BY DEF NoRow
    <3> QED BY <3>1, <3>2 DEF LInv, IInv, TypeOK
  <2> QED BY <1>5, <2>2, <2>3
<1>6. CASE \E w \in Workers :
        \/ BeginAssign(w) \/ BeginAssignPending(w) \/ Decide(w) \/ BeginPromote(w)
        \/ BeginCriteria(w) \/ AddStudent(w) \/ StudentOut(w) \/ NoPromotion(w) \/ Die(w)
  <2>1. UNCHANGED reg
    BY <1>6 DEF BeginAssign, BeginAssignPending, Decide, BeginPromote, BeginCriteria,
                AddStudent, StudentOut, NoPromotion, Die
  <2> QED BY <2>1
<1>7. CASE StudentIn \/ Suspend \/ ReplaceStudents \/ AttachHalaqah \/ UNCHANGED vars
  BY <1>7 DEF StudentIn, Suspend, ReplaceStudents, AttachHalaqah, vars
<1> QED BY <1>2, <1>3, <1>4, <1>5, <1>6, <1>7 DEF Next

\* Every step of the desk is a step of the line.
LEMMA LineSteps == LInv /\ LInv' /\ [Next]_vars => [Line!LineNext]_(Line!line)
<1> SUFFICES ASSUME LInv, LInv', [Next]_vars
             PROVE  Line!LineNext
  OBVIOUS
<1>1. CASE MoveEntry
  BY <1>1, MovesAreSwaps DEF Line!LineNext
<1>2. CASE \E w \in Workers : Commit(w)
  BY <1>2, CommitsComeOrGo DEF Line!LineNext
<1>3. CASE ~MoveEntry /\ ~(\E w \in Workers : Commit(w))
  <2>1. \A r \in Regs : reg'[r].status = "waitlisted" => reg'[r] = reg[r]
    BY <1>3, OthersLeave
  <2>2. Line!Go
    BY <2>1, LeavesAreGoes
  <2> QED BY <2>2 DEF Line!LineNext
<1> QED BY <1>1, <1>2, <1>3

\* The desk keeps the word of the line: whoever comes stands behind everybody, whoever
\* goes leaves the others as they were, nobody overtakes but a neighbour by the hand of an
\* administrator, whatever transactions, moves and placements by hand cross.
THEOREM LineKeepsItsWord == Spec => ImplementsLine
<1>1. Init => Line!LineInit
  <2> SUFFICES ASSUME Init PROVE Line!LineInit
    OBVIOUS
  <2>1. Waiting(reg) = {}
    BY RowTypes DEF Init, Waiting
  <2>2. Ahead(reg) = {}
    BY <2>1 DEF Ahead
  <2> QED BY <2>1, <2>2 DEF Line!LineInit
<1> QED BY <1>1, LineInvariant, LineSteps, PTL DEF Spec, ImplementsLine, Line!LineSpec

=============================================================================
