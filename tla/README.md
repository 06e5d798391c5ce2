# halaqat-tahfeez: verification

TLA+ models of the parts of the halaqah service (`src/web`) in which requests meet: what a pupil, a buddy and a teacher do to one ward, what workers do to one WhatsApp message, what desks and transactions do to one seat, what runs do to one webhook delivery, what examiners and administrators do to one exam, what handlers do to ten registers of the office (a teacher's account, a student's discipline, his attendance, his fees, his recitations, a halaqah's permit, a mosque's registration and its membership in an association, a supervisor's visit, a proposal of the assistant), and what polls and requests do to the read mark of a conversation. TLC checks the models on small instances; TLAPS proves the theorems listed below for every value of the constants.

## 1. The system

A Next.js service over PostgreSQL. Every request runs in a server function of its own; there is no shared memory and no queue; one cron job delivers the webhooks that are due. State is in tables, and what protects it is what the SQL says: a guarded `UPDATE ... WHERE status = ...`, a unique key, a row lock, an advisory lock. Isolation is READ COMMITTED, so each statement of a transaction reads what is committed when the statement starts. A handler of several statements can be interleaved with any other between two of them, and its process can end there. That is the subject of this project.

| component | state | operations | hard part |
|---|---|---|---|
| ward review cycle (`lib/db.ts`, `app/api/wards`, `app/api/teacher/wards`) | `ward_logs` | submit, record, edit, delete, see, approve, return, reopen, classify, grade | reads used after an await; edit against decision; the chain of attempts |
| buddy confirmation (`lib/db.ts`) | `ward_review_buddies`, `halaqahs.buddy_reset_on_edit` | ask, answer, replace, reset on edit | an answer given while an edit is open |
| WhatsApp outbox (`lib/notify`) | `notifications_outbox` | enqueue under caps, send, mark, sweep, resend | crash between send and mark, two resends, caps under concurrency |
| enrolment and waiting list (`lib/mosque/enrollment-db.ts`, `lib/enrollment.ts`) | `mosque_registrations`, `halaqahs.capacity` and criteria, number of active students | register, seat automatically, wait, promote, move, remove, place by hand | the mosque's lock is taken by some writers only |
| outgoing webhooks (`lib/webhooks-db.ts`) | `webhook_outbox`, endpoints | emit, ping, claim with a lease, send, retry, pause, delete | lease that expires under a slow run, attempts spent by the dead, who is next |
| exams and certificates (`lib/mosque/exams-db.ts`) | nominations, sessions, results, certificates | nominate, save a roster, record, publish, take back, withdraw, delete a session | check-then-write over several statements without a transaction |
| teacher's account (`lib/reset-code.ts`, `lib/auth.ts`, `lib/password-change.ts`) | `password_resets`, `teachers.password_hash`, `session_version`, cookies | ask for a code, guess, burn, set; reset by link; change; sign in; end all sessions | three statements from the guess to the password, any number of forms at once, a crash after the burn |
| discipline (`lib/discipline-db.ts`, `lib/discipline.ts`) | `discipline_events`, `student_suspensions`, `students.active` | record a violation, suspend, restore, dismiss; the teacher's edits and merged summaries beside them | what a suspension restores may have been changed meanwhile |
| attendance and the ladder of absences (`lib/attendance-db.ts`, `lib/discipline-db.ts`) | `attendance`, `discipline_events` of origin `auto` | decide a day, mark all present, check in, run the ladder, tell the parents | the decision before is read in a snapshot; two ladders at once; a crash before the notice |
| fees (`lib/fees-db.ts`) | `fee_plans`, `student_fees`, `fee_payments` | plan, make due, pay, waive | a waiver against a payment; dues against a new plan |
| permits (`lib/permits-db.ts`) | `halaqah_permits`, `permits_log` | issue, ask for renewal, renew, suspend, reactivate, withdraw | a first issue has no row to lock |
| associations (`lib/association-links-db.ts`, `lib/association-db.ts`) | `mosque_association_links`, `mosques.association_id` | ask for a link, decide it; set by hand | two transactions lock the same rows in opposite order |
| registration of mosques (`lib/mosque-registration-db.ts`) | `mosque_registration_requests`, `mosques`, `mosque_admins` | apply, approve, reject; set an administrator by hand | a username is asked for by two statements; an application approved and refused at once |
| recitations (`lib/recitations-db.ts`) | `recitations` of a student | upload and drop what is beyond the limit, review, tell | concurrent uploads do not see each other; the first review is found in a snapshot |
| assistant (`lib/agent`) | `agent_proposals` | propose, claim, carry out, close, cancel | two administrators at once; a crash or an error after the change |
| messaging (`components/messaging/messenger.tsx`, `lib/messaging.ts`) | `conversation_participants.last_read_at`, the page's `seenRef` | write, poll, mark as read, reply | a mark that is lost |
| supervisors' visits (`lib/supervisor-visits-db.ts`) | `supervisor_visits`, `visit_criteria_scores` | schedule, score, close, cancel, reopen | written by id after a read; two tables, two transactions |
| student identity, plans, push, parents, import, rate limits, reports | one table or two each | mostly single guarded statements, or pure readings | see `PROJECT.json` and *Not modelled* |

How they interact. A decision on a ward hands a message to the outbox (`notifyWhatsappParents`), keyed by ward and status. The teacher's own list of students, placing by hand and the discipline module all change the number of students that enrolment counts, and only a deletion or deactivation by the teacher tells enrolment that a seat was freed (`onSeatFreed`); a list replaced as a whole does not, nor does a halaqah that joins. New students and results emit webhooks. A suspension makes the student inactive, which his attendance and the number of students in a halaqah read; an absence runs the ladder, whose events are events of discipline; approving a registration makes the mosque and may open a link. No two registers of the office write the same row: `students.active`, which attendance reads, is written in `Discipline`, and `Attendance` lets it take any value at any time.

What makes each of the modelled components correct: a decided ward is not rewritten and attempts form a chain that ends; only the pupil who was asked answers; a message is sent once unless a human asks again, the caps hold and nothing stays queued; automatic seating never passes a capacity, nobody is seated twice, the line is strict and served in turn, and a freed seat is offered; two runs do not work on one webhook delivery while they keep to their leases, attempts are bounded, a settled delivery stays settled and none starves; a published result keeps its score, no result is lost with a session, nobody is scheduled nowhere, and what is done or withdrawn stays so; a reset code is guessed a bounded number of times and opens once, sessions go with the password; a suspension gives back what it took; parents hear of an absence and of each event of the ladder once; the permit's log is its history; a mosque belongs to an association with the other side's word; a cancelled visit stays cancelled and a done one is complete; the books of a fee agree; recordings of a student stay near their limit and the first review is told once; what a proposal says of itself is true; a mosque is founded by the approval of its application alone; what is on the screen gets marked as read.

`PROJECT.json` lists all components, the hazards at their lines, and the map from definitions to lines.

## 2. Modules

| module | content |
|---|---|
| `Wards` | rows of `ward_logs`, shared |
| `WardReview` | abstract review cycle: what somebody who reads committed rows may see |
| `WardReviewProofs` | its type, the chain and the frozen decision, proved |
| `WardLog` | the handlers, one action per statement that others can see, with the reads of each request in flight |
| `WardLogProofs` | inductive invariant of `WardLog`, and that it implements `WardReview` |
| `WaOutbox` | the outbox and its workers |
| `Enrollment` | registrations, the line, seats, transactions and requests without one |
| `WaitingLine` | abstract line: what it promises to those who stand in it |
| `EnrollmentProofs` | types, the mosque's lock, one student for a registration, the capacity, the line and that it implements `WaitingLine`, the offers of free seats, proved |
| `Webhooks` | endpoints, deliveries, runs and their leases, time |
| `WebhooksProofs` | its types, leases that keep runs apart, attempts and outcomes, proved |
| `Exams` | nominations, sessions, results, requests of several statements |
| `ExamsProofs` | its type and its four action properties, proved |
| `Handlers` | what the ten registers have in common: handlers in flight |
| `TeacherAccount` | codes, the password, sessions |
| `Discipline` | violations, suspensions, dismissals, edits and merged summaries of one student |
| `Attendance` | decisions of one student's days, the ladder of absences, the notices |
| `Permits` | the permit of one halaqah and its log |
| `Affiliation` | one mosque: the decision that founds it (one step here, in full in `Registration`), its links, its association |
| `Visits` | one visit and its scores |
| `Fees` | one fee: its plan, its payments, its waiver |
| `Recitations` | the recordings of one student: uploads with the limit, reviews and their notice |
| `Assistant` | one proposal of the assistant |
| `Registration` | applications of mosques, their decision, and the accounts of administrators |
| `Messenger` | one side of a conversation and its read mark |
| `WaOutboxProofs`, `TeacherAccountProofs`, `OfficeProofs` | proofs for the outbox, the teacher's account, and the other registers with their composition in `MCOffice` |
| `MC*` | the instances TLC checks; `MCOffice` joins the ten registers |

### WardLog
`log` is `ward_logs` by id, `buddy` is `ward_review_buddies` by ward (its key is unique), `nextId` the sequence. `req` holds, for each request in flight, what it has read: `createWardLog` looks up the attempt it follows (`ReadAttempt`) before it inserts (`InsertWard`); `updateWardLog` reads the option, the old content and the buddy's answer, updates (the row is locked from then on, `Locked`) and commits (`BeginEdit`, `LockForEdit`, `CommitEdit`). Handlers of one guarded statement are one action: the guard of the SQL is the guard of the action. A content stands for date, ranges and the one segment of review; notes and names of reviewers are left out. "The newest attempt" is the one with the largest id, which is the order of `created_at` of the inserts. Pupils stay active; replacing the whole list of students is not modelled.

### WaOutbox
`row` is `notifications_outbox` by reference, with the age as a small number of ticks and whether it was created in the current day. A worker passes `swept`, `counted` (the advisory lock is held and the counts are read), `claimed` (committed as queued), `ready`, `answered`, and can die at each. Numbers and the provider are values. `now()` is the time of the transaction's BEGIN; waiting for the lock across midnight is not distinguished, which gives the counts less room and not more. Resending waives the caps by intent of the code; `waived` marks rows whose place was given back.

### Enrollment
`job[w]` is a request: a registration about to be seated, an open transaction (`deciding`, it holds the mosque's row), a placing by hand between its claim and its link, a freed seat on its way to a promotion. An open transaction keeps its writes to itself (`new`, `taken`, `limit`, `allows`) until `Commit`; each registration of a batch re-reads the number of students, as `autoAssignTx` does. A halaqah's criteria are the set of registrations it accepts; features are on, and all happens in one calendar year, because ages, which criteria read, change with it. `joined` says whether a halaqah has a mosque: it may have students and lose some before it joins (`AttachHalaqah`), a seat freed there promotes nobody (`NoPromotion`), and a mosque without halaqahs leaves registrations pending (`PassOver`). What changes the number of students without the lock is in one section: the teacher's additions and deletions, suspensions and dismissals, a summary written back late, and the list of students replaced as a whole (`ReplaceStudents`, `PUT /api/students`). Of these only the teacher's deletion and deactivation (`StudentOut`) go on to `onSeatFreed`; where a seat comes free without it, `SeatForgotten` marks the halaqah in `lost`. `made`, `lost` and `byHand` are history. The import of students is not modelled. `WaitingLine` is what a registrant may expect: its state is who waits and which pairs stand one before the other, and its steps are people who come behind everybody, people who go, and two neighbours who change places. The mapping reads both from the rows: who has the status, and how `sortWaitlist` sorts them.

### Webhooks
`row` is `webhook_outbox` by id, `due` its `next_attempt_at` counted in ticks from now. A run asks for the feature and writes deliveries (`AskFeature`, `Enqueue`), or comes from the cron; then it claims at most `Limit` of what is due, the oldest first (`Claim`: the attempt is counted and `due` moved by `Lease` in one statement), reads the endpoints, and for each delivery reads the feature, posts and writes the outcome by id alone. It can die at each step. `Tick` moves every pending delivery one nearer and marks in `slow` those whose lease ended in the hands of a run. Ages below zero are capped so that their order is kept (`Aged`), since the order is all that `Claim` reads. The receiver answers well, badly or not at all; endpoints are paused and deleted and the feature is switched at any time. The creation of endpoints, signatures and checks of addresses are left out.

### Exams
`nom`, `kept` and `result` are the three tables, `kept` the sessions not deleted. `req` is a recording, a roster or a deletion between two of its statements, none of which is in a transaction. `about` names the nominations a request has read, and `stale`, which no action reads, those of them that somebody else changed since. Foreign keys act: a session's deletion sets `session_id` to NULL (`WithoutSession`) and erases its results, and a write that refers to a session which is gone fails. Committees, dates, error counts and notices are left out, and one type of exam is enough because a roster may not mix types.

### The registers of the office
Each module models one row and what hangs on it, because the rows of two students, mosques, visits or halaqat never meet. A handler is a member of `Workers`; the variable that holds it (`caller`, `recorder`, `teller`, `permitTx`, `linkTx`, `visitor`, `feeJob`, `clerk`, `clicks`, `officer`) keeps what it has read, and each statement that commits is one action. A statement with `WITH` reads in the snapshot of its start and its `UPDATE` waits for the row, so it is two actions (`SeeStudent` and `Suspend`, `SeeDecision` and `WriteDecision`). `FOR UPDATE` is a guard (`PermitUnlocked`, `FeeUnlocked`); where the row is not there yet it locks nothing. A handler can end between any two of its steps.

- `TeacherAccount`: `replaceResetCode` deletes (`DropCodes`) and then inserts (`StoreCode`); `confirmResetCode` counts on every code in time and takes one (`Bump`), compares, burns (`Burn`, `Discard`) and sets (`SetByCode`, `ClearResets`). A password is the number of changes before it. `setSessionCookie` reads the version anew (`Enter`). History: what was compared with a code, what it set, and which codes were stored between its two statements.
- `Discipline`: `violationStepForCount` is `StepFor`. `intent` is what the teacher or the administration decided last; `known` turns false where the code cannot know it (an edit during a suspension, a crossing of a read and a write).
- `Attendance`: days are numbers, the thresholds of the ladder are constants. `Streak` is `absenceStats` by sets: the absences that no other decision and no gap parts from the latest one. `turned` counts days that became absent, `lost` the events whose handler ended before it told.
- `Permits`: `PermitMoves` is the table of `applyPermitAction`; an issue may have read before there was a permit, and overwrites.
- `Affiliation`: `requestMosqueLink` locks the mosque and then the link, `decideLink` the link and then the mosque; where both wait, the database ends one (`AbortLink`).
- `Visits`: `applyVisitAction` reads, replaces the scores in a transaction (`SaveScores`) and writes the row by id (`UpdateVisit`). `alone` and `torn` mark what crossed.
- `Fees`: amounts are numbers up to `MaxAmount`; a payment holds the row, a waiver reads it and asks again in its `UPDATE`.
- `Recitations`: an upload inserts, ranks what it sees (`RankRecitations`, its own row and the committed ones) and commits; a recitation is the number of its upload. A review reads the status in its snapshot (`SeeStatus`) and writes when the row is free (`WriteReview`). `crossed` marks what two reviews read at once, `unsaid` what a handler ended before it told.
- `Assistant`: what the change is and what it depends on is left open (`RefuseChange`, `MakeChange`); a request may end with the proposal claimed (`abandoned`), and one that threw may have made the change.
- `Registration`: `usernameTaken` and the `INSERT` are two steps (`AskUsername`, `Apply`); a decision holds the application's row (`Decidable`). An administrator inserted and not yet committed makes others of that username wait (`AccountOpen`).

### Messenger
Messages are numbered as they are stamped and `last_read_at` is the number stamped by then. `Poll` is `loadThread`: it shows what is new, raises `seenRef` and sends the mark, which arrives (`MarkConversationRead`) or does not (`LoseMark`). `seenRef` is raised before the answer, which is what the finding is about.

## 3. What is checked

| run | instance | shows |
|---|---|---|
| `wards` | one ward of two mates with two contents, and three plain wards of one pupil, two requests | `RequestsOK`, `BuddyAnswersForSelf`, `ChainWellFounded`, `DecidedIsFrozen`, `ResetOutsideRaces`, refinement of `WardReview` |
| `ward_stale_confirmation` | one ward | violated: a confirmation survives a change of content |
| `ward_unapproval` | one ward | violated: a late "seen" undoes an approval |
| `outbox` | two messages of one mosque, two workers, caps of one | `DispatchedOnce`, `MosqueCapKept`, `QueuedSettles` |
| `outbox_resend` | one message | violated: two clicks send twice |
| `outbox_phone_cap` | two mosques, one number | violated: the number's cap is passed |
| `enrollment` | two halaqahs and two registrations, or one halaqah with changing criteria and three registrations; two requests | `PlacedOnce`, `UniqueTurns`, `SeatsOffered`, `AutoKeepsCapacity`, `PromotedInTurn`, refinement of `WaitingLine` |
| `enrollment_idle_seat` | one halaqah, one registration | violated: a seat freed by a suspension, or by a shorter list, stays empty beside one who waits |
| `webhooks` | one endpoint, two deliveries, two runs, two attempts | `LeaseKeepsApart`, `AttemptsBounded`, `SettledIsFinal`, `NobodyStarves` |
| `exams` | two nominations, two sessions, two scores, two requests | `PublishedFrozen`, `GradesKept`, `NoneStranded`, `EndsAreFinal` |
| `office` | ten registers, two handlers each | `TypesOK`, `GuessesCapped`, `CodeOpensOnce`, `OneCodeUnlessCrossed`, `SessionsFollowPassword`, `SuspensionGivesBack`, `AbsenceToldOnce`, `LadderToldOnce`, `LogIsHistory`, `MembershipAgreed`, `DoneIsComplete`, `CancelledIsFinal`, `BooksAgree`, `KeptNearLimit`, `ReviewToldOnce`, `ProposalTruthful`, `FoundedByApproval` |
| `messenger_mark` | two messages | violated: what is on the screen goes on counting as unread after a mark that is lost |

The types of `wards`, `outbox`, `exams`, `enrollment` and `webhooks` are proved (section 4) and not checked by the runs again.

`wards` explores two shapes under one constraint (`OneWardOrPlain`): a single ward with all its buddies, tracks and grades, or up to three wards of one pupil that differ in nothing but their place in the chain, because the chain reads nothing else.

`enrollment` picks one of two desks at the start (`desk`) and stays there: two halaqahs without changes of criteria, where the emptiest is chosen, or one halaqah with a line of three whose criteria change and which may join the mosque late. A behaviour of the line does not depend on a second halaqah that is closed, so both questions fit one run. Seats that are forgotten (suspensions, shorter lists, a halaqah that joins), and requests that die before they fill a seat, belong to the desk of the line: for the choice between two halaqahs they are a student who leaves and a request that never came. A claim whose request dies before it links the student belongs to the desk of two halaqahs. The proofs have no desks.

`office` lets one register move in a behaviour, whichever `desk` picks at the start. The registers share no variable, so a behaviour of all ten breaks a property of one exactly if a behaviour of that one alone does, and the states to explore are the sum of ten spaces and not their product (about 1.8 million). It stops where each register has used its bound, so deadlock is not checked there; handlers are alike, so their symmetry is used. `Affiliation` has the deadlock of two transactions in it as a step of its own: the database ends one.

Bounds. Two requests or workers are enough for every race listed, since each race is between a reader that has gone stale and one writer; the proofs are for any number. Three wards allow an attempt of an attempt, and a deleted one between. Two halaqahs make the choice of the emptiest matter; three registrations make one promoted, one skipped and one left in line. `MaxWards`, `MaxStudents`, `MaxTurn`, `OldAge` and `ManyCalls` bound counters: ids, students added by the teacher, places in line given out, ages and calls that no guard tells apart. A transaction that would pass `MaxTurn` can only be rolled back. Capacities and caps are one, so that one competitor suffices. In `webhooks` a run claims one delivery, and the lease and the delay after the first failure are one tick each, so leases, retries and runs that are too slow all meet; two deliveries make one that waits behind one that fails. In `exams` two sessions let a nomination move from one to the other under a request that read it in the first. In `office` two attempts let a code be exhausted by two forms at once, two codes let requests cross, a ladder of three steps of which the second suspends is climbed past its end by five violations, three days with streaks of one, two and three reach every event of the absence ladder, six entries of the permits' log allow a suspension, a withdrawal and a late issue over it, amounts up to three allow partial payments, four uploads under a limit of two let two of them overtake each other and be dropped later, and two applications for two names, beside a mosque that is there already, let a name be asked for twice, taken while it waits, and decided twice.

Fairness. `WaOutbox`, `Webhooks` and `Messenger` state some. In `WaOutbox` time passes (`Tick`), and the board is opened again and again (`OpenBoard`), which is what runs the sweep. No worker is trusted to take its next step, because a server function may be ended at any time. `QueuedSettles` rests on the sweep alone. In `Webhooks` time passes, a run goes on or ends (the platform bounds the life of a function; whether it dies is free, so it may die each time), and the cron finds a free slot to claim again and again, which needs strong fairness because other requests may hold the slots of the instance in between. No endpoint is trusted to answer and no run to survive: `NobodyStarves` says only that a delivery gets its turn. In `Messenger` the timer of the page goes on while the conversation is open (`Poll`), and a mark that is sent again and again arrives some time (strong fairness of `MarkConversationRead`): the code breaks its promise even then, because it does not send it again.

The six documented promises that the code does not keep are findings in `PROJECT.json`, each with the line that makes the promise, and a run that shows a shortest way to break it. `ResetOutsideRaces`, `MosqueCapKept` and `SeatsOffered` state what does hold in their place, and two theorems go on where a run stops: `ApprovalOutlastsPupil` (an approval ends by a teacher's own note or look; no edit or deletion under way ends it) and `PhoneStaysNearCap` (a number's cap is passed by one message at most for each further mosque that writes to it). The comment over `insertRecitation`, that the limit is never exceeded, is another such promise: concurrent uploads exceed it, and `KeptNearLimit` says by how much, one for each further upload in flight. So is the comment at the head of `execute.ts`, that a failed proposal touches no row: an error thrown after the change marks a proposal failed that was carried out, so `ProposalTruthful` does not say of a failed proposal that nothing was changed, only that nothing was changed twice.

The properties of `Exams`, and those of `Webhooks` that speak of `Slow`, excuse one thing each: a step taken on what a request had read before somebody else changed it, or by a run that outlived its lease. The excuses are windows the code really has, and each property is violated when its excuse is dropped (a result published between the check and the upsert of a recording is given another score; one recorded while its session is deleted is erased; one scheduled in it meanwhile is left with no session; one withdrawn during the recording comes back as done). They are listed as hazards. What the properties show is that there is no other way.

## 4. What is proved

`WardReviewProofs`: in the review cycle types are kept (`TypeCorrect`), attempts form a chain (`ChainCorrect`), a decision freezes its ward (`DecidedFrozen`) and an approval ends only by a teacher (`ApprovalEndedByTeacher`), each for any number of wards and pupils.

`WardLogProofs`: `Invariant` proves the conjunction of `TypeOK`, `RequestsOK` and `BuddyAnswersForSelf` inductive. `RequestsOK` is the strengthening: what a request has read is still good for its use, because ids are never given out twice, and because a locked ward cannot be decided or deleted. From it, `Implementation` proves `Spec => Committed!Spec` with one step per action, and `ChainCorrect`, `DecidedFrozen` and `ApprovalOutlastsPupil` carry the theorems of `WardReview` over to the code's model. `ResetWorksOutsideRaces` takes one step (`ResetStep`): an edit that read the answer that stands and replaces the content asks the buddy again or names another; it rests on `BuddyAnswersForSelf`, because an answer without a pupil behind it would be left alone.

`EnrollmentProofs`, for any number of halaqahs, registrations and requests: types and `TurnIffWaiting` (`TypeCorrect`), one open transaction at most (`LockExclusive`), one student at most for a registration (`StudentMadeOnce`), and that automatic seating respects capacities (`CapacityKept`). The invariant `IInv` is needed because none of these is inductive alone. `SeatsInv` says of the open transaction that the students it has inserted in a halaqah, with those committed, are at most the capacity it saw and those seated by hand since it began; it needs the lock, since a second transaction would commit students the first does not count. `ClaimInv` says that an open transaction writes only registrations nobody has seated, and that a claimed one belongs to one desk and has no student yet; placing by hand takes no lock, so this is all that keeps the two apart.

The line is strict (`TurnsUnique`) and a promotion serves it in turn (`ServedInTurn`). `LineInv` adds to `IInv` that the line will be strict when the open transaction commits, that those it puts in line stand behind all who wait, and that what a promotion has chosen still stands before everybody it passed over, although rows are claimed by hand while it is open. Renumbering (`PlaceGrows`, `PlacesDiffer`) rests on the cardinality of a subset of the registrations. From `LineInv` follows `LineKeepsItsWord`, that `Enrollment` implements `WaitingLine`: a commit is a `Come` or a `Go` (`CommitsComeOrGo`), a move exchanges two neighbours and leaves every other pair as it was (`NeighboursSwap`), and all other steps take rows out of the line or leave it alone (`OthersLeave`).

A freed seat is offered (`SeatsAreOffered`). `SeatsOffered` speaks of committed rows and is not inductive, since a commit may show a free seat that nobody saw: `SeenOffered` says of the open transaction that, where its own view has a free seat and somebody who waits for it, another request is on its way to fill that seat. Candidates are found in that view, so whoever joins the line found no seat, and a promotion fills the seats it sees. The excuse `lost` is set by five events that free a seat and do not call `onSeatFreed` (a suspension, a dismissal, a summary written back after the student it read as inactive had become active, a list replaced by a shorter one, a halaqah that joins with free seats) and by the death of the request that would have promoted; it ends with the next promotion in that halaqah. `OffersKept` says what is needed of every step outside the transactions: nobody enters the line, and a halaqah that loses a student or joins has `lost` set or a request on its way. Features that are switched off, and the turn of the year, which changes who is accepted, are outside the model and so outside the theorem.

`WebhooksProofs`, for any number of endpoints, deliveries and runs, and for every lease, delay, limit and maximum: types (`WebhooksTyped`), two runs that keep to their leases are never at one delivery (`LeaseApart`), attempts (`AttemptsAreBounded`) and outcomes that stay (`SettledStays`). `Leases` ties the three together: while a run is not too slow for what it holds, the delivery is not due, so no claim takes it, and nobody else holds it, so nobody settles it. `LastIsHeld` says that the last attempt is in the hands of a run that knows it is the last, or was lost.

`ExamsProofs`, for any number of nominations, sessions, scores and requests: types and foreign keys (`TypeCorrect`), and the four action properties (`PublishedStaysFrozen`, `GradesStay`, `NobodyStranded`, `EndsStay`). The strengthening is `Sound`: what a request has read of a nomination is still true unless the nomination is marked stale for it. That is not inductive for each handler alone, because every handler changes what the others have read; `Bystander` and `Others` prove once that whoever acts leaves the other requests sound by marking them, so each action has only its own request to answer for. `ResultOf` and `NomOf` then read off what a step without a stale mark can do to one result and one nomination, and `DoneStays` that done is final even for stale steps.

`WaOutboxProofs`, for any number of messages, workers and mosques and for every cap: types (`TypeCorrect`), one automatic call for a message (`OneAutomaticCall`) and the cap of a mosque (`MosqueStaysInCap`). `Jobs` says that whoever has counted for a mosque is alone there until he commits, and that the row he will write is missing. `Calls` follows from it: before the one automatic call there was none, and nobody else is about to make it. `Places` counts: whoever is about to take a place has found one under the cap, and only his own commit adds one (`CommitPlaces`). `Numbers` does the same for a number, whose cap is counted under the lock of one mosque while another counts too: the last to count saw less than the cap, and each further mosque has one place at most that he could not see (`PhoneStaysNearCap`). Every other step writes no new row, so `KeptStep` proves once that such a step keeps the invariant, and each action shows only where its own worker arrives.

`TeacherAccountProofs`, for any number of handlers, codes, guesses and passwords: types (`AccountTyped`), the cap on guesses (`GuessesAreCapped`), one password for a code (`CodeIsUsedOnce`), older codes worthless unless requests crossed (`CodesOutCrossed`) and sessions that go with the password (`SessionsAreCurrent`). The invariant has one part for each: a code in force was compared no oftener than it counted; one handler holds a burnt code that is not used yet; who has deleted the older codes knows of every one in force; a checked password is that of today while its version is.

`OfficeProofs`, for any number of handlers and every value of the bounds: `BooksStayRight` (who holds a fee's row holds it alone and has computed what it will have paid), `SuspensionsGiveBack`, `MembershipStaysAgreed` (who has locked a link knows that it is pending, who has locked the mosque knows whose it is not), `DoneVisitsAreComplete` and `CancelledStaysFinal` (what a handler that is alone has read is still so), `AbsencesToldOnce` and `LadderIsToldOnce` (only a handler that inserts has inserted, and the numbers of those who have something to tell change by one), `LogStaysHistory` (who has read a permit is alone with it; who found none writes a first issue, which starts the count anew), `ProposalsAreTruthful` (one request at most executes; before it carried out nothing was, after it once), `MosquesFoundedByApproval` (who has locked an application holds it alone and it is pending; a username whose account is being founded has none) and `ReviewsToldOnce` (a recitation that nobody crossed has one reviewer, whose reading still holds). `RecordingsStayNear`, for every limit and any number of uploads: an upload drops what it ranks beyond the limit, but others may have ranked the same rows in any order and commit in another, so no count of rows alone is inductive. `NearInv` orders the uploads by the moment they ranked (`Ranking`): only those that ranked before the last one committed can bring back what it dropped, each of them one row, and what would be left if an upload committed now is bounded by those before it.

The composition `MCOffice` is proved too: a behaviour of the office is a behaviour of each register (`OfficeIsItsRegisters`, by `DeskStep`), so the types (`OfficeTyped`) and every property of the registers (`OfficeKeepsItsWord`) hold of it.

Assumptions are the named ASSUMEs of the modules: bounds are numbers, NULLs are not values, workers and messages are finitely many where they are counted.

Only model-checked: `QueuedSettles` and `NobodyStarves`, which are liveness under fairness and out of the prover's reach. All other properties of the passing runs are proved. The promises that runs refute have no theorems, but for what remains of them.

## 5. Plan

1. Ward review cycle with buddies, proofs of its invariants and refinement: done.
2. WhatsApp outbox: done, with proofs of all its safety properties.
3. Enrolment: done but for the import, with proofs of all its safety properties and of the refinement of the abstract line.
4. Webhooks: done, with proofs of all its safety properties.
5. Exams: done with proofs of all its properties but for certificates, committees and notices. An abstract specification of a published result, which only its stale recordings break, follows.
6. The registers of the office: done, with proofs of all their properties and of their composition. What they leave out is named in the components' notes.
7. A composition of `WardLog` and `WaOutbox`: one message for each decision, which would decide whether the reference by ward and status is enough.
8. Recitations, registration of mosques, proposals of the assistant, the read mark of a conversation: done. The queue of a session, the monthly sheet of discipline, and the sign-in by Google over an account that never confirmed its address, would be further registers.

## 6. Not modelled

User interface, reports, charts and archive are derived readings of the tables and hold no state that the server relies on; they are most of the lines. The assistant's conversation depends on an external language model; what it proposes is modelled. Push is best effort by intent, and of messaging the read mark is modelled, the rest being single inserts and readings. Student identity and pairing are pure functions of what was read, plans and schedules arithmetic of the calendar; import is parsing. The components left of the tables (parents, teacher evaluation, the registration of associations, case files) are in the main single guarded statements without a reader that can go stale, and follow as the plan says. Developer tools and the prototype are not part of the service.
