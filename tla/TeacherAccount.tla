---------------------------- MODULE TeacherAccount ----------------------------
(***************************************************************************)
(* A teacher's password and what may change it: the six-digit code sent by  *)
(* mail (lib/reset-code.ts), the older reset link (api/auth/reset-password), *)
(* the change from inside the account (lib/password-change.ts), and the     *)
(* sessions that hang on it (lib/auth.ts).  Accounts share no row, so one   *)
(* account is the whole model.                                              *)
(*                                                                          *)
(* Every statement commits by itself; a handler is a job of a worker, and   *)
(* between two of its steps any other handler runs, or it dies.             *)
(*                                                                          *)
(* A password is the number of changes before it; a code is its row's id.   *)
(* Rate limits are left out: they only refuse requests, and let them pass   *)
(* when they cannot be read.                                                *)
(***************************************************************************)
EXTENDS Handlers, Naturals

CONSTANTS
  MaxAttempts,  \* MAX_ATTEMPTS
  MaxCodes,     \* bound: codes ever stored
  MaxVersion    \* bound: no handler that would raise session_version further starts

ASSUME AccountAssumption ==
  /\ MaxAttempts \in Nat \ {0}
  /\ MaxCodes \in Nat
  /\ MaxVersion \in Nat

VARIABLES
  account,   \* the row of teachers: password, session_version, active
  code,      \* password_resets of kind 'code', by id
  link,      \* an older reset link is out: password_resets of kind 'link'
  session,   \* cookies that currentTeacher would accept while the teacher is active
  caller     \* what each worker is doing

accountVars == <<account, code, link, session, caller>>

Codes == 1..MaxCodes
NoCode == 0

\* `rivals`, `tried` and `used` are history: the codes that were stored between
\* this one's DELETE and its INSERT, the guesses compared with it, and the
\* passwords set by it.
CodeRow == [state : {"absent", "live", "gone"}, expired : BOOLEAN, attempts : Nat,
            rivals : SUBSET Codes, tried : Nat, used : Nat]

NoRow == [state |-> "absent", expired |-> FALSE, attempts |-> 0, rivals |-> {},
          tried |-> 0, used |-> 0]

\* Nothing reads the rest of a row that was deleted
Gone(row) == [NoRow EXCEPT !.state = "gone", !.tried = row.tried, !.used = row.used]

\* `checked` is history: the version of the row on which the session's password was
\* read or set; `version` is the one in its cookie.
Session == [password : Nat, checked : Nat, version : Nat]

CallerPc == {"idle", "asked", "dropped", "guessing", "exhausted", "matched", "burnt",
       "set", "linked", "current", "entering"}

Caller == [pc : CallerPc, row : Codes \union {NoCode}, rivals : SUBSET Codes,
         password : Nat, checked : Nat]

NoCaller == [pc |-> "idle", row |-> NoCode, rivals |-> {}, password |-> 0, checked |-> 0]

Proceed(w, pc) == caller' = [caller EXCEPT ![w].pc = pc]
Hangup(w) == caller' = [caller EXCEPT ![w] = NoCaller]

LiveCodes == {c \in Codes : code[c].state = "live"}
StoredCodes == {c \in Codes : code[c].state # "absent"}

\* expires_at > now
InTime == {c \in LiveCodes : ~code[c].expired}

AccountInit ==
  /\ account = [password |-> 0, version |-> 0, active |-> TRUE]
  /\ code = [c \in Codes |-> NoRow]
  /\ link = TRUE
  /\ session = {}
  /\ caller = [w \in Workers |-> NoCaller]

-----------------------------------------------------------------------------
(* A new version of the sessions: currentTeacher accepts no cookie that was  *)
(* signed for another.                                                       *)

StillAccepted(v) == {s \in session : s.version = v}

\* Mutant: a new password, and the sessions stay.
SetPasswordOnly ==
  /\ account' = [account EXCEPT !.password = @ + 1]
  /\ UNCHANGED session

\* The UPDATE of setTeacherPasswordViaReset and of updateTeacherPassword
SetPassword ==
  /\ account' = [account EXCEPT !.password = @ + 1, !.version = @ + 1]
  /\ session' = StillAccepted(account.version + 1)

CallerReady(w) == caller[w].pc = "idle"
MayRaise == account.version < MaxVersion   \* the bound

-----------------------------------------------------------------------------
(* requestResetCode                                                          *)

\* findTeacher; an unknown or inactive account gets the same answer and no code
AskCode(w) ==
  /\ CallerReady(w)
  /\ account.active
  /\ Proceed(w, "asked")
  /\ UNCHANGED <<account, code, link, session>>

\* Mutant: older codes are left to expire.
DroppedLater == {c \in LiveCodes : code[c].expired}

\* DELETE ... WHERE teacher_id AND kind = 'code'
Dropped == LiveCodes

\* replaceResetCode, its DELETE
DropCodes(w) ==
  /\ caller[w].pc = "asked"
  /\ code' = [c \in Codes |-> IF c \in Dropped THEN Gone(code[c]) ELSE code[c]]
  /\ caller' = [caller EXCEPT ![w] = [NoCaller EXCEPT !.pc = "dropped"]]
  /\ UNCHANGED <<account, link, session>>

\* replaceResetCode, its INSERT, and the mail
StoreCode(w) ==
  /\ caller[w].pc = "dropped"
  /\ \E c \in Codes :
       /\ c \notin StoredCodes /\ \A d \in Codes : d < c => d \in StoredCodes
       /\ code' = [code EXCEPT ![c] = [NoRow EXCEPT !.state = "live", !.rivals = caller[w].rivals]]
       /\ caller' = [v \in Workers |->
            IF v = w THEN NoCaller
            ELSE IF caller[v].pc = "dropped" THEN [caller[v] EXCEPT !.rivals = @ \union {c}]
            ELSE caller[v]]
  /\ UNCHANGED <<account, link, session>>

\* Ten minutes pass
Expire(c) ==
  /\ c \in InTime
  /\ code' = [code EXCEPT ![c].expired = TRUE]
  /\ UNCHANGED <<account, link, session, caller>>

-----------------------------------------------------------------------------
(* confirmResetCode                                                          *)

\* The form names an active account; `row` is the code it holds, NoCode a slip
\* that no code equals.
Guess(w) ==
  /\ CallerReady(w) /\ MayRaise
  /\ account.active
  /\ \E c \in StoredCodes \union {NoCode} :
       caller' = [caller EXCEPT ![w] = [NoCaller EXCEPT !.pc = "guessing", !.row = c]]
  /\ UNCHANGED <<account, code, link, session>>

\* Mutant: the count is not looked at before the comparison.
OverLimitIgnored(n) == FALSE

\* row.attempts > MAX_ATTEMPTS; the counter is kept one above the limit
OverLimit(n) == n > MaxAttempts
Bumped(n) == IF OverLimit(n) THEN n ELSE n + 1

\* A wrong guess that was the last one
LastGuess(n) == n >= MaxAttempts

\* What the comparison with code r leaves to do
Verdict(r, guess) ==
  LET n == Bumped(code[r].attempts)
  IN  IF OverLimit(n) \/ (guess # r /\ LastGuess(n)) THEN "exhausted"
      ELSE IF guess = r THEN "matched" ELSE "idle"

Tried(c, r) == IF c = r /\ ~OverLimit(Bumped(code[c].attempts)) THEN code[c].tried + 1 ELSE code[c].tried

\* bumpAttempt counts on every row in time and returns one; then the comparison
Bump(w) ==
  /\ caller[w].pc = "guessing"
  /\ \E r \in InTime :
       /\ code' = [c \in Codes |->
            IF c \notin InTime THEN code[c]
            ELSE [code[c] EXCEPT !.attempts = Bumped(code[c].attempts), !.tried = Tried(c, r)]]
       /\ caller' = [caller EXCEPT ![w] =
            IF Verdict(r, caller[w].row) = "idle" THEN NoCaller
            ELSE [NoCaller EXCEPT !.pc = Verdict(r, caller[w].row), !.row = r]]
  /\ UNCHANGED <<account, link, session>>

\* No code in time: refused
NoCodeOut(w) ==
  /\ caller[w].pc = "guessing"
  /\ InTime = {}
  /\ Hangup(w)
  /\ UNCHANGED <<account, code, link, session>>

Burnt(c) == [code EXCEPT ![c] = Gone(code[c])]

\* burn of a code whose guesses are spent; nobody looks at its result
Discard(w) ==
  /\ caller[w].pc = "exhausted"
  /\ code' = Burnt(caller[w].row)
  /\ Hangup(w)
  /\ UNCHANGED <<account, link, session>>

\* Mutant: the result of burn is not looked at.
BurnsAnyway(c) == TRUE

\* DELETE ... RETURNING: true only for the one who deleted the row
Burns(c) == c \in LiveCodes

Burn(w) ==
  /\ caller[w].pc = "matched"
  /\ code' = Burnt(caller[w].row)
  /\ IF Burns(caller[w].row) THEN Proceed(w, "burnt") ELSE Hangup(w)
  /\ UNCHANGED <<account, link, session>>

\* setTeacherPasswordViaReset, its UPDATE
SetByCode(w) ==
  /\ caller[w].pc = "burnt"
  /\ SetPassword
  /\ code' = [code EXCEPT ![caller[w].row].used = @ + 1]
  /\ caller' = [caller EXCEPT ![w] = [NoCaller EXCEPT !.pc = "set", !.password = account'.password,
                                              !.checked = account'.version]]
  /\ UNCHANGED link

\* setTeacherPasswordViaReset, its DELETE of every code and link
ClearResets(w) ==
  /\ caller[w].pc = "set"
  /\ code' = [c \in Codes |-> IF c \in LiveCodes THEN Gone(code[c]) ELSE code[c]]
  /\ link' = FALSE
  /\ Proceed(w, "entering")
  /\ UNCHANGED <<account, session>>

-----------------------------------------------------------------------------
(* The link, the change from inside, the end of sessions, and entering       *)

\* consumePasswordReset deletes the link while it is valid
UseLink(w) ==
  /\ CallerReady(w) /\ MayRaise
  /\ link
  /\ link' = FALSE
  /\ Proceed(w, "linked")
  /\ UNCHANGED <<account, code, session>>

\* updateTeacherPassword; the link opens no session
SetByLink(w) ==
  /\ caller[w].pc = "linked"
  /\ SetPassword
  /\ Hangup(w)
  /\ UNCHANGED <<code, link>>

\* api/auth/login and handlePasswordChange read the row and verify the password; the
\* latter for a session
CheckPassword(w) ==
  /\ CallerReady(w)
  /\ account.active
  /\ \E pc \in {"entering"} \union (IF session # {} /\ MayRaise THEN {"current"} ELSE {}) :
       caller' = [caller EXCEPT ![w] = [NoCaller EXCEPT !.pc = pc, !.password = account.password,
                                                !.checked = account.version]]
  /\ UNCHANGED <<account, code, link, session>>

\* updateTeacherPassword by handlePasswordChange
SetByOwner(w) ==
  /\ caller[w].pc = "current"
  /\ SetPassword
  /\ caller' = [caller EXCEPT ![w] = [NoCaller EXCEPT !.pc = "entering",
                                              !.password = account'.password,
                                              !.checked = account'.version]]
  /\ UNCHANGED <<code, link>>

\* setSessionCookie reads the version anew and signs it
Enter(w) ==
  /\ caller[w].pc = "entering"
  /\ session' = session \union {[password |-> caller[w].password, checked |-> caller[w].checked,
                                 version |-> account.version]}
  /\ Hangup(w)
  /\ UNCHANGED <<account, code, link>>

\* bumpTeacherSessionVersion (logout-all, revoke-sessions) and setAssistantActive
EndSessions ==
  /\ MayRaise
  /\ \E active \in {account.active, FALSE} :
       account' = [account EXCEPT !.version = @ + 1, !.active = active]
  /\ session' = StillAccepted(account.version + 1)
  /\ UNCHANGED <<code, link, caller>>

Activate ==
  /\ ~account.active
  /\ account' = [account EXCEPT !.active = TRUE]
  /\ UNCHANGED <<code, link, session, caller>>

\* The process ends; what it has committed stays
CallerDies(w) ==
  /\ caller[w].pc # "idle"
  /\ Hangup(w)
  /\ UNCHANGED <<account, code, link, session>>

AccountNext ==
  \/ \E w \in Workers :
       \/ AskCode(w) \/ DropCodes(w) \/ StoreCode(w)
       \/ Guess(w) \/ Bump(w) \/ NoCodeOut(w) \/ Discard(w) \/ Burn(w)
       \/ SetByCode(w) \/ ClearResets(w)
       \/ UseLink(w) \/ SetByLink(w) \/ CheckPassword(w) \/ SetByOwner(w) \/ Enter(w)
       \/ CallerDies(w)
  \/ \E c \in Codes : Expire(c)
  \/ EndSessions \/ Activate

AccountSpec == AccountInit /\ [][AccountNext]_accountVars

-----------------------------------------------------------------------------
(* Properties                                                                *)

AccountTypeOK ==
  /\ account \in [password : Nat, version : Nat, active : BOOLEAN]
  /\ code \in [Codes -> CodeRow]
  /\ link \in BOOLEAN
  /\ session \subseteq Session
  /\ caller \in [Workers -> Caller]

\* At most MAX_ATTEMPTS guesses are ever compared with a code, however many forms
\* arrive at once and whichever of them die before they burn it (confirmResetCode,
\* reset-code.ts 107-119).
GuessesCapped == \A c \in Codes : code[c].tried <= MaxAttempts

\* A code sets one password at most, though the row is read, burnt and used in
\* three statements (reset-code.ts 121-123).
CodeOpensOnce == \A c \in Codes : code[c].used <= 1

\* A new code makes the older ones worthless, unless the two requests crossed: of two
\* codes that are out, one was stored while the request of the other stood between
\* its DELETE and its INSERT (replaceResetCode, db.ts 557-563).
OneCodeUnlessCrossed ==
  \A c, d \in LiveCodes : c < d => c \in code[d].rivals

\* Whoever is let in was let in by the password of today, unless the version was
\* raised between the check of his password and the signing of his cookie
\* (setSessionCookie reads the version anew, auth.ts 86-94).
SessionsFollowPassword ==
  \A s \in session : s.checked = s.version => s.password = account.password

=============================================================================
