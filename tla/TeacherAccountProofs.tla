-------------------------- MODULE TeacherAccountProofs --------------------------
(***************************************************************************)
(* What holds of a teacher's account for any number of handlers, codes,     *)
(* guesses and changes of the password.                                     *)
(*                                                                          *)
(* The invariant has a part for each promise, and each part ties what a     *)
(* handler holds to the rows: a code is guessed no oftener than it counted, *)
(* only the one who deleted it goes on to use it, a request that deleted    *)
(* the older codes knows of every code stored since, and a checked password *)
(* is today's while its version is.                                         *)
(***************************************************************************)
EXTENDS TeacherAccount, TLAPS

\* A code in force was compared with no oftener than it counted.
Counted ==
  \A c \in Codes :
    /\ code[c].tried <= MaxAttempts
    /\ code[c].state = "live" => code[c].tried <= code[c].attempts

HoldsBurnt(w) == caller[w].pc = "burnt"

\* One handler holds a code that is burnt and not used yet.
Opened ==
  /\ \A c \in Codes : code[c].used <= 1 /\ (code[c].state # "gone" => code[c].used = 0)
  /\ \A w \in Workers : HoldsBurnt(w) =>
       /\ caller[w].row \in Codes
       /\ code[caller[w].row].state = "gone" /\ code[caller[w].row].used = 0
  /\ \A v, w \in Workers : HoldsBurnt(v) /\ HoldsBurnt(w) /\ caller[v].row = caller[w].row => v = w

\* Codes are stored in the order of their ids, and who has deleted the older ones
\* knows of those in force.
Ordered ==
  /\ \A c, d \in Codes : d < c /\ code[c].state # "absent" => code[d].state # "absent"
  /\ \A w \in Workers : caller[w].pc = "dropped" =>
       \A c \in Codes : code[c].state = "live" => c \in caller[w].rivals
  /\ \A c, d \in Codes : c < d /\ code[c].state = "live" /\ code[d].state = "live" => c \in code[d].rivals

\* A code whose comparison is over was stored.
Held == \A w \in Workers : caller[w].pc \in {"exhausted", "matched"} => caller[w].row \in StoredCodes

Checked(w) == caller[w].pc \in {"set", "current", "entering"}

\* A session is of the version of today; a checked password is today's while its version is.
Current ==
  /\ \A s \in session :
       s.version = account.version /\ (s.checked = s.version => s.password = account.password)
  /\ \A w \in Workers : Checked(w) =>
       /\ caller[w].checked <= account.version
       /\ caller[w].checked = account.version => caller[w].password = account.password

AccountInv == AccountTypeOK /\ Counted /\ Opened /\ Ordered /\ Held /\ Current

-----------------------------------------------------------------------------
(* The beginning                                                            *)

\* The invariant holds at the start.
LEMMA AccountInitInv == AccountInit => AccountInv
<1> SUFFICES ASSUME AccountInit PROVE AccountInv
  OBVIOUS
<1>1. AccountTypeOK
  BY AccountAssumption DEF AccountInit, AccountTypeOK, CodeRow, NoRow, Session, Caller, CallerPc, NoCaller, Codes, NoCode
<1>2. Counted /\ Opened /\ Ordered /\ Held /\ Current
  BY AccountAssumption DEF AccountInit, Counted, Opened, Ordered, Held, Current, HoldsBurnt, Checked, NoRow, NoCaller
<1> QED
  BY <1>1, <1>2 DEF AccountInv

-----------------------------------------------------------------------------
(* Steps                                                                    *)

\* A row of a code is a record of its fields.
LEMMA CodeTyped ==
  ASSUME AccountTypeOK, NEW c \in Codes
  PROVE  /\ code[c] \in CodeRow /\ Gone(code[c]) \in CodeRow
         /\ Gone(code[c]).state = "gone" /\ Gone(code[c]).tried = code[c].tried
         /\ Gone(code[c]).used = code[c].used
  BY DEF AccountTypeOK, CodeRow, Gone, NoRow

\* The other callers are as they were.
LEMMA OneCaller ==
  ASSUME AccountTypeOK, NEW w \in Workers, NEW q, caller' = [caller EXCEPT ![w] = q]
  PROVE  caller'[w] = q /\ \A v \in Workers : v # w => caller'[v] = caller[v]
  BY DEF AccountTypeOK

\* The DELETE of replaceResetCode leaves nothing in force.
LEMMA DropInv == ASSUME AccountInv, NEW w \in Workers, DropCodes(w) PROVE AccountInv'
<1> PICK q : q = [NoCaller EXCEPT !.pc = "dropped"]
  OBVIOUS
<1>1. caller' = [caller EXCEPT ![w] = q] /\ q \in Caller /\ q.pc = "dropped" /\ q.rivals = {}
  BY DEF DropCodes, NoCaller, Caller, CallerPc, Codes, NoCode
<1>2. caller'[w] = q /\ \A v \in Workers : v # w => caller'[v] = caller[v]
  BY <1>1, OneCaller DEF AccountInv
<1>3. \A c \in Codes :
        /\ code'[c] \in CodeRow /\ code'[c].tried = code[c].tried /\ code'[c].used = code[c].used
        /\ code'[c].state # "live"
        /\ (code'[c].state = "absent") = (code[c].state = "absent")
        /\ code[c].state = "gone" => code'[c].state = "gone"
  BY CodeTyped DEF AccountInv, DropCodes, Dropped, LiveCodes, CodeRow
<1>4. code' \in [Codes -> CodeRow]
  BY <1>3 DEF DropCodes
<1>5. AccountTypeOK'
  BY <1>1, <1>4 DEF AccountInv, AccountTypeOK, DropCodes
<1>6. Counted' /\ Opened'
  BY <1>1, <1>2, <1>3 DEF AccountInv, Counted, Opened, HoldsBurnt, Codes
<1>7. Ordered' /\ Held'
  BY <1>1, <1>2, <1>3 DEF AccountInv, Ordered, Held, StoredCodes, Codes
<1>8. Current'
  BY <1>1, <1>2 DEF AccountInv, Current, Checked, DropCodes
<1> QED
  BY <1>5, <1>6, <1>7, <1>8 DEF AccountInv

\* The INSERT of replaceResetCode: those who deleted the older codes meanwhile hear of it.
LEMMA StoreInv == ASSUME AccountInv, NEW w \in Workers, StoreCode(w) PROVE AccountInv'
<1> PICK c \in Codes :
      /\ c \notin StoredCodes /\ \A d \in Codes : d < c => d \in StoredCodes
      /\ code' = [code EXCEPT ![c] = [NoRow EXCEPT !.state = "live", !.rivals = caller[w].rivals]]
      /\ caller' = [v \in Workers |->
           IF v = w THEN NoCaller
           ELSE IF caller[v].pc = "dropped" THEN [caller[v] EXCEPT !.rivals = @ \union {c}]
           ELSE caller[v]]
  BY DEF StoreCode
<1> PICK row : row = [NoRow EXCEPT !.state = "live", !.rivals = caller[w].rivals]
  OBVIOUS
<1>1. /\ row \in CodeRow /\ row.state = "live" /\ row.rivals = caller[w].rivals
      /\ row.tried = 0 /\ row.attempts = 0 /\ row.used = 0
  BY DEF AccountInv, AccountTypeOK, CodeRow, NoRow, Caller
<1>2. code'[c] = row /\ (\A d \in Codes : d # c => code'[d] = code[d]) /\ code' \in [Codes -> CodeRow]
  BY <1>1 DEF AccountInv, AccountTypeOK
<1>3. \A v \in Workers :
        /\ caller'[v] \in Caller
        /\ caller'[v].pc = IF v = w THEN "idle" ELSE caller[v].pc
        /\ v # w => /\ caller'[v].row = caller[v].row /\ caller'[v].password = caller[v].password
                    /\ caller'[v].checked = caller[v].checked
                    /\ caller[v].rivals \subseteq caller'[v].rivals
                    /\ caller[v].pc = "dropped" => c \in caller'[v].rivals
  BY DEF AccountInv, AccountTypeOK, Caller, CallerPc, NoCaller, NoCode
<1>4. AccountTypeOK'
  BY <1>2, <1>3 DEF AccountInv, AccountTypeOK, StoreCode
<1>5. code[c].state = "absent" /\ caller[w].pc = "dropped"
  BY DEF StoredCodes, StoreCode
<1>6. Counted'
  BY <1>1, <1>2, AccountAssumption DEF AccountInv, Counted, Codes
<1>7. Opened'
  <2>1. \A v \in Workers : HoldsBurnt(v)' => v # w /\ HoldsBurnt(v) /\ caller'[v].row = caller[v].row
    BY <1>3 DEF HoldsBurnt
  <2>2. \A d \in Codes : code'[d].used <= 1 /\ (code'[d].state # "gone" => code'[d].used = 0)
    BY <1>1, <1>2 DEF AccountInv, Opened
  <2>3. \A v \in Workers : HoldsBurnt(v)' =>
          /\ caller'[v].row \in Codes
          /\ code'[caller'[v].row].state = "gone" /\ code'[caller'[v].row].used = 0
    BY <1>2, <1>5, <2>1 DEF AccountInv, Opened
  <2>4. \A u, v \in Workers : HoldsBurnt(u)' /\ HoldsBurnt(v)' /\ caller'[u].row = caller'[v].row => u = v
    BY <2>1 DEF AccountInv, Opened
  <2> QED
    BY <2>2, <2>3, <2>4 DEF Opened, Codes
<1>8. \A d, e \in Codes : d < e /\ code'[e].state # "absent" => code'[d].state # "absent"
  BY <1>1, <1>2 DEF AccountInv, Ordered, StoredCodes, Codes
<1>9. \A v \in Workers : caller'[v].pc = "dropped" =>
        \A d \in Codes : code'[d].state = "live" => d \in caller'[v].rivals
  BY <1>1, <1>2, <1>3 DEF AccountInv, Ordered
<1>10. \A d, e \in Codes : d < e /\ code'[d].state = "live" /\ code'[e].state = "live"
                             => d \in code'[e].rivals
  <2>1. \A e \in Codes : c < e => code[e].state = "absent"
    BY <1>5 DEF AccountInv, Ordered
  <2>2. \A d \in Codes : ~(d < d)
    BY DEF Codes
  <2> QED
    BY <1>1, <1>2, <1>5, <2>1, <2>2 DEF AccountInv, Ordered
<1>11. Current'
  <2>1. \A v \in Workers : Checked(v)' =>
          Checked(v) /\ caller'[v].checked = caller[v].checked /\ caller'[v].password = caller[v].password
    BY <1>3 DEF Checked
  <2>2. UNCHANGED <<account, session>>
    BY DEF StoreCode
  <2> QED
    BY <2>1, <2>2 DEF AccountInv, Current
<1>12. Held'
  <2>1. StoredCodes \subseteq StoredCodes'
    BY <1>1, <1>2 DEF StoredCodes
  <2>2. \A v \in Workers : caller'[v].pc \in {"exhausted", "matched"} =>
          caller[v].pc = caller'[v].pc /\ caller'[v].row = caller[v].row
    BY <1>3
  <2> QED
    BY <2>1, <2>2 DEF AccountInv, Held
<1> QED
  BY <1>4, <1>6, <1>7, <1>8, <1>9, <1>10, <1>11, <1>12 DEF AccountInv, Ordered

\* No code is stored or used, none comes back into force, and nobody newly holds a burnt
\* code or has deleted the older ones: what remains to show is the count and the passwords.
LEMMA RowsStep ==
  ASSUME AccountInv, AccountTypeOK', Counted', Current',
         \A c \in Codes :
           /\ code'[c].used = code[c].used
           /\ (code'[c].state = "absent") = (code[c].state = "absent")
           /\ code[c].state = "gone" => code'[c].state = "gone"
           /\ code'[c].state = "live" => code[c].state = "live" /\ code'[c].rivals = code[c].rivals,
         \A v \in Workers :
           /\ caller'[v].pc \in {"burnt", "dropped"} => caller'[v] = caller[v]
           /\ caller'[v].pc \in {"exhausted", "matched"} => caller'[v].row \in StoredCodes
  PROVE  AccountInv'
<1>1. Opened'
  BY DEF AccountInv, AccountTypeOK, Opened, HoldsBurnt, CodeRow
<1>2. Ordered'
  BY DEF AccountInv, Ordered
<1>3. Held'
  BY DEF AccountInv, Held, StoredCodes
<1> QED
  BY <1>1, <1>2, <1>3 DEF AccountInv

\* What a handler may be given without more ado.
Plain(q) == q \in Caller /\ q.pc \notin {"burnt", "dropped", "exhausted", "matched"}

\* A step of one handler that leaves the codes alone.
LEMMA PlainStep ==
  ASSUME AccountInv, NEW w \in Workers, NEW q, Plain(q), caller' = [caller EXCEPT ![w] = q],
         UNCHANGED code, Current', link' \in BOOLEAN, session' \subseteq Session,
         account' \in [password : Nat, version : Nat, active : BOOLEAN]
  PROVE  AccountInv'
<1>1. AccountTypeOK'
  BY DEF AccountInv, AccountTypeOK, Plain
<1>2. Counted'
  BY DEF AccountInv, Counted, Codes
<1>3. \A v \in Workers :
        /\ caller'[v].pc \in {"burnt", "dropped"} => caller'[v] = caller[v]
        /\ caller'[v].pc \in {"exhausted", "matched"} => caller'[v].row \in StoredCodes
  BY OneCaller DEF AccountInv, Held, Plain
<1> QED
  BY <1>1, <1>2, <1>3, RowsStep

\* Without a change to the account or the sessions, a password that nobody has newly
\* checked stays true.
LEMMA SamePassword ==
  ASSUME AccountInv, NEW w \in Workers, NEW q, caller' = [caller EXCEPT ![w] = q],
         UNCHANGED <<account, session>>,
         \/ q.pc \notin {"set", "current", "entering"}
         \/ Checked(w) /\ q.checked = caller[w].checked /\ q.password = caller[w].password
         \/ q.checked = account.version /\ q.password = account.password
  PROVE  Current'
<1>1. caller'[w] = q /\ \A v \in Workers : v # w => caller'[v] = caller[v]
  BY OneCaller DEF AccountInv
<1>2. account.version \in Nat
  BY DEF AccountInv, AccountTypeOK
<1> QED
  BY <1>1, <1>2 DEF AccountInv, Current, Checked

\* A new password raises the version with it.
LEMMA NewAccount ==
  ASSUME AccountTypeOK, SetPassword
  PROVE  /\ account' \in [password : Nat, version : Nat, active : BOOLEAN]
         /\ account'.version = account.version + 1 /\ account.version \in Nat
         /\ account'.password \in Nat /\ account'.version \in Nat
<1>1. account \in [password : Nat, version : Nat, active : BOOLEAN]
  BY DEF AccountTypeOK
<1> PICK p \in Nat, n \in Nat : p = account.password + 1 /\ n = account.version + 1
  BY <1>1
<1>2. account' = [account EXCEPT !.password = p, !.version = n]
  BY DEF SetPassword
<1>3. account'.password = p /\ account'.version = n
  BY <1>1, <1>2
<1>4. account' \in [password : Nat, version : Nat, active : BOOLEAN]
  BY <1>1, <1>2
<1> QED
  BY <1>1, <1>3, <1>4

\* A new password ends every session, and what was checked before is of an older version.
LEMMA NewPassword ==
  ASSUME AccountInv, SetPassword, NEW w \in Workers, NEW q, q \in Caller,
         caller' = [caller EXCEPT ![w] = q],
         \/ q.pc \notin {"set", "current", "entering"}
         \/ q.checked = account'.version /\ q.password = account'.password
  PROVE  /\ Current' /\ session' \subseteq Session
         /\ account' \in [password : Nat, version : Nat, active : BOOLEAN]
<1>1. caller'[w] = q /\ \A v \in Workers : v # w => caller'[v] = caller[v]
  BY OneCaller DEF AccountInv
<1>2. /\ account' \in [password : Nat, version : Nat, active : BOOLEAN]
      /\ account'.version = account.version + 1 /\ account.version \in Nat
  BY NewAccount DEF AccountInv
<1>3. session' = {}
  BY <1>2 DEF AccountInv, Current, SetPassword, StillAccepted
<1>4. \A v \in Workers : v # w /\ Checked(v)' =>
        caller'[v].checked <= account.version /\ caller'[v].checked \in Nat
  BY <1>1 DEF AccountInv, AccountTypeOK, Caller, Current, Checked
<1>5. Checked(w)' => caller'[w].checked = account'.version /\ caller'[w].password = account'.password
  BY <1>1 DEF Checked
<1> QED
  BY <1>2, <1>3, <1>4, <1>5 DEF Current

\* Time passes.
LEMMA ExpireInv == ASSUME AccountInv, NEW c \in Codes, Expire(c) PROVE AccountInv'
<1>1. code \in [Codes -> CodeRow] /\ code' = [code EXCEPT ![c].expired = TRUE]
  BY DEF AccountInv, AccountTypeOK, Expire
<1>2. code'[c] = [code[c] EXCEPT !.expired = TRUE] /\ \A d \in Codes : d # c => code'[d] = code[d]
  BY <1>1
<1>3. /\ code'[c] \in CodeRow
      /\ code'[c].state = code[c].state /\ code'[c].tried = code[c].tried
      /\ code'[c].used = code[c].used /\ code'[c].rivals = code[c].rivals
      /\ code'[c].attempts = code[c].attempts
  <2>1. code[c] \in CodeRow
    BY <1>1
  <2> QED
    BY <1>2, <2>1 DEF CodeRow
<1>4. code' \in [Codes -> CodeRow]
  BY <1>1, <1>2, <1>3
<1>5. AccountTypeOK' /\ Counted' /\ Current'
  BY <1>2, <1>3, <1>4 DEF Expire, AccountInv, AccountTypeOK, Counted, Current, Checked
<1> QED
  BY <1>2, <1>3, <1>5, RowsStep DEF Expire, AccountInv, Held

\* The counter goes up by one until it is above the limit.
LEMMA BumpedCounts ==
  ASSUME NEW n \in Nat
  PROVE  /\ Bumped(n) \in Nat /\ n <= Bumped(n)
         /\ ~OverLimit(Bumped(n)) => Bumped(n) = n + 1 /\ Bumped(n) <= MaxAttempts
  BY AccountAssumption DEF Bumped, OverLimit

\* A guess is counted before it is compared, and only up to the limit.
LEMMA BumpInv == ASSUME AccountInv, NEW w \in Workers, Bump(w) PROVE AccountInv'
<1>0. PICK r \in InTime :
      /\ code' = [c \in Codes |->
           IF c \notin InTime THEN code[c]
           ELSE [code[c] EXCEPT !.attempts = Bumped(code[c].attempts), !.tried = Tried(c, r)]]
      /\ caller' = [caller EXCEPT ![w] =
           IF Verdict(r, caller[w].row) = "idle" THEN NoCaller
           ELSE [NoCaller EXCEPT !.pc = Verdict(r, caller[w].row), !.row = r]]
  BY DEF Bump
<1>1. code \in [Codes -> CodeRow] /\ r \in Codes /\ r \in LiveCodes /\ InTime \subseteq Codes
  BY DEF AccountInv, AccountTypeOK, InTime, LiveCodes
<1>2. PICK q : /\ caller' = [caller EXCEPT ![w] = q] /\ q \in Caller
               /\ q.pc \in {"idle", "exhausted", "matched"} /\ (q.pc # "idle" => q.row = r)
  <2> PICK next : next = Verdict(r, caller[w].row)
    OBVIOUS
  <2>1. next \in {"idle", "exhausted", "matched"}
    BY DEF Verdict
  <2>2. NoCaller \in Caller /\ NoCaller.pc = "idle"
    BY DEF NoCaller, NoCode, Caller, CallerPc
  <2>3. CASE next = "idle"
    <3>1. caller' = [caller EXCEPT ![w] = NoCaller]
      BY <1>0, <2>3
    <3> QED
      BY <2>2, <3>1
  <2>4. CASE next # "idle"
    <3>1. caller' = [caller EXCEPT ![w] = [NoCaller EXCEPT !.pc = next, !.row = r]]
      BY <1>0, <2>4
    <3> PICK q : q = [NoCaller EXCEPT !.pc = next, !.row = r]
      OBVIOUS
    <3>2. q \in Caller /\ q.pc = next /\ q.row = r
      BY <1>1, <2>1, <2>2 DEF NoCaller, NoCode, Caller, CallerPc
    <3> QED
      BY <2>1, <3>1, <3>2
  <2> QED
    BY <2>3, <2>4
<1>3. \A c \in Codes : /\ Bumped(code[c].attempts) \in Nat
                       /\ code[c].attempts <= Bumped(code[c].attempts)
                       /\ Tried(c, r) \in Nat
  <2> SUFFICES ASSUME NEW c \in Codes
               PROVE  /\ Bumped(code[c].attempts) \in Nat
                      /\ code[c].attempts <= Bumped(code[c].attempts)
                      /\ Tried(c, r) \in Nat
    OBVIOUS
  <2>1. code[c].attempts \in Nat /\ code[c].tried \in Nat
    BY <1>1 DEF CodeRow
  <2> QED
    BY <2>1, BumpedCounts DEF Tried
<1>5. \A c \in Codes : code'[c] =
        IF c \notin InTime THEN code[c]
        ELSE [code[c] EXCEPT !.attempts = Bumped(code[c].attempts), !.tried = Tried(c, r)]
  BY <1>0
<1>6. ASSUME NEW c \in InTime
      PROVE  /\ code'[c] \in CodeRow
             /\ code'[c].state = code[c].state /\ code'[c].used = code[c].used
             /\ code'[c].rivals = code[c].rivals
             /\ code'[c].attempts = Bumped(code[c].attempts) /\ code'[c].tried = Tried(c, r)
  <2> PICK a \in Nat, t \in Nat : a = Bumped(code[c].attempts) /\ t = Tried(c, r)
    BY <1>1, <1>3
  <2>1. code'[c] = [code[c] EXCEPT !.attempts = a, !.tried = t] /\ code[c] \in CodeRow
    BY <1>1, <1>5
  <2> PICK x, y : x = code[c] /\ y = code'[c]
    OBVIOUS
  <2>2. x \in CodeRow /\ y = [x EXCEPT !.attempts = a, !.tried = t]
    BY <2>1
  <2>3. /\ y \in CodeRow /\ y.attempts = a /\ y.tried = t
        /\ y.state = x.state /\ y.used = x.used /\ y.rivals = x.rivals
    BY <2>2 DEF CodeRow
  <2> QED
    BY <2>3
<1>7. code' \in [Codes -> CodeRow]
  <2>1. \A c \in Codes : code'[c] \in CodeRow
    BY <1>1, <1>5, <1>6
  <2> QED
    BY <1>0, <2>1
<1>8. AccountTypeOK'
  <2>1. caller' \in [Workers -> Caller]
    BY <1>2 DEF AccountInv, AccountTypeOK
  <2>2. UNCHANGED <<account, link, session>>
    BY DEF Bump
  <2> QED
    BY <1>7, <2>1, <2>2 DEF AccountInv, AccountTypeOK
<1>9. Counted'
  <2> SUFFICES ASSUME NEW c \in Codes
               PROVE  /\ code'[c].tried <= MaxAttempts
                      /\ code'[c].state = "live" => code'[c].tried <= code'[c].attempts
    BY DEF Counted, Codes
  <2>1. CASE c \notin InTime
    BY <1>5, <2>1 DEF AccountInv, Counted
  <2>2. CASE c \in InTime
    <3>1. /\ code[c].tried <= code[c].attempts /\ code[c].tried <= MaxAttempts
          /\ code[c].tried \in Nat /\ code[c].attempts \in Nat
      BY <1>1, <2>2 DEF AccountInv, Counted, InTime, LiveCodes, CodeRow
    <3>2. CASE c = r /\ ~OverLimit(Bumped(code[c].attempts))
      <4>1. code[c].attempts + 1 = Bumped(code[c].attempts) /\ Bumped(code[c].attempts) <= MaxAttempts
        BY <3>1, <3>2, BumpedCounts
      <4>2. Tried(c, r) = code[c].tried + 1
        BY <3>2 DEF Tried
      <4> QED
        BY <1>6, <2>2, <3>1, <4>1, <4>2, AccountAssumption
    <3>3. CASE ~(c = r /\ ~OverLimit(Bumped(code[c].attempts)))
      <4>1. Tried(c, r) = code[c].tried
        BY <3>3 DEF Tried
      <4>2. code[c].attempts <= Bumped(code[c].attempts) /\ Bumped(code[c].attempts) \in Nat
        BY <1>1, <1>3, <2>2
      <4> QED
        BY <1>6, <2>2, <3>1, <4>1, <4>2, AccountAssumption
    <3> QED
      BY <3>2, <3>3
  <2> QED
    BY <2>1, <2>2
<1>10. Current'
  BY <1>2, SamePassword DEF Bump
<1>11. \A v \in Workers : v # w => caller'[v] = caller[v]
  BY <1>2 DEF AccountInv, AccountTypeOK
<1>12. caller'[w] = q
  BY <1>2 DEF AccountInv, AccountTypeOK
<1>13. \A c \in Codes :
         /\ code'[c].used = code[c].used /\ code'[c].state = code[c].state
         /\ code'[c].rivals = code[c].rivals
  BY <1>5, <1>6
<1>14. \A v \in Workers :
         /\ caller'[v].pc \in {"burnt", "dropped"} => caller'[v] = caller[v]
         /\ caller'[v].pc \in {"exhausted", "matched"} => caller'[v].row \in StoredCodes
  <2>1. r \in StoredCodes
    BY <1>1 DEF LiveCodes, StoredCodes
  <2> QED
    BY <1>2, <1>11, <1>12, <2>1 DEF AccountInv, Held
<1> QED
  BY <1>8, <1>9, <1>10, <1>13, <1>14, RowsStep

\* A row that is deleted keeps what is remembered of it.
LEMMA BurntRows ==
  ASSUME AccountInv, NEW w \in Workers, caller[w].pc \in {"exhausted", "matched"},
         code' = Burnt(caller[w].row)
  PROVE  /\ caller[w].row \in Codes /\ code' \in [Codes -> CodeRow]
         /\ code'[caller[w].row].state = "gone"
         /\ \A c \in Codes :
              /\ code'[c].used = code[c].used /\ code'[c].tried = code[c].tried
              /\ (code'[c].state = "absent") = (code[c].state = "absent")
              /\ code[c].state = "gone" => code'[c].state = "gone"
              /\ code'[c].state = "live" => code'[c] = code[c]
<1>1. caller[w].row \in Codes /\ code[caller[w].row].state # "absent"
  BY DEF AccountInv, Held, StoredCodes
<1> PICK c \in Codes : c = caller[w].row
  BY <1>1
<1> PICK row : row = Gone(code[c])
  OBVIOUS
<1>2. row \in CodeRow /\ row.state = "gone" /\ row.tried = code[c].tried /\ row.used = code[c].used
  BY CodeTyped DEF AccountInv
<1>3. code \in [Codes -> CodeRow] /\ code' = [code EXCEPT ![c] = row]
  BY DEF AccountInv, AccountTypeOK, Burnt
<1>4. code'[c] = row /\ (\A d \in Codes : d # c => code'[d] = code[d]) /\ code' \in [Codes -> CodeRow]
  BY <1>2, <1>3
<1> QED
  BY <1>1, <1>2, <1>4

\* The code whose guesses are spent is deleted.
LEMMA DiscardInv == ASSUME AccountInv, NEW w \in Workers, Discard(w) PROVE AccountInv'
<1>1. caller[w].pc = "exhausted" /\ code' = Burnt(caller[w].row) /\ UNCHANGED <<account, link, session>>
  BY DEF Discard
<1>2. caller' = [caller EXCEPT ![w] = NoCaller] /\ NoCaller \in Caller /\ NoCaller.pc = "idle"
  BY DEF Discard, Hangup, NoCaller, Caller, CallerPc, NoCode
<1>3. Current'
  BY <1>1, <1>2, SamePassword
<1>4. AccountTypeOK' /\ Counted'
  BY <1>1, <1>2, BurntRows DEF AccountInv, AccountTypeOK, Counted, Codes
<1>5. \A v \in Workers : caller'[v] = NoCaller \/ caller'[v] = caller[v]
  BY <1>2 DEF AccountInv, AccountTypeOK
<1> QED
  BY <1>1, <1>2, <1>3, <1>4, <1>5, BurntRows, RowsStep DEF AccountInv, Held

\* Who deletes a code in force is the only one to hold it.
LEMMA BurnInv == ASSUME AccountInv, NEW w \in Workers, Burn(w) PROVE AccountInv'
<1>1. caller[w].pc = "matched" /\ code' = Burnt(caller[w].row) /\ UNCHANGED <<account, link, session>>
  BY DEF Burn
<1>2. CASE ~Burns(caller[w].row)
  <2>1. caller' = [caller EXCEPT ![w] = NoCaller] /\ NoCaller \in Caller /\ NoCaller.pc = "idle"
    BY <1>2 DEF Burn, Hangup, NoCaller, Caller, CallerPc, NoCode
  <2>2. Current'
    BY <1>1, <2>1, SamePassword
  <2>3. AccountTypeOK' /\ Counted'
    BY <1>1, <2>1, BurntRows DEF AccountInv, AccountTypeOK, Counted, Codes
  <2>4. \A v \in Workers : caller'[v] = NoCaller \/ caller'[v] = caller[v]
    BY <2>1 DEF AccountInv, AccountTypeOK
  <2> QED
    BY <1>1, <2>1, <2>2, <2>3, <2>4, BurntRows, RowsStep DEF AccountInv, Held
<1>3. CASE Burns(caller[w].row)
  <2>1. PICK q : caller' = [caller EXCEPT ![w] = q] /\ q \in Caller /\ q.pc = "burnt" /\ q.row = caller[w].row
    <3>1. caller[w] \in Caller /\ caller' = [caller EXCEPT ![w] = [caller[w] EXCEPT !.pc = "burnt"]]
      BY <1>3 DEF Burn, Proceed, AccountInv, AccountTypeOK
    <3>2. [caller[w] EXCEPT !.pc = "burnt"] \in Caller
      BY <3>1 DEF Caller, CallerPc
    <3> QED
      BY <3>1, <3>2 DEF Caller
  <2>2. caller'[w] = q /\ \A v \in Workers : v # w => caller'[v] = caller[v]
    BY <2>1, OneCaller DEF AccountInv
  <2>3. Current'
    BY <1>1, <2>1, SamePassword
  <2>4. AccountTypeOK' /\ Counted'
    BY <1>1, <2>1, BurntRows DEF AccountInv, AccountTypeOK, Counted, Codes
  <2>5. code[caller[w].row].state = "live" /\ code[caller[w].row].used = 0 /\ caller[w].row \in Codes
    BY <1>3 DEF Burns, LiveCodes, AccountInv, Opened
  <2>6. \A v \in Workers : HoldsBurnt(v) => caller[v].row # caller[w].row
    BY <2>5 DEF AccountInv, Opened
  <2>7. Opened'
    <3>1. \A c \in Codes : code'[c].used <= 1 /\ (code'[c].state # "gone" => code'[c].used = 0)
      BY <1>1, BurntRows DEF AccountInv, Opened
    <3>2. \A v \in Workers : HoldsBurnt(v)' =>
            /\ caller'[v].row \in Codes
            /\ code'[caller'[v].row].state = "gone" /\ code'[caller'[v].row].used = 0
      BY <1>1, <2>1, <2>2, <2>5, BurntRows DEF AccountInv, Opened, HoldsBurnt
    <3>3. \A u, v \in Workers : HoldsBurnt(u)' /\ HoldsBurnt(v)' /\ caller'[u].row = caller'[v].row => u = v
      BY <2>1, <2>2, <2>6 DEF AccountInv, Opened, HoldsBurnt
    <3> QED
      BY <3>1, <3>2, <3>3 DEF Opened, Codes
  <2>8. Ordered'
    BY <1>1, <2>1, <2>2, BurntRows DEF AccountInv, Ordered, Codes
  <2>9. Held'
    BY <1>1, <2>1, <2>2, BurntRows DEF AccountInv, Held, StoredCodes, Codes
  <2> QED
    BY <2>3, <2>4, <2>7, <2>8, <2>9 DEF AccountInv
<1> QED
  BY <1>2, <1>3

\* The password is set by a code once, since nobody else holds it.
LEMMA SetByCodeInv == ASSUME AccountInv, NEW w \in Workers, SetByCode(w) PROVE AccountInv'
<1>1. /\ account' \in [password : Nat, version : Nat, active : BOOLEAN]
      /\ account'.password \in Nat /\ account'.version \in Nat
  BY NewAccount DEF SetByCode, AccountInv
<1>2. PICK q : /\ caller' = [caller EXCEPT ![w] = q] /\ q \in Caller /\ q.pc = "set"
               /\ q.password = account'.password /\ q.checked = account'.version
  <2> PICK p \in Nat, n \in Nat : p = account'.password /\ n = account'.version
    BY <1>1
  <2> PICK q : q = [NoCaller EXCEPT !.pc = "set", !.password = p, !.checked = n]
    OBVIOUS
  <2>1. caller' = [caller EXCEPT ![w] = q]
    BY DEF SetByCode
  <2>2. q \in Caller /\ q.pc = "set" /\ q.password = p /\ q.checked = n
    BY DEF NoCaller, NoCode, Caller, CallerPc
  <2> QED
    BY <2>1, <2>2
<1>3. caller'[w] = q /\ \A v \in Workers : v # w => caller'[v] = caller[v]
  BY <1>2, OneCaller DEF AccountInv
<1>4. Current' /\ session' \subseteq Session
  BY <1>2, NewPassword DEF SetByCode
<1>5. HoldsBurnt(w) /\ link' = link
  BY DEF SetByCode, HoldsBurnt
<1> PICK c \in Codes : c = caller[w].row
  BY <1>5 DEF AccountInv, Opened
<1>6. code[c].state = "gone" /\ code[c].used = 0 /\ code \in [Codes -> CodeRow]
  BY <1>5 DEF AccountInv, AccountTypeOK, Opened
<1>7. /\ code'[c] = [code[c] EXCEPT !.used = 1]
      /\ \A d \in Codes : d # c => code'[d] = code[d]
      /\ code' = [code EXCEPT ![c] = [code[c] EXCEPT !.used = 1]]
  BY <1>6 DEF SetByCode
<1>8. /\ code'[c] \in CodeRow /\ code'[c].used = 1 /\ code'[c].state = "gone"
      /\ code'[c].tried = code[c].tried
  <2>1. code[c] \in CodeRow
    BY <1>6
  <2> QED
    BY <1>6, <1>7, <2>1 DEF CodeRow
<1>9. code' \in [Codes -> CodeRow]
  BY <1>6, <1>7, <1>8
<1>10. AccountTypeOK'
  BY <1>1, <1>2, <1>4, <1>5, <1>9 DEF AccountInv, AccountTypeOK
<1>11. Counted'
  BY <1>7, <1>8 DEF AccountInv, Counted, Codes
<1>12. \A v \in Workers : HoldsBurnt(v)' => v # w /\ HoldsBurnt(v) /\ caller'[v].row = caller[v].row
  BY <1>2, <1>3 DEF HoldsBurnt
<1>13. \A v \in Workers : HoldsBurnt(v)' => caller[v].row # c
  BY <1>5, <1>12 DEF AccountInv, Opened
<1>14. Opened'
  <2>1. \A d \in Codes : code'[d].used <= 1 /\ (code'[d].state # "gone" => code'[d].used = 0)
    BY <1>7, <1>8 DEF AccountInv, Opened
  <2>2. \A v \in Workers : HoldsBurnt(v)' =>
          /\ caller'[v].row \in Codes
          /\ code'[caller'[v].row].state = "gone" /\ code'[caller'[v].row].used = 0
    BY <1>7, <1>12, <1>13 DEF AccountInv, Opened
  <2>3. \A u, v \in Workers : HoldsBurnt(u)' /\ HoldsBurnt(v)' /\ caller'[u].row = caller'[v].row => u = v
    BY <1>12 DEF AccountInv, Opened
  <2> QED
    BY <2>1, <2>2, <2>3 DEF Opened, Codes
<1>15. Ordered'
  BY <1>2, <1>3, <1>6, <1>7, <1>8 DEF AccountInv, Ordered, Codes
<1>16. Held'
  BY <1>2, <1>3, <1>7, <1>8 DEF AccountInv, Held, StoredCodes, Codes
<1> QED
  BY <1>4, <1>10, <1>11, <1>14, <1>15, <1>16 DEF AccountInv

\* The codes that are still out are deleted when a password was set.
LEMMA ClearInv == ASSUME AccountInv, NEW w \in Workers, ClearResets(w) PROVE AccountInv'
<1>1. caller[w].pc = "set" /\ UNCHANGED <<account, session>> /\ link' = FALSE
  BY DEF ClearResets
<1>2. PICK q : /\ caller' = [caller EXCEPT ![w] = q] /\ q \in Caller /\ q.pc = "entering"
               /\ q.checked = caller[w].checked /\ q.password = caller[w].password
  <2>1. caller[w] \in Caller /\ caller' = [caller EXCEPT ![w] = [caller[w] EXCEPT !.pc = "entering"]]
    BY DEF ClearResets, Proceed, AccountInv, AccountTypeOK
  <2> PICK x, q : x = caller[w] /\ q = [x EXCEPT !.pc = "entering"]
    OBVIOUS
  <2>2. /\ q \in Caller /\ q.pc = "entering"
        /\ q.checked = x.checked /\ q.password = x.password
    BY <2>1 DEF Caller, CallerPc
  <2> QED
    BY <2>1, <2>2
<1>3. \A c \in Codes :
        /\ code'[c] \in CodeRow /\ code'[c].tried = code[c].tried /\ code'[c].used = code[c].used
        /\ code'[c].state # "live"
        /\ (code'[c].state = "absent") = (code[c].state = "absent")
        /\ code[c].state = "gone" => code'[c].state = "gone"
  BY CodeTyped DEF AccountInv, ClearResets, LiveCodes, CodeRow
<1>4. code' \in [Codes -> CodeRow]
  BY <1>3 DEF ClearResets
<1>5. AccountTypeOK' /\ Counted'
  BY <1>1, <1>2, <1>3, <1>4 DEF AccountInv, AccountTypeOK, Counted, Codes
<1>6. Current'
  BY <1>1, <1>2, SamePassword DEF Checked
<1>7. \A v \in Workers : v # w => caller'[v] = caller[v]
  BY <1>2, OneCaller DEF AccountInv
<1>8. caller'[w].pc = "entering"
  BY <1>2, OneCaller DEF AccountInv
<1> QED
  BY <1>3, <1>5, <1>6, <1>7, <1>8, RowsStep DEF AccountInv, Held

\* Nobody's slip is a plain one.
LEMMA NoCallerPlain == Plain(NoCaller) /\ NoCaller.pc = "idle"
  BY DEF Plain, NoCaller, Caller, CallerPc, NoCode

\* Steps of a handler that touch neither codes nor account nor sessions.
LEMMA QuietInv ==
  ASSUME AccountInv, NEW w \in Workers,
         AskCode(w) \/ Guess(w) \/ NoCodeOut(w) \/ UseLink(w) \/ CallerDies(w)
  PROVE  AccountInv'
<1>1. UNCHANGED <<account, code, session>> /\ link' \in BOOLEAN
  BY DEF AskCode, Guess, NoCodeOut, UseLink, CallerDies, AccountInv, AccountTypeOK
<1>2. PICK q : caller' = [caller EXCEPT ![w] = q] /\ Plain(q) /\ q.pc \notin {"set", "current", "entering"}
  <2>1. CASE AskCode(w) \/ UseLink(w)
    <3> PICK pc \in {"asked", "linked"} : Proceed(w, pc)
      BY <2>1 DEF AskCode, UseLink
    <3>1. caller[w] \in Caller /\ caller' = [caller EXCEPT ![w] = [caller[w] EXCEPT !.pc = pc]]
      BY DEF Proceed, AccountInv, AccountTypeOK
    <3> PICK q : q = [caller[w] EXCEPT !.pc = pc]
      OBVIOUS
    <3>2. q \in Caller /\ q.pc = pc
      BY <3>1 DEF Caller, CallerPc
    <3> QED
      BY <3>1, <3>2 DEF Plain
  <2>2. CASE Guess(w)
    <3> PICK c \in StoredCodes \union {NoCode} :
          caller' = [caller EXCEPT ![w] = [NoCaller EXCEPT !.pc = "guessing", !.row = c]]
      BY <2>2 DEF Guess
    <3> PICK q : q = [NoCaller EXCEPT !.pc = "guessing", !.row = c]
      OBVIOUS
    <3>1. q \in Caller /\ q.pc = "guessing"
      BY DEF NoCaller, NoCode, Caller, CallerPc, StoredCodes
    <3> QED
      BY <3>1 DEF Plain
  <2>3. CASE NoCodeOut(w) \/ CallerDies(w)
    BY <2>3, NoCallerPlain DEF NoCodeOut, CallerDies, Hangup
  <2> QED
    BY <2>1, <2>2, <2>3
<1>3. Current'
  BY <1>1, <1>2, SamePassword
<1>4. /\ session' \subseteq Session
      /\ account' \in [password : Nat, version : Nat, active : BOOLEAN]
  BY <1>1 DEF AccountInv, AccountTypeOK
<1> QED
  BY <1>1, <1>2, <1>3, <1>4, PlainStep

\* A password that is checked is today's.
LEMMA CheckPasswordInv == ASSUME AccountInv, NEW w \in Workers, CheckPassword(w) PROVE AccountInv'
<1>1. UNCHANGED <<account, code, session>> /\ link' \in BOOLEAN
  BY DEF CheckPassword, AccountInv, AccountTypeOK
<1>2. PICK q : /\ caller' = [caller EXCEPT ![w] = q] /\ Plain(q)
               /\ q.checked = account.version /\ q.password = account.password
  <2> PICK p \in Nat, n \in Nat : p = account.password /\ n = account.version
    BY DEF AccountInv, AccountTypeOK
  <2> PICK pc \in {"entering", "current"} :
        caller' = [caller EXCEPT ![w] = [NoCaller EXCEPT !.pc = pc, !.password = p, !.checked = n]]
    BY DEF CheckPassword
  <2> PICK q : q = [NoCaller EXCEPT !.pc = pc, !.password = p, !.checked = n]
    OBVIOUS
  <2>1. q \in Caller /\ q.pc = pc /\ q.password = p /\ q.checked = n
    BY DEF NoCaller, NoCode, Caller, CallerPc
  <2> QED
    BY <2>1 DEF Plain
<1>3. Current'
  BY <1>1, <1>2, SamePassword
<1>4. /\ session' \subseteq Session
      /\ account' \in [password : Nat, version : Nat, active : BOOLEAN]
  BY <1>1 DEF AccountInv, AccountTypeOK
<1> QED
  BY <1>1, <1>2, <1>3, <1>4, PlainStep

\* The link and the owner set a password.
LEMMA SetPasswordInv ==
  ASSUME AccountInv, NEW w \in Workers, SetByLink(w) \/ SetByOwner(w) PROVE AccountInv'
<1>1. SetPassword /\ UNCHANGED code /\ link' \in BOOLEAN
  BY DEF SetByLink, SetByOwner, AccountInv, AccountTypeOK
<1>2. account'.password \in Nat /\ account'.version \in Nat
  BY <1>1, NewAccount DEF AccountInv
<1>3. PICK q : /\ caller' = [caller EXCEPT ![w] = q] /\ Plain(q)
               /\ \/ q.pc \notin {"set", "current", "entering"}
                  \/ q.checked = account'.version /\ q.password = account'.password
  <2>1. CASE SetByLink(w)
    BY <2>1, NoCallerPlain DEF SetByLink, Hangup
  <2>2. CASE SetByOwner(w)
    <3> PICK p \in Nat, n \in Nat : p = account'.password /\ n = account'.version
      BY <1>2
    <3>1. caller' = [caller EXCEPT ![w] = [NoCaller EXCEPT !.pc = "entering", !.password = p, !.checked = n]]
      BY <2>2 DEF SetByOwner
    <3> PICK q : q = [NoCaller EXCEPT !.pc = "entering", !.password = p, !.checked = n]
      OBVIOUS
    <3>2. q \in Caller /\ q.pc = "entering" /\ q.password = p /\ q.checked = n
      BY DEF NoCaller, NoCode, Caller, CallerPc
    <3> QED
      BY <3>1, <3>2 DEF Plain
  <2> QED
    BY <2>1, <2>2
<1>4. /\ Current' /\ session' \subseteq Session
      /\ account' \in [password : Nat, version : Nat, active : BOOLEAN]
  BY <1>1, <1>3, NewPassword DEF Plain
<1> QED
  BY <1>1, <1>3, <1>4, PlainStep

\* Who is let in is let in by what he checked, under today's version.
LEMMA EnterInv == ASSUME AccountInv, NEW w \in Workers, Enter(w) PROVE AccountInv'
<1>1. /\ UNCHANGED <<account, code, link>> /\ caller[w].pc = "entering"
      /\ caller' = [caller EXCEPT ![w] = NoCaller]
  BY DEF Enter, Hangup
<1> PICK s : s = [password |-> caller[w].password, checked |-> caller[w].checked,
                  version |-> account.version]
  OBVIOUS
<1>2. session' = session \union {s}
  BY DEF Enter
<1>3. /\ s \in Session /\ s.version = account.version
      /\ s.checked = s.version => s.password = account.password
  BY <1>1 DEF AccountInv, AccountTypeOK, Caller, Session, Current, Checked
<1>4. \A v \in Workers : caller'[v].pc = "idle" \/ caller'[v] = caller[v]
  BY <1>1, NoCallerPlain DEF AccountInv, AccountTypeOK
<1>5. Current'
  BY <1>1, <1>2, <1>3, <1>4 DEF AccountInv, Current, Checked
<1>6. /\ link' \in BOOLEAN /\ session' \subseteq Session
      /\ account' \in [password : Nat, version : Nat, active : BOOLEAN]
  BY <1>1, <1>2, <1>3 DEF AccountInv, AccountTypeOK
<1> QED
  BY <1>1, <1>5, <1>6, NoCallerPlain, PlainStep

\* The office ends the sessions, or lets the teacher in again.
LEMMA OfficeInv == ASSUME AccountInv, EndSessions \/ Activate PROVE AccountInv'
<1>1. UNCHANGED <<code, link, caller>>
  BY DEF EndSessions, Activate
<1>2. account \in [password : Nat, version : Nat, active : BOOLEAN]
  BY DEF AccountInv, AccountTypeOK
<1>3. /\ account' \in [password : Nat, version : Nat, active : BOOLEAN]
      /\ account'.password = account.password
      /\ \/ account'.version = account.version + 1 /\ session' = StillAccepted(account.version + 1)
         \/ account'.version = account.version /\ session' = session
  <2>1. CASE EndSessions
    <3> PICK n \in Nat : n = account.version + 1
      BY <1>2
    <3> PICK active \in {account.active, FALSE} :
          account' = [account EXCEPT !.version = n, !.active = active]
      BY <2>1 DEF EndSessions
    <3> QED
      BY <1>2, <2>1 DEF EndSessions
  <2>2. CASE Activate
    BY <1>2, <2>2 DEF Activate
  <2> QED
    BY <2>1, <2>2
<1>4. session' \subseteq session /\ \A s \in session' : s.version = account'.version
  BY <1>2, <1>3 DEF StillAccepted, AccountInv, Current
<1>5. AccountTypeOK'
  BY <1>1, <1>3, <1>4 DEF AccountInv, AccountTypeOK
<1>6. \A v \in Workers : Checked(v) =>
        /\ caller[v].checked <= account'.version
        /\ caller[v].checked = account'.version => caller[v].password = account'.password
  <2> SUFFICES ASSUME NEW v \in Workers, Checked(v)
               PROVE  /\ caller[v].checked <= account'.version
                      /\ caller[v].checked = account'.version => caller[v].password = account'.password
    OBVIOUS
  <2>1. caller[v].checked \in Nat /\ account.version \in Nat
    BY <1>2 DEF AccountInv, AccountTypeOK, Caller
  <2>2. /\ caller[v].checked <= account.version
        /\ caller[v].checked = account.version => caller[v].password = account.password
    BY DEF AccountInv, Current
  <2> QED
    BY <1>3, <2>1, <2>2
<1>7. Current'
  BY <1>1, <1>3, <1>4, <1>6 DEF AccountInv, Current, Checked
<1>8. Counted'
  BY <1>1 DEF AccountInv, Counted, Codes
<1> QED
  BY <1>1, <1>5, <1>7, <1>8, RowsStep DEF AccountInv, Held

-----------------------------------------------------------------------------
(* Theorems                                                                 *)

\* Every step keeps the invariant.
LEMMA AccountStep == AccountInv /\ [AccountNext]_accountVars => AccountInv'
<1> SUFFICES ASSUME AccountInv, [AccountNext]_accountVars PROVE AccountInv'
  OBVIOUS
<1>1. CASE UNCHANGED accountVars
  <2>1. /\ UNCHANGED account /\ UNCHANGED code /\ UNCHANGED link
        /\ UNCHANGED session /\ UNCHANGED caller
    BY <1>1 DEF accountVars
  <2>2. AccountTypeOK' /\ Counted' /\ Current'
    BY <2>1 DEF AccountInv, AccountTypeOK, Counted, Current, Checked, Codes
  <2> QED
    BY <2>1, <2>2, RowsStep DEF AccountInv, Held
<1>2. ASSUME NEW w \in Workers,
             \/ AskCode(w) \/ DropCodes(w) \/ StoreCode(w)
             \/ Guess(w) \/ Bump(w) \/ NoCodeOut(w) \/ Discard(w) \/ Burn(w)
             \/ SetByCode(w) \/ ClearResets(w)
             \/ UseLink(w) \/ SetByLink(w) \/ CheckPassword(w) \/ SetByOwner(w) \/ Enter(w)
             \/ CallerDies(w)
      PROVE  AccountInv'
  BY <1>2, QuietInv, DropInv, StoreInv, BumpInv, DiscardInv, BurnInv, SetByCodeInv, ClearInv,
     SetPasswordInv, CheckPasswordInv, EnterInv
<1>3. ASSUME NEW c \in Codes, Expire(c) PROVE AccountInv'
  BY <1>3, ExpireInv
<1>4. CASE EndSessions \/ Activate
  BY <1>4, OfficeInv
<1> QED
  BY <1>1, <1>2, <1>3, <1>4 DEF AccountNext

\* Whatever the handlers do, and whichever of them die, the invariant holds.
THEOREM AccountInvariant == AccountSpec => []AccountInv
<1>1. AccountInv /\ [AccountNext]_accountVars => AccountInv'
  BY AccountStep
<1> QED
  BY AccountInitInv, <1>1, PTL DEF AccountSpec

\* Every variable keeps its type.
THEOREM AccountTyped == AccountSpec => []AccountTypeOK
<1>1. AccountInv => AccountTypeOK
  BY DEF AccountInv
<1> QED
  BY AccountInvariant, <1>1, PTL

\* No code is compared with more than MAX_ATTEMPTS guesses, however many forms arrive at
\* once and wherever their handlers die (reset-code.ts 107-119).
THEOREM GuessesAreCapped == AccountSpec => []GuessesCapped
<1>1. AccountInv => GuessesCapped
  BY DEF AccountInv, Counted, GuessesCapped
<1> QED
  BY AccountInvariant, <1>1, PTL

\* A code sets one password at most (reset-code.ts 121-123).
THEOREM CodeIsUsedOnce == AccountSpec => []CodeOpensOnce
<1>1. AccountInv => CodeOpensOnce
  BY DEF AccountInv, Opened, CodeOpensOnce
<1> QED
  BY AccountInvariant, <1>1, PTL

\* Two codes are out together only if their requests crossed (db.ts 557-563).
THEOREM CodesOutCrossed == AccountSpec => []OneCodeUnlessCrossed
<1>1. AccountInv => OneCodeUnlessCrossed
  BY DEF AccountInv, Ordered, OneCodeUnlessCrossed, LiveCodes
<1> QED
  BY AccountInvariant, <1>1, PTL

\* A session is of today's password, unless the version was raised between the check of
\* the password and the signing of the cookie (auth.ts 86-94).
THEOREM SessionsAreCurrent == AccountSpec => []SessionsFollowPassword
<1>1. AccountInv => SessionsFollowPassword
  BY DEF AccountInv, Current, SessionsFollowPassword
<1> QED
  BY AccountInvariant, <1>1, PTL

=============================================================================
