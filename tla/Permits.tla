------------------------------- MODULE Permits -------------------------------
(***************************************************************************)
(* The permit of one halaqah for one academic year (lib/permits.ts,         *)
(* lib/permits-db.ts): a row of halaqah_permits that six actions move, and  *)
(* the log permits_log that tells what was done.  Other halaqat and other   *)
(* years have rows of their own.                                            *)
(*                                                                          *)
(* An action is one transaction: it locks the row, decides, writes the row  *)
(* and the log.  FOR UPDATE locks no row that is not there yet, so the      *)
(* first issues of two requests do not see each other, and the later one    *)
(* overwrites what the row has become (ON CONFLICT DO UPDATE).              *)
(*                                                                          *)
(* Dates and notes are left out; a halaqah is not deleted meanwhile.        *)
(***************************************************************************)
EXTENDS Handlers, Naturals, Sequences, FiniteSets

CONSTANT MaxLog  \* bound: entries of the log

VARIABLES
  permit,      \* the row of halaqah_permits
  permitsLog,  \* permits_log, oldest first
  permitTx     \* what each transaction has read and decided

permitVars == <<permit, permitsLog, permitTx>>

NoPermit == "none"

Statuses == {"active", "pending_renewal", "suspended", "withdrawn"}

Permit == [status : Statuses \union {NoPermit}, suspensions : Nat]

Entry == [from : Statuses \union {NoPermit}, to : Statuses]

Tx == [open : BOOLEAN, from : Statuses \union {NoPermit}, to : Statuses, suspensions : Nat]

NoTx == [open |-> FALSE, from |-> NoPermit, to |-> "active", suspensions |-> 0]

PermitInit ==
  /\ permit = [status |-> NoPermit, suspensions |-> 0]
  /\ permitsLog = <<>>
  /\ permitTx = [w \in Workers |-> NoTx]

-----------------------------------------------------------------------------
(* applyPermitAction: the status an action leads to from each status        *)

Withdrawable == {"active", "pending_renewal", "suspended"}

PermitMoves ==
  [issue           |-> {<<NoPermit, "active">>},
   request_renewal |-> {<<"active", "pending_renewal">>},
   renew           |-> {<<"pending_renewal", "active">>},
   suspend         |-> {<<"active", "suspended">>},
   reactivate      |-> {<<"suspended", "active">>},
   withdraw        |-> Withdrawable \X {"withdrawn"}]

\* An issue starts the count anew, a suspension adds one, the others keep it.
SuspensionsAfter(action, n) ==
  CASE action = "issue"   -> 0
    [] action = "suspend" -> n + 1
    [] OTHER              -> n

-----------------------------------------------------------------------------
(* applyPermitActionDb                                                      *)

\* Mutant: the row is read without FOR UPDATE.
PermitReadable(w) == TRUE

\* FOR UPDATE: a transaction that read a row keeps all others from it
LockedByOther(w) == \E v \in Workers \ {w} : permitTx[v].open /\ permitTx[v].from # NoPermit

PermitUnlocked(w) == ~LockedByOther(w)

\* BEGIN, the read and the decision; a refusal rolls back and has read only
DecidePermit(w) ==
  /\ ~permitTx[w].open
  /\ PermitUnlocked(w)
  /\ \E action \in DOMAIN PermitMoves : \E move \in PermitMoves[action] :
       /\ move[1] = permit.status
       /\ permitTx' = [permitTx EXCEPT ![w] =
            [open |-> TRUE, from |-> move[1], to |-> move[2],
             suspensions |-> SuspensionsAfter(action, permit.suspensions)]]
  /\ UNCHANGED <<permit, permitsLog>>

\* The upsert, which waits for the row's lock, the log and COMMIT
CommitPermit(w) ==
  /\ permitTx[w].open
  /\ PermitUnlocked(w)
  /\ Len(permitsLog) < MaxLog
  /\ permit' = [status |-> permitTx[w].to, suspensions |-> permitTx[w].suspensions]
  /\ permitsLog' = Append(permitsLog, [from |-> permitTx[w].from, to |-> permitTx[w].to])
  /\ permitTx' = [permitTx EXCEPT ![w] = NoTx]

\* ROLLBACK: a statement failed or the process ended
AbortPermit(w) ==
  /\ permitTx[w].open
  /\ permitTx' = [permitTx EXCEPT ![w] = NoTx]
  /\ UNCHANGED <<permit, permitsLog>>

PermitNext == \E w \in Workers : DecidePermit(w) \/ CommitPermit(w) \/ AbortPermit(w)

PermitSpec == PermitInit /\ [][PermitNext]_permitVars

-----------------------------------------------------------------------------
(* Properties                                                               *)

PermitTypeOK ==
  /\ permit \in Permit
  /\ permitsLog \in Seq(Entry)
  /\ permitTx \in [Workers -> Tx]

StatusAfter(n) == IF n = 0 THEN NoPermit ELSE permitsLog[n].to

FirstIssue(n) == permitsLog[n].from = NoPermit

\* The entries of the suspensions since the latest first issue
CountedSuspensions ==
  {n \in DOMAIN permitsLog : /\ permitsLog[n].to = "suspended"
                             /\ \A m \in DOMAIN permitsLog : m > n => ~FirstIssue(m)}

\* The log is the permit's history: each entry starts where the one before it ended,
\* the last one says what the permit is now, and each suspension was counted once,
\* however many requests act at once. The exception is an issue, which may have read
\* before there was a permit and then starts from nothing again (applyPermitActionDb,
\* permits-db.ts 192-256).
LogIsHistory ==
  /\ \A n \in DOMAIN permitsLog : FirstIssue(n) \/ permitsLog[n].from = StatusAfter(n - 1)
  /\ permit.status = StatusAfter(Len(permitsLog))
  /\ permit.suspensions = Cardinality(CountedSuspensions)

=============================================================================
