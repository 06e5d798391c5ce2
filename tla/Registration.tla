------------------------------ MODULE Registration ------------------------------
(***************************************************************************)
(* How a mosque joins (lib/mosque-registration-db.ts): somebody applies     *)
(* with the username he wants, the developer approves, which founds the     *)
(* mosque and its administrator's account, or refuses.  A developer also    *)
(* sets the account of a mosque that exists (upsertMosqueAdmin).            *)
(* Associations join the same way (lib/association-registration-db.ts).     *)
(*                                                                         *)
(* An application is checked and inserted by two statements.  A decision    *)
(* is one transaction that locks the application's row.  Unique indexes:    *)
(* the username among the pending applications and among the               *)
(* administrators; an INSERT that meets an uncommitted one waits for it.    *)
(*                                                                         *)
(* Names, cities, passwords, identities, the audit and the association      *)
(* asked for are left out; a mosque is known by its application.            *)
(***************************************************************************)
EXTENDS Handlers

CONSTANTS
  Applications,  \* ids that applications may take
  Usernames,
  OldMosque,     \* a mosque that nobody applied for
  NoAdmin        \* no row in mosque_admins

ASSUME RegistrationAssumption == OldMosque \notin Applications /\ NoAdmin \notin Usernames

VARIABLES
  application,  \* mosque_registration_requests
  mosques,      \* the rows of mosques
  admin,        \* mosque_admins: the username of each mosque's administrator
  officer       \* what each handler is doing

registrationVars == <<application, mosques, admin, officer>>

Mosques == Applications \union {OldMosque}

Application == [status : {"absent", "pending", "approved", "rejected"},
                username : Usernames \union {NoAdmin}]

NoApplication == [status |-> "absent", username |-> NoAdmin]

Officer == [pc : {"idle", "applying", "approving", "checked", "founding", "rejecting"},
            about : Mosques,  \* OldMosque: no application yet
            username : Usernames \union {NoAdmin}]

NoOfficer == [pc |-> "idle", about |-> OldMosque, username |-> NoAdmin]

RegistrationInit ==
  /\ application = [a \in Applications |-> NoApplication]
  /\ mosques = {OldMosque}
  /\ admin = [m \in Mosques |-> NoAdmin]
  /\ officer = [w \in Workers |-> NoOfficer]

OfficerAt(w, pc) == officer[w].pc = pc
OfficerGoes(w, o) == officer' = [officer EXCEPT ![w] = o]
OfficerEnds(w) == OfficerGoes(w, NoOfficer)

PendingWith(u) == {a \in Applications : application[a].status = "pending" /\ application[a].username = u}
HasAccount(u) == \E m \in Mosques : admin[m] = u

-----------------------------------------------------------------------------
(* createRegistrationRequest                                                *)

\* usernameTaken
AskUsername(w) ==
  /\ OfficerAt(w, "idle")
  /\ \E u \in Usernames :
       /\ ~HasAccount(u) /\ PendingWith(u) = {}
       /\ OfficerGoes(w, [NoOfficer EXCEPT !.pc = "applying", !.username = u])
  /\ UNCHANGED <<application, mosques, admin>>

\* Mutant: there is no unique index among the pending applications.
FreeAmongPendingAsRead(u) == TRUE

\* mosque_registration_requests_pending_username_key
FreeAmongPending(u) == PendingWith(u) = {}

\* The INSERT; a unique violation is answered username_taken
Apply(w) ==
  /\ OfficerAt(w, "applying")
  /\ LET u == officer[w].username
     IN  IF FreeAmongPending(u)
         THEN \E a \in Applications :
                /\ application[a].status = "absent"
                /\ application' = [application EXCEPT ![a] = [status |-> "pending", username |-> u]]
         ELSE UNCHANGED application
  /\ OfficerEnds(w)
  /\ UNCHANGED <<mosques, admin>>

-----------------------------------------------------------------------------
(* approveRegistrationRequest and rejectRegistrationRequest                 *)

\* Mutant: the application is read without FOR UPDATE.
DecidableRead(a) == TRUE

\* FOR UPDATE: no other decision holds the row
Decidable(a) == \A w \in Workers : officer[w].about # a

\* BEGIN and the SELECT; what is decided already is answered 409
OpenApplication(w) ==
  /\ OfficerAt(w, "idle")
  /\ \E a \in Applications, pc \in {"approving", "rejecting"} :
       /\ Decidable(a)
       /\ application[a].status = "pending"
       /\ OfficerGoes(w, [pc |-> pc, about |-> a, username |-> application[a].username])
  /\ UNCHANGED <<application, mosques, admin>>

\* SELECT 1 FROM mosque_admins; a name that is taken is rolled back
CheckAccount(w) ==
  /\ OfficerAt(w, "approving")
  /\ IF HasAccount(officer[w].username)
     THEN OfficerEnds(w)
     ELSE OfficerGoes(w, [officer[w] EXCEPT !.pc = "checked"])
  /\ UNCHANGED <<application, mosques, admin>>

\* An administrator of this username is inserted and not committed
AccountOpen(u) == \E w \in Workers : OfficerAt(w, "founding") /\ officer[w].username = u

\* Mutant: the index does not tell one administrator's username from another's.
AccountFreeAsRead(u) == TRUE

\* UNIQUE (username)
AccountFree(u) == ~HasAccount(u)

\* The INSERTs of the mosque and its administrator; a unique violation is rolled back
InsertAccount(w) ==
  /\ OfficerAt(w, "checked")
  /\ ~AccountOpen(officer[w].username)
  /\ IF AccountFree(officer[w].username)
     THEN OfficerGoes(w, [officer[w] EXCEPT !.pc = "founding"])
     ELSE OfficerEnds(w)
  /\ UNCHANGED <<application, mosques, admin>>

\* The UPDATE of the application and COMMIT
CommitApproval(w) ==
  /\ OfficerAt(w, "founding")
  /\ LET a == officer[w].about
     IN  /\ application' = [application EXCEPT ![a].status = "approved"]
         /\ mosques' = mosques \union {a}
         /\ admin' = [admin EXCEPT ![a] = officer[w].username]
  /\ OfficerEnds(w)

CommitRejection(w) ==
  /\ OfficerAt(w, "rejecting")
  /\ application' = [application EXCEPT ![officer[w].about].status = "rejected"]
  /\ OfficerEnds(w)
  /\ UNCHANGED <<mosques, admin>>

\* ROLLBACK, or the end of the process
AbortDecision(w) ==
  /\ ~OfficerAt(w, "idle")
  /\ OfficerEnds(w)
  /\ UNCHANGED <<application, mosques, admin>>

\* upsertMosqueAdmin
SetAdmin ==
  \E m \in mosques, u \in Usernames :
    /\ ~AccountOpen(u)
    /\ \A n \in Mosques \ {m} : admin[n] # u
    /\ admin' = [admin EXCEPT ![m] = u]
    /\ UNCHANGED <<application, mosques, officer>>

RegistrationNext ==
  \/ \E w \in Workers :
       \/ AskUsername(w) \/ Apply(w) \/ OpenApplication(w) \/ CheckAccount(w)
       \/ InsertAccount(w) \/ CommitApproval(w) \/ CommitRejection(w) \/ AbortDecision(w)
  \/ SetAdmin

RegistrationSpec == RegistrationInit /\ [][RegistrationNext]_registrationVars

-----------------------------------------------------------------------------
(* Properties                                                               *)

RegistrationTypeOK ==
  /\ application \in [Applications -> Application]
  /\ mosques \subseteq Mosques
  /\ admin \in [Mosques -> Usernames \union {NoAdmin}]
  /\ officer \in [Workers -> Officer]

\* A mosque was founded for the applications that are approved and for no other, each
\* with an administrator whose username is his alone, and no two applications that wait
\* ask for one username; though the same application is approved and refused at once, two
\* ask for a name at once, or the name is given away while they wait
\* (createRegistrationRequest, approveRegistrationRequest, rejectRegistrationRequest,
\* mosque-registration-db.ts 63-272).
FoundedByApproval ==
  /\ \A a \in Applications : a \in mosques <=> application[a].status = "approved"
  /\ \A m \in mosques \ {OldMosque} : admin[m] # NoAdmin
  /\ \A m, n \in Mosques : m # n /\ admin[m] # NoAdmin => admin[m] # admin[n]
  /\ \A a, b \in Applications :
       a # b /\ application[a].status = "pending" /\ application[b].status = "pending"
         => application[a].username # application[b].username

=============================================================================
