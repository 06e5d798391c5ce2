------------------------------ MODULE Affiliation ------------------------------
(***************************************************************************)
(* How a mosque comes to belong to an association: the request to register  *)
(* the mosque (lib/mosque-registration-db.ts), the links that one side asks *)
(* for and the other decides (lib/association-links-db.ts), and the         *)
(* developer's own hand (lib/association-db.ts).  Mosques share no row, so  *)
(* one request and the mosque it becomes are the whole model.               *)
(*                                                                          *)
(* The request and the decision of a link are transactions that lock the    *)
(* same two rows in opposite order: the first the mosque and then the link, *)
(* the second the link and then the mosque.  When each holds its first, the *)
(* database ends one of them (AbortLink).  The decision of a registration   *)
(* locks its request at once and is one step.                               *)
(*                                                                          *)
(* Accounts, names, reasons and the audit log are left out; an association  *)
(* is not deleted.                                                          *)
(***************************************************************************)
EXTENDS Handlers, Naturals

CONSTANT Associations  \* ids of associations

VARIABLES
  registration,  \* the row of mosque_registration_requests: its status, the mosques it made
  mosque,        \* the mosque's association, and whose hand set it
  links,         \* mosque_association_links, by association
  linkTx         \* what each transaction holds and has read

affiliationVars == <<registration, mosque, links, linkTx>>

None == "none"

Registration == [status : {"pending", "approved", "rejected"}, made : Nat]

\* `by` is history: a decided link, or the developer.
Mosque == [association : Associations \union {None}, by : {"link", "developer"}]

Link == [status : {"absent", "pending", "approved", "declined"}, by : {"mosque", "association"}]

NoLink == [status |-> "absent", by |-> "association"]

LinkTx == [pc : {"idle", "asking", "accepting", "declining"}, with : Associations \union {None}]

NoLinkTx == [pc |-> "idle", with |-> None]

Pending(a) == [status |-> "pending", by |-> a]

AffiliationInit ==
  /\ registration = [status |-> "pending", made |-> 0]
  /\ mosque = [association |-> None, by |-> "developer"]
  /\ links = [a \in Associations |-> NoLink]
  /\ linkTx = [w \in Workers |-> NoLinkTx]

-----------------------------------------------------------------------------
(* The registration of the mosque                                           *)

\* SELECT ... FOR UPDATE, and the refusal already_decided
Undecided == registration.status = "pending"

MosqueExists == registration.made > 0

\* approveRegistrationRequest: the association the developer chose or the applicant's
\* words named is set; or none, and the one the applicant asked for gets a link to decide
ApproveRegistration ==
  /\ Undecided
  /\ registration' = [status |-> "approved", made |-> registration.made + 1]
  /\ \E set, asked \in Associations \union {None} :
       /\ mosque' = [association |-> set, by |-> "developer"]
       /\ links' = IF set = None /\ asked # None /\ links[asked].status = "absent"
                   THEN [links EXCEPT ![asked] = Pending("mosque")] ELSE links
  /\ UNCHANGED linkTx

\* rejectRegistrationRequest
RejectRegistration ==
  /\ Undecided
  /\ registration' = [registration EXCEPT !.status = "rejected"]
  /\ UNCHANGED <<mosque, links, linkTx>>

-----------------------------------------------------------------------------
(* The links                                                                *)

Holds(w, pcs) == linkTx[w].pc \in pcs

\* Mutant: requestMosqueLink reads the mosque without FOR UPDATE.
MosqueLockForgotten == {}

\* FOR UPDATE on the mosque, until COMMIT
MosqueLockers == {w \in Workers : Holds(w, {"asking"})}

\* FOR UPDATE on the link, until COMMIT
LinkLockers(a) == {w \in Workers : Holds(w, {"accepting", "declining"}) /\ linkTx[w].with = a}

Begin(w, pc, a) == linkTx' = [linkTx EXCEPT ![w] = [pc |-> pc, with |-> a]]
Close(w) == linkTx' = [linkTx EXCEPT ![w] = NoLinkTx]

\* requestMosqueLink of association a: the mosque is locked and not its own
AskLink(w, a) ==
  /\ Holds(w, {"idle"})
  /\ MosqueExists
  /\ MosqueLockers = {}
  /\ mosque.association # a
  /\ Begin(w, "asking", a)
  /\ UNCHANGED <<registration, mosque, links>>

\* It locks the link: none, or one that was decided, is opened and committed
OpenLink(w) ==
  /\ Holds(w, {"asking"})
  /\ LET a == linkTx[w].with
     IN  /\ LinkLockers(a) = {}
         /\ links[a].status # "pending"
         /\ links' = [links EXCEPT ![a] = Pending("association")]
  /\ Close(w)
  /\ UNCHANGED <<registration, mosque>>

\* decideLink: the link is locked, pending, and the actor is the side that did not ask
TakeLink(w, a) ==
  /\ Holds(w, {"idle"})
  /\ LinkLockers(a) = {}
  /\ links[a].status = "pending"
  /\ \E pc \in {"accepting", "declining"} : Begin(w, pc, a)
  /\ UNCHANGED <<registration, mosque, links>>

\* It accepts: the UPDATE of the mosque waits for its lock
AcceptLink(w) ==
  /\ Holds(w, {"accepting"})
  /\ MosqueLockers = {}
  /\ LET a == linkTx[w].with
     IN  /\ links' = [links EXCEPT ![a].status = "approved"]
         /\ mosque' = [association |-> a, by |-> "link"]
  /\ Close(w)
  /\ UNCHANGED registration

DeclineLink(w) ==
  /\ Holds(w, {"declining"})
  /\ links' = [links EXCEPT ![linkTx[w].with].status = "declined"]
  /\ Close(w)
  /\ UNCHANGED <<registration, mosque>>

\* ROLLBACK: the link is pending already, the process ended, or the database broke the
\* circle of two transactions that wait for each other
AbortLink(w) ==
  /\ ~Holds(w, {"idle"})
  /\ Close(w)
  /\ UNCHANGED <<registration, mosque, links>>

\* setMosqueAssociation looks at no link
SetAssociation ==
  /\ MosqueExists
  /\ MosqueLockers = {}
  /\ \E a \in Associations \union {None} : mosque' = [association |-> a, by |-> "developer"]
  /\ UNCHANGED <<registration, links, linkTx>>

AffiliationNext ==
  \/ ApproveRegistration \/ RejectRegistration \/ SetAssociation
  \/ \E w \in Workers :
       \/ \E a \in Associations : AskLink(w, a) \/ TakeLink(w, a)
       \/ OpenLink(w) \/ AcceptLink(w) \/ DeclineLink(w) \/ AbortLink(w)

AffiliationSpec == AffiliationInit /\ [][AffiliationNext]_affiliationVars

-----------------------------------------------------------------------------
(* Properties                                                               *)

AffiliationTypeOK ==
  /\ registration \in Registration
  /\ mosque \in Mosque
  /\ links \in [Associations -> Link]
  /\ linkTx \in [Workers -> LinkTx]

\* A mosque belongs to an association with the other side's word: the link is approved,
\* neither open again nor declined, unless the developer set the association over it.
\* A request that is opened while another is accepted breaks it, were the mosque not
\* locked before the link (requestMosqueLink and decideLink, association-links-db.ts
\* 93-202); and one request makes one mosque (approveRegistrationRequest).
MembershipAgreed ==
  /\ mosque.by = "link" => links[mosque.association].status = "approved"
  /\ registration.made <= 1

=============================================================================
