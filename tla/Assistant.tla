------------------------------- MODULE Assistant -------------------------------
(***************************************************************************)
(* A proposal of the mosque's assistant (lib/agent/store.ts,                *)
(* lib/agent/execute.ts): the model proposes a change, an administrator     *)
(* executes or cancels it (api/mosques/[id]/agent/proposals/[proposalId]).  *)
(*                                                                         *)
(* A request reads the proposal, and executes in three more statements or   *)
(* steps: it claims the proposal, carries it out, and writes the outcome.   *)
(* Other requests run in between, and the process may end anywhere.         *)
(*                                                                         *)
(* Carrying out is one statement that changes something; an award of a      *)
(* badge reads twice more after it, and the connection may fail after the   *)
(* change.  What the change is, and what it depends on, is left open.       *)
(***************************************************************************)
EXTENDS Handlers, Naturals, FiniteSets

VARIABLES
  proposal,   \* the status of the row of agent_proposals
  carriedOut, \* history: how often the change was made
  clicks,     \* what each request is doing
  abandoned   \* history: a request ended with the proposal claimed

assistantVars == <<proposal, carriedOut, clicks, abandoned>>

ProposalStatuses == {"none", "pending", "executing", "approved", "rejected", "failed"}

Click == {"idle", "executing?", "cancelling?", "claimed", "done", "refused", "thrown"}

AssistantInit ==
  /\ proposal = "none"
  /\ carriedOut = 0
  /\ clicks = [w \in Workers |-> "idle"]
  /\ abandoned = FALSE

ClickAt(w, pc) == clicks[w] = pc
ClickGoes(w, pc) == clicks' = [clicks EXCEPT ![w] = pc]
ClickEnds(w) == ClickGoes(w, "idle")

\* createAgentProposal
Propose ==
  /\ proposal = "none"
  /\ proposal' = "pending"
  /\ UNCHANGED <<carriedOut, clicks, abandoned>>

\* getAgentProposal: the proposal is there and pending
OpenProposal(w) ==
  /\ ClickAt(w, "idle")
  /\ proposal = "pending"
  /\ \E pc \in {"executing?", "cancelling?"} : ClickGoes(w, pc)
  /\ UNCHANGED <<proposal, carriedOut, abandoned>>

\* Mutant: a proposal that is being executed may be cancelled.
RejectableOpen == proposal \in {"pending", "executing"}

\* AND status = 'pending'
Rejectable == proposal = "pending"

\* setAgentProposalStatus; otherwise 409
CancelProposal(w) ==
  /\ ClickAt(w, "cancelling?")
  /\ proposal' = IF Rejectable THEN "rejected" ELSE proposal
  /\ ClickEnds(w)
  /\ UNCHANGED <<carriedOut, abandoned>>

\* Mutant: the claim trusts what the request has read.
ClaimableAsRead == TRUE

\* AND status = 'pending'
ProposalClaimable == proposal = "pending"

\* claimAgentProposal; otherwise 409
ClaimProposal(w) ==
  /\ ClickAt(w, "executing?")
  /\ IF ProposalClaimable
     THEN proposal' = "executing" /\ ClickGoes(w, "claimed")
     ELSE UNCHANGED proposal /\ ClickEnds(w)
  /\ UNCHANGED <<carriedOut, abandoned>>

-----------------------------------------------------------------------------
(* executeAgentProposal                                                     *)

\* Nothing is changed: the feature is off, the payload does not pass, what it names is
\* gone, or a statement throws before the change
RefuseChange(w) ==
  /\ ClickAt(w, "claimed")
  /\ \E pc \in {"refused", "thrown"} : ClickGoes(w, pc)
  /\ UNCHANGED <<proposal, carriedOut, abandoned>>

\* The change is made; what comes after it may throw
MakeChange(w) ==
  /\ ClickAt(w, "claimed")
  /\ carriedOut' = carriedOut + 1
  /\ \E pc \in {"done", "thrown"} : ClickGoes(w, pc)
  /\ UNCHANGED <<proposal, abandoned>>

\* Mutant: what threw is taken for done.
OutcomeOfAll(pc) == IF pc = "refused" THEN "failed" ELSE "approved"

OutcomeOf(pc) == IF pc = "done" THEN "approved" ELSE "failed"

\* finishAgentProposal, AND status = 'executing'
FinishProposal(w) ==
  /\ clicks[w] \in {"done", "refused", "thrown"}
  /\ proposal' = IF proposal = "executing" THEN OutcomeOf(clicks[w]) ELSE proposal
  /\ ClickEnds(w)
  /\ UNCHANGED <<carriedOut, abandoned>>

\* The process ends, or finishAgentProposal throws
StopClick(w) ==
  /\ ~ClickAt(w, "idle")
  /\ abandoned' = (abandoned \/ clicks[w] \in {"claimed", "done", "refused", "thrown"})
  /\ ClickEnds(w)
  /\ UNCHANGED <<proposal, carriedOut>>

AssistantNext ==
  \/ Propose
  \/ \E w \in Workers :
       \/ OpenProposal(w) \/ CancelProposal(w) \/ ClaimProposal(w)
       \/ RefuseChange(w) \/ MakeChange(w) \/ FinishProposal(w) \/ StopClick(w)

AssistantSpec == AssistantInit /\ [][AssistantNext]_assistantVars

-----------------------------------------------------------------------------
(* Properties                                                               *)

AssistantTypeOK ==
  /\ proposal \in ProposalStatuses
  /\ carriedOut \in Nat
  /\ clicks \in [Workers -> Click]
  /\ abandoned \in BOOLEAN

Executors == {w \in Workers : clicks[w] \in {"claimed", "done", "refused", "thrown"}}

\* What a proposal says of itself is true, whoever executes and cancels it at once: an
\* approved one was carried out once, a rejected or a pending one never, none ever twice.
\* One that is being executed is in the hands of one request, or of none when that
\* request ended; one that failed may have been carried out by a request that threw after
\* the change (route.ts 31-60; store.ts 77-123; execute.ts 35-119, whose comment says
\* that a failure touches no row).
ProposalTruthful ==
  /\ carriedOut <= 1
  /\ proposal = "approved" => carriedOut = 1
  /\ proposal \in {"none", "pending", "rejected"} => carriedOut = 0
  /\ Cardinality(Executors) = IF proposal = "executing" /\ ~abandoned THEN 1 ELSE 0

=============================================================================
