-------------------------------- MODULE Messenger --------------------------------
(***************************************************************************)
(* One side of a conversation (components/messaging/messenger.tsx over      *)
(* lib/messaging.ts): the other party writes, this one opens the            *)
(* conversation, is shown what there is at each poll, and has the server    *)
(* mark it as read.  The badge counts what was written after the mark.      *)
(*                                                                         *)
(* Messages are numbered as they are stamped, and the mark last_read_at is  *)
(* the number of messages stamped by then.  This side's own messages,       *)
(* which the badge leaves out, older pages, other conversations and the     *)
(* rate limit are left out.  A poll and a reply are one step each; the       *)
(* request that marks is sent and arrives later, or never, and one stands    *)
(* for all that are under way.                                              *)
(***************************************************************************)
EXTENDS Naturals

CONSTANT MaxMessages  \* bound: messages of the other party

VARIABLES
  written,   \* messages of the other party
  lastRead,  \* last_read_at of this side
  open,      \* the conversation is on the screen
  seen,      \* seenRef: the latest message shown
  marking    \* a POST .../read is under way

vars == <<written, lastRead, open, seen, marking>>

Init ==
  /\ written = 0 /\ lastRead = 0
  /\ open = FALSE /\ seen = 0
  /\ marking = FALSE

\* The other party's sendMessage
Write ==
  /\ written < MaxMessages
  /\ written' = written + 1
  /\ UNCHANGED <<lastRead, open, seen, marking>>

\* openConversation: resetThread
Open ==
  /\ ~open
  /\ open' = TRUE /\ seen' = 0
  /\ UNCHANGED <<written, lastRead, marking>>

Close ==
  /\ open
  /\ open' = FALSE
  /\ UNCHANGED <<written, lastRead, seen, marking>>

\* loadThread, when the conversation opens and every POLL_MS: what was not shown before
\* is shown and marked; a poll with nothing new changes nothing
Poll ==
  /\ open
  /\ written > seen
  /\ seen' = written
  /\ marking' = TRUE
  /\ UNCHANGED <<written, lastRead, open>>

\* markConversationRead: last_read_at = now()
MarkConversationRead ==
  /\ marking
  /\ lastRead' = written
  /\ marking' = FALSE
  /\ UNCHANGED <<written, open, seen>>

\* markRead: a request that fails is caught and forgotten
LoseMark ==
  /\ marking
  /\ marking' = FALSE
  /\ UNCHANGED <<written, lastRead, open, seen>>

\* This side's sendMessage marks the conversation as read too; its answer, unless it is
\* lost, raises seenRef to a message that is later than all there are
Reply ==
  /\ open
  /\ lastRead' = written
  /\ seen' \in {seen, written}
  /\ UNCHANGED <<written, open, marking>>

Next == Write \/ Open \/ Close \/ Poll \/ MarkConversationRead \/ LoseMark \/ Reply

\* The timer goes on while the page is visible, and not every request is lost
Spec == Init /\ [][Next]_vars /\ WF_vars(Poll) /\ SF_vars(MarkConversationRead)

-----------------------------------------------------------------------------
(* Properties                                                               *)

Unread == written > lastRead

\* "Marking as read is best effort, the next poll repeats it" (messenger.tsx 62-68): what
\* is on the screen does not go on counting as unread while the conversation is open.
ShownGetsMarked ==
  (open /\ seen = written /\ Unread) ~> (~Unread \/ ~open \/ written > seen)

=============================================================================
