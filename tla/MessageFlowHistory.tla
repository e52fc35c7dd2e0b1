-------------------------- MODULE MessageFlowHistory --------------------------
(***************************************************************************)
(* MessageFlow with a history: how many receipts of each message were      *)
(* handled, and which messages were handled one frame at a time and        *)
(* without a failure.  It changes nothing of the flow; it lets             *)
(* one run ask what a message keeps when nothing got in its way, beside    *)
(* what it keeps whatever happens.                                         *)
(***************************************************************************)
EXTENDS MessageFlow

VARIABLES
  receipts,  \* MESSAGE_RECEIVED frames handled for each message
  clean      \* messages whose receipts came one at a time, none early, failed or repeated

Busy(m) == \E d \in Device : msg[d] = m
Acked(m) == {d \in Device : acks[m][d] > 0}

\* In this step a receipt of m from device d is taken up.
Arrives(m, d) == acks'[m][d] > acks[m][d]

\* In this step a receipt of m arrives while another handler works on m, before m is
\* stored or for the second time; or a handler of m ends early.
Mishap(m) ==
  \/ \E d \in Device : Arrives(m, d) /\ (Busy(m) \/ unread[m] = None \/ acks[m][d] > 0)
  \/ result[m] = "running" /\ result'[m] = "failed"
  \/ \E d \in Device : msg[d] = m /\ pc[d] \in Receiving \ {"notify"} /\ pc'[d] = "idle"

HistoryVars == <<vars, receipts, clean>>
HistoryInit == Init /\ receipts = [m \in Message |-> 0] /\ clean = Message
HistoryNext ==
  /\ Next
  /\ receipts' = [m \in Message |-> receipts[m] + IF \E d \in Device : Arrives(m, d) THEN 1 ELSE 0]
  /\ clean' = {m \in clean : ~Mishap(m)}
HistorySpec ==
  /\ HistoryInit /\ [][HistoryNext]_HistoryVars
  /\ \A d \in Device : WF_vars(Handler(d))

\* The devices whose receipt of m found the status it needs.
Heeded(m) == {d \in Acked(m) : status[m][d] # "none"}

\* A message whose handlers did not overlap, as on one event loop, counts every
\* receipt that found a status, once its handler is done: the status is READ, and
\* the unread count is the number of listed members less these devices.  A member that
\* the broadcast passed over has no status, and its receipt changes nothing.  With an
\* overlap a receipt can overtake the status it is for, and one of two decrements can
\* be lost.  MessageReceivedHandler.java:30-47, MessageController.java:47-75.
ReceiptsCount ==
  \A m \in clean : unread[m] # None /\ ~Busy(m) =>
    Readers(m) = Heeded(m) /\ unread[m] = Len(Members) - Cardinality(Heeded(m))

\* A receipt takes one from the count at most, however late, repeated or
\* overlapped it is: the handler does not look whether the status was READ before,
\* so a receipt sent twice counts twice, but never more.  MessageReceivedHandler.java:35-44.
ReceiptTakesOne ==
  \A m \in Message : unread[m] # None => unread[m] >= Len(Members) - receipts[m]
================================================================================
