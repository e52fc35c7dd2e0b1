------------------------------ MODULE MessageFlow ------------------------------
(***************************************************************************)
(* A message from CREATE_MESSAGE to the last read receipt:                 *)
(* MessageController.create and its broadcast, MessageStatusController and *)
(* MessageReceivedHandler.  All of them keep their state in two documents  *)
(* of Elasticsearch, the message with its unread count and one status per  *)
(* device, which every handler reads and rewrites without any lock or      *)
(* version.                                                                *)
(*                                                                         *)
(* One chat channel, whose members have one device each.  Handlers of      *)
(* devices served by the same event loop run one after another; handlers   *)
(* of different loops interleave at every access to the store.             *)
(***************************************************************************)
EXTENDS Integers, Sequences, FiniteSets

CONSTANTS
  Device,    \* the devices of the users
  Members,   \* the devices of Channel.userIds, in its order, repetitions included
  Message,   \* message ids
  Loop,      \* event loops (worker threads)
  LoopOf,    \* the event loop that serves each device's connection
  MaxAcks,   \* bound: MESSAGE_RECEIVED frames a device sends for one message
  Faults,    \* what may fail: "store" (Elasticsearch), "delivery" (a push gateway)
  None       \* Java's null

ASSUME MembersAssumption == Members \in Seq(Device)
ASSUME LoopAssumption == LoopOf \in [Device -> Loop]
ASSUME AcksAssumption == MaxAcks \in Nat
ASSUME FaultsAssumption == Faults \subseteq {"store", "delivery"}
ASSUME NoneAssumption == None \notin Int /\ None \notin Message

VARIABLES
  unread,     \* unreadCount in the document of each message, None before it exists
  status,     \* status[m][d]: the messageStatus document of message m and device d
  pc,         \* where the handler of device d's connection stands
  msg,        \* the message that handler works on
  seen,       \* the unread count it read
  rest,       \* the members its broadcast has not come to
  reached,    \* the devices its broadcast returns, less those recorded already
  delivered,  \* the devices that got MESSAGE_CREATED of each message
  acks,       \* acks[m][d]: MESSAGE_RECEIVED frames handled
  result      \* how the CREATE_MESSAGE of each message ended

storeVars == <<unread, status>>
threadVars == <<pc, msg, seen, rest, reached>>
worldVars == <<delivered, acks, result>>
vars == <<storeVars, threadVars, worldVars>>

Creating == {"index", "broadcast", "record"}
Receiving == {"setRead", "getMessage", "setUnread", "notify"}

TypeOK ==
  /\ unread \in [Message -> Int \cup {None}]
  /\ status \in [Message -> [Device -> {"none", "SENT", "READ"}]]
  /\ pc \in [Device -> {"idle"} \cup Creating \cup Receiving]
  /\ msg \in [Device -> Message \cup {None}]
  /\ seen \in [Device -> Int \cup {None}]
  /\ rest \in [Device -> Seq(Device)]
  /\ reached \in [Device -> Seq(Device)]
  /\ delivered \in [Message -> SUBSET Device]
  /\ acks \in [Message -> [Device -> 0 .. MaxAcks]]
  /\ result \in [Message -> {"none", "running", "ok", "failed"}]

Init ==
  /\ unread = [m \in Message |-> None]
  /\ status = [m \in Message |-> [d \in Device |-> "none"]]
  /\ pc = [d \in Device |-> "idle"]
  /\ msg = [d \in Device |-> None]
  /\ seen = [d \in Device |-> None]
  /\ rest = [d \in Device |-> <<>>]
  /\ reached = [d \in Device |-> <<>>]
  /\ delivered = [m \in Message |-> {}]
  /\ acks = [m \in Message |-> [d \in Device |-> 0]]
  /\ result = [m \in Message |-> "none"]

\* No handler of d's event loop is running.
LoopFree(d) == \A e \in Device : LoopOf[e] = LoopOf[d] => pc[e] = "idle"

Goto(d, step) == pc' = [pc EXCEPT ![d] = step]

\* The handler ends, by a return or by an exception that SmpframeHandler turns
\* into an error frame: nothing of what it stored is undone.
Return(d) ==
  /\ Goto(d, "idle")
  /\ msg' = [msg EXCEPT ![d] = None]
  /\ seen' = [seen EXCEPT ![d] = None]
  /\ rest' = [rest EXCEPT ![d] = <<>>]
  /\ reached' = [reached EXCEPT ![d] = <<>>]

Ends(m, how) == result' = [result EXCEPT ![m] = how]

--------------------------------------------------------------------------------
(* CREATE_MESSAGE: MessageController.create *)

CreateMessage(d, m) ==
  /\ LoopFree(d)
  /\ result[m] = "none"
  /\ Ends(m, "running")
  /\ msg' = [msg EXCEPT ![d] = m]
  /\ Goto(d, "index")
  /\ UNCHANGED <<storeVars, seen, rest, reached, delivered, acks>>

\* Mutant: the creator is not counted.
IndexMessageForOthers(d) ==
  /\ pc[d] = "index"
  /\ unread' = [unread EXCEPT ![msg[d]] = Len(Members) - 1]
  /\ rest' = [rest EXCEPT ![d] = Members]
  /\ Goto(d, "broadcast")
  /\ UNCHANGED <<status, msg, seen, reached, worldVars>>

\* The unread count starts at the number of members, whoever gets the message.
IndexMessage(d) ==
  /\ pc[d] = "index"
  /\ unread' = [unread EXCEPT ![msg[d]] = Len(Members)]
  /\ rest' = [rest EXCEPT ![d] = Members]
  /\ Goto(d, "broadcast")
  /\ UNCHANGED <<status, msg, seen, reached, worldVars>>

\* Mutant: a device reached by a push is left out of the returned list.
BroadcastForgetsPushed(d) ==
  /\ pc[d] = "broadcast"
  /\ rest[d] # <<>>
  /\ rest' = [rest EXCEPT ![d] = Tail(@)]
  /\ LET x == Head(rest[d])
     IN  \/ UNCHANGED <<reached, delivered>>
         \/ /\ delivered' = [delivered EXCEPT ![msg[d]] = @ \cup {x}]
            /\ UNCHANGED reached
         \/ /\ delivered' = [delivered EXCEPT ![msg[d]] = @ \cup {x}]
            /\ reached' = [reached EXCEPT ![d] = Append(@, x)]
  /\ UNCHANGED <<storeVars, pc, msg, seen, acks, result>>

\* ChannelController.broadcast, one member: its device is not active; or it is
\* reached, and the frame or push arrives or is lost on the way.
Broadcast(d) ==
  /\ pc[d] = "broadcast"
  /\ rest[d] # <<>>
  /\ rest' = [rest EXCEPT ![d] = Tail(@)]
  /\ LET x == Head(rest[d])
     IN  \/ UNCHANGED <<reached, delivered>>
         \/ /\ reached' = [reached EXCEPT ![d] = Append(@, x)]
            /\ \/ delivered' = [delivered EXCEPT ![msg[d]] = @ \cup {x}]
               \/ UNCHANGED delivered
  /\ UNCHANGED <<storeVars, pc, msg, seen, acks, result>>

\* Mutant: the statuses are recorded while members are left.
EndBroadcastEarly(d) ==
  /\ pc[d] = "broadcast"
  /\ Goto(d, "record")
  /\ rest' = [rest EXCEPT ![d] = <<>>]
  /\ UNCHANGED <<storeVars, msg, seen, reached, worldVars>>

EndBroadcast(d) ==
  /\ pc[d] = "broadcast"
  /\ rest[d] = <<>>
  /\ Goto(d, "record")
  /\ UNCHANGED <<storeVars, msg, seen, rest, reached, worldVars>>

\* Mutant: the status document is written without its status.
RecordWithoutStatus(d) ==
  /\ pc[d] = "record"
  /\ reached[d] # <<>>
  /\ status' = [status EXCEPT ![msg[d]][Head(reached[d])] = None]
  /\ reached' = [reached EXCEPT ![d] = Tail(@)]
  /\ UNCHANGED <<unread, pc, msg, seen, rest, delivered, acks, result>>

\* MessageStatusController.create for one reached device: the document is
\* written, and if there was one already it is overwritten and the handler fails.
Record(d) ==
  /\ pc[d] = "record"
  /\ reached[d] # <<>>
  /\ LET m == msg[d]
         x == Head(reached[d])
     IN  /\ status' = [status EXCEPT ![m][x] = "SENT"]
         /\ \/ /\ status[m][x] = "none"
               /\ reached' = [reached EXCEPT ![d] = Tail(@)]
               /\ UNCHANGED <<pc, msg, seen, rest, result>>
            \/ status[m][x] # "none" /\ Return(d) /\ Ends(m, "failed")
  /\ UNCHANGED <<unread, delivered, acks>>

EndCreate(d) ==
  /\ pc[d] = "record"
  /\ reached[d] = <<>>
  /\ Return(d)
  /\ Ends(msg[d], "ok")
  /\ UNCHANGED <<storeVars, delivered, acks>>

Create(d) == IndexMessage(d) \/ Broadcast(d) \/ EndBroadcast(d) \/ Record(d) \/ EndCreate(d)

--------------------------------------------------------------------------------
(* MESSAGE_RECEIVED: MessageReceivedHandler.smpframeReceived *)

\* Mutant: a missing status of a stored message is created by the receipt.
ReceiveUpserts(d, m) ==
  /\ LoopFree(d)
  /\ acks[m][d] < MaxAcks
  /\ acks' = [acks EXCEPT ![m][d] = @ + 1]
  /\ \/ unread[m] = None /\ UNCHANGED <<pc, msg>>
     \/ unread[m] # None /\ Goto(d, "setRead") /\ msg' = [msg EXCEPT ![d] = m]
  /\ UNCHANGED <<storeVars, seen, rest, reached, delivered, result>>

\* A frame with any message id, whether the message was delivered to the device, read
\* from RETRIEVE_MESSAGES or is not there yet.  The status is read first; without one
\* the handler fails on a null pointer and the receipt is gone.
Receive(d, m) ==
  /\ LoopFree(d)
  /\ acks[m][d] < MaxAcks
  /\ acks' = [acks EXCEPT ![m][d] = @ + 1]
  /\ \/ status[m][d] = "none" /\ UNCHANGED <<pc, msg>>
     \/ status[m][d] # "none" /\ Goto(d, "setRead") /\ msg' = [msg EXCEPT ![d] = m]
  /\ UNCHANGED <<storeVars, seen, rest, reached, delivered, result>>

SetRead(d) ==
  /\ pc[d] = "setRead"
  /\ status' = [status EXCEPT ![msg[d]][d] = "READ"]
  /\ Goto(d, "getMessage")
  /\ UNCHANGED <<unread, msg, seen, rest, reached, worldVars>>

GetMessage(d) ==
  /\ pc[d] = "getMessage"
  /\ seen' = [seen EXCEPT ![d] = unread[msg[d]]]
  /\ Goto(d, "setUnread")
  /\ UNCHANGED <<storeVars, msg, rest, reached, worldVars>>

\* Mutant: the count is written back as it was read.
SetUnreadAsRead(d) ==
  /\ pc[d] = "setUnread"
  /\ unread' = [unread EXCEPT ![msg[d]] = seen[d]]
  /\ Goto(d, "notify")
  /\ UNCHANGED <<status, msg, seen, rest, reached, worldVars>>

\* Mutant: the handler takes one from the count, and the update another.
SetUnreadTwice(d) ==
  /\ pc[d] = "setUnread"
  /\ unread' = [unread EXCEPT ![msg[d]] = seen[d] - 2]
  /\ Goto(d, "notify")
  /\ UNCHANGED <<status, msg, seen, rest, reached, worldVars>>

\* MessageController.update rewrites the message from the copy in hand.
SetUnread(d) ==
  /\ pc[d] = "setUnread"
  /\ unread' = [unread EXCEPT ![msg[d]] = seen[d] - 1]
  /\ Goto(d, "notify")
  /\ UNCHANGED <<status, msg, seen, rest, reached, worldVars>>

\* UNREAD_COUNT_CHANGED goes out to the members, as far as it gets.
Notify(d) ==
  /\ pc[d] = "notify"
  /\ Return(d)
  /\ UNCHANGED <<storeVars, worldVars>>

Receipt(d) == SetRead(d) \/ GetMessage(d) \/ SetUnread(d) \/ Notify(d)

--------------------------------------------------------------------------------

\* Mutant: a failed CREATE_MESSAGE ends without an error.
FaultSwallowed(d) ==
  /\ "store" \in Faults
  /\ pc[d] \in {"index", "record", "setRead", "getMessage", "setUnread"}
  /\ Return(d)
  /\ UNCHANGED <<storeVars, worldVars>>

\* An access to the store or a push gateway throws, before or after it took
\* effect.
Fault(d) ==
  /\ \/ "store" \in Faults
        /\ pc[d] \in {"index", "record", "setRead", "getMessage", "setUnread"}
     \/ Faults # {} /\ pc[d] = "broadcast" /\ rest[d] # <<>>
  /\ Return(d)
  /\ IF pc[d] \in Creating THEN Ends(msg[d], "failed") ELSE UNCHANGED result
  /\ UNCHANGED <<storeVars, delivered, acks>>

Client(d) == \E m \in Message : CreateMessage(d, m) \/ Receive(d, m)
Handler(d) == Create(d) \/ Receipt(d) \/ Fault(d)
Next == \E d \in Device : Client(d) \/ Handler(d)
Spec == Init /\ [][Next]_vars

\* A handler that was called runs on; clients owe nothing.
FairSpec == Spec /\ \A d \in Device : WF_vars(Handler(d))
--------------------------------------------------------------------------------
(* The broadcasts that the flow calls: the round of a message is the one of  *)
(* MESSAGE_CREATED.                                                          *)

\* The handler of device d is at this step of creating m.
At(d, m, step) == pc[d] = step /\ msg[d] = m

StageOf(m) ==
  IF \E d \in Device : At(d, m, "broadcast") THEN "on"
  ELSE IF result[m] = "none" \/ \E d \in Device : At(d, m, "index") THEN "new"
  ELSE IF result[m] = "failed" THEN "failed"
  ELSE "done"

\* What the handler that broadcasts m has in a local variable of its own.
OfCaller(local, m) ==
  IF StageOf(m) = "on" THEN local[CHOOSE d \in Device : At(d, m, "broadcast")] ELSE <<>>

Stages == [m \in Message |-> StageOf(m)]
Lefts == [m \in Message |-> OfCaller(rest, m)]
Serveds == [m \in Message |-> OfCaller(reached, m)]

Rounds == INSTANCE BroadcastRounds WITH
            Round <- Message, stage <- Stages, left <- Lefts, served <- Serveds

\* MessageFlow implements BroadcastRounds: statuses are recorded only after the whole
\* list was gone through, and a list that was broken off is never recorded.
\* MessageController.java:60-75, ChannelController.java:125-160.
BroadcastAsCalled == Rounds!RoundsSpec

--------------------------------------------------------------------------------
(* What the flow guarantees *)

Readers(m) == {d \in Device : status[m][d] = "READ"}

\* The devices that Channel.userIds does not list twice.
ListedOnce == {d \in Device : \A i, j \in 1 .. Len(Members) : Members[i] = d /\ Members[j] = d => i = j}

\* A message is never shown as read by more members than have read it, whatever
\* updates are lost or fail, as long as no device has sent two receipts and none
\* that is listed twice has sent one.  MessageReceivedHandler.java:33-44.
NeverUndercounts ==
  \A m \in Message :
    unread[m] # None /\ (\A d \in Device : acks[m][d] <= IF d \in ListedOnce THEN 1 ELSE 0) =>
      unread[m] >= Len(Members) - Cardinality(Readers(m))

\* The status of a device that is listed once never goes back from READ, though
\* create writes SENT after devices may have answered the broadcast.
\* MessageStatusController.java:27-46, MessageController.java:66-73.
ReadIsFinal ==
  [][\A m \in Message : Readers(m) \cap ListedOnce \subseteq Readers(m)']_vars

\* When a message is created without an error, each device that got it has the
\* status its receipt needs.  MessageController.java:66-75.
CreatedMeansAnswerable ==
  \A m \in Message : result[m] = "ok" => \A d \in delivered[m] : status[m][d] # "none"

\* UNREAD_COUNT_CHANGED is broadcast only for an update that changed the count.
\* OpCode.java:53, "Unread count changed".
NotifiedMeansChanged ==
  [][\A d \in Device : pc[d] = "setUnread" /\ pc'[d] = "notify" =>
       unread'[msg[d]] # unread[msg[d]]]_vars

\* Liveness: a message that is being created is done with, one way or the other,
\* however many receipts arrive meanwhile.
CreateEnds == \A m \in Message : result[m] = "running" ~> result[m] \in {"ok", "failed"}
================================================================================
