------------------------------- MODULE Delivery -------------------------------
(***************************************************************************)
(* ChannelController.broadcast: one frame to the members of a channel, one *)
(* member after another, through the session of the member's active device *)
(* or else through a push gateway.  One frame object is built per call and *)
(* addressed anew for each recipient with a session.                       *)
(*                                                                         *)
(* Broadcasts run in handlers of different event loops, against logins     *)
(* that change the active devices, sessions that come and go, and a push   *)
(* manager that is not there yet or no longer.  Sessions come and go as    *)
(* DeviceIndex says, which SessionNexus implements.                        *)
(***************************************************************************)
EXTENDS DeviceIndex, PushGateway, Sequences, FiniteSets, SequencesExt

CONSTANTS
  TypeOf,     \* the push type of each device, the one of its user that may be active
  Members,    \* the devices of Channel.userIds, in its order, repetitions included
  Broadcast,  \* calls of broadcast
  IdSpan,     \* ids a session can give a frame, 2^31 in IdGenerator
  MaxFlips    \* bound: changes of active flags

ASSUME TypeAssumption == TypeOf \in [Device -> PushType]
ASSUME MembersAssumption == Members \in Seq(Device)
ASSUME SpanAssumption == IdSpan \in Nat \ {0}
ASSUME FlipsAssumption == MaxFlips \in Nat
ASSUME NoneAssumption == None \notin Session \cup Nat

VARIABLES
  active,    \* the active flag of each device, in Elasticsearch
  flips,     \* how often one was changed
  drawn,     \* ids drawn from the generator of each session
  frames,    \* frames[s]: the addresses written to the connection of session s
  pc,        \* where broadcast b stands
  rest,      \* the members its loop has not come to
  target,    \* the session it has looked up
  frame,     \* the address its frame carries
  reached,   \* the devices it returns
  handed,    \* history: to whom it has handed what, and how
  steady     \* history: devices whose flag, or way, no one touched since it began

worldVars == <<manager, active, flips, indexVars>>
sessionVars == <<drawn, frames>>
threadVars == <<pc, rest, target, frame, reached, handed>>
vars == <<worldVars, sessionVars, threadVars, steady>>

Address == [session : Session \cup {None}, id : Nat \cup {None}]
Blank == [session |-> None, id |-> None]
Handing == [to : Device, via : Session \cup {None}, address : Address]
Steps == {"new", "member", "lookup", "stamp", "send", "push", "done", "failed"}

TypeOK ==
  /\ manager \in ManagerState
  /\ active \in [Device -> BOOLEAN]
  /\ flips \in 0 .. MaxFlips
  /\ IndexTypeOK
  /\ drawn \in [Session -> Nat]
  /\ frames \in [Session -> Seq(Address)]
  /\ pc \in [Broadcast -> Steps]
  /\ rest \in [Broadcast -> Seq(Device)]
  /\ target \in [Broadcast -> Session \cup {None}]
  /\ frame \in [Broadcast -> Address]
  /\ reached \in [Broadcast -> Seq(Device)]
  /\ handed \in [Broadcast -> Seq(Handing)]
  /\ steady \in [Broadcast -> [flag : SUBSET Device, way : SUBSET Device]]

Init ==
  /\ manager = "none"
  /\ active \in [Device -> BOOLEAN]
  /\ flips = 0
  /\ IndexInit
  /\ drawn = [s \in Session |-> 0]
  /\ frames = [s \in Session |-> <<>>]
  /\ pc = [b \in Broadcast |-> "new"]
  /\ rest = [b \in Broadcast |-> <<>>]
  /\ target = [b \in Broadcast |-> None]
  /\ frame = [b \in Broadcast |-> Blank]
  /\ reached = [b \in Broadcast |-> <<>>]
  /\ handed = [b \in Broadcast |-> <<>>]
  /\ steady = [b \in Broadcast |-> [flag |-> {}, way |-> {}]]

Goto(b, step) == pc' = [pc EXCEPT ![b] = step]

--------------------------------------------------------------------------------
(* What changes around a broadcast *)

\* That the manager is started, and later shut down, makes no difference to send.
GatewayStarts ==
  /\ BuildManager
  /\ UNCHANGED <<active, flips, indexVars, sessionVars, threadVars, steady>>

\* A login, a logout or an UPDATE_DEVICE_STATUS of another handler.
Flip(d) ==
  /\ flips < MaxFlips
  /\ flips' = flips + 1
  /\ active' = [active EXCEPT ![d] = ~@]
  /\ steady' = [b \in Broadcast |-> [steady[b] EXCEPT !.flag = @ \ {d}]]
  /\ UNCHANGED <<manager, indexVars, sessionVars, threadVars>>

\* A put that may grow the table leaves nobody's way steady, any other change of
\* deviceMap that of its device.
PutBegins(s, d) ==
  /\ BeginPut(s, d)
  /\ steady' = [b \in Broadcast |->
       [steady[b] EXCEPT !.way = IF leads[d] = None THEN {} ELSE @]]
  /\ UNCHANGED <<manager, active, flips, sessionVars, threadVars>>

WayChanges(d) ==
  /\ steady' = [b \in Broadcast |-> [steady[b] EXCEPT !.way = @ \ {d}]]
  /\ UNCHANGED <<manager, active, flips, sessionVars, threadVars>>

PutEnds(s) == EndPut(s) /\ WayChanges(device[s])
Disposes(s) == RemoveEntry(s) /\ WayChanges(device[s])

World == GatewayStarts \/ (\E d \in Device : Flip(d))
           \/ \E s \in Session : (\E d \in Device : PutBegins(s, d)) \/ PutEnds(s) \/ Disposes(s)

--------------------------------------------------------------------------------
(* ChannelController.broadcast *)

\* Mutant: the frame is shared with another broadcast.
StartWithSharedFrame(b) ==
  /\ pc[b] = "new"
  /\ Goto(b, "member")
  /\ rest' = [rest EXCEPT ![b] = Members]
  /\ \E o \in Broadcast : frame' = [frame EXCEPT ![b] = frame[o]]
  /\ steady' = [steady EXCEPT ![b] = [flag |-> Device, way |-> IF Growing THEN {} ELSE Device]]
  /\ UNCHANGED <<worldVars, sessionVars, target, reached, handed>>

\* Each caller builds a frame of its own, without an address.
Start(b) ==
  /\ pc[b] = "new"
  /\ Goto(b, "member")
  /\ rest' = [rest EXCEPT ![b] = Members]
  /\ frame' = [frame EXCEPT ![b] = Blank]
  /\ steady' = [steady EXCEPT ![b] = [flag |-> Device, way |-> IF Growing THEN {} ELSE Device]]
  /\ UNCHANGED <<worldVars, sessionVars, target, reached, handed>>

\* Mutant: a member without an active device ends the loop.
NextMemberBreaks(b) ==
  /\ pc[b] = "member"
  /\ rest[b] # <<>>
  /\ LET x == Head(rest[b])
     IN  \/ active[x] /\ reached' = [reached EXCEPT ![b] = Append(@, x)]
                      /\ Goto(b, "lookup") /\ UNCHANGED rest
         \/ ~active[x] /\ rest' = [rest EXCEPT ![b] = <<>>] /\ UNCHANGED <<pc, reached>>
  /\ UNCHANGED <<worldVars, sessionVars, target, frame, handed, steady>>

\* getActive: a member without an active device is passed over, another is listed
\* as reached before anything is sent.
NextMember(b) ==
  /\ pc[b] = "member"
  /\ rest[b] # <<>>
  /\ LET x == Head(rest[b])
     IN  \/ active[x] /\ reached' = [reached EXCEPT ![b] = Append(@, x)]
                      /\ Goto(b, "lookup") /\ UNCHANGED rest
         \/ ~active[x] /\ rest' = [rest EXCEPT ![b] = Tail(@)] /\ UNCHANGED <<pc, reached>>
  /\ UNCHANGED <<worldVars, sessionVars, target, frame, handed, steady>>

\* Mutant: the session is looked up for the first member of the channel.
LookupFirst(b) ==
  /\ pc[b] = "lookup"
  /\ LET found == leads[Head(Members)]
     IN  /\ target' = [target EXCEPT ![b] = found]
         /\ Goto(b, IF found = None THEN "push" ELSE "stamp")
  /\ UNCHANGED <<worldVars, sessionVars, rest, frame, reached, handed, steady>>

\* getByDeviceId, without the monitor.
Lookup(b) ==
  /\ pc[b] = "lookup"
  /\ \E found \in Found(Head(rest[b])) :
       /\ target' = [target EXCEPT ![b] = found]
       /\ Goto(b, IF found = None THEN "push" ELSE "stamp")
  /\ UNCHANGED <<worldVars, sessionVars, rest, frame, reached, handed, steady>>

\* Mutant: the frame is given an id only when it has none, as in Session.send.
StampOnce(b) ==
  /\ pc[b] = "stamp"
  /\ LET s == target[b]
         fresh == frame[b].id = None
     IN  /\ frame' = [frame EXCEPT ![b] =
                [session |-> s, id |-> IF fresh THEN drawn[s] % IdSpan ELSE @.id]]
         /\ drawn' = [drawn EXCEPT ![s] = IF fresh THEN @ + 1 ELSE @]
  /\ Goto(b, "send")
  /\ UNCHANGED <<worldVars, frames, rest, target, reached, handed, steady>>

\* Mutant: the frame carries the device id in place of the session id.
StampWithDevice(b) ==
  /\ pc[b] = "stamp"
  /\ LET s == target[b]
     IN  /\ frame' = [frame EXCEPT ![b] = [session |-> device[s], id |-> drawn[s] % IdSpan]]
         /\ drawn' = [drawn EXCEPT ![s] = @ + 1]
  /\ Goto(b, "send")
  /\ UNCHANGED <<worldVars, frames, rest, target, reached, handed, steady>>

\* The frame takes the session's id and the next id of its generator, which wraps.
Stamp(b) ==
  /\ pc[b] = "stamp"
  /\ LET s == target[b]
     IN  /\ frame' = [frame EXCEPT ![b] = [session |-> s, id |-> drawn[s] % IdSpan]]
         /\ drawn' = [drawn EXCEPT ![s] = @ + 1]
  /\ Goto(b, "send")
  /\ UNCHANGED <<worldVars, frames, rest, target, reached, handed, steady>>

Hand(b, how) ==
  /\ handed' = [handed EXCEPT ![b] =
       Append(@, [to |-> Head(rest[b]), via |-> how, address |-> frame[b]])]
  /\ rest' = [rest EXCEPT ![b] = Tail(@)]
  /\ target' = [target EXCEPT ![b] = None]
  /\ Goto(b, "member")

\* Session.send serializes the frame and writes it; it does not throw, and nobody
\* asks whether the connection is still there.
Send(b) ==
  /\ pc[b] = "send"
  /\ frames' = [frames EXCEPT ![target[b]] = Append(@, frame[b])]
  /\ Hand(b, target[b])
  /\ UNCHANGED <<worldVars, drawn, frame, reached, steady>>

\* PushGateway.send, with whatever address the frame has by now.
Push(b) ==
  /\ pc[b] = "push"
  /\ PushReturns(TypeOf[Head(rest[b])])
  /\ Hand(b, None)
  /\ UNCHANGED <<worldVars, sessionVars, frame, reached, steady>>

\* The broadcast is over; its frame and its list are the caller's.
Over(b, how) ==
  /\ Goto(b, how)
  /\ rest' = [rest EXCEPT ![b] = <<>>]
  /\ target' = [target EXCEPT ![b] = None]
  /\ frame' = [frame EXCEPT ![b] = Blank]
  /\ reached' = [reached EXCEPT ![b] = <<>>]
  /\ handed' = [handed EXCEPT ![b] = <<>>]
  /\ steady' = [steady EXCEPT ![b] = [flag |-> {}, way |-> {}]]
  /\ UNCHANGED <<worldVars, sessionVars>>

\* getActive or a push, of whatever type, throws: the members left get nothing, and the caller never
\* sees the list of those reached.
Throw(b) ==
  /\ \/ pc[b] = "member" /\ rest[b] # <<>>
     \/ pc[b] = "push"
  /\ Over(b, "failed")

End(b) ==
  /\ pc[b] = "member"
  /\ rest[b] = <<>>
  /\ Over(b, "done")

Run(b) == Start(b) \/ NextMember(b) \/ Lookup(b) \/ Stamp(b) \/ Send(b) \/ Push(b)
            \/ Throw(b) \/ End(b)

Next == World \/ \E b \in Broadcast : Run(b)

Spec == Init /\ [][Next]_vars

--------------------------------------------------------------------------------
(* What a broadcast promises *)

Count(seq, d) == Cardinality({i \in DOMAIN seq : seq[i] = d})
Recipients(b) == [i \in DOMAIN handed[b] |-> handed[b][i].to]

Stages == [b \in Broadcast |-> IF pc[b] \in {"new", "done", "failed"} THEN pc[b] ELSE "on"]
Serveds == [b \in Broadcast |-> Recipients(b)]

Rounds == INSTANCE BroadcastRounds WITH
            Round <- Broadcast, stage <- Stages, left <- rest, served <- Serveds

\* Delivery implements BroadcastRounds: whatever sessions, flags and push gateways do
\* meanwhile, each member is passed over or handed the frame once, in the order of
\* the list, and a broadcast returns after the last one only.
\* ChannelController.java:125-160.
BroadcastAsRun == Rounds!RoundsSpec
Ends(b) == pc[b] = "member" /\ pc'[b] = "done"

\* A connection is only ever written frames of its own session, and no two of them
\* have the same id until the generator wraps, however many broadcasts write to it
\* at once.  ChannelController.java:153-156, Session.java:144-146, 165-175.
FramesAddressed ==
  \A s \in Session :
    /\ \A i \in DOMAIN frames[s] : frames[s][i].session = s
    /\ drawn[s] <= IdSpan => IsInjective(frames[s])

\* A push carries no address, or the one its frame got for the last recipient with a
\* session in the same broadcast: never that of another broadcast.
\* ChannelController.java:147-154.
PushBorrowsItsOwn ==
  \A b \in Broadcast : \A i \in DOMAIN handed[b] :
    handed[b][i].via = None =>
      LET before == {j \in 1 .. i - 1 : handed[b][j].via # None}
      IN  handed[b][i].address =
            IF before = {} THEN Blank
            ELSE handed[b][CHOOSE j \in before : \A k \in before : k <= j].address

\* A broadcast that ends without a fault has handed its frame to each device whose
\* flag stayed as it was: as often as the channel lists it if it is active, never if
\* it is not; and it returns exactly the devices it handed the frame to, the ones
\* MessageController records.  ChannelController.java:136-160.
HandedToActive ==
  [][\A b \in Broadcast : Ends(b) =>
       /\ reached[b] = Recipients(b)
       /\ \A d \in steady[b].flag :
            Count(Recipients(b), d) = IF active[d] THEN Count(Members, d) ELSE 0]_vars

\* A device whose session nobody registered or disposed meanwhile gets every frame
\* through that session, and by push only without one.  ChannelController.java:147-156.
HandedTheRightWay ==
  [][\A b \in Broadcast : Ends(b) =>
       \A i \in DOMAIN handed[b] :
         handed[b][i].to \in steady[b].way => handed[b][i].via = leads[handed[b][i].to]]_vars
================================================================================
