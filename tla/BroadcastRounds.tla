--------------------------- MODULE BroadcastRounds ---------------------------
(***************************************************************************)
(* ChannelController.broadcast as its callers meet it: the members are     *)
(* gone through once, in order, and each is passed over or served, until   *)
(* the list is done or something throws.  Only the former returns.         *)
(*                                                                         *)
(* MessageFlow calls broadcasts and Delivery says how they run.  Both      *)
(* implement this module, so that the one leaves nothing out that the      *)
(* other does, and the other does nothing that the one does not expect.    *)
(***************************************************************************)
EXTENDS Sequences

CONSTANTS
  Members,   \* the devices of Channel.userIds, in its order, repetitions included
  Round      \* calls of broadcast

VARIABLES
  stage,     \* how far each call is
  left,      \* the members it has not come to
  served     \* the devices that were handed the frame, in order

roundVars == <<stage, left, served>>

RoundsInit ==
  /\ stage = [b \in Round |-> "new"]
  /\ left = [b \in Round |-> <<>>]
  /\ served = [b \in Round |-> <<>>]

Begin(b) ==
  /\ stage[b] = "new"
  /\ stage' = [stage EXCEPT ![b] = "on"]
  /\ left' = [left EXCEPT ![b] = Members]
  /\ UNCHANGED served

Turn(b) ==
  /\ stage[b] = "on"
  /\ left[b] # <<>>
  /\ left' = [left EXCEPT ![b] = Tail(@)]
  /\ UNCHANGED stage

\* A member without an active device.
PassOver(b) == Turn(b) /\ UNCHANGED served

\* A member with one, whatever becomes of the frame on the way.
Serve(b) == Turn(b) /\ served' = [served EXCEPT ![b] = Append(@, Head(left[b]))]

Close(b, how) ==
  /\ stage[b] = "on"
  /\ stage' = [stage EXCEPT ![b] = how]
  /\ left' = [left EXCEPT ![b] = <<>>]
  /\ served' = [served EXCEPT ![b] = <<>>]

\* The list is returned to the caller.
Finish(b) == left[b] = <<>> /\ Close(b, "done")

\* getActive or a push throws; the caller never sees the list.
BreakOff(b) == left[b] # <<>> /\ Close(b, "failed")

\* The caller fails before it calls, or afterwards.
CallerFails(b) ==
  /\ stage[b] \in {"new", "done"}
  /\ stage' = [stage EXCEPT ![b] = "failed"]
  /\ UNCHANGED <<left, served>>

RoundsNext ==
  \E b \in Round : Begin(b) \/ PassOver(b) \/ Serve(b) \/ Finish(b) \/ BreakOff(b) \/ CallerFails(b)

RoundsSpec == RoundsInit /\ [][RoundsNext]_roundVars
==============================================================================
