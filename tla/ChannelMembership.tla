--------------------------- MODULE ChannelMembership ---------------------------
(***************************************************************************)
(* The members of a chat channel: ChannelController.create, addUsers and   *)
(* leave.  The member list is one field of the channel's document, which   *)
(* addUsers and leave read, and later write back from the copy they read.  *)
(* An event loop runs one handler at a time; handlers of different loops   *)
(* interleave at every access to the store.                                *)
(***************************************************************************)
EXTENDS Naturals, Sequences, SequencesExt

CONSTANTS
  User,
  Invitees,  \* the lists of invited or added users that clients send
  Loop,      \* event loops, each with the one handler it runs
  MaxUsers,  \* bound: members of the channel, counted with repetitions
  None       \* Java's null, or no document

ASSUME InviteesAssumption == Invitees \subseteq Seq(User)
ASSUME BoundAssumption == MaxUsers \in Nat
ASSUME NoneAssumption == None \notin Seq(User) \cup User

VARIABLES
  userIds,  \* Channel.userIds in the document, None before it exists
  founders, \* history: the list the channel was created with
  leavers,  \* history: the users that have called leave
  pc,       \* where the handler of loop l stands
  copy,     \* the member list it read
  arg       \* the users it adds, or the user that leaves

historyVars == <<founders, leavers>>
storeVars == <<userIds, historyVars>>
threadVars == <<pc, copy, arg>>
vars == <<storeVars, threadVars>>

TypeOK ==
  /\ userIds \in Seq(User) \cup {None}
  /\ founders \in Seq(User) \cup {None}
  /\ leavers \subseteq User
  /\ pc \in [Loop -> {"idle", "add", "announce", "write"}]
  /\ copy \in [Loop -> Seq(User) \cup {None}]
  /\ arg \in [Loop -> Seq(User) \cup User \cup {None}]

Init ==
  /\ userIds = None
  /\ founders = None
  /\ leavers = {}
  /\ pc = [l \in Loop |-> "idle"]
  /\ copy = [l \in Loop |-> None]
  /\ arg = [l \in Loop |-> None]

Goto(l, step) == pc' = [pc EXCEPT ![l] = step]

Call(l, step, list, a) ==
  /\ Goto(l, step)
  /\ copy' = [copy EXCEPT ![l] = list]
  /\ arg' = [arg EXCEPT ![l] = a]

Return(l) == Call(l, "idle", None, None)

\* Mutant: the inviter is not added.
CreateForInvitees(l, invited, inviter) ==
  /\ pc[l] = "idle"
  /\ userIds = None
  /\ Len(invited) < MaxUsers
  /\ userIds' = invited
  /\ founders' = userIds'
  /\ UNCHANGED <<leavers, threadVars>>

\* The inviter comes after the invitees.  The broadcast of CHANNEL_CREATED follows
\* and changes nothing.
Create(l, invited, inviter) ==
  /\ pc[l] = "idle"
  /\ userIds = None
  /\ Len(invited) < MaxUsers
  /\ userIds' = Append(invited, inviter)
  /\ founders' = userIds'
  /\ UNCHANGED <<leavers, threadVars>>

\* addUsers reads the channel; a missing one is a null pointer.
AddUsers(l, users) ==
  /\ pc[l] = "idle"
  /\ userIds # None
  /\ Len(userIds) + Len(users) <= MaxUsers
  /\ Call(l, "add", userIds, users)
  /\ UNCHANGED storeVars

\* Mutant: the added users replace the members.
WriteAddedOnly(l) ==
  /\ pc[l] = "add"
  /\ userIds' = arg[l]
  /\ Return(l)
  /\ UNCHANGED historyVars

\* Mutant: the list is added as one member.
WriteAddedAsOne(l) ==
  /\ pc[l] = "add"
  /\ userIds' = IF userIds = None THEN None ELSE Append(copy[l], arg[l])
  /\ Return(l)
  /\ UNCHANGED historyVars

\* The update of the document, from the copy: the users are not validated, and
\* may be members already.
WriteAdded(l) ==
  /\ pc[l] = "add"
  /\ userIds' = IF userIds = None THEN None ELSE copy[l] \o arg[l]
  /\ Return(l)
  /\ UNCHANGED historyVars

\* Mutant: leave drops the last member, whoever leaves.
WriteLeftWithoutLast(l) ==
  /\ pc[l] = "write"
  /\ userIds' = IF userIds = None \/ copy[l] = <<>> THEN None ELSE Front(copy[l])
  /\ Return(l)
  /\ UNCHANGED historyVars

\* leave reads the channel; without one it does nothing.
Leave(l, uid) ==
  /\ pc[l] = "idle"
  /\ userIds # None
  /\ Call(l, "announce", userIds, uid)
  /\ leavers' = leavers \cup {uid}
  /\ UNCHANGED <<userIds, founders>>

\* CHANNEL_LEFT is broadcast before anything is stored.
Announce(l) ==
  /\ pc[l] = "announce"
  /\ Goto(l, "write")
  /\ UNCHANGED <<storeVars, copy, arg>>

\* The copy is written back as it was read, with the leaver in it; a channel
\* without users would be deleted.
WriteLeft(l) ==
  /\ pc[l] = "write"
  /\ userIds' = IF userIds = None \/ copy[l] = <<>> THEN None ELSE copy[l]
  /\ Return(l)
  /\ UNCHANGED historyVars

\* An access to the store or a push fails, before or after it took effect.
Fault(l) ==
  /\ pc[l] # "idle"
  /\ Return(l)
  /\ UNCHANGED storeVars

Client(l) ==
  \/ \E users \in Invitees : AddUsers(l, users) \/ \E inviter \in User : Create(l, users, inviter)
  \/ \E uid \in User : Leave(l, uid)

Handler(l) == WriteAdded(l) \/ Announce(l) \/ WriteLeft(l) \/ Fault(l)

Next == \E l \in Loop : Client(l) \/ Handler(l)

Spec == Init /\ [][Next]_vars

--------------------------------------------------------------------------------

Member(user, list) == list # None /\ \E i \in DOMAIN list : list[i] = user

\* Whatever updates are lost, a user the channel was created with is a member until it
\* calls leave: the creation is one write, so every copy that is written back later
\* has it.  ChannelController.java:67-80, 109-115, 165-182.
FoundersStay ==
  \A user \in User : Member(user, founders) => Member(user, userIds) \/ user \in leavers

\* A member that does not leave is lost only by an update whose copy was out of date when
\* it was written back; so with one event loop nobody is.
\* ChannelController.java:109-115, 165-182.
OnlyStaleCopiesLose ==
  [][\A user \in User : Member(user, userIds) =>
       \/ Member(user, userIds')
       \/ \E l \in Loop :
            /\ pc[l] \in {"add", "write"} /\ pc'[l] = "idle"
            /\ copy[l] # userIds \/ arg[l] = user]_vars

\* Who left a channel is not a member of it any more: OpCode.java:52, "A user left the
\* channel", of the frame that leave has broadcast by then.
LeaverLeaves ==
  [][\A l \in Loop : WriteLeft(l) => \A i \in DOMAIN userIds' : userIds'[i] # arg[l]]_vars
================================================================================
