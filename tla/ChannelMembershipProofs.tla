------------------------ MODULE ChannelMembershipProofs ------------------------
(***************************************************************************)
(* Theorems about ChannelMembership, for any users, lists and event loops: *)
(* the members a channel was created with stay until they leave, however   *)
(* many additions are lost.  Every copy that a handler holds, fresh or     *)
(* stale, starts with the founders (Held), and so does what any of them    *)
(* writes back, as leave writes the list it read.                          *)
(***************************************************************************)
EXTENDS ChannelMembership, TLAPS

\* Every list of members begins with the founders, who are at least one.
Held ==
  IF founders = None
  THEN userIds = None /\ \A l \in Loop : pc[l] = "idle"
  ELSE /\ founders \in Seq(User) /\ founders # <<>>
       /\ userIds \in Seq(User) /\ IsPrefix(founders, userIds)
       /\ \A l \in Loop : pc[l] # "idle" =>
            copy[l] \in Seq(User) /\ IsPrefix(founders, copy[l])

ListInv ==
  /\ pc \in [Loop -> {"idle", "add", "announce", "write"}]
  /\ copy \in [Loop -> Seq(User) \cup {None}]
  /\ arg \in [Loop -> Seq(User) \cup User \cup {None}]
  /\ \A l \in Loop : pc[l] = "add" => arg[l] \in Seq(User)
  /\ leavers \subseteq User
  /\ Held

\* A list begins with itself.
LEMMA PrefixOfItself == ASSUME NEW s \in Seq(User) PROVE IsPrefix(s, s)
  BY DEF IsPrefix

\* What a list begins with, a longer one begins with.
LEMMA PrefixOfConcat ==
  ASSUME NEW s \in Seq(User), NEW t \in Seq(User), NEW u \in Seq(User), IsPrefix(s, t)
  PROVE  IsPrefix(s, t \o u)
  <1>1. Len(s) <= Len(t) /\ Len(t \o u) = Len(t) + Len(u) /\ Len(s) \in Nat /\ Len(t) \in Nat /\ Len(u) \in Nat
    BY DEF IsPrefix
  <1>2. \A i \in 1 .. Len(s) : s[i] = t[i]
    <2>1. ASSUME NEW i \in 1 .. Len(s) PROVE SubSeq(s, 1, Len(s))[i] = s[i] /\ SubSeq(t, 1, Len(s))[i] = t[i]
      BY <1>1
    <2> QED BY <2>1 DEF IsPrefix
  <1>3. \A i \in 1 .. Len(s) : (t \o u)[i] = s[i]
    BY <1>1, <1>2
  <1>4. SubSeq(s, 1, Len(s)) = SubSeq(t \o u, 1, Len(s))
    BY <1>1, <1>3
  <1> QED BY <1>1, <1>4 DEF IsPrefix

\* Who is in a list is in every list that begins with it.
LEMMA PrefixMembers ==
  ASSUME NEW s \in Seq(User), NEW t \in Seq(User), IsPrefix(s, t), NEW user, Member(user, s)
  PROVE  Member(user, t)
  <1>1. Len(s) <= Len(t) /\ Len(s) \in Nat /\ Len(t) \in Nat
    BY DEF IsPrefix
  <1>2. PICK i \in 1 .. Len(s) : s[i] = user
    BY DEF Member
  <1>3. SubSeq(s, 1, Len(s))[i] = s[i] /\ SubSeq(t, 1, Len(s))[i] = t[i]
    BY <1>1
  <1>4. i \in DOMAIN t /\ t[i] = user
    BY <1>1, <1>2, <1>3 DEF IsPrefix
  <1> QED BY <1>4, NoneAssumption DEF Member

\* A list that begins with a member has one.
LEMMA PrefixNotEmpty ==
  ASSUME NEW s \in Seq(User), NEW t \in Seq(User), s # <<>>, IsPrefix(s, t)
  PROVE  t # <<>>
  BY DEF IsPrefix
--------------------------------------------------------------------------------

\* Every step keeps the invariant.
LEMMA Step == ListInv /\ [Next]_vars => ListInv'
  <1> SUFFICES ASSUME ListInv, [Next]_vars PROVE ListInv'
    OBVIOUS
  <1> USE NoneAssumption
  <1>1. ASSUME NEW l \in Loop, NEW invited \in Invitees, NEW inviter \in User, Create(l, invited, inviter)
        PROVE  ListInv'
    <2>1. /\ invited \in Seq(User) /\ userIds = None
          /\ userIds' = Append(invited, inviter) /\ founders' = userIds'
          /\ UNCHANGED <<leavers, pc, copy, arg>>
      BY <1>1, InviteesAssumption DEF Create, threadVars
    <2>2. founders = None
      BY <2>1 DEF ListInv, Held
    <2>3. userIds' \in Seq(User) /\ userIds' # <<>>
      BY <2>1
    <2>4. IsPrefix(userIds', userIds')
      BY <2>3, PrefixOfItself
    <2>5. Held'
      BY <2>1, <2>2, <2>3, <2>4 DEF ListInv, Held
    <2> QED BY <2>1, <2>5 DEF ListInv
  <1>2. ASSUME NEW l \in Loop, NEW step \in {"add", "announce"}, pc[l] = "idle", userIds # None,
               NEW a \in Seq(User) \cup User, step = "add" => a \in Seq(User),
               Call(l, step, userIds, a), leavers' \subseteq User, UNCHANGED <<userIds, founders>>
        PROVE  ListInv'
    <2>1. founders # None /\ userIds \in Seq(User) /\ IsPrefix(founders, userIds)
      BY <1>2 DEF ListInv, Held
    <2>2. /\ pc' = [pc EXCEPT ![l] = step]
          /\ copy' = [copy EXCEPT ![l] = userIds]
          /\ arg' = [arg EXCEPT ![l] = a]
          /\ UNCHANGED <<userIds, founders>>
      BY <1>2 DEF Call, Goto
    <2>3. Held'
      BY <2>1, <2>2 DEF ListInv, Held
    <2> QED BY <1>2, <2>1, <2>2, <2>3 DEF ListInv
  <1>3. ASSUME NEW l \in Loop, NEW users \in Invitees, AddUsers(l, users) PROVE ListInv'
    <2>1. leavers' \subseteq User /\ UNCHANGED <<userIds, founders>>
      BY <1>3 DEF AddUsers, storeVars, historyVars, ListInv
    <2> QED BY <1>2, <1>3, <2>1, InviteesAssumption DEF AddUsers
  <1>4. ASSUME NEW l \in Loop, NEW uid \in User, Leave(l, uid) PROVE ListInv'
    <2>1. leavers' \subseteq User
      BY <1>4 DEF Leave, ListInv
    <2> QED BY <1>2, <1>4, <2>1 DEF Leave
  <1>5. ASSUME NEW l \in Loop, Announce(l) PROVE ListInv'
    BY <1>5 DEF Announce, Goto, storeVars, historyVars, ListInv, Held
  <1>6. ASSUME NEW l \in Loop, pc[l] # "idle", Return(l), UNCHANGED historyVars,
               userIds' \in Seq(User), IsPrefix(founders, userIds')
        PROVE  ListInv'
    <2>1. /\ pc' = [pc EXCEPT ![l] = "idle"]
          /\ copy' = [copy EXCEPT ![l] = None]
          /\ arg' = [arg EXCEPT ![l] = None]
          /\ UNCHANGED <<founders, leavers>>
      BY <1>6 DEF Return, Call, Goto, historyVars
    <2>2. founders # None
      BY <1>6 DEF ListInv, Held
    <2>3. Held'
      BY <1>6, <2>1, <2>2 DEF ListInv, Held
    <2> QED BY <2>1, <2>3 DEF ListInv
  <1>7. ASSUME NEW l \in Loop, pc[l] # "idle"
        PROVE  /\ founders \in Seq(User) /\ founders # <<>> /\ userIds # None
               /\ userIds \in Seq(User) /\ IsPrefix(founders, userIds)
               /\ copy[l] \in Seq(User) /\ IsPrefix(founders, copy[l])
    BY <1>7 DEF ListInv, Held
  <1>8. ASSUME NEW l \in Loop, WriteAdded(l) PROVE ListInv'
    <2>1. /\ pc[l] = "add" /\ arg[l] \in Seq(User) /\ userIds' = copy[l] \o arg[l]
      BY <1>7, <1>8 DEF WriteAdded, ListInv
    <2>2. userIds' \in Seq(User) /\ IsPrefix(founders, userIds')
      BY <1>7, <2>1, PrefixOfConcat
    <2> QED BY <1>6, <1>8, <2>1, <2>2 DEF WriteAdded
  <1>9. ASSUME NEW l \in Loop, WriteLeft(l) PROVE ListInv'
    <2>1. pc[l] = "write" /\ copy[l] # <<>>
      BY <1>7, <1>9, PrefixNotEmpty DEF WriteLeft
    <2>2. userIds' = copy[l]
      BY <1>7, <1>9, <2>1 DEF WriteLeft
    <2> QED BY <1>6, <1>7, <1>9, <2>1, <2>2 DEF WriteLeft
  <1>10. ASSUME NEW l \in Loop, Fault(l) PROVE ListInv'
    BY <1>6, <1>7, <1>10 DEF Fault, storeVars, historyVars
  <1>11. ASSUME UNCHANGED vars PROVE ListInv'
    BY <1>11 DEF vars, storeVars, historyVars, threadVars, ListInv, Held
  <1> QED
    BY <1>1, <1>3, <1>4, <1>5, <1>8, <1>9, <1>10, <1>11 DEF Next, Client, Handler

\* The inductive invariant.
LEMMA Invariance == Spec => []ListInv
  <1>1. Init => ListInv
    BY DEF Init, ListInv, Held
  <1> QED
    BY <1>1, Step, PTL DEF Spec

\* Every variable of ChannelMembership keeps its type.
THEOREM TypeCorrect == Spec => []TypeOK
  <1>1. ListInv => TypeOK
    BY DEF ListInv, Held, TypeOK
  <1> QED
    BY <1>1, Invariance, PTL

\* The users a channel was created with stay its members until they leave: no lost
\* addition, and nobody else's leaving, takes them out.
THEOREM FoundersRemain == Spec => []FoundersStay
  <1>1. ListInv => FoundersStay
    <2> SUFFICES ASSUME ListInv, NEW user \in User, Member(user, founders) PROVE Member(user, userIds)
      BY DEF FoundersStay
    <2>1. founders \in Seq(User) /\ userIds \in Seq(User) /\ IsPrefix(founders, userIds)
      BY DEF ListInv, Held, Member
    <2> QED BY <2>1, PrefixMembers
  <1> QED
    BY <1>1, Invariance, PTL

\* Members that do not leave are lost only by writing back a copy that was out of date.
THEOREM OnlyStaleLoses == Spec => OnlyStaleCopiesLose
  <1> DEFINE Kept ==
        \A user \in User : Member(user, userIds) =>
          \/ Member(user, userIds')
          \/ \E l \in Loop :
               /\ pc[l] \in {"add", "write"} /\ pc'[l] = "idle"
               /\ copy[l] # userIds \/ arg[l] = user
  <1>1. ListInv /\ [Next]_vars => Kept
    <2> SUFFICES ASSUME ListInv, [Next]_vars, NEW user \in User, Member(user, userIds)
                 PROVE  \/ Member(user, userIds')
                        \/ \E l \in Loop :
                             /\ pc[l] \in {"add", "write"} /\ pc'[l] = "idle"
                             /\ copy[l] # userIds \/ arg[l] = user
      OBVIOUS
    <2>1. userIds \in Seq(User) /\ IsPrefix(userIds, userIds)
      BY PrefixOfItself DEF ListInv, Held, Member
    <2>2. CASE UNCHANGED userIds
      BY <2>2
    <2>3. ASSUME NEW l \in Loop, WriteAdded(l), copy[l] = userIds PROVE Member(user, userIds')
      <3>1. arg[l] \in Seq(User) /\ userIds' = userIds \o arg[l]
        BY <2>1, <2>3, NoneAssumption DEF WriteAdded, ListInv
      <3>2. userIds' \in Seq(User) /\ IsPrefix(userIds, userIds')
        BY <2>1, <3>1, PrefixOfConcat
      <3> QED BY <2>1, <3>2, PrefixMembers
    <2>4. ASSUME NEW l \in Loop, WriteLeft(l), copy[l] = userIds PROVE Member(user, userIds')
      <3>1. pc[l] # "idle"
        BY <2>4 DEF WriteLeft
      <3>2. copy[l] # <<>> /\ userIds # None
        BY <3>1, PrefixNotEmpty DEF ListInv, Held, Member
      <3> QED BY <2>4, <3>2 DEF WriteLeft
    <2>5. ASSUME NEW l \in Loop, WriteAdded(l) \/ WriteLeft(l)
          PROVE  pc[l] \in {"add", "write"} /\ pc'[l] = "idle"
      BY <2>5 DEF WriteAdded, WriteLeft, Return, Call, Goto, ListInv
    <2>6. ASSUME NEW l \in Loop, NEW invited \in Invitees, NEW inviter \in User, Create(l, invited, inviter)
          PROVE  FALSE
      BY <2>6 DEF Create, Member
    <2>7. ASSUME NEW l \in Loop,
                 \/ \E users \in Invitees : AddUsers(l, users)
                 \/ \E uid \in User : Leave(l, uid)
                 \/ Announce(l) \/ Fault(l)
          PROVE  UNCHANGED userIds
      BY <2>7 DEF AddUsers, Leave, Announce, Fault, storeVars
    <2>8. CASE UNCHANGED vars
      BY <2>2, <2>8 DEF vars, storeVars
    <2> QED
      BY <2>2, <2>3, <2>4, <2>5, <2>6, <2>7, <2>8 DEF Next, Client, Handler
  <1> QED
    BY <1>1, Invariance, PTL DEF Spec, OnlyStaleCopiesLose
================================================================================
