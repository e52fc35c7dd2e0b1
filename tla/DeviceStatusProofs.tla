--------------------------- MODULE DeviceStatusProofs ---------------------------
(***************************************************************************)
(* Theorems about DeviceStatus, for any users, devices, profiles and event *)
(* loops.  A login and a logout rewrite the user's devices one by one; what *)
(* they promise for the end needs to be known after each of them           *)
(* (Decided): of the devices the handler has passed, those registered have *)
(* the flag it wants, unless another loop set one against it.              *)
(***************************************************************************)
EXTENDS DeviceStatus, WellFoundedInduction, TLAPS

Busy(l) == pc[l] # "idle"
Own(l) == Range(DevicesOf[user[l]])
Wanted(l, x) == doc[x] \in {"none", Flag(x = target[l])}

\* Handlers work for a user, and their devices are behind them or still to come.
Decided ==
  \A l \in Loop : Busy(l) =>
    /\ user[l] \in User
    /\ ~disturbed[l] => \A x \in Own(l) : x \in Range(rest[l]) \/ Wanted(l, x)

Inv == TypeOK /\ Decided
--------------------------------------------------------------------------------

\* The first element of a list comes off, the others stay.
LEMMA TailRange ==
  ASSUME NEW S, NEW seq \in Seq(S), seq # <<>>
  PROVE  /\ Head(seq) \in S /\ Tail(seq) \in Seq(S)
         /\ \A x \in Range(seq) : x = Head(seq) \/ x \in Range(Tail(seq))
  <1>1. Head(seq) \in S /\ Tail(seq) \in Seq(S)
    OBVIOUS
  <1>2. ASSUME NEW x \in Range(seq), x # Head(seq)
        PROVE  x \in Range(Tail(seq))
    <2>1. PICK i \in 1 .. Len(seq) : x = seq[i]
      BY <1>2 DEF Range
    <2>2. i # 1
      BY <1>2, <2>1
    <2>3. i - 1 \in 1 .. Len(Tail(seq)) /\ Tail(seq)[i - 1] = seq[i]
      BY <2>1, <2>2
    <2>4. i - 1 \in DOMAIN Tail(seq)
      BY <2>3, <1>1
    <2> QED BY <2>1, <2>3, <2>4 DEF Range
  <1> QED BY <1>1, <1>2

\* A device of a user is a device.
LEMMA OwnDevices ==
  ASSUME NEW u \in User
  PROVE  DevicesOf[u] \in Seq(Device) /\ Range(DevicesOf[u]) \subseteq Device
  BY DevicesAssumption DEF Range

\* A flag is one of the two values a document has.
LEMMA FlagValue == \A b : Flag(b) \in {"active", "inactive"}
  BY DEF Flag

\* Storing the document of one device leaves what the handlers of the other loops
\* have decided, or disturbs them.
LEMMA StoreKeeps ==
  ASSUME Inv, NEW l \in Loop, NEW d \in Device, NEW value \in {"none", "active", "inactive"},
         Store(l, d, value), NEW k \in Loop, k # l, Busy(k),
         pc'[k] = pc[k], user'[k] = user[k], target'[k] = target[k], rest'[k] = rest[k],
         ~disturbed'[k], NEW x \in Range(DevicesOf[user[k]])
  PROVE  x \in Range(rest'[k]) \/ doc'[x] \in {"none", Flag(x = target'[k])}
  <1>1. x \in Device
    BY OwnDevices DEF Inv, Decided
  <1>2. doc'[x] = IF x = d THEN value ELSE doc[x]
    BY <1>1 DEF Store, Inv, TypeOK
  <1>3. /\ ~disturbed[k]
        /\ d \in Range(DevicesOf[user[k]]) => value \in {"none", doc[d], Flag(d = target[k])}
    BY DEF Store, Busy
  <1>4. x \in Range(rest[k]) \/ doc[x] \in {"none", Flag(x = target[k])}
    BY <1>3 DEF Inv, Decided, Own, Wanted
  <1>5. CASE x = d
    <2>1. value \in {"none", doc[d], Flag(d = target[k])}
      BY <1>3, <1>5
    <2>2. CASE value = doc[d]
      BY <2>2, <1>2, <1>4, <1>5
    <2>3. CASE value # doc[d]
      BY <2>3, <2>1, <1>2, <1>5
    <2> QED BY <2>2, <2>3
  <1>6. CASE x # d
    BY <1>6, <1>2, <1>4
  <1> QED BY <1>5, <1>6

\* The types of the variables that a call or a return of loop l sets.
LEMMA CallTypes ==
  ASSUME TypeOK, NEW l \in Loop, NEW step \in {"idle", "look", "update"},
         NEW u \in User \cup {None}, NEW d \in Device \cup {None}, NEW list \in Seq(Device),
         Call(l, step, u, d, list)
  PROVE  /\ pc' \in [Loop -> {"idle", "look", "update"}]
         /\ user' \in [Loop -> User \cup {None}]
         /\ target' \in [Loop -> Device \cup {None}]
         /\ rest' \in [Loop -> Seq(Device)]
         /\ pc'[l] = step /\ user'[l] = u /\ target'[l] = d /\ rest'[l] = list
         /\ \A k \in Loop : k # l => /\ pc'[k] = pc[k] /\ user'[k] = user[k]
                                     /\ target'[k] = target[k] /\ rest'[k] = rest[k]
  BY DEF Call, TypeOK

\* What writing one document does.
LEMMA StoreTypes ==
  ASSUME TypeOK, NEW l \in Loop, NEW d \in Device, NEW value \in {"none", "active", "inactive"},
         Store(l, d, value)
  PROVE  /\ doc' \in [Device -> {"none", "active", "inactive"}]
         /\ disturbed' \in [Loop -> BOOLEAN]
         /\ disturbed'[l] = disturbed[l]
         /\ \A x \in Device : doc'[x] = IF x = d THEN value ELSE doc[x]
  BY DEF Store, TypeOK

\* A handler that starts has everything before it.
LEMMA Starts ==
  ASSUME Inv, NEW l \in Loop, NEW step \in {"look", "update"}, NEW u \in User,
         NEW d \in Device \cup {None}, Call(l, step, u, d, DevicesOf[u]), Undisturbed(l),
         UNCHANGED doc
  PROVE  Inv'
  <1>1. DevicesOf[u] \in Seq(Device)
    BY OwnDevices
  <1>2. TypeOK
    BY DEF Inv
  <1>3. disturbed' \in [Loop -> BOOLEAN] /\ \A k \in Loop : k # l => disturbed'[k] = disturbed[k]
    BY <1>2 DEF Undisturbed, TypeOK
  <1>4. TypeOK'
    <2>1. /\ pc' \in [Loop -> {"idle", "look", "update"}]
          /\ user' \in [Loop -> User \cup {None}]
          /\ target' \in [Loop -> Device \cup {None}]
          /\ rest' \in [Loop -> Seq(Device)]
      BY <1>1, <1>2, CallTypes
    <2>2. doc' \in [Device -> {"none", "active", "inactive"}]
      BY <1>2 DEF TypeOK
    <2> QED BY <1>3, <2>1, <2>2 DEF TypeOK
  <1>5. ASSUME NEW k \in Loop, pc'[k] # "idle"
        PROVE  /\ user'[k] \in User
               /\ ~disturbed'[k] => \A x \in Range(DevicesOf[user'[k]]) :
                    x \in Range(rest'[k]) \/ doc'[x] \in {"none", Flag(x = target'[k])}
    <2>1. CASE k = l
      BY <2>1, <1>1, <1>2, CallTypes
    <2>2. CASE k # l
      <3>1. /\ pc'[k] = pc[k] /\ user'[k] = user[k] /\ target'[k] = target[k] /\ rest'[k] = rest[k]
        BY <2>2, <1>1, <1>2, CallTypes
      <3> QED BY <3>1, <2>2, <1>3, <1>5 DEF Inv, Decided, Busy, Own, Wanted
    <2> QED BY <2>1, <2>2
  <1> QED BY <1>4, <1>5 DEF Inv, Decided, Busy, Own, Wanted

\* A handler that ends leaves the others as they are.
LEMMA Returns ==
  ASSUME Inv, NEW l \in Loop, Return(l), UNCHANGED <<doc, disturbed>>
  PROVE  Inv'
  <1>1. Call(l, "idle", None, None, <<>>) /\ <<>> \in Seq(Device) /\ TypeOK
    BY DEF Return, Inv
  <1>2. TypeOK'
    BY <1>1, CallTypes DEF TypeOK
  <1>3. ASSUME NEW k \in Loop, pc'[k] # "idle"
        PROVE  k # l /\ pc'[k] = pc[k] /\ user'[k] = user[k]
               /\ target'[k] = target[k] /\ rest'[k] = rest[k]
    <2>1. pc'[l] = "idle" /\ \A o \in Loop : o # l => /\ pc'[o] = pc[o] /\ user'[o] = user[o]
                                                     /\ target'[o] = target[o] /\ rest'[o] = rest[o]
      BY <1>1, CallTypes
    <2> QED BY <1>3, <2>1
  <1> QED BY <1>2, <1>3 DEF Inv, Decided, Busy, Own, Wanted

\* A request that is one access, of a loop without a handler.
LEMMA OneAccess ==
  ASSUME Inv, NEW l \in Loop, NEW d \in Device, NEW value \in {"none", "active", "inactive"},
         pc[l] = "idle", Store(l, d, value), UNCHANGED threadVars
  PROVE  Inv'
  <1>1. TypeOK'
    BY StoreTypes DEF Inv, TypeOK, threadVars
  <1>2. ASSUME NEW k \in Loop, pc'[k] # "idle", ~disturbed'[k], NEW x \in Range(DevicesOf[user'[k]])
        PROVE  x \in Range(rest'[k]) \/ doc'[x] \in {"none", Flag(x = target'[k])}
    BY <1>2, StoreKeeps DEF threadVars, Busy
  <1> QED BY <1>1, <1>2 DEF Inv, Decided, Busy, Own, Wanted, threadVars

\* The look of a login changes no document.
LEMMA LookStep ==
  ASSUME Inv, NEW l \in Loop, Look(l)
  PROVE  Inv'
  <1> DEFINE x0 == Head(rest[l])
  <1>1. /\ rest[l] \in Seq(Device) /\ rest[l] # <<>> /\ pc[l] = "look"
    BY DEF Look, Inv, TypeOK
  <1>2. /\ x0 \in Device /\ Tail(rest[l]) \in Seq(Device)
        /\ \A x \in Range(rest[l]) : x = x0 \/ x \in Range(Tail(rest[l]))
    BY <1>1, TailRange
  <1>3. TypeOK'
    BY <1>1, <1>2 DEF Look, Inv, TypeOK
  <1>4. ASSUME NEW k \in Loop, pc'[k] # "idle"
        PROVE  /\ pc[k] # "idle" /\ user'[k] = user[k] /\ target'[k] = target[k]
               /\ rest'[k] = rest[k] \/ (k = l /\ rest'[k] = Tail(rest[k]) /\ doc[x0] = "none")
    BY <1>1, <1>4 DEF Look, Inv, TypeOK
  <1>5. doc' = doc /\ disturbed' = disturbed
    BY DEF Look
  <1>6. ASSUME NEW k \in Loop, pc'[k] # "idle", ~disturbed'[k], NEW x \in Range(DevicesOf[user'[k]])
        PROVE  x \in Range(rest'[k]) \/ doc'[x] \in {"none", Flag(x = target'[k])}
    <2>1. x \in Range(rest[k]) \/ doc[x] \in {"none", Flag(x = target[k])}
      BY <1>4, <1>5, <1>6 DEF Inv, Decided, Busy, Own, Wanted
    <2> QED BY <2>1, <1>2, <1>4, <1>5, <1>6
  <1> QED BY <1>3, <1>4, <1>5, <1>6 DEF Inv, Decided, Busy, Own, Wanted

\* The update decides the device at the head of the list.
LEMMA UpdateStep ==
  ASSUME Inv, NEW l \in Loop, Update(l)
  PROVE  Inv'
  <1> DEFINE x0 == Head(rest[l])
             value == Flag(x0 = target[l])
  <1>1. /\ rest[l] \in Seq(Device) /\ rest[l] # <<>> /\ pc[l] = "update"
    BY DEF Update, Inv, TypeOK
  <1>2. /\ x0 \in Device /\ Tail(rest[l]) \in Seq(Device)
        /\ \A x \in Range(rest[l]) : x = x0 \/ x \in Range(Tail(rest[l]))
    BY <1>1, TailRange
  <1>3. CASE doc[x0] = "none" /\ Return(l) /\ UNCHANGED <<doc, disturbed>>
    BY <1>3, Returns
  <1>4. CASE Store(l, x0, value) /\ AfterUpdate(l)
    <2>1. value \in {"active", "inactive"}
      BY FlagValue
    <2>2. /\ doc' \in [Device -> {"none", "active", "inactive"}]
          /\ disturbed' \in [Loop -> BOOLEAN] /\ disturbed'[l] = disturbed[l]
          /\ \A x \in Device : doc'[x] = IF x = x0 THEN value ELSE doc[x]
      BY <1>2, <1>4, <2>1, StoreTypes DEF Inv
    <2>3. /\ pc' \in [Loop -> {"idle", "look", "update"}] /\ rest' \in [Loop -> Seq(Device)]
          /\ user' = user /\ target' = target /\ rest'[l] = Tail(rest[l])
          /\ \A k \in Loop : k # l => pc'[k] = pc[k] /\ rest'[k] = rest[k]
      BY <1>1, <1>2, <1>4 DEF AfterUpdate, Inv, TypeOK
    <2>4. TypeOK'
      BY <2>2, <2>3 DEF Inv, TypeOK
    <2>5. ASSUME NEW k \in Loop, pc'[k] # "idle"
          PROVE  pc[k] # "idle"
      BY <1>1, <2>3, <2>5
    <2>6. ASSUME NEW k \in Loop, pc'[k] # "idle", ~disturbed'[k], NEW x \in Range(DevicesOf[user'[k]])
          PROVE  x \in Range(rest'[k]) \/ doc'[x] \in {"none", Flag(x = target'[k])}
      <3>1. CASE k # l
        BY <3>1, <1>2, <1>4, <2>1, <2>3, <2>5, <2>6, StoreKeeps DEF Busy
      <3>2. CASE k = l
        <4>1. x \in Device
          BY <2>3, <3>2, <1>1, OwnDevices DEF Inv, Decided, Busy
        <4>2. x \in Range(rest[l]) \/ doc[x] \in {"none", Flag(x = target[l])}
          BY <3>2, <2>2, <2>3, <2>6, <1>1 DEF Inv, Decided, Busy, Own, Wanted
        <4>3. CASE x = x0
          BY <4>1, <4>3, <3>2, <2>2, <2>3
        <4>4. CASE x # x0
          <5>1. doc'[x] = doc[x] /\ target'[l] = target[l]
            BY <4>1, <4>4, <2>2, <2>3
          <5> QED BY <5>1, <4>2, <4>4, <3>2, <1>2, <2>3
        <4> QED BY <4>3, <4>4
      <3> QED BY <3>1, <3>2
    <2> QED BY <2>3, <2>4, <2>5, <2>6 DEF Inv, Decided, Busy, Own, Wanted
  <1> QED BY <1>3, <1>4 DEF Update

\* One case per action.
LEMMA Step ==
  ASSUME Inv, [Next]_vars
  PROVE  Inv'
  <1>1. CASE UNCHANGED vars
    BY <1>1 DEF vars, threadVars, Inv, TypeOK, Decided, Busy, Own, Wanted
  <1>2. ASSUME NEW l \in Loop, NEW u \in User, Logout(l, u) PROVE Inv'
    BY <1>2, Starts DEF Logout
  <1>3. ASSUME NEW l \in Loop, NEW u \in User, NEW d \in LoginFrom, Login(l, u, d) PROVE Inv'
    BY <1>3, Starts, LoginAssumption DEF Login
  <1>4. ASSUME NEW l \in Loop, NEW d \in Device, Delete(l, d) PROVE Inv'
    BY <1>4, OneAccess DEF Delete
  <1>5. ASSUME NEW l \in Loop, NEW d \in Device, NEW isActive \in BOOLEAN,
               Register(l, d, isActive) \/ UpdateStatus(l, d, isActive)
        PROVE  Inv'
    BY <1>5, OneAccess, FlagValue DEF Register, UpdateStatus
  <1>6. ASSUME NEW l \in Loop, Finish(l) \/ Fault(l) PROVE Inv'
    BY <1>6, Returns DEF Finish, Fault
  <1>7. ASSUME NEW l \in Loop, Look(l) \/ Update(l) PROVE Inv'
    BY <1>7, LookStep, UpdateStep
  <1> QED BY <1>1, <1>2, <1>3, <1>4, <1>5, <1>6, <1>7 DEF Next, Client, Handler

\* The inductive invariant.
LEMMA Invariance == Spec => []Inv
  <1>1. Init => Inv
    BY DEF Init, Inv, TypeOK, Decided, Busy
  <1>2. Inv /\ [Next]_vars => Inv'
    BY Step
  <1> QED BY <1>1, <1>2, PTL DEF Spec

\* Every variable of DeviceStatus keeps its type.
THEOREM TypeCorrect == Spec => []TypeOK
  <1>1. Inv => TypeOK
    BY DEF Inv
  <1> QED BY <1>1, Invariance, PTL
--------------------------------------------------------------------------------

\* What a handler that has no device left has done.
LEMMA AtTheEnd ==
  ASSUME Inv, NEW l \in Loop, Ends(l), ~disturbed[l]
  PROVE  user[l] \in User /\ \A x \in Range(DevicesOf[user[l]]) :
           x \in Device /\ doc[x] \in {"none", Flag(x = target[l])}
  <1>1. Busy(l) /\ Range(rest[l]) = {}
    BY DEF Ends, Busy, Range
  <1> QED BY <1>1, OwnDevices DEF Inv, Decided, Own, Wanted

\* getActive returns an active device of the user if there is one.
LEMMA GetActiveReturns ==
  ASSUME NEW u \in User
  PROVE  /\ Active(u) = {} => GetActive(u) = None
         /\ Active(u) # {} => \E i \in Active(u) : GetActive(u) = DevicesOf[u][i]
  <1>1. ASSUME Active(u) # {}
        PROVE  \E i \in Active(u) : \A j \in Active(u) : i <= j
    <2>1. Active(u) \subseteq Nat
      BY OwnDevices DEF Active
    <2>2. PICK i \in Active(u) : \A j \in Active(u) : ~(<<j, i>> \in OpToRel(<, Nat))
      BY <1>1, <2>1, WFMin, NatLessThanWellFounded
    <2>3. \A j \in Active(u) : <<j, i>> \in Nat \X Nat => ~(j < i)
      BY <2>2, Zenon DEF OpToRel
    <2>4. ASSUME NEW j \in Active(u) PROVE i <= j
      <3>1. i \in Nat /\ j \in Nat
        BY <2>1
      <3>2. ~(j < i)
        BY <2>3, <3>1
      <3> QED BY <3>1, <3>2
    <2> QED BY <2>4
  <1> QED BY <1>1 DEF GetActive

\* A login that ends without a fault, undisturbed, decides which device the user's
\* broadcasts go to, for any profiles and any number of event loops.
THEOREM LoginHolds == Spec => LoginDecides
  <1>1. ASSUME Inv, [Next]_vars
        PROVE  [\A l \in Loop : Ends(l) /\ target[l] # None /\ ~disturbed[l] =>
                  LET own == Range(DevicesOf[user[l]])
                  IN  /\ \A x \in own : doc[x] = "none" \/ (doc[x] = "active" <=> x = target[l])
                      /\ target[l] \in own /\ doc[target[l]] # "none"
                           => GetActive(user[l]) = target[l]]_vars
    <2> SUFFICES ASSUME NEW l \in Loop, Ends(l), target[l] # None, ~disturbed[l]
                 PROVE  LET own == Range(DevicesOf[user[l]])
                        IN  /\ \A x \in own : doc[x] = "none" \/ (doc[x] = "active" <=> x = target[l])
                            /\ target[l] \in own /\ doc[target[l]] # "none"
                                 => GetActive(user[l]) = target[l]
      OBVIOUS
    <2> DEFINE u == user[l]
               own == Range(DevicesOf[u])
    <2>1. u \in User /\ \A x \in own : x \in Device /\ doc[x] \in {"none", Flag(x = target[l])}
      BY <1>1, AtTheEnd
    <2>2. \A x \in own : doc[x] = "none" \/ (doc[x] = "active" <=> x = target[l])
      BY <2>1 DEF Flag
    <2>3. ASSUME target[l] \in own, doc[target[l]] # "none"
          PROVE  GetActive(u) = target[l]
      <3>1. doc[target[l]] = "active"
        BY <2>2, <2>3
      <3>2. \A i \in Active(u) : DevicesOf[u][i] = target[l]
        BY <2>2 DEF Active, Range
      <3>3. Active(u) # {}
        BY <2>3, <3>1 DEF Active, Range
      <3> QED BY <2>1, <3>2, <3>3, GetActiveReturns
    <2> QED BY <2>2, <2>3
  <1> QED BY <1>1, Invariance, PTL DEF LoginDecides, Spec

\* After a logout that ends without a fault, undisturbed, no device of the user is
\* active.
THEOREM LogoutHolds == Spec => LogoutClears
  <1>1. ASSUME Inv, [Next]_vars
        PROVE  [\A l \in Loop : Ends(l) /\ target[l] = None /\ ~disturbed[l]
                  => GetActive(user[l]) = None]_vars
    <2> SUFFICES ASSUME NEW l \in Loop, Ends(l), target[l] = None, ~disturbed[l]
                 PROVE  GetActive(user[l]) = None
      OBVIOUS
    <2>1. user[l] \in User /\ \A x \in Range(DevicesOf[user[l]]) :
            x \in Device /\ doc[x] \in {"none", Flag(x = target[l])}
      BY <1>1, AtTheEnd
    <2>2. \A x \in Range(DevicesOf[user[l]]) : doc[x] # "active"
      BY <2>1, NoneAssumption DEF Flag
    <2>3. Active(user[l]) = {}
      BY <2>2 DEF Active, Range
    <2> QED BY <2>1, <2>3, GetActiveReturns
  <1> QED BY <1>1, Invariance, PTL DEF LogoutClears, Spec

\* Only a registration brings a device back.
THEOREM DeletedIsGone == Spec => DeletedStaysDeleted
  <1>1. ASSUME Inv, [Next]_vars
        PROVE  [\A d \in Device : doc[d] = "none" /\ doc'[d] # "none" =>
                  \E l \in Loop, isActive \in BOOLEAN : Register(l, d, isActive)]_vars
    <2> SUFFICES ASSUME NEW d \in Device, doc[d] = "none", doc'[d] # "none"
                 PROVE  \E l \in Loop, isActive \in BOOLEAN : Register(l, d, isActive)
      OBVIOUS
    <2>1. doc' # doc
      OBVIOUS
    <2>2. ASSUME NEW l \in Loop, NEW x \in Device, NEW value \in {"none", "active", "inactive"},
                 Store(l, x, value)
          PROVE  x = d /\ value # "none"
      BY <1>1, <2>2, StoreTypes DEF Inv
    <2>3. ASSUME NEW l \in Loop, Update(l) PROVE FALSE
      <3>1. Head(rest[l]) \in Device /\ doc[Head(rest[l])] # "none"
            /\ Store(l, Head(rest[l]), Flag(Head(rest[l]) = target[l]))
        BY <1>1, <2>1, <2>3, TailRange DEF Update, Inv, TypeOK
      <3> QED BY <3>1, <2>2, FlagValue
    <2>4. ASSUME NEW l \in Loop, NEW x \in Device, Delete(l, x) PROVE FALSE
      BY <2>2, <2>4 DEF Delete
    <2>5. ASSUME NEW l \in Loop, NEW x \in Device, NEW isActive \in BOOLEAN,
                 UpdateStatus(l, x, isActive)
          PROVE  FALSE
      BY <2>2, <2>5, FlagValue DEF UpdateStatus
    <2>6. ASSUME NEW l \in Loop, NEW x \in Device, NEW isActive \in BOOLEAN,
                 Register(l, x, isActive)
          PROVE  Register(l, d, isActive)
      BY <2>2, <2>6, FlagValue DEF Register
    <2> QED BY <1>1, <2>1, <2>3, <2>4, <2>5, <2>6
            DEF Next, vars, Client, Handler, Login, Logout, Look, Finish, Fault
  <1> QED BY <1>1, Invariance, PTL DEF DeletedStaysDeleted, Spec
================================================================================
