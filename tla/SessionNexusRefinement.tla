------------------------ MODULE SessionNexusRefinement ------------------------
(***************************************************************************)
(* SessionNexus implements SessionRegistry.  Three steps are visible in    *)
(* the registry: constructing a session allocates it, and a put or a       *)
(* dispose takes effect when its handler gets the monitor.  All other      *)
(* steps, those that update the maps among them, change nothing there.     *)
(*                                                                         *)
(* It implements DeviceIndex too, which shows one of the maps, step by     *)
(* step, as a broadcast without the monitor reads it.                      *)
(***************************************************************************)
EXTENDS SessionNexusProofs

View == <<Life, deviceOf, channelOf, ByDevice, ByChannel>>

\* Steps outside the monitor that do not touch a session waiting for it.
LEMMA OutsideMonitor ==
  ASSUME Inv, NEW c \in Channel, NEW step \in Steps \ (Locked \cup {"put"}),
         NEW s \in Session \cup {None},
         pc[c] \notin Locked \cup {"put"},
         pc' = [pc EXCEPT ![c] = step], cur' = [cur EXCEPT ![c] = s],
         UNCHANGED <<mapVars, sessionVars, locker>>
  PROVE  UNCHANGED View
  <1> USE DEF Inv, mapVars, sessionVars
  <1>1. locker # c
    BY DEF MonitorInv
  <1>2. locker # None => pc'[locker] = pc[locker] /\ cur'[locker] = cur[locker]
    BY <1>1 DEF TypeOK
  <1>3. ASSUME NEW x \in Session PROVE LifeOf(x)' = LifeOf(x)
    <2>1. (\E o \in Channel : pc[o] = "put" /\ cur[o] = x)'
            <=> \E o \in Channel : pc[o] = "put" /\ cur[o] = x
      BY DEF TypeOK
    <2> QED
      BY <1>2, <2>1 DEF LifeOf, Holding
  <1>4. Life' = Life
    BY <1>3 DEF Life
  <1>5. ByDevice' = ByDevice
    BY <1>2 DEF ByDevice, HeldOr
  <1>6. ByChannel' = ByChannel
    BY <1>2 DEF ByChannel, HeldOr
  <1> QED
    BY <1>4, <1>5, <1>6 DEF View

\* Steps of the monitor's holder that keep it: what is not in its hand stays.
LEMMA InsideMonitor ==
  ASSUME Inv, NEW c \in Channel,
         \/ CloseChannel(c) \/ RmDevice(c) \/ RmSession(c)
         \/ PutSession(c) \/ PutDevice(c)
  PROVE  UNCHANGED View
  <1> USE NoneAssumption
      DEF Inv, mapVars, sessionVars, connVars, clientVars, Locked, Disposing, Putting, Goto,
          CloseChannel, RmDevice, RmSession, PutSession, PutDevice
  <1>1. locker = c /\ locker' = c /\ locker # None /\ cur[c] \in Session
    BY DEF MonitorInv, InHand
  <1>2. cur' = cur /\ UNCHANGED sessionVars /\ (pc'[c] \in Putting <=> pc[c] \in Putting)
    BY DEF TypeOK
  <1>3. \A o \in Channel : pc'[o] = "put" <=> pc[o] = "put"
    BY DEF TypeOK
  <1>4. \A x \in Session : x # cur[c] => (x \in sessionMap' <=> x \in sessionMap)
    OBVIOUS
  <1>5. \A d \in Device : deviceOf[cur[c]] # d => deviceMap'[d] = deviceMap[d]
    BY DEF TypeOK
  <1>6. ASSUME NEW x \in Session PROVE LifeOf(x)' = LifeOf(x)
    <2>1. (\E o \in Channel : pc[o] = "put" /\ cur[o] = x)'
            <=> \E o \in Channel : pc[o] = "put" /\ cur[o] = x
      BY <1>2, <1>3
    <2>2. CASE x = cur[c]
      BY <1>1, <1>2, <2>2 DEF LifeOf, Holding
    <2>3. CASE x # cur[c]
      <3>1. ~Holding(x) /\ ~Holding(x)'
        BY <1>1, <1>2, <2>3 DEF Holding
      <3> QED
        BY <1>2, <1>4, <2>1, <2>3, <3>1 DEF LifeOf
    <2> QED
      BY <2>2, <2>3
  <1>7. Life' = Life
    BY <1>6 DEF Life
  <1>8. ByDevice' = ByDevice
    BY <1>1, <1>2, <1>5 DEF ByDevice, HeldOr
  <1>9. ByChannel' = ByChannel
    BY <1>1, <1>2 DEF ByChannel, HeldOr
  <1> QED
    BY <1>2, <1>7, <1>8, <1>9 DEF View

\* The last step of a dispose: what it leaves in the maps is what the registry
\* showed already.
LEMMA EndOfRemoval == ASSUME Inv, NEW c \in Channel, RmChannel(c) PROVE UNCHANGED View
  <1> USE NoneAssumption
      DEF Inv, mapVars, sessionVars, connVars, clientVars, Locked, Disposing, Putting, RmChannel
  <1>0. PICK step \in {"idle", "validate"}, t \in {"none", "init"}, e \in Device \cup {None} :
          pc' = [pc EXCEPT ![c] = step] /\ cur' = [cur EXCEPT ![c] = None]
    BY EndOfDispose
  <1>1. locker = c /\ locker' = None /\ c # None /\ cur[c] \in Session
    BY DEF MonitorInv, InHand
  <1>2. /\ cur[c] \notin sessionMap
        /\ deviceMap[deviceOf[cur[c]]] = None
        /\ ~(cur[c] >= nextId)
        /\ deviceOf[cur[c]] \in Device /\ channelOf[cur[c]] \in Channel
    <2>1. cur[c] < nextId
      BY DEF InHand
    <2>2. ~(cur[c] >= nextId)
      BY <1>1, <2>1, BoundAssumption DEF TypeOK, Session
    <2> QED
      BY <1>1, <2>1, <2>2 DEF RemoveInv, Allocated
  <1>3. ASSUME NEW x \in Session PROVE LifeOf(x)' = LifeOf(x)
    <2>1. (\E o \in Channel : pc[o] = "put" /\ cur[o] = x)'
            <=> \E o \in Channel : pc[o] = "put" /\ cur[o] = x
      BY <1>0 DEF TypeOK
    <2>2. CASE x = cur[c]
      <3>1. ~\E o \in Channel : pc[o] = "put" /\ cur[o] = x
        BY <2>2 DEF Pending
      <3>2. LifeOf(x) = "disposed"
        BY <1>1, <1>2, <2>2 DEF LifeOf, Holding
      <3>3. LifeOf(x)' = "disposed"
        BY <1>1, <1>2, <2>1, <2>2, <3>1 DEF LifeOf, Holding
      <3> QED
        BY <3>2, <3>3
    <2>3. CASE x # cur[c]
      BY <1>1, <2>1, <2>3 DEF LifeOf, Holding
    <2> QED
      BY <2>2, <2>3
  <1>4. Life' = Life
    BY <1>3 DEF Life
  <1>5. ByDevice' = ByDevice
    BY <1>1, <1>2 DEF ByDevice, HeldOr
  <1>6. ByChannel' = ByChannel
    BY <1>1, <1>2 DEF ByChannel, HeldOr, TypeOK
  <1> QED
    BY <1>4, <1>5, <1>6 DEF View

\* The last step of a put, likewise.
LEMMA EndOfPut == ASSUME Inv, NEW c \in Channel, PutChannel(c) PROVE UNCHANGED View
  <1> USE NoneAssumption
      DEF Inv, mapVars, sessionVars, connVars, clientVars, Locked, Disposing, Putting,
          PutChannel, Goto
  <1>1. locker = c /\ locker' = None /\ c # None /\ cur[c] \in Session
    BY DEF MonitorInv, InHand
  <1>2. /\ cur[c] \in sessionMap
        /\ deviceMap[deviceOf[cur[c]]] = cur[c]
        /\ ~(cur[c] >= nextId)
        /\ deviceOf[cur[c]] \in Device /\ channelOf[cur[c]] \in Channel
    <2>1. cur[c] < nextId /\ cur[c] \in Int /\ nextId \in Int
      <3>1. cur[c] < nextId
        BY DEF InHand
      <3>2. nextId \in Int
        BY BoundAssumption DEF TypeOK
      <3> QED
        BY <1>1, <3>1, <3>2, BoundAssumption DEF Session
    <2>2. ~(cur[c] >= nextId)
      BY <2>1
    <2>3. cur[c] \in sessionMap /\ deviceMap[deviceOf[cur[c]]] = cur[c]
      BY DEF PutInv
    <2>4. deviceOf[cur[c]] \in Device /\ channelOf[cur[c]] \in Channel
      BY <1>1, <2>1 DEF Allocated
    <2> QED
      BY <2>2, <2>3, <2>4
  <1>3. ASSUME NEW x \in Session PROVE LifeOf(x)' = LifeOf(x)
    <2>1. (\E o \in Channel : pc[o] = "put" /\ cur[o] = x)'
            <=> \E o \in Channel : pc[o] = "put" /\ cur[o] = x
      BY DEF TypeOK
    <2>2. CASE x = cur[c]
      BY <1>1, <1>2, <2>2 DEF LifeOf, Holding
    <2>3. CASE x # cur[c]
      BY <1>1, <2>1, <2>3 DEF LifeOf, Holding
    <2> QED
      BY <2>2, <2>3
  <1>4. Life' = Life
    BY <1>3 DEF Life
  <1>5. ByDevice' = ByDevice
    BY <1>1, <1>2 DEF ByDevice, HeldOr
  <1>6. ByChannel' = ByChannel
    BY <1>1, <1>2 DEF ByChannel, HeldOr, TypeOK
  <1> QED
    BY <1>4, <1>5, <1>6 DEF View

\* Constructing a session allocates it.
LEMMA Construction ==
  ASSUME Inv, NEW c \in Channel, ValidateOk(c)
  PROVE  \E n \in Session, d \in Device : Registry!Allocate(n, d, c)
  <1> USE NoneAssumption, BoundAssumption
      DEF Inv, ValidateOk, Enter, Goto, mapVars, sessionVars, connVars, clientVars
  <1>0. nextId \in Session /\ dev[c] \in Device
    BY DEF TypeOK, Session, InHand
  <1>1. PICK n \in Session : n = nextId /\ nextId' = n + 1
    BY <1>0
  <1>2. pc' = [pc EXCEPT ![c] = "put"] /\ cur' = [cur EXCEPT ![c] = n]
    BY <1>1
  <1>3. locker # c /\ locker' = locker
    BY DEF MonitorInv, Locked, Disposing, Putting
  <1>4. locker # None => /\ cur'[locker] = cur[locker] /\ pc'[locker] = pc[locker]
                         /\ cur[locker] \in Session /\ cur[locker] < n
    BY <1>1, <1>2, <1>3 DEF TypeOK, MonitorInv, InHand, Locked, Disposing, Putting
  <1>5. LifeOf(n) = "none"
    BY <1>1 DEF LifeOf, Session
  <1>6. LifeOf(n)' = "new"
    <2>1. n \notin sessionMap' /\ ~(n >= nextId')
      BY <1>1 DEF Registered, Session
    <2>2. ~Holding(n)'
      BY <1>1, <1>3, <1>4 DEF Holding, Session
    <2>3. pc'[c] = "put" /\ cur'[c] = n
      BY <1>2 DEF TypeOK
    <2> QED
      BY <2>1, <2>2, <2>3 DEF LifeOf
  <1>7. ASSUME NEW x \in Session, x # n PROVE LifeOf(x)' = LifeOf(x)
    <2>1. (\E o \in Channel : pc[o] = "put" /\ cur[o] = x)'
            <=> \E o \in Channel : pc[o] = "put" /\ cur[o] = x
      BY <1>2, <1>7 DEF TypeOK
    <2>2. (x >= nextId)' <=> x >= nextId
      BY <1>1, <1>7 DEF Session
    <2>3. /\ Holding(x)' <=> Holding(x)
          /\ Holding(x) => (pc'[locker'] \in Putting <=> pc[locker] \in Putting)
      BY <1>3, <1>4 DEF Holding
    <2> QED
      BY <2>1, <2>2, <2>3 DEF LifeOf
  <1>8. Life' = [Life EXCEPT ![n] = "new"] /\ Life[n] = "none"
    BY <1>1, <1>5, <1>6, <1>7 DEF Life
  <1>9. /\ deviceOf' = [deviceOf EXCEPT ![n] = dev[c]]
        /\ channelOf' = [channelOf EXCEPT ![n] = c]
    BY <1>1
  <1>10. ByDevice' = ByDevice
    <2>1. ASSUME NEW d \in Device, locker # None
          PROVE  deviceOf'[cur'[locker]] = deviceOf[cur[locker]]
      BY <1>1, <1>4, <2>1 DEF TypeOK, Session
    <2>2. ASSUME NEW d \in Device PROVE HeldOr(deviceOf[cur[locker]] = d, deviceMap[d])'
                                       = HeldOr(deviceOf[cur[locker]] = d, deviceMap[d])
      BY <1>3, <1>4, <2>1 DEF HeldOr
    <2> QED
      BY <2>2 DEF ByDevice
  <1>11. ByChannel' = ByChannel
    <2>1. ASSUME NEW x \in Channel, locker # None
          PROVE  channelOf'[cur'[locker]] = channelOf[cur[locker]]
      BY <1>1, <1>4, <2>1 DEF TypeOK, Session
    <2> QED
      BY <1>3, <1>4, <2>1 DEF ByChannel, HeldOr
  <1> QED
    BY <1>0, <1>8, <1>9, <1>10, <1>11 DEF Registry!Allocate

\* Getting the monitor in put registers the session.
LEMMA PutTakesEffect ==
  ASSUME Inv, NEW c \in Channel, PutLock(c)
  PROVE  cur[c] \in Session /\ Registry!Register(cur[c])
  <1> USE NoneAssumption, BoundAssumption
      DEF Inv, PutLock, Goto, mapVars, sessionVars, connVars, clientVars
  <1>1. /\ cur[c] \in Session /\ c # None
        /\ cur[c] < nextId /\ cur[c] \notin sessionMap
        /\ deviceOf[cur[c]] \in Device /\ channelOf[cur[c]] \in Channel
    BY DEF InHand, Pending, Allocated
  <1>2. pc'[c] = "putSession" /\ \A o \in Channel : o # c => pc'[o] = pc[o]
    BY DEF TypeOK
  <1>3. ~(cur[c] >= nextId)
    BY <1>1 DEF TypeOK, Session
  <1>4. LifeOf(cur[c]) = "new"
    BY <1>1, <1>3 DEF LifeOf, Holding
  <1>5. LifeOf(cur[c])' = "registered"
    BY <1>1, <1>2, <1>3 DEF LifeOf, Holding, Putting
  <1>6. ASSUME NEW x \in Session, x # cur[c] PROVE LifeOf(x)' = LifeOf(x)
    <2>1. (\E o \in Channel : pc[o] = "put" /\ cur[o] = x)'
            <=> \E o \in Channel : pc[o] = "put" /\ cur[o] = x
      BY <1>2, <1>6
    <2> QED
      BY <1>1, <1>6, <2>1 DEF LifeOf, Holding
  <1>7. Life' = [Life EXCEPT ![cur[c]] = "registered"] /\ Life[cur[c]] = "new"
    BY <1>1, <1>4, <1>5, <1>6 DEF Life
  <1>8. ByDevice' = [ByDevice EXCEPT ![deviceOf[cur[c]]] = cur[c]]
    BY <1>1, <1>2 DEF ByDevice, HeldOr, Putting
  <1>9. ByChannel' = [ByChannel EXCEPT ![channelOf[cur[c]]] = cur[c]]
    BY <1>1, <1>2 DEF ByChannel, HeldOr, Putting
  <1> QED
    BY <1>1, <1>7, <1>8, <1>9 DEF Registry!Register

\* Getting the monitor in dispose unregisters it.
LEMMA DisposeTakesEffect ==
  ASSUME Inv, NEW c \in Channel, Lock(c)
  PROVE  cur[c] \in Session /\ Registry!Unregister(cur[c])
  <1> USE NoneAssumption, BoundAssumption
      DEF Inv, Lock, Goto, mapVars, sessionVars, connVars, clientVars
  <1>1. /\ cur[c] \in Session /\ c # None
        /\ cur[c] < nextId
        /\ deviceOf[cur[c]] \in Device /\ channelOf[cur[c]] \in Channel
    BY DEF InHand, Allocated
  <1>2. pc'[c] = "close" /\ \A o \in Channel : o # c => pc'[o] = pc[o]
    BY DEF TypeOK
  <1>3. ~(cur[c] >= nextId)
    BY <1>1 DEF TypeOK, Session
  <1>4. LifeOf(cur[c]) \in {"registered", "disposed"}
    <2>1. ~\E o \in Channel : pc[o] = "put" /\ cur[o] = cur[c]
      BY DEF Pending
    <2> QED
      BY <1>1, <1>3, <2>1 DEF LifeOf, Holding
  <1>5. LifeOf(cur[c])' = "disposed"
    BY <1>1, <1>2, <1>3 DEF LifeOf, Holding, Putting
  <1>6. ASSUME NEW x \in Session, x # cur[c] PROVE LifeOf(x)' = LifeOf(x)
    <2>1. (\E o \in Channel : pc[o] = "put" /\ cur[o] = x)'
            <=> \E o \in Channel : pc[o] = "put" /\ cur[o] = x
      BY <1>2, <1>6
    <2> QED
      BY <1>1, <1>6, <2>1 DEF LifeOf, Holding
  <1>7. Life' = [Life EXCEPT ![cur[c]] = "disposed"] /\ Life[cur[c]] = LifeOf(cur[c])
    BY <1>1, <1>5, <1>6 DEF Life
  <1>8. ByDevice' = [ByDevice EXCEPT ![deviceOf[cur[c]]] = None]
    BY <1>1, <1>2 DEF ByDevice, HeldOr, Putting
  <1>9. ByChannel' = [ByChannel EXCEPT ![channelOf[cur[c]]] = None]
    BY <1>1, <1>2 DEF ByChannel, HeldOr, Putting
  <1> QED
    BY <1>1, <1>4, <1>7, <1>8, <1>9 DEF Registry!Unregister

LEMMA StepImplements == Inv /\ [Next]_vars => [Registry!Next]_(Registry!registryVars)
  <1> SUFFICES ASSUME Inv, [Next]_vars PROVE Registry!Next \/ UNCHANGED View
    BY DEF Registry!registryVars, View
  <1>1. ASSUME NEW c \in Channel, ValidateOk(c) PROVE Registry!Next
    BY <1>1, Construction DEF Registry!Next
  <1>2. ASSUME NEW c \in Channel, PutLock(c) PROVE Registry!Next
    BY <1>2, PutTakesEffect DEF Registry!Next
  <1>3. ASSUME NEW c \in Channel, Lock(c) PROVE Registry!Next
    BY <1>3, DisposeTakesEffect DEF Registry!Next
  <1>4. ASSUME NEW c \in Channel,
               \/ CloseChannel(c) \/ RmDevice(c) \/ RmSession(c)
               \/ PutSession(c) \/ PutDevice(c)
        PROVE  UNCHANGED View
    BY <1>4, InsideMonitor
  <1>5. ASSUME NEW c \in Channel, RmChannel(c) \/ PutChannel(c) PROVE UNCHANGED View
    BY <1>5, EndOfRemoval, EndOfPut
  <1>6. ASSUME NEW c \in Channel, Check(c) PROVE UNCHANGED View
    <2> USE DEF Check, Goto, connVars, clientVars, Locked, Disposing, Putting, Steps
    <2>1. CASE Goto(c, "lock") /\ UNCHANGED <<task, cur, dev>>
      <3>1. cur' = [cur EXCEPT ![c] = cur[c]] /\ cur[c] \in Session \cup {None}
        BY <2>1 DEF Inv, TypeOK
      <3> QED
        BY <1>6, <2>1, <3>1, OutsideMonitor
    <2>2. CASE AfterDispose(c)
      <3>1. PICK step \in {"idle", "validate"} :
              pc' = [pc EXCEPT ![c] = step] /\ cur' = [cur EXCEPT ![c] = None]
        BY <2>2, EndOfDispose
      <3> QED
        BY <1>6, <3>1, OutsideMonitor
    <2> QED
      BY <1>6, <2>1, <2>2
  <1>7. ASSUME NEW c \in Channel, ValidateFault(c) \/ Reply(c) PROVE UNCHANGED View
    <2>1. /\ pc[c] \in {"validate", "reply"}
          /\ pc' = [pc EXCEPT ![c] = "idle"] /\ cur' = [cur EXCEPT ![c] = None]
          /\ UNCHANGED <<mapVars, sessionVars, locker>>
      BY <1>7 DEF ValidateFault, Reply, Return, Enter, Goto
    <2>2. /\ "idle" \in Steps \ (Locked \cup {"put"}) /\ None \in Session \cup {None}
          /\ pc[c] \notin Locked \cup {"put"}
      BY <2>1 DEF Locked, Disposing, Putting, Steps
    <2> QED BY <2>1, <2>2, OutsideMonitor
  <1>8. ASSUME NEW c \in Channel, NEW d \in Device, Initialize(c, d) PROVE UNCHANGED View
    <2>1. PICK s \in GetByDeviceId(d) :
            \/ s = None /\ Enter(c, "validate", "init", None, d)
            \/ s # None /\ Enter(c, "check", "init", s, d)
      BY <1>8 DEF Initialize
    <2>2. s \in Session \cup {None} /\ pc[c] = "idle"
      BY <1>8, LoopAssumption DEF GetByDeviceId, Inv, TypeOK, Initialize, CanHandle, LoopFree
    <2> QED
      BY <1>8, <2>1, <2>2, OutsideMonitor
         DEF Initialize, Enter, Goto, Locked, Disposing, Putting, Steps
  <1>9. ASSUME NEW c \in Channel, CloseSession(c) PROVE UNCHANGED View
    <2>1. mine[c] \in Session \cup {None} /\ pc[c] = "idle"
      BY <1>9, LoopAssumption DEF Inv, TypeOK, CloseSession, CanHandle, LoopFree
    <2> QED
      BY <1>9, <2>1, OutsideMonitor
         DEF CloseSession, Enter, Goto, Locked, Disposing, Putting, Steps
  <1>10. ASSUME NEW c \in Channel, Inactive(c) PROVE UNCHANGED View
    <2>1. PICK s \in GetByChannel(c) :
            \/ s = None /\ UNCHANGED threadVars
            \/ s # None /\ Enter(c, "check", "inactive", s, None)
      BY <1>10 DEF Inactive
    <2>2. s \in Session \cup {None} /\ pc[c] = "idle"
      BY <1>10, LoopAssumption DEF GetByChannel, Inv, TypeOK, Inactive, LoopFree
    <2>3. \/ pc' = [pc EXCEPT ![c] = "idle"] /\ cur' = [cur EXCEPT ![c] = cur[c]]
          \/ pc' = [pc EXCEPT ![c] = "check"] /\ cur' = [cur EXCEPT ![c] = s]
      BY <2>1, <2>2 DEF Inv, TypeOK, threadVars, Enter, Goto
    <2>4. cur[c] \in Session \cup {None}
      BY DEF Inv, TypeOK
    <2> QED
      BY <1>10, <2>2, <2>3, <2>4, OutsideMonitor
         DEF Inactive, Locked, Disposing, Putting, Steps
  <1>11. ASSUME NEW c \in Channel, NoSession(c) \/ Disconnect(c) \/ RunClose(c)
         PROVE  UNCHANGED View
    BY <1>11 DEF NoSession, Disconnect, RunClose, mapVars, sessionVars, threadVars, clientVars,
                 View, Life, LifeOf, Holding, ByDevice, ByChannel, HeldOr
  <1>12. CASE UNCHANGED vars
    BY <1>12 DEF vars, mapVars, sessionVars, threadVars, View, Life, LifeOf, Holding,
                 ByDevice, ByChannel, HeldOr
  <1> QED
    BY <1>1, <1>2, <1>3, <1>4, <1>5, <1>6, <1>7, <1>8, <1>9, <1>10, <1>11, <1>12
       DEF Next, Client, Handler, Dispose, Open

\* SessionNexus implements SessionRegistry: seen through the monitor, put and
\* dispose are atomic, a session is registered once at most, and one that was
\* disposed of never comes back.
THEOREM Implements == Spec => RegistrySpec
  <1>1. Init => Registry!Init
    <2> SUFFICES ASSUME Init PROVE Registry!Init
      OBVIOUS
    <2>1. \A s \in Session : LifeOf(s) = "none"
      BY BoundAssumption DEF Init, LifeOf, Session
    <2> QED
      BY <2>1 DEF Init, Registry!Init, Life, ByDevice, ByChannel, HeldOr
  <1> QED
    BY <1>1, Invariance, StepImplements, PTL DEF Spec, RegistrySpec, Registry!Spec
--------------------------------------------------------------------------------
(* The device index that broadcasts rely on.  Here the steps of put and dispose *)
(* that count are others: getting the monitor for a put, and the assignment and *)
(* the removal of the device's entry.                                           *)

IndexView == <<Entries, PutFor, deviceMap>>

\* A session keeps its entry when neither its life nor its handler's place in the
\* monitor changes.
LEMMA EntryKept ==
  ASSUME NEW x \in Session, LifeOf(x)' = LifeOf(x), x \in sessionMap' <=> x \in sessionMap,
         Holding(x)' <=> Holding(x), Holding(x) => pc'[locker'] = pc[locker]
  PROVE  EntryOf(x)' = EntryOf(x)
  BY DEF EntryOf

\* If all do, the index is as it was.
LEMMA IndexKept ==
  ASSUME \A x \in Session : EntryOf(x)' = EntryOf(x),
         \A x \in Session : EntryOf(x) # "none" => deviceOf'[x] = deviceOf[x],
         UNCHANGED deviceMap
  PROVE  UNCHANGED IndexView
  <1>1. Entries' = Entries
    BY DEF Entries
  <1>2. PutFor' = PutFor
    BY DEF PutFor
  <1> QED BY <1>1, <1>2 DEF IndexView

\* Steps outside the monitor.
LEMMA OutsideIndex ==
  ASSUME Inv, NEW c \in Channel, NEW step \in Steps \ (Locked \cup {"put"}),
         NEW s \in Session \cup {None},
         pc[c] \notin Locked \cup {"put"},
         pc' = [pc EXCEPT ![c] = step], cur' = [cur EXCEPT ![c] = s],
         UNCHANGED <<mapVars, sessionVars, locker>>
  PROVE  UNCHANGED IndexView
  <1>1. \A x \in Session : LifeOf(x)' = LifeOf(x)
    BY OutsideMonitor DEF View, Life
  <1>2. locker # None => pc'[locker] = pc[locker] /\ cur'[locker] = cur[locker]
    BY DEF Inv, MonitorInv, TypeOK
  <1>3. \A x \in Session : Holding(x)' <=> Holding(x)
    BY <1>2 DEF Holding
  <1>4. \A x \in Session : EntryOf(x)' = EntryOf(x)
    BY <1>1, <1>2, <1>3, EntryKept DEF mapVars, Holding
  <1> QED BY <1>4, IndexKept DEF mapVars, sessionVars

\* A session under construction is not in the index.
LEMMA ConstructionIndex ==
  ASSUME Inv, NEW c \in Channel, ValidateOk(c)
  PROVE  UNCHANGED IndexView
  <1>1. PICK n \in Session, d \in Device : Registry!Allocate(n, d, c)
    BY Construction
  <1>2. /\ LifeOf(n) = "none" /\ LifeOf(n)' = "new"
        /\ \A x \in Session : x # n => LifeOf(x)' = LifeOf(x) /\ deviceOf'[x] = deviceOf[x]
    <2>1. \A x \in Session : Life[x] = LifeOf(x) /\ Life'[x] = LifeOf(x)'
      BY DEF Life
    <2>2. Life[n] = "none" /\ Life' = [Life EXCEPT ![n] = "new"]
          /\ deviceOf' = [deviceOf EXCEPT ![n] = d]
      BY <1>1 DEF Registry!Allocate
    <2>3. DOMAIN Life = Session /\ deviceOf \in [Session -> Device \cup {None}]
      BY DEF Life, Inv, TypeOK
    <2>4. Life'[n] = "new" /\ \A x \in Session : x # n => Life'[x] = Life[x]
      BY <2>2, <2>3
    <2> QED BY <2>1, <2>2, <2>3, <2>4
  <1>3. /\ pc' = [pc EXCEPT ![c] = "put"] /\ cur' = [cur EXCEPT ![c] = nextId]
        /\ locker' = locker /\ sessionMap' = sessionMap /\ deviceMap' = deviceMap
        /\ pc[c] = "validate"
    BY DEF ValidateOk, Enter, Goto, mapVars
  <1>4. locker # None => pc'[locker] = pc[locker] /\ cur'[locker] = cur[locker]
    BY <1>3 DEF Inv, MonitorInv, TypeOK, Locked, Disposing, Putting
  <1>5. \A x \in Session : Holding(x)' <=> Holding(x)
    BY <1>3, <1>4 DEF Holding
  <1>6. EntryOf(n) = "none" /\ EntryOf(n)' = "none"
    BY <1>2 DEF EntryOf
  <1>7. \A x \in Session : EntryOf(x)' = EntryOf(x)
    BY <1>2, <1>3, <1>4, <1>5, <1>6, EntryKept DEF Holding
  <1> QED BY <1>2, <1>3, <1>6, <1>7, IndexKept

\* While the monitor is free no put is under way, and while it is held only the
\* holder's can be.
LEMMA PutsHold == \A x \in Session : EntryOf(x) = "putting" => Holding(x) /\ pc[locker] \in {"putSession", "putDevice"}
  BY DEF EntryOf

\* Getting the monitor begins a put.
LEMMA PutBeginsIndex ==
  ASSUME Inv, NEW c \in Channel, PutLock(c)
  PROVE  Index!BeginPut(cur[c], deviceOf[cur[c]]) /\ cur[c] \in Session /\ deviceOf[cur[c]] \in Device
  <1> USE NoneAssumption
  <1>0. PICK s \in Session : s = cur[c]
    BY DEF Inv, PutLock, InHand
  <1>1. /\ s = cur[c] /\ c # None /\ deviceOf[s] \in Device /\ locker = None /\ locker' = c
        /\ UNCHANGED <<mapVars, sessionVars, cur>>
        /\ pc'[c] = "putSession"
    BY <1>0 DEF Inv, PutLock, Goto, InHand, Allocated, TypeOK
  <1>2. LifeOf(s) = "new" /\ LifeOf(s)' = "registered"
        /\ \A x \in Session : x # s => LifeOf(x)' = LifeOf(x)
    <2>1. Life[s] = "new" /\ Life' = [Life EXCEPT ![s] = "registered"]
      BY <1>1, PutTakesEffect DEF Registry!Register
    <2>2. \A x \in Session : Life[x] = LifeOf(x) /\ Life'[x] = LifeOf(x)'
      BY DEF Life
    <2>3. DOMAIN Life = Session
      BY DEF Life
    <2>4. Life'[s] = "registered" /\ \A x \in Session : x # s => Life'[x] = Life[x]
      BY <1>1, <2>1, <2>3
    <2> QED BY <1>1, <2>1, <2>2, <2>4
  <1>3. EntryOf(s) = "none"
    BY <1>2 DEF EntryOf
  <1>4. EntryOf(s)' = "putting"
    BY <1>1, <1>2 DEF EntryOf, Holding
  <1>5. ASSUME NEW x \in Session, x # s PROVE EntryOf(x)' = EntryOf(x)
    <2>1. ~Holding(x) /\ ~Holding(x)'
      BY <1>1, <1>5 DEF Holding
    <2> QED BY <1>1, <1>2, <1>5, <2>1, EntryKept DEF mapVars
  <1>6. \A x \in Session : EntryOf(x) # "putting"
    BY <1>1, PutsHold DEF Holding
  <1>7. /\ Entries' = [Entries EXCEPT ![s] = "putting"] /\ Entries[s] = "none"
        /\ \A x \in Session : Entries[x] # "putting"
    BY <1>1, <1>3, <1>4, <1>5, <1>6 DEF Entries
  <1>8. PutFor' = [PutFor EXCEPT ![s] = deviceOf[s]]
    <2>1. deviceOf' = deviceOf
      BY <1>1 DEF sessionVars
    <2> QED BY <1>1, <1>4, <1>5, <2>1 DEF PutFor
  <1> QED BY <1>1, <1>7, <1>8 DEF Index!BeginPut, Index!NoPut, mapVars

\* What the monitor's holder does to the others' sessions: nothing.
LEMMA HolderKeeps ==
  ASSUME Inv, NEW c \in Channel, locker = c, c # None, locker' \in {c, None}, cur'[c] = cur[c] \/ locker' = None,
         \A x \in Session : LifeOf(x)' = LifeOf(x),
         \A x \in Session : x # cur[c] => (x \in sessionMap' <=> x \in sessionMap)
  PROVE  \A x \in Session : x # cur[c] => EntryOf(x)' = EntryOf(x)
  <1> SUFFICES ASSUME NEW x \in Session, x # cur[c] PROVE EntryOf(x)' = EntryOf(x)
    OBVIOUS
  <1>1. ~Holding(x) /\ ~Holding(x)'
    BY DEF Holding
  <1> QED BY <1>1, EntryKept

\* A dispose that gets the monitor has not removed anything yet.
LEMMA LockIndex ==
  ASSUME Inv, NEW c \in Channel, Lock(c)
  PROVE  UNCHANGED IndexView
  <1> USE NoneAssumption
  <1>0. PICK s \in Session : s = cur[c]
    BY DEF Inv, Lock, InHand
  <1>1. /\ s = cur[c] /\ c # None /\ locker = None /\ locker' = c
        /\ UNCHANGED <<mapVars, sessionVars, cur>>
        /\ pc'[c] = "close"
    BY <1>0 DEF Inv, Lock, Goto, TypeOK
  <1>2. LifeOf(s) \in {"registered", "disposed"} /\ LifeOf(s)' = "disposed"
        /\ \A x \in Session : x # s => LifeOf(x)' = LifeOf(x)
    <2>1. Life[s] \in {"registered", "disposed"} /\ Life' = [Life EXCEPT ![s] = "disposed"]
      BY <1>1, DisposeTakesEffect DEF Registry!Unregister
    <2>2. \A x \in Session : Life[x] = LifeOf(x) /\ Life'[x] = LifeOf(x)'
      BY DEF Life
    <2>3. DOMAIN Life = Session
      BY DEF Life
    <2>4. Life'[s] = "disposed" /\ \A x \in Session : x # s => Life'[x] = Life[x]
      BY <1>1, <2>1, <2>3
    <2> QED BY <1>1, <2>1, <2>2, <2>4
  <1>3. EntryOf(s)' = EntryOf(s)
    BY <1>1, <1>2 DEF EntryOf, Holding, mapVars
  <1>4. ASSUME NEW x \in Session, x # s PROVE EntryOf(x)' = EntryOf(x)
    <2>1. ~Holding(x) /\ ~Holding(x)'
      BY <1>1, <1>4 DEF Holding
    <2> QED BY <1>1, <1>2, <1>4, <2>1, EntryKept DEF mapVars
  <1>5. \A x \in Session : EntryOf(x)' = EntryOf(x)
    BY <1>3, <1>4
  <1> QED BY <1>1, <1>5, IndexKept DEF mapVars, sessionVars

\* The steps inside the monitor, as seen in the index.
LEMMA InsideIndex ==
  ASSUME Inv, NEW c \in Channel,
         \/ CloseChannel(c) \/ RmDevice(c) \/ RmSession(c) \/ RmChannel(c)
         \/ PutSession(c) \/ PutDevice(c) \/ PutChannel(c)
  PROVE  UNCHANGED IndexView \/ \E s \in Session : Index!EndPut(s) \/ Index!RemoveEntry(s)
  <1> USE NoneAssumption DEF Locked, Disposing, Putting
  <1>0. pc[c] \in Locked /\ UNCHANGED sessionVars
    BY DEF CloseChannel, RmDevice, RmSession, RmChannel, PutSession, PutDevice, PutChannel
  <1>1. PICK s \in Session :
          /\ s = cur[c] /\ locker = c /\ c # None /\ deviceOf[s] \in Device /\ UNCHANGED sessionVars
          /\ Holding(s) /\ s < nextId
    BY <1>0 DEF Inv, MonitorInv, InHand, Allocated, Holding
  <1>2. UNCHANGED View
    BY InsideMonitor, EndOfRemoval, EndOfPut
  <1>3. /\ \A x \in Session : LifeOf(x)' = LifeOf(x)
        /\ LifeOf(s) = IF pc[c] \in Putting THEN "registered" ELSE "disposed"
    <2>1. \A x \in Session : LifeOf(x)' = LifeOf(x)
      BY <1>2 DEF View, Life
    <2>2. ~(s >= nextId)
      <3>1. s < nextId /\ s \in Int /\ nextId \in Int
        BY <1>1, BoundAssumption DEF Inv, TypeOK, Session
      <3> QED BY <3>1
    <2> QED BY <1>1, <2>1, <2>2 DEF LifeOf
  <1>4. CASE CloseChannel(c) \/ RmSession(c) \/ PutSession(c)
    <2>1. /\ locker' = c /\ cur' = cur /\ deviceMap' = deviceMap
          /\ \A x \in Session : x # s => (x \in sessionMap' <=> x \in sessionMap)
      BY <1>1, <1>4 DEF CloseChannel, RmSession, PutSession, mapVars
    <2>2. \A x \in Session : x # s => EntryOf(x)' = EntryOf(x)
      BY <1>1, <1>3, <2>1, HolderKeeps
    <2>3. Holding(s)'
      BY <1>1, <2>1 DEF Holding
    <2>4. EntryOf(s)' = EntryOf(s)
      <3>1. CASE CloseChannel(c)
        <4>1. pc[c] = "close" /\ pc'[c] = "rmDevice" /\ sessionMap' = sessionMap
          BY <3>1 DEF CloseChannel, Goto, Inv, TypeOK, mapVars
        <4> QED BY <1>1, <1>3, <2>1, <2>3, <4>1 DEF EntryOf
      <3>2. CASE RmSession(c)
        <4>1. pc[c] = "rmSession" /\ pc'[c] = "rmChannel" /\ s \notin sessionMap'
          BY <1>1, <3>2 DEF RmSession, Goto, Inv, TypeOK
        <4> QED BY <1>1, <1>3, <2>1, <2>3, <4>1 DEF EntryOf
      <3>3. CASE PutSession(c)
        <4>1. pc[c] = "putSession" /\ pc'[c] = "putDevice"
          BY <3>3 DEF PutSession, Goto, Inv, TypeOK
        <4> QED BY <1>1, <1>3, <2>1, <2>3, <4>1 DEF EntryOf
      <3> QED BY <1>4, <3>1, <3>2, <3>3
    <2>5. \A x \in Session : EntryOf(x)' = EntryOf(x)
      BY <2>2, <2>4
    <2> QED BY <1>1, <2>1, <2>5, IndexKept DEF sessionVars
  <1>5. CASE RmChannel(c) \/ PutChannel(c)
    <2>1. /\ locker' = None /\ deviceMap' = deviceMap /\ sessionMap' = sessionMap
          /\ pc[c] = "rmChannel" => s \notin sessionMap
          /\ pc[c] = "putChannel" => s \in sessionMap
          /\ pc[c] \in {"rmChannel", "putChannel"}
      BY <1>1, <1>5 DEF RmChannel, PutChannel, Inv, RemoveInv, PutInv
    <2>2. \A x \in Session : x # s => EntryOf(x)' = EntryOf(x)
      BY <1>1, <1>3, <2>1, HolderKeeps
    <2>3. ~Holding(s)'
      BY <2>1 DEF Holding
    <2>4. EntryOf(s)' = EntryOf(s)
      BY <1>1, <1>3, <2>1, <2>3 DEF EntryOf
    <2>5. \A x \in Session : EntryOf(x)' = EntryOf(x)
      BY <2>2, <2>4
    <2> QED BY <1>1, <2>1, <2>5, IndexKept DEF sessionVars
  <1>6. CASE RmDevice(c) \/ PutDevice(c)
    <2>1. /\ locker' = c /\ cur' = cur /\ sessionMap' = sessionMap
          /\ deviceMap' = [deviceMap EXCEPT ![deviceOf[s]] = IF pc[c] = "putDevice" THEN s ELSE None]
          /\ \/ pc[c] = "rmDevice" /\ pc'[c] = "rmSession"
             \/ pc[c] = "putDevice" /\ pc'[c] = "putChannel" /\ s \in sessionMap
      BY <1>1, <1>6 DEF RmDevice, PutDevice, Goto, Inv, PutInv, TypeOK
    <2>2. \A x \in Session : x # s => EntryOf(x)' = EntryOf(x)
      BY <1>1, <1>3, <2>1, HolderKeeps
    <2>3. Holding(s)'
      BY <1>1, <2>1 DEF Holding
    <2>4. \A x \in Session : EntryOf(x) = "putting" => pc[c] = "putDevice"
      BY <1>1, <2>1, PutsHold
    <2>5. PutFor' = PutFor /\ PutFor[s] = deviceOf[s]
      <3>1. EntryOf(s) # "none" /\ EntryOf(s)' # "none" /\ deviceOf' = deviceOf
        BY <1>1, <1>3 DEF EntryOf, sessionVars
      <3> QED BY <1>1, <2>2, <3>1 DEF PutFor
    <2>6. CASE pc[c] = "putDevice"
      <3>1. EntryOf(s) = "putting" /\ EntryOf(s)' = "up"
        BY <1>1, <1>3, <2>1, <2>3, <2>6 DEF EntryOf
      <3>2. Entries' = [Entries EXCEPT ![s] = "up"] /\ Entries[s] = "putting"
        BY <1>1, <2>2, <3>1 DEF Entries
      <3>3. Index!EndPut(s)
        BY <2>1, <2>5, <2>6, <3>2 DEF Index!EndPut
      <3> QED BY <1>1, <3>3
    <2>7. CASE pc[c] = "rmDevice"
      <3>1. EntryOf(s) \in {"up", "gone"} /\ EntryOf(s)' = "gone"
        BY <1>1, <1>3, <2>1, <2>3, <2>7 DEF EntryOf
      <3>2. /\ Entries' = [Entries EXCEPT ![s] = "gone"] /\ Entries[s] \in {"up", "gone"}
            /\ \A x \in Session : Entries[x] # "putting"
        BY <1>1, <2>2, <2>4, <2>7, <3>1 DEF Entries
      <3>3. Index!RemoveEntry(s)
        BY <2>1, <2>5, <2>7, <3>2 DEF Index!RemoveEntry, Index!NoPut
      <3> QED BY <1>1, <3>3
    <2> QED BY <2>1, <2>6, <2>7
  <1> QED BY <1>4, <1>5, <1>6

LEMMA StepImplementsIndex == Inv /\ [Next]_vars => [Index!IndexNext]_(Index!indexVars)
  <1> SUFFICES ASSUME Inv, [Next]_vars PROVE Index!IndexNext \/ UNCHANGED IndexView
    BY DEF Index!indexVars, IndexView
  <1>1. ASSUME NEW c \in Channel, ValidateOk(c) \/ Lock(c) PROVE UNCHANGED IndexView
    BY <1>1, ConstructionIndex, LockIndex
  <1>2. ASSUME NEW c \in Channel, PutLock(c) PROVE Index!IndexNext
    BY <1>2, PutBeginsIndex DEF Index!IndexNext
  <1>3. ASSUME NEW c \in Channel,
               \/ CloseChannel(c) \/ RmDevice(c) \/ RmSession(c) \/ RmChannel(c)
               \/ PutSession(c) \/ PutDevice(c) \/ PutChannel(c)
        PROVE  Index!IndexNext \/ UNCHANGED IndexView
    BY <1>3, InsideIndex DEF Index!IndexNext
  <1>4. ASSUME NEW c \in Channel, Check(c) PROVE UNCHANGED IndexView
    <2> USE DEF Check, Goto, connVars, clientVars, Locked, Disposing, Putting, Steps
    <2>1. CASE Goto(c, "lock") /\ UNCHANGED <<task, cur, dev>>
      <3>1. cur' = [cur EXCEPT ![c] = cur[c]] /\ cur[c] \in Session \cup {None}
        BY <2>1 DEF Inv, TypeOK
      <3> QED BY <1>4, <2>1, <3>1, OutsideIndex
    <2>2. CASE AfterDispose(c)
      <3>1. PICK step \in {"idle", "validate"} :
              pc' = [pc EXCEPT ![c] = step] /\ cur' = [cur EXCEPT ![c] = None]
        BY <2>2, EndOfDispose
      <3> QED BY <1>4, <3>1, OutsideIndex
    <2> QED BY <1>4, <2>1, <2>2
  <1>5. ASSUME NEW c \in Channel, ValidateFault(c) \/ Reply(c) PROVE UNCHANGED IndexView
    BY <1>5, OutsideIndex
       DEF ValidateFault, Reply, Return, Enter, Goto, connVars, clientVars, Locked, Disposing,
           Putting, Steps
  <1>6. ASSUME NEW c \in Channel, NEW d \in Device, Initialize(c, d) PROVE UNCHANGED IndexView
    <2>1. PICK s \in GetByDeviceId(d) :
            \/ s = None /\ Enter(c, "validate", "init", None, d)
            \/ s # None /\ Enter(c, "check", "init", s, d)
      BY <1>6 DEF Initialize
    <2>2. s \in Session \cup {None} /\ pc[c] = "idle"
      BY <1>6, LoopAssumption DEF GetByDeviceId, Inv, TypeOK, Initialize, CanHandle, LoopFree
    <2> QED BY <1>6, <2>1, <2>2, OutsideIndex
         DEF Initialize, Enter, Goto, Locked, Disposing, Putting, Steps
  <1>7. ASSUME NEW c \in Channel, CloseSession(c) PROVE UNCHANGED IndexView
    <2>1. mine[c] \in Session \cup {None} /\ pc[c] = "idle"
      BY <1>7, LoopAssumption DEF Inv, TypeOK, CloseSession, CanHandle, LoopFree
    <2> QED BY <1>7, <2>1, OutsideIndex
         DEF CloseSession, Enter, Goto, Locked, Disposing, Putting, Steps
  <1>8. ASSUME NEW c \in Channel, Inactive(c) PROVE UNCHANGED IndexView
    <2>1. PICK s \in GetByChannel(c) :
            \/ s = None /\ UNCHANGED threadVars
            \/ s # None /\ Enter(c, "check", "inactive", s, None)
      BY <1>8 DEF Inactive
    <2>2. s \in Session \cup {None} /\ pc[c] = "idle"
      BY <1>8, LoopAssumption DEF GetByChannel, Inv, TypeOK, Inactive, LoopFree
    <2>3. \/ pc' = [pc EXCEPT ![c] = "idle"] /\ cur' = [cur EXCEPT ![c] = cur[c]]
          \/ pc' = [pc EXCEPT ![c] = "check"] /\ cur' = [cur EXCEPT ![c] = s]
      BY <2>1, <2>2 DEF Inv, TypeOK, threadVars, Enter, Goto
    <2>4. cur[c] \in Session \cup {None}
      BY DEF Inv, TypeOK
    <2> QED BY <1>8, <2>2, <2>3, <2>4, OutsideIndex
         DEF Inactive, Locked, Disposing, Putting, Steps
  <1>9. ASSUME UNCHANGED <<mapVars, sessionVars, locker, pc, cur>> PROVE UNCHANGED IndexView
    BY <1>9 DEF mapVars, sessionVars, IndexView, Entries, PutFor, EntryOf, LifeOf, Holding
  <1>10. ASSUME NEW c \in Channel, NoSession(c) \/ Disconnect(c) \/ RunClose(c)
         PROVE  UNCHANGED IndexView
    BY <1>9, <1>10 DEF NoSession, Disconnect, RunClose, threadVars
  <1>11. CASE UNCHANGED vars
    BY <1>9, <1>11 DEF vars, threadVars
  <1> QED
    BY <1>1, <1>2, <1>3, <1>4, <1>5, <1>6, <1>7, <1>8, <1>10, <1>11
       DEF Next, Client, Handler, Dispose, Open

\* SessionNexus implements DeviceIndex: what Delivery assumes of the sessions that come
\* and go around its broadcasts holds for any number of event loops and connections.
THEOREM ImplementsIndex == Spec => DeviceIndexSpec
  <1>1. Init => Index!IndexInit
    <2> SUFFICES ASSUME Init PROVE Index!IndexInit
      OBVIOUS
    <2>1. \A s \in Session : EntryOf(s) = "none"
      BY BoundAssumption DEF Init, EntryOf, LifeOf, Session
    <2> QED BY <2>1 DEF Init, Index!IndexInit, Entries, PutFor
  <1> QED
    BY <1>1, Invariance, StepImplementsIndex, PTL DEF Spec, DeviceIndexSpec, Index!IndexSpec

\* What getByDeviceId may return here, DeviceIndex lets it return.
LookupsCovered == \A d \in Device : GetByDeviceId(d) \subseteq Index!Found(d)

\* A lookup outside the monitor finds what DeviceIndex lets it find, also while another
\* thread moves the entries of a growing map: the entry, or nothing when the put of a
\* new device is under way.  SessionNexus.java:72-74.
THEOREM LookupsAreCovered == Spec => []LookupsCovered
  <1>1. Inv => LookupsCovered
    <2> SUFFICES ASSUME Inv, GrowingDevices PROVE Index!Growing
      BY DEF LookupsCovered, GetByDeviceId, Index!Found
    <2>1. PICK o \in Channel : pc[o] = "putDevice" /\ deviceMap[deviceOf[cur[o]]] = None
      BY DEF GrowingDevices
    <2>2. /\ cur[o] \in Session /\ cur[o] < nextId /\ locker = o /\ locker # None
      BY <2>1, NoneAssumption DEF Inv, InHand, MonitorInv, Locked, Putting
    <2>3. ~(cur[o] >= nextId)
      BY <2>2, BoundAssumption DEF Inv, TypeOK, Session
    <2>4. EntryOf(cur[o]) = "putting"
      BY <2>1, <2>2, <2>3 DEF EntryOf, LifeOf, Holding, Putting
    <2>5. Entries[cur[o]] = "putting" /\ PutFor[cur[o]] = deviceOf[cur[o]]
      BY <2>2, <2>4 DEF Entries, PutFor
    <2> QED BY <2>1, <2>2, <2>5 DEF Index!Growing
  <1> QED BY <1>1, Invariance, PTL
================================================================================
