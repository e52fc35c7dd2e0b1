-------------------------- MODULE SessionNexusProofs --------------------------
(***************************************************************************)
(* Theorems about SessionNexus, for any connections, devices, event loops  *)
(* and bounds, whether or not the maps grow.                               *)
(*                                                                         *)
(* None of the safety properties is inductive as it stands.  Handlers hold *)
(* their session in a local variable across unsynchronized steps, so the   *)
(* inductive invariant says what may be assumed of that session (InHand,   *)
(* Pending), who owns the monitor (MonitorInv), and how far the owner's    *)
(* update has come (PutInv, RemoveInv).                                    *)
(*                                                                         *)
(* The last part is about what is lost.  Lookups made outside the monitor *)
(* may be outdated when they are used; the history of SessionNexusHistory  *)
(* says when that was so, and HistoryInv that nothing else loses the entry *)
(* a session is found by.                                                  *)
(***************************************************************************)
EXTENDS SessionNexusHistory, TLAPS

\* Constructed sessions have a device and a connection.
Allocated == \A s \in Session : s < nextId => deviceOf[s] \in Device /\ channelOf[s] \in Channel

\* What a handler holds in its local variables.
InHand ==
  \A c \in Channel :
    /\ pc[c] \notin {"idle", "validate"} => cur[c] \in Session /\ cur[c] < nextId
    /\ pc[c] \in {"idle", "validate"} => cur[c] = None
    /\ pc[c] = "validate" \/ task[c] = "init" => dev[c] \in Device

\* The monitor is held exactly inside the synchronized blocks.
MonitorInv == \A c \in Channel : pc[c] \in Locked <=> locker = c

\* A session that is not registered yet is known to its own handler only.
Pending ==
  \A c \in Channel : pc[c] \in {"put", "putSession"} =>
    /\ cur[c] \notin sessionMap
    /\ \A o \in Channel : o # c => cur[o] # cur[c]

Registered == \A s \in sessionMap : s < nextId

\* How much of a put is done.
PutInv ==
  \A c \in Channel :
    /\ pc[c] \in {"putDevice", "putChannel"} => cur[c] \in sessionMap
    /\ pc[c] = "putChannel" => deviceMap[deviceOf[cur[c]]] = cur[c]

\* How much of a dispose is done; the connection is on its way down.
Down(s) == chan[channelOf[s]] # "open" \/ channelOf[s] \in closing

RemoveInv ==
  \A c \in Channel :
    /\ pc[c] \in {"rmSession", "rmChannel"} => deviceMap[deviceOf[cur[c]]] = None
    /\ pc[c] = "rmChannel" => cur[c] \notin sessionMap
    /\ pc[c] \in {"rmDevice", "rmSession", "rmChannel"} => Down(cur[c])

Inv ==
  /\ TypeOK
  /\ Allocated
  /\ InHand
  /\ MonitorInv
  /\ Pending
  /\ Registered
  /\ PutInv
  /\ RemoveInv
  /\ NoDangling
  /\ DisposedIsDisconnected
--------------------------------------------------------------------------------

\* The end of dispose leaves nothing in the handler's hand.
LEMMA EndOfDispose ==
  ASSUME Inv, NEW c \in Channel, AfterDispose(c)
  PROVE  \E step \in {"idle", "validate"}, t \in {"none", "init"}, d \in Device \cup {None} :
           /\ pc' = [pc EXCEPT ![c] = step]
           /\ task' = [task EXCEPT ![c] = t]
           /\ cur' = [cur EXCEPT ![c] = None]
           /\ dev' = [dev EXCEPT ![c] = d]
           /\ step = "validate" \/ t = "init" => d \in Device
  <1>1. CASE task[c] = "init" /\ Enter(c, "validate", "init", None, dev[c])
    BY <1>1 DEF Enter, Goto, Inv, InHand
  <1>2. CASE task[c] # "init" /\ Return(c)
    BY <1>2 DEF Return, Enter, Goto
  <1> QED
    BY <1>1, <1>2 DEF AfterDispose

\* A new session is nobody's to remove.
LEMMA AllocationKeepsRemovals ==
  ASSUME Inv, NEW c \in Channel, ValidateOk(c)
  PROVE  RemoveInv'
  <1>1. /\ pc' = [pc EXCEPT ![c] = "put"] /\ cur' = [cur EXCEPT ![c] = nextId]
        /\ deviceOf' = [deviceOf EXCEPT ![nextId] = dev[c]]
        /\ channelOf' = [channelOf EXCEPT ![nextId] = c]
        /\ UNCHANGED <<chan, closing, sessionMap, deviceMap>>
    BY DEF ValidateOk, Enter, Goto, connVars, mapVars
  <1>2. ASSUME NEW o \in Channel, pc'[o] \in {"rmDevice", "rmSession", "rmChannel"}
        PROVE  /\ pc'[o] = pc[o] /\ cur'[o] = cur[o]
               /\ deviceOf'[cur[o]] = deviceOf[cur[o]] /\ channelOf'[cur[o]] = channelOf[cur[o]]
    <2>1. pc'[c] = "put"
      BY <1>1 DEF Inv, TypeOK
    <2>2. o # c /\ pc'[o] = pc[o] /\ cur'[o] = cur[o]
      BY <1>1, <1>2, <2>1 DEF Inv, TypeOK
    <2>3. cur[o] \in Session /\ cur[o] # nextId
      BY <1>2, <2>2 DEF Inv, InHand, Session
    <2> QED BY <1>1, <2>2, <2>3 DEF Inv, TypeOK
  <1> QED BY <1>1, <1>2 DEF Inv, RemoveInv, Down

\* Every step keeps the invariant.
LEMMA Step == Inv /\ [Next]_vars => Inv'
  <1> SUFFICES ASSUME Inv, [Next]_vars PROVE Inv'
    OBVIOUS
  <1> USE NoneAssumption, BoundAssumption, LoopAssumption
      DEF Session, Steps, Locked, Disposing, Putting,
          mapVars, connVars, sessionVars, threadVars, clientVars
  <1>1. ASSUME NEW c \in Channel, Check(c) PROVE Inv'
    <2> USE <1>1 DEF Check, Absent, Present, GrowingSessions, Goto
    <2>1. CASE Present(cur[c]) /\ Goto(c, "lock") /\ UNCHANGED <<task, cur, dev>>
      <3> USE <2>1
      <3>1. (Allocated /\ InHand /\ MonitorInv /\ Pending /\ Registered /\ PutInv /\
           RemoveInv /\ NoDangling /\ DisposedIsDisconnected)'
        BY DEF Inv, TypeOK, Allocated, InHand, MonitorInv, Pending, Registered, PutInv,
           RemoveInv, NoDangling, DisposedIsDisconnected, Down, Gone
      <3>2. TypeOK'
        BY DEF Inv, TypeOK
      <3> QED BY <3>1, <3>2 DEF Inv
    <2>2. CASE Absent(cur[c]) /\ AfterDispose(c)
      <3>0. PICK step \in {"idle", "validate"}, t \in {"none", "init"}, e \in Device \cup {None} :
              /\ pc' = [pc EXCEPT ![c] = step] /\ task' = [task EXCEPT ![c] = t]
              /\ cur' = [cur EXCEPT ![c] = None] /\ dev' = [dev EXCEPT ![c] = e]
              /\ step = "validate" \/ t = "init" => e \in Device
        BY <2>2, EndOfDispose
      <3>1. (Allocated /\ InHand /\ MonitorInv /\ Registered /\ PutInv /\ RemoveInv /\
           NoDangling /\ DisposedIsDisconnected)'
        BY <3>0 DEF Inv, TypeOK, Allocated, InHand, MonitorInv, Registered, PutInv,
           RemoveInv, NoDangling, DisposedIsDisconnected, Down, Gone
      <3>2. TypeOK'
        BY <3>0 DEF Inv, TypeOK
      <3>3. Pending'
        BY <3>0 DEF Inv, Pending, TypeOK, InHand
      <3> QED BY <3>1, <3>2, <3>3 DEF Inv
    <2> QED BY <2>1, <2>2
  <1>2. ASSUME NEW c \in Channel, Lock(c) PROVE Inv'
    <2> USE <1>2 DEF Lock, Goto
    <2>1. TypeOK'
      BY DEF Inv, TypeOK
    <2>2. Allocated'
      BY DEF Inv, Allocated
    <2>3. InHand'
      BY DEF Inv, InHand
    <2>4. MonitorInv'
      BY DEF Inv, MonitorInv, TypeOK
    <2>5. Pending'
      BY DEF Inv, Pending
    <2>6. Registered'
      BY DEF Inv, Registered
    <2>7. PutInv'
      BY DEF Inv, PutInv
    <2>8. RemoveInv'
      BY DEF Inv, RemoveInv, Down
    <2>9. NoDangling'
      BY DEF Inv, NoDangling
    <2>10. DisposedIsDisconnected'
      BY DEF Inv, DisposedIsDisconnected, Gone, Down
    <2> QED BY <2>1, <2>2, <2>3, <2>4, <2>5, <2>6, <2>7, <2>8, <2>9, <2>10 DEF Inv
  <1>3. ASSUME NEW c \in Channel, CloseChannel(c) PROVE Inv'
    <2> USE <1>3 DEF CloseChannel, Goto
    <2>1. (Allocated /\ InHand /\ MonitorInv /\ Pending /\ Registered /\ PutInv /\
         NoDangling /\ DisposedIsDisconnected)'
      BY DEF Inv, TypeOK, Allocated, InHand, MonitorInv, Pending, Registered, PutInv,
         NoDangling, DisposedIsDisconnected, Gone, Down
    <2>2. TypeOK'
      <3>1. channelOf[cur[c]] \in Channel
        BY DEF Inv, InHand, Allocated
      <3>2. chan' \in [Channel -> {"open", "closed", "gone"}]
        BY DEF Inv, TypeOK
      <3>3. closing' \subseteq Channel
        BY <3>1 DEF Inv, TypeOK
      <3> QED BY <3>2, <3>3 DEF Inv, TypeOK
    <2>3. RemoveInv'
      BY DEF Inv, RemoveInv, TypeOK, InHand, Allocated, Down
    <2> QED BY <2>1, <2>2, <2>3 DEF Inv
  <1>4. ASSUME NEW c \in Channel, RmDevice(c) PROVE Inv'
    <2> USE <1>4 DEF RmDevice, Goto
    <2>1. TypeOK'
      BY DEF Inv, TypeOK
    <2>2. Allocated'
      BY DEF Inv, Allocated
    <2>3. InHand'
      BY DEF Inv, InHand
    <2>4. MonitorInv'
      BY DEF Inv, MonitorInv
    <2>5. Pending'
      BY DEF Inv, Pending
    <2>6. Registered'
      BY DEF Inv, Registered
    <2>7. PutInv'
      BY DEF Inv, PutInv, TypeOK, InHand, MonitorInv
    <2>8. RemoveInv'
      BY DEF Inv, RemoveInv, TypeOK, InHand, Allocated, NoDangling, MonitorInv, Down
    <2>9. NoDangling'
      BY DEF Inv, NoDangling
    <2>10. DisposedIsDisconnected'
      BY DEF Inv, DisposedIsDisconnected, Gone, Down
    <2> QED BY <2>1, <2>2, <2>3, <2>4, <2>5, <2>6, <2>7, <2>8, <2>9, <2>10 DEF Inv
  <1>5. ASSUME NEW c \in Channel, RmSession(c) PROVE Inv'
    <2> USE <1>5 DEF RmSession, Goto
    <2>1. (Allocated /\ InHand /\ MonitorInv /\ Pending /\ Registered /\ RemoveInv)'
      BY DEF Inv, TypeOK, Allocated, InHand, MonitorInv, Pending, Registered, RemoveInv,
         Down
    <2>2. TypeOK'
      BY DEF Inv, TypeOK
    <2>3. PutInv'
      BY DEF Inv, PutInv, TypeOK, InHand, MonitorInv
    <2>4. NoDangling'
      BY DEF Inv, NoDangling, TypeOK, InHand, Allocated, RemoveInv, MonitorInv
    <2>5. DisposedIsDisconnected'
      BY DEF Inv, DisposedIsDisconnected, TypeOK, InHand, Allocated, RemoveInv,
         MonitorInv, Gone, Down
    <2> QED BY <2>1, <2>2, <2>3, <2>4, <2>5 DEF Inv
  <1>6. ASSUME NEW c \in Channel, RmChannel(c) PROVE Inv'
    <2> USE <1>6 DEF RmChannel
    <2>0. PICK step \in {"idle", "validate"}, t \in {"none", "init"}, e \in Device \cup {None} :
            /\ pc' = [pc EXCEPT ![c] = step] /\ task' = [task EXCEPT ![c] = t]
            /\ cur' = [cur EXCEPT ![c] = None] /\ dev' = [dev EXCEPT ![c] = e]
            /\ step = "validate" \/ t = "init" => e \in Device
      BY EndOfDispose
    <2>1. (Allocated /\ InHand /\ MonitorInv /\ Registered /\ PutInv /\ RemoveInv /\
         DisposedIsDisconnected)'
      BY <2>0 DEF Inv, TypeOK, Allocated, InHand, MonitorInv, Registered, PutInv,
         RemoveInv, DisposedIsDisconnected, Down, Gone
    <2>2. TypeOK'
      BY <2>0 DEF Inv, TypeOK
    <2>3. Pending'
      BY <2>0, ZenonT(60) DEF Inv, Pending, TypeOK, InHand
    <2>4. NoDangling'
      BY <2>0 DEF Inv, NoDangling, TypeOK, InHand, MonitorInv
    <2> QED BY <2>1, <2>2, <2>3, <2>4 DEF Inv
  <1>7. ASSUME NEW c \in Channel, ValidateOk(c) PROVE Inv'
    <2> USE <1>7 DEF ValidateOk, Enter, Goto
    <2>1. (InHand /\ MonitorInv /\ Registered /\ PutInv)'
      BY DEF Inv, TypeOK, InHand, MonitorInv, Registered, PutInv
    <2>2. TypeOK'
      BY DEF Inv, TypeOK
    <2>3. Allocated'
      BY DEF Inv, Allocated, TypeOK, InHand
    <2>8. /\ pc'[c] = "put" /\ cur'[c] = nextId
          /\ \A o \in Channel : o # c => pc'[o] = pc[o] /\ cur'[o] = cur[o]
      BY DEF Inv, TypeOK
    <2>9. \A o \in Channel : cur[o] # nextId
      <3>1. nextId \in Session /\ nextId # None /\ ~(nextId < nextId)
        BY DEF Inv, TypeOK
      <3>2. \A o \in Channel : cur[o] = None \/ cur[o] < nextId
        BY DEF Inv, InHand
      <3> QED BY <3>1, <3>2
    <2>4. Pending'
      <3>1. cur'[c] \notin sessionMap'
        BY <2>8 DEF Inv, TypeOK, Registered
      <3> QED BY <2>8, <2>9, <3>1 DEF Inv, Pending
    <2>5. RemoveInv'
      BY <1>7, AllocationKeepsRemovals
    <2>6. NoDangling'
      BY DEF Inv, NoDangling, TypeOK, InHand, Registered
    <2>7. DisposedIsDisconnected'
      BY SMTT(30) DEF Inv, DisposedIsDisconnected, TypeOK, InHand, Gone, Down
    <2> QED BY <2>1, <2>2, <2>3, <2>4, <2>5, <2>6, <2>7 DEF Inv
  <1>8. ASSUME NEW c \in Channel, ValidateFault(c) PROVE Inv'
    <2> USE <1>8 DEF ValidateFault, Return, Enter, Goto
    <2>1. (Allocated /\ InHand /\ MonitorInv /\ Registered /\ PutInv /\ RemoveInv /\
         NoDangling /\ DisposedIsDisconnected)'
      BY DEF Inv, TypeOK, Allocated, InHand, MonitorInv, Registered, PutInv, RemoveInv,
         NoDangling, DisposedIsDisconnected, Down, Gone
    <2>2. TypeOK'
      BY DEF Inv, TypeOK
    <2>3. Pending'
      BY DEF Inv, Pending, TypeOK, InHand
    <2> QED BY <2>1, <2>2, <2>3 DEF Inv
  <1>9. ASSUME NEW c \in Channel, PutLock(c) PROVE Inv'
    <2> USE <1>9 DEF PutLock, Goto
    <2>1. (Allocated /\ InHand /\ MonitorInv /\ Pending /\ Registered /\ PutInv /\ RemoveInv
         /\ NoDangling /\ DisposedIsDisconnected)'
      BY DEF Inv, TypeOK, Allocated, InHand, MonitorInv, Pending, Registered, PutInv,
         RemoveInv, NoDangling, DisposedIsDisconnected, Down, Gone
    <2>2. TypeOK'
      BY DEF Inv, TypeOK
    <2> QED BY <2>1, <2>2 DEF Inv
  <1>10. ASSUME NEW c \in Channel, PutSession(c) PROVE Inv'
    <2> USE <1>10 DEF PutSession, Goto
    <2>1. (Allocated /\ InHand /\ MonitorInv /\ Pending /\ PutInv /\ RemoveInv /\ NoDangling
         /\ DisposedIsDisconnected)'
      BY DEF Inv, TypeOK, Allocated, InHand, MonitorInv, Pending, PutInv, RemoveInv,
         NoDangling, DisposedIsDisconnected, Down, Gone
    <2>2. TypeOK'
      BY DEF Inv, TypeOK, InHand
    <2>3. Registered'
      BY DEF Inv, Registered, TypeOK, InHand
    <2> QED BY <2>1, <2>2, <2>3 DEF Inv
  <1>11. ASSUME NEW c \in Channel, PutDevice(c) PROVE Inv'
    <2> USE <1>11 DEF PutDevice, Goto
    <2>1. (Allocated /\ InHand /\ MonitorInv /\ Pending /\ Registered /\ PutInv /\
         DisposedIsDisconnected)'
      BY DEF Inv, TypeOK, Allocated, InHand, MonitorInv, Pending, Registered, PutInv,
         DisposedIsDisconnected, Gone, Down
    <2>2. TypeOK'
      BY DEF Inv, TypeOK
    <2>3. RemoveInv'
      BY DEF Inv, RemoveInv, TypeOK, InHand, MonitorInv, Down
    <2>4. NoDangling'
      BY DEF Inv, NoDangling, TypeOK, Allocated, InHand, MonitorInv, Pending, Registered,
         PutInv, RemoveInv
    <2> QED BY <2>1, <2>2, <2>3, <2>4 DEF Inv
  <1>12. ASSUME NEW c \in Channel, PutChannel(c) PROVE Inv'
    <2> USE <1>12 DEF PutChannel, Goto
    <2>1. (Allocated /\ InHand /\ MonitorInv /\ Pending /\ Registered /\ PutInv /\ RemoveInv
         /\ DisposedIsDisconnected)'
      BY DEF Inv, TypeOK, Allocated, InHand, MonitorInv, Pending, Registered, PutInv,
         RemoveInv, DisposedIsDisconnected, Down, Gone
    <2>2. TypeOK'
      BY DEF Inv, TypeOK
    <2>3. NoDangling'
      BY DEF Inv, NoDangling, TypeOK, Allocated, InHand, MonitorInv, Pending, Registered,
         PutInv, RemoveInv
    <2> QED BY <2>1, <2>2, <2>3 DEF Inv
  <1>13. ASSUME NEW c \in Channel, Reply(c) PROVE Inv'
    <2> USE <1>13 DEF Reply, Return, Enter, Goto
    <2>1. (Allocated /\ InHand /\ MonitorInv /\ Registered /\ PutInv /\ RemoveInv /\
         NoDangling /\ DisposedIsDisconnected)'
      BY DEF Inv, TypeOK, Allocated, InHand, MonitorInv, Registered, PutInv, RemoveInv,
         NoDangling, DisposedIsDisconnected, Down, Gone
    <2>2. TypeOK'
      BY DEF Inv, TypeOK
    <2>3. Pending'
      BY DEF Inv, Pending, TypeOK, InHand
    <2> QED BY <2>1, <2>2, <2>3 DEF Inv
  <1>14. ASSUME NEW c \in Channel, NEW d \in Device, Initialize(c, d) PROVE Inv'
    <2> USE <1>14 DEF Initialize, CanHandle, LoopFree, GetByDeviceId, Enter, Goto
    <2>1. CASE Enter(c, "validate", "init", None, d)
      <3> USE <2>1
      <3>1. (Allocated /\ InHand /\ MonitorInv /\ Registered /\ PutInv /\ RemoveInv /\
           NoDangling /\ DisposedIsDisconnected)'
        BY DEF Inv, TypeOK, Allocated, InHand, MonitorInv, Registered, PutInv, RemoveInv,
           NoDangling, DisposedIsDisconnected, Down, Gone
      <3>2. TypeOK'
        BY DEF Inv, TypeOK
      <3>3. Pending'
        BY DEF Inv, Pending, TypeOK, InHand
      <3> QED BY <3>1, <3>2, <3>3 DEF Inv
    <2>2. CASE deviceMap[d] # None /\ Enter(c, "check", "init", deviceMap[d], d)
      <3> USE <2>2
      <3>1. (Allocated /\ MonitorInv /\ Registered /\ PutInv /\ RemoveInv /\ NoDangling /\
           DisposedIsDisconnected)'
        BY DEF Inv, TypeOK, Allocated, MonitorInv, Registered, PutInv, RemoveInv,
           NoDangling, DisposedIsDisconnected, Down, Gone
      <3>2. TypeOK'
        BY DEF Inv, TypeOK
      <3>3. InHand'
        BY DEF Inv, InHand, TypeOK, NoDangling, Registered
      <3>4. Pending'
        BY DEF Inv, Pending, TypeOK, InHand, NoDangling
      <3> QED BY <3>1, <3>2, <3>3, <3>4 DEF Inv
    <2> QED BY <2>1, <2>2
  <1>15. ASSUME NEW c \in Channel, CloseSession(c) PROVE Inv'
    <2> USE <1>15 DEF CloseSession, CanHandle, LoopFree, Present, Enter, Goto
    <2>1. (Allocated /\ MonitorInv /\ Pending /\ Registered /\ PutInv /\ RemoveInv /\
         NoDangling /\ DisposedIsDisconnected)'
      BY DEF Inv, TypeOK, Allocated, MonitorInv, Pending, Registered, PutInv, RemoveInv,
         NoDangling, DisposedIsDisconnected, Down, Gone
    <2>2. TypeOK'
      BY DEF Inv, TypeOK
    <2>3. InHand'
      BY DEF Inv, InHand, TypeOK, NoDangling, Registered
    <2> QED BY <2>1, <2>2, <2>3 DEF Inv
  <1>16. ASSUME NEW c \in Channel, NoSession(c) PROVE Inv'
    <2> USE <1>16 DEF NoSession, CanHandle, LoopFree
    <2>1. (Allocated /\ InHand /\ MonitorInv /\ Pending /\ Registered /\ PutInv /\ RemoveInv
         /\ NoDangling /\ DisposedIsDisconnected)'
      BY DEF Inv, TypeOK, Allocated, InHand, MonitorInv, Pending, Registered, PutInv,
         RemoveInv, NoDangling, DisposedIsDisconnected, Down, Gone
    <2>2. TypeOK'
      BY DEF Inv, TypeOK
    <2> QED BY <2>1, <2>2 DEF Inv
  <1>17. ASSUME NEW c \in Channel, Disconnect(c) PROVE Inv'
    <2> USE <1>17 DEF Disconnect
    <2>1. (Allocated /\ InHand /\ MonitorInv /\ Pending /\ Registered /\ PutInv /\ RemoveInv
         /\ NoDangling /\ DisposedIsDisconnected)'
      BY DEF Inv, TypeOK, Allocated, InHand, MonitorInv, Pending, Registered, PutInv,
         RemoveInv, NoDangling, DisposedIsDisconnected, Down, Gone
    <2>2. TypeOK'
      BY DEF Inv, TypeOK
    <2> QED BY <2>1, <2>2 DEF Inv
  <1>18. ASSUME NEW c \in Channel, RunClose(c) PROVE Inv'
    <2> USE <1>18 DEF RunClose
    <2>1. (Allocated /\ InHand /\ MonitorInv /\ Pending /\ Registered /\ PutInv /\ RemoveInv
         /\ NoDangling /\ DisposedIsDisconnected)'
      BY DEF Inv, TypeOK, Allocated, InHand, MonitorInv, Pending, Registered, PutInv,
         RemoveInv, NoDangling, DisposedIsDisconnected, Down, Gone
    <2>2. TypeOK'
      BY DEF Inv, TypeOK
    <2> QED BY <2>1, <2>2 DEF Inv
  <1>19. ASSUME NEW c \in Channel, Inactive(c) PROVE Inv'
    <2> USE <1>19 DEF Inactive, LoopFree, GetByChannel, Enter, Goto
    <2>1. CASE UNCHANGED threadVars
      <3> USE <2>1
      <3>1. (Allocated /\ InHand /\ MonitorInv /\ Pending /\ Registered /\ PutInv /\
           RemoveInv /\ NoDangling /\ DisposedIsDisconnected)'
        BY DEF Inv, TypeOK, Allocated, InHand, MonitorInv, Pending, Registered, PutInv,
           RemoveInv, NoDangling, DisposedIsDisconnected, Down, Gone
      <3>2. TypeOK'
        BY DEF Inv, TypeOK
      <3> QED BY <3>1, <3>2 DEF Inv
    <2>2. CASE channelMap[c] # None /\ Enter(c, "check", "inactive", channelMap[c], None)
      <3> USE <2>2
      <3>1. (Allocated /\ MonitorInv /\ Registered /\ PutInv /\ RemoveInv /\ NoDangling /\
           DisposedIsDisconnected)'
        BY DEF Inv, TypeOK, Allocated, MonitorInv, Registered, PutInv, RemoveInv,
           NoDangling, DisposedIsDisconnected, Down, Gone
      <3>2. TypeOK'
        BY DEF Inv, TypeOK
      <3>3. InHand'
        BY DEF Inv, InHand, TypeOK, NoDangling, Registered
      <3>4. Pending'
        BY DEF Inv, Pending, TypeOK, InHand, NoDangling
      <3> QED BY <3>1, <3>2, <3>3, <3>4 DEF Inv
    <2> QED BY <2>1, <2>2
  <1>20. CASE UNCHANGED vars
    BY <1>20 DEF vars, Inv, TypeOK, Allocated, InHand, MonitorInv, Pending, Registered,
       PutInv, RemoveInv, NoDangling, DisposedIsDisconnected, Gone, Down
  <1> QED
    BY <1>1, <1>2, <1>3, <1>4, <1>5, <1>6, <1>7, <1>8, <1>9, <1>10, <1>11, <1>12, <1>13,
       <1>14, <1>15, <1>16, <1>17, <1>18, <1>19, <1>20 DEF Next, Client, Handler, Dispose,
       Open

\* Inv holds in every reachable state.
THEOREM Invariance == Spec => []Inv
  <1>1. Init => Inv
    BY NoneAssumption, BoundAssumption
       DEF Init, Inv, TypeOK, Session, Allocated, InHand, MonitorInv, Pending, Registered,
           PutInv, RemoveInv, NoDangling, DisposedIsDisconnected, Gone, Steps, Locked,
           Disposing, Putting
  <1> QED
    BY <1>1, Step, PTL DEF Spec

\* Every variable keeps its type: dispose and the handlers always find a device
\* and a connection for the session in hand.
THEOREM TypeCorrect == Spec => []TypeOK
  <1>1. Inv => TypeOK
    BY DEF Inv
  <1> QED
    BY <1>1, Invariance, PTL

\* No interleaving of puts, disposes and unsynchronized lookups leaves a device
\* that leads to a session that is not registered.
THEOREM NeverDangling == Spec => []NoDangling
  <1>1. Inv => NoDangling
    BY DEF Inv
  <1> QED
    BY <1>1, Invariance, PTL

\* Whoever disposes of a session, its client is disconnected or about to be.
THEOREM DisposedMeansDisconnected == Spec => []DisposedIsDisconnected
  <1>1. Inv => DisposedIsDisconnected
    BY DEF Inv
  <1> QED
    BY <1>1, Invariance, PTL
--------------------------------------------------------------------------------
(* What is lost to outdated lookups and to second sessions, and what is not *)

\* A put opens the session of its own connection, for the device of its frame; a
\* takeover disposes of that device's session.  An INITIALIZE ends before its
\* connection is reported inactive.
TaskOf(c) ==
  /\ pc[c] = "idle" => task[c] = "none"
  /\ pc[c] \in Putting \cup {"validate", "put", "reply"} => task[c] = "init"
  /\ pc[c] \in Putting \cup {"put"} => channelOf[cur[c]] = c
  /\ task[c] = "init" => chan[c] # "gone" /\ (cur[c] # None => deviceOf[cur[c]] = dev[c])

Tasks == \A c \in Channel : TaskOf(c)

\* What a handler goes by is still true, unless it is stale.
GoesByTruth(c) ==
  /\ task[c] = "init" /\ pc[c] \in {"check", "lock"} => deviceMap[dev[c]] \in {None, cur[c]}
  /\ pc[c] \in {"validate", "put"} => deviceMap[dev[c]] = None
  /\ pc[c] = "lock" => cur[c] \in sessionMap

TrueLookups == \A c \in Channel \ stale : GoesByTruth(c)

\* The entries that the holder of the monitor is about to set or remove lead to its
\* own session, or to one that is known to lose them.
AimOf(c) ==
  /\ pc[c] \in {"close", "rmDevice", "putSession", "putDevice"} =>
       deviceMap[deviceOf[cur[c]]] \in strayed \cup {None, cur[c]}
  /\ pc[c] \in Locked => channelMap[channelOf[cur[c]]] \in orphaned \cup {None, cur[c]}

Aim == \A c \in Channel : AimOf(c)

\* A registered session has its entries, but for the holder's that are under way.
LedTo(s) ==
  \/ deviceMap[deviceOf[s]] = s
  \/ \E c \in Channel : cur[c] = s /\ pc[c] \in {"putDevice", "rmSession"}
AttachedTo(s) ==
  \/ channelMap[channelOf[s]] = s
  \/ \E c \in Channel : cur[c] = s /\ pc[c] \in {"putDevice", "putChannel"}

Led == \A s \in sessionMap \ strayed : LedTo(s)
Attached == \A s \in sessionMap \ orphaned : AttachedTo(s)

\* Once a connection is gone, only its last handler keeps a session registered.
Removing == {"check", "lock", "close", "rmDevice", "rmSession"}
OnItsWay(s) ==
  chan[channelOf[s]] = "gone" => pc[channelOf[s]] \in Removing /\ cur[channelOf[s]] = s

Leaving == \A s \in sessionMap \ orphaned : OnItsWay(s)

KnownLosses == stale \subseteq Channel /\ strayed \subseteq sessionMap /\ orphaned \subseteq sessionMap

HistoryInv ==
  Inv /\ KnownLosses /\ Tasks /\ TrueLookups /\ Aim /\ Led /\ Attached /\ Leaving

\* When nobody holds the monitor the invariant says what the properties say.
LEMMA IndexFollows == HistoryInv => DeviceIndexExact
  BY NoneAssumption DEF HistoryInv, Inv, MonitorInv, Led, LedTo, DeviceIndexExact, Locked, Putting, Disposing

LEMMA ClosingFollows == HistoryInv => ClosedLeavesNothing
  <1> SUFFICES ASSUME HistoryInv, NEW c \in Channel, chan[c] = "gone", pc[c] = "idle", locker = None,
                      NEW s \in LeftOf(c), s # None
               PROVE  s \in orphaned
    BY DEF ClosedLeavesNothing
  <1>1. s \in sessionMap /\ channelOf[s] = c
    BY DEF HistoryInv, Inv, NoDangling, LeftOf
  <1> QED
    BY <1>1 DEF HistoryInv, Leaving, OnItsWay, Removing

--------------------------------------------------------------------------------

\* The other handlers stand where they stood.
OthersRest(c) ==
  \A o \in Channel : o # c =>
    pc'[o] = pc[o] /\ task'[o] = task[o] /\ cur'[o] = cur[o] /\ dev'[o] = dev[o]

LEMMA Entering ==
  ASSUME Inv, NEW c \in Channel, NEW step, NEW t, NEW s, NEW d, Enter(c, step, t, s, d)
  PROVE  OthersRest(c) /\ pc'[c] = step /\ task'[c] = t /\ cur'[c] = s /\ dev'[c] = d
  BY DEF Inv, TypeOK, Enter, Goto, OthersRest

LEMMA Going ==
  ASSUME Inv, NEW c \in Channel, NEW step, Goto(c, step), UNCHANGED <<task, cur, dev>>
  PROVE  OthersRest(c) /\ pc'[c] = step /\ task'[c] = task[c] /\ cur'[c] = cur[c] /\ dev'[c] = dev[c]
  BY DEF Inv, TypeOK, Goto, OthersRest

LEMMA Leaves ==
  ASSUME Inv, NEW c \in Channel, AfterDispose(c)
  PROVE  /\ OthersRest(c) /\ cur'[c] = None
         /\ \/ task[c] = "init" /\ pc'[c] = "validate" /\ task'[c] = "init" /\ dev'[c] = dev[c]
            \/ task[c] # "init" /\ pc'[c] = "idle" /\ task'[c] = "none"
  <1>1. CASE task[c] = "init" /\ Enter(c, "validate", "init", None, dev[c])
    BY <1>1, Entering
  <1>2. CASE task[c] # "init" /\ Enter(c, "idle", "none", None, None)
    BY <1>2, Entering
  <1> QED
    BY <1>1, <1>2 DEF AfterDispose, Return

\* A handler that rests and is not stale after the step was not overtaken in it.
LEMMA RestingTruth ==
  ASSUME HistoryInv, Inv', Records, NEW o \in Channel, o \notin stale',
         pc'[o] = pc[o], task'[o] = task[o], cur'[o] = cur[o], dev'[o] = dev[o]
  PROVE  GoesByTruth(o)'
  <1>1. CASE pc[o] \in {"check", "lock", "validate", "put"}
    <2>1. locker # o /\ locker' # o
      BY <1>1 DEF HistoryInv, Inv, MonitorInv, Locked, Putting, Disposing
    <2>2. o \notin stale /\ ~Overtaken(o)
      BY <1>1, <2>1 DEF Records
    <2>3. GoesByTruth(o)
      BY <2>2 DEF HistoryInv, TrueLookups
    <2>4. pc[o] \in {"validate", "put"} => task[o] = "init"
      BY DEF HistoryInv, Tasks, TaskOf
    <2>5. task[o] = "init" => deviceMap'[dev[o]] \in {deviceMap[dev[o]], None}
      BY <2>1, <2>2 DEF Overtaken
    <2>6. pc[o] = "lock" /\ cur[o] \in sessionMap => cur[o] \in sessionMap'
      BY <2>2 DEF Overtaken
    <2> QED
      BY <2>3, <2>4, <2>5, <2>6 DEF GoesByTruth
  <1>2. CASE pc[o] \notin {"check", "lock", "validate", "put"}
    BY <1>2 DEF GoesByTruth
  <1> QED
    BY <1>1, <1>2

\* A step of c outside the monitor that changes no map.
LEMMA Outside ==
  ASSUME HistoryInv, Inv', Records, NEW c \in Channel, OthersRest(c),
         UNCHANGED <<mapVars, locker>>,
         \A s \in Session : s < nextId => deviceOf'[s] = deviceOf[s] /\ channelOf'[s] = channelOf[s],
         pc[c] \notin Locked, pc'[c] \notin Locked
  PROVE  KnownLosses' /\ Aim' /\ Led' /\ Attached'
  <1>1. strayed \subseteq strayed' /\ orphaned \subseteq orphaned' /\ KnownLosses'
    BY DEF HistoryInv, KnownLosses, Records, mapVars
  <1>2. ASSUME NEW o \in Channel PROVE AimOf(o)'
    <2>1. CASE pc'[o] \in Locked
      <3>1. o # c /\ pc'[o] = pc[o] /\ cur'[o] = cur[o] /\ AimOf(o)
        BY <2>1 DEF OthersRest, HistoryInv, Aim
      <3>2. cur[o] \in Session /\ cur[o] < nextId
        BY <2>1, <3>1 DEF HistoryInv, Inv, InHand, Locked, Putting, Disposing
      <3> QED
        BY <1>1, <3>1, <3>2 DEF AimOf, mapVars
    <2>2. CASE pc'[o] \notin Locked
      BY <2>2 DEF AimOf, Locked, Putting, Disposing
    <2> QED
      BY <2>1, <2>2
  <1>3. \A s \in sessionMap : s \in Session /\ s < nextId
    BY DEF HistoryInv, Inv, Registered, TypeOK
  <1>4. \A o \in Channel : pc[o] \in Locked => pc'[o] = pc[o] /\ cur'[o] = cur[o]
    BY DEF OthersRest
  <1>5. ASSUME NEW s \in sessionMap, s \notin strayed PROVE LedTo(s)'
    <2>1. LedTo(s)
      BY <1>5 DEF HistoryInv, Led
    <2>2. ASSUME NEW o \in Channel, cur[o] = s, pc[o] \in {"putDevice", "rmSession"}
          PROVE  cur'[o] = s /\ pc'[o] \in {"putDevice", "rmSession"}
      BY <1>4, <2>2 DEF Locked, Putting, Disposing
    <2> QED
      BY <1>3, <2>1, <2>2 DEF LedTo, mapVars
  <1>6. ASSUME NEW s \in sessionMap, s \notin orphaned PROVE AttachedTo(s)'
    <2>1. AttachedTo(s)
      BY <1>6 DEF HistoryInv, Attached
    <2>2. ASSUME NEW o \in Channel, cur[o] = s, pc[o] \in {"putDevice", "putChannel"}
          PROVE  cur'[o] = s /\ pc'[o] \in {"putDevice", "putChannel"}
      BY <1>4, <2>2 DEF Locked, Putting, Disposing
    <2> QED
      BY <1>3, <2>1, <2>2 DEF AttachedTo, mapVars
  <1> QED
    BY <1>1, <1>2, <1>5, <1>6 DEF Aim, Led, Attached, mapVars

LEMMA RestingTask ==
  ASSUME HistoryInv, NEW o \in Channel,
         pc'[o] = pc[o], task'[o] = task[o], cur'[o] = cur[o], dev'[o] = dev[o],
         \A s \in Session : s < nextId => deviceOf'[s] = deviceOf[s] /\ channelOf'[s] = channelOf[s],
         chan'[o] = "gone" => chan[o] = "gone"
  PROVE  TaskOf(o)'
  <1>1. cur[o] # None => cur[o] \in Session /\ cur[o] < nextId
    BY DEF HistoryInv, Inv, InHand
  <1>2. pc[o] \in Putting \cup {"put"} => cur[o] # None
    BY NoneAssumption DEF HistoryInv, Inv, InHand, Putting
  <1>3. TaskOf(o)
    BY DEF HistoryInv, Tasks
  <1> QED
    BY <1>1, <1>2, <1>3 DEF TaskOf

LEMMA RestingWay ==
  ASSUME HistoryInv, Records, NEW s \in sessionMap, s \in sessionMap', s \notin orphaned',
         channelOf'[s] = channelOf[s],
         LET c == channelOf[s] IN
           chan'[c] = "gone" => chan[c] = "gone" /\ pc'[c] = pc[c] /\ cur'[c] = cur[c]
  PROVE  OnItsWay(s)'
  <1>1. s \notin orphaned
    BY DEF Records, HistoryInv, Inv, TypeOK
  <1> QED
    BY <1>1 DEF HistoryInv, Leaving, OnItsWay

\* Sessions that are registered have a connection and are allocated.
LEMMA Owned ==
  ASSUME HistoryInv
  PROVE  \A s \in sessionMap : s \in Session /\ s < nextId /\ channelOf[s] \in Channel /\ deviceOf[s] \in Device
  BY DEF HistoryInv, Inv, Registered, Allocated, TypeOK

--------------------------------------------------------------------------------

\* What is left to show of such a step is about c and its sessions.
LEMMA Quiet ==
  ASSUME HistoryInv, Inv', Records, NEW c \in Channel, OthersRest(c),
         UNCHANGED <<mapVars, locker>>,
         \A s \in Session : s < nextId => deviceOf'[s] = deviceOf[s] /\ channelOf'[s] = channelOf[s],
         pc[c] \notin Locked, pc'[c] \notin Locked,
         \A o \in Channel : o # c /\ chan'[o] = "gone" => chan[o] = "gone",
         TaskOf(c)',
         c \notin stale' => GoesByTruth(c)',
         \A s \in sessionMap : channelOf[s] = c /\ s \notin orphaned' => OnItsWay(s)'
  PROVE  HistoryInv'
  <1>1. KnownLosses' /\ Aim' /\ Led' /\ Attached'
    BY Outside
  <1>2. ASSUME NEW o \in Channel, o # c PROVE TaskOf(o)'
    BY <1>2, RestingTask DEF OthersRest
  <1>3. ASSUME NEW o \in Channel, o \notin stale', o # c PROVE GoesByTruth(o)'
    BY <1>3, RestingTruth DEF OthersRest
  <1>4. ASSUME NEW s \in sessionMap, s \notin orphaned', channelOf[s] # c PROVE OnItsWay(s)'
    BY <1>4, RestingWay, Owned DEF OthersRest, mapVars
  <1> QED
    BY <1>1, <1>2, <1>3, <1>4 DEF HistoryInv, Tasks, TrueLookups, Leaving, mapVars

\* A connection that is not gone, and one whose handler has no session of it, has none on
\* its way out.
LEMMA NotLeaving ==
  ASSUME HistoryInv, Records, NEW c \in Channel, UNCHANGED <<sessionMap, channelOf>>,
         \/ chan'[c] # "gone"
         \/ chan'[c] = chan[c] /\ pc[c] \notin Removing
  PROVE  \A s \in sessionMap : channelOf[s] = c /\ s \notin orphaned' => OnItsWay(s)'
  BY DEF HistoryInv, Records, Leaving, OnItsWay

--------------------------------------------------------------------------------

LEMMA CheckKeeps ==
  ASSUME HistoryInv, Inv', Records, NEW c \in Channel, Check(c)
  PROVE  HistoryInv'
  <1>1. /\ pc[c] = "check" /\ UNCHANGED <<mapVars, locker, sessionVars, chan>>
        /\ UNCHANGED <<sessionMap, deviceMap, channelMap, deviceOf, channelOf>>
        /\ \/ Present(cur[c]) /\ Goto(c, "lock") /\ UNCHANGED <<task, cur, dev>>
           \/ Absent(cur[c]) /\ AfterDispose(c)
    BY DEF Check, connVars, sessionVars, mapVars
  <1>2. /\ OthersRest(c)
        /\ \/ cur[c] \in sessionMap /\ pc'[c] = "lock" /\ task'[c] = task[c] /\ cur'[c] = cur[c] /\ dev'[c] = dev[c]
           \/ Absent(cur[c]) /\ cur'[c] = None /\ task[c] = "init" /\ pc'[c] = "validate" /\ task'[c] = "init"
                /\ dev'[c] = dev[c]
           \/ Absent(cur[c]) /\ cur'[c] = None /\ task[c] # "init" /\ pc'[c] = "idle" /\ task'[c] = "none"
    BY <1>1, Going, Leaves DEF HistoryInv, Present
  <1>3. cur[c] \in Session /\ cur[c] # None
    BY <1>1, NoneAssumption DEF HistoryInv, Inv, InHand
  <1>4. TaskOf(c)'
    BY <1>1, <1>2, <1>3 DEF HistoryInv, Tasks, TaskOf, Putting
  <1>5. ASSUME c \notin stale', pc'[c] # "idle" PROVE GoesByTruth(c)'
    <2>1. locker # c /\ locker' # c /\ pc'[c] # "reply"
      BY <1>1, <1>2 DEF HistoryInv, Inv, MonitorInv, Locked, Putting, Disposing
    <2>2. c \notin stale /\ ~MissesSession(c)
      BY <1>5, <2>1 DEF Records
    <2>3. GoesByTruth(c)
      BY <2>2 DEF HistoryInv, TrueLookups
    <2>4. pc'[c] = "validate" => cur[c] \notin sessionMap
      BY <1>1, <1>2, <2>2 DEF MissesSession, Absent
    <2>5. task[c] = "init" => dev[c] \in Device
      BY DEF HistoryInv, Inv, InHand
    <2>6. pc'[c] = "validate" => deviceMap[dev[c]] = None
      BY <1>1, <1>2, <2>3, <2>4, <2>5 DEF GoesByTruth, HistoryInv, Inv, NoDangling
    <2> QED
      BY <1>1, <1>2, <1>5, <2>3, <2>6 DEF GoesByTruth
  <1>6. ASSUME NEW s \in sessionMap, channelOf[s] = c, s \notin orphaned' PROVE OnItsWay(s)'
    <2>1. CASE chan[c] = "gone" /\ cur[c] = s
      <3>1. ~MissesSession(c)
        BY <1>1, <1>6, <2>1, Owned DEF Records, IsOrphaned
      <3>2. pc'[c] # "lock" => GrowingSessions
        BY <1>2, <2>1 DEF Absent
      <3>3. pc'[c] = "lock"
        BY <1>1, <2>1, <3>1, <3>2 DEF MissesSession
      <3> QED
        BY <1>1, <1>2, <1>6, <2>1, <3>3 DEF OnItsWay, Removing
    <2>2. CASE chan[c] = "gone" /\ cur[c] # s
      <3>1. s \in orphaned
        BY <1>6, <2>2 DEF HistoryInv, Leaving, OnItsWay
      <3> QED
        BY <1>1, <1>6, <3>1 DEF Records
    <2>3. CASE chan[c] # "gone"
      BY <1>1, <1>6, <2>3 DEF OnItsWay
    <2> QED
      BY <2>1, <2>2, <2>3
  <1> QED
    BY <1>1, <1>2, <1>4, <1>5, <1>6, Quiet DEF GoesByTruth, Locked, Putting, Disposing

LEMMA ValidateOkKeeps ==
  ASSUME HistoryInv, Inv', Records, NEW c \in Channel, ValidateOk(c)
  PROVE  HistoryInv'
  <1>1. /\ pc[c] = "validate" /\ UNCHANGED <<mapVars, locker, chan>>
        /\ UNCHANGED <<sessionMap, deviceMap, channelMap>>
        /\ deviceOf' = [deviceOf EXCEPT ![nextId] = dev[c]]
        /\ channelOf' = [channelOf EXCEPT ![nextId] = c]
        /\ Enter(c, "put", "init", nextId, dev[c])
    BY DEF ValidateOk, connVars, mapVars
  <1>2. nextId \in Session /\ nextId # None /\ \A s \in Session : s < nextId => s # nextId
    BY BoundAssumption, NoneAssumption DEF ValidateOk, HistoryInv, Inv, TypeOK, Session
  <1>3. /\ OthersRest(c) /\ pc'[c] = "put" /\ task'[c] = "init" /\ cur'[c] = nextId /\ dev'[c] = dev[c]
        /\ deviceOf'[nextId] = dev[c] /\ channelOf'[nextId] = c
        /\ \A s \in Session : s < nextId => deviceOf'[s] = deviceOf[s] /\ channelOf'[s] = channelOf[s]
    BY <1>1, <1>2, Entering DEF HistoryInv, Inv, TypeOK
  <1>4. chan[c] # "gone"
    BY <1>1 DEF HistoryInv, Tasks, TaskOf
  <1>5. TaskOf(c)'
    BY <1>1, <1>2, <1>3, <1>4 DEF TaskOf, Putting
  <1>6. ASSUME c \notin stale' PROVE GoesByTruth(c)'
    <2>1. c \notin stale
      BY <1>1, <1>3, <1>6 DEF Records, HistoryInv, Inv, MonitorInv, Locked, Putting, Disposing
    <2> QED
      BY <1>1, <1>3, <2>1 DEF HistoryInv, TrueLookups, GoesByTruth
  <1>7. \A s \in sessionMap : channelOf[s] = c /\ s \notin orphaned' => OnItsWay(s)'
    BY <1>1, <1>3, <1>4, Owned DEF OnItsWay
  <1> QED
    BY <1>1, <1>3, <1>5, <1>6, <1>7, Quiet DEF Locked, Putting, Disposing

LEMMA ReturnKeeps ==
  ASSUME HistoryInv, Inv', Records, NEW c \in Channel, ValidateFault(c) \/ Reply(c)
  PROVE  HistoryInv'
  <1>1. /\ pc[c] \in {"validate", "reply"} /\ Return(c) /\ UNCHANGED <<mapVars, sessionVars, locker>>
        /\ UNCHANGED <<sessionMap, deviceOf, channelOf>>
        /\ \A o \in Channel : chan'[o] = "gone" => chan[o] = "gone"
    BY DEF ValidateFault, Reply, connVars, mapVars, sessionVars, HistoryInv, Inv, TypeOK
  <1>2. OthersRest(c) /\ pc'[c] = "idle" /\ task'[c] = "none"
    BY <1>1, Entering DEF Return, HistoryInv
  <1>3. chan'[c] # "gone"
    BY <1>1 DEF HistoryInv, Tasks, TaskOf
  <1>4. TaskOf(c)' /\ GoesByTruth(c)'
    BY <1>2 DEF TaskOf, GoesByTruth, Putting
  <1> QED
    BY <1>1, <1>2, <1>3, <1>4, Quiet, NotLeaving DEF Locked, Putting, Disposing

\* A frame of connection c starts a handler: what it looked up is true, or it is stale.
LEMMA InitializeKeeps ==
  ASSUME HistoryInv, Inv', Records, NEW c \in Channel, NEW d \in Device, Initialize(c, d)
  PROVE  HistoryInv'
  <1>1. /\ pc[c] = "idle" /\ chan[c] # "gone" /\ UNCHANGED <<mapVars, sessionVars, locker, chan>>
        /\ UNCHANGED <<sessionMap, deviceMap, deviceOf, channelOf>>
    BY DEF Initialize, CanHandle, LoopFree, connVars, mapVars, sessionVars
  <1>2. PICK s \in GetByDeviceId(d) :
          \/ s = None /\ Enter(c, "validate", "init", None, d)
          \/ s # None /\ Enter(c, "check", "init", s, d)
    BY DEF Initialize
  <1>3. /\ OthersRest(c) /\ task'[c] = "init" /\ cur'[c] = s /\ dev'[c] = d
        /\ \/ s = None /\ pc'[c] = "validate"
           \/ s # None /\ pc'[c] = "check"
    BY <1>2, Entering DEF HistoryInv
  <1>4. s # None => s = deviceMap[d] /\ deviceOf[s] = d
    BY DEF GetByDeviceId, HistoryInv, Inv, NoDangling
  <1>5. TaskOf(c)'
    BY <1>1, <1>3, <1>4 DEF TaskOf, Putting
  <1>6. ASSUME c \notin stale' PROVE GoesByTruth(c)'
    <2>1. locker' # c /\ ~MissesDevice(c)
      BY <1>1, <1>3, <1>6 DEF Records, HistoryInv, Inv, MonitorInv, Locked, Putting, Disposing
    <2>2. s = deviceMap[d]
      BY <1>1, <1>3, <1>4, <2>1 DEF MissesDevice, GetByDeviceId
    <2> QED
      BY <1>1, <1>3, <2>2 DEF GoesByTruth
  <1> QED
    BY <1>1, <1>3, <1>5, <1>6, Quiet, NotLeaving DEF sessionVars, Locked, Putting, Disposing

LEMMA CloseSessionKeeps ==
  ASSUME HistoryInv, Inv', Records, NEW c \in Channel, CloseSession(c)
  PROVE  HistoryInv'
  <1>1. /\ pc[c] = "idle" /\ chan[c] # "gone" /\ UNCHANGED <<mapVars, sessionVars, locker, chan>>
        /\ UNCHANGED <<sessionMap, deviceOf, channelOf>>
        /\ Enter(c, "check", "closeSession", mine[c], None)
    BY DEF CloseSession, CanHandle, LoopFree, connVars, mapVars, sessionVars
  <1>2. OthersRest(c) /\ pc'[c] = "check" /\ task'[c] = "closeSession"
    BY <1>1, Entering DEF HistoryInv
  <1>3. TaskOf(c)' /\ GoesByTruth(c)'
    BY <1>2 DEF TaskOf, GoesByTruth, Putting
  <1> QED
    BY <1>1, <1>2, <1>3, Quiet, NotLeaving DEF Locked, Putting, Disposing

LEMMA InactiveKeeps ==
  ASSUME HistoryInv, Inv', Records, NEW c \in Channel, Inactive(c)
  PROVE  HistoryInv'
  <1>1. /\ pc[c] = "idle" /\ task[c] = "none" /\ UNCHANGED <<mapVars, sessionVars, locker>>
        /\ UNCHANGED <<sessionMap, channelMap, deviceOf, channelOf>>
        /\ chan[c] # "gone" /\ chan'[c] = "gone"
        /\ \A o \in Channel : o # c => chan'[o] = chan[o]
    BY DEF Inactive, LoopFree, mapVars, sessionVars, HistoryInv, Inv, TypeOK, Tasks, TaskOf
  <1>2. PICK s \in GetByChannel(c) :
          \/ s = None /\ UNCHANGED threadVars
          \/ s # None /\ Enter(c, "check", "inactive", s, None)
    BY DEF Inactive
  <1>3. /\ OthersRest(c) /\ cur'[c] = s
        /\ \/ s = None /\ pc'[c] = "idle" /\ task'[c] = "none"
           \/ s # None /\ pc'[c] = "check" /\ task'[c] = "inactive"
    <2>1. CASE s = None /\ UNCHANGED threadVars
      BY <1>1, <2>1 DEF threadVars, OthersRest, HistoryInv, Inv, InHand
    <2>2. CASE s # None /\ Enter(c, "check", "inactive", s, None)
      BY <2>2, Entering DEF HistoryInv
    <2> QED
      BY <1>2, <2>1, <2>2
  <1>4. TaskOf(c)' /\ GoesByTruth(c)'
    BY <1>3 DEF TaskOf, GoesByTruth, Putting
  <1>5. ASSUME NEW x \in sessionMap, channelOf[x] = c, x \notin orphaned' PROVE OnItsWay(x)'
    <2>1. x \notin orphaned /\ x \in Session
      BY <1>1, <1>5, Owned DEF Records
    <2>2. AttachedTo(x)
      BY <2>1 DEF HistoryInv, Attached
    <2>3. channelMap[c] = x
      BY <1>1, <1>5, <2>2 DEF AttachedTo, HistoryInv, Tasks, TaskOf, Putting
    <2>4. ~MissesChannel(c)
      BY <1>1, <1>5, <2>1, <2>3 DEF Records, IsOrphaned
    <2>5. s = x
      BY <1>1, <1>3, <2>3, <2>4 DEF MissesChannel, GetByChannel
    <2>6. s # None
      BY <2>1, <2>5, NoneAssumption
    <2> QED
      BY <1>1, <1>3, <1>5, <2>5, <2>6 DEF OnItsWay, Removing
  <1> QED
    BY <1>1, <1>3, <1>4, <1>5, Quiet DEF Locked, Putting, Disposing

\* Events of a connection that start no handler.
LEMMA EventKeeps ==
  ASSUME HistoryInv, Inv', Records, NEW c \in Channel, NoSession(c) \/ Disconnect(c) \/ RunClose(c)
  PROVE  HistoryInv'
  <1>1. /\ UNCHANGED <<mapVars, sessionVars, locker, threadVars>>
        /\ UNCHANGED <<sessionMap, deviceOf, channelOf>>
        /\ \A o \in Channel : chan'[o] = "gone" => chan[o] = "gone"
    BY DEF NoSession, Disconnect, RunClose, mapVars, sessionVars, HistoryInv, Inv, TypeOK
  <1>2. KnownLosses' /\ Aim' /\ Led' /\ Attached'
    BY <1>1 DEF HistoryInv, Inv, TypeOK, KnownLosses, Aim, AimOf, Led, LedTo, Attached, AttachedTo, Records,
                mapVars, threadVars
  <1>3. ASSUME NEW o \in Channel PROVE TaskOf(o)'
    BY <1>1, RestingTask DEF threadVars, sessionVars
  <1>4. ASSUME NEW o \in Channel, o \notin stale' PROVE GoesByTruth(o)'
    BY <1>1, <1>4, RestingTruth DEF threadVars
  <1>5. ASSUME NEW s \in sessionMap, s \notin orphaned' PROVE OnItsWay(s)'
    BY <1>1, <1>5, RestingWay, Owned DEF threadVars
  <1> QED
    BY <1>1, <1>2, <1>3, <1>4, <1>5 DEF HistoryInv, Tasks, TrueLookups, Leaving

--------------------------------------------------------------------------------

\* A step of c that takes, keeps or releases the monitor.
LEMMA Inside ==
  ASSUME HistoryInv, Inv', Records, NEW c \in Channel, OthersRest(c), UNCHANGED sessionVars,
         locker \in {None, c},
         \A o \in Channel : chan'[o] = "gone" => chan[o] = "gone",
         TaskOf(c)', c \notin stale' => GoesByTruth(c)', AimOf(c)', Led', Attached',
         \A s \in sessionMap' : s \in sessionMap \/ channelOf[s] = c,
         \A s \in sessionMap' : channelOf[s] = c /\ s \notin orphaned' => OnItsWay(s)'
  PROVE  HistoryInv'
  <1>1. UNCHANGED <<deviceOf, channelOf>>
    BY DEF sessionVars
  <1>2. ASSUME NEW o \in Channel, o # c PROVE TaskOf(o)'
    BY <1>1, <1>2, RestingTask DEF OthersRest
  <1>3. ASSUME NEW o \in Channel, o \notin stale', o # c PROVE GoesByTruth(o)'
    BY <1>3, RestingTruth DEF OthersRest
  <1>4. ASSUME NEW o \in Channel, o # c PROVE AimOf(o)'
    <2>1. pc'[o] \notin Locked
      BY <1>4, NoneAssumption DEF OthersRest, HistoryInv, Inv, MonitorInv
    <2> QED
      BY <2>1 DEF AimOf, Locked, Putting, Disposing
  <1>5. ASSUME NEW s \in sessionMap', s \notin orphaned' PROVE OnItsWay(s)'
    <2>1. CASE channelOf[s] # c
      BY <1>1, <1>5, <2>1, RestingWay, Owned DEF OthersRest
    <2>2. CASE channelOf[s] = c
      BY <1>5, <2>2
    <2> QED
      BY <2>1, <2>2
  <1>6. KnownLosses'
    BY DEF Records, KnownLosses
  <1> QED
    BY <1>2, <1>3, <1>4, <1>5, <1>6 DEF HistoryInv, Tasks, TrueLookups, Aim, Leaving

\* What is known of the holder of the monitor, and of a handler that may take it.
LEMMA HoldersOwn ==
  ASSUME HistoryInv, NEW c \in Channel, pc[c] \in Locked \cup {"lock", "put"}
  PROVE  /\ cur[c] \in Session /\ cur[c] < nextId /\ cur[c] # None
         /\ deviceOf[cur[c]] \in Device /\ channelOf[cur[c]] \in Channel
         /\ pc[c] \in Locked => locker = c /\ \A o \in Channel : o # c => pc[o] \notin Locked
  BY NoneAssumption DEF HistoryInv, Inv, InHand, Allocated, MonitorInv, Locked, Putting, Disposing

\* Taking the monitor: whoever loses an entry to this handler is known from here on.
LEMMA TakingKeeps ==
  ASSUME HistoryInv, Inv', Records, NEW c \in Channel, Lock(c) \/ PutLock(c)
  PROVE  HistoryInv'
  <1>1. /\ \/ pc[c] = "lock" /\ Goto(c, "close")
           \/ pc[c] = "put" /\ Goto(c, "putSession")
        /\ locker = None /\ locker' = c /\ UNCHANGED <<mapVars, sessionVars, task, cur, dev, chan>>
        /\ UNCHANGED <<sessionMap, deviceMap, channelMap, deviceOf, channelOf>>
    BY DEF Lock, PutLock, connVars, mapVars, sessionVars
  <1>2. /\ OthersRest(c) /\ task'[c] = task[c] /\ cur'[c] = cur[c] /\ dev'[c] = dev[c]
        /\ \/ pc[c] = "lock" /\ pc'[c] = "close"
           \/ pc[c] = "put" /\ pc'[c] = "putSession"
    BY <1>1, Going DEF HistoryInv
  <1>3. /\ cur[c] \in Session /\ cur[c] # None
        /\ deviceOf[cur[c]] \in Device /\ channelOf[cur[c]] \in Channel
    BY <1>1, HoldersOwn
  <1>4. strayed \subseteq strayed' /\ orphaned \subseteq orphaned'
    BY <1>1 DEF HistoryInv, KnownLosses, Records
  <1>5. \A o \in Channel : pc[o] \notin Locked
    BY <1>1, NoneAssumption DEF HistoryInv, Inv, MonitorInv
  <1>6. TakesMonitor(c)
    BY <1>1, NoneAssumption DEF TakesMonitor
  <1>7. deviceMap[deviceOf[cur[c]]] \in strayed' \cup {None, cur[c]}
    <2> DEFINE e == deviceMap[deviceOf[cur[c]]]
    <2> SUFFICES ASSUME e # None, e # cur[c] PROVE e \in strayed'
      OBVIOUS
    <2>1. e \in sessionMap /\ e \in Session
      BY <1>3, Owned DEF HistoryInv, Inv, NoDangling
    <2>2. c \in stale \/ cur[c] \in strayed => Strays(e)
      BY <1>6 DEF Strays
    <2>3. CASE c \in stale \/ cur[c] \in strayed
      BY <1>1, <2>1, <2>2, <2>3 DEF Records
    <2>4. CASE c \notin stale /\ cur[c] \notin strayed /\ pc[c] = "lock"
      <3>1. cur[c] \in sessionMap \ strayed
        BY <2>4 DEF HistoryInv, TrueLookups, GoesByTruth
      <3>2. LedTo(cur[c])
        BY <3>1 DEF HistoryInv, Led
      <3> QED
        BY <1>5, <3>2 DEF LedTo, Locked, Putting, Disposing
    <2>5. CASE c \notin stale /\ cur[c] \notin strayed /\ pc[c] = "put"
      <3>1. deviceMap[dev[c]] = None
        BY <2>5 DEF HistoryInv, TrueLookups, GoesByTruth
      <3>2. deviceOf[cur[c]] = dev[c]
        BY <1>3, <2>5 DEF HistoryInv, Tasks, TaskOf
      <3> QED
        BY <3>1, <3>2
    <2> QED
      BY <1>1, <2>3, <2>4, <2>5
  <1>8. channelMap[channelOf[cur[c]]] \in orphaned' \cup {None, cur[c]}
    <2> DEFINE e == channelMap[channelOf[cur[c]]]
    <2> SUFFICES ASSUME e # None, e # cur[c] PROVE e \in orphaned'
      OBVIOUS
    <2>1. e \in sessionMap /\ e \in Session
      BY <1>1, <1>3, Owned DEF HistoryInv, Inv, NoDangling
    <2>2. IsOrphaned(e)
      BY <1>6 DEF IsOrphaned
    <2> QED
      BY <1>1, <2>1, <2>2 DEF Records
  <1>9. AimOf(c)'
    BY <1>1, <1>2, <1>7, <1>8 DEF AimOf
  <1>10. TaskOf(c)' /\ GoesByTruth(c)'
    BY <1>1, <1>2 DEF HistoryInv, Tasks, TaskOf, GoesByTruth, Putting
  <1>11. Led'
    BY <1>1, <1>4, <1>5 DEF HistoryInv, Led, LedTo, Locked, Putting, Disposing
  <1>12. Attached'
    BY <1>1, <1>4, <1>5 DEF HistoryInv, Attached, AttachedTo, Locked, Putting, Disposing
  <1>13. ASSUME NEW s \in sessionMap, channelOf[s] = c, s \notin orphaned' PROVE OnItsWay(s)'
    BY <1>1, <1>2, <1>4, <1>13 DEF HistoryInv, Leaving, OnItsWay, Removing
  <1> QED
    BY <1>1, <1>2, <1>9, <1>10, <1>11, <1>12, <1>13, Inside

LEMMA CloseChannelKeeps ==
  ASSUME HistoryInv, Inv', Records, NEW c \in Channel, CloseChannel(c)
  PROVE  HistoryInv'
  <1>1. /\ pc[c] = "close" /\ Goto(c, "rmDevice") /\ UNCHANGED <<mapVars, sessionVars, locker, task, cur, dev>>
        /\ UNCHANGED <<sessionMap, deviceMap, channelMap, deviceOf, channelOf>>
        /\ \A o \in Channel : chan'[o] = "gone" => chan[o] = "gone"
    BY DEF CloseChannel, mapVars, sessionVars, HistoryInv, Inv, TypeOK
  <1>2. OthersRest(c) /\ pc'[c] = "rmDevice" /\ task'[c] = task[c] /\ cur'[c] = cur[c] /\ dev'[c] = dev[c]
    BY <1>1, Going DEF HistoryInv
  <1>3. locker = c /\ \A o \in Channel : o # c => pc[o] \notin Locked
    BY <1>1, HoldersOwn DEF Locked, Disposing
  <1>4. strayed \subseteq strayed' /\ orphaned \subseteq orphaned'
    BY <1>1 DEF HistoryInv, KnownLosses, Records
  <1>5. TaskOf(c)' /\ GoesByTruth(c)'
    BY <1>1, <1>2 DEF HistoryInv, Tasks, TaskOf, GoesByTruth, Putting
  <1>6. AimOf(c)'
    BY <1>1, <1>2, <1>4 DEF HistoryInv, Aim, AimOf, Locked, Disposing
  <1>7. Led'
    BY <1>1, <1>3, <1>4 DEF HistoryInv, Led, LedTo, Locked, Putting, Disposing
  <1>8. Attached'
    BY <1>1, <1>3, <1>4 DEF HistoryInv, Attached, AttachedTo, Locked, Putting, Disposing
  <1>9. ASSUME NEW s \in sessionMap, channelOf[s] = c, s \notin orphaned' PROVE OnItsWay(s)'
    BY <1>1, <1>2, <1>4, <1>9 DEF HistoryInv, Leaving, OnItsWay, Removing
  <1> QED
    BY <1>1, <1>2, <1>3, <1>5, <1>6, <1>7, <1>8, <1>9, Inside

LEMMA RmDeviceKeeps ==
  ASSUME HistoryInv, Inv', Records, NEW c \in Channel, RmDevice(c)
  PROVE  HistoryInv'
  <1>1. /\ pc[c] = "rmDevice" /\ Goto(c, "rmSession") /\ UNCHANGED <<sessionVars, locker, task, cur, dev, chan>>
        /\ UNCHANGED <<sessionMap, channelMap, deviceOf, channelOf>>
        /\ deviceMap' = [deviceMap EXCEPT ![deviceOf[cur[c]]] = None]
    BY DEF RmDevice, connVars, sessionVars
  <1>2. OthersRest(c) /\ pc'[c] = "rmSession" /\ task'[c] = task[c] /\ cur'[c] = cur[c] /\ dev'[c] = dev[c]
    BY <1>1, Going DEF HistoryInv
  <1>3. locker = c /\ \A o \in Channel : o # c => pc[o] \notin Locked
    BY <1>1, HoldersOwn DEF Locked, Disposing
  <1>4. strayed \subseteq strayed' /\ orphaned \subseteq orphaned'
    BY <1>1 DEF HistoryInv, KnownLosses, Records
  <1>5. TaskOf(c)' /\ GoesByTruth(c)'
    BY <1>1, <1>2 DEF HistoryInv, Tasks, TaskOf, GoesByTruth, Putting
  <1>6. AimOf(c)'
    BY <1>1, <1>2, <1>4 DEF HistoryInv, Aim, AimOf, Locked, Disposing
  <1>7. ASSUME NEW s \in sessionMap, s \notin strayed' PROVE LedTo(s)'
    <2>1. LedTo(s) /\ s \in Session /\ s # None /\ deviceOf[s] \in Device
      BY <1>4, <1>7, Owned, NoneAssumption DEF HistoryInv, Led
    <2>2. deviceMap[deviceOf[s]] = s
      BY <1>1, <1>3, <2>1 DEF LedTo, Locked, Putting, Disposing
    <2>3. CASE deviceOf[s] # deviceOf[cur[c]]
      BY <1>1, <2>1, <2>2, <2>3 DEF LedTo, HistoryInv, Inv, TypeOK
    <2>4. CASE deviceOf[s] = deviceOf[cur[c]]
      <3>1. s \in strayed \cup {None, cur[c]}
        BY <1>1, <2>2, <2>4 DEF HistoryInv, Aim, AimOf
      <3> QED
        BY <1>2, <1>4, <1>7, <2>1, <3>1 DEF LedTo
    <2> QED
      BY <2>3, <2>4
  <1>8. Attached'
    BY <1>1, <1>3, <1>4 DEF HistoryInv, Attached, AttachedTo, Locked, Putting, Disposing
  <1>9. ASSUME NEW s \in sessionMap, channelOf[s] = c, s \notin orphaned' PROVE OnItsWay(s)'
    BY <1>1, <1>2, <1>4, <1>9 DEF HistoryInv, Leaving, OnItsWay, Removing
  <1>10. Led'
    BY <1>1, <1>7 DEF Led
  <1> QED
    BY <1>1, <1>2, <1>3, <1>5, <1>6, <1>8, <1>9, <1>10, Inside

LEMMA RmSessionKeeps ==
  ASSUME HistoryInv, Inv', Records, NEW c \in Channel, RmSession(c)
  PROVE  HistoryInv'
  <1>1. /\ pc[c] = "rmSession" /\ Goto(c, "rmChannel") /\ UNCHANGED <<sessionVars, locker, task, cur, dev, chan>>
        /\ UNCHANGED <<deviceMap, channelMap, deviceOf, channelOf>>
        /\ sessionMap' = sessionMap \ {cur[c]}
    BY DEF RmSession, connVars, sessionVars
  <1>2. OthersRest(c) /\ pc'[c] = "rmChannel" /\ task'[c] = task[c] /\ cur'[c] = cur[c] /\ dev'[c] = dev[c]
    BY <1>1, Going DEF HistoryInv
  <1>3. locker = c /\ \A o \in Channel : o # c => pc[o] \notin Locked
    BY <1>1, HoldersOwn DEF Locked, Disposing
  <1>4. \A s \in sessionMap' : (s \in strayed => s \in strayed') /\ (s \in orphaned => s \in orphaned')
    BY DEF Records
  <1>5. TaskOf(c)' /\ GoesByTruth(c)'
    BY <1>1, <1>2 DEF HistoryInv, Tasks, TaskOf, GoesByTruth, Putting
  <1>6. AimOf(c)'
    <2>1. channelMap[channelOf[cur[c]]] \in orphaned \cup {None, cur[c]}
      BY <1>1 DEF HistoryInv, Aim, AimOf, Locked, Disposing
    <2>2. orphaned \ {cur[c]} \subseteq orphaned'
      BY <1>1, <1>4 DEF HistoryInv, KnownLosses
    <2> QED
      BY <1>1, <1>2, <2>1, <2>2 DEF AimOf
  <1>7. ASSUME NEW s \in sessionMap', s \notin strayed' PROVE LedTo(s)'
    <2>1. LedTo(s) /\ s # cur[c]
      BY <1>1, <1>4, <1>7 DEF HistoryInv, Led
    <2> QED
      BY <1>1, <1>3, <2>1 DEF LedTo, Locked, Putting, Disposing
  <1>8. ASSUME NEW s \in sessionMap', s \notin orphaned' PROVE AttachedTo(s)'
    <2>1. AttachedTo(s) /\ s # cur[c]
      BY <1>1, <1>4, <1>8 DEF HistoryInv, Attached
    <2> QED
      BY <1>1, <1>3, <2>1 DEF AttachedTo, Locked, Putting, Disposing
  <1>9. ASSUME NEW s \in sessionMap', channelOf[s] = c, s \notin orphaned' PROVE OnItsWay(s)'
    <2>1. OnItsWay(s) /\ s # cur[c]
      BY <1>1, <1>4, <1>9 DEF HistoryInv, Leaving
    <2> QED
      BY <1>1, <1>9, <2>1 DEF OnItsWay
  <1>10. Led' /\ Attached'
    BY <1>7, <1>8 DEF Led, Attached
  <1> QED
    BY <1>1, <1>2, <1>3, <1>5, <1>6, <1>9, <1>10, Inside

LEMMA RmChannelKeeps ==
  ASSUME HistoryInv, Inv', Records, NEW c \in Channel, RmChannel(c)
  PROVE  HistoryInv'
  <1>1. /\ pc[c] = "rmChannel" /\ AfterDispose(c) /\ locker' = None /\ UNCHANGED <<sessionVars, chan>>
        /\ UNCHANGED <<sessionMap, deviceMap, deviceOf, channelOf>>
        /\ channelMap' = [channelMap EXCEPT ![channelOf[cur[c]]] = None]
    BY DEF RmChannel, connVars, sessionVars
  <1>2. /\ OthersRest(c) /\ cur'[c] = None
        /\ \/ task[c] = "init" /\ pc'[c] = "validate" /\ task'[c] = "init" /\ dev'[c] = dev[c]
           \/ task[c] # "init" /\ pc'[c] = "idle" /\ task'[c] = "none"
    BY <1>1, Leaves DEF HistoryInv
  <1>3. /\ locker = c /\ \A o \in Channel : o # c => pc[o] \notin Locked
        /\ cur[c] \in Session /\ cur[c] # None
    BY <1>1, HoldersOwn DEF Locked, Disposing
  <1>4. strayed \subseteq strayed' /\ orphaned \subseteq orphaned'
    BY <1>1 DEF HistoryInv, KnownLosses, Records
  <1>5. TaskOf(c)'
    BY <1>1, <1>2 DEF HistoryInv, Tasks, TaskOf, Putting
  <1>6. GoesByTruth(c)'
    <2>1. task[c] = "init" => deviceMap[dev[c]] = None
      BY <1>1, <1>3 DEF HistoryInv, Inv, RemoveInv, Tasks, TaskOf
    <2> QED
      BY <1>1, <1>2, <2>1 DEF GoesByTruth
  <1>7. AimOf(c)'
    BY <1>2 DEF AimOf, Locked, Putting, Disposing
  <1>8. ASSUME NEW s \in sessionMap, s \notin strayed' PROVE LedTo(s)'
    <2>1. LedTo(s)
      BY <1>4, <1>8 DEF HistoryInv, Led
    <2> QED
      BY <1>1, <1>3, <2>1 DEF LedTo, Locked, Putting, Disposing
  <1>9. ASSUME NEW s \in sessionMap, s \notin orphaned' PROVE AttachedTo(s)'
    <2>1. AttachedTo(s) /\ s \in Session /\ s # None /\ channelOf[s] \in Channel
      BY <1>4, <1>9, Owned, NoneAssumption DEF HistoryInv, Attached
    <2>2. channelMap[channelOf[s]] = s
      BY <1>1, <1>3, <2>1 DEF AttachedTo, Locked, Putting, Disposing
    <2>3. s # cur[c]
      BY <1>1, <1>9 DEF HistoryInv, Inv, RemoveInv
    <2>4. channelOf[s] # channelOf[cur[c]]
      BY <1>1, <1>4, <1>9, <2>1, <2>2, <2>3 DEF HistoryInv, Aim, AimOf, Locked, Disposing
    <2> QED
      BY <1>1, <2>1, <2>2, <2>4 DEF AttachedTo, HistoryInv, Inv, TypeOK
  <1>10. ASSUME NEW s \in sessionMap, channelOf[s] = c, s \notin orphaned' PROVE OnItsWay(s)'
    BY <1>1, <1>4, <1>10 DEF HistoryInv, Leaving, OnItsWay, Removing
  <1>11. Led' /\ Attached'
    BY <1>1, <1>8, <1>9 DEF Led, Attached
  <1> QED
    BY <1>1, <1>2, <1>3, <1>5, <1>6, <1>7, <1>10, <1>11, Inside

LEMMA PutSessionKeeps ==
  ASSUME HistoryInv, Inv', Records, NEW c \in Channel, PutSession(c)
  PROVE  HistoryInv'
  <1>1. /\ pc[c] = "putSession" /\ Goto(c, "putDevice") /\ UNCHANGED <<sessionVars, locker, task, cur, dev, chan>>
        /\ UNCHANGED <<deviceMap, channelMap, deviceOf, channelOf>>
        /\ sessionMap' = sessionMap \cup {cur[c]}
    BY DEF PutSession, connVars, sessionVars
  <1>2. OthersRest(c) /\ pc'[c] = "putDevice" /\ task'[c] = task[c] /\ cur'[c] = cur[c] /\ dev'[c] = dev[c]
    BY <1>1, Going DEF HistoryInv
  <1>3. locker = c /\ \A o \in Channel : o # c => pc[o] \notin Locked
    BY <1>1, HoldersOwn DEF Locked, Putting
  <1>4. strayed \subseteq strayed' /\ orphaned \subseteq orphaned'
    BY <1>1 DEF HistoryInv, KnownLosses, Records
  <1>5. TaskOf(c)' /\ GoesByTruth(c)'
    BY <1>1, <1>2 DEF HistoryInv, Tasks, TaskOf, GoesByTruth, Putting
  <1>6. AimOf(c)'
    BY <1>1, <1>2, <1>4 DEF HistoryInv, Aim, AimOf, Locked, Putting
  <1>7. ASSUME NEW s \in sessionMap', s \notin strayed' PROVE LedTo(s)'
    <2>1. CASE s = cur[c]
      BY <1>2, <2>1 DEF LedTo
    <2>2. CASE s # cur[c]
      <3>1. LedTo(s)
        BY <1>1, <1>4, <1>7, <2>2 DEF HistoryInv, Led
      <3> QED
        BY <1>1, <1>3, <3>1 DEF LedTo, Locked, Putting, Disposing
    <2> QED
      BY <2>1, <2>2
  <1>8. ASSUME NEW s \in sessionMap', s \notin orphaned' PROVE AttachedTo(s)'
    <2>1. CASE s = cur[c]
      BY <1>2, <2>1 DEF AttachedTo
    <2>2. CASE s # cur[c]
      <3>1. AttachedTo(s)
        BY <1>1, <1>4, <1>8, <2>2 DEF HistoryInv, Attached
      <3> QED
        BY <1>1, <1>3, <3>1 DEF AttachedTo, Locked, Putting, Disposing
    <2> QED
      BY <2>1, <2>2
  <1>9. channelOf[cur[c]] = c /\ chan'[c] # "gone"
    BY <1>1 DEF HistoryInv, Tasks, TaskOf, Putting
  <1>10. \A s \in sessionMap' : channelOf[s] = c /\ s \notin orphaned' => OnItsWay(s)'
    BY <1>1, <1>9 DEF OnItsWay
  <1>11. Led' /\ Attached'
    BY <1>7, <1>8 DEF Led, Attached
  <1> QED
    BY <1>1, <1>2, <1>3, <1>5, <1>6, <1>9, <1>10, <1>11, Inside

LEMMA PutDeviceKeeps ==
  ASSUME HistoryInv, Inv', Records, NEW c \in Channel, PutDevice(c)
  PROVE  HistoryInv'
  <1>1. /\ pc[c] = "putDevice" /\ Goto(c, "putChannel") /\ UNCHANGED <<sessionVars, locker, task, cur, dev, chan>>
        /\ UNCHANGED <<sessionMap, channelMap, deviceOf, channelOf>>
        /\ deviceMap' = [deviceMap EXCEPT ![deviceOf[cur[c]]] = cur[c]]
    BY DEF PutDevice, connVars, sessionVars
  <1>2. OthersRest(c) /\ pc'[c] = "putChannel" /\ task'[c] = task[c] /\ cur'[c] = cur[c] /\ dev'[c] = dev[c]
    BY <1>1, Going DEF HistoryInv
  <1>3. locker = c /\ \A o \in Channel : o # c => pc[o] \notin Locked
    BY <1>1, HoldersOwn DEF Locked, Putting
  <1>4. strayed \subseteq strayed' /\ orphaned \subseteq orphaned'
    BY <1>1 DEF HistoryInv, KnownLosses, Records
  <1>5. TaskOf(c)' /\ GoesByTruth(c)'
    BY <1>1, <1>2 DEF HistoryInv, Tasks, TaskOf, GoesByTruth, Putting
  <1>6. AimOf(c)'
    BY <1>1, <1>2, <1>4 DEF HistoryInv, Aim, AimOf, Locked, Putting
  <1>7. ASSUME NEW s \in sessionMap, s \notin strayed' PROVE LedTo(s)'
    <2>1. s \in Session /\ s # None /\ deviceOf[s] \in Device /\ s \notin strayed
      BY <1>4, <1>7, Owned, NoneAssumption
    <2>2. CASE s = cur[c]
      BY <1>1, <2>1, <2>2 DEF LedTo, HistoryInv, Inv, TypeOK
    <2>3. CASE s # cur[c]
      <3>1. deviceMap[deviceOf[s]] = s
        BY <1>1, <1>3, <2>1, <2>3 DEF HistoryInv, Led, LedTo, Locked, Putting, Disposing
      <3>2. deviceOf[s] # deviceOf[cur[c]]
        BY <1>1, <2>1, <2>3, <3>1 DEF HistoryInv, Aim, AimOf
      <3> QED
        BY <1>1, <2>1, <3>1, <3>2 DEF LedTo, HistoryInv, Inv, TypeOK
    <2> QED
      BY <2>2, <2>3
  <1>8. ASSUME NEW s \in sessionMap, s \notin orphaned' PROVE AttachedTo(s)'
    <2>1. AttachedTo(s)
      BY <1>4, <1>8 DEF HistoryInv, Attached
    <2> QED
      BY <1>1, <1>2, <1>3, <2>1 DEF AttachedTo, Locked, Putting, Disposing
  <1>9. chan'[c] # "gone"
    BY <1>1 DEF HistoryInv, Tasks, TaskOf, Putting
  <1>10. \A s \in sessionMap' : channelOf[s] = c /\ s \notin orphaned' => OnItsWay(s)'
    BY <1>1, <1>9 DEF OnItsWay
  <1>11. Led' /\ Attached'
    BY <1>1, <1>7, <1>8 DEF Led, Attached
  <1> QED
    BY <1>1, <1>2, <1>3, <1>5, <1>6, <1>9, <1>10, <1>11, Inside

LEMMA PutChannelKeeps ==
  ASSUME HistoryInv, Inv', Records, NEW c \in Channel, PutChannel(c)
  PROVE  HistoryInv'
  <1>1. /\ pc[c] = "putChannel" /\ Goto(c, "reply") /\ UNCHANGED <<sessionVars, task, cur, dev, chan>>
        /\ UNCHANGED <<sessionMap, deviceMap, deviceOf, channelOf>>
        /\ channelMap' = [channelMap EXCEPT ![channelOf[cur[c]]] = cur[c]]
    BY DEF PutChannel, connVars, sessionVars
  <1>2. OthersRest(c) /\ pc'[c] = "reply" /\ task'[c] = task[c] /\ cur'[c] = cur[c] /\ dev'[c] = dev[c]
    BY <1>1, Going DEF HistoryInv
  <1>3. locker = c /\ \A o \in Channel : o # c => pc[o] \notin Locked
    BY <1>1, HoldersOwn DEF Locked, Putting
  <1>4. strayed \subseteq strayed' /\ orphaned \subseteq orphaned'
    BY <1>1 DEF HistoryInv, KnownLosses, Records
  <1>5. TaskOf(c)' /\ GoesByTruth(c)' /\ AimOf(c)'
    BY <1>1, <1>2 DEF HistoryInv, Tasks, TaskOf, GoesByTruth, AimOf, Locked, Putting, Disposing
  <1>6. ASSUME NEW s \in sessionMap, s \notin strayed' PROVE LedTo(s)'
    <2>1. LedTo(s)
      BY <1>4, <1>6 DEF HistoryInv, Led
    <2> QED
      BY <1>1, <1>2, <1>3, <2>1 DEF LedTo, Locked, Putting, Disposing
  <1>7. ASSUME NEW s \in sessionMap, s \notin orphaned' PROVE AttachedTo(s)'
    <2>1. s \in Session /\ s # None /\ channelOf[s] \in Channel /\ s \notin orphaned
      BY <1>4, <1>7, Owned, NoneAssumption
    <2>2. CASE s = cur[c]
      BY <1>1, <2>1, <2>2 DEF AttachedTo, HistoryInv, Inv, TypeOK
    <2>3. CASE s # cur[c]
      <3>1. channelMap[channelOf[s]] = s
        BY <1>1, <1>3, <2>1, <2>3 DEF HistoryInv, Attached, AttachedTo, Locked, Putting, Disposing
      <3>2. channelOf[s] # channelOf[cur[c]]
        BY <1>1, <2>1, <2>3, <3>1 DEF HistoryInv, Aim, AimOf, Locked, Putting
      <3> QED
        BY <1>1, <2>1, <3>1, <3>2 DEF AttachedTo, HistoryInv, Inv, TypeOK
    <2> QED
      BY <2>2, <2>3
  <1>8. chan'[c] # "gone"
    BY <1>1 DEF HistoryInv, Tasks, TaskOf, Putting
  <1>9. \A s \in sessionMap' : channelOf[s] = c /\ s \notin orphaned' => OnItsWay(s)'
    BY <1>1, <1>8 DEF OnItsWay
  <1>10. Led' /\ Attached'
    BY <1>1, <1>6, <1>7 DEF Led, Attached
  <1> QED
    BY <1>1, <1>2, <1>3, <1>5, <1>8, <1>9, <1>10, Inside

--------------------------------------------------------------------------------

LEMMA HistoryStep == HistoryInv /\ Inv' /\ [HistoryNext]_HistoryVars => HistoryInv'
  <1> SUFFICES ASSUME HistoryInv, Inv', [HistoryNext]_HistoryVars PROVE HistoryInv'
    OBVIOUS
  <1>1. CASE UNCHANGED HistoryVars
    BY <1>1 DEF HistoryVars, vars, connVars, mapVars, sessionVars, threadVars, clientVars, HistoryInv,
                KnownLosses, Tasks, TaskOf, TrueLookups, GoesByTruth, Aim, AimOf, Led, LedTo, Attached,
                AttachedTo, Leaving, OnItsWay
  <1>2. ASSUME NEW c \in Channel, Records, Dispose(c) PROVE HistoryInv'
    BY <1>2, CheckKeeps, TakingKeeps, CloseChannelKeeps, RmDeviceKeeps, RmSessionKeeps, RmChannelKeeps
       DEF Dispose
  <1>3. ASSUME NEW c \in Channel, Records, Open(c) PROVE HistoryInv'
    BY <1>3, ValidateOkKeeps, ReturnKeeps, TakingKeeps, PutSessionKeeps, PutDeviceKeeps, PutChannelKeeps
       DEF Open
  <1>4. ASSUME NEW c \in Channel, Records, Client(c) \/ RunClose(c) \/ Inactive(c) PROVE HistoryInv'
    BY <1>4, InitializeKeeps, CloseSessionKeeps, EventKeeps, InactiveKeeps DEF Client
  <1> QED
    BY <1>1, <1>2, <1>3, <1>4 DEF HistoryNext, Next, Handler

\* The history leaves the registry as it is, so what holds of it holds with the history.
LEMMA HistoryInvariance == HistorySpec => []HistoryInv
  <1>1. HistorySpec => []Inv
    <2>1. HistoryInit => Init
      BY DEF HistoryInit
    <2>2. [HistoryNext]_HistoryVars => [Next]_vars
      BY DEF HistoryNext, HistoryVars
    <2> QED
      BY <2>1, <2>2, Invariance, PTL DEF HistorySpec, Spec
  <1>2. HistoryInit /\ Inv => HistoryInv
    BY DEF HistoryInit, Init, HistoryInv, KnownLosses, Tasks, TaskOf, TrueLookups, GoesByTruth, Aim, AimOf, Led,
           Attached, Leaving, Locked, Putting, Disposing
  <1> QED
    BY <1>1, <1>2, HistoryStep, PTL DEF HistorySpec

\* However many event loops interleave, however often a device is initialized and
\* whether or not the maps grow: a registered session loses its device only to a
\* handler that goes by an outdated lookup, or to the dispose of one that lost it so.
THEOREM OnlyStaleHandlersMislead == HistorySpec => []DeviceIndexExact
  BY HistoryInvariance, IndexFollows, PTL

\* A connection that was reported inactive leaves nothing in the registry, however
\* many INITIALIZE frames it sent and whoever disposes of its session at the same
\* time, but sessions that a second session of it displaced or that were missed.
THEOREM OnlyOrphansStay == HistorySpec => []ClosedLeavesNothing
  BY HistoryInvariance, ClosingFollows, PTL
================================================================================
