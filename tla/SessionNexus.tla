------------------------------ MODULE SessionNexus ------------------------------
(***************************************************************************)
(* The session registry of smp/session/SessionNexus.java and the handlers  *)
(* that change it: INITIALIZE (InitializeHandler.java), CLOSE_SESSION and  *)
(* channelInactive (SmpframeRouter.java), and the refusal of frames that   *)
(* carry no session (SmpframeHandler.java).                                *)
(*                                                                         *)
(* Every connection is served by one event loop, so the handlers of one    *)
(* connection, and of all connections of a loop, run one after another.    *)
(* Handlers of different loops interleave.  put and dispose update three   *)
(* HashMaps one at a time under a monitor; every lookup reads its map      *)
(* without the monitor.  One action stands for one access to shared state. *)
(***************************************************************************)
EXTENDS Integers, FiniteSets

CONSTANTS
  Channel,      \* client connections
  Device,       \* device ids
  Loop,         \* event loops (worker threads)
  LoopOf,       \* the event loop that serves each connection
  MaxSessions,  \* bound: sessions ever allocated
  MaxInits,     \* bound: INITIALIZE frames of each connection
  MayResize,    \* whether a put may grow a HashMap past its capacity
  None          \* Java's null

Session == 0 .. MaxSessions - 1

ASSUME LoopAssumption == LoopOf \in [Channel -> Loop]
ASSUME BoundAssumption == MaxSessions \in Nat
ASSUME InitsAssumption == MaxInits \in [Channel -> Nat]
ASSUME ResizeAssumption == MayResize \in BOOLEAN
ASSUME NoneAssumption == None \notin Session \cup Channel \cup Device

VARIABLES
  chan,        \* the connection: open, closed, or reported inactive
  closing,     \* connections with a close queued on their event loop
  sessionMap,  \* the ids in sessionMap
  deviceMap,   \* deviceMap[d]: session of device d
  channelMap,  \* channelMap[c]: session of connection c
  nextId,      \* Session.idGenerator
  deviceOf,    \* deviceOf[s]: Session.deviceId of s
  channelOf,   \* channelOf[s]: Session.channelContext of s
  locker,      \* the connection whose handler holds the monitor, or None
  pc,          \* where the handler of connection c stands
  task,        \* which handler of connection c runs
  cur,         \* the session that handler works on
  dev,         \* the device id of the INITIALIZE frame in hand
  inits,       \* INITIALIZE frames handled so far
  mine         \* the session id the client read from SET_HEARTBEAT_RATE

connVars == <<chan, closing>>
mapVars == <<sessionMap, deviceMap, channelMap>>
sessionVars == <<nextId, deviceOf, channelOf>>
threadVars == <<pc, task, cur, dev>>
clientVars == <<inits, mine>>
vars == <<connVars, mapVars, sessionVars, locker, threadVars, clientVars>>

Disposing == {"close", "rmDevice", "rmSession", "rmChannel"}
Putting == {"putSession", "putDevice", "putChannel"}
Locked == Disposing \cup Putting
Steps == Locked \cup {"idle", "check", "lock", "validate", "put", "reply"}

TypeOK ==
  /\ chan \in [Channel -> {"open", "closed", "gone"}]
  /\ closing \subseteq Channel
  /\ sessionMap \subseteq Session
  /\ deviceMap \in [Device -> Session \cup {None}]
  /\ channelMap \in [Channel -> Session \cup {None}]
  /\ nextId \in 0 .. MaxSessions
  /\ deviceOf \in [Session -> Device \cup {None}]
  /\ channelOf \in [Session -> Channel \cup {None}]
  /\ locker \in Channel \cup {None}
  /\ pc \in [Channel -> Steps]
  /\ task \in [Channel -> {"none", "init", "closeSession", "inactive"}]
  /\ cur \in [Channel -> Session \cup {None}]
  /\ dev \in [Channel -> Device \cup {None}]
  /\ inits \in [Channel -> Nat]
  /\ mine \in [Channel -> Session \cup {None}]

Init ==
  /\ chan = [c \in Channel |-> "open"]
  /\ closing = {}
  /\ sessionMap = {}
  /\ deviceMap = [d \in Device |-> None]
  /\ channelMap = [c \in Channel |-> None]
  /\ nextId = 0
  /\ deviceOf = [s \in Session |-> None]
  /\ channelOf = [s \in Session |-> None]
  /\ locker = None
  /\ pc = [c \in Channel |-> "idle"]
  /\ task = [c \in Channel |-> "none"]
  /\ cur = [c \in Channel |-> None]
  /\ dev = [c \in Channel |-> None]
  /\ inits = [c \in Channel |-> 0]
  /\ mine = [c \in Channel |-> None]

--------------------------------------------------------------------------------
(* Event loops and unsynchronized lookups. *)

\* No handler of c's event loop is running.
LoopFree(c) == \A o \in Channel : LoopOf[o] = LoopOf[c] => pc[o] = "idle"

\* Frames decoded before a close are still handled, until channelInactive.
CanHandle(c) == LoopFree(c) /\ chan[c] \in {"open", "closed"}

\* HashMap.put of a new key is about to grow the map on another thread: until
\* the entries are moved to the new table a reader may miss any of them.
GrowingSessions == MayResize /\ \E o \in Channel : pc[o] = "putSession"
GrowingDevices ==
  MayResize /\ \E o \in Channel : pc[o] = "putDevice" /\ deviceMap[deviceOf[cur[o]]] = None
GrowingChannels ==
  MayResize /\ \E o \in Channel : pc[o] = "putChannel" /\ channelMap[channelOf[cur[o]]] = None

\* What an unsynchronized get may return.
GetByDeviceId(d) == {deviceMap[d]} \cup IF GrowingDevices THEN {None} ELSE {}
GetByChannel(c) == {channelMap[c]} \cup IF GrowingChannels THEN {None} ELSE {}
Present(s) == s \in sessionMap
Absent(s) == s \notin sessionMap \/ GrowingSessions

Goto(c, step) == pc' = [pc EXCEPT ![c] = step]

\* Control of connection c's handler enters `step` with session s in hand.
Enter(c, step, t, s, d) ==
  /\ Goto(c, step)
  /\ task' = [task EXCEPT ![c] = t]
  /\ cur' = [cur EXCEPT ![c] = s]
  /\ dev' = [dev EXCEPT ![c] = d]

Return(c) == Enter(c, "idle", "none", None, None)

\* dispose returns to its caller: InitializeHandler goes on, the others end.
AfterDispose(c) ==
  \/ task[c] = "init" /\ Enter(c, "validate", "init", None, dev[c])
  \/ task[c] # "init" /\ Return(c)

--------------------------------------------------------------------------------
(* SessionNexus.dispose *)

\* Mutant: the test of containsKey is inverted.
CheckInverted(c) ==
  /\ pc[c] = "check"
  /\ \/ Absent(cur[c]) /\ Goto(c, "lock") /\ UNCHANGED <<task, cur, dev>>
     \/ Present(cur[c]) /\ AfterDispose(c)
  /\ UNCHANGED <<connVars, mapVars, sessionVars, locker, clientVars>>

\* containsKey, read outside the monitor; nothing repeats it inside.
Check(c) ==
  /\ pc[c] = "check"
  /\ \/ Present(cur[c]) /\ Goto(c, "lock") /\ UNCHANGED <<task, cur, dev>>
     \/ Absent(cur[c]) /\ AfterDispose(c)
  /\ UNCHANGED <<connVars, mapVars, sessionVars, locker, clientVars>>

\* Mutant: dispose is not synchronized.
LockIgnored(c) ==
  /\ pc[c] = "lock"
  /\ locker' = c
  /\ Goto(c, "close")
  /\ UNCHANGED <<connVars, mapVars, sessionVars, task, cur, dev, clientVars>>

Lock(c) ==
  /\ pc[c] = "lock"
  /\ locker = None
  /\ locker' = c
  /\ Goto(c, "close")
  /\ UNCHANGED <<connVars, mapVars, sessionVars, task, cur, dev, clientVars>>

\* Mutant: a connection of another event loop is not closed.
CloseChannelOfThisLoopOnly(c) ==
  /\ pc[c] = "close"
  /\ LET ch == channelOf[cur[c]]
     IN  chan' = [chan EXCEPT ![ch] = IF @ = "open" /\ LoopOf[ch] = LoopOf[c] THEN "closed" ELSE @]
  /\ Goto(c, "rmDevice")
  /\ UNCHANGED <<closing, mapVars, sessionVars, locker, task, cur, dev, clientVars>>

\* Session.dispose: a connection of this loop closes at once, one of another
\* loop gets a close task.
CloseChannel(c) ==
  /\ pc[c] = "close"
  /\ LET ch == channelOf[cur[c]]
         here == LoopOf[ch] = LoopOf[c]
     IN  /\ chan' = [chan EXCEPT ![ch] = IF @ = "open" /\ here THEN "closed" ELSE @]
         /\ closing' = closing \cup {x \in {ch} : chan[x] = "open" /\ ~here}
  /\ Goto(c, "rmDevice")
  /\ UNCHANGED <<mapVars, sessionVars, locker, task, cur, dev, clientVars>>

\* deviceMap.remove(deviceId): whatever session the device maps to by now.
RmDevice(c) ==
  /\ pc[c] = "rmDevice"
  /\ deviceMap' = [deviceMap EXCEPT ![deviceOf[cur[c]]] = None]
  /\ Goto(c, "rmSession")
  /\ UNCHANGED <<connVars, sessionMap, channelMap, sessionVars, locker, task, cur, dev, clientVars>>

RmSession(c) ==
  /\ pc[c] = "rmSession"
  /\ sessionMap' = sessionMap \ {cur[c]}
  /\ Goto(c, "rmChannel")
  /\ UNCHANGED <<connVars, deviceMap, channelMap, sessionVars, locker, task, cur, dev, clientVars>>

\* Mutant: the monitor is never released.
RmChannelKeepsMonitor(c) ==
  /\ pc[c] = "rmChannel"
  /\ channelMap' = [channelMap EXCEPT ![channelOf[cur[c]]] = None]
  /\ AfterDispose(c)
  /\ UNCHANGED <<connVars, sessionMap, deviceMap, sessionVars, locker, clientVars>>

\* channelMap.remove(channel) and the end of the synchronized block.
RmChannel(c) ==
  /\ pc[c] = "rmChannel"
  /\ channelMap' = [channelMap EXCEPT ![channelOf[cur[c]]] = None]
  /\ locker' = None
  /\ AfterDispose(c)
  /\ UNCHANGED <<connVars, sessionMap, deviceMap, sessionVars, clientVars>>

Dispose(c) ==
  Check(c) \/ Lock(c) \/ CloseChannel(c) \/ RmDevice(c) \/ RmSession(c) \/ RmChannel(c)

--------------------------------------------------------------------------------
(* INITIALIZE: InitializeHandler.smpframeReceived *)

\* Mutant: the device's former session is not disposed of.
InitializeWithoutTakeover(c, d) ==
  /\ CanHandle(c)
  /\ inits[c] < MaxInits[c]
  /\ inits' = [inits EXCEPT ![c] = @ + 1]
  /\ Enter(c, "validate", "init", None, d)
  /\ UNCHANGED <<connVars, mapVars, sessionVars, locker, mine>>

Initialize(c, d) ==
  /\ CanHandle(c)
  /\ inits[c] < MaxInits[c]
  /\ inits' = [inits EXCEPT ![c] = @ + 1]
  /\ \E s \in GetByDeviceId(d) :
       \/ s = None /\ Enter(c, "validate", "init", None, d)
       \/ s # None /\ Enter(c, "check", "init", s, d)
  /\ UNCHANGED <<connVars, mapVars, sessionVars, locker, mine>>

\* Mutant: session ids are taken two at a time (nextEvenNumber).
ValidateOkByTwo(c) ==
  /\ pc[c] = "validate"
  /\ nextId < MaxSessions
  /\ nextId' = nextId + 2
  /\ deviceOf' = [deviceOf EXCEPT ![nextId] = dev[c]]
  /\ channelOf' = [channelOf EXCEPT ![nextId] = c]
  /\ Enter(c, "put", "init", nextId, dev[c])
  /\ UNCHANGED <<connVars, mapVars, locker, clientVars>>

\* The device is known: new Session.
ValidateOk(c) ==
  /\ pc[c] = "validate"
  /\ nextId < MaxSessions
  /\ nextId' = nextId + 1
  /\ deviceOf' = [deviceOf EXCEPT ![nextId] = dev[c]]
  /\ channelOf' = [channelOf EXCEPT ![nextId] = c]
  /\ Enter(c, "put", "init", nextId, dev[c])
  /\ UNCHANGED <<connVars, mapVars, locker, clientVars>>

\* FaultException without a session: the error frame is not a websocket frame,
\* its write fails at once and the CLOSE listener closes the connection.
ValidateFault(c) ==
  /\ pc[c] = "validate"
  /\ chan' = [chan EXCEPT ![c] = "closed"]
  /\ Return(c)
  /\ UNCHANGED <<closing, mapVars, sessionVars, locker, clientVars>>

\* Mutant: put is not synchronized.
PutLockIgnored(c) ==
  /\ pc[c] = "put"
  /\ locker' = c
  /\ Goto(c, "putSession")
  /\ UNCHANGED <<connVars, mapVars, sessionVars, task, cur, dev, clientVars>>

PutLock(c) ==
  /\ pc[c] = "put"
  /\ locker = None
  /\ locker' = c
  /\ Goto(c, "putSession")
  /\ UNCHANGED <<connVars, mapVars, sessionVars, task, cur, dev, clientVars>>

PutSession(c) ==
  /\ pc[c] = "putSession"
  /\ sessionMap' = sessionMap \cup {cur[c]}
  /\ Goto(c, "putDevice")
  /\ UNCHANGED <<connVars, deviceMap, channelMap, sessionVars, locker, task, cur, dev, clientVars>>

PutDevice(c) ==
  /\ pc[c] = "putDevice"
  /\ deviceMap' = [deviceMap EXCEPT ![deviceOf[cur[c]]] = cur[c]]
  /\ Goto(c, "putChannel")
  /\ UNCHANGED <<connVars, sessionMap, channelMap, sessionVars, locker, task, cur, dev, clientVars>>

\* channelMap.put and the end of the synchronized block.
PutChannel(c) ==
  /\ pc[c] = "putChannel"
  /\ channelMap' = [channelMap EXCEPT ![channelOf[cur[c]]] = cur[c]]
  /\ locker' = None
  /\ Goto(c, "reply")
  /\ UNCHANGED <<connVars, sessionMap, deviceMap, sessionVars, task, cur, dev, clientVars>>

\* SET_HEARTBEAT_RATE tells the client its session id, if it is still there.
Reply(c) ==
  /\ pc[c] = "reply"
  /\ mine' = [mine EXCEPT ![c] = IF chan[c] = "open" THEN cur[c] ELSE @]
  /\ Return(c)
  /\ UNCHANGED <<connVars, mapVars, sessionVars, locker, inits>>

Open(c) ==
  ValidateOk(c) \/ ValidateFault(c) \/ PutLock(c) \/ PutSession(c) \/ PutDevice(c)
    \/ PutChannel(c) \/ Reply(c)

--------------------------------------------------------------------------------
(* The other frames, the connection and its event loop *)

\* CLOSE_SESSION with the client's own session id: RETURN_OK, then dispose.
CloseSession(c) ==
  /\ CanHandle(c)
  /\ mine[c] # None
  /\ Present(mine[c])
  /\ Enter(c, "check", "closeSession", mine[c], None)
  /\ UNCHANGED <<connVars, mapVars, sessionVars, locker, clientVars>>

\* Any frame but INITIALIZE whose session is not found: the error is written
\* and the connection closed once it is sent.
NoSession(c) ==
  /\ CanHandle(c)
  /\ chan[c] = "open"
  /\ mine[c] = None \/ Absent(mine[c])
  /\ closing' = closing \cup {c}
  /\ UNCHANGED <<chan, mapVars, sessionVars, locker, threadVars, clientVars>>

\* The peer goes away.
Disconnect(c) ==
  /\ chan[c] = "open"
  /\ LoopFree(c)
  /\ chan' = [chan EXCEPT ![c] = "closed"]
  /\ UNCHANGED <<closing, mapVars, sessionVars, locker, threadVars, clientVars>>

\* A close queued on the connection's event loop runs.
RunClose(c) ==
  /\ c \in closing
  /\ LoopFree(c)
  /\ closing' = closing \ {c}
  /\ chan' = [chan EXCEPT ![c] = IF @ = "open" THEN "closed" ELSE @]
  /\ UNCHANGED <<mapVars, sessionVars, locker, threadVars, clientVars>>

\* Mutant: channelInactive does not dispose of the session.
InactiveWithoutDispose(c) ==
  /\ chan[c] = "closed"
  /\ LoopFree(c)
  /\ chan' = [chan EXCEPT ![c] = "gone"]
  /\ UNCHANGED <<closing, mapVars, sessionVars, locker, threadVars, clientVars>>

\* channelInactive, the last event of a connection.
Inactive(c) ==
  /\ chan[c] = "closed"
  /\ LoopFree(c)
  /\ chan' = [chan EXCEPT ![c] = "gone"]
  /\ \E s \in GetByChannel(c) :
       \/ s = None /\ UNCHANGED threadVars
       \/ s # None /\ Enter(c, "check", "inactive", s, None)
  /\ UNCHANGED <<closing, mapVars, sessionVars, locker, clientVars>>

Client(c) ==
  \/ Disconnect(c)
  \/ \E d \in Device : Initialize(c, d)
  \/ CloseSession(c)
  \/ NoSession(c)

Handler(c) == Dispose(c) \/ Open(c)

Next == \E c \in Channel : Client(c) \/ Handler(c) \/ RunClose(c) \/ Inactive(c)

Spec == Init /\ [][Next]_vars

\* A handler that was called runs to its end, queued close tasks run, and a
\* closed connection is reported inactive.  No client has to do anything.  The
\* monitor is contended finitely often, so weak fairness is enough for it.
Fairness ==
  \A c \in Channel : WF_vars(Handler(c)) /\ WF_vars(RunClose(c)) /\ WF_vars(Inactive(c))

FairSpec == Spec /\ Fairness

--------------------------------------------------------------------------------
(* What the registry guarantees *)

\* deviceMap never leads to a session that is not registered, at any step of a
\* put or a dispose (a broadcast would write to a dead session); channelMap does
\* only while dispose is between its last two removals.  SessionNexus.java:76-99.
NoDangling ==
  /\ \A d \in Device : deviceMap[d] # None =>
       deviceMap[d] \in sessionMap /\ deviceOf[deviceMap[d]] = d
  /\ \A c \in Channel : channelMap[c] # None =>
       /\ channelOf[channelMap[c]] = c
       /\ \/ channelMap[c] \in sessionMap
          \/ locker # None /\ pc[locker] = "rmChannel" /\ cur[locker] = channelMap[c]

\* Session s was registered and is not any more.
Gone(s) ==
  /\ s < nextId
  /\ s \notin sessionMap
  /\ ~\E c \in Channel : cur[c] = s /\ pc[c] \in {"put", "putSession"}

\* A client whose session was disposed of, by itself, by a takeover from another
\* connection or by another event loop, is never left connected: its connection
\* is closed or a close is queued.  Session.java:112-119 in SessionNexus.java:84-99.
DisposedIsDisconnected ==
  \A s \in Session : Gone(s) => chan[channelOf[s]] # "open" \/ channelOf[s] \in closing

\* Liveness: a handler that starts ends, in spite of the monitor.
HandlersFinish == \A c \in Channel : pc[c] # "idle" ~> pc[c] = "idle"

--------------------------------------------------------------------------------
(* The registry as one object: the update of the monitor's holder counts as *)
(* done from the moment it has the monitor.                                 *)

Holding(s) == locker # None /\ cur[locker] = s

LifeOf(s) ==
  IF s >= nextId THEN "none"
  ELSE IF Holding(s) THEN (IF pc[locker] \in Putting THEN "registered" ELSE "disposed")
  ELSE IF s \in sessionMap THEN "registered"
  ELSE IF \E c \in Channel : pc[c] = "put" /\ cur[c] = s THEN "new" ELSE "disposed"

HeldOr(isKey, entry) ==
  IF locker # None /\ isKey THEN (IF pc[locker] \in Putting THEN cur[locker] ELSE None)
  ELSE entry

Life == [s \in Session |-> LifeOf(s)]
ByDevice == [d \in Device |-> HeldOr(deviceOf[cur[locker]] = d, deviceMap[d])]
ByChannel == [c \in Channel |-> HeldOr(channelOf[cur[locker]] = c, channelMap[c])]

Registry == INSTANCE SessionRegistry WITH
  life <- Life, device <- deviceOf, channel <- channelOf,
  byDevice <- ByDevice, byChannel <- ByChannel

\* SessionNexus implements SessionRegistry: put and dispose take effect in one
\* step, when they get the monitor, and no session is registered twice or comes
\* back after it was disposed of.  SessionNexus.java:76-104.
RegistrySpec == Registry!Spec

--------------------------------------------------------------------------------
(* deviceMap as it is read without the monitor: a put is under way from the *)
(* moment its handler has the monitor until it has put the device's entry,  *)
(* a session is gone from the moment its device's entry is removed.         *)

EntryOf(s) ==
  IF LifeOf(s) \in {"none", "new"} THEN "none"
  ELSE IF Holding(s) /\ pc[locker] \in {"putSession", "putDevice"} THEN "putting"
  ELSE IF s \in sessionMap /\ ~(Holding(s) /\ pc[locker] = "rmSession") THEN "up"
  ELSE "gone"

Entries == [s \in Session |-> EntryOf(s)]
PutFor == [s \in Session |-> IF EntryOf(s) = "none" THEN None ELSE deviceOf[s]]

Index == INSTANCE DeviceIndex WITH life <- Entries, device <- PutFor, leads <- deviceMap

\* SessionNexus implements DeviceIndex, on which the broadcasts of Delivery rely:
\* however the handlers of several event loops interleave, a device's entry is only
\* ever set once for each session, by one put at a time, and no removal falls into
\* a put.  SessionNexus.java:72-99.
DeviceIndexSpec == Index!IndexSpec
================================================================================
