# eddard: a TLA+ model of the messaging server

eddard (package `com.lge.stark`) is a chat server.  Clients speak SMP, a JSON
frame protocol over websockets served by Netty; a REST interface offers some of
the operations a second time.  Channels, messages, message statuses and devices
are documents in Elasticsearch.  A member that has no open session is reached
through a push service.

Paths below are relative to `src/src/main/java/com/lge/stark/`.

## 1. The system

### Components

| Component | State it keeps | Operations | What makes it correct |
|---|---|---|---|
| **Session registry**, `smp/session/SessionNexus.java`, `Session.java` | `sessionMap`, `deviceMap`, `channelMap` (HashMaps), the id generator; per session its device id, connection, response listeners | `put`, `dispose` (synchronized), `get`, `getByDeviceId`, `getByChannel` (not synchronized), `send`, `Session.dispose` | the three maps agree; one live session per device; who loses its session loses its connection; a closed connection leaves nothing |
| **SMP frame handling**, `smp/smpframehandler/*` | none of its own | INITIALIZE, CLOSE_SESSION, CREATE_CHANNEL, LEAVE_CHANNEL, CREATE_MESSAGE, MESSAGE_RECEIVED, REGISTER_DEVICE, DELETE_DEVICE, UPDATE_DEVICE_STATUS, RETRIEVE_*, IS_ALIVE, `channelInactive`; the error paths of `SmpframeHandler` | no frame is acted on without a session; every handler ends; a refused client is disconnected |
| **Messages and read receipts**, `controller/MessageController.java`, `MessageStatusController.java` | message documents with `unreadCount`, one `messageStatus` document per message and device | `create`, `update`, `get`, `getMessages`; `MessageReceivedHandler` | the unread count and the statuses tell the same story; READ is final |
| **Chat channels**, `controller/ChannelController.java` | channel documents with `userIds` | `create`, `addUsers`, `leave`, `broadcast` | members are who was added and did not leave; a broadcast reaches every active member |
| **Devices and login**, `controller/DeviceController.java`, `gateway/UserGateway.java` | device documents with `active` | `create`, `updateStatus`, `delete`, `getActive`, `login`, `logout` | one active device per user after a login, none after a logout |
| **Push gateways**, `gateway/{Push,Apns,Gcm,Lgps}Gateway.java` | connections to outside services | `start`, `send`, `shutdown` | started before the first send |
| **Frame format**, `smp/smpframe/*`, `IdGenerator.java` | frame id counters | ids of pushes and responses, opcodes | a response's id is its request's plus one |
| **Faults**, `model/Fault.java` | the text of each enum constant | `replaceWith` | an error names what it is about |
| **Response listeners**, `Session.java` | listeners per session | `addListener`, `removeListener`, flush, fire | each listener fires once |
| **HTTP handlers**, `httphandler/*` | none | parameter checks around the controllers | the same as the controllers |
| **Start and shutdown**, `Entrypoint.java` | servers and gateways | start order, shutdown hook, exit of a failed start | a started server is complete; a failed start and a signal end the process |
| **Web client**, `META-INF/web/html/index.htm`, `js/index.js` | the page and the scripts that have run | open, fetch, render | everything is there when the JSX script uses it |
| **Store client, mock servers** | a client object, fixed data | | not part of the program's logic |

### How they interact

One websocket connection has one Netty event loop, which runs the handlers of
all its connections one after another.  A handler calls the controllers, which
make blocking calls to Elasticsearch, and the registry, whose maps are shared
by all event loops.  `ChannelController.broadcast` joins everything: for each
member it asks the device documents for an active device, the registry for a
session, and sends a frame or a push.

### What is hard here

* **Shared maps.**  `put` and `dispose` change three maps under a monitor, while
  every lookup reads without it, so a lookup can fall between two updates or
  into the resize of a HashMap; `dispose` decides by a lookup whether there is
  anything to do, before it waits for the monitor.
* **Takeover.**  INITIALIZE of a device disposes of the device's former session,
  which may belong to a connection of another event loop.  Closing that
  connection is then a task in the other loop's queue, and the other client's
  frames are handled until it runs.
* **Documents without versions.**  Unread counts, member lists and device
  statuses are read, changed in memory and written back; two handlers of two
  event loops lose updates.
* **Order of effects.**  A message is broadcast before the statuses its receipts
  need exist.
* **Partial failure.**  Every store access and every push may throw in the middle
  of a handler; nothing is rolled back.
* **Shared constants.**  `Fault.replaceWith` fills the names of one request into the
  enum constant that every later fault of its kind shows.
* **One frame for many.**  `broadcast` addresses a single frame object anew for each
  recipient, while recipients log in, connect and disconnect.
* **Start and stop.**  The web server accepts connections before there is a push
  manager; a signal may come between any two lines of the start.

`PROJECT.json` lists each of these at its line under "hazards".

## 2. The plan

In this order, the most important behaviour first:

1. `SessionRegistry` (done): the abstract registry, each put and dispose one step.
2. `SessionNexus` (done): the registry and its handlers, one action per access
   to shared state; implements `SessionRegistry`.
3. `MessageFlow` (done): CREATE_MESSAGE, its broadcast and statuses, the receipts.
4. `DeviceStatus` (done): login, logout, registration, deletion and status
   updates over the device documents, SMP and HTTP entry points racing.
5. `ChannelMembership` (done): create, addUsers and leave over the channel
   document.
6. `DeviceIndex`, `PushGateway`, `Delivery` (done): broadcast composed of the
   registry's lookups, the device flags and the push gateways, member by member.
7. `ErrorReplies` (done): how requests are answered, the ids of answers and the
   shared fault texts.
8. `ServerLifecycle`, `WelcomePage` (done): start, signals and shutdown; the home
   page against them.
9. `BroadcastRounds` (done): what callers of broadcast take for granted, implemented
   by `MessageFlow`, which calls it, and by `Delivery`, which says how it runs.
10. Left: an abstract message flow (a set of readers and a bound on the count) that
    `MessageFlow` implements.

Proofs, in this order: the registry's invariants and its refinement (done);
`MessageFlow` (done, `CreatedMeansAnswerable` included); the members of a
channel (done); login and logout (done); `Delivery` and `ErrorReplies` (done,
`HandedToActive` included); `DeviceIndexExact` and `ClosedLeavesNothing` (done); the
index that broadcasts rely on (done); the rounds that creation relies on (done);
`ReceiptTakesOne` and `ReceiptsCount` (done); start, shutdown and the page (done).

Which module uses which: `SessionNexus` implements `SessionRegistry` and
`DeviceIndex`; `Delivery` extends `DeviceIndex`; `MessageFlow` and `Delivery` implement
`BroadcastRounds`; `SessionNexusHistory` extends `SessionNexus` and
`MessageFlowHistory` extends `MessageFlow`; `Delivery` and `ServerLifecycle` extend `PushGateway`; `WelcomePage`
extends `ServerLifecycle`.

## 3. The registry: `SessionRegistry`, `DeviceIndex`, `SessionNexus`

### Abstract: `SessionRegistry`

A session is allocated, registered and unregistered, each in one step, and never
comes back.  `byDevice` and `byChannel` are what the two indexes return.
`Register` makes both lead to the session; `Unregister` clears the entry of the
session's device and connection, whatever they led to by then.

### Abstract: `DeviceIndex`

`SessionRegistry` is the registry as those see it who hold the monitor.  Broadcasts do
not; `DeviceIndex` is `deviceMap` as they meet it.  A put is two steps, because inserting
a new key may move the table under a reader (`BeginPut`, `EndPut`), and `Found` is
what `getByDeviceId` may return meanwhile; a dispose is one removal of whatever the
device leads to, and may be repeated (`RemoveEntry`).  Nothing else changes an entry,
and neither two puts nor a put and a removal run at once.  `Delivery` is built on this
module and `SessionNexus` implements it, so that what the one takes for granted is
what the other does.

### Detailed: `SessionNexus`

| TLA+ | Code |
|---|---|
| `sessionMap`, `deviceMap`, `channelMap` | the HashMaps of `SessionNexus.java` |
| `nextId`, `deviceOf`, `channelOf` | `Session.idGenerator`, `Session.deviceId`, `Session.channelContext` |
| `locker` | the monitor of `SessionNexus` |
| `chan`, `closing` | the state of the Netty channel; the close tasks queued on its loop |
| `pc`, `task`, `cur`, `dev` | the handler running for a connection and its local variables |
| `mine` | the session id the client learnt from SET_HEARTBEAT_RATE |
| `Initialize`, `ValidateOk`, `ValidateFault`, `PutLock` ... `Reply` | `InitializeHandler.smpframeReceived` with `SessionNexus.put` |
| `Check`, `Lock`, `CloseChannel`, `RmDevice`, `RmSession`, `RmChannel` | `SessionNexus.dispose` and `Session.dispose` |
| `CloseSession`, `Inactive` | `SmpframeRouter` (CLOSE_SESSION, `channelInactive`) |
| `NoSession` | `SmpframeHandler.channelRead0`, the refusal |
| `Disconnect`, `RunClose` | the peer and the event loop (external) |

Handlers of one event loop exclude each other (`LoopFree`); handlers of different
loops interleave between any two accesses.  A lookup that runs while another
thread is inserting a new key may miss any entry, because a HashMap that grows
moves its entries (`GetByDeviceId`, `GetByChannel`, `Absent`); `MayResize`
switches this on.  `Channel.isOpen` is part of `chan`.

What the model takes for granted: a client uses its own session id only, and
sends INITIALIZE without one.  Frames of a client whose session is gone but whose
connection is still open are handled (`NoSession`).  The frames that change
nothing in the registry (IS_ALIVE and the frames of the controllers) have no
action here; their effects are in the modules of the controllers.

`RegistrySpec` is the refinement: the update of the handler that holds the
monitor counts as done from the moment it has the monitor (`Life`, `ByDevice`,
`ByChannel`).  This is where a half-done update would show.

`DeviceIndexSpec` is the other one: an entry is being put from the moment the put has
the monitor until `deviceMap.put` is done, and is gone from the removal on (`EntryOf`,
`PutFor`); `leads` is `deviceMap` itself.

### With a history: `SessionNexusHistory`

Between the lookups of a handler, which are made outside the monitor, and the monitor
that it then takes, another handler may make them untrue; nothing is looked at again
inside.  So the registry does lose sessions, and the question is which.
`SessionNexusHistory` changes nothing of `SessionNexus` and records three things:

| Variable | Recorded when |
|---|---|
| `stale` | handlers that go by an outdated lookup: another one leads their device to a new session, or disposes of the session that `containsKey` found (`Overtaken`), or the map grew while they looked (`MissesDevice`, `MissesSession`) |
| `strayed` | sessions whose entry of `deviceMap` a stale handler, or a handler of a session that had strayed, overwrote or removed (`Strays`) |
| `orphaned` | sessions whose entry of `channelMap` a handler of another session of the same connection overwrote or removed, or which `channelInactive` missed while the map grew (`IsOrphaned`) |

A stale handler need not do harm: only when it takes the monitor while its device leads
to another session does that session stray.

### Properties

* `NoDangling` - the device index never leads to a session that is not
  registered, at any step of any interleaving; the connection index only does
  between two adjacent lines of `dispose`.
* `DisposedIsDisconnected` - whoever disposed of a session, its client is
  disconnected or about to be.
* `DeviceIndexExact` - whenever nobody holds the monitor, each registered session that
  did not stray is the one its device leads to, on two event loops, with repeated
  INITIALIZE frames and growing maps.  The exception is needed: two INITIALIZE frames of
  one device may both find no former session, and the first one registered stays in
  `sessionMap`, unreachable by its device, until its connection closes; and two disposals
  of one session may both pass the check outside the monitor, where the second removes
  the device entry of the session registered in between.  No document of the
  repository promises the contrary, so these are recorded as hazards; the
  property says that there is no third way.
* `ClosedLeavesNothing` - after `channelInactive`, no map holds a session of the
  connection but an orphaned one.  The exception is needed: a second INITIALIZE for
  another device overwrites the connection's entry (`SmpframeRouter.java:96` disposes of
  one session), and the first session stays for ever.
* `ClosedIsForgotten` - liveness: a connection that goes down comes to that point,
  whoever closed it and whatever its session was doing.
* `HandlersFinish` - liveness: every handler ends.
* `RegistrySpec`, `DeviceIndexSpec` - the refinements.

## 4. Messages and receipts: `MessageFlow`

One chat channel whose members have one device each.

| TLA+ | Code |
|---|---|
| `unread[m]` | `Message.unreadCount` in the message document |
| `status[m][d]` | the `messageStatus` document of message and device |
| `CreateMessage`, `IndexMessage` | `MessageController.create` up to the index call |
| `Broadcast`, `EndBroadcast` | `ChannelController.broadcast`, one step per member |
| `Record`, `EndCreate` | the loop of `MessageStatusController.create` |
| `Receive`, `SetRead`, `GetMessage`, `SetUnread`, `Notify` | `MessageReceivedHandler.smpframeReceived`, one step per store access |
| `Fault` | an exception of the store or of a push gateway, turned into an error frame by `SmpframeHandler` |

`Receive` takes a frame of any device for any message, as the handler does: a member that
the broadcast passed over, or whose frame was lost, gets the message by
RETRIEVE_MESSAGES and may acknowledge it.  Without a status the handler fails on a null
pointer, and the receipt changes nothing.

A member is skipped (no active device), or reached and the frame arrives or is
lost.  A store access that fails may have taken effect or not: `Fault` can fire
instead of the access, or right after it.

`MessageFlowHistory` adds two history variables: how many receipts of a message were
handled (`receipts`), and the messages whose handlers never overlapped or failed and whose
receipts came neither twice nor before the message was stored (`clean`).  It changes nothing of the flow (`HistoryNext` is `Next`
with two bookkeeping conjuncts), so that one run can ask what a message keeps when
nothing got in its way beside what it keeps whatever happens.

### Properties

* `NeverUndercounts` - the unread count is never less than the number of members
  who have not read, whatever is lost, as long as no device has sent two
  receipts and none that is listed twice has sent one.  The handler does not look
  at the status before it counts, so a repeated receipt is counted again.
* `ReceiptTakesOne` - how far that goes: a receipt takes at most one from the
  count, however late, repeated or overlapped it is.
* `ReadIsFinal` - the status of a device that is listed once never goes back from
  READ.  Not obvious: `create` writes SENT after devices may have answered, and
  for a device that is listed twice it does overwrite.
* `CreatedMeansAnswerable` - when creation ends without an error every device
  that has the message has the status its receipt needs.
* `ReceiptsCount` - for such a message the count and the statuses are exact once its
  handlers are done: they are those of the receipts that found a status (`Heeded`).
  A receipt of a member that was passed over finds none and is not counted, even
  when nothing else goes wrong.
* `BroadcastAsCalled` - the broadcasts of creation are those of `BroadcastRounds`
  (section 7): nothing is recorded before the whole list was gone through, and a
  broadcast that was broken off is never recorded.
* `CreateEnds` - liveness.
* `NotifiedMeansChanged` - a sentence of `OpCode.java` that two event loops break
  (`flow_lost_update`).

## 5. Devices: `DeviceStatus`

| TLA+ | Code |
|---|---|
| `doc[d]` | the document of device d in Elasticsearch and its `active` field |
| `DevicesOf` | `ProfileServer.getDeviceIds`, fixed data |
| `disturbed` | a history variable: another loop set one of the user's devices to something else than this handler wants |
| `pc`, `user`, `target`, `rest` | a handler inside `login` or `logout`: the user, the `deviceId` it logs in from, what is left of the loop |
| `Login`, `Look`, `Update`, `Finish` | `UserGateway.login`, one step per access to the store |
| `Logout`, `Update`, `Finish` | `UserGateway.logout` |
| `Register`, `Delete`, `UpdateStatus` | `DeviceController.create`, `delete`, `updateStatus`, called by the SMP frames and the HTTP handlers |
| `GetActive` | `DeviceController.getActive`, which decides where a broadcast goes |
| `Fault` | an access that throws, before or after it took effect |

The documents outlive the server, so it starts on any of them.  Login checks that
the device is registered and nothing more: a user may log in from a device that
the profile does not list, and then has no active device at all.

* `LoginDecides` - after a login that ends without a fault broadcasts to the user
  go to the device of the login: of the registered devices it alone is active.
  Deletions, retries of the same login and failures of others do not matter; only a
  write of another loop that sets one of the user's devices otherwise does
  (`disturbed`), since nothing joins the updates of one login.
* `LoginsLeaveOneActive` - what the test of login asks for, of overlapping logins:
  when the last one ends, one device is active.  **The code does not keep it**;
  see `device_race`.
* `LogoutClears` - after a logout without a fault the user has no active device,
  with the same exception.
* `DeletedStaysDeleted` - no login or status update brings a deleted device back.

## 6. Members: `ChannelMembership`

| TLA+ | Code |
|---|---|
| `userIds` | `Channel.userIds` in the channel document |
| `founders`, `leavers` | history variables: what `create` stored; who has called `leave` |
| `pc`, `copy`, `arg` | a handler inside `addUsers` or `leave`, the channel it read, and its argument |
| `Create` | `ChannelController.create` |
| `AddUsers`, `WriteAdded` | `ChannelController.addUsers`, the read and the update |
| `Leave`, `Announce`, `WriteLeft` | `ChannelController.leave`, the read, the broadcast, the update |
| `Fault` | an access or a push that throws |

One channel.  Lists may repeat a user: nothing validates them.

* `FoundersStay` - the users a channel was created with are members until they leave,
  whatever updates are lost.  Not obvious: every update writes back a whole list
  from an old copy.
* `OnlyStaleCopiesLose` - a member that does not leave disappears only when a handler
  writes back a copy that was out of date; on one event loop nobody does.

  Neither asks that a leaver stay: both would hold as well of a `leave` that took the
  user out.
* `LeaverLeaves` - who left is not a member any more.  **The code does not keep
  it**; see `channel_leave`.

## 7. Broadcasts: `PushGateway`, `Delivery`

`MessageFlow` chooses freely what becomes of each member of a broadcast.  `Delivery`
is the broadcast itself: what the registry, the device documents and the push
gateways make of each member while they change.

| TLA+ | Code |
|---|---|
| `manager` | `ApnsGateway.manager` and how far it is |
| `active` | the `active` flag of each user's device; `Flip` is a login, logout or status update |
| `life`, `device`, `leads` | `DeviceIndex`: sessions, the devices they are of, and what `deviceMap` holds |
| `PutBegins`, `PutEnds`, `Disposes` | `SessionNexus.put` and `dispose` as `DeviceIndex` has them, for any device |
| `drawn`, `frames` | `Session.idGenerator` for frame ids; what was written to each connection |
| `pc`, `rest`, `target`, `frame`, `reached` | a call of `ChannelController.broadcast`: loop, session, address of its frame, returned list |
| `Start`, `NextMember`, `Lookup`, `Stamp`, `Send`, `Push`, `End`, `Throw` | its steps: `getActive`, `getByDeviceId`, `setSessionId` and `setSmpframeId`, `Session.send`, `PushGateway.send`, return, exception |
| `PushReturns` | when `PushGateway.send` returns, for each push type; it may throw for all of them |
| `handed`, `steady` | history variables: who was handed what; devices whose flag or way nobody touched since |

While a put inserts a new key a lookup on another thread may miss any entry
(`Growing`).  Registrations exclude each other and disposals, and a dispose may
repeat, as two that passed the check outside the monitor do: this is `DeviceIndex`,
which `SessionNexus` was shown to implement, takeovers included.
A session that was disposed of may still be stamped and written to: nobody asks.  The
queue of the APNS manager is unbounded, so `send` returns whether or not the
manager was started.

**Abstract: `BroadcastRounds`.**  What the two modules must agree on: a round goes
through the members once and in order, passes each over or serves it, and returns
(`Finish`) only at the end of the list; a fault breaks it off (`BreakOff`), and a caller
may fail before or after it (`CallerFails`).  In `MessageFlow` the round of a message is
on while its creator is at "broadcast" (`StageOf`, `OfCaller`); in `Delivery` a member
is served when its frame is written or pushed.  The broadcasts of receipts
(UNREAD_COUNT_CHANGED) and of channel frames have no round in `MessageFlow`: nothing is
done with what they return.

* `BroadcastAsRun` - each broadcast is a round of `BroadcastRounds`, whatever sessions,
  flags and push gateways do meanwhile.  Proved (`RunsRounds`) and part of no run: it
  would more than double the time of `delivery`, the longest one.
* `FramesAddressed` - a connection is only written frames with its own session
  id, and with distinct frame ids until the generator wraps.
* `PushBorrowsItsOwn` - a push after a recipient with a session carries that
  recipient's address, because the frame is one object.  It is never an
  address of another broadcast.
* `HandedToActive` - each device whose flag did not change is handed the frame as
  often as it is listed if it is active, and never if it is not; the list of
  devices returned, for which statuses are recorded, is exactly who was handed it.
* `HandedTheRightWay` - a device whose session nobody touched gets the frame through
  it, and by push only without one.

## 8. Answers and faults: `ErrorReplies`

| TLA+ | Code |
|---|---|
| `op`, `id`, `session` | a request, its frame id, and whether its session was found |
| `Arrive`, `Undecodable` | `SmpframeRouter.decode` |
| `NoSession`, `Succeed`, `Crash`, `Tell` | `SmpframeHandler.channelRead0` around a handler, and its catch blocks |
| `Refuse` | `throw new FaultException(...)` in a controller or gateway |
| `ReadText`, `FillText`, `text` | `Fault.replaceWith`: read the text of the enum constant, write it back filled |
| `ResponseId`, `Wrap`, `Numbered` | `Smpframe.responseSmpframeId` in int arithmetic; it throws without an id |
| `answer`, `open` | what was written to the connection, and whether the server left it open |
| `HangUp` | the peer (external) |

A few things the code does that the model keeps: a refused INITIALIZE has no
session, so its frame is written without being encoded, the write fails and the
listener closes the connection; for a frame without an id `responseSmpframeId`
throws in the catch block too, nothing is written and nothing closed;
`MessageController` throws CHANNEL_001 without `replaceWith`, so its client sees the
placeholder.  CREATE_MESSAGE can fail with COMMON_003, which the APNS gateway fills with a
fixed text; the model does not tell it from one that names the request.

* `FailureIsTold` - a client whose request failed is answered or disconnected, unless
  its frame had no id.
* `AnswerLeadsBack` - the id of an answer less one is the request's id, the largest
  int included, whose successor is negative.  (For a negative id the answer is
  -1.)
* `ShownNamesWereRefused` - however replacements interleave, a text that is filled is
  never shown with its placeholder.  The name in it is the first request's for
  ever after (the hazard at `Fault.java:44`); the property says how far that goes:
  it is of a request that was refused with the same fault.

## 9. Start, shutdown and the home page: `ServerLifecycle`, `WelcomePage`

| TLA+ | Code |
|---|---|
| `LoadSettings`, `StartWeb`, `BuildGateway`, `StartGateway`, `AddHook`, `Exit` | `Entrypoint.main` and `start`, `ApnsGateway.start` |
| `HookStopsGateway`, `HookStopsWeb` | `Entrypoint.shutdown` in the shutdown hook |
| `Signal`, `Halt` | the operating system and the JVM (external) |
| `Open`, `Tag`, `ScriptTag`, `Loaded` | the tags of `index.htm` in a browser |
| `FetchScript`, `Render` | Babel fetching `index.js`; `index.js` itself |

The home page is a sample ("Hello" rendered with React); it is the only client in the
repository.  Every step of the start may fail.  `PushManager.shutdown` is assumed to
return or the hook would not end; `kill -9` is not modelled.

* `StartedMeansComplete` - a server that says it has started accepts connections,
  its push manager is started and its hook is there.
* `HookFindsManager` - whenever the signal comes, the hook finds a started manager.
* `FailedStartEnds`, `SignalEnds` - liveness: nothing stays behind half started.
* `GreetsUnlessLost` - liveness: the page greets unless something it needs was lost.

## 10. The runs

| Run | Config | Checks | Shows |
|---|---|---|---|
| `nexus_race` (pass) | `MCSessionNexusRace.cfg` | `TypeOK`, `NoDangling`, `DisposedIsDisconnected`, `RegistrySpec` | Three connections on two event loops take one device over from each other while maps may grow under unsynchronized lookups: no device leads to a dead session, no disposed client stays connected, and put and dispose are atomic seen through the monitor. |
| `nexus_twice` (pass) | `MCSessionNexusTwice.cfg` | `DeviceIndexExact`, `ClosedLeavesNothing` | Two connections on two event loops send INITIALIZE twice, for the same device or another, while maps grow, takeovers and disposals cross and connections close: the only registered sessions that their device does not lead to are those that an outdated lookup made stray, and the only ones a closed connection leaves behind are those that a second session or a missed lookup orphaned. |
| `nexus_closing` (pass) | `MCSessionNexusClosing.cfg` | `DeviceIndexSpec`, `HandlersFinish`, `ClosedIsForgotten` | Connections of two event loops, one of which sends INITIALIZE twice, close at any moment of an INITIALIZE, a takeover or a dispose while maps grow: lookups see what broadcasts rely on, handlers end, and a connection that went down leaves no session behind but an orphaned one. |
| `flow_retries` (pass) | `MCMessageFlowRetries.cfg` | `TypeOK`, `NeverUndercounts`, `CreatedMeansAnswerable`, `ReceiptsCount`, `ReceiptTakesOne`, `BroadcastAsCalled`, `ReadIsFinal`, `CreateEnds` | Three members on two event loops, one of them listed twice, with receipts sent twice, early, late and by members that were passed over, and a failing store and gateways: the unread count is never too low, receipts that do not overlap and find a status count exactly, statuses are recorded only of broadcasts that went through their list, no status goes back from READ, creation always ends, and what was created without an error can be acknowledged. |
| `flow_lost_update` (violation) | `MCMessageFlowLostUpdate.cfg` | `NotifiedMeansChanged` | On two event loops two receipts read the same unread count and write the same value back: the second UNREAD_COUNT_CHANGED announces no change, and one receipt is not counted. |
| `device_shared` (pass) | `MCDeviceStatusShared.cfg` | `TypeOK`, `LoginDecides`, `LogoutClears`, `DeletedStaysDeleted` | Two event loops, two users who share a device, every operation and a store that fails: a login or logout that ends without a fault, and whose devices no other loop set against it, decides which device gets the user's broadcasts; no update brings a deleted device back. |
| `device_race` (violation) | `MCDeviceStatusRace.cfg` | `LoginsLeaveOneActive` | One user logs in from two devices on two event loops: the two loops over the user's devices interleave and leave no device active. |
| `channel_race` (pass) | `MCChannelMembershipRace.cfg` | `TypeOK`, `FoundersStay`, `OnlyStaleCopiesLose` | Users are added and leave on two event loops while the store fails: members that do not leave are lost only to a stale copy, and the users the channel was created with not even to one. |
| `channel_leave` (violation) | `MCChannelMembershipLeave.cfg` | `LeaverLeaves` | A user leaves a channel and is still a member when leave has ended. |
| `delivery` (pass) | `MCDelivery.cfg` | `TypeOK`, `FramesAddressed`, `PushBorrowsItsOwn`, `HandedToActive`, `HandedTheRightWay` | Two broadcasts on two event loops to an iOS device that is listed twice and an Android device, while sessions of either device are registered, replaced and disposed of, flags change and the push manager is not there yet: frames are addressed to their session with distinct ids, pushes carry no other broadcast's address, and each device that stayed active gets the frame as often as it is listed. |
| `replies` (pass) | `MCErrorReplies.cfg` | `TypeOK`, `FailureIsTold`, `AnswerLeadsBack`, `ShownNamesWereRefused` | Two requests at once, with every id of three bits or none, with and without a session, that succeed, fail or are refused: a client can tell that its request failed, finds it by the id of the answer, and is shown no placeholder of a text that is filled. |
| `server` (pass) | `MCWelcomePage.cfg` | `TypeOK`, `StartedMeansComplete`, `HookFindsManager`, `FailedStartEnds`, `SignalEnds`, `GreetsUnlessLost` | A start in which every step may fail, a signal at any moment, and a visitor of the home page: a server that has started is complete, the hook finds the push manager started, a failed start and a signal end the process, and the page greets its visitor unless something it needs was lost. |

**Bounds and why they are enough.**  `Channel`, `Device`, `Loop`: every hazard of
the registry is between two handlers and the session that a third one
registers, so three connections of two loops and one device cover takeovers,
double disposals and late closes; two devices, and a second INITIALIZE, are there for a
connection that changes devices.  `nexus_twice` reaches states with stray and with
orphaned sessions of both kinds.  `MaxSessions` is the number of sessions the bounded number of
INITIALIZE frames (`MaxInits[c]` from connection `c`) can allocate in `nexus_race`; in the
other two it ends a behaviour one session short of that, to keep them small: a stray or
orphaned session needs two.  `MaxAcks` is two in `flow_retries`, so that receipts repeat; its member list
`<<a, b, c, a>>` has a device that is listed twice beside two that are not.  The
device listed twice has one of the two configured event loops and the others share
the other: receipts of both loops interleave, and those of one do not.  Lost updates
are between two receipts of one message, so one message suffices.  Two users that share one of three devices
cover the foreign device, the unregistered one and the one that another user
takes over.  `MaxUsers`: a lost addition needs two handlers that each add one
user to a channel of two, and a list with a repetition of two; four members give
room for both.  In `delivery` two broadcasts share a connection of each kind; the list
`<<a, g, a>>` makes a push follow and precede a frame and lists a device
twice; two sessions, each of either device, are enough for a takeover, a disposal
that is repeated and a put that grows the table while another broadcast looks up;
`MaxFlips = 1` because the property excuses a device whose flag changed,
and one change on either side of its lookup shows both; `IdSpan = 3` is less than the
number of frames a session can be sent, so the generator wraps.  `Half = 4` gives ids of
three bits: all of them, among them the largest, the negative ones and none.  Two
requests suffice for `replies`, whose races are between two fillings of one text.
`server` needs no bounds.  Symmetry is used only where no liveness is checked
and the values are interchangeable (devices, connections of one loop, broadcasts,
sessions of `delivery`, requests).  Runs with a bounded number of requests,
`server`, whose process ends, and `device_race`, which may start with no device
registered, set `CHECK_DEADLOCK FALSE`: the system may stop.

**Fairness.**  `FairSpec` and `HistoryFairSpec` have weak fairness of each running handler, of the close
tasks queued on an event loop, and of `channelInactive`: Netty runs queued tasks
and reports every closed channel, and a Java thread that can run does run.  No
client is assumed to do anything.  Acquiring the monitor is part of a handler;
weak fairness is enough for it because with bounded INITIALIZE frames it is
contended finitely often.  `HistorySpec` has weak fairness of each device's handler:
a handler that was called runs on.  `WelcomePage` has weak fairness of the main
thread, of the hook with the JVM's end, and of the browser; nobody is assumed to
open the page or to send a signal.

## 11. Findings

* `flow_lost_update`: UNREAD_COUNT_CHANGED ("Unread count changed") is sent for an
  update that stored the value that was there, and the receipt is not counted.
* `device_race`: two logins of one user from two devices leave no device active,
  where the test of login expects one.
* `channel_leave`: CHANNEL_LEFT ("A user left the channel") is sent for a user who
  stays a member.

## 12. Proofs

`SessionNexusProofs` and `SessionNexusRefinement` hold for every set of
connections, devices and event loops, every assignment of connections to loops,
and every bound; the assumptions are those `SessionNexus` states (`LoopOf` maps
connections to loops, the bounds are naturals, `None` is not a value).

* `TypeCorrect`, `NeverDangling`, `DisposedMeansDisconnected` follow from one
  inductive invariant `Inv`.  `NoDangling` is not inductive by itself: that
  removing the entry of a device never leaves an entry of a session about to
  be removed needs to know who holds the monitor and what it has done so far.
  `Inv` adds that a handler is in the synchronized part exactly when it is the
  holder (`MonitorInv`); that a session in hand is allocated and belongs to the
  device and connection of the handler (`Allocated`, `InHand`); that a session
  not registered yet is in one handler's hands only (`Pending`); that a registered
  session is allocated (`Registered`); and what the maps hold at each step of an
  update (`PutInv`, `RemoveInv`).  `Step` has one case per action.
* `Implements` proves `Spec => RegistrySpec`.  Steps outside the monitor stutter
  or allocate (`OutsideMonitor`, `Construction`), steps inside stutter
  (`InsideMonitor`, `EndOfRemoval`, `EndOfPut`), and getting the monitor is
  `Register` or `Unregister` (`PutTakesEffect`, `DisposeTakesEffect`).
* `ImplementsIndex` proves `Spec => DeviceIndexSpec`.  Here a put takes effect at
  `PutDevice` and a removal at `RmDevice`, each in the middle of its synchronized part.
  The facts that carry it are in `Inv`: the device of a session in hand does not
  change, one handler holds the monitor, and a removal may be of a session that is
  gone already.  `LookupsAreCovered` adds what makes the refinement usable: any
  result that `GetByDeviceId` allows is in `Index!Found`, so that a lookup of
  `Delivery` allows everything that one of `SessionNexus` does.

* `OnlyStaleHandlersMislead` and `OnlyOrphansStay` prove `HistorySpec =>
  []DeviceIndexExact` and `HistorySpec => []ClosedLeavesNothing`, without a condition on
  loops, frames or growing maps.  Their invariant is `HistoryInv`.  What a handler that is not stale
  found outside the monitor is still true (`TrueLookups`), so where it aims is known
  (`Aim`): its device leads to the session it is about to remove, or to none, or to one
  that strayed.  Hence `Led`: a session that did not stray is found by its device, but
  for the one whose update is half done.  For the connection, `Attached` says that a
  registered session that is not orphaned is the one its connection leads to, and
  `Leaving` that once the connection is gone its session is in the hands of
  `channelInactive`, however far another loop's dispose of it has come.

`MessageFlowProofs` holds for every set of devices, messages and event loops, every
list of members, repetitions included, every number of receipts and every kind of
failure.

* `ReadStays` is about two writers of one status that know nothing of each other.
  `FlowInv` accounts for where statuses come from: one handler creates a message
  (`Creators`); no status exists before it records them (`Unsent`); a device that is
  listed once is to be recorded at most once, and has no status until it is
  (`AtMostOnce`, `Within`, `Reaching`); and a receipt goes ahead only if there is one
  (`Answered`, `Stored`).  So SENT is never written over READ for such a device
  (`StepKinds`, `ReadersStay`).
* `UnreadNeverTooLow` needs finitely many devices, and speaks of a message as long
  as no device has sent two receipts of it and none listed twice has sent one.  A
  count that was read may be written back much later, so the invariant `Counted`
  bounds the copy in a handler's hands as well, by the readers whose own decrement is
  not pending (`Done`).  That set only grows (`DoneStays`), and the step that takes a
  count down adds to it, because a device comes to SetUnread once (`Once`).
* `OneForEachReceipt` has no such condition but the finitely many devices.  `Taken` is
  the invariant: the count, and each copy of it in a handler's hands, are at least the
  members less the receipts that are not in progress any more (`Finished`), and a
  handler that writes its copy less one has just added one to those.
* `CleanCounts` is about messages whose handlers never overlapped or failed.
  `Orderly` says what holds of one in the middle of a receipt: nobody has acknowledged it
  before it was created (`Early`), the statuses are those of the receipts so far that
  found one (`Heeded`) but for the one at hand (`Reading`), the count lags by the
  one at hand (`Underway`), and the copy in hand is the count.  A receipt without a
  status leaves all of it alone, and none gets its status later, because `create` records
  them before such a receipt.  It is inductive only with `Accounted` (a message that is
  being created has a handler that does, and is not stored before).
* `CreatedIsAnswerable` is about the creator's own bookkeeping, which receipts do not
  touch: a device that has the message is among those reached and still to be
  recorded, or has a status already (`Reachable`), and statuses never vanish.
* `ImplementsRounds` proves `Spec => BroadcastAsCalled`.  The lists of a round are found
  at the one handler that creates the message; that it is one is `Creators`
  (`RoundsFollow`, which says where a round stands in each state).  A handler's step is
  nothing to the rounds of messages it does not create (`RoundsBeside`, `OneRound`), and
  each action has a lemma that names the step of the round it is, or that it is none.
* `TypeCorrect` is a conjunct of `FlowInv`.

`ChannelMembershipProofs` holds for all users, lists and event loops: `TypeCorrect`,
`FoundersRemain` and `OnlyStaleLoses`, from `Held`: every copy in a handler's hands
begins with the founders, since `leave` writes the list back as it read it.

`DeviceStatusProofs` holds for all users, profiles and event loops.  `Decided` says of
a running handler that nobody disturbed: each of the user's devices is still to
come, or its document is gone or has the flag the handler wants.  The step of one
loop keeps that for another or disturbs it (`StoreKeeps`), and the step of the loop
itself moves one device over (`UpdateStep`); when nothing is left, that is
`LoginHolds` and `LogoutHolds`.  That `getActive` returns the device of the login
also needs the least position in a list, from `WellFoundedInduction`.
`DeletedIsGone` needs only the types.

`DeliveryProofs` holds for all devices, sessions, member lists, broadcasts and widths
of the ids.

* `FramesHold`: a stamped frame is addressed to the session it will be written to
  (`Addressed`), and until the generator wraps the ids written and the ids in
  hand are different and already drawn (`Numbered`), which is what makes two
  broadcasts safe that stamp in one order and write in the other.
* `PushesHold`: the address a frame has is that of its last handing through a
  session (`Carries`), unless it is being stamped.
* `WayHolds`: registrations exclude each other (`OnePut`), so that a device whose
  session nobody touched is found where it was (`Way`).
* `HandedHolds` counts.  `Lists` says that the list to be returned is who was handed
  the frame, and who is in hand; `Serves` that for a device with an unchanged flag the
  times it was handed the frame and the times it is still listed add up to the times
  it is a member (or to none, for a device that is not active).  Each turn of the loop
  moves one from the one side to the other, by the lemmas on what `Count` makes of
  `Append` and `Tail` (`CountAppend`, `CountTail`), which rest on the library's facts
  about cardinalities.
* `RunsRounds` proves `Spec => BroadcastAsRun`: `NextMember` passes over or only picks
  (`NextMemberPasses`), `Send` and `Push` add the head of the list to the recipients
  (`HandAppends`, `HandServes`), and what goes on around a broadcast is no step of it.
  That a round begins with nobody served is part of `Lists`.

`ErrorRepliesProofs` holds for all requests and widths of the ids.  `FailuresAreTold`
and `AnswersLeadBack` follow from the order of a request's steps (`InOrder`) and the
arithmetic of `Wrap` (`WrapBack`); `NamesHold` from `Texts`: a text, once filled,
stays filled with the name of a refused request, and what a replacement has read is the
template or such a name.

`WelcomePageProofs` has no constants to range over; its run covers every state, and the
proofs say why.  `Started` orders what main has done (web server, manager, hook) and
`Ended` what the hook has; the browser does not touch either (`BrowserLeavesServer`), so
`ServerInvariance` holds beside any page, and `StartIsComplete` and `HookHasManager`
follow.  `BlankMeansLost` is the safety half of `GreetsUnlessLost`:
each script runs after those whose names it uses, or something was lost.

Only model-checked: liveness (`HandlersFinish`, `ClosedIsForgotten`, `CreateEnds`,
`FailedStartEnds`, `SignalEnds`, `GreetsUnlessLost`), which needs fairness and ENABLED
and is out of this prover's reach.  Every safety property of a passing run has a
theorem.  The three runs that expect a violation have nothing to prove.

## 13. Not modelled

* **Response listeners** (`Session.addListener`, `removeListener`, the flusher of
  `SessionNexus`): no caller registers a listener or reports a response, so the list
  is empty in every state of the program.
* **Store client and mock servers**: the client of Elasticsearch is seen through the
  controllers, each access one step that may fail; the user, profile and device
  servers return fixed data, so validation is a free choice.
* **Wording and mapping**: the text of faults (but for whose name is in it), the JSON
  fields of frames, and the frames that change no document (GET_USERS,
  RETRIEVE_MESSAGES, IS_ALIVE; RETRIEVE_FRIENDS stands for them in `ErrorReplies`).
* **HTTP handlers**: second entry points of the controllers; their parameter checks are
  left out.  `channel/DeleteUser.java` only echoes ids and never calls `leave`, and
  `channel/Get.java:25` throws out of `replaceWith(null)`; neither reaches a
  controller's state.
* **Never called**: `SessionNexus.close`.
* **Outside the JVM**: `kill -9`, a crash of the machine, the push services after they
  have taken a notification.
