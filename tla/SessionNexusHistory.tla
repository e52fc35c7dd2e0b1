-------------------------- MODULE SessionNexusHistory --------------------------
(***************************************************************************)
(* SessionNexus with a history: which handlers go by a lookup that is not  *)
(* true any more, and which sessions lost the entry they are found by when *)
(* one of them, or a second session of the same connection, got in between.*)
(* It changes nothing of the registry.  The lookups are made without the   *)
(* monitor and no test is repeated inside it, so such cases do happen; the *)
(* properties say that nothing else loses a session.                       *)
(***************************************************************************)
EXTENDS SessionNexus

VARIABLES
  stale,    \* connections whose handler goes by an outdated lookup
  strayed,  \* sessions whose entry of deviceMap was another's to change
  orphaned  \* sessions whose entry of channelMap was another's to change

\* In this step what the handler of c looked up stops being true: another
\* handler leads its device to a new session, or disposes of the session that
\* containsKey found.
Overtaken(c) ==
  \/ task[c] = "init" /\ locker # c /\ deviceMap'[dev[c]] \notin {deviceMap[dev[c]], None}
  \/ pc[c] = "lock" /\ cur[c] \in sessionMap \ sessionMap'

\* In this step a lookup of c misses an entry because the map grows.
MissesDevice(c) ==
  GrowingDevices /\ pc[c] = "idle" /\ task'[c] = "init" /\ cur'[c] # deviceMap[dev'[c]]
MissesSession(c) ==
  GrowingSessions /\ pc[c] = "check" /\ cur[c] \in sessionMap /\ pc'[c] # "lock"
MissesChannel(c) ==
  GrowingChannels /\ chan[c] # "gone" /\ chan'[c] = "gone" /\ cur'[c] # channelMap[c]

TakesMonitor(c) == locker # c /\ locker' = c

\* A handler that goes by an outdated lookup, or works on a session that strayed,
\* takes the monitor while the device leads to s: its put or remove hits s.
Strays(s) ==
  \E c \in Channel :
    /\ TakesMonitor(c)
    /\ c \in stale \/ cur[c] \in strayed
    /\ cur[c] # s /\ deviceMap[deviceOf[cur[c]]] = s

\* A handler takes the monitor for one session of a connection while the connection
\* leads to another, s; or channelInactive misses s because a map grows.
IsOrphaned(s) ==
  \E c \in Channel :
    \/ TakesMonitor(c) /\ cur[c] # s /\ channelMap[channelOf[cur[c]]] = s
    \/ MissesChannel(c) /\ channelMap[c] = s
    \/ chan[c] = "gone" /\ MissesSession(c) /\ cur[c] = s

HistoryVars == <<vars, stale, strayed, orphaned>>
HistoryInit == Init /\ stale = {} /\ strayed = {} /\ orphaned = {}
Records ==
  /\ stale' = {c \in Channel :
       /\ pc'[c] \notin {"idle", "reply"} /\ locker' # c
       /\ c \in stale \/ Overtaken(c) \/ MissesDevice(c) \/ MissesSession(c)}
  /\ strayed' = {s \in sessionMap' : s \in strayed \/ Strays(s)}
  /\ orphaned' = {s \in sessionMap' : s \in orphaned \/ IsOrphaned(s)}
HistoryNext == Next /\ Records
HistorySpec == HistoryInit /\ [][HistoryNext]_HistoryVars
HistoryFairSpec == HistorySpec /\ Fairness

--------------------------------------------------------------------------------

\* Whenever nobody holds the monitor, a registered session is the one its device is
\* reached through (ChannelController.java:147 finds it), on however many event
\* loops, INITIALIZE frames and growing maps; except a session that strayed.  The
\* takeover keeps one live session for a device only as long as its lookup is true:
\* InitializeHandler.java:24-33, SessionNexus.java:72-99.
DeviceIndexExact ==
  locker = None => \A s \in sessionMap \ strayed : deviceMap[deviceOf[s]] = s

\* The sessions of connection c that are still registered, under any key.
LeftOf(c) ==
  {s \in sessionMap : channelOf[s] = c} \cup {channelMap[c]}
    \cup {s \in Session : channelOf[s] = c /\ \E d \in Device : deviceMap[d] = s}

\* Once a connection was reported inactive and its handler is done, no session of it
\* is registered any more, under any key, whoever disposed of them; except one that
\* a second session of the connection displaced (the second INITIALIZE does not
\* dispose of the first session) or that channelInactive missed.
\* SmpframeRouter.java:95-100, SessionNexus.java:84-99.
ClosedLeavesNothing ==
  \A c \in Channel : chan[c] = "gone" /\ pc[c] = "idle" /\ locker = None =>
    LeftOf(c) \subseteq orphaned \cup {None}

\* Liveness: a connection that goes down, whoever closed it and whatever its session
\* was doing then, is eventually forgotten by the registry; only an orphaned
\* session of it may stay.
ClosedIsForgotten ==
  \A c \in Channel :
    chan[c] = "closed" ~> chan[c] = "gone" /\ LeftOf(c) \subseteq orphaned \cup {None}
================================================================================
