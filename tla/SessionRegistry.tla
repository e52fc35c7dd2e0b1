---------------------------- MODULE SessionRegistry ----------------------------
(***************************************************************************)
(* What smp/session/SessionNexus.java promises when its three maps are     *)
(* looked at as one object: a session is allocated once, registered once   *)
(* under its id, its device and its channel, and unregistered for good.    *)
(* Registering and unregistering are single steps here; SessionNexus.tla   *)
(* performs them one map at a time under the locker and implements this    *)
(* module.                                                                 *)
(*                                                                         *)
(* Unregistering the id of a session that is gone already is allowed and   *)
(* still drops whatever its device and its channel point to: dispose looks *)
(* at sessionMap before it takes the locker and never again.               *)
(***************************************************************************)

CONSTANTS
  Session,    \* session ids
  Device,     \* device ids
  Channel,    \* client connections
  None        \* Java's null

VARIABLES
  life,       \* life[s]: how far session s has come
  device,     \* device[s]: the device that initialized s
  channel,    \* channel[s]: the connection s was initialized on
  byDevice,   \* the session a device is reached through
  byChannel   \* the session a connection belongs to

registryVars == <<life, device, channel, byDevice, byChannel>>

LifeCycle == {"none", "new", "registered", "disposed"}

Init ==
  /\ life = [s \in Session |-> "none"]
  /\ device = [s \in Session |-> None]
  /\ channel = [s \in Session |-> None]
  /\ byDevice = [d \in Device |-> None]
  /\ byChannel = [c \in Channel |-> None]

Allocate(s, d, c) ==
  /\ life[s] = "none"
  /\ life' = [life EXCEPT ![s] = "new"]
  /\ device' = [device EXCEPT ![s] = d]
  /\ channel' = [channel EXCEPT ![s] = c]
  /\ UNCHANGED <<byDevice, byChannel>>

Register(s) ==
  /\ life[s] = "new"
  /\ life' = [life EXCEPT ![s] = "registered"]
  /\ byDevice' = [byDevice EXCEPT ![device[s]] = s]
  /\ byChannel' = [byChannel EXCEPT ![channel[s]] = s]
  /\ UNCHANGED <<device, channel>>

Unregister(s) ==
  /\ life[s] \in {"registered", "disposed"}
  /\ life' = [life EXCEPT ![s] = "disposed"]
  /\ byDevice' = [byDevice EXCEPT ![device[s]] = None]
  /\ byChannel' = [byChannel EXCEPT ![channel[s]] = None]
  /\ UNCHANGED <<device, channel>>

Next ==
  \E s \in Session :
    \/ \E d \in Device, c \in Channel : Allocate(s, d, c)
    \/ Register(s)
    \/ Unregister(s)

Spec == Init /\ [][Next]_registryVars
================================================================================
