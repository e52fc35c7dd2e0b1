----------------------------- MODULE DeviceIndex -----------------------------
(***************************************************************************)
(* deviceMap as those who read it without the monitor meet it: what        *)
(* SessionNexus.getByDeviceId may return while put and dispose go on.      *)
(* Broadcasts are built on this module, and SessionNexus.tla implements it *)
(* step by step: what it promises here is what Delivery relies on there.   *)
(*                                                                         *)
(* A put becomes visible in two steps, since HashMap.put of a new key may  *)
(* move the entries to a larger table first.  A dispose is one removal.    *)
(***************************************************************************)

CONSTANTS
  Session,    \* session ids
  Device,     \* device ids
  None        \* Java's null

VARIABLES
  life,      \* life[s]: how far session s has come
  device,    \* device[s]: the device session s was put for
  leads      \* leads[d]: the session deviceMap holds for device d

indexVars == <<life, device, leads>>

IndexTypeOK ==
  /\ life \in [Session -> {"none", "putting", "up", "gone"}]
  /\ device \in [Session -> Device \cup {None}]
  /\ leads \in [Device -> Session \cup {None}]

IndexInit ==
  /\ life = [s \in Session |-> "none"]
  /\ device = [s \in Session |-> None]
  /\ leads = [d \in Device |-> None]

\* The monitor lets one put run at a time, and no removal during it.
NoPut == \A s \in Session : life[s] # "putting"

\* A new key may grow the table, and until the entries are moved readers on other
\* threads miss any of them.
Growing == \E s \in Session : life[s] = "putting" /\ leads[device[s]] = None

\* What getByDeviceId may return.
Found(d) == {leads[d]} \cup IF Growing THEN {None} ELSE {}

\* deviceMap.put has begun; a session is put once.
BeginPut(s, d) ==
  /\ life[s] = "none"
  /\ NoPut
  /\ life' = [life EXCEPT ![s] = "putting"]
  /\ device' = [device EXCEPT ![s] = d]
  /\ UNCHANGED leads

EndPut(s) ==
  /\ life[s] = "putting"
  /\ life' = [life EXCEPT ![s] = "up"]
  /\ leads' = [leads EXCEPT ![device[s]] = s]
  /\ UNCHANGED device

\* dispose removes what the device leads to, whichever session that is, and may do
\* so again for a session that is gone.
RemoveEntry(s) ==
  /\ life[s] \in {"up", "gone"}
  /\ NoPut
  /\ life' = [life EXCEPT ![s] = "gone"]
  /\ leads' = [leads EXCEPT ![device[s]] = None]
  /\ UNCHANGED device

IndexNext ==
  \E s \in Session : (\E d \in Device : BeginPut(s, d)) \/ EndPut(s) \/ RemoveEntry(s)

IndexSpec == IndexInit /\ [][IndexNext]_indexVars
==============================================================================
