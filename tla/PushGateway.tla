------------------------------ MODULE PushGateway ------------------------------
(***************************************************************************)
(* The push gateways as their callers meet them: PushGateway.send to the   *)
(* three services, and the life of the APNS push manager, which main       *)
(* builds after the web server has begun to accept connections.            *)
(***************************************************************************)
EXTENDS Naturals

PushType == {"LGPS", "APNS", "GCM"}
ManagerState == {"none", "built", "started", "shutdown"}

VARIABLE manager  \* ApnsGateway.manager and how far it is

\* The field is assigned before the manager is started.
BuildManager == manager = "none" /\ manager' = "built"
StartManager == manager = "built" /\ manager' = "started"
ShutdownManager == manager = "started" /\ manager' = "shutdown"

\* send puts a notification into the manager's queue, started or not, or posts to a
\* service and looks at nothing: it returns whether or not the push arrives.  It may
\* throw as well, of every type: a malformed token or the missing manager of APNS, an
\* address or a payload that cannot be built, a GCM request without a response.
PushReturns(type) == type = "APNS" => manager # "none"
================================================================================
