----------------------------- MODULE MCMessageFlow -----------------------------
(* Instances of MessageFlow for TLC. *)
EXTENDS MessageFlowHistory, TLC

CONSTANTS a, b, c, l1, l2, m1

\* Three members; and a channel whose inviter a is among the invitees too.
Trio == <<a, b, c>>
Repeated == <<a, b, c, a>>

\* The two workers of application.properties.
TwoLoops == [d \in Device |-> IF d = a THEN l1 ELSE l2]
================================================================================
