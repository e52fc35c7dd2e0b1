---------------------------- MODULE MCSessionNexus ----------------------------
(***************************************************************************)
(* Instances of SessionNexus for TLC.  The server is configured with two   *)
(* workers (application.properties): in TwoLoops, c1 and c3 share one and  *)
(* c2 has the other.  PairOfLoops leaves c3 out.                           *)
(***************************************************************************)
EXTENDS SessionNexus, TLC

CONSTANTS c1, c2, c3, l1, l2, d1, d2

TwoLoops == (c1 :> l1) @@ (c2 :> l2) @@ (c3 :> l1)
PairOfLoops == (c1 :> l1) @@ (c2 :> l2)

\* INITIALIZE frames: one from each connection, or a second one from c1 or from all.
Once == [c \in Channel |-> 1]
Again == (c1 :> 2) @@ (c2 :> 1)
Twice == [c \in Channel |-> 2]

\* Connections of one loop and devices are interchangeable.
LoopMates == Permutations({c1, c3}) \cup Permutations({d1, d2})
Devices == Permutations({d1, d2})
================================================================================
