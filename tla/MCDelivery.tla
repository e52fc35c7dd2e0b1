------------------------------ MODULE MCDelivery ------------------------------
(***************************************************************************)
(* Instances of Delivery for TLC: an iOS device and an Android device, the *)
(* first listed twice, and two sessions, of one device or of both.         *)
(***************************************************************************)
EXTENDS Delivery, TLC

CONSTANTS a, g, s1, s2, b1, b2

Types == (a :> "APNS") @@ (g :> "GCM")
Listed == <<a, g, a>>

\* The broadcasts are interchangeable, and so are the sessions.
Alike == Permutations({b1, b2}) \cup Permutations({s1, s2})
================================================================================
