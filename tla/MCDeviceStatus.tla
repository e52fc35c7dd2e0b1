---------------------------- MODULE MCDeviceStatus ----------------------------
(***************************************************************************)
(* Instances of DeviceStatus for TLC: two users who share one device.      *)
(***************************************************************************)
EXTENDS DeviceStatus, TLC

CONSTANTS u, v, d1, d2, d3, l1, l2

Shared == (u :> <<d1, d2>>) @@ (v :> <<d2, d3>>)
OfOneUser == u :> <<d1, d2>>
================================================================================
