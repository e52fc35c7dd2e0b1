-------------------------- MODULE MCChannelMembership --------------------------
(***************************************************************************)
(* Instances of ChannelMembership for TLC.  Clients may list a user twice, *)
(* or nobody.                                                              *)
(***************************************************************************)
EXTENDS ChannelMembership

CONSTANTS a, b, c, l1, l2

Lists == {<<>>, <<a>>, <<b>>, <<b, c>>, <<c, c>>}
================================================================================
