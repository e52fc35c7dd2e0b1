------------------------- MODULE MCSessionNexusHistory -------------------------
(***************************************************************************)
(* Instances of SessionNexusHistory for TLC: the loops and the symmetries  *)
(* are those of MCSessionNexus.                                            *)
(***************************************************************************)
EXTENDS MCSessionNexus, SessionNexusHistory
================================================================================
