---------------------------- MODULE MCErrorReplies ----------------------------
(* Instances of ErrorReplies for TLC. *)
EXTENDS ErrorReplies, TLC

CONSTANTS r1, r2

\* Requests are interchangeable.
Clients == Permutations({r1, r2})
================================================================================
