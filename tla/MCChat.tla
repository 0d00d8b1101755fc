------------------------------- MODULE MCChat -------------------------------
(* Instances of Chat.                                                       *)
EXTENDS Chat, TLC

CONSTANTS t1, t2, r1, r2, r3
=============================================================================
