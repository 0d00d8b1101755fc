------------------------------ MODULE MCRestore -----------------------------
(* Instances of Restore.                                                    *)
EXTENDS Restore, TLC

CONSTANTS x1, x2, x3, p1, p2
=============================================================================
