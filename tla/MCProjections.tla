--------------------------- MODULE MCProjections ---------------------------
(* Instances of Projections.                                                *)
EXTENDS Projections, TLC

CONSTANTS t1, t2, d1, d2, d3, w1, w2, r1
=============================================================================
