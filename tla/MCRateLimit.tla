----------------------------- MODULE MCRateLimit ----------------------------
(* Instances of RateLimit.                                                  *)
EXTENDS RateLimit, TLC

CONSTANTS k1, k2, k3, c1, c2
=============================================================================
