------------------------------ MODULE MCExport ------------------------------
(* Instances of Export.                                                     *)
EXTENDS Export, TLC

CONSTANTS b1, b2, s1, s2
=============================================================================
