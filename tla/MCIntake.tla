------------------------------ MODULE MCIntake ------------------------------
(* Instances of Intake.                                                     *)
EXTENDS Intake, TLC

CONSTANTS f1, f2, j1, j2, j3, j4

SameBytes  == [f \in Files |-> "c"]
OtherBytes == [f \in Files |-> f]

CONSTANTS i1, i2, x1, x2

(* jobs are drawn from a pool; threads are alike *)
Alike == Permutations(Jobs) \cup Permutations(Ingesters) \cup Permutations(Extractors)
AllAlike == Alike \cup Permutations(Files)
=============================================================================
