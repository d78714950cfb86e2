------------------------------ MODULE MCWatch ------------------------------
(* Instances of Watch for TLC.                                             *)
EXTENDS Watch, TLC
Symmetry == Permutations(Req)
=============================================================================
