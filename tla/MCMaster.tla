------------------------------ MODULE MCMaster ------------------------------
(* Model-checking instances of Master.  Worker processes are symmetric.    *)
EXTENDS Master, TLC

Symmetry == Permutations(Pids)
=============================================================================
