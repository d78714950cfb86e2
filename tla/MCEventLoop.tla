---------------------------- MODULE MCEventLoop ----------------------------
(* Model-checking instances of EventLoop.  The requests are symmetric: no  *)
(* definition orders or names them.                                        *)
EXTENDS EventLoop, TLC

Symmetry == Permutations(Req)
=============================================================================
