----------------------------- MODULE MCResponse -----------------------------
(* Model-checking instances of Response.                                   *)
EXTENDS Response
=============================================================================
