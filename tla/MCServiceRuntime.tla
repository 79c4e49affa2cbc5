--------------------------- MODULE MCServiceRuntime ---------------------------
(***************************************************************************)
(* Instances of ServiceRuntime for TLC. One slot stands for the code's      *)
(* three: two images already compete for it.                                *)
(***************************************************************************)
EXTENDS ServiceRuntime

CONSTANT q1
=============================================================================
