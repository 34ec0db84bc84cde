---------------------------- MODULE MCGxxSupport ----------------------------
(* Threads that nest twice and share one control variable.                 *)
EXTENDS GxxSupport
=============================================================================
