------------------------------ MODULE MCEThread ------------------------------
(* Small instances of EThread.                                             *)
EXTENDS EThread
=============================================================================
