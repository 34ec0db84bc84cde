---------------------------- MODULE MCSqliteMutex ----------------------------
(* Three threads that nest twice.                                          *)
EXTENDS SqliteMutex
=============================================================================
