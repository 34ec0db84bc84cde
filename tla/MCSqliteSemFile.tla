--------------------------- MODULE MCSqliteSemFile ---------------------------
(* Two connections and the paths /a/b and /a_b, which give one semaphore   *)
(* name.                                                                   *)
EXTENDS SqliteSemFile

MCSemOf == [f \in Files |-> "_a_b.sem"]
=============================================================================
