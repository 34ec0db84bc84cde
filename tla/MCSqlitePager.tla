---------------------------- MODULE MCSqlitePager ----------------------------
(* Two connections that are interchangeable.                                *)
EXTENDS SqlitePager

Symmetry == Permutations(Conns)
=============================================================================
