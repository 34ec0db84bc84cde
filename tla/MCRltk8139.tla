----------------------------- MODULE MCRltk8139 -----------------------------
(* Two descriptors and two packets: both rings run full and wrap around.   *)
EXTENDS Rltk8139
=============================================================================
