--------------------------- MODULE MCBootstrapLink ---------------------------
(* Instance of BootstrapLink for TLC: a bootstrap that may restart twice, a *)
(* beacon that changes once, two connections at most.                       *)
EXTENDS BootstrapLink
=============================================================================
