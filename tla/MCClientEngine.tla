---------------------------- MODULE MCClientEngine ----------------------------
(* Two sizes of the window and the double buffering of the code.           *)
EXTENDS ClientEngine

CONSTANTS small, large

=============================================================================
