---------------------------- MODULE MCClientFrame ----------------------------
(* A counter of 30 a second, so that a frame is clamped at 3 counts, which  *)
(* are no whole number of ticks.                                            *)
EXTENDS ClientFrame
=============================================================================
