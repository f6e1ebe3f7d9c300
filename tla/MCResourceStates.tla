--------------------------- MODULE MCResourceStates ---------------------------
(* An array of two or three barriers, filled by a resource of the game,    *)
(* the depth buffer and a back buffer.                                     *)
EXTENDS ResourceStates, TLC

CONSTANTS b1, r1, ds
=============================================================================
