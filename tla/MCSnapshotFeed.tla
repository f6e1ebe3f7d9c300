--------------------------- MODULE MCSnapshotFeed ---------------------------
(* Two entities and two places, with the sizes of the code.  The limit of  *)
(* a packet is the code's 1400, which refuses every snapshot, or one that  *)
(* lets their 2594 bytes through, to see what follows then.                *)
EXTENDS SnapshotFeed, TLC

CONSTANTS a1, a2

=============================================================================
