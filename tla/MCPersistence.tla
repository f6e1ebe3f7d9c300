---------------------------- MODULE MCPersistence ----------------------------
(* Two chunks of four voxels, one more than the longest run, one sector,    *)
(* and a grid of two by two sectors, each of two by two by two chunks.      *)
EXTENDS VoxelWorld

CONSTANTS k1, k2

MCChunkIds == {k1, k2}
MCCorner == [id \in MCChunkIds |-> IF id = k1 THEN 0 ELSE 1]
=============================================================================
