------------------------------ MODULE VoxelWorld ------------------------------
(* The voxels of the server: what becomes of chunks and events, how a chunk *)
(* is coded and where it lies.  Code and places are the same in all states; *)
(* the one before the first start is enough to evaluate them in.            *)
EXTENDS Persistence, Coordinates

(* The bytes of each chunk, with the runs that are too long for a count     *)
(* among them, are decoded to it, and pieces of them are refused            *)
(* (VoxelSystem.cpp:116-183).                                               *)
CodeExact == starts = 0 => RoundTrip

(* One sector for each position, and for each place a name of its own,      *)
(* whichever of the two ways its chunk is named (Sector.cpp:28-88,          *)
(* VoxelSystem.cpp:10-27).                                                  *)
PlacesExact == starts = 0 => CoordinatesExact
=============================================================================
