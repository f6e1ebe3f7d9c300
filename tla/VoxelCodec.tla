------------------------------ MODULE VoxelCodec ------------------------------
(***************************************************************************)
(* VoxelSystem's run-length code of a chunk: (count: two bytes, type: one  *)
(* byte) for each run of equal voxels, in the order of the array.  A byte  *)
(* has ByteBase values, a count therefore at most MaxRun.                  *)
(***************************************************************************)
EXTENDS Integers, Sequences

CONSTANTS
  ChunkVolume,  \* CHUNK_VOLUME, 32768 in the code
  ByteBase,     \* 256 in the code
  Types         \* voxel types

Bytes == 0 .. ByteBase - 1
Cells == 1 .. ChunkVolume
MaxRun == ByteBase * ByteBase - 1

ASSUME CodecAssumption ==
  /\ ChunkVolume \in Nat \ {0} /\ ByteBase \in Nat \ {0, 1}
  /\ Types \subseteq Bytes

-----------------------------------------------------------------------------
(* flushRun                                                                *)
WithRun(s) ==
  s.out \o <<s.count % ByteBase, (s.count \div ByteBase) % ByteBase, s.type>>

(* What serializeChunk returns when the last voxel is behind it.           *)
LastRunOut(s) == WithRun(s)

(* Mutant: a run is as long as it likes.                                   *)
GoesOn_Unlimited(s, v) == v = s.type

(* Does the voxel belong to the run in progress?                           *)
GoesOn(s, v) == v = s.type /\ s.count < MaxRun

SerializeChunk(voxels) ==
  LET scan[i \in Cells] ==
        IF i = 1 THEN [out |-> <<>>, type |-> voxels[1], count |-> 1]
        ELSE IF GoesOn(scan[i - 1], voxels[i])
        THEN [scan[i - 1] EXCEPT !.count = @ + 1]
        ELSE [out |-> WithRun(scan[i - 1]), type |-> voxels[i], count |-> 1]
  IN  LastRunOut(scan[ChunkVolume])

(* One run read into a chunk of which the first s.filled voxels are done:  *)
(* what it has too much is ignored, as is all data after a full chunk.     *)
ReadRun(s, count, type) ==
  IF ~s.ok \/ s.filled = ChunkVolume THEN s
  ELSE IF count = 0 THEN [s EXCEPT !.ok = FALSE]
  ELSE LET end == IF s.filled + count < ChunkVolume THEN s.filled + count ELSE ChunkVolume
       IN  [ok |-> TRUE, filled |-> end,
            voxels |-> [i \in Cells |-> IF s.filled < i /\ i <= end THEN type ELSE s.voxels[i]]]

(* deserializeChunk into a chunk that holds something: its verdict, and    *)
(* what the chunk holds then, which data found bad has partly overwritten. *)
DeserializeChunk(data, before) ==
  LET read[k \in 0 .. Len(data) \div 3] ==
        IF k = 0 THEN [ok |-> TRUE, filled |-> 0, voxels |-> before]
        ELSE ReadRun(read[k - 1], data[3 * k - 2] + ByteBase * data[3 * k - 1], data[3 * k])
      end == read[Len(data) \div 3]
  IN  [ok |-> end.ok /\ end.filled = ChunkVolume, voxels |-> end.voxels]

-----------------------------------------------------------------------------
(* The bytes of a chunk are decoded to that chunk, whatever the chunk they *)
(* are read into held; and a piece cut from their start, which is what a   *)
(* column too short would keep, is refused (VoxelSystem.cpp:116-183).      *)
RoundTrip ==
  \A voxels, before \in [Cells -> Types] :
    LET bytes == SerializeChunk(voxels)
    IN  /\ DeserializeChunk(bytes, before) = [ok |-> TRUE, voxels |-> voxels]
        /\ \A n \in 0 .. Len(bytes) - 1 : ~DeserializeChunk(SubSeq(bytes, 1, n), before).ok
=============================================================================
