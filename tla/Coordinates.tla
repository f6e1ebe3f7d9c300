----------------------------- MODULE Coordinates -----------------------------
(***************************************************************************)
(* Where things are: the grid of sectors, the chunks in a sector and the   *)
(* voxels in a chunk, by SectorManager and Sector on the one hand and by   *)
(* VoxelSystem on the other, which name the same chunk by themselves.      *)
(***************************************************************************)
EXTENDS Integers, Sequences

CONSTANTS
  CHUNK_SIZE,                                  \* 32 in the code
  SECTOR_SIZE_X, SECTOR_SIZE_Y, SECTOR_SIZE_Z, \* 512, 512, 256
  GridWidth, GridHeight,                       \* 4, 4
  UINT8_VALUES                                 \* 256

(* A sector has so many chunks on an axis as a byte can count.             *)
ASSUME CoordinatesAssumption ==
  /\ {CHUNK_SIZE, SECTOR_SIZE_X, SECTOR_SIZE_Y, SECTOR_SIZE_Z, GridWidth, GridHeight,
       UINT8_VALUES} \subseteq Nat \ {0}
  /\ \A size \in {SECTOR_SIZE_X, SECTOR_SIZE_Y, SECTOR_SIZE_Z} : size % CHUNK_SIZE = 0
  /\ GridWidth <= UINT8_VALUES /\ GridHeight <= UINT8_VALUES
  /\ GridWidth * (SECTOR_SIZE_X \div CHUNK_SIZE) <= UINT8_VALUES
  /\ GridHeight * (SECTOR_SIZE_Y \div CHUNK_SIZE) <= UINT8_VALUES
  /\ SECTOR_SIZE_Z \div CHUNK_SIZE <= UINT8_VALUES

(* Division of C++, which rounds toward zero, and the cast to uint8_t.     *)
Quotient(v, n) == IF v >= 0 THEN v \div n ELSE -((-v) \div n)
UInt8(v) == v % UINT8_VALUES

(* makeChunkID: sector x is shifted by five bytes, sector y by three.      *)
MakeChunkID(sx, sy, cx, cy, cz) ==
  UINT8_VALUES * UINT8_VALUES * UINT8_VALUES
    * (UINT8_VALUES * UINT8_VALUES * UInt8(sx) + UInt8(sy))
  + UINT8_VALUES * UINT8_VALUES * UInt8(cx) + UINT8_VALUES * UInt8(cy) + UInt8(cz)

-----------------------------------------------------------------------------
(* SectorManager::init and getSector: row after row, found by index.       *)
Grid == [k \in 1 .. GridWidth * GridHeight |->
              [x |-> (k - 1) % GridWidth, y |-> (k - 1) \div GridWidth]]

GetSector(x, y) == Grid[y * GridWidth + x + 1]

MinBound(s) == [x |-> s.x * SECTOR_SIZE_X, y |-> s.y * SECTOR_SIZE_Y, z |-> 0]

MaxBound(s) == [x |-> s.x * SECTOR_SIZE_X + SECTOR_SIZE_X,
                y |-> s.y * SECTOR_SIZE_Y + SECTOR_SIZE_Y, z |-> SECTOR_SIZE_Z]

(* Mutant: the upper corner belongs to the sector.                         *)
IsInBounds_Inclusive(s, p) ==
  \A axis \in {"x", "y", "z"} : MinBound(s)[axis] <= p[axis] /\ p[axis] <= MaxBound(s)[axis]

IsInBounds(s, p) ==
  \A axis \in {"x", "y", "z"} : MinBound(s)[axis] <= p[axis] /\ p[axis] < MaxBound(s)[axis]

(* findSectorForUniversePos: the indices of the sectors it may return,     *)
(* of which it takes the first; none stands for nullptr.                   *)
SectorsAt(p) == {k \in DOMAIN Grid : IsInBounds(Grid[k], p)}

(* Sector::universePosToChunkID                                            *)
SectorChunkID(s, p) ==
  MakeChunkID(s.x, s.y,
              Quotient(p.x - MinBound(s).x, CHUNK_SIZE),
              Quotient(p.y - MinBound(s).y, CHUNK_SIZE),
              Quotient(p.z - MinBound(s).z, CHUNK_SIZE))

(* VoxelSystem::universePosToChunkID, told the sector by its caller        *)
VoxelChunkID(s, p) ==
  MakeChunkID(s.x, s.y, Quotient(p.x, CHUNK_SIZE), Quotient(p.y, CHUNK_SIZE),
              Quotient(p.z, CHUNK_SIZE))

(* VoxelSystem::universePosToLocalPos, with C++'s remainder                *)
Remainder(v, n) == v - n * Quotient(v, n)
LocalAxis(v) == Remainder(Remainder(v, CHUNK_SIZE) + CHUNK_SIZE, CHUNK_SIZE)
LocalPos(p) == [axis \in {"x", "y", "z"} |-> LocalAxis(p[axis])]

-----------------------------------------------------------------------------
Universe == [x: 0 .. GridWidth * SECTOR_SIZE_X - 1,
             y: 0 .. GridHeight * SECTOR_SIZE_Y - 1, z: 0 .. SECTOR_SIZE_Z - 1]

(* The universe and one position beyond it on each side                    *)
Around == [x: -1 .. GridWidth * SECTOR_SIZE_X, y: -1 .. GridHeight * SECTOR_SIZE_Y,
           z: -1 .. SECTOR_SIZE_Z]

SectorOf(p) == Grid[CHOOSE k \in SectorsAt(p) : TRUE]

(* A position in the universe is in one sector, the one getSector returns  *)
(* for its place in the grid, and one outside in none (Sector.cpp:28-88).  *)
OneSectorEach ==
  \A p \in Around :
    IF p \in Universe
    THEN /\ \E k \in DOMAIN Grid : SectorsAt(p) = {k}
         /\ SectorOf(p) = GetSector(p.x \div SECTOR_SIZE_X, p.y \div SECTOR_SIZE_Y)
    ELSE SectorsAt(p) = {}

(* With each of the two chunk names, chunk and local position together     *)
(* tell every position in the universe from every other                    *)
(* (VoxelSystem.cpp:10-27, Sector.cpp:37-46).                              *)
PlacesDistinct ==
  \A p, q \in Universe :
    LocalPos(p) = LocalPos(q) /\ p # q =>
      /\ SectorChunkID(SectorOf(p), p) # SectorChunkID(SectorOf(q), q)
      /\ VoxelChunkID(SectorOf(p), p) # VoxelChunkID(SectorOf(q), q)

CoordinatesExact == OneSectorEach /\ PlacesDistinct
=============================================================================
