SPECIFICATION PersistenceSpec
CONSTANTS
  k1 = k1
  k2 = k2
  INVALID_CHUNK = INVALID_CHUNK
  ChunkIds <- MCChunkIds
  Corner <- MCCorner
  Origin = 0
  ChunkVolume = 2
  ByteBase = 2
  CHUNK_SIZE = 2
  SECTOR_SIZE_X = 4
  SECTOR_SIZE_Y = 4
  SECTOR_SIZE_Z = 4
  GridWidth = 2
  GridHeight = 2
  UINT8_VALUES = 8
  Types = {0, 1}
  Empty = 0
  Sectors = {"0,0"}
  NoSector = "NULL"
  VOXEL_EVENT_FLUSH_TICKS = 2
  CHUNK_FLUSH_TICKS = 3
  StatementsMayFail = FALSE
  MaxSteps = 2
  MaxEdits = 1
  MaxStarts = 2
PROPERTY SavedChunksComeBack
CHECK_DEADLOCK FALSE
