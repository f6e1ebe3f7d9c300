SPECIFICATION PartsSpec
CONSTANTS
  EntityIdSpace = 6
  PlayerIdSpace = 4
  EntityTypes <- MCEntityTypes
  Prototypes <- MCPrototypes
  MaxLive = 3
  MaxSlots = 5
  MaxTick = 2
  c1 = c1
  c2 = c2
  p1 = p1
  p2 = p2
  NoPort = NoPort
  Clients <- MCClients
  Endpoints <- MCEndpoints
  SequenceNumbers <- MCSequenceNumbers
  SeqSpace = 3
  Payloads <- MCPayloads
  DEDUP_WINDOW = 2
  MAX_RECV_PER_TICK = 2
  CRC_LOG_INTERVAL = 1
  StartTime = 1
  MaxInbox = 1
  MaxDelivered = 4
  MaxTicks = 1
  MaxSessions = 2
  MaxSent = 2
  k1 = k1
  k2 = k2
  INVALID_CHUNK = INVALID_CHUNK
  ChunkIds <- MCChunkIds
  Corner <- MCCorner
  Origin = 0
  ChunkVolume = 4
  ByteBase = 2
  CHUNK_SIZE = 2
  SECTOR_SIZE_X = 4
  SECTOR_SIZE_Y = 4
  SECTOR_SIZE_Z = 4
  GridWidth = 2
  GridHeight = 2
  UINT8_VALUES = 8
  Types = {0, 1}
  Empty = 0
  Sectors = {"0,0"}
  NoSector = "NULL"
  VOXEL_EVENT_FLUSH_TICKS = 1
  CHUNK_FLUSH_TICKS = 2
  StatementsMayFail = TRUE
  MaxSteps = 2
  MaxEdits = 2
  MaxStarts = 2
INVARIANTS
  LookupExact
  IdsPartitioned
  NoIdExhaustion
  NoRepeatInWindow
  TickIntakeBounded
  CommandsAtMostOnce
  CleanIsSaved
  DeltasConserved
  CodeExact
  PlacesExact
PROPERTIES
  SlotsNeverChangeHands
  ImplementsWorld
  OnlyProcessedDropped
  StopSavesAll
SYMMETRY Symmetry
CHECK_DEADLOCK FALSE
