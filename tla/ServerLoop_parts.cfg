SPECIFICATION PartsSpec
CONSTANTS
  NoCommand = NoCommand
  Endpoints = {1, 2, 3, 4}
  CmdInputs <- MCCmdInputs
  EntityIdSpace = 6
  PlayerIdSpace = 3
  EntityTypes <- MCEntityTypes
  Prototypes <- MCPrototypes
  MaxLive = 4
  MaxSlots = 4
  MaxTick = 3
  NumAsteroids = 1
  SHIP_MOVE_SPEED = 1
  SHIP_STOP_DISTANCE = 1
  TICKS_PER_SNAPSHOT = 2
  MAX_ENTITIES_PER_SNAP = 2
  MaxPackets = 2
  d1 = d1
  d2 = d2
  d3 = d3
  t1 = t1
  t2 = t2
  t3 = t3
  Connections = {d1, d2, d3}
  Threads = {t1, t2, t3}
  Nobody = Nobody
  NoConnection = NoConnection
  PoolSize = 3
  DisconnectsInUse = FALSE
INVARIANTS
  PlayersDistinct
  ShipsHaveOwners
  StopsBetweenTicks
  ConnectionsConserved
PROPERTIES
  SnapshotComplete
  ShutdownCompletes
  ClientsAreServed
  ShipsObeyOwners
  LastOrderStands
  ImplementsPool
  BrokenOnesPass
ACTION_CONSTRAINT HeardInOrder
CHECK_DEADLOCK FALSE
