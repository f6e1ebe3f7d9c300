SPECIFICATION ServerSpec
CONSTANTS
  NoCommand = NoCommand
  Endpoints = {1, 2, 3}
  CmdInputs <- MCCmdInputs
  EntityIdSpace = 6
  PlayerIdSpace = 3
  EntityTypes <- MCEntityTypes
  Prototypes <- MCPrototypes
  MaxLive = 4
  MaxSlots = 4
  MaxTick = 2
  NumAsteroids = 1
  SHIP_MOVE_SPEED = 1
  SHIP_STOP_DISTANCE = 1
  TICKS_PER_SNAPSHOT = 2
  MAX_ENTITIES_PER_SNAP = 2
  MaxPackets = 1
INVARIANT PlayersHaveShips
CHECK_DEADLOCK FALSE
