SPECIFICATION FeedSpec
CONSTANTS
  a1 = a1
  a2 = a2
  EntityIds = {a1, a2}
  Positions = {0, 1}
  PACKET_HEADER_SIZE = 18
  SNAP_HEADER_SIZE = 16
  SNAP_ENTITY_SIZE = 40
  MAX_ENTITIES_PER_SNAP = 64
  MAX_PACKET_SIZE = 4096
  MAX_RECV_PER_FRAME = 2
  TICKS_PER_SNAPSHOT = 3
  MaxSnapshots = 2
  MaxInbox = 2
  MaxDeliveries = 3
INVARIANT NewestShown
CHECK_DEADLOCK FALSE
