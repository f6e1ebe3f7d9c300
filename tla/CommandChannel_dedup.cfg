SPECIFICATION ChannelSpec
CONSTANTS
  c1 = c1
  c2 = c2
  p1 = p1
  p2 = p2
  NoPort = NoPort
  Clients <- MCClients
  Endpoints <- MCEndpoints
  SequenceNumbers <- MCSequenceNumbers
  SeqSpace = 3
  Payloads <- MCPayloads
  DEDUP_WINDOW = 2
  MAX_RECV_PER_TICK = 2
  CRC_LOG_INTERVAL = 1
  StartTime = 1
  MaxInbox = 1
  MaxDelivered = 4
  MaxTicks = 1
  MaxSessions = 2
  MaxSent = 2
PROPERTY UndamagedDroppedOnlyIfProcessed
CHECK_DEADLOCK FALSE
