SPECIFICATION PartsSpec
CONSTANTS
  a1 = a1
  a2 = a2
  EntityIds = {a1, a2}
  Positions = {0, 1}
  PACKET_HEADER_SIZE = 18
  SNAP_HEADER_SIZE = 16
  SNAP_ENTITY_SIZE = 40
  MAX_ENTITIES_PER_SNAP = 64
  MAX_PACKET_SIZE = 4096
  MAX_RECV_PER_FRAME = 2
  TICKS_PER_SNAPSHOT = 3
  MaxSnapshots = 2
  MaxInbox = 2
  MaxDeliveries = 3
  Keys = {"W", "R"}
  Frequency = 30
  TicksPerSecond = 25
  MIN_ZOOM = 0
  MAX_ZOOM = 2
  InitialZoom = 1
  Delays = {4}
  MaxTime = 4
  MaxFrames = 2
  MaxClicks = 2
  MaxWheel = 1
  small = small
  large = large
  NoSize = NoSize
  Sizes = {small, large}
  BackBufferCount = 2
  MaxFence = 6
  MaxLosses = 1
  b1 = b1
  r1 = r1
  ds = ds
  Targets = {b1}
  Others = {r1, ds}
  DepthStencil = ds
  States = {"PRESENT", "RENDER_TARGET", "DEPTH_WRITE", "UNORDERED_ACCESS"}
  PRESENT = "PRESENT"
  RENDER_TARGET = "RENDER_TARGET"
  DEPTH_WRITE = "DEPTH_WRITE"
  UNORDERED_ACCESS = "UNORDERED_ACCESS"
  NoState = "-1"
  NoTarget = NoTarget
  MAX_NUM_BARRIERS = 2
INVARIANTS
  ShowsOneSnapshot
  ClicksSentOnce
  ClockKeepsTime
  AllocatorIdleWhenReset
  NoWaitForEver
  OutputFollowsWindow
  NeverLeftSuspended
  RecordAgrees
  FramesLeaveNothing
PROPERTIES
  FittingIsApplied
  OrdersFollowKeys
  TargetsIdleWhenReleased
  WaitsEnd
CHECK_DEADLOCK FALSE
