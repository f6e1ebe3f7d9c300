SPECIFICATION FrameSpec
CONSTANTS
  Keys = {"W"}
  Frequency = 30
  TicksPerSecond = 20
  MIN_ZOOM = 0
  MAX_ZOOM = 2
  InitialZoom = 1
  Delays = {1}
  MaxTime = 1
  MaxFrames = 1
  MaxClicks = 0
  MaxWheel = 1
PROPERTY WheelZooms
CHECK_DEADLOCK FALSE
