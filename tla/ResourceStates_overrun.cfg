SPECIFICATION StatesSpec
CONSTANTS
  b1 = b1
  r1 = r1
  ds = ds
  Targets = {b1}
  Others = {r1, ds}
  DepthStencil = ds
  States = {"PRESENT", "RENDER_TARGET", "DEPTH_WRITE", "UNORDERED_ACCESS"}
  PRESENT = "PRESENT"
  RENDER_TARGET = "RENDER_TARGET"
  DEPTH_WRITE = "DEPTH_WRITE"
  UNORDERED_ACCESS = "UNORDERED_ACCESS"
  NoState = "-1"
  NoTarget = NoTarget
  MAX_NUM_BARRIERS = 3
INVARIANTS
  BatchFits
