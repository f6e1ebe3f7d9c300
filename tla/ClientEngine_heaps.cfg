SPECIFICATION ClientSpec
CONSTANTS
  small = small
  large = large
  NoSize = NoSize
  Sizes = {small, large}
  BackBufferCount = 2
  MaxFence = 6
  MaxLosses = 0
INVARIANT HeapsSuffice
CHECK_DEADLOCK FALSE
