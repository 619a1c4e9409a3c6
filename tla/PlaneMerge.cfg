CONSTANTS
  SSD_BLOCK_SIZE = 4
  PLANE_SIZE = 2
  EndTimes = {0}
  MaxFreeBlocks = 3
SPECIFICATION MSpec
INVARIANTS MergeLoopsBounded
PROPERTIES MergeReturns ImplementsPlaneSpec
CHECK_DEADLOCK FALSE
