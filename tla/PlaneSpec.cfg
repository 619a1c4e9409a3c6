CONSTANTS
  SSD_BLOCK_SIZE = 4
  PLANE_SIZE = 2
  EndTimes = {1}
  MaxFreeBlocks = 4
SPECIFICATION Spec
INVARIANTS TypeOK BlockAccounting FreeSpaceKnown NoBlockRetires
PROPERTIES NoInPlaceUpdate MergeSuccessKeepsPages
CHECK_DEADLOCK FALSE
