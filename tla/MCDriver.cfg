CONSTANTS
  CPUs = {c1, c2}
  Requests <- SomeRequests
  SSD_PAGE_SECS = 2
  FLASHPGS_PER_BLOCK = 2
  SSD_SIZE = 2
  PACKAGE_SIZE = 1
  DIE_SIZE = 1
  PLANE_SIZE = 2
  SSD_BLOCK_SIZE = 2
  BANK_GROUP = 2
  BUS_DELAY = 1
  PAGE_READ_DELAY = 0
  PAGE_WRITE_DELAY = 0
  BLOCK_ERASE_DELAY = 0
  StartTimes = {1}
  MaxErases = 3
  Horizon = 4
SPECIFICATION Spec
INVARIANTS DeviceTypeOK WithinDevice AnswerIsLastRelease
PROPERTIES ImplementsRawFlash FailureChangesNothing ImplementsRangeFlash
CHECK_DEADLOCK FALSE
