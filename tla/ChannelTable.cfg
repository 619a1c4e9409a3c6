CONSTANTS
  table_size = 4
  StartTimes = {0, 1, 2, 3}
  LockDurations = {1, 2}
  BLOCK_ERASE_DELAY = 1
  Horizon = 10
SPECIFICATION TableSpec
INVARIANTS TableTypeOK SlotsDisjoint
PROPERTIES KeepsReservations WaitsForLastGapOnly
CHECK_DEADLOCK FALSE
