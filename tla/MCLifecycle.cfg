CONSTANTS
  Requests = {r1, r2, r3}
  Channels = {ch0, ch1}
  PACKAGE_SIZE = 3
  BUS_MAX_CONNECT = 2
  Params <- SomeParams
  DISK_MAX_PARTS = 4
  MINORBITS = 3
  MaxOpeners = 2
SPECIFICATION Spec
INVARIANTS NothingFreedInUse LeavesNothing
