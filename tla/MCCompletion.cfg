CONSTANTS
  cpu1 = cpu1
  cpu2 = cpu2
  r1 = r1
  r2 = r2
  r3 = r3
  r4 = r4
  Cpu <- TwoCpus
  Requests <- FourRequests
  BadRequests <- OneBad
  Latencies = {0, 2}
  KmallocFails = TRUE
  Timeout = 2
  MaxTime = 3
SYMMETRY Symmetry
SPECIFICATION Spec
INVARIANTS TypeOK OneOwner NeverEarly EndsUnderLock
PROPERTIES TakesAllDue
CHECK_DEADLOCK FALSE
