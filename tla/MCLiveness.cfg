CONSTANTS
  cpu1 = cpu1
  cpu2 = cpu2
  r1 = r1
  r2 = r2
  r3 = r3
  r4 = r4
  Cpu <- TwoCpus
  Requests <- TwoRequests
  BadRequests <- NoRequests
  Latencies = {0, 2}
  KmallocFails = FALSE
  Timeout = 2
  MaxTime = 2
SPECIFICATION FairSpec
PROPERTIES EveryRequestEnds DoRequestReturns
CHECK_DEADLOCK FALSE
