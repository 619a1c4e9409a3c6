CONSTANTS
  Contexts = {cpu1, cpu2}
  Channels = {ch1, ch2}
  Durations = {1, 2}
  FailDelay = 1
  MaxTime = 3
  MaxReservations = 2
SPECIFICATION Spec
INVARIANTS TypeOK NoOverlap BackToBack DeadlineIsLastRelease
