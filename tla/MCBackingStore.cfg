CONSTANTS
  Procs = {p1, p2}
  PAGES = 3
  PAGE_SECTORS = 2
  Values = {0, 1}
  Segments <- TwoSegments
  FREE_BATCH = 2
  AllocFails = TRUE
  SharedOpen = FALSE
SPECIFICATION Spec
INVARIANTS ReadIsSnapshot
PROPERTIES WriteIsWhole SetupIsInvisible PagesStay FlushFreesAll
