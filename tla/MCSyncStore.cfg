CONSTANTS
  Procs = {p1, p2}
  PAGES = 2
  PAGE_SECTORS = 2
  Values = {0, 1, 2}
  Bios <- SomeBios
  SharedOpen = FALSE
SPECIFICATION Spec
INVARIANT PagesAccounted
PROPERTIES ImplementsSectorStore StopsOnlyInWindow
CHECK_DEADLOCK FALSE
