SPECIFICATION Spec
CONSTANTS
  Processes = {p1, p2, p3}
  Slugs <- MCSlugs
  MaxClock = 2
  Failures = {}
  MayCrash = FALSE
SYMMETRY Symmetry
INVARIANTS SecondsApartNeverCollide
CHECK_DEADLOCK FALSE
