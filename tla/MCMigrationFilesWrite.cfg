SPECIFICATION Spec
CONSTANTS
  Processes = {p1, p2, p3}
  Slugs <- MCSlugs
  MaxClock = 1
  Failures = {"write"}
  MayCrash = FALSE
SYMMETRY Symmetry
INVARIANTS FailureLeavesNoFile
CHECK_DEADLOCK FALSE
