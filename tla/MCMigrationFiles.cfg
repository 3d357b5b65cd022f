SPECIFICATION Spec
CONSTANTS
  Processes = {p1, p2, p3}
  Slugs <- MCSlugs
  MaxClock = 1
  Failures = {"read", "create", "write", "remove"}
  MayCrash = TRUE
SYMMETRY Symmetry
INVARIANTS ReportedPairStays LaterSortsLater FailureLeavesNoHalf
PROPERTIES NewNeverClobbers
CHECK_DEADLOCK FALSE
