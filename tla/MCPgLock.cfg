SPECIFICATION Spec
CONSTANTS
  c1 = c1
  c2 = c2
  c3 = c3
  s1 = s1
  s2 = s2
  s3 = s3
  s4 = s4
  s5 = s5
  Callers <- ThreeCallers
  Lockers <- TwoLockers
  Pools <- TwoPools
  Sessions <- TwoSessions
  None = None
  LockerOf <- TwoLockerOf
  PoolOf <- TwoPoolOf
  Home <- TwoHome
  MaxOpen <- TwoMaxOpen
  Timeout <- TwoTimeout
  MayCancel = TRUE
  MayTerminate = TRUE
  MayCrash = TRUE
SYMMETRY TwoSymmetry
INVARIANTS PooledSessionsClean InsideHoldsLock LockerRemembersHolder NoStrandedLock
PROPERTIES ImplementsMutex
