SPECIFICATION Spec
CONSTANTS
  c1 = c1
  c2 = c2
  c3 = c3
  s1 = s1
  s2 = s2
  s3 = s3
  s4 = s4
  s5 = s5
  Callers <- ThreeCallers
  Lockers <- OneLockers
  Pools <- TwoPools
  Sessions <- OneSessions
  None = None
  LockerOf <- OneLockerOf
  PoolOf <- OnePoolOf
  Home <- OneHome
  MaxOpen <- RoomyMaxOpen
  Timeout <- ForeverAndBounded
  MayCancel = FALSE
  MayTerminate = TRUE
  MayCrash = FALSE
PROPERTIES CallsReturn TimeoutBoundsWait
