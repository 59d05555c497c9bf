SPECIFICATION PartSpec
CONSTANTS
  None = None
  Ok = Ok
  Handles = {h1}
  IsServer = TRUE
  LeaseTtl = 1
  EdgeWindow = 1
  Sessions = {1}
  MaxLeases = 1
  MaxTasks = 2
  MaxInFlight = 1
  Parts = {"hub", "switch", "handover"}
  Server = c
  Target = r
  LEASE_TTL = 2
  GRANT_TTL = 1
  REQUEST_TIMEOUT = 2
  p1 = p1
  k1 = k1
  n1 = n1
  i1 = i1
  e1 = e1
  c1 = c1
  c2 = c2
INVARIANTS
  LeaseHasTimer CleanupNotLost WithinPromise 
PROPERTIES
  ActivationIsLicensed
CHECK_DEADLOCK FALSE
