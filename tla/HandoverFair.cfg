SPECIFICATION EitherFair
CONSTANTS
  None = None
  p1 = p1
  k1 = k1
  Peers = {p1}
  Keys = {}
  MaxSessions = 1
  MaxReleases = 1
  MaxInFlight = 0
  Lossy = TRUE
  Reorders = TRUE
  Failing = FALSE
PROPERTY LetsGo
CHECK_DEADLOCK FALSE
