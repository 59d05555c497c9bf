SPECIFICATION Spec
CONSTANTS
    None = None
    Ok = Ok
    Handles = {h1}
    IsServer = FALSE
    LeaseTtl = 1
    EdgeWindow = 1
    Sessions = {1}
    MaxLeases = 1
    MaxTasks = 4
    MaxInFlight = 0
INVARIANT ForwardsOnlyUnderLease
CHECK_DEADLOCK FALSE
