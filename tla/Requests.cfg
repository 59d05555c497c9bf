SPECIFICATION Spec
CONSTANTS
    None = None
    Hosts = {c, r}
    Server = c
    DisplayHosts = {c}
    Requests = {q1, q2}
    Leases = {a}
    RetainedRequests = 1
    COMMAND_MS = 1
    OBSERVATION_MS = 1
    GRANT_MS = 1
    WAKE_MS = 1
    LEASE_MS = 2
    SIGNAL_POLL_MS = 1
    PeerSessions = {1, 2}
    Modes = {"Fullscreen"}
    Signals <- SteadySignals
    MaxSwitchEpoch = 1
    MaxRequestEpoch = 2
SYMMETRY Interchangeable
CHECK_DEADLOCK FALSE
INVARIANTS TypeOK HistoryDistinct RetriesHarmless
PROPERTIES ImplementsRequestLife
