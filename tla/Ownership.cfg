SPECIFICATION Spec
CONSTANTS
    None = None
    Hosts = {c, l}
    Server = c
    DisplayHosts = {c, l}
    Requests = {q1}
    Leases = {a}
    RetainedRequests = 1
    COMMAND_MS = 1
    OBSERVATION_MS = 1
    GRANT_MS = 1
    WAKE_MS = 1
    LEASE_MS = 1
    SIGNAL_POLL_MS = 1
    PeerSessions = {1}
    Modes = {"Fullscreen"}
    Signals <- LossySignals
    MaxSwitchEpoch = 2
    MaxRequestEpoch = 1
CHECK_DEADLOCK FALSE
INVARIANTS PhaseCoherent RemoteInputJustified GrantIsForNewestCommand NoAbandonedPhase SafetyAccepted TickSettlesElsewhere
PROPERTY FailedSwitchRestores
