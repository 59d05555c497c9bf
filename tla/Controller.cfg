SPECIFICATION PromptSpec
CONSTANTS
    None = None
    Hosts = {c, l}
    Server = c
    DisplayHosts = {c, l}
    Requests = {q1}
    Leases = {a}
    RetainedRequests = 1
    COMMAND_MS = 1
    OBSERVATION_MS = 1
    GRANT_MS = 1
    WAKE_MS = 1
    LEASE_MS = 1
    SIGNAL_POLL_MS = 1
    PeerSession = 1
    ORDINARY = 1
    SAFETY = 2
    MaxEpoch = 12
    Budgets <- MCBudgets
INVARIANTS
    CommandsAccounted
    
PROPERTIES
    ImplementsProtocol
    Settles
CHECK_DEADLOCK FALSE
