SPECIFICATION PartSpec
CONSTANTS
    None = None
    Server = server
    Peers = {p1}
    Slots = {1, 2}
    EVENTS = 2
    Restarting = {server, p1}
    MaxFaults = 1
    MaxSilent = 1
    MaxMessages = 1
INVARIANTS
    OneConnection
    RuntimeCurrent

    
CHECK_DEADLOCK FALSE
