\* A page on one socket, one slot, one page view and one fault.
SPECIFICATION Spec
CONSTANTS
    s1 = s1
    NoSocket = NoSocket
    events = events
    Sockets <- MCSockets
    Channels <- MCChannels
    Limit = 1
    QueueSize = 2
    WireSize = 1
    MaxFaults = 1
    MaxEvents = 1
    MinInterval = 1
    ReconcileEvery = 1
    RetryInitial = 1
    RetryMax = 1
INVARIANTS
    LiveInvariant
    NoSilentStaleness
PROPERTIES
    Refreshed
