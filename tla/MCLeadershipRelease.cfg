CONSTANTS
    Coordinators = {c1, c2}
    MaxSessions = 2
    MaxEpoch = 4
    MaxFaults = 2
SPECIFICATION Spec
PROPERTY
    ReleaseKeepsReplacement
CHECK_DEADLOCK FALSE
