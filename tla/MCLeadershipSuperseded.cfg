CONSTANTS
    Coordinators = {c1, c2}
    MaxSessions = 2
    MaxEpoch = 4
    MaxFaults = 2
SPECIFICATION Spec
INVARIANT
    SupersededOwnsNoMarker
CHECK_DEADLOCK FALSE
