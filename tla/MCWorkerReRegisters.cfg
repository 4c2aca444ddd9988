SPECIFICATION Spec
CONSTANTS
    MaxSessions = 3
    MaxFaults = 2
    MaxVersion = 2
PROPERTY
    ReRegisters
CHECK_DEADLOCK FALSE
