\* Two coordinators' keepers, one deposed by the other, and one fault.
CONSTANTS
    Keepers = {k1, k2}
    NoId = NoId
    MaxGeneration = 2
    MaxEpoch = 2
    MaxFaults = 1
SPECIFICATION FairSpec
INVARIANTS
    RecordInvariant
PROPERTIES
    OnlySupersededCancelled
    NoNeedlessGeneration
    FenceSpec
    KeepsAJob
\* The last generation may end.
CHECK_DEADLOCK FALSE
