SPECIFICATION SchedulerSpec
CONSTANTS
    MinInterval = 3
    ReconcileEvery = 5
    RetryInitial = 3
    RetryMax = 10
INVARIANTS
    SingleFlight
    NoRequestLost
PROPERTIES
    StartsSpaced
    ReadsContinue
    RequestIsRead
