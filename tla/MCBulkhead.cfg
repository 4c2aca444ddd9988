\* Three requests for two slots.
CONSTANTS
    Requests = {r1, r2, r3}
    Limit = 2
SPECIFICATION FairSpec
INVARIANTS
    SlotsAccounted
    StoreCallsBounded
    NeverQueues
PROPERTIES
    SlotsComeBack
\* Every request ends.
CHECK_DEADLOCK FALSE
