\* Two coordinators, up to three sessions each, and two faults: a session lost
\* and a crash, or a session lost twice, with a late write between.
CONSTANTS
    Coordinators = {c1, c2}
    MaxSessions = 3
    MaxEpoch = 4
    MaxFaults = 2
SPECIFICATION FairSpec
INVARIANTS
    UniqueTokens
    MarkerOfTheTenure
    WorkInTheSameSession
PROPERTIES
    FenceSpec
    LeadershipSettles
\* Every process may die.
CHECK_DEADLOCK FALSE
