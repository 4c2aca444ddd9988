\* Three connections for two slots, of which one stops reading.
SPECIFICATION Spec
CONSTANTS
    s1 = s1
    s2 = s2
    s3 = s3
    Sockets <- MCSockets
    Attentive <- MCAttentive
    Limit = 2
    QueueSize = 1
    WireSize = 1
    MaxTexts = 2
INVARIANTS
    HubInvariant
    NoSilentLoss
PROPERTIES
    AttentiveIsTold
    SlotComesBack
\* Every connection ends.
CHECK_DEADLOCK FALSE
