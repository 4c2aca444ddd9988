\* Two consumers, two workers, two events of one partition and one fault.
SPECIFICATION Spec
CONSTANTS
    c1 = c1
    c2 = c2
    w1 = w1
    w2 = w2
    p1 = p1
    Nobody = Nobody
    Consumers <- MCConsumers
    Workers <- MCWorkers
    Partitions <- MCPartitions
    CommitEvery = 2
    MaxOffset = 2
    MaxFaults = 1
    Prefetch = 2
INVARIANTS
    PipelineInvariant
    CommittedIsApplied
    ReportCoversReplay
    LastPageStands
PROPERTIES
    KeepsPromise
\* The log ends.
CHECK_DEADLOCK FALSE
