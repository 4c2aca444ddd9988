\* Two windows that expire at different times, two results of two generations
\* for two pages, and one fault.
CONSTANTS
    Pages = {p1, p2}
    Windows = {0, 1}
    Length = 1
    Retention = 1
    MaxGeneration = 1
    MaxViews = 2
    MaxResults = 2
    MaxNow = 3
    MaxFaults = 1
SPECIFICATION FairSpec
INVARIANTS
    WindowInvariant
    Converged
    OneGeneration
PROPERTIES
    GenerationNeverBack
    CatchesUp
\* The topic ends.
