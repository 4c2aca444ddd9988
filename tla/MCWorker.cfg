\* Two dropped connections, each of which may cost the session, and three
\* values published, valid or not.
SPECIFICATION Spec
CONSTANTS
    MaxSessions = 3
    MaxFaults = 2
    MaxVersion = 3
INVARIANTS
    WorkerInvariant
    ReportIsProof
PROPERTIES
    RegistersWhileItRuns
    ReportsApplied
\* The worker may be interrupted.
CHECK_DEADLOCK FALSE
