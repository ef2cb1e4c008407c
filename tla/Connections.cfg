SPECIFICATION Spec
CONSTANTS
    Attempt = {a1, a2, a3}
    Environments <- DialOutOrIn
    MaxFailures = 2
    None = None
CHECK_DEADLOCK FALSE
ACTION_CONSTRAINT Scenario
SYMMETRY Symmetry
INVARIANTS NoOrphanedConnection StatusTellsTheTruth StaleOpenersTold CrashLoopBounded ShutdownComplete ManifestCurrent
