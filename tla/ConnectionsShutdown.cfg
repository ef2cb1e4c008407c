SPECIFICATION FairSpec
CONSTANTS
    Attempt = {a1, a2}
    Environments <- OneDialsIn
    MaxFailures = 2
    None = None
CHECK_DEADLOCK FALSE
PROPERTIES ShutdownEnds
