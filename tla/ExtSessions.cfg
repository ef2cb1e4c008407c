SPECIFICATION MCSpec
CONSTANTS
    MaxChat = 2
    MaxBind = 2
    MaxSession = 3
    MaxFault = 1
    MaxCrash = 1
    Kinds = {"claude", "codex"}
ACTION_CONSTRAINT Scenario
INVARIANTS NoOrphanSession WithdrawnMeansClosed KilledTurnNotResumed
PROPERTY LeaseChangesHandsWhenFree
CHECK_DEADLOCK FALSE
