SPECIFICATION Spec
CONSTANTS
    MaxSession = 2
    MaxAttempt = 2
    MaxSend = 3
    MaxFault = 1
    MaxCrash = 2
    Reviews = {TRUE, FALSE}
    InOrder = TRUE
CHECK_DEADLOCK FALSE
INVARIANTS VendorRunsOnce NotSubmittedIsProof RestartIsHonest UnwatchedRunIsOnRecord BootLeavesNothingOpen
PROPERTIES StopSettles
