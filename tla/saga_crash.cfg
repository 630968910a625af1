SPECIFICATION Spec
CONSTANTS
    Shares = 2
    MaxRuns = 2
    MaxTries = 2
    Scenarios <- OneCrash
INVARIANT RecoveryPaysOnce
CHECK_DEADLOCK FALSE
