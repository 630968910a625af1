SPECIFICATION CrossSpec
CONSTANTS
    Us = 1
    Them = 2
    Money0 <- CrossMoney
    Shares0 <- CrossShares
    LastDay = 3
    CrossScenarios <- OneAccept
INVARIANT SharesHeldUntilExercise
CHECK_DEADLOCK FALSE
