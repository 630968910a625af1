SPECIFICATION FairSpec
CONSTANTS
    Shares = 2
    MaxRuns = 3
    MaxTries = 2
    Scenarios <- Ordinary
INVARIANT TypeOK
INVARIANT PaidOnce
INVARIANT Settled
INVARIANT ExercisedIsSettled
INVARIANT GoodsArePaid
PROPERTY ExerciseAnswered
CHECK_DEADLOCK FALSE
