SPECIFICATION Spec
CONSTANTS
    o1 = o1
    o2 = o2
    w1 = w1
    w2 = w2
    Offer <- TwoOffers
    Worker <- TwoWorkers
    Scenarios <- Overlapping
INVARIANT HoldsMatch
CHECK_DEADLOCK FALSE
