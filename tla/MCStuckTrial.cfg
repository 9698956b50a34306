\* A trial as it is deployed: the early Activate is rejected and nobody sends another.
CONSTANTS
    DurationBits = 4
    Plans <- TrialPlans
    MaxRenewals = 1
    MaxDelay = 1
    MaxUpdates = 0
    BuffersUpdates = FALSE
    Resends = FALSE
SPECIFICATION FairSpec
PROPERTIES
    TrialEnds
