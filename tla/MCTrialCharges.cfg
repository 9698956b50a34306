\* A trial that is activated at its end.
CONSTANTS
    DurationBits = 4
    Plans <- TrialPlans
    MaxRenewals = 1
    MaxDelay = 1
    MaxUpdates = 0
    BuffersUpdates = FALSE
    Resends = TRUE
SPECIFICATION Spec
INVARIANTS
    NeverChargedAhead
