\* Every plan, against the phase diagram, under the fairness Temporal gives and
\* an integrator that answers. Activate may be sent again, and need not be.
CONSTANTS
    DurationBits = 4
    Plans <- AllPlans
    MaxRenewals = 1
    MaxDelay = 1
    MaxUpdates = 1
    BuffersUpdates = FALSE
    Resends = TRUE
SPECIFICATION FairSpec
INVARIANTS
    TypeOK
    Inv
    TrialIsFree
PROPERTIES
    ImplementsLifecycle
    CollectsInTurn
    AsTheApiTakesIt
    TrialCancelIsFree
    HandledCancelEnds
    DunningEnds
    EveryPeriodEnds
