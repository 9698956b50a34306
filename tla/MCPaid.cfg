\* Plans without a trial, two renewals, every lateness up to one moment.
CONSTANTS
    DurationBits = 4
    Plans <- PaidPlans
    MaxRenewals = 2
    MaxDelay = 1
    MaxUpdates = 2
    BuffersUpdates = FALSE
    Resends = FALSE
SPECIFICATION Spec
INVARIANTS
    OneSuccessfulChargePerInterval
    NeverChargedAhead
    DunningBackoffHonoured
    KeyIsFresh
    CountersAgree
    CallerLearnsTheOutcome
    PaidPeriodServed
    AttributesTellTheView
PROPERTIES
    CancelIsHeeded
    ContextNeverGoesBack
