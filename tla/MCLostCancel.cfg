\* A cancel accepted around the end of a period.
CONSTANTS
    DurationBits = 4
    Plans <- PaidPlans
    MaxRenewals = 1
    MaxDelay = 1
    MaxUpdates = 0
    BuffersUpdates = FALSE
    Resends = FALSE
SPECIFICATION Spec
PROPERTIES
    AcceptedCancelIsHonoured
