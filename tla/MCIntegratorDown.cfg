\* Renewals when the integrator does not answer.
CONSTANTS
    DurationBits = 4
    Plans <- NoisyPlans
    MaxRenewals = 1
    MaxDelay = 1
    MaxUpdates = 0
    BuffersUpdates = FALSE
    Resends = FALSE
SPECIFICATION SpecWithoutIntegrator
PROPERTIES
    RenewalResolves
