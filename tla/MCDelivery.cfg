\* A renewal and its dunning, two attempts each, two calls of the integrator at once.
CONSTANTS
    DunningMaxAttempts = 1
    ChargeAttempts = 2
    MaxCalls = 2
SPECIFICATION FairSpec
INVARIANTS
    TypeOK
    MoneyAccountedFor
    HandledOnceUnlessOverlapped
    DeliveredMeansHandled
    NoHookSkipped
    RecordedUnderIndex
PROPERTIES
    CollectsInTurn
    ChargesEnd
