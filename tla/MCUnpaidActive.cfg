\* A plan whose trial is shorter than nothing.
CONSTANTS
    DurationBits = 8
    DefaultAttempts = 3
    DefaultBackoff = 24
    PlanRequests <- NegativeTrial
    MaxPlans = 1
    Callers <- TwoCallers
    Users <- OneUser
    Filters = {}
    MaxSubs = 2
    MaxRuns = 2
    c1 = c1
    c2 = c2
SPECIFICATION Spec
INVARIANTS
    AnswerTellsTheTruth
CHECK_DEADLOCK FALSE
