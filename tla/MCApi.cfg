\* Creates that race under a limit, plans that come and go, an API that crashes.
CONSTANTS
    DurationBits = 8
    DefaultAttempts = 3
    DefaultBackoff = 24
    PlanRequests <- ManyRequests
    MaxPlans = 2
    Callers <- TwoCallers
    Users <- OneUser
    Filters = {"active", "canceled"}
    MaxSubs = 2
    MaxRuns = 2
    c1 = c1
    c2 = c2
SYMMETRY Symmetry
SPECIFICATION Spec
INVARIANTS
    TypeOK
    PlansAreSound
    OneCodeOnePlan
    LimitKept
    AnswerTellsTheTruth
    ListedHaveGotThere
CHECK_DEADLOCK FALSE
