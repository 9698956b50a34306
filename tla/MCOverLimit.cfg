\* Two calls at once, under a limit of one.
CONSTANTS
    DurationBits = 8
    DefaultAttempts = 3
    DefaultBackoff = 24
    PlanRequests <- BasicRequests
    MaxPlans = 1
    Callers <- TwoCallers
    Users <- OneUser
    Filters = {}
    MaxSubs = 2
    MaxRuns = 2
    c1 = c1
    c2 = c2
SPECIFICATION Spec
INVARIANTS
    LimitEnforced
CHECK_DEADLOCK FALSE
