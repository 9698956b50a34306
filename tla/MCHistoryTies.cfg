\* Events at equal times, across pages.
CONSTANTS
    Events <- EqualTimes
    Queries <- OneQuery
    PageSizes = {1}
    DefaultPageSize = 2
    MaxPageSize = 2
    MaxAttempts = 1
SPECIFICATION Spec
INVARIANTS
    ListingComplete
