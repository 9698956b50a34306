\* Events at distinct times, each recorded with up to two attempts.
CONSTANTS
    Events <- DistinctTimes
    Queries <- TwoQueries
    PageSizes = {1, 3}
    DefaultPageSize = 2
    MaxPageSize = 2
    MaxAttempts = 2
SPECIFICATION PatientSpec
INVARIANTS
    TypeOK
    StoredOnce
    PagesInOrder
    ListingComplete
PROPERTIES
    ListingEnds
