SPECIFICATION FairSpec
CONSTANTS
    n1 = n1
    n1copy = n1copy
    n2 = n2
    p1 = p1
    p1short = p1short
    p2 = p2
    None = None
    Nodelist <- TheNodelists
    Pointlist <- ThePointlists
    Date <- TheDates
    DateOf <- Dates
    Points <- Sizes
    Batches = 2
    MaxFaults = 1
INVARIANTS TypeOK GateMeansComplete OneFilePerDate
PROPERTIES StoreImplemented OrphansHealed
CHECK_DEADLOCK FALSE
