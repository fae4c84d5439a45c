SPECIFICATION FairSpec
CONSTANTS
    r1 = r1
    r2 = r2
    drilldown = drilldown
    None = None
    Request <- TwoRequests
    Key <- OneKey
    Family <- FamiliesOf
    Ttl <- Ttls
    EmptyTtl <- EmptyTtls
    Backends <- BothBackends
    ResetAfterTicks = 2
    MaxFill = 0
    MaxInserts = 1
INVARIANTS ResetExcludesReaders ServedSound
PROPERTIES CallsReturn BackstopResets
