SPECIFICATION FairSpec
CONSTANTS
    t1 = t1
    t2 = t2
    d1 = d1
    None = None
    Tester <- TwoTesters
    Domain <- OneDomain
    Tld <- Tlds1
    QueueCap = 1
    Day = 2
    Hour = 1
INVARIANTS CacheSound NotStranded
PROPERTIES CallsReturn
