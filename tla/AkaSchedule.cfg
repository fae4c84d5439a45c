SPECIFICATION Spec
CONSTANTS
    e1 = e1
    e2 = e2
    e3 = e3
    h1 = h1
    h2 = h2
    None = None
    Entry <- Three
    DomainOf <- ThreeNetworks
    Hostname <- TwoHosts
    ListedHosts <- Chain
    Announces <- AnnounceChain
    Base = 2
    Retry = 1
    Jitter = 0
    StaleTestThreshold = 2
    MaxNodes = 3
    TestLimit <- NoLimit
    MaxTime = 4
    MaxRefreshes = 1
INVARIANTS TakesTurns
PROPERTIES OneNetworkPerGroup
CHECK_DEADLOCK FALSE
