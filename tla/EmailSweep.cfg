SPECIFICATION FairSweepSpec
CONSTANTS
    d1 = d1
    d2 = d2
    h1 = h1
    h2 = h2
    Missing = Missing
    Unread = Unread
    MailDomain <- TwoDomains
    Host <- TwoHosts
    Concurrency = 1
    StaleAfter = 1
    FindingTtl = 1
INVARIANTS RowsSound
PROPERTIES VerdictKept SweepReturns
