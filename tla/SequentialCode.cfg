SPECIFICATION MCSpec
CONSTANTS
    FlagSets <- OneProtocol
    MaxHostnames = 3
    MaxV6 = 2
    MaxV4 = 1
    MaxMs = 2
    None = None
    Single = Single
    Cancelled = Cancelled
    Calls <- AllCalls
    NoCall = NoCall
    Pending = Pending
INVARIANTS
    AggregateSound
    ListsAsWritten
    CallsInTime
    
    PeersUnderstood
CHECK_DEADLOCK FALSE
