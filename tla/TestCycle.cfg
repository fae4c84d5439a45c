SPECIFICATION Spec
CONSTANTS
    a = a
    b = b
    x = x
    y = y
    w1 = w1
    w2 = w2
    None = None
    Node <- NodesABXY
    Worker <- TwoWorkers
    BatchSize = 2
    Hostnames <- TwoHostsB
    Announces <- AnnounceX
    MaxCycles = 1
    MaxRestarts = 1
SYMMETRY WorkerSymmetry
INVARIANTS BatchBarrier OneDerivedPerCycle CycleCovers ScheduleAccounted
PROPERTIES LogImplemented
CHECK_DEADLOCK FALSE
