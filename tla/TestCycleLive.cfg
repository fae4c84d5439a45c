SPECIFICATION FairSpec
CONSTANTS
    a = a
    b = b
    x = x
    y = y
    w1 = w1
    w2 = w2
    None = None
    Node <- NodesABX
    Worker <- OneWorker
    BatchSize = 3
    Hostnames <- TwoHostsB
    Announces <- AnnounceX
    MaxCycles = 1
    MaxRestarts = 1
PROPERTIES CycleEnds ShutdownEnds
CHECK_DEADLOCK FALSE
