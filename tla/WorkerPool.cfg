SPECIFICATION FairSpec
CONSTANTS
    w1 = w1
    j1 = j1
    j2 = j2
    j3 = j3
    s1 = s1
    s2 = s2
    NoJob = NoJob
    Worker <- OneWorker
    Job <- ThreeJobs
    Stopper <- TwoStoppers
INVARIANTS JobConserved StopIsFinal
PROPERTIES StopReturns WaitingSubmitSafe
CHECK_DEADLOCK FALSE
