SPECIFICATION LiveSpec
CONSTANTS
    w1 = w1
    w2 = w2
    w3 = w3
    c1 = c1
    c2 = c2
    j1 = j1
    j2 = j2
    j3 = j3
    Helper = Helper
    NoJob = NoJob
    Workers <- ThreeWorkers
    Callers <- TwoCallers
    Jobs <- ThreeJobs
INVARIANTS
    WorkConserving
    StoppedQuiet
PROPERTIES
    StopReturns
    JobsRun
CHECK_DEADLOCK FALSE
