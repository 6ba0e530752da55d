SPECIFICATION FairSpec
CONSTANTS
    p1 = p1
    p2 = p2
    p3 = p3
    Procs <- TwoProcs
    Rivals = FALSE
    Messages = 2
    Jobs <- TwoJobs
    Invalid <- SecondJob
    MaxQueue = 2
    MaxFailures = 1
INVARIANTS TypeOK OneWriter DoneIsDurable CloseKeepsAll
PROPERTIES DiskAdvances Served
CHECK_DEADLOCK FALSE
