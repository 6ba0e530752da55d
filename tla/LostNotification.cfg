SPECIFICATION Spec
CONSTANTS
    p1 = p1
    p2 = p2
    p3 = p3
    Procs <- TwoProcs
    Rivals = FALSE
    Messages = 2
    Jobs = {}
    Invalid = {}
    MaxQueue = 2
    MaxFailures = 0
INVARIANT NotificationNeverLost
CHECK_DEADLOCK FALSE
