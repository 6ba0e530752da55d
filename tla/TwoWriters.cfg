SPECIFICATION Spec
CONSTANTS
    p1 = p1
    p2 = p2
    p3 = p3
    Procs <- ThreeProcs
    Rivals = TRUE
    Messages = 1
    Jobs = {}
    Invalid = {}
    MaxQueue = 1
    MaxFailures = 0
INVARIANT OneWriter
CHECK_DEADLOCK FALSE
