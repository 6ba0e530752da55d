SPECIFICATION FairSpec
CONSTANTS
    Removals = {0, 1}
    MaxPosted = 2
    MaxTasks = 3
    MaxFailures = 1
    MaxStops = 1
INVARIANTS TypeOK NothingSkipped WatchingIsLive
PROPERTIES StopsReturn Reached
CHECK_DEADLOCK FALSE
