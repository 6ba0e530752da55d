SPECIFICATION FairSpec
CONSTANTS
    Groups <- TwoGroups
    Streams <- OneStream
    MaxCursor = 2
PROPERTIES
    EventuallyWritten
    HandlerReturns
CHECK_DEADLOCK FALSE
