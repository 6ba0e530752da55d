SPECIFICATION Spec
CONSTANTS
    Groups <- TwoGroups
    Streams <- TwoStreams
    MaxCursor = 2
INVARIANTS
    TypeOK
    GapFree
    NothingMissed
    JoinedIffLive
    NoLostWakeup
PROPERTIES
    FeedSpec
CHECK_DEADLOCK FALSE
