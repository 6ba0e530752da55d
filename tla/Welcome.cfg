SPECIFICATION FairSpec
CONSTANTS
    Invites <- MixedInvites
    Occasions <- MixedOccasions
    KpRef <- MixedKpRef
    LastResort <- LastResortRefs
    GroupOf <- MixedGroupOf
    EpochOf <- MixedEpochOf
    MaxAge = 1
    MaxAccepted = 1
    RoundTrip = TRUE
    MaxClock = 2
    MaxCopies = 2
    MaxCrashes = 1
INVARIANTS
    TypeOK
    InviteNeverLost
PROPERTIES
    NeverRollsBack
    EventuallyJoined
    EventuallyRetired
CHECK_DEADLOCK FALSE
