SPECIFICATION Spec
CONSTANTS
    Identities <- TwoIdentities
    Kps <- PairKps
    LastResort <- PairLastResort
    OwnerOf <- PairOwner
    MaxPerIdentity = 2
    MaxLastResort = 1
    InMemory = FALSE
    MaxPublishes = 1
    MaxHandOuts = 1
    MaxPending = 1
    MaxAge = 1
    RoundTrip = TRUE
    MaxClock = 2
INVARIANTS
    TypeOK
    RequestNeverLost
CHECK_DEADLOCK FALSE
