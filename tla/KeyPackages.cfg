SPECIFICATION KpSpec
CONSTANTS
    Identities <- OneIdentity
    Kps <- AnnKps
    LastResort <- AnnLastResort
    OwnerOf <- AnnOwner
    MaxPerIdentity = 3
    MaxLastResort = 2
    InMemory = TRUE
    MaxPublishes = 2
    MaxHandOuts = 2
INVARIANTS
    QuotaHolds
    HandedOutOnce
PROPERTY
    StaysReachable
CHECK_DEADLOCK FALSE
