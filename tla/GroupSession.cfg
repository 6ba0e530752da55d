SPECIFICATION Spec
CONSTANTS
    Devices <- SharedDevices
    Identities <- SharedIdentities
    IdentityOf <- SharedIdentityOf
    Founders <- SharedFounders
    FirstAdmins = {}
    None = None
    MaxMessages = 2
    MaxCrashes <- SharedCrashes
    Wants <- SharedWants
INVARIANTS
    TypeOK
    OnlyAuthorsFork
    NeverStranded
    InvitationKept
    PendingAddsStand
PROPERTIES
    VerdictIsRight
CHECK_DEADLOCK FALSE
