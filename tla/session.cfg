SPECIFICATION Spec

CONSTANTS
    Profiles <- SessionProfiles
    Expd = FALSE
    Requests <- SessionRequests
    ResyncSettings <- FixedSettings
    Isn <- Zero
    MaxSsn = 2
    MaxQueue = 2

INVARIANTS
    TypeOK
    TokenExclusive
    TokenConserved
    SsnAgree
    ActAgree
    PendingKnown
    OneResponder
    ResyncWindow
    ReleasedTogether
    FreedIsGone

CHECK_DEADLOCK FALSE
