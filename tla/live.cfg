SPECIFICATION FairSpec

CONSTANTS
    Profiles <- LiveProfiles
    Expd = FALSE
    Requests <- LiveRequests
    ResyncSettings <- MixedSettings
    Isn <- Zero
    MaxSsn = 1
    MaxQueue = 2

INVARIANTS
    NoProtocolError
    ResyncKnown

PROPERTIES
    MajorSyncEnds
    InterruptEnds
    ReleaseEnds
    ResyncEnds

CHECK_DEADLOCK FALSE
