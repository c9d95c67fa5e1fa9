SPECIFICATION Spec

CONSTANTS
    Profiles <- LostProfiles
    Expd = FALSE
    Requests <- LostRequests
    ResyncSettings <- NoResync
    Isn <- Zero
    MaxSsn = 2
    MaxQueue = 3

INVARIANTS
    TokenConserved

CHECK_DEADLOCK FALSE
