SPECIFICATION Spec

CONSTANTS
    Profiles <- ExpeditedProfiles
    Expd = TRUE
    Requests <- ExpeditedRequests
    ResyncSettings <- FixedSettings
    Isn <- Zero
    MaxSsn = 1
    MaxQueue = 2

INVARIANTS
    TokenExclusive
    PreparationEnds
    ExceptionKnown

CHECK_DEADLOCK FALSE
