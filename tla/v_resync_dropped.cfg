SPECIFICATION Spec

CONSTANTS
    Profiles <- ResyncProfiles
    Expd = FALSE
    Requests <- ResyncRequests
    ResyncSettings <- FixedSettings
    Isn <- Zero
    MaxSsn = 1
    MaxQueue = 2

INVARIANTS
    ResyncKnown

CHECK_DEADLOCK FALSE
