SPECIFICATION Spec

CONSTANTS
    Profiles <- AnswerProfiles
    Expd = FALSE
    Requests <- AnswerRequests
    ResyncSettings <- FixedSettings
    Isn <- Zero
    MaxSsn = 2
    MaxQueue = 2

INVARIANTS
    Answerable

CHECK_DEADLOCK FALSE
