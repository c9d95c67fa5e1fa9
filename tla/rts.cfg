SPECIFICATION FairSpec

CONSTANTS
    Modes <- AllModes
    Faults <- AllFaults
    MaxChunks = 3
    MaxTransfers <- AllTransfers
    MaxPlease = 1

INVARIANTS
    RtTypeOK
    WindowKept
    PointsOrdered
    TurnIsTokens
    TransferOwned

PROPERTIES
    ServiceKept
    LosesWithCause
    TransferReturns

CHECK_DEADLOCK FALSE
