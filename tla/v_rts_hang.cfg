SPECIFICATION FairSpec

CONSTANTS
    Modes <- SmallModes
    Faults <- RefuseAndTimer
    MaxChunks = 3
    MaxTransfers <- SmallTransfers
    MaxPlease = 1

PROPERTIES
    TimedTransferReturns

CHECK_DEADLOCK FALSE
