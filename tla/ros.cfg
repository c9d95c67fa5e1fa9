SPECIFICATION FairSpec

CONSTANTS
    Uses <- AllUses
    Losses = TRUE
    MaxId = 2

INVARIANTS
    RoTypeOK
    OncePerInvocation
    ToldTrue
    Accounted
    ReadyUnasked

PROPERTIES
    ToldOnce
    ReadyEnds
    ClientAnswered
    LossTold

CHECK_DEADLOCK FALSE
