SPECIFICATION Spec

CONSTANTS
    Uses <- ClientUses
    Losses = FALSE
    MaxId = 2

INVARIANTS
    ReleaseTold

CHECK_DEADLOCK FALSE
