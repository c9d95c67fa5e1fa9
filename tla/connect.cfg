SPECIFICATION Spec

CONSTANTS
    Units <- SomeUnits
    Choices <- SomeSettings
    Isn <- OneIsn
    Expd = FALSE

INVARIANTS
    TypeOK
    ConnectAgree
    NoHalfOpen

CHECK_DEADLOCK FALSE
