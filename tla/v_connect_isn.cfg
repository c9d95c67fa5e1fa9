SPECIFICATION Spec

CONSTANTS
    Units <- FewUnits
    Choices <- SomeSettings
    Isn <- TwoIsns
    Expd = FALSE

INVARIANTS
    SerialAgree

CHECK_DEADLOCK FALSE
