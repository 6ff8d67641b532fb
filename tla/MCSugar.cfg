SPECIFICATION Spec
CONSTANTS
    Modulus = 8
    MaxTurns = 12
    Types <- ContainerTypes
    Programs <- Families
INVARIANTS
    SameMeaning
    NothingIsLeft
CHECK_DEADLOCK FALSE
