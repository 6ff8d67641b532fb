SPECIFICATION Spec
CONSTANTS
    Keys = {1, 2, 3}
    Values = {1, 2}
    HashOf <- MCHashOf
    InitialCapacity = 2
INVARIANTS
    NothingIsHidden
    HalfIsFree
PROPERTIES
    KeepsTheMap
    Ends
