SPECIFICATION Spec
CONSTANTS
    k1 = k1
    k2 = k2
    NumModules = 2
    Keys = {k1, k2}
    HostOf <- MixedHost
    SortOf <- MixedSort
    Assigns = {k1, k2}
    Source <- MixedSource
    Switches <- SomeSwitches
INVARIANTS
    OneWalkPerModule
    PassesInOrder
    NothingIsReadUntyped
PROPERTIES
    InferredStays
    KeepsTheLedger
    Ends
