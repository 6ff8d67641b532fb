SPECIFICATION Spec
CONSTANTS
    Parameters <- MCParameters
    Programs <- MCPrograms
    NESTING_LIMIT = 2
    MaxClones = 40
INVARIANTS
    OneSubstitutedClone
    StopsGrowing
    NothingIsLostUnsaid
