SPECIFICATION Spec
CONSTANTS
    WsBits = 4
    Programs <- MCPrograms
INVARIANTS
    PrintsBack
    KeepsTheOthers
    BlocksFollowIndentation
CHECK_DEADLOCK FALSE
