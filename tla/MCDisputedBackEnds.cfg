SPECIFICATION Spec
CONSTANTS
    Showing = {"bodies", "objects", "numbers"}
    Things = {a, b}
    NoBlock = NoBlock
    INVALID_STRING = INVALID_STRING
    CommandLines <- TheCommandLines
    Declarations <- GrowingClass
    Disk <- TheDisk
    Links <- TheLinks
    Roots <- TheRoots
    Prelude <- ThePrelude
    Entries <- TheEntry
    TextsGiven <- BothNames
    LinesGiven <- SourcesDisputed
    Sugared <- SugarDisputed
    Containers <- SugarContainers
    ClassesGiven <- TheClasses
    Calls <- CallsDisputed
    BodiesGiven <- BodiesDisputed
    OwnersGiven <- OwnersDisputed
    StatementsGiven <- StatementsDisputed
INVARIANTS
    BackEndsAsWritten
CHECK_DEADLOCK FALSE
