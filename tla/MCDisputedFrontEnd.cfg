SPECIFICATION Spec
CONSTANTS
    Showing = {"driver", "types", "clones", "modules", "syntax", "sugar", "calls"}
    Things = {a, b}
    NoBlock = NoBlock
    INVALID_STRING = INVALID_STRING
    CommandLines <- TheCommandLines
    Declarations <- GrowingClass
    Disk <- TheDisk
    Links <- TheLinks
    Roots <- TheRoots
    Prelude <- ThePrelude
    Entries <- TheEntry
    TextsGiven <- BothNames
    LinesGiven <- SourcesDisputed
    Sugared <- SugarDisputed
    Containers <- SugarContainers
    ClassesGiven <- TheClasses
    Calls <- CallsDisputed
    BodiesGiven <- BodiesDisputed
    OwnersGiven <- OwnersDisputed
    StatementsGiven <- StatementsDisputed
INVARIANTS
    FrontEndAsWritten
CHECK_DEADLOCK FALSE
