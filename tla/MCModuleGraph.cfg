SPECIFICATION Spec
CONSTANTS
    Disk <- MCDisk
    Links <- MCLinks
    Roots <- MCRoots
    Prelude <- MCPrelude
    Tables = {TRUE, FALSE}
    Entries <- TwoEntries
    INVALID_STRING = INVALID_STRING
    Aliases <- MCAliases
    Texts <- MCTexts
INVARIANTS
    OneModuleOfAFile
    ImportsInOrder
    NameReachesIt
PROPERTIES
    IdentityStays
    SearchesWhatIsReached
