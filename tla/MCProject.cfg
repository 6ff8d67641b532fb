SPECIFICATION Spec
CONSTANTS
    CommandLines <- MCCommandLines
    Lines <- MCLines
    MaxLines = 5
    Program <- App
    Manifests <- MCManifests
    Disk <- MCDisk
    Links <- NoLinks
INVARIANTS
    ReadsTheCommandLine
    ExitSaysWhatWasWritten
    ReadsTheTable
    ReadsTheManifests
PROPERTIES
    ManifestsEnd
