------------------------------- MODULE Project -------------------------------
(***************************************************************************)
(* What a build starts from, one of three at a time: a command line, a     *)
(* roots table, or the manifests of the program and of what it needs.      *)
(***************************************************************************)
EXTENDS Integers, Sequences

CONSTANTS
    CommandLines,           \* sequences of arguments
    Lines, MaxLines,        \* the lines of a table, and how many it may have
    Program, Manifests,     \* the manifests there may be
    Disk, Links             \* the files there are

VARIABLES part,    \* which of the three this is
          stage, number, roots, prelude,                     \* of more than one
          argv, options, path, package, hasTable, built, wrote, code,
          table, block, preludeBlock, pending, imports,
          disk, packages, stack, answer, asked

OfTheDriver == <<argv, options, path, package, hasTable, built, wrote, code>>
OfTheTable == <<table, block, preludeBlock, pending, imports>>
OfThePackages == <<disk, packages, stack, answer, asked>>
vars == <<part, stage, number, roots, prelude, OfTheDriver, OfTheTable, OfThePackages>>

D == INSTANCE Driver
R == INSTANCE RootsTable
P == INSTANCE PackageLoader

ASSUME DriverAssumption == D!CommandLinesAssumption
ASSUME TableAssumption == R!LinesAssumption
ASSUME PackagesAssumption == P!ManifestsAssumption

-----------------------------------------------------------------------------
NoDriver == /\ argv = 0 /\ options = 0 /\ path = 0 /\ package = 0
            /\ hasTable = 0 /\ built = 0 /\ wrote = 0 /\ code = 0
NoTable == table = 0 /\ block = 0 /\ preludeBlock = 0 /\ pending = 0 /\ imports = 0
NoPackages == disk = 0 /\ packages = 0 /\ stack = 0 /\ answer = 0 /\ asked = 0

Init == \/ part = "driver" /\ D!Init /\ prelude = 0 /\ NoTable /\ NoPackages
        \/ part = "table" /\ R!Init /\ NoDriver /\ NoPackages
        \/ part = "packages" /\ P!Init /\ number = 0 /\ NoDriver /\ NoTable

Next == \/ /\ part = "driver" /\ D!Next
           /\ UNCHANGED <<part, prelude, OfTheTable, OfThePackages>>
        \/ /\ part = "table" /\ R!Next
           /\ UNCHANGED <<part, OfTheDriver, OfThePackages>>
        \/ /\ part = "packages" /\ P!Next
           /\ UNCHANGED <<part, number, OfTheDriver, OfTheTable>>

Spec == Init /\ [][Next]_vars /\ WF_vars(Next)

-----------------------------------------------------------------------------
\* Of a command line: it means one thing, whatever its order and however often
\* an option is given; no program is built without the table it was given; and
\* each exit code stands for what was built and written, the refused manifest
\* that exits as a success among them (driver.cpp).
ReadsTheCommandLine == part = "driver" => D!ReadsWhatIsWritten
ExitSaysWhatWasWritten ==
    part = "driver" => D!BuiltWithItsTable /\ D!ExitSaysWhatWasWritten

\* Of a table: it is read exactly when its text says something, into the roots
\* its text says, and the prelude is seen from its own block
\* (module_finder.cpp).
ReadsTheTable ==
    part = "table" => /\ R!LoadsWhatIsWritten
                      /\ R!RefusesOnlyTheUnreadable /\ R!PreludeIsSeen

\* Of manifests: one package a directory, what a table would say, and a failure
\* exactly where there is a reason for one (package_loader.cpp).
ReadsTheManifests ==
    part = "packages" => /\ P!OnePackageOfADirectory
                         /\ P!SaysWhatATableWould /\ P!FailsForAReason

\* However the manifests need each other, the walk of them ends.
ManifestsEnd == part = "packages" => P!Ends
=============================================================================
