---------------------------- MODULE PackageLoader ----------------------------
(***************************************************************************)
(* PackageLoader (record 0044): the roots read from the program's manifest *)
(* and, through its path dependencies, from every manifest it reaches. It  *)
(* is a depth first walk of a graph that may have cycles, and it fills the *)
(* finder while it walks: what fails half way leaves the finder empty.     *)
(*                                                                         *)
(* `stack' is the recursion of intern: one frame for each manifest whose   *)
(* dependencies are being read. A dependency by version is one with no     *)
(* path, which nothing resolves yet.                                       *)
(***************************************************************************)
EXTENDS ModuleFinder

CONSTANTS
    Program,        \* the directory of the program's manifest
    Manifests       \* the manifests there may be at each directory, one that
                    \* reads as nothing where there is none

ManifestsAssumption ==
    \A manifests \in Manifests :
        /\ Program \in DOMAIN manifests
        /\ \A dir \in DOMAIN manifests :
              /\ dir # NoPath
              /\ manifests[dir].reads \in BOOLEAN
              /\ manifests[dir].name \in STRING
              /\ manifests[dir].prelude \in Seq(Seq(STRING))
              \* whatever it names is a directory, with a manifest or not
              /\ manifests[dir].needs
                    \in Seq([name : STRING, path : DOMAIN manifests \cup {NoPath}])

VARIABLES
    disk,       \* the manifest at each directory
    roots,
    prelude,
    packages,   \* the root of each directory already interned
    stack,
    answer,     \* what the last intern gave back, while its caller takes it
    stage,      \* what load is doing, or how it ended
    asked       \* how many of the program's prelude entries were given

vars == <<disk, roots, prelude, packages, stack, answer, stage, asked>>

Unknown == -1
Dirs == DOMAIN disk

Init ==
    /\ disk \in Manifests
    /\ roots = <<>> /\ prelude = <<>>
    /\ packages = [d \in Dirs |-> INVALID_ROOT]
    /\ stack = <<>>
    /\ answer = Unknown
    /\ stage = "manifest"
    /\ asked = 0

\* (mutant: what was read before the failure stays)
ClearNothing(to) == stage' = to /\ UNCHANGED <<roots, prelude>>
Clear(to) ==
    /\ stage' = to
    /\ roots' = <<>>
    /\ prelude' = <<>>

Top == stack[Len(stack)]
Need == disk[Top.dir].needs[Top.at]
HasNeed == Top.at <= Len(disk[Top.dir].needs)

\* one call of intern up to where it reads a dependency of its own: a
\* directory met before is the root it was given, a manifest that does not
\* read is none, and the root is in the map before what it needs is read
Call(dir, frames) ==
    IF packages[dir] # INVALID_ROOT
    THEN /\ answer' = packages[dir]
         /\ stack' = frames
         /\ UNCHANGED <<roots, packages>>
    ELSE IF ~disk[dir].reads
    THEN /\ answer' = INVALID_ROOT
         /\ stack' = frames
         /\ UNCHANGED <<roots, packages>>
    ELSE /\ roots' = OpenRoot(roots, disk[dir].name, dir)
         /\ packages' = [packages EXCEPT ![dir] = Len(roots) + 1]
         /\ stack' = Append(frames, [dir |-> dir, root |-> Len(roots) + 1,
                                     at |-> 1])
         /\ answer' = Unknown

\* the manifest is read once for its prelude and once more by intern
ReadProgram ==
    /\ stage = "manifest"
    /\ IF disk[Program].reads
       THEN /\ stage' = "packages"
            /\ Call(Program, stack)
            /\ UNCHANGED <<disk, prelude, asked>>
       ELSE /\ Clear("failed")
            /\ UNCHANGED <<disk, packages, stack, answer, asked>>

Walking == stage = "packages" /\ stack # <<>>

ReadNeed ==
    /\ Walking /\ answer = Unknown /\ HasNeed
    /\ Need.path # NoPath
    /\ Call(Need.path, stack)
    /\ UNCHANGED <<disk, prelude, stage, asked>>

\* returns from intern with nothing, and so does every caller of it
GiveUp ==
    /\ answer' = INVALID_ROOT
    /\ stack' = SubSeq(stack, 1, Len(stack) - 1)
    /\ UNCHANGED <<disk, roots, prelude, packages, stage, asked>>

NeedsVersion ==
    /\ Walking /\ answer = Unknown /\ HasNeed
    /\ Need.path = NoPath
    /\ GiveUp

TakeFailure == Walking /\ answer = INVALID_ROOT /\ GiveUp

\* (mutant: a name in view already is passed over, and the entry read again)
TakeRootAgain ==
    /\ Walking /\ answer \notin {Unknown, INVALID_ROOT}
    /\ roots' = IF MaySee(roots, Top.root, Need.name)
                THEN See(roots, Top.root, Need.name, answer) ELSE roots
    /\ answer' = Unknown
    /\ UNCHANGED <<disk, prelude, packages, stack, stage, asked>>

TakeRoot ==
    /\ Walking /\ answer \notin {Unknown, INVALID_ROOT}
    /\ IF MaySee(roots, Top.root, Need.name)
       THEN /\ roots' = See(roots, Top.root, Need.name, answer)
            /\ stack' = [stack EXCEPT ![Len(stack)].at = @ + 1]
            /\ answer' = Unknown
            /\ UNCHANGED <<disk, prelude, packages, stage, asked>>
       ELSE GiveUp

ReturnRoot ==
    /\ Walking /\ answer = Unknown /\ ~HasNeed
    /\ answer' = Top.root
    /\ stack' = SubSeq(stack, 1, Len(stack) - 1)
    /\ UNCHANGED <<disk, roots, prelude, packages, stage, asked>>

\* intern of the program is over
Interned ==
    /\ stage = "packages" /\ stack = <<>> /\ answer # Unknown
    /\ IF answer = INVALID_ROOT THEN Clear("failed")
       ELSE stage' = "prelude" /\ UNCHANGED <<roots, prelude>>
    /\ UNCHANGED <<disk, packages, stack, answer, asked>>

\* only the program's own prelude is asked, and through what the program sees
GiveEveryone ==
    /\ stage = "prelude" /\ asked < Len(disk[Program].prelude)
    /\ LET result == Find(roots, answer, disk[Program].prelude[asked + 1])
       IN IF result.status # "ok"
          THEN Clear("failed") /\ UNCHANGED asked
          ELSE /\ prelude' = Append(prelude, [path |-> result.path,
                                              root |-> result.root])
               /\ asked' = asked + 1
               /\ UNCHANGED <<roots, stage>>
    /\ UNCHANGED <<disk, packages, stack, answer>>

Loaded ==
    /\ stage = "prelude" /\ asked = Len(disk[Program].prelude)
    /\ stage' = "loaded"
    /\ UNCHANGED <<disk, roots, prelude, packages, stack, answer, asked>>

Over == stage \in {"loaded", "failed"}
Done == Over /\ UNCHANGED vars

Next ==
    \/ ReadProgram \/ ReadNeed \/ NeedsVersion \/ TakeFailure \/ TakeRoot
    \/ ReturnRoot \/ Interned \/ GiveEveryone \/ Loaded \/ Done

Spec == Init /\ [][Next]_vars /\ WF_vars(Next)

-----------------------------------------------------------------------------
(* Properties.                                                             *)

\* the directories the program's manifest reaches: those of every set that
\* holds the program and what its members need
Needed(d) == {disk[d].needs[i].path : i \in DOMAIN disk[d].needs} \ {NoPath}
IsClosed(dirs) == Program \in dirs /\ \A d \in dirs : Needed(d) \subseteq dirs
InReach == {d \in Dirs : \A dirs \in SUBSET Dirs : IsClosed(dirs) => d \in dirs}

\* the table that says the same: a block for each package, in the order they
\* were met, and its dependencies as the manifest writes them
BlocksSaid ==
    [r \in DOMAIN roots |-> [name |-> disk[roots[r].path].name,
                            path |-> roots[r].path,
                            needs |-> disk[roots[r].path].needs]]

\* A directory reached twice is one root, so a diamond is one library and two
\* manifests that need each other do not open each other for ever
\* (package_loader.cpp: packages, written down before the dependencies).
OnePackageOfADirectory ==
    \A i, j \in DOMAIN roots : roots[i].path = roots[j].path => i = j

\* What comes out is what a table would have said: exactly the packages the
\* program reaches, the program's own first so that the entry file falls under
\* it, each seeing its own name and the names it gave what it needs (record
\* 0044: nothing below the finder can tell which of the two was read).
SaysWhatATableWould ==
    stage = "loaded" =>
        /\ {roots[i].path : i \in DOMAIN roots} = InReach
        /\ roots[1].path = Program
        /\ roots = RootsOf(BlocksSaid)

\* It fails exactly when some manifest in reach does not read, needs a version
\* or gives two things one name, or the prelude finds nothing; and what failed
\* leaves no root behind (package_loader.h).
FailsForAReason ==
    LET Reads(d) ==
            /\ disk[d].reads
            /\ \A i \in DOMAIN disk[d].needs :
                  /\ disk[d].needs[i].path # NoPath
                  /\ disk[d].needs[i].name # disk[d].name
                  /\ \A j \in DOMAIN disk[d].needs :
                        disk[d].needs[i].name = disk[d].needs[j].name => i = j
        AllRead == \A d \in InReach : Reads(d)
    IN /\ stage \in {"prelude", "loaded"} => AllRead
       /\ stage = "failed" =>
             /\ roots = <<>> /\ prelude = <<>>
             /\ AllRead => asked < Len(disk[Program].prelude)

\* However the manifests need each other, the walk of them ends.
Ends == <>Over

=============================================================================
