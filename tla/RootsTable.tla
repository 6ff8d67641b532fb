----------------------------- MODULE RootsTable -----------------------------
(***************************************************************************)
(* ModuleFinder::load, the reader of the roots table (record 0010) and of  *)
(* its prelude block (record 0033): the lines one by one, then the         *)
(* dependencies they left pending, whose blocks may come later in the      *)
(* file, and then the prelude, which resolves through those.               *)
(*                                                                         *)
(* A line is what its text means: the header of a root or of the prelude,  *)
(* a dependency, an import, or a line nothing reads.                       *)
(***************************************************************************)
EXTENDS ModuleFinder

CONSTANTS
    Lines,      \* the lines a table may hold
    MaxLines    \* how long a table may be

LinesAssumption ==
    /\ MaxLines \in Nat
    /\ \A line \in Lines :
           /\ line \in [kind : {"root", "prelude", "dependency", "import", "broken"},
                        name : Seq(STRING), path : Seq(STRING)]
           /\ line.name # <<>>
           \* made absolute, so a directory is never the empty path
           /\ line.kind \in {"root", "dependency"} => line.path # NoPath

VARIABLES
    table,      \* the file: its lines that are neither blank nor a comment
    number,     \* how many of them were read, or of the list of this stage
    stage,      \* what load is doing, or how it ended
    roots,
    prelude,
    block,      \* the block the lines belong to, INVALID_ROOT before any
    preludeBlock,
    pending,    \* the dependencies kept for the second pass, by block
    imports     \* the prelude's imports, kept for after it

vars == <<table, number, stage, roots, prelude, block, preludeBlock, pending,
          imports>>

Line == table[number + 1]
Reading(kind) == stage = "reading" /\ number < Len(table) /\ Line.kind = kind

\* a half read table must not be usable
Fail ==
    /\ stage' = "failed"
    /\ roots' = <<>>
    /\ prelude' = <<>>
    /\ preludeBlock' = INVALID_ROOT
    /\ UNCHANGED <<table, number, block, pending, imports>>

BlockWithPath(path) ==
    LET found == {i \in DOMAIN roots : roots[i].path = path}
    IN IF found = {} THEN INVALID_ROOT
       ELSE CHOOSE i \in found : \A j \in found : i <= j

Init ==
    /\ table \in UNION {[1 .. n -> Lines] : n \in 0 .. MaxLines}
    /\ number = 0
    /\ stage = "opening"
    /\ roots = <<>> /\ prelude = <<>>
    /\ block = INVALID_ROOT /\ preludeBlock = INVALID_ROOT
    /\ pending = <<>> /\ imports = <<>>

Open ==
    /\ stage = "opening"
    /\ stage' = "reading"
    /\ UNCHANGED <<table, number, roots, prelude, block, preludeBlock,
                   pending, imports>>

\* the lists were cleared before the file was tried
CannotOpen ==
    /\ stage = "opening"
    /\ stage' = "unopened"
    /\ UNCHANGED <<table, number, roots, prelude, block, preludeBlock,
                   pending, imports>>

\* root <path> = <name>
ReadHeader ==
    /\ Reading("root")
    /\ IF BlockWithPath(Line.path) # INVALID_ROOT THEN Fail
       ELSE /\ roots' = OpenRoot(roots, Head(Line.name), Line.path)
            /\ block' = Len(roots) + 1
            /\ number' = number + 1
            /\ UNCHANGED <<table, stage, prelude, preludeBlock, pending,
                           imports>>

\* the prelude is a block with no directory, and does not see itself
ReadPreludeHeader ==
    /\ Reading("prelude")
    /\ IF preludeBlock # INVALID_ROOT THEN Fail
       ELSE /\ roots' = Append(roots, [name |-> "prelude", path |-> NoPath,
                                       sees |-> <<>>])
            /\ block' = Len(roots) + 1
            /\ preludeBlock' = Len(roots) + 1
            /\ number' = number + 1
            /\ UNCHANGED <<table, stage, prelude, pending, imports>>

\* <name> -> <path>, under any block; the path is not looked up yet
ReadDependency ==
    /\ Reading("dependency")
    /\ IF block = INVALID_ROOT THEN Fail
       ELSE /\ pending' = Append(pending, [block |-> block,
                                           name |-> Head(Line.name),
                                           path |-> Line.path])
            /\ number' = number + 1
            /\ UNCHANGED <<table, stage, roots, prelude, block, preludeBlock,
                           imports>>

\* import <name>, under the prelude block only
ReadPreludeImport ==
    /\ Reading("import")
    /\ IF preludeBlock = INVALID_ROOT \/ block # preludeBlock THEN Fail
       ELSE /\ imports' = Append(imports, Line.name)
            /\ number' = number + 1
            /\ UNCHANGED <<table, stage, roots, prelude, block, preludeBlock,
                           pending>>

ReadBroken == Reading("broken") /\ Fail

\* the lines are over, or the list of a stage is
NextStage(from, list, to) ==
    /\ stage = from
    /\ number = Len(list)
    /\ stage' = to
    /\ number' = 0
    /\ UNCHANGED <<table, roots, prelude, block, preludeBlock, pending,
                   imports>>

EndOfLines == NextStage("reading", table, "dependencies")
EndOfDependencies == NextStage("dependencies", pending, "prelude")
EndOfPrelude == NextStage("prelude", imports, "loaded")

\* (mutant: a name twice in one block, the second unseen)
ResolveDependencyTwice ==
    /\ stage = "dependencies" /\ number < Len(pending)
    /\ LET wanted == pending[number + 1]
           target == BlockWithPath(wanted.path)
       IN IF target = INVALID_ROOT THEN Fail
          ELSE /\ roots' = See(roots, wanted.block, wanted.name, target)
               /\ number' = number + 1
               /\ UNCHANGED <<table, stage, prelude, block, preludeBlock,
                              pending, imports>>

ResolveDependency ==
    /\ stage = "dependencies" /\ number < Len(pending)
    /\ LET wanted == pending[number + 1]
           target == BlockWithPath(wanted.path)
       IN IF target = INVALID_ROOT \/ ~MaySee(roots, wanted.block, wanted.name)
          THEN Fail
          ELSE /\ roots' = See(roots, wanted.block, wanted.name, target)
               /\ number' = number + 1
               /\ UNCHANGED <<table, stage, prelude, block, preludeBlock,
                              pending, imports>>

ResolvePrelude ==
    /\ stage = "prelude" /\ number < Len(imports)
    /\ LET result == Find(roots, preludeBlock, imports[number + 1])
       IN IF result.status # "ok" THEN Fail
          ELSE /\ prelude' = Append(prelude, [path |-> result.path,
                                              root |-> result.root])
               /\ number' = number + 1
               /\ UNCHANGED <<table, stage, roots, block, preludeBlock,
                              pending, imports>>

Done == stage \in {"loaded", "failed", "unopened"} /\ UNCHANGED vars

Next ==
    \/ Open \/ CannotOpen
    \/ ReadHeader \/ ReadPreludeHeader \/ ReadDependency \/ ReadPreludeImport
    \/ ReadBroken
    \/ EndOfLines \/ ResolveDependency \/ EndOfDependencies
    \/ ResolvePrelude \/ EndOfPrelude
    \/ Done

Spec == Init /\ [][Next]_vars /\ WF_vars(Next)

-----------------------------------------------------------------------------
(* Properties.                                                             *)

\* A table that is read gives the roots its text says, whatever the order of
\* its blocks: two that see each other, or one below what it depends on
\* (module_finder.cpp: the second pass).
LoadsWhatIsWritten == stage = "loaded" => roots = RootsOf(BlocksOf(table))

\* and it is read exactly when its text says something: no line is skipped,
\* and none is refused for where it stands but for those that have a place.
RefusesOnlyTheUnreadable ==
    /\ stage = "loaded" => WellFormed(table)
    /\ stage = "failed" => ~WellFormed(table)

\* An import of the prelude is resolved once and through the prelude's own
\* lines, so what every module is given is a file of a root the block sees
\* (record 0033, section 2).
PreludeIsSeen ==
    stage = "loaded" => \A i \in DOMAIN prelude :
        /\ prelude[i].path \in Files
        /\ Sees(Head(imports[i]), prelude[i].root)
              \in {roots[preludeBlock].sees[j] :
                     j \in DOMAIN roots[preludeBlock].sees}
=============================================================================
