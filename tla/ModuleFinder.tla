----------------------------- MODULE ModuleFinder -----------------------------
(***************************************************************************)
(* How hdc turns an import into a file: the questions ModuleFinder answers *)
(* once its roots are in place. RootsTable and PackageLoader fill them,    *)
(* ModuleGraph asks.                                                       *)
(*                                                                         *)
(* A path is the sequence of its segments, the suffix `.hd' left out; a    *)
(* root is a directory, the name it gives itself and the names it sees.    *)
(***************************************************************************)
EXTENDS Integers, Sequences, FiniteSets

CONSTANTS
    Disk,       \* the paths of the `.hd' files, sorted by their bytes
    Links       \* the files that are symbolic links, and the file each is

Files == {Disk[i] : i \in DOMAIN Disk}

ASSUME DiskAssumption ==
    /\ Disk \in Seq(Seq(STRING))
    /\ \A i, j \in DOMAIN Disk : Disk[i] = Disk[j] => i = j
    /\ \A f \in Files : Len(f) > 1
    /\ DOMAIN Links \subseteq Files
    /\ \A f \in DOMAIN Links : Links[f] \in Files \ DOMAIN Links

\* weakly_canonical: the file a path is, however it is spelled
Canonical(path) == IF path \in DOMAIN Links THEN Links[path] ELSE path

Directory(path) == SubSeq(path, 1, Len(path) - 1)
Directories == UNION {{SubSeq(f, 1, n) : n \in 1 .. Len(f) - 1} : f \in Files}

INVALID_ROOT == 0

\* the prelude block is the root with no directory
NoPath == <<>>

Sees(name, root) == [name |-> name, root |-> root]

\* open_root, and a header line of the table: a root sees itself by its name
OpenRoot(roots, name, path) ==
    Append(roots, [name |-> name, path |-> path,
                   sees |-> <<Sees(name, Len(roots) + 1)>>])

VisibleRoot(roots, root, name) ==
    LET lines == roots[root].sees
        named == {i \in DOMAIN lines : lines[i].name = name}
    IN IF named = {} THEN INVALID_ROOT
       ELSE lines[CHOOSE i \in named : \A j \in named : i <= j].root

\* see and add_visible: a second line of the same name is refused
MaySee(roots, root, name) == VisibleRoot(roots, root, name) = INVALID_ROOT
See(roots, root, name, target) ==
    [roots EXCEPT ![root].sees = Append(@, Sees(name, target))]

TargetOf(roots, root, name) ==
    IF root = INVALID_ROOT THEN INVALID_ROOT
    ELSE VisibleRoot(roots, root, Head(name))

Missing(status, path) ==
    [status |-> status, path |-> path, files |-> {}, root |-> INVALID_ROOT]
Reached(path, files, root) ==
    [status |-> "ok", path |-> path, files |-> files, root |-> root]

\* `import a.b.c' is <a's root>/b/c, and `import a' is <a's root>/a
Find(roots, root, name) ==
    LET target == TargetOf(roots, root, name)
        tail == IF Len(name) = 1 THEN name ELSE Tail(name)
        path == roots[target].path \o tail
    IN IF target = INVALID_ROOT THEN Missing("no root", NoPath)
       ELSE IF path \notin Files THEN Missing("no file", path)
       ELSE Reached(path, {}, target)

\* `import a.b.*' is every file right in <a's root>/b; `import a.*' is those of
\* the root itself. Whoever walks them does so in the order of their bytes
FindAll(roots, root, name) ==
    LET target == TargetOf(roots, root, name)
        path == roots[target].path \o Tail(name)
    IN IF target = INVALID_ROOT THEN Missing("no root", NoPath)
       ELSE IF path \notin Directories THEN Missing("no file", path)
       ELSE Reached(path, {f \in Files : Directory(f) = path}, target)

Sooner(f, g) ==
    \E i, j \in DOMAIN Disk : Disk[i] = f /\ Disk[j] = g /\ i <= j
IsFirst(file, files) == \A g \in files : Sooner(file, g)

\* a file is never the directory of its own name: it has a suffix
StartsWith(file, path) ==
    Len(path) < Len(file) /\ SubSeq(file, 1, Len(path)) = path

\* the root of a file of the command line: the longest that covers it, and of
\* two as long the first; a root with no directory claims nothing
IsRootOfFile(root, roots, file) ==
    LET target == Canonical(file)
        covering == {i \in DOMAIN roots : /\ roots[i].path # NoPath
                                          /\ StartsWith(target, roots[i].path)}
        Before(i, j) == \/ Len(roots[i].path) > Len(roots[j].path)
                        \/ Len(roots[i].path) = Len(roots[j].path) /\ i <= j
    IN IF covering = {} THEN root = INVALID_ROOT
       ELSE root \in covering /\ \A j \in covering : Before(root, j)
RootOfFile(roots, file) ==
    CHOOSE root \in DOMAIN roots \cup {INVALID_ROOT} :
        IsRootOfFile(root, roots, file)

\* what std::filesystem::relative writes: up to where the two paths part, and
\* down from there
Relative(file, base) ==
    LET common == {n \in 0 .. Len(base) : n <= Len(file) /\
                      SubSeq(file, 1, n) = SubSeq(base, 1, n)}
        part == CHOOSE n \in common : \A o \in common : o <= n
    IN [i \in 1 .. Len(base) - part |-> ".."]
           \o SubSeq(file, part + 1, Len(file))

\* (mutant: the path under the root, without the root's own name)
ModuleNameOfTail(roots, root, file) ==
    Relative(Canonical(file), roots[root].path)

\* the dotted name of a file under a root; <a's root>/a is called `a'
ModuleNameOfFile(roots, root, file) ==
    LET relative == Relative(Canonical(file), roots[root].path)
    IN IF relative = <<roots[root].name>> THEN relative
       ELSE <<roots[root].name>> \o relative

-----------------------------------------------------------------------------
(* What a roots table says, with no order of reading in it (record 0010):  *)
(* the roots its blocks are, what each sees, and which tables say          *)
(* anything at all. Those who fill the roots are checked against this.     *)

\* how many of some lines are down to one, and the n-th of them
RankIn(lines, i) == Cardinality({j \in lines : j <= i})
Nth(lines, n) == CHOOSE i \in lines : RankIn(lines, i) = n

LinesOf(table, kinds) == {i \in DOMAIN table : table[i].kind \in kinds}
Headers(table) == LinesOf(table, {"root", "prelude"})

\* the block a line belongs to, 0 above the first header
BlockOf(table, i) == RankIn(Headers(table), i)
DependenciesOf(table, b) ==
    {i \in LinesOf(table, {"dependency"}) : BlockOf(table, i) = b}

\* a block is its name, its directory and what it asks to see
BlocksOf(table) ==
    LET Header(b) == table[Nth(Headers(table), b)]
        Need(b, n) == table[Nth(DependenciesOf(table, b), n)]
    IN [b \in 1 .. Cardinality(Headers(table)) |->
           [name |-> IF Header(b).kind = "root" THEN Head(Header(b).name)
                     ELSE "prelude",
            path |-> IF Header(b).kind = "root" THEN Header(b).path ELSE NoPath,
            needs |-> [n \in 1 .. Cardinality(DependenciesOf(table, b)) |->
                          [name |-> Head(Need(b, n).name),
                           path |-> Need(b, n).path]]]]

\* the block of the directory a dependency names, wherever it is
BlockAt(blocks, path) == CHOOSE b \in DOMAIN blocks : blocks[b].path = path

OwnName(blocks, b) ==
    IF blocks[b].path = NoPath THEN <<>> ELSE <<Sees(blocks[b].name, b)>>
RootsOf(blocks) ==
    LET Seen(b, n) == Sees(blocks[b].needs[n].name,
                           BlockAt(blocks, blocks[b].needs[n].path))
    IN [b \in DOMAIN blocks |->
           [name |-> blocks[b].name, path |-> blocks[b].path,
            sees |-> OwnName(blocks, b)
                         \o [n \in DOMAIN blocks[b].needs |-> Seen(b, n)]]]

\* the lines are where they belong
LinesInPlace(table) ==
    /\ LinesOf(table, {"broken"}) = {}
    /\ \A i \in LinesOf(table, {"dependency", "import"}) : BlockOf(table, i) > 0
    /\ \A i \in LinesOf(table, {"import"}) :
          table[Nth(Headers(table), BlockOf(table, i))].kind = "prelude"
    /\ \A i, j \in LinesOf(table, {"prelude"}) : i = j

\* a root is its directory, and what a block sees it sees once
BlocksAgree(blocks) ==
    /\ \A b, c \in DOMAIN blocks :
          blocks[b].path = blocks[c].path /\ blocks[b].path # NoPath => b = c
    /\ \A b \in DOMAIN blocks : \A n \in DOMAIN blocks[b].needs :
          LET need == blocks[b].needs[n]
          IN /\ \E c \in DOMAIN blocks : blocks[c].path = need.path
             /\ blocks[b].path # NoPath => need.name # blocks[b].name
             /\ \A m \in DOMAIN blocks[b].needs :
                   blocks[b].needs[m].name = need.name => m = n

\* every module can be given what the prelude lists
PreludeIsFound(table) ==
    \A i \in LinesOf(table, {"import"}) :
        Find(RootsOf(BlocksOf(table)), BlockOf(table, i), table[i].name).status
            = "ok"

WellFormed(table) ==
    /\ LinesInPlace(table)
    /\ BlocksAgree(BlocksOf(table))
    /\ PreludeIsFound(table)
=============================================================================
