----------------------------- MODULE ModuleGraph -----------------------------
(***************************************************************************)
(* The build loop of Compilation: from the entry file to every module its  *)
(* imports reach. The list of modules grows while it is walked: a module   *)
(* is loaded, each of its imports is resolved against the root the file    *)
(* sits in, and what comes back is interned by its canonical path, at the  *)
(* end of the same list. Two modules may import each other (record 0007),  *)
(* a star is a whole directory (0006), and every module of a program with  *)
(* a table is given the prelude after what it wrote (0033).                *)
(*                                                                         *)
(* A file that cannot be read and one that does not parse are outcomes of  *)
(* loading it: both leave a module nobody asks what it imports.            *)
(***************************************************************************)
EXTENDS ModuleFinder

CONSTANTS
    Roots,      \* the roots of the program, none without a table or manifest
    Prelude,    \* what every module is given: a file and the root it is of
    Tables,     \* whether there may be a table or a manifest
    Entries,    \* the paths the command line may name
    Aliases,    \* the aliases an import may give, interned in the importer
    INVALID_STRING, \* the alias of an import that gives none
    Texts       \* per program: the imports each file writes

INVALID_MODULE == 0
RootNumbers == DOMAIN Roots \cup {INVALID_ROOT}

Imports == [name : Seq(STRING), alias : Aliases, star : BOOLEAN]

\* a block sees a name once: RootsTable and PackageLoader refuse any other; it
\* sees itself by its own, but for the prelude's, which has no directory and
\* which nobody sees
ASSUME RootsAssumption ==
    /\ Roots \in Seq([name : STRING, path : Seq(STRING),
                      sees : Seq([name : STRING, root : Nat])])
    /\ \A r \in DOMAIN Roots : \A i, j \in DOMAIN Roots[r].sees :
          /\ Roots[r].sees[i].root \in DOMAIN Roots
          /\ Roots[Roots[r].sees[i].root].path # NoPath
          /\ Roots[r].sees[i].name = Roots[r].sees[j].name => i = j
    /\ \A r \in DOMAIN Roots : Roots[r].path # NoPath =>
          \E i \in DOMAIN Roots[r].sees : Roots[r].sees[i] = Sees(Roots[r].name, r)
ASSUME PreludeAssumption ==
    /\ Prelude \in Seq([path : Files, root : DOMAIN Roots])
    /\ \A p \in DOMAIN Prelude : Roots[Prelude[p].root].path # NoPath
ASSUME AliasesAssumption == INVALID_STRING \in Aliases
ASSUME EntriesAssumption == Entries \subseteq Files /\ Tables \subseteq BOOLEAN
ASSUME TextsAssumption ==
    \A text \in Texts :
        /\ text \in [Files -> Seq(Imports)]
        /\ \A f \in Files : \A i \in DOMAIN text[f] : Len(text[f][i].name) > 0

VARIABLES
    entry,      \* the path of the command line
    hasTable,   \* whether a table or a manifest was read
    text,       \* the imports of each file
    onlyParse,  \* stop_after_parsing was called
    modules,    \* the modules in the order they were interned
    byPath,     \* the module of a canonical path, INVALID_MODULE for none
    at,         \* the module the loop is at
    step,       \* what the loop is doing with it, or how the build stands
    imported,   \* how many of its imports were resolved
    found,      \* the files of the import in hand still to be interned
    given,      \* how many entries of the prelude it was offered
    reports,    \* the imports that reached nothing, and why
    error       \* the one error that has no place in a source

\* what the program is, which the loop does not change
program == <<entry, hasTable, text, onlyParse>>
vars == <<entry, hasTable, text, onlyParse, modules, byPath, at, step,
          imported, found, given, reports, error>>

Nothing == [files |-> {}, root |-> INVALID_ROOT, alias |-> INVALID_STRING]

Init ==
    /\ entry \in Entries
    /\ hasTable \in Tables
    /\ text \in Texts
    /\ onlyParse \in BOOLEAN
    /\ modules = <<>>
    /\ byPath = [f \in Files |-> INVALID_MODULE]
    /\ at = 1
    /\ step = "entry"
    /\ imported = 0 /\ found = Nothing /\ given = 0
    /\ reports = {}
    /\ error = FALSE

-----------------------------------------------------------------------------
(* Interning.                                                              *)

Made(path, root) == [path |-> path, root |-> root, parsed |-> FALSE,
                     dependencies |-> <<>>]

\* (mutant: the path as it is spelled is the key)
KeyAsSpelled(path) == path
Key(path) == Canonical(path)

InternedAt(path) ==
    IF byPath[Key(path)] # INVALID_MODULE THEN byPath[Key(path)]
    ELSE Len(modules) + 1

\* (mutant: whoever imports a module last gives it its root)
WithInternedAgain(path, root) ==
    IF byPath[Key(path)] # INVALID_MODULE
    THEN [modules EXCEPT ![byPath[Key(path)]].root = root]
    ELSE Append(modules, Made(path, root))

WithInterned(path, root) ==
    IF byPath[Key(path)] # INVALID_MODULE THEN modules
    ELSE Append(modules, Made(path, root))

WithKey(path) == [byPath EXCEPT ![Key(path)] = InternedAt(path)]

HasDependency(index, target) ==
    \E i \in DOMAIN modules[index].dependencies :
        modules[index].dependencies[i].module = target

\* (mutant: the last import in front)
DependsFirst(list, index, target, alias) ==
    [list EXCEPT ![index].dependencies =
        <<[module |-> target, alias |-> alias]>> \o @]
Depends(list, index, target, alias) ==
    [list EXCEPT ![index].dependencies =
        Append(@, [module |-> target, alias |-> alias])]

-----------------------------------------------------------------------------
(* The loop.                                                               *)

\* the entry file, under the longest root that covers it
Enter ==
    /\ step = "entry"
    /\ \E root \in RootNumbers :
          /\ IF hasTable THEN IsRootOfFile(root, Roots, entry)
             ELSE root = INVALID_ROOT
          /\ IF hasTable /\ root = INVALID_ROOT
             THEN /\ step' = "failed"
                  /\ error' = TRUE
                  /\ UNCHANGED <<modules, byPath>>
             ELSE /\ modules' = WithInterned(entry, root)
                  /\ byPath' = WithKey(entry)
                  /\ step' = "load"
                  /\ UNCHANGED error
    /\ UNCHANGED <<program, at, imported, found, given, reports>>

Loading == step = "load" /\ at <= Len(modules)
Writes == text[Key(modules[at].path)]

\* the file went away, or does not scan, or does not parse
NotParsed(unreadable) ==
    /\ Loading
    /\ error' = (error \/ unreadable)
    /\ at' = at + 1
    /\ UNCHANGED <<program, modules, byPath, step, imported, found, given,
                   reports>>

Unreadable == NotParsed(TRUE)
DoesNotParse == NotParsed(FALSE)

Parses ==
    /\ Loading
    /\ modules' = [modules EXCEPT ![at].parsed = TRUE]
    /\ IF onlyParse THEN at' = at + 1 /\ UNCHANGED step
       ELSE step' = "imports" /\ UNCHANGED at
    /\ imported' = 0
    /\ given' = 0
    /\ UNCHANGED <<program, byPath, found, reports, error>>

Following == step = "imports" /\ modules[at].root # INVALID_ROOT

\* what an import of a module under a root is answered, and the files it leads to
AnswerAt(root, import) ==
    IF import.star THEN FindAll(Roots, root, import.name)
    ELSE Find(Roots, root, import.name)
FilesAt(root, import) ==
    LET answer == AnswerAt(root, import)
    IN IF answer.status # "ok" THEN {}
       ELSE IF import.star THEN answer.files ELSE {answer.path}

\* one import, in the order the source writes them: what it reaches, or a
\* report where it is written
ResolveImport ==
    /\ Following /\ found.files = {} /\ imported < Len(Writes)
    /\ LET import == Writes[imported + 1]
           root == modules[at].root
           result == AnswerAt(root, import)
       IN IF result.status = "ok"
          THEN /\ found' = [files |-> FilesAt(root, import),
                            root |-> result.root, alias |-> import.alias]
               /\ UNCHANGED reports
          ELSE /\ reports' = reports \cup
                     {[module |-> at, import |-> imported + 1,
                       status |-> result.status]}
               /\ UNCHANGED found
    /\ imported' = imported + 1
    /\ UNCHANGED <<program, modules, byPath, at, step, given, error>>

\* interning may append to the list the loop walks
AddDependency ==
    /\ Following
    /\ \E file \in found.files :
          /\ IsFirst(file, found.files)
          /\ modules' = Depends(WithInterned(file, found.root), at,
                                InternedAt(file), found.alias)
          /\ byPath' = WithKey(file)
          /\ found' = [found EXCEPT !.files = @ \ {file}]
    /\ UNCHANGED <<program, at, step, imported, given, reports, error>>

\* a module of the prelude would be given itself, and one that wrote the
\* import has it already
Refuses(target) == target = at \/ HasDependency(at, target)

AddPrelude ==
    /\ Following /\ found.files = {} /\ imported = Len(Writes)
    /\ given < Len(Prelude)
    /\ LET offer == Prelude[given + 1]
           target == InternedAt(offer.path)
           interned == WithInterned(offer.path, offer.root)
       IN /\ modules' = IF Refuses(target) THEN interned
                        ELSE Depends(interned, at, target, INVALID_STRING)
          /\ byPath' = WithKey(offer.path)
    /\ given' = given + 1
    /\ UNCHANGED <<program, at, step, imported, found, reports, error>>

\* (mutant: the prelude is not waited for)
AllAnsweredNoPrelude ==
    \/ modules[at].root = INVALID_ROOT
    \/ found.files = {} /\ imported = Len(Writes)
\* every import was answered and the prelude given; without a root nothing is
AllAnswered ==
    \/ modules[at].root = INVALID_ROOT
    \/ found.files = {} /\ imported = Len(Writes) /\ given = Len(Prelude)

\* the sugar is lowered and the symbols collected, and the loop goes on
LeaveModule ==
    /\ step = "imports" /\ AllAnswered
    /\ at' = at + 1
    /\ step' = "load"
    /\ UNCHANGED <<program, modules, byPath, imported, found, given, reports,
                   error>>

\* the walk caught up with the list
Finish ==
    /\ step = "load" /\ at > Len(modules)
    /\ step' = "done"
    /\ UNCHANGED <<program, modules, byPath, at, imported, found, given,
                   reports, error>>

Done == step \in {"done", "failed"} /\ UNCHANGED vars

Next ==
    \/ Enter \/ Unreadable \/ DoesNotParse \/ Parses
    \/ ResolveImport \/ AddDependency \/ AddPrelude
    \/ LeaveModule \/ Finish \/ Done

Spec == Init /\ [][Next]_vars /\ WF_vars(Next)

-----------------------------------------------------------------------------
(* Properties.                                                             *)

Over == step \in {"done", "failed"}
Index == DOMAIN modules

\* what is held about the module in hand is about a module there is, and a
\* dependency is a module of the list
Dependency == [module : Nat, alias : Aliases]
ModuleRecord == [path : Files, root : RootNumbers, parsed : BOOLEAN,
                 dependencies : Seq(Dependency)]

TypeOK ==
    /\ entry \in Files /\ hasTable \in BOOLEAN /\ onlyParse \in BOOLEAN
    /\ text \in [Files -> Seq(Imports)]
    /\ modules \in Seq(ModuleRecord)
    /\ byPath \in [Files -> Nat]
    /\ at \in Nat \ {0} /\ imported \in Nat /\ given \in Nat
    /\ step \in {"entry", "load", "imports", "done", "failed"}
    /\ found \in [files : SUBSET Files, root : RootNumbers, alias : Aliases]
    /\ error \in BOOLEAN
    /\ step = "imports" => at \in Index
    /\ \A m \in Index : \A i \in DOMAIN modules[m].dependencies :
          modules[m].dependencies[i].module \in Index

\* A file is one module, however many import it and however its path is
\* spelled, and the map finds it: two modules that import each other do not
\* make the loop spin (compilation.h; record 0011).
OneModuleOfAFile ==
    /\ \A i, j \in Index :
          Canonical(modules[i].path) = Canonical(modules[j].path) => i = j
    /\ \A i \in Index : byPath[Canonical(modules[i].path)] = i

\* what module m wrote leads to some files: each has a place, its import and
\* then, in a star, the order of the paths
ImportsOf(m) == text[Canonical(modules[m].path)]
Places(imports, root) ==
    {p \in (DOMAIN imports) \X (DOMAIN Disk) :
        Disk[p[2]] \in FilesAt(root, imports[p[1]])}
NotAfter(p, q) == p[1] < q[1] \/ (p[1] = q[1] /\ p[2] <= q[2])
Rank(places, p) == Cardinality({q \in places : NotAfter(q, p)})

Finished(m) == m < at /\ modules[m].parsed /\ ~onlyParse
                      /\ modules[m].root # INVALID_ROOT

\* An import that was answered is a dependency, in the order the source wrote
\* them, and one that was not is reported: a bare name is resolved by walking
\* this list (records 0009 and 0013).
AnsweredInOrder ==
    \A m \in Index : Finished(m) =>
        LET imports == ImportsOf(m)
            places == Places(imports, modules[m].root)
            deps == modules[m].dependencies
        IN /\ \A p \in places :
                 /\ Rank(places, p) \in DOMAIN deps
                 /\ deps[Rank(places, p)] =
                       [module |-> byPath[Canonical(Disk[p[2]])],
                        alias |-> imports[p[1]].alias]
           /\ \A i \in DOMAIN imports :
                 (AnswerAt(modules[m].root, imports[i]).status # "ok")
                     <=> \E r \in reports : r.module = m /\ r.import = i

\* What the prelude gives comes after what the source wrote, with no alias,
\* and gives no module itself nor one it has: a dependency twice offers every
\* candidate twice to an overloaded call (record 0033).
PreludeLastAndOnce ==
    \A m \in Index : Finished(m) =>
        LET deps == modules[m].dependencies
            written == Cardinality(Places(ImportsOf(m), modules[m].root))
        IN /\ \A i \in DOMAIN deps : i > written =>
                 /\ deps[i].alias = INVALID_STRING
                 /\ deps[i].module # m
                 /\ \A j \in DOMAIN deps :
                       deps[j].module = deps[i].module => i = j
           /\ \A p \in DOMAIN Prelude :
                 LET target == byPath[Canonical(Prelude[p].path)]
                 IN target = m \/ HasDependency(m, target)

\* What a module depends on, from the first to the last: what its source wrote,
\* line by line, then what the prelude gives.
ImportsInOrder == AnsweredInOrder /\ PreludeLastAndOnce

\* What a module is does not change once it was interned: its path, and the
\* root its own imports resolve in, stay what they were when it was first
\* reached, and what it depends on is only added to.
IdentityStays ==
    [][\A m \in Index :
         /\ m \in DOMAIN modules'
         /\ modules'[m].path = modules[m].path
         /\ modules'[m].root = modules[m].root
         /\ SubSeq(modules'[m].dependencies, 1, Len(modules[m].dependencies))
                = modules[m].dependencies]_vars

\* The name a module is given is one its own root reaches it by: the two rules
\* for <root>/<root>.hd, of the finder and of the name, are one rule. A link
\* out of the root has a name nobody could write.
NameReachesIt ==
    \A m \in Index :
        LET root == modules[m].root
            file == Canonical(modules[m].path)
            answer == Find(Roots, root, ModuleNameOfFile(Roots, root, file))
        IN root # INVALID_ROOT /\ StartsWith(file, Roots[root].path) =>
               /\ answer.status = "ok"
               /\ Canonical(answer.path) = file

\* A root does not capture the files of a root inside it: a file is of the
\* longest root that covers it (record 0010, the entry point).
OfTheLongestRoot ==
    \A m \in Index : modules[m].root # INVALID_ROOT =>
        modules[m].root = RootOfFile(Roots, modules[m].path)

-----------------------------------------------------------------------------
(* The loop is a search of what can be reached.                            *)

Visit(path, root) == [file |-> Canonical(path), root |-> root]
Visits == [file : {Canonical(f) : f \in Files}, root : RootNumbers]

\* what a visit leads to when the files write what t says
LeadsTo(t, visit) ==
    LET imports == t[visit.file]
        Of(import) == {Visit(f, AnswerAt(visit.root, import).root) :
                          f \in FilesAt(visit.root, import)}
    IN IF visit.root = INVALID_ROOT THEN {}
       ELSE (UNION {Of(imports[i]) : i \in DOMAIN imports})
                \cup {Visit(Prelude[p].path, Prelude[p].root) :
                          p \in DOMAIN Prelude}

Edges == [t \in Texts |-> [v \in Visits |-> LeadsTo(t, v)]]
NoEdges == [v \in Visits |-> {}]

Known(indices) == {Visit(modules[m].path, modules[m].root) : m \in indices}

Search == INSTANCE ModuleReach WITH
    edges <- IF onlyParse THEN NoEdges ELSE Edges[text],
    reached <- Known(Index),
    left <- Known({m \in Index : m < at}),
    read <- Known({m \in Index : m < at /\ modules[m].parsed}),
    over <- Over

\* Every file the entry reaches through what could be read is visited, no
\* other is, none twice, and the loop stops when it catches up with its list.
SearchesWhatIsReached == Search!Spec
=============================================================================
