-------------------------- MODULE ModuleGraphProofs --------------------------
(***************************************************************************)
(* What is proved of the build loop for every set of files, every table    *)
(* and every program: that the list of modules and the map of canonical    *)
(* paths describe one another, so that a file is never two modules, and    *)
(* that a module, once interned, stays what it is.                         *)
(***************************************************************************)
EXTENDS ModuleGraph, SequenceTheorems, FiniteSetTheorems, TLAPS

-----------------------------------------------------------------------------
(* The list and the map.                                                   *)

\* every dependency of a list is a module of it
Closed(list) ==
    \A m \in DOMAIN list : \A i \in DOMAIN list[m].dependencies :
        list[m].dependencies[i].module \in DOMAIN list

Typed(list, map) ==
    /\ list \in Seq(ModuleRecord)
    /\ map \in [Files -> Nat]
    /\ Closed(list)

\* the map says of each module where it is, and of no other file anything
Tidy(list, map) ==
    /\ \A i \in DOMAIN list : map[Canonical(list[i].path)] = i
    /\ \A k \in Files : map[k] # INVALID_MODULE =>
          map[k] \in DOMAIN list /\ Canonical(list[map[k]].path) = k

\* what a later list keeps of an earlier one
Kept(old, new) ==
    /\ new.path = old.path
    /\ new.root = old.root
    /\ SubSeq(new.dependencies, 1, Len(old.dependencies)) = old.dependencies
Extends(old, new) ==
    /\ DOMAIN old \subseteq DOMAIN new
    /\ \A m \in DOMAIN old : Kept(old[m], new[m])

\* the list grew at its end, and nowhere else
Grew(old, new) ==
    /\ DOMAIN old \subseteq DOMAIN new
    /\ \A m \in DOMAIN old : new[m] = old[m]

\* Of a set with one element, that element is the first.
LEMMA OnlyOne ==
    ASSUME NEW S, S \subseteq Nat, S # {}, \A i, j \in S : i = j
    PROVE  \E i \in S : \A j \in S : i <= j
<1>1. PICK i \in S : TRUE
  OBVIOUS
<1>2. i \in Nat
  BY <1>1
<1>3. i <= i
  BY <1>2
<1>4. \A j \in S : i <= j
  BY <1>1, <1>3, Zenon
<1>. QED
  BY <1>1, <1>4, Zenon

\* The path a file really has is that of a file.
LEMMA CanonicalFile == \A f \in Files : Canonical(f) \in Files
BY DiskAssumption, SMTT(60) DEF Canonical

\* A list keeps all there is of itself.
LEMMA ExtendsItself ==
    ASSUME NEW list \in Seq(ModuleRecord)
    PROVE  Extends(list, list)
<1>1. ASSUME NEW m \in DOMAIN list
      PROVE  SubSeq(list[m].dependencies, 1, Len(list[m].dependencies))
                = list[m].dependencies
  <2>1. list[m] \in ModuleRecord
    BY ElementOfSeq, LenProperties
  <2>2. list[m].dependencies \in Seq(Dependency)
    BY <2>1 DEF ModuleRecord
  <2>. QED
    BY <2>2, SubSeqFull
<1>. QED
  BY <1>1 DEF Extends, Kept

\* Interning a path leaves the list and the map in agreement, gives the index
\* of a module of the list, and touches no module that was there.
LEMMA Interning ==
    ASSUME Typed(modules, byPath), Tidy(modules, byPath),
           NEW path \in Files, NEW root \in RootNumbers
    PROVE  /\ Typed(WithInterned(path, root), WithKey(path))
           /\ Tidy(WithInterned(path, root), WithKey(path))
           /\ InternedAt(path) \in DOMAIN WithInterned(path, root)
           /\ Grew(modules, WithInterned(path, root))
<1>. DEFINE k == Canonical(path)
            list == WithInterned(path, root)
            map == WithKey(path)
<1>1. k \in Files /\ byPath \in [Files -> Nat] /\ modules \in Seq(ModuleRecord)
  BY CanonicalFile DEF Typed
<1>2. CASE byPath[k] # INVALID_MODULE
  <2>1. list = modules /\ InternedAt(path) = byPath[k]
    BY <1>2 DEF WithInterned, InternedAt, Key
  <2>2. map = byPath
    BY <1>1, <2>1 DEF WithKey, Key
  <2>3. byPath[k] \in DOMAIN modules
    BY <1>1, <1>2 DEF Tidy
  <2>. QED
    BY <1>1, <2>1, <2>2, <2>3 DEF Grew
<1>3. CASE byPath[k] = INVALID_MODULE
  <2>. DEFINE new == Made(path, root)
  <2>1. list = Append(modules, new) /\ InternedAt(path) = Len(modules) + 1
    BY <1>3 DEF WithInterned, InternedAt, Key
  <2>2. map = [byPath EXCEPT ![k] = Len(modules) + 1]
    BY <2>1 DEF WithKey, Key
  <2>3. /\ new \in ModuleRecord /\ new.path = path
        /\ new.dependencies = <<>>
    BY DEF Made, ModuleRecord, Dependency
  <2>. HIDE DEF new, list, map, k
  <2>4. /\ list \in Seq(ModuleRecord)
        /\ Len(list) = Len(modules) + 1
        /\ DOMAIN list = 1 .. Len(modules) + 1
        /\ DOMAIN modules = 1 .. Len(modules)
        /\ \A i \in DOMAIN modules : list[i] = modules[i]
        /\ list[Len(modules) + 1] = new
    BY <1>1, <2>1, <2>3, AppendProperties, LenProperties
  <2>5. Len(modules) \in Nat
    BY <1>1, LenProperties
  <2>6. /\ map \in [Files -> Nat] /\ map[k] = Len(modules) + 1
        /\ \A f \in Files : f # k => map[f] = byPath[f]
    BY <1>1, <2>2, <2>5
  <2>7. Closed(list)
    <3>1. ASSUME NEW m \in DOMAIN list, NEW i \in DOMAIN list[m].dependencies
          PROVE  list[m].dependencies[i].module \in DOMAIN list
      <4>1. CASE m \in DOMAIN modules
        <5>1. list[m].dependencies[i].module \in DOMAIN modules
          BY <4>1, <2>4 DEF Typed, Closed
        <5>. QED
          BY <5>1, <2>4, <2>5
      <4>2. CASE m = Len(modules) + 1
        BY <4>2, <2>3, <2>4
      <4>. QED
        BY <4>1, <4>2, <2>4, <2>5
    <3>. QED
      BY <3>1 DEF Closed
  <2>8. \A i \in DOMAIN modules :
           /\ Canonical(modules[i].path) \in Files
           /\ Canonical(modules[i].path) # k
    <3>1. ASSUME NEW i \in DOMAIN modules
          PROVE  Canonical(modules[i].path) \in Files
      <4>1. modules[i] \in ModuleRecord
        BY <1>1, ElementOfSeq, LenProperties
      <4>. QED
        BY <4>1, CanonicalFile DEF ModuleRecord
    <3>2. \A i \in DOMAIN modules : byPath[Canonical(modules[i].path)] # 0
      BY <2>4, <2>5 DEF Tidy
    <3>. QED
      BY <3>1, <3>2, <1>3 DEF INVALID_MODULE
  <2>9. Tidy(list, map)
    <3>1. \A i \in DOMAIN list : map[Canonical(list[i].path)] = i
      <4>1. \A i \in DOMAIN modules : map[Canonical(list[i].path)] = i
        BY <2>4, <2>6, <2>8 DEF Tidy
      <4>2. Canonical(list[Len(modules) + 1].path) = k
        BY <2>3, <2>4 DEF k
      <4>. QED
        BY <4>1, <4>2, <2>4, <2>5, <2>6
    <3>2. ASSUME NEW f \in Files, map[f] # INVALID_MODULE
          PROVE  map[f] \in DOMAIN list /\ Canonical(list[map[f]].path) = f
      <4>1. CASE f = k
        BY <4>1, <2>3, <2>4, <2>5, <2>6 DEF k
      <4>2. CASE f # k
        <5>1. map[f] = byPath[f]
          BY <4>2, <2>6
        <5>2. map[f] \in DOMAIN modules /\ Canonical(modules[map[f]].path) = f
          BY <5>1, <3>2 DEF Tidy
        <5>. QED
          BY <5>2, <2>4, <2>5
      <4>. QED
        BY <4>1, <4>2
    <3>. QED
      BY <3>1, <3>2 DEF Tidy
  <2>10. Grew(modules, list)
    BY <2>4, <2>5 DEF Grew
  <2>11. InternedAt(path) \in DOMAIN list
    BY <2>1, <2>4, <2>5
  <2>. QED
    BY <2>4, <2>6, <2>7, <2>9, <2>10, <2>11 DEF Typed, list, map
<1>. QED
  BY <1>2, <1>3

\* Writing a module's dependency, or that it parsed, disturbs nothing else.
LEMMA Depending ==
    ASSUME NEW list, NEW map, Typed(list, map), Tidy(list, map),
           NEW index \in DOMAIN list, NEW target \in DOMAIN list,
           NEW alias \in Aliases
    PROVE  /\ Typed(Depends(list, index, target, alias), map)
           /\ Tidy(Depends(list, index, target, alias), map)
           /\ Extends(list, Depends(list, index, target, alias))
<1>. DEFINE old == list[index].dependencies
            edge == [module |-> target, alias |-> alias]
            new == [list[index] EXCEPT !.dependencies = Append(old, edge)]
            after == Depends(list, index, target, alias)
<1>1. /\ list \in Seq(ModuleRecord) /\ Len(list) \in Nat
      /\ DOMAIN list = 1 .. Len(list)
  BY LenProperties DEF Typed
<1>2. list[index] \in ModuleRecord /\ old \in Seq(Dependency)
  <2>1. list[index] \in ModuleRecord
    BY <1>1, ElementOfSeq
  <2>. QED
    BY <2>1 DEF ModuleRecord
<1>3. edge \in Dependency /\ edge.module = target
  BY <1>1 DEF Dependency
<1>4. after = [list EXCEPT ![index] = new]
  BY DEF Depends
<1>5. /\ Append(old, edge) \in Seq(Dependency)
      /\ DOMAIN Append(old, edge) = 1 .. Len(old) + 1
      /\ DOMAIN old = 1 .. Len(old) /\ Len(old) \in Nat
      /\ \A i \in DOMAIN old : Append(old, edge)[i] = old[i]
      /\ Append(old, edge)[Len(old) + 1] = edge
      /\ SubSeq(Append(old, edge), 1, Len(old)) = old
  BY <1>2, <1>3, AppendProperties, LenProperties
<1>6. /\ new \in ModuleRecord /\ new.path = list[index].path
      /\ new.root = list[index].root /\ new.dependencies = Append(old, edge)
  BY <1>2, <1>5 DEF ModuleRecord
<1>. HIDE DEF new, after, old, edge
<1>7. /\ after \in Seq(ModuleRecord) /\ DOMAIN after = DOMAIN list
      /\ after[index] = new
      /\ \A m \in DOMAIN list : m # index => after[m] = list[m]
  BY <1>1, <1>4, <1>6, ExceptSeq
<1>8. Closed(after)
  <2>1. ASSUME NEW m \in DOMAIN after, NEW i \in DOMAIN after[m].dependencies
        PROVE  after[m].dependencies[i].module \in DOMAIN after
    <3>1. CASE m = index
      <4>1. i \in 1 .. Len(old) + 1
        BY <3>1, <1>5, <1>6, <1>7
      <4>2. CASE i \in DOMAIN old
        <5>1. old[i].module \in DOMAIN list
          BY <4>2 DEF Typed, Closed, old
        <5>. QED
          BY <3>1, <4>2, <5>1, <1>5, <1>6, <1>7
      <4>3. CASE i = Len(old) + 1
        BY <3>1, <4>3, <1>3, <1>5, <1>6, <1>7
      <4>. QED
        BY <4>1, <4>2, <4>3, <1>5
    <3>2. CASE m # index
      BY <3>2, <1>7 DEF Typed, Closed
    <3>. QED
      BY <3>1, <3>2
  <2>. QED
    BY <2>1 DEF Closed
<1>9. \A m \in DOMAIN list : after[m].path = list[m].path
  BY <1>6, <1>7
<1>10. Tidy(after, map)
  BY <1>7, <1>9 DEF Tidy
<1>11. Extends(list, after)
  <2>1. Extends(list, list)
    BY <1>1, ExtendsItself
  <2>2. Kept(list[index], after[index])
    BY <1>5, <1>6, <1>7 DEF Kept, old
  <2>. QED
    BY <2>1, <2>2, <1>7 DEF Extends
<1>. QED
  BY <1>7, <1>8, <1>10, <1>11 DEF Typed, after

-----------------------------------------------------------------------------
(* The loop.                                                               *)

\* What the loop holds of itself, beside the list and the map.
LoopTyped ==
    /\ entry \in Files /\ hasTable \in BOOLEAN /\ onlyParse \in BOOLEAN
    /\ text \in [Files -> Seq(Imports)]
    /\ at \in Nat \ {0} /\ imported \in Nat /\ given \in Nat
    /\ step \in {"entry", "load", "imports", "done", "failed"}
    /\ found \in [files : SUBSET Files, root : RootNumbers, alias : Aliases]
    /\ error \in BOOLEAN
    /\ step = "imports" => at \in Index

\* The inductive invariant.
Inv == LoopTyped /\ Typed(modules, byPath) /\ Tidy(modules, byPath)

\* The invariant says more than the types do.
LEMMA InvType == Inv => TypeOK
BY DEF Inv, LoopTyped, Typed, Closed, TypeOK, Index

\* Two modules of one file would have one entry in the map, and two indices.
LEMMA InvOne == Inv => OneModuleOfAFile
BY DEF Inv, Typed, Tidy, OneModuleOfAFile, Index

\* A root sees a name once, so what it sees by it is one of the roots.
LEMMA RootSeen ==
    ASSUME NEW root \in RootNumbers, NEW name
    PROVE  TargetOf(Roots, root, name) \in RootNumbers
<1>. DEFINE lines == Roots[root].sees
            named == {i \in DOMAIN lines : lines[i].name = Head(name)}
            first == CHOOSE i \in named : \A j \in named : i <= j
<1>1. CASE root = INVALID_ROOT \/ named = {}
  BY <1>1 DEF TargetOf, VisibleRoot, RootNumbers
<1>2. CASE root # INVALID_ROOT /\ named # {}
  <2>1. root \in DOMAIN Roots /\ Roots \in Seq([name : STRING,
             path : Seq(STRING), sees : Seq([name : STRING, root : Nat])])
    BY <1>2, RootsAssumption DEF RootNumbers
  <2>2. Roots[root] \in [name : STRING, path : Seq(STRING),
                         sees : Seq([name : STRING, root : Nat])]
    BY <2>1, ElementOfSeq, LenProperties
  <2>3. lines \in Seq([name : STRING, root : Nat])
    BY <2>2
  <2>4. DOMAIN lines \subseteq Nat
    BY <2>3, LenProperties
  <2>5. \A i, j \in named : i = j
    BY <2>1, RootsAssumption
  <2>6. \E i \in named : \A j \in named : i <= j
    BY <1>2, <2>4, <2>5
  <2>7. first \in named
    BY <2>6
  <2>8. lines[first].root \in DOMAIN Roots
    BY <2>1, <2>7, RootsAssumption
  <2>9. TargetOf(Roots, root, name) = lines[first].root
    BY <1>2 DEF TargetOf, VisibleRoot
  <2>. QED
    BY <2>8, <2>9, ZenonT(60) DEF RootNumbers
<1>. QED
  BY <1>1, <1>2

\* What an import reaches is files, of a root there is.
LEMMA Finding ==
    ASSUME NEW root \in RootNumbers, NEW import \in Imports
    PROVE  /\ FilesAt(root, import) \in SUBSET Files
           /\ AnswerAt(root, import).status = "ok" =>
                 AnswerAt(root, import).root \in RootNumbers
           /\ AnswerAt(root, import).status # "ok" => FilesAt(root, import) = {}
<1>. DEFINE target == TargetOf(Roots, root, import.name)
<1>1. target \in RootNumbers
  BY RootSeen
<1>. HIDE DEF target
<1>2. /\ Find(Roots, root, import.name).status = "ok" =>
            /\ Find(Roots, root, import.name).path \in Files
            /\ Find(Roots, root, import.name).root \in RootNumbers
      /\ FindAll(Roots, root, import.name).status = "ok" =>
            /\ FindAll(Roots, root, import.name).files \in SUBSET Files
            /\ FindAll(Roots, root, import.name).root \in RootNumbers
  BY <1>1 DEF Find, FindAll, Missing, Reached, target
<1>3. CASE import.star
  BY <1>2, <1>3 DEF FilesAt, AnswerAt
<1>4. CASE ~import.star
  <2>1. AnswerAt(root, import) = Find(Roots, root, import.name)
    BY <1>4 DEF AnswerAt
  <2>. QED
    BY <1>2, <1>4, <2>1 DEF FilesAt
<1>. QED
  BY <1>3, <1>4

\* The first state satisfies the invariant.
LEMMA InitInv == Init => Inv
<1>. SUFFICES ASSUME Init PROVE Inv
  OBVIOUS
<1>1. /\ entry \in Files /\ hasTable \in BOOLEAN
      /\ text \in [Files -> Seq(Imports)]
  BY EntriesAssumption, TextsAssumption DEF Init
<1>2. Nothing \in [files : SUBSET Files, root : RootNumbers, alias : Aliases]
  <2>1. INVALID_STRING \in Aliases
    BY AliasesAssumption
  <2>2. INVALID_ROOT \in RootNumbers /\ {} \in SUBSET Files
    BY DEF RootNumbers
  <2>. QED
    BY <2>1, <2>2 DEF Nothing
<1>3. LoopTyped
  <2>1. error \in BOOLEAN /\ onlyParse \in BOOLEAN
    BY DEF Init
  <2>2. /\ at \in Nat \ {0} /\ imported \in Nat /\ given \in Nat
        /\ step = "entry"
    BY DEF Init
  <2>3. found = Nothing
    BY DEF Init
  <2>. QED
    BY <1>1, <1>2, <2>1, <2>2, <2>3 DEF LoopTyped
<1>4. modules = <<>> /\ byPath = [f \in Files |-> INVALID_MODULE]
  BY DEF Init
<1>5. modules \in Seq(ModuleRecord) /\ DOMAIN modules = {}
  BY <1>4, EmptySeq
<1>6. byPath \in [Files -> Nat]
  BY <1>4 DEF INVALID_MODULE
<1>7. Typed(modules, byPath) /\ Tidy(modules, byPath)
  BY <1>4, <1>5, <1>6 DEF Typed, Tidy, Closed
<1>. QED
  BY <1>3, <1>7 DEF Inv

\* Noting that a module parsed disturbs nothing else.
LEMMA Noting ==
    ASSUME Typed(modules, byPath), Tidy(modules, byPath), at \in DOMAIN modules
    PROVE  LET after == [modules EXCEPT ![at].parsed = TRUE]
           IN  /\ Typed(after, byPath)
               /\ Tidy(after, byPath)
               /\ Extends(modules, after)
<1>. DEFINE new == [modules[at] EXCEPT !.parsed = TRUE]
            after == [modules EXCEPT ![at].parsed = TRUE]
<1>1. /\ modules \in Seq(ModuleRecord)
      /\ DOMAIN modules = 1 .. Len(modules)
  BY LenProperties DEF Typed
<1>2. modules[at] \in ModuleRecord
  BY <1>1, ElementOfSeq
<1>3. /\ new \in ModuleRecord /\ new.path = modules[at].path
      /\ new.root = modules[at].root
      /\ new.dependencies = modules[at].dependencies
  BY <1>2 DEF ModuleRecord
<1>4. after = [modules EXCEPT ![at] = new]
  OBVIOUS
<1>. HIDE DEF new, after
<1>5. /\ after \in Seq(ModuleRecord) /\ DOMAIN after = DOMAIN modules
      /\ after[at] = new
      /\ \A m \in DOMAIN modules : m # at => after[m] = modules[m]
  BY <1>1, <1>3, <1>4, ExceptSeq
<1>6. \A m \in DOMAIN modules : /\ after[m].path = modules[m].path
                                /\ after[m].root = modules[m].root
                                /\ after[m].dependencies
                                       = modules[m].dependencies
  BY <1>3, <1>5
<1>7. Closed(after) /\ Tidy(after, byPath)
  BY <1>5, <1>6 DEF Typed, Closed, Tidy
<1>8. Extends(modules, after)
  BY <1>1, <1>5, <1>6, ExtendsItself DEF Extends, Kept
<1>. QED
  BY <1>5, <1>7, <1>8 DEF Typed, after

\* Interning a file and depending on it, as an import or the prelude does.
LEMMA InternAndDepend ==
    ASSUME Typed(modules, byPath), Tidy(modules, byPath),
           at \in DOMAIN modules,
           NEW path \in Files, NEW root \in RootNumbers, NEW alias \in Aliases
    PROVE  LET after == Depends(WithInterned(path, root), at,
                                InternedAt(path), alias)
           IN  /\ Typed(after, WithKey(path))
               /\ Tidy(after, WithKey(path))
               /\ Extends(modules, after)
<1>. DEFINE list == WithInterned(path, root)
            map == WithKey(path)
            after == Depends(list, at, InternedAt(path), alias)
<1>1. /\ Typed(list, map) /\ Tidy(list, map)
      /\ InternedAt(path) \in DOMAIN list
      /\ Grew(modules, list)
  BY Interning
<1>2. at \in DOMAIN list
  BY <1>1 DEF Grew
<1>. HIDE DEF list, map
<1>3. Typed(after, map) /\ Tidy(after, map) /\ Extends(list, after)
  BY <1>1, <1>2, Depending
<1>. HIDE DEF after
<1>4. Extends(modules, after)
  BY <1>1, <1>3 DEF Grew, Extends
<1>. QED
  BY <1>3, <1>4 DEF after, list, map

-----------------------------------------------------------------------------
(* One step.                                                               *)

\* What a step keeps: the invariant, and every module that was interned.
Keeps == Inv' /\ Extends(modules, modules')

\* The entry file becomes the first module (build).
LEMMA EnterKeeps == Inv /\ Enter => Keeps
<1>. SUFFICES ASSUME Inv, Enter PROVE Keeps
  OBVIOUS
<1>1. PICK root \in RootNumbers :
        \/ /\ step' = "failed" /\ error' = TRUE
           /\ UNCHANGED <<modules, byPath>>
        \/ /\ modules' = WithInterned(entry, root)
           /\ byPath' = WithKey(entry)
           /\ step' = "load" /\ UNCHANGED error
  BY DEF Enter
<1>2. step' \in {"failed", "load"} /\ error' \in BOOLEAN
  BY <1>1 DEF Inv, LoopTyped
<1>3. LoopTyped'
  BY <1>2 DEF Inv, LoopTyped, Enter, program
<1>4. entry \in Files /\ modules \in Seq(ModuleRecord)
  BY DEF Inv, LoopTyped, Typed
<1>5. CASE UNCHANGED <<modules, byPath>>
  BY <1>3, <1>4, <1>5, ExtendsItself DEF Inv, Keeps, Typed, Tidy, Closed
<1>6. CASE modules' = WithInterned(entry, root) /\ byPath' = WithKey(entry)
  <2>1. /\ Typed(modules', byPath') /\ Tidy(modules', byPath')
        /\ Grew(modules, modules')
    BY <1>4, <1>6, Interning DEF Inv
  <2>2. Extends(modules, modules')
    BY <1>4, <2>1, ExtendsItself DEF Grew, Extends
  <2>. QED
    BY <1>3, <2>1, <2>2 DEF Keeps, Inv, Typed, Tidy, Closed
<1>. QED
  BY <1>1, <1>5, <1>6

\* The steps that leave the list and the map as they are.
LEMMA SameKeeps ==
    ASSUME Inv, LoopTyped', UNCHANGED <<modules, byPath>>
    PROVE  Keeps
<1>1. modules \in Seq(ModuleRecord)
  BY DEF Inv, Typed
<1>. QED
  BY <1>1, ExtendsItself DEF Inv, Keeps, Typed, Tidy, Closed

\* A file that cannot be read, or does not parse, leaves the list as it is.
LEMMA NotParsedKeeps == Inv /\ (Unreadable \/ DoesNotParse) => Keeps
<1>. SUFFICES ASSUME Inv, NEW gone \in BOOLEAN, NotParsed(gone) PROVE Keeps
  BY DEF Unreadable, DoesNotParse
<1>1. error' \in BOOLEAN
  BY DEF Inv, LoopTyped, NotParsed
<1>2. at' \in Nat \ {0} /\ step' = "load"
  BY DEF Inv, LoopTyped, NotParsed, Loading
<1>3. LoopTyped'
  BY <1>1, <1>2 DEF Inv, LoopTyped, NotParsed, program
<1>. QED
  BY <1>3, SameKeeps DEF NotParsed

\* A module that parses is marked, and goes on to its imports.
LEMMA ParsesKeeps == Inv /\ Parses => Keeps
<1>. SUFFICES ASSUME Inv, Parses PROVE Keeps
  OBVIOUS
<1>1. /\ modules \in Seq(ModuleRecord) /\ Len(modules) \in Nat
      /\ DOMAIN modules = 1 .. Len(modules)
  BY LenProperties DEF Inv, Typed
<1>2. at \in DOMAIN modules
  BY <1>1 DEF Inv, LoopTyped, Parses, Loading
<1>3. /\ Typed(modules', byPath) /\ Tidy(modules', byPath)
      /\ Extends(modules, modules')
  BY <1>2, Noting DEF Inv, Parses
<1>4. /\ at' \in Nat \ {0}
      /\ step' \in {"load", "imports"}
      /\ step' = "imports" => at' = at
  BY DEF Inv, LoopTyped, Parses, Loading
<1>5. at \in DOMAIN modules'
  BY <1>2, <1>3 DEF Extends
<1>6. LoopTyped'
  BY <1>4, <1>5 DEF Inv, LoopTyped, Parses, program, Index
<1>. QED
  BY <1>3, <1>6 DEF Keeps, Inv, Typed, Tidy, Closed, Parses

\* The module in hand is one of the list while its imports are followed.
LEMMA InHand ==
    ASSUME Inv, Following
    PROVE  /\ at \in DOMAIN modules
           /\ modules[at] \in ModuleRecord
           /\ Key(modules[at].path) \in Files
<1>1. at \in DOMAIN modules /\ modules \in Seq(ModuleRecord)
  BY DEF Inv, LoopTyped, Typed, Following, Index
<1>2. modules[at] \in ModuleRecord
  BY <1>1, ElementOfSeq, LenProperties
<1>. QED
  BY <1>1, <1>2, CanonicalFile DEF ModuleRecord, Key

\* What the finder answers is a set of files, and of roots there are.
LEMMA ResolveImportKeeps == Inv /\ ResolveImport => Keeps
<1>. SUFFICES ASSUME Inv, ResolveImport PROVE Keeps
  OBVIOUS
<1>. DEFINE import == Writes[imported + 1]
            root == modules[at].root
<1>1. /\ modules[at] \in ModuleRecord
      /\ Key(modules[at].path) \in Files
  BY InHand DEF ResolveImport
<1>2. root \in RootNumbers
  BY <1>1 DEF ModuleRecord
<1>3. Writes \in Seq(Imports)
  BY <1>1 DEF Writes, Inv, LoopTyped
<1>4. imported + 1 \in 1 .. Len(Writes)
  <2>1. Len(Writes) \in Nat /\ imported \in Nat
    BY <1>3, LenProperties DEF Inv, LoopTyped
  <2>. QED
    BY <2>1 DEF ResolveImport
<1>5. import \in Imports
  BY <1>3, <1>4, ElementOfSeq
<1>6. import.alias \in Aliases
  BY <1>5 DEF Imports
<1>. HIDE DEF import, root
<1>7. found' \in [files : SUBSET Files, root : RootNumbers, alias : Aliases]
  <2>1. CASE UNCHANGED found
    BY <2>1 DEF Inv, LoopTyped
  <2>2. CASE /\ AnswerAt(root, import).status = "ok"
             /\ found' = [files |-> FilesAt(root, import),
                          root |-> AnswerAt(root, import).root,
                          alias |-> import.alias]
    BY <2>2, <1>2, <1>5, <1>6, Finding
  <2>. QED
    BY <2>1, <2>2 DEF ResolveImport, import, root
<1>8. imported' \in Nat
  BY DEF ResolveImport, Inv, LoopTyped
<1>9. LoopTyped'
  BY <1>7, <1>8 DEF Inv, LoopTyped, ResolveImport, program, Index
<1>. QED
  BY <1>9, SameKeeps DEF ResolveImport

\* One file of an import is interned and depended on (resolve_imports).
LEMMA AddDependencyKeeps == Inv /\ AddDependency => Keeps
<1>. SUFFICES ASSUME Inv, AddDependency PROVE Keeps
  OBVIOUS
<1>1. found \in [files : SUBSET Files, root : RootNumbers, alias : Aliases]
  BY DEF Inv, LoopTyped
<1>2. PICK file \in found.files :
         /\ modules' = Depends(WithInterned(file, found.root), at,
                               InternedAt(file), found.alias)
         /\ byPath' = WithKey(file)
         /\ found' = [found EXCEPT !.files = @ \ {file}]
  BY DEF AddDependency
<1>3. file \in Files /\ found.root \in RootNumbers /\ found.alias \in Aliases
  BY <1>1
<1>4. at \in DOMAIN modules
  BY InHand DEF AddDependency
<1>5. /\ Typed(modules', byPath') /\ Tidy(modules', byPath')
      /\ Extends(modules, modules')
  BY <1>2, <1>3, <1>4, InternAndDepend DEF Inv
<1>6. found' \in [files : SUBSET Files, root : RootNumbers, alias : Aliases]
  BY <1>1, <1>2
<1>7. at \in DOMAIN modules'
  BY <1>4, <1>5 DEF Extends
<1>8. LoopTyped'
  BY <1>6, <1>7 DEF Inv, LoopTyped, AddDependency, program, Index
<1>. QED
  BY <1>5, <1>8 DEF Keeps, Inv, Typed, Tidy, Closed

\* One file of the prelude is, unless the module has it (add_prelude).
LEMMA AddPreludeKeeps == Inv /\ AddPrelude => Keeps
<1>. SUFFICES ASSUME Inv, AddPrelude PROVE Keeps
  OBVIOUS
<1>. DEFINE offer == Prelude[given + 1]
            target == InternedAt(offer.path)
            interned == WithInterned(offer.path, offer.root)
<1>1. given + 1 \in 1 .. Len(Prelude)
  <2>1. Len(Prelude) \in Nat /\ given \in Nat
    BY PreludeAssumption, LenProperties DEF Inv, LoopTyped
  <2>. QED
    BY <2>1 DEF AddPrelude
<1>2. offer \in [path : Files, root : DOMAIN Roots]
  BY <1>1, PreludeAssumption, ElementOfSeq
<1>3. offer.path \in Files /\ offer.root \in RootNumbers
  BY <1>2 DEF RootNumbers
<1>. HIDE DEF offer
<1>4. /\ at \in DOMAIN modules
      /\ modules \in Seq(ModuleRecord)
  BY InHand DEF AddPrelude, Inv, Typed
<1>5. /\ Typed(modules', byPath') /\ Tidy(modules', byPath')
      /\ Extends(modules, modules')
  <2>1. byPath' = WithKey(offer.path)
    BY DEF AddPrelude, offer
  <2>2. CASE modules' = interned
    <3>1. /\ Typed(interned, WithKey(offer.path))
          /\ Tidy(interned, WithKey(offer.path))
          /\ Grew(modules, interned)
      BY <1>3, Interning DEF Inv
    <3>2. Extends(modules, interned)
      BY <1>4, <3>1, ExtendsItself DEF Grew, Extends
    <3>. QED
      BY <2>1, <2>2, <3>1, <3>2
  <2>3. CASE modules' = Depends(interned, at, target, INVALID_STRING)
    BY <1>3, <1>4, <2>1, <2>3, AliasesAssumption, InternAndDepend DEF Inv
  <2>. QED
    BY <2>2, <2>3 DEF AddPrelude, offer
<1>6. at \in DOMAIN modules'
  BY <1>4, <1>5 DEF Extends
<1>7. given' \in Nat
  BY DEF AddPrelude, Inv, LoopTyped
<1>8. LoopTyped'
  BY <1>6, <1>7 DEF Inv, LoopTyped, AddPrelude, program, Index
<1>. QED
  BY <1>5, <1>8 DEF Keeps, Inv, Typed, Tidy, Closed

\* Going on to the next module, and ending, touch nothing that is kept.
LEMMA LeavingKeeps ==
    Inv /\ (LeaveModule \/ Finish \/ UNCHANGED vars) => Keeps
<1>1. ASSUME Inv, LeaveModule PROVE Keeps
  <2>1. at' \in Nat \ {0} /\ step' = "load"
    BY <1>1 DEF Inv, LoopTyped, LeaveModule
  <2>2. LoopTyped'
    BY <1>1, <2>1 DEF Inv, LoopTyped, LeaveModule, program
  <2>. QED
    BY <1>1, <2>2, SameKeeps DEF LeaveModule
<1>2. ASSUME Inv, Finish PROVE Keeps
  <2>1. LoopTyped'
    BY <1>2 DEF Inv, LoopTyped, Finish, program
  <2>. QED
    BY <1>2, <2>1, SameKeeps DEF Finish
<1>3. ASSUME Inv, UNCHANGED vars PROVE Keeps
  <2>1. LoopTyped'
    BY <1>3 DEF Inv, LoopTyped, vars, Index
  <2>. QED
    BY <1>3, <2>1, SameKeeps DEF vars
<1>. QED
  BY <1>1, <1>2, <1>3

\* Every step keeps the invariant and every module there was.
LEMMA NextKeeps == Inv /\ [Next]_vars => Keeps
<1>. SUFFICES ASSUME Inv, [Next]_vars PROVE Keeps
  OBVIOUS
<1>1. CASE Enter
  BY <1>1, EnterKeeps
<1>2. CASE Unreadable \/ DoesNotParse
  BY <1>2, NotParsedKeeps
<1>3. CASE Parses
  BY <1>3, ParsesKeeps
<1>4. CASE ResolveImport
  BY <1>4, ResolveImportKeeps
<1>5. CASE AddDependency
  BY <1>5, AddDependencyKeeps
<1>6. CASE AddPrelude
  BY <1>6, AddPreludeKeeps
<1>7. CASE LeaveModule \/ Finish \/ UNCHANGED vars
  BY <1>7, LeavingKeeps
<1>. QED
  BY <1>1, <1>2, <1>3, <1>4, <1>5, <1>6, <1>7 DEF Next, Done

-----------------------------------------------------------------------------
(* The order of the dependencies: a place of what a module wrote is an      *)
(* import of it and a file that import leads to.                           *)

\* the places that were turned into dependencies, when n imports were answered
\* and some files of the last are left
DoneUpTo(places, n, files) ==
    {p \in places : p[1] < n \/ (p[1] = n /\ Disk[p[2]] \notin files)}

\* what was done stands at its rank, in a list of dependencies
Entered(deps, imports, root, map, done) ==
    \A p \in done :
        /\ Rank(Places(imports, root), p) \in DOMAIN deps
        /\ deps[Rank(Places(imports, root), p)] =
              [module |-> map[Canonical(Disk[p[2]])],
               alias |-> imports[p[1]].alias]
        /\ map[Canonical(Disk[p[2]])] # INVALID_MODULE

\* what comes after the dependencies that were written is of the prelude
Late(deps, m, written) ==
    \A i \in DOMAIN deps : i > written =>
        /\ deps[i].alias = INVALID_STRING
        /\ deps[i].module # m
        /\ \A j \in DOMAIN deps : deps[j].module = deps[i].module => i = j

\* a module has the first n entries of the prelude, or is one
Offered(deps, m, map, n) ==
    \A p \in 1 .. n :
        LET target == map[Canonical(Prelude[p].path)]
        IN /\ target # INVALID_MODULE
           /\ target = m \/ \E i \in DOMAIN deps : deps[i].module = target

\* the first n imports that reached nothing are reported, and no other
Told(reps, m, i) == \E r \in reps : r.module = m /\ r.import = i
Reported(m, root, imports, reps, n) ==
    \A i \in 1 .. n :
        (AnswerAt(root, imports[i]).status # "ok") <=> Told(reps, m, i)

\* a module the loop left has all it asked for
Complete(module, m, imports, map, reps) ==
    LET places == Places(imports, module.root)
    IN /\ Entered(module.dependencies, imports, module.root, map, places)
       /\ Late(module.dependencies, m, Cardinality(places))
       /\ Offered(module.dependencies, m, map, Len(Prelude))
       /\ Reported(m, module.root, imports, reps, Len(imports))

\* the files still to be interned are of the import answered last, and none is
\* before one that was
InTurn(import, root, left) ==
    /\ left.files \subseteq FilesAt(root, import)
    /\ left.root = AnswerAt(root, import).root
    /\ left.alias = import.alias
    /\ \A f \in left.files, g \in FilesAt(root, import) \ left.files :
          ~Sooner(f, g)

\* and the one in hand has what was answered so far
Advanced(module, m, imports, map, reps, n, left, g) ==
    LET places == Places(imports, module.root)
        done == DoneUpTo(places, n, left.files)
    IN /\ n <= Len(imports) /\ g <= Len(Prelude)
       /\ g > 0 => n = Len(imports) /\ left.files = {}
       /\ g = 0 => Len(module.dependencies) = Cardinality(done)
       /\ Entered(module.dependencies, imports, module.root, map, done)
       /\ Late(module.dependencies, m, Cardinality(places))
       /\ Offered(module.dependencies, m, map, g)
       /\ Reported(m, module.root, imports, reps, n)
       /\ left.files # {} => n > 0 /\ InTurn(imports[n], module.root, left)

Untouched(module) == ~module.parsed /\ module.dependencies = <<>>

\* What holds of the modules that are not in hand, whatever the loop is doing:
\* those that are over are complete, and those to come have nothing.
Others ==
    /\ text \in Texts
    /\ step \in {"entry", "failed"} => modules = <<>> /\ at = 1 /\ reports = {}
    /\ step # "imports" => found.files = {}
    /\ step = "imports" => ~onlyParse /\ modules[at].parsed
    /\ \A m \in Index :
          m > at \/ (m = at /\ step # "imports") => Untouched(modules[m])
    /\ \A r \in reports :
          /\ r.module \in Nat /\ r.import \in Nat
          /\ \/ r.module < at
             \/ r.module = at /\ step = "imports" /\ r.import <= imported
    /\ \A m \in Index : Finished(m) =>
          Complete(modules[m], m, ImportsOf(m), byPath, reports)

\* what holds of the one in hand
Current ==
    step = "imports" =>
        IF modules[at].root = INVALID_ROOT THEN found.files = {}
        ELSE Advanced(modules[at], at, ImportsOf(at), byPath, reports,
                      imported, found, given)

\* The inductive invariant of the order.
Order == Others /\ Current

\* a later map keeps what an earlier one says
MapKept(old, new) == \A k \in Files : old[k] # INVALID_MODULE => new[k] = old[k]

\* one list of dependencies begins another
Begins(old, new) == Len(old) <= Len(new) /\ \A i \in 1 .. Len(old) : new[i] = old[i]

\* A file is at one place of the disk, and the order of the places is that of
\* the files.
LEMMA OnDisk ==
    /\ Len(Disk) \in Nat /\ DOMAIN Disk = 1 .. Len(Disk)
    /\ \A d \in DOMAIN Disk : Disk[d] \in Files
    /\ \A i, j \in DOMAIN Disk : Sooner(Disk[i], Disk[j]) <=> i <= j
<1>1. Len(Disk) \in Nat /\ DOMAIN Disk = 1 .. Len(Disk)
  BY DiskAssumption, LenProperties
<1>2. \A d \in DOMAIN Disk : Disk[d] \in Files
  BY DEF Files
<1>3. ASSUME NEW i \in DOMAIN Disk, NEW j \in DOMAIN Disk
      PROVE  Sooner(Disk[i], Disk[j]) <=> i <= j
  BY DiskAssumption DEF Sooner
<1>. QED
  BY <1>1, <1>2, <1>3

\* The places are finitely many pairs, of an import and a file it leads to.
LEMMA PlacesType ==
    ASSUME NEW imports \in Seq(Imports), NEW root
    PROVE  /\ IsFiniteSet(Places(imports, root))
           /\ \A p \in Places(imports, root) :
                /\ p[1] \in 1 .. Len(imports) /\ p[1] \in Nat
                /\ p[2] \in DOMAIN Disk /\ p[2] \in Nat
                /\ p = <<p[1], p[2]>>
                /\ Disk[p[2]] \in FilesAt(root, imports[p[1]])
                /\ Canonical(Disk[p[2]]) \in Files
<1>1. /\ Len(imports) \in Nat /\ DOMAIN imports = 1 .. Len(imports)
      /\ Len(Disk) \in Nat /\ DOMAIN Disk = 1 .. Len(Disk)
  BY LenProperties, OnDisk
<1>2. IsFiniteSet((DOMAIN imports) \X (DOMAIN Disk))
  <2>1. IsFiniteSet(DOMAIN imports) /\ IsFiniteSet(DOMAIN Disk)
    BY <1>1, FS_Interval
  <2>. QED
    BY <2>1, FS_Product
<1>3. Places(imports, root) \in SUBSET ((DOMAIN imports) \X (DOMAIN Disk))
  BY DEF Places
<1>4. IsFiniteSet(Places(imports, root))
  BY <1>2, <1>3, FS_Subset
<1>5. ASSUME NEW p \in Places(imports, root)
      PROVE  /\ p[1] \in DOMAIN imports /\ p[2] \in DOMAIN Disk /\ p = <<p[1], p[2]>>
             /\ Disk[p[2]] \in FilesAt(root, imports[p[1]])
  BY DEF Places
<1>6. ASSUME NEW p \in Places(imports, root)
      PROVE  Canonical(Disk[p[2]]) \in Files
  BY <1>5, OnDisk, CanonicalFile
<1>. QED
  BY <1>1, <1>4, <1>5, <1>6

\* The place that follows all that were done has the rank after theirs.
LEMMA NextRank ==
    ASSUME NEW imports \in Seq(Imports), NEW root,
           NEW done \in SUBSET Places(imports, root),
           NEW p \in Places(imports, root), p \notin done,
           \A q \in Places(imports, root) :
              NotAfter(q, p) <=> q \in done \cup {p}
    PROVE  /\ Cardinality(done) \in Nat
           /\ Rank(Places(imports, root), p) = Cardinality(done) + 1
           /\ Cardinality(done \cup {p}) = Cardinality(done) + 1
<1>1. IsFiniteSet(done)
  BY PlacesType, FS_Subset
<1>2. Cardinality(done) \in Nat /\ Cardinality(done \cup {p}) = Cardinality(done) + 1
  BY <1>1, FS_CardinalityType, FS_AddElement
<1>3. {q \in Places(imports, root) : NotAfter(q, p)} = done \cup {p}
  OBVIOUS
<1>. QED
  BY <1>2, <1>3 DEF Rank

\* What stands at its rank does in a longer list, and by a map that says more.
LEMMA EnteredStays ==
    ASSUME NEW imports \in Seq(Imports), NEW root,
           NEW done \in SUBSET Places(imports, root),
           NEW deps \in Seq(Dependency), NEW more \in Seq(Dependency),
           Begins(deps, more), NEW map, NEW new, MapKept(map, new),
           Entered(deps, imports, root, map, done)
    PROVE  Entered(more, imports, root, new, done)
<1>1. /\ DOMAIN deps = 1 .. Len(deps) /\ Len(deps) \in Nat
      /\ DOMAIN more = 1 .. Len(more) /\ Len(more) \in Nat
  BY LenProperties
<1>2. ASSUME NEW p \in done
      PROVE  LET k == Canonical(Disk[p[2]])
                 n == Rank(Places(imports, root), p)
             IN /\ n \in DOMAIN more
                /\ more[n] = [module |-> new[k], alias |-> imports[p[1]].alias]
                /\ new[k] # INVALID_MODULE
  <2>. DEFINE k == Canonical(Disk[p[2]])
              n == Rank(Places(imports, root), p)
  <2>1. k \in Files
    BY PlacesType
  <2>2. /\ n \in DOMAIN deps /\ map[k] # INVALID_MODULE
        /\ deps[n] = [module |-> map[k], alias |-> imports[p[1]].alias]
    BY DEF Entered
  <2>. HIDE DEF k, n
  <2>3. n \in DOMAIN more /\ more[n] = deps[n] /\ new[k] = map[k]
    BY <1>1, <2>1, <2>2 DEF Begins, MapKept
  <2>. QED
    BY <2>2, <2>3 DEF k, n
<1>. QED
  BY <1>2 DEF Entered

\* So does what the prelude gave.
LEMMA OfferedStays ==
    ASSUME NEW deps \in Seq(Dependency), NEW more \in Seq(Dependency),
           Begins(deps, more), NEW map, NEW new, MapKept(map, new), NEW m,
           NEW n \in Nat, n <= Len(Prelude), Offered(deps, m, map, n)
    PROVE  Offered(more, m, new, n)
<1>1. /\ DOMAIN deps = 1 .. Len(deps) /\ Len(deps) \in Nat
      /\ DOMAIN more = 1 .. Len(more) /\ Len(more) \in Nat
  BY LenProperties
<1>2. ASSUME NEW p \in 1 .. n
      PROVE  LET target == new[Canonical(Prelude[p].path)]
             IN /\ target # INVALID_MODULE
                /\ target = m \/ \E i \in DOMAIN more : more[i].module = target
  <2>. DEFINE k == Canonical(Prelude[p].path)
  <2>1. k \in Files
    <3>1. p \in 1 .. Len(Prelude)
      BY PreludeAssumption, LenProperties
    <3>2. Prelude[p] \in [path : Files, root : DOMAIN Roots]
      BY <3>1, PreludeAssumption, ElementOfSeq
    <3>. QED
      BY <3>2, CanonicalFile
  <2>2. /\ map[k] # INVALID_MODULE
        /\ map[k] = m \/ \E i \in DOMAIN deps : deps[i].module = map[k]
    BY DEF Offered
  <2>. HIDE DEF k
  <2>3. new[k] = map[k]
    BY <2>1, <2>2 DEF MapKept
  <2>4. ASSUME NEW i \in DOMAIN deps PROVE i \in DOMAIN more /\ more[i] = deps[i]
    BY <1>1 DEF Begins
  <2>. QED
    BY <2>2, <2>3, <2>4 DEF k
<1>. QED
  BY <1>2 DEF Offered

\* A module that has all it asked for still has it when others are interned and
\* reported about.
LEMMA CompleteStays ==
    ASSUME NEW module \in ModuleRecord, NEW m, NEW imports \in Seq(Imports),
           NEW map, NEW new, MapKept(map, new), NEW reps, NEW more,
           \A i : Told(more, m, i) <=> Told(reps, m, i),
           Complete(module, m, imports, map, reps)
    PROVE  Complete(module, m, imports, new, more)
<1>1. module.dependencies \in Seq(Dependency)
  BY DEF ModuleRecord
<1>2. Begins(module.dependencies, module.dependencies)
  BY <1>1, LenProperties DEF Begins
<1>3. Len(Prelude) \in Nat
  BY PreludeAssumption, LenProperties
<1>4. Entered(module.dependencies, imports, module.root, new,
              Places(imports, module.root))
  BY <1>1, <1>2, EnteredStays DEF Complete
<1>5. Offered(module.dependencies, m, new, Len(Prelude))
  BY <1>1, <1>2, <1>3, OfferedStays DEF Complete
<1>6. Reported(m, module.root, imports, more, Len(imports))
  BY DEF Complete, Reported
<1>. QED
  BY <1>4, <1>5, <1>6 DEF Complete

-----------------------------------------------------------------------------
(* What a step finds, and what it leaves.                                  *)

\* A module of the list, and what its file writes.
LEMMA ModuleAt ==
    ASSUME Inv, NEW m \in Index
    PROVE  /\ modules[m] \in ModuleRecord
           /\ modules[m].root \in RootNumbers
           /\ modules[m].dependencies \in Seq(Dependency)
           /\ ImportsOf(m) \in Seq(Imports)
           /\ m \in Nat \ {0}
<1>1. modules \in Seq(ModuleRecord) /\ m \in DOMAIN modules
  BY DEF Inv, Typed, Index
<1>2. modules[m] \in ModuleRecord /\ m \in Nat \ {0}
  BY <1>1, ElementOfSeq, LenProperties
<1>3. Canonical(modules[m].path) \in Files
  BY <1>2, CanonicalFile DEF ModuleRecord
<1>4. ImportsOf(m) \in Seq(Imports)
  BY <1>3 DEF ImportsOf, Inv, LoopTyped
<1>. QED
  BY <1>2, <1>4 DEF ModuleRecord

\* Interning a path keeps what the map says, finds the path's module by it, and
\* adds nothing but a module that has nothing.
LEMMA Grown ==
    ASSUME Inv, NEW path \in Files, NEW root \in RootNumbers
    PROVE  LET list == WithInterned(path, root)
               map == WithKey(path)
           IN  /\ MapKept(byPath, map)
               /\ map[Canonical(path)] = InternedAt(path)
               /\ InternedAt(path) # INVALID_MODULE
               /\ InternedAt(path) \in DOMAIN list
               /\ list \in Seq(ModuleRecord)
               /\ DOMAIN modules \subseteq DOMAIN list
               /\ \A m \in DOMAIN modules : list[m] = modules[m]
               /\ \A m \in DOMAIN list \ DOMAIN modules : Untouched(list[m])
<1>. DEFINE k == Canonical(path)
            list == WithInterned(path, root)
            map == WithKey(path)
<1>1. /\ Typed(list, map) /\ InternedAt(path) \in DOMAIN list
      /\ Grew(modules, list)
  BY Interning DEF Inv
<1>2. /\ k \in Files /\ byPath \in [Files -> Nat]
      /\ modules \in Seq(ModuleRecord) /\ Len(modules) \in Nat
      /\ DOMAIN modules = 1 .. Len(modules)
  BY CanonicalFile, LenProperties DEF Inv, Typed
<1>3. map = [byPath EXCEPT ![k] = InternedAt(path)]
  BY DEF WithKey, Key
<1>4. map[k] = InternedAt(path)
  BY <1>2, <1>3
<1>5. MapKept(byPath, map)
  <2>1. byPath[k] # INVALID_MODULE => InternedAt(path) = byPath[k]
    BY DEF InternedAt, Key
  <2>. QED
    BY <1>2, <1>3, <2>1 DEF MapKept
<1>6. InternedAt(path) # INVALID_MODULE
  <2>1. Len(modules) + 1 # INVALID_MODULE
    BY <1>2 DEF INVALID_MODULE
  <2>. QED
    BY <2>1 DEF InternedAt
<1>7. \A m \in DOMAIN list \ DOMAIN modules : Untouched(list[m])
  <2>1. CASE list = modules
    BY <2>1
  <2>2. CASE list = Append(modules, Made(path, root))
    <3>1. Made(path, root) \in ModuleRecord /\ Untouched(Made(path, root))
      BY DEF Made, ModuleRecord, Untouched, Dependency
    <3>2. /\ DOMAIN list = 1 .. Len(modules) + 1
          /\ list[Len(modules) + 1] = Made(path, root)
      BY <1>2, <2>2, <3>1, AppendProperties, LenProperties
    <3>. QED
      BY <1>2, <3>1, <3>2
  <2>. QED
    BY <2>1, <2>2 DEF WithInterned
<1>. QED
  BY <1>1, <1>4, <1>5, <1>6, <1>7 DEF Grew, Typed

\* The module in hand gets one more dependency, and no other anything.
LEMMA Depended ==
    ASSUME Inv, at \in Index, NEW path \in Files, NEW root \in RootNumbers,
           NEW alias \in Aliases
    PROVE  LET list == WithInterned(path, root)
               after == Depends(list, at, InternedAt(path), alias)
               edge == [module |-> InternedAt(path), alias |-> alias]
           IN  /\ DOMAIN after = DOMAIN list
               /\ \A m \in DOMAIN list : m # at => after[m] = list[m]
               /\ after[at].path = modules[at].path
               /\ after[at].root = modules[at].root
               /\ after[at].parsed = modules[at].parsed
               /\ after[at].dependencies
                     = Append(modules[at].dependencies, edge)
               /\ edge \in Dependency
<1>. DEFINE list == WithInterned(path, root)
            edge == [module |-> InternedAt(path), alias |-> alias]
            after == Depends(list, at, InternedAt(path), alias)
            new == [modules[at] EXCEPT !.dependencies = Append(@, edge)]
<1>1. /\ list \in Seq(ModuleRecord) /\ at \in DOMAIN list
      /\ list[at] = modules[at] /\ InternedAt(path) \in DOMAIN list
  BY Grown DEF Index
<1>2. modules[at] \in ModuleRecord
  BY ModuleAt
<1>3. InternedAt(path) \in Nat
  BY <1>1, LenProperties
<1>4. edge \in Dependency
  BY <1>3 DEF Dependency
<1>5. after = [list EXCEPT ![at] = new]
  BY <1>1 DEF Depends
<1>6. /\ new.path = modules[at].path /\ new.root = modules[at].root
      /\ new.parsed = modules[at].parsed
      /\ new.dependencies = Append(modules[at].dependencies, edge)
      /\ new \in ModuleRecord
  <2>1. Append(modules[at].dependencies, edge) \in Seq(Dependency)
    BY <1>2, <1>4, AppendProperties DEF ModuleRecord
  <2>. QED
    BY <1>2, <2>1 DEF ModuleRecord
<1>. HIDE DEF list, after, new, edge
<1>7. /\ DOMAIN after = DOMAIN list /\ after[at] = new
      /\ \A m \in DOMAIN list : m # at => after[m] = list[m]
  BY <1>1, <1>5, <1>6, ExceptSeq
<1>. QED
  BY <1>4, <1>6, <1>7 DEF after, list, edge

\* A longer list of dependencies begins with the shorter.
LEMMA AppendBegins ==
    ASSUME NEW deps \in Seq(Dependency), NEW edge \in Dependency
    PROVE  LET more == Append(deps, edge)
           IN  /\ more \in Seq(Dependency) /\ Begins(deps, more)
               /\ Len(deps) \in Nat /\ Len(more) = Len(deps) + 1
               /\ DOMAIN deps = 1 .. Len(deps)
               /\ DOMAIN more = 1 .. Len(deps) + 1
               /\ \A i \in 1 .. Len(deps) : more[i] = deps[i]
               /\ more[Len(deps) + 1] = edge
<1>1. /\ Append(deps, edge) \in Seq(Dependency)
      /\ Len(deps) \in Nat /\ Len(Append(deps, edge)) = Len(deps) + 1
      /\ DOMAIN deps = 1 .. Len(deps)
      /\ DOMAIN Append(deps, edge) = 1 .. Len(deps) + 1
      /\ \A i \in 1 .. Len(deps) : Append(deps, edge)[i] = deps[i]
      /\ Append(deps, edge)[Len(deps) + 1] = edge
  BY AppendProperties, LenProperties
<1>. QED
  BY <1>1 DEF Begins

\* A module that was left stays complete while others are worked on.
LEMMA FinishedStays ==
    ASSUME Inv, Others, NEW m \in Index, Finished(m), UNCHANGED program,
           MapKept(byPath, byPath'), modules'[m] = modules[m],
           \A i : Told(reports', m, i) <=> Told(reports, m, i)
    PROVE  Complete(modules'[m], m, ImportsOf(m)', byPath', reports')
<1>1. modules[m] \in ModuleRecord /\ ImportsOf(m) \in Seq(Imports)
  BY ModuleAt
<1>2. Complete(modules[m], m, ImportsOf(m), byPath, reports)
  BY DEF Others
<1>3. ImportsOf(m)' = ImportsOf(m)
  BY DEF ImportsOf, program
<1>. DEFINE module == modules[m]
            imports == ImportsOf(m)
<1>. HIDE DEF module, imports
<1>4. Complete(module, m, imports, byPath', reports')
  <2>1. PICK map : map = byPath'
    OBVIOUS
  <2>2. PICK reps : reps = reports'
    OBVIOUS
  <2>. QED
    BY <1>1, <1>2, <2>1, <2>2, CompleteStays DEF module, imports
<1>. QED
  BY <1>3, <1>4 DEF module, imports

\* The steps that follow what the module in hand wrote do nothing to the others.
LEMMA FollowingOthers ==
    ASSUME Inv, Others, Following, UNCHANGED <<program, at, step>>,
           MapKept(byPath, byPath'),
           DOMAIN modules \subseteq DOMAIN modules', DOMAIN modules' \subseteq Nat,
           \A m \in DOMAIN modules : m # at => modules'[m] = modules[m],
           \A m \in DOMAIN modules' \ DOMAIN modules : Untouched(modules'[m]),
           modules'[at].parsed = modules[at].parsed,
           imported' \in Nat, imported <= imported',
           reports \subseteq reports',
           \A r \in reports' \ reports :
              r.module = at /\ r.import \in Nat /\ r.import <= imported'
    PROVE  Others'
<1>1. /\ step = "imports" /\ step' = "imports" /\ at' = at /\ at \in Nat
      /\ at \in DOMAIN modules /\ imported \in Nat
  BY DEF Following, Inv, LoopTyped, Index
<1>2. text' \in Texts /\ ~onlyParse' /\ modules'[at'].parsed
  BY <1>1 DEF Others, program
<1>3. \A m \in Index' : m > at' => Untouched(modules'[m])
  BY <1>1 DEF Others, Index
<1>4. ASSUME NEW r \in reports'
      PROVE  /\ r.module \in Nat /\ r.import \in Nat
             /\ \/ r.module < at'
                \/ r.module = at' /\ r.import <= imported'
  <2>1. CASE r \in reports
    <3>1. /\ r.module \in Nat /\ r.import \in Nat
          /\ r.module < at \/ (r.module = at /\ r.import <= imported)
      BY <2>1 DEF Others
    <3>. QED
      BY <1>1, <3>1
  <2>2. CASE r \notin reports
    BY <1>1, <2>2
  <2>. QED
    BY <2>1, <2>2
<1>5. ASSUME NEW m \in Index', Finished(m)'
      PROVE  Complete(modules'[m], m, ImportsOf(m)', byPath', reports')
  <2>1. m < at /\ modules'[m].parsed /\ ~onlyParse /\ modules'[m].root # INVALID_ROOT
    BY <1>1, <1>5 DEF Finished, program
  <2>2. m \in Index
    BY <2>1, <1>1, <1>5 DEF Untouched, Index
  <2>3. m # at /\ modules'[m] = modules[m] /\ Finished(m)
    BY <1>1, <2>1, <2>2 DEF Finished, Index
  <2>4. \A i : Told(reports', m, i) <=> Told(reports, m, i)
    BY <2>3 DEF Told
  <2>. QED
    BY <2>2, <2>3, <2>4, FinishedStays
<1>. QED
  BY <1>1, <1>2, <1>3, <1>4, <1>5 DEF Others

-----------------------------------------------------------------------------
(* Every step keeps the order.                                             *)

\* When the imports were all answered and nothing is left, all places are done.
LEMMA AllDone ==
    ASSUME NEW imports \in Seq(Imports), NEW root
    PROVE  /\ Len(imports) \in Nat
           /\ DoneUpTo(Places(imports, root), Len(imports), {})
                  = Places(imports, root)
           /\ DoneUpTo(Places(imports, root), 0, {}) = {}
<1>1. Len(imports) \in Nat
  BY LenProperties
<1>2. \A p \in Places(imports, root) : p[1] \in 1 .. Len(imports)
  BY PlacesType
<1>. QED
  BY <1>1, <1>2 DEF DoneUpTo

\* Nothing was interned before the entry.
LEMMA InitOrder == Init => Order
<1>. SUFFICES ASSUME Init PROVE Order
  OBVIOUS
<1>1. modules = <<>> /\ Index = {} /\ reports = {} /\ found.files = {}
  BY EmptySeq DEF Init, Index, Nothing
<1>. QED
  BY <1>1 DEF Init, Order, Others, Current

\* The entry is the first module, and has nothing.
LEMMA EnterOrder == Inv /\ Order /\ Enter => Order'
<1>. SUFFICES ASSUME Inv, Order, Enter PROVE Order'
  OBVIOUS
<1>1. /\ modules = <<>> /\ at = 1 /\ reports = {} /\ found.files = {}
      /\ at' = 1 /\ reports' = {} /\ found'.files = {} /\ text' \in Texts
  BY DEF Order, Others, Enter, program
<1>2. PICK root \in RootNumbers :
        \/ step' = "failed" /\ UNCHANGED modules
        \/ step' = "load" /\ modules' = WithInterned(entry, root)
  BY DEF Enter
<1>3. CASE step' = "failed" /\ UNCHANGED modules
  <2>1. modules' = <<>> /\ Index' = {}
    BY <1>1, <1>3, EmptySeq DEF Index
  <2>. QED
    BY <1>1, <1>3, <2>1 DEF Order, Others, Current
<1>4. CASE step' = "load" /\ modules' = WithInterned(entry, root)
  <2>1. entry \in Files
    BY DEF Inv, LoopTyped
  <2>2. /\ DOMAIN modules' \subseteq Nat \ {0}
        /\ \A m \in DOMAIN modules' \ DOMAIN modules : Untouched(modules'[m])
    <3>1. /\ WithInterned(entry, root) \in Seq(ModuleRecord)
          /\ \A m \in DOMAIN WithInterned(entry, root) \ DOMAIN modules :
                Untouched(WithInterned(entry, root)[m])
      BY <2>1, Grown
    <3>2. DOMAIN WithInterned(entry, root) \subseteq Nat \ {0}
      BY <3>1, LenProperties
    <3>. QED
      BY <1>4, <3>1, <3>2
  <2>3. \A m \in Index' : Untouched(modules'[m]) /\ ~Finished(m)'
    BY <1>1, <2>2, EmptySeq DEF Index, Finished
  <2>. QED
    BY <1>1, <1>4, <2>3 DEF Order, Others, Current
<1>. QED
  BY <1>2, <1>3, <1>4

\* A module that is not read has nothing and asks nothing.
LEMMA NotParsedOrder == Inv /\ Order /\ (Unreadable \/ DoesNotParse) => Order'
<1>. SUFFICES ASSUME Inv, Order, NEW gone \in BOOLEAN, NotParsed(gone)
              PROVE Order'
  BY DEF Unreadable, DoesNotParse
<1>1. /\ step = "load" /\ step' = "load" /\ at \in Nat /\ at' = at + 1
      /\ UNCHANGED <<program, modules, byPath, imported, found, given, reports>>
      /\ DOMAIN modules \subseteq Nat
  BY ModuleAt DEF NotParsed, Loading, Inv, LoopTyped, Index
<1>2. text' \in Texts /\ found'.files = {}
  BY <1>1 DEF Order, Others, program
<1>3. \A m \in Index' : m > at' \/ m = at' => Untouched(modules'[m])
  BY <1>1 DEF Order, Others, Index
<1>4. \A r \in reports' : r.module \in Nat /\ r.import \in Nat /\ r.module < at'
  BY <1>1 DEF Order, Others
<1>5. ASSUME NEW m \in Index', Finished(m)'
      PROVE  Complete(modules'[m], m, ImportsOf(m)', byPath', reports')
  <2>1. m \in Index /\ m < at + 1 /\ modules[m].parsed
    BY <1>1, <1>5 DEF Finished, Index
  <2>2. m # at
    BY <1>1, <2>1 DEF Order, Others, Untouched
  <2>3. Finished(m)
    BY <1>1, <1>5, <2>1, <2>2 DEF Finished, program, Index
  <2>4. MapKept(byPath, byPath')
    BY <1>1 DEF MapKept
  <2>. QED
    BY <1>1, <2>1, <2>3, <2>4, FinishedStays DEF Order
<1>. QED
  BY <1>1, <1>2, <1>3, <1>4, <1>5 DEF Order, Others, Current

\* A module that parses has nothing yet.
LEMMA ParsesOrder == Inv /\ Order /\ Parses => Order'
<1>. SUFFICES ASSUME Inv, Order, Parses PROVE Order'
  OBVIOUS
<1>1. /\ step = "load" /\ at \in Nat /\ at \in DOMAIN modules
      /\ DOMAIN modules \subseteq Nat
      /\ modules \in Seq(ModuleRecord)
      /\ UNCHANGED <<program, byPath, found, reports>>
      /\ modules' = [modules EXCEPT ![at].parsed = TRUE]
  <2>1. modules \in Seq(ModuleRecord) /\ DOMAIN modules = 1 .. Len(modules)
        /\ Len(modules) \in Nat
    BY LenProperties DEF Inv, Typed
  <2>. QED
    BY <2>1 DEF Parses, Loading, Inv, LoopTyped
<1>2. /\ DOMAIN modules' = DOMAIN modules
      /\ \A m \in DOMAIN modules : m # at => modules'[m] = modules[m]
      /\ modules'[at] = [modules[at] EXCEPT !.parsed = TRUE]
  BY <1>1
<1>3. modules[at] \in ModuleRecord /\ ImportsOf(at) \in Seq(Imports)
  BY <1>1, ModuleAt DEF Index
<1>4. /\ modules'[at].parsed /\ modules'[at].root = modules[at].root
      /\ modules'[at].dependencies = <<>>
      /\ modules'[at].path = modules[at].path
  <2>1. Untouched(modules[at])
    BY <1>1 DEF Order, Others, Index
  <2>. QED
    BY <1>2, <1>3, <2>1 DEF Untouched, ModuleRecord
<1>5. text' \in Texts /\ found'.files = {}
  BY <1>1 DEF Order, Others, program
<1>6. \A m \in Index' : m > at => Untouched(modules'[m])
  BY <1>1, <1>2 DEF Order, Others, Index
<1>7. \A r \in reports' : r.module \in Nat /\ r.import \in Nat /\ r.module < at
  BY <1>1 DEF Order, Others
<1>8. ASSUME NEW m \in Index', Finished(m)', m # at
      PROVE  Complete(modules'[m], m, ImportsOf(m)', byPath', reports')
  <2>1. at' \in {at, at + 1}
    BY DEF Parses
  <2>2. m \in Index /\ Finished(m)
    BY <1>1, <1>2, <1>8, <2>1 DEF Finished, Index, program
  <2>3. MapKept(byPath, byPath')
    BY <1>1 DEF MapKept
  <2>. QED
    BY <1>1, <1>2, <1>8, <2>2, <2>3, FinishedStays DEF Order, Index
<1>9. CASE onlyParse
  <2>1. at' = at + 1 /\ step' = "load" /\ onlyParse'
    BY <1>1, <1>9 DEF Parses, program
  <2>2. \A m \in Index' : ~Finished(m)'
    BY <2>1 DEF Finished
  <2>3. ASSUME NEW m \in Index', m > at' \/ m = at'
        PROVE  Untouched(modules'[m])
    <3>1. m \in Nat
      BY <1>1, <1>2 DEF Index
    <3>2. m > at
      BY <1>1, <2>1, <2>3, <3>1
    <3>. QED
      BY <1>6, <3>2
  <2>4. \A r \in reports' : r.module < at'
    BY <1>1, <1>7, <2>1
  <2>. QED
    BY <1>5, <1>7, <2>1, <2>2, <2>3, <2>4 DEF Order, Others, Current
<1>10. CASE ~onlyParse
  <2>1. /\ at' = at /\ step' = "imports" /\ ~onlyParse' /\ imported' = 0
        /\ given' = 0
    BY <1>1, <1>10 DEF Parses, program
  <2>2. \A m \in Index' : Finished(m)' => m # at
    BY <1>1, <2>1 DEF Finished
  <2>3. Others'
    BY <1>4, <1>5, <1>6, <1>7, <1>8, <2>1, <2>2 DEF Others
  <2>4. ASSUME modules'[at].root # INVALID_ROOT
        PROVE  Advanced(modules'[at], at, ImportsOf(at), byPath, reports,
                        0, found', 0)
    <3>1. /\ DOMAIN <<>> = {} /\ Len(<<>>) = 0 /\ 1 .. 0 = {}
          /\ Cardinality({}) = 0
      BY FS_EmptySet
    <3>2. /\ Len(ImportsOf(at)) \in Nat /\ Len(Prelude) \in Nat
          /\ DoneUpTo(Places(ImportsOf(at), modules'[at].root), 0, {}) = {}
      BY <1>3, AllDone, PreludeAssumption, LenProperties
    <3>3. /\ Entered(<<>>, ImportsOf(at), modules'[at].root, byPath, {})
          /\ \A n : Late(<<>>, at, n)
          /\ Offered(<<>>, at, byPath, 0)
          /\ Reported(at, modules'[at].root, ImportsOf(at), reports, 0)
      BY <3>1 DEF Entered, Late, Offered, Reported
    <3>4. modules'[at].dependencies = <<>> /\ found'.files = {}
      BY <1>4, <1>5
    <3>5. /\ Entered(modules'[at].dependencies, ImportsOf(at),
                     modules'[at].root, byPath,
                     DoneUpTo(Places(ImportsOf(at), modules'[at].root), 0,
                              found'.files))
          /\ Len(modules'[at].dependencies)
                = Cardinality(DoneUpTo(Places(ImportsOf(at), modules'[at].root),
                                       0, found'.files))
      BY <3>1, <3>2, <3>3, <3>4
    <3>6. /\ Late(modules'[at].dependencies, at,
                  Cardinality(Places(ImportsOf(at), modules'[at].root)))
          /\ Offered(modules'[at].dependencies, at, byPath, 0)
      BY <3>3, <3>4
    <3>7. 0 <= Len(ImportsOf(at)) /\ 0 <= Len(Prelude) /\ ~(0 > 0)
      BY <3>2
    <3>. QED
      BY <3>3, <3>4, <3>5, <3>6, <3>7 DEF Advanced
  <2>5. ImportsOf(at)' = ImportsOf(at)
    BY <1>1, <1>4, <2>1 DEF ImportsOf, program
  <2>. SUFFICES Current'
    BY <2>3 DEF Order
  <2>6. CASE modules'[at].root # INVALID_ROOT
    <3>1. Advanced(modules'[at], at, ImportsOf(at), byPath, reports,
                   0, found', 0)
      BY <2>4, <2>6
    <3>2. Advanced(modules[at], at, ImportsOf(at), byPath, reports,
                   imported, found, given)'
      BY <1>1, <2>1, <2>5, <3>1
    <3>. QED
      BY <2>1, <2>6, <3>2 DEF Current
  <2>7. CASE modules'[at].root = INVALID_ROOT
    BY <1>5, <2>1, <2>7 DEF Current
  <2>. QED
    BY <2>6, <2>7
<1>. QED
  BY <1>9, <1>10

\* One more import answered: no place is done by it, and the next are in turn.
LEMMA ResolveImportOrder == Inv /\ Order /\ ResolveImport => Order'
<1>. SUFFICES ASSUME Inv, Order, ResolveImport PROVE Order'
  OBVIOUS
<1>. DEFINE imports == ImportsOf(at)
            root == modules[at].root
            deps == modules[at].dependencies
            places == Places(imports, root)
            n == imported
            import == imports[n + 1]
            answer == AnswerAt(root, import)
<1>1. /\ Following /\ step = "imports" /\ at \in Index /\ found.files = {}
      /\ UNCHANGED <<program, modules, byPath, at, step, given, error>>
      /\ imported' = n + 1 /\ n \in Nat /\ given \in Nat
      /\ root # INVALID_ROOT
  BY DEF ResolveImport, Following, Inv, LoopTyped
<1>2. /\ root \in RootNumbers /\ deps \in Seq(Dependency)
      /\ imports \in Seq(Imports) /\ Len(imports) \in Nat /\ at \in Nat
  BY <1>1, ModuleAt, LenProperties
<1>3. Writes = imports
  BY DEF Writes, ImportsOf, Key
<1>4. n < Len(imports) /\ n + 1 \in 1 .. Len(imports) /\ import \in Imports
  <2>1. n < Len(imports)
    BY <1>3 DEF ResolveImport
  <2>. QED
    BY <1>1, <1>2, <2>1, ElementOfSeq
<1>5. \/ /\ answer.status = "ok" /\ reports' = reports
         /\ found' = [files |-> FilesAt(root, import), root |-> answer.root,
                      alias |-> import.alias]
      \/ /\ answer.status # "ok" /\ found' = found
         /\ reports' = reports \cup {[module |-> at, import |-> n + 1,
                                      status |-> answer.status]}
  BY <1>3 DEF ResolveImport
<1>6. Advanced(modules[at], at, imports, byPath, reports, n, found, given)
  BY <1>1 DEF Order, Current
<1>7. given = 0
  BY <1>1, <1>2, <1>4, <1>6 DEF Advanced
<1>8. Others'
  <2>1. \A r \in reports' \ reports :
           r.module = at /\ r.import \in Nat /\ r.import <= imported'
    BY <1>1, <1>5
  <2>2. /\ reports \subseteq reports' /\ imported <= imported' /\ imported' \in Nat
        /\ MapKept(byPath, byPath')
        /\ DOMAIN modules \subseteq DOMAIN modules'
        /\ \A m \in DOMAIN modules : m # at => modules'[m] = modules[m]
        /\ \A m \in DOMAIN modules' \ DOMAIN modules : Untouched(modules'[m])
        /\ modules'[at].parsed = modules[at].parsed
        /\ UNCHANGED <<program, at, step>>
    BY <1>1, <1>5 DEF MapKept
  <2>3. DOMAIN modules' \subseteq Nat
    BY <1>1, ModuleAt DEF Index
  <2>. QED
    BY <1>1, <2>1, <2>2, <2>3, FollowingOthers DEF Order
<1>9. \/ found'.files = FilesAt(root, import)
      \/ found'.files = {} /\ FilesAt(root, import) = {}
  BY <1>1, <1>2, <1>4, <1>5, Finding
<1>10. ImportsOf(at)' = imports
  BY <1>1 DEF ImportsOf, program
<1>. HIDE DEF answer
<1>11. DoneUpTo(places, n + 1, found'.files) = DoneUpTo(places, n, {})
  <2>1. ASSUME NEW p \in places
        PROVE  /\ p[1] \in Nat
               /\ p[1] = n + 1 => Disk[p[2]] \in FilesAt(root, import)
    BY <1>2, <2>1, PlacesType
  <2>2. ASSUME NEW p \in places
        PROVE  (p[1] < n + 1 \/ (p[1] = n + 1 /\ Disk[p[2]] \notin found'.files))
                  <=> (p[1] < n \/ p[1] = n)
    BY <1>1, <1>9, <2>1
  <2>. HIDE DEF places
  <2>. QED
    BY <2>2 DEF DoneUpTo
<1>12. Reported(at, root, imports, reports', n + 1)
  <2>1. ASSUME NEW i \in 1 .. n + 1
        PROVE  (AnswerAt(root, imports[i]).status # "ok") <=> Told(reports', at, i)
    <3>1. CASE i = n + 1
      <4>1. \A r \in reports : ~(r.module = at /\ r.import = n + 1)
        BY <1>1, <1>2 DEF Order, Others
      <4>2. CASE answer.status = "ok"
        BY <1>5, <3>1, <4>1, <4>2 DEF Told, answer
      <4>3. CASE answer.status # "ok"
        <5>. DEFINE new == [module |-> at, import |-> n + 1,
                            status |-> answer.status]
        <5>1. new \in reports' /\ new.module = at /\ new.import = i
          BY <1>5, <3>1, <4>3
        <5>2. Told(reports', at, i)
          BY <5>1 DEF Told
        <5>. QED
          BY <3>1, <4>3, <5>2 DEF answer
      <4>. QED
        BY <4>2, <4>3
    <3>2. CASE i # n + 1
      <4>1. i \in 1 .. n
        BY <1>1, <3>2
      <4>2. (AnswerAt(root, imports[i]).status # "ok") <=> Told(reports, at, i)
        BY <1>6, <4>1 DEF Advanced, Reported
      <4>3. Told(reports', at, i) <=> Told(reports, at, i)
        BY <1>5, <3>2 DEF Told
      <4>. QED
        BY <4>2, <4>3
    <3>. QED
      BY <3>1, <3>2
  <2>. QED
    BY <2>1 DEF Reported
<1>13. found'.files # {} => InTurn(import, root, found')
  BY <1>1, <1>5 DEF InTurn, answer
<1>14. Advanced(modules[at], at, imports, byPath, reports', n + 1, found', 0)
  <2>1. /\ Entered(deps, imports, root, byPath, DoneUpTo(places, n, {}))
        /\ Late(deps, at, Cardinality(places))
        /\ Offered(deps, at, byPath, 0)
        /\ Len(deps) = Cardinality(DoneUpTo(places, n, {}))
        /\ 0 <= Len(Prelude)
    BY <1>1, <1>6, <1>7 DEF Advanced
  <2>2. n + 1 <= Len(imports) /\ n + 1 > 0 /\ ~(0 > 0)
    BY <1>1, <1>2, <1>4
  <2>. QED
    BY <1>11, <1>12, <1>13, <2>1, <2>2 DEF Advanced
<1>15. Advanced(modules[at], at, ImportsOf(at), byPath, reports,
                imported, found, given)'
  BY <1>1, <1>7, <1>10, <1>14
<1>16. Current'
  BY <1>1, <1>15 DEF Current
<1>. QED
  BY <1>8, <1>16 DEF Order

\* The files of an import are done one place after the other: the first file
\* that is left is at the next place, and what is left is still in turn.
LEMMA NextPlace ==
    ASSUME NEW imports \in Seq(Imports), NEW root \in RootNumbers,
           NEW n \in 1 .. Len(imports),
           NEW left \in [files : SUBSET Files, root : RootNumbers, alias : Aliases],
           InTurn(imports[n], root, left),
           NEW d \in DOMAIN Disk, Disk[d] \in left.files,
           IsFirst(Disk[d], left.files)
    PROVE  LET places == Places(imports, root)
               done == DoneUpTo(places, n, left.files)
               more == left.files \ {Disk[d]}
               p == <<n, d>>
           IN  /\ p \in places /\ p \notin done /\ done \in SUBSET places
               /\ DoneUpTo(places, n, more) = done \cup {p}
               /\ \A q \in places : NotAfter(q, p) <=> q \in done \cup {p}
               /\ InTurn(imports[n], root, [left EXCEPT !.files = more])
<1>. DEFINE places == Places(imports, root)
            files == left.files
            done == DoneUpTo(places, n, files)
            more == files \ {Disk[d]}
            p == <<n, d>>
            all == FilesAt(root, imports[n])
<1>1. /\ Len(imports) \in Nat /\ DOMAIN imports = 1 .. Len(imports)
      /\ n \in Nat /\ d \in Nat
  BY OnDisk, LenProperties
<1>2. files \subseteq all /\ \A f \in files, g \in all \ files : ~Sooner(f, g)
  BY DEF InTurn
<1>3. p \in places /\ p \notin done /\ done \in SUBSET places
  BY <1>1, <1>2 DEF Places, DoneUpTo
<1>4. ASSUME NEW q \in places
      PROVE  /\ q[1] \in Nat /\ q[2] \in Nat /\ q[2] \in DOMAIN Disk
             /\ q = <<q[1], q[2]>>
             /\ q[1] = n => Disk[q[2]] \in all
             /\ q = p <=> q[1] = n /\ q[2] = d
  BY <1>4, PlacesType
<1>5. ASSUME NEW e \in DOMAIN Disk
      PROVE  Disk[e] = Disk[d] <=> e = d
  BY DiskAssumption
<1>. HIDE DEF places, all
<1>6. ASSUME NEW q \in places
      PROVE  (q[1] < n \/ (q[1] = n /\ Disk[q[2]] \notin more))
                 <=> (q[1] < n \/ (q[1] = n /\ Disk[q[2]] \notin files)) \/ q = p
  BY <1>1, <1>4, <1>5
<1>7. DoneUpTo(places, n, more) = done \cup {p}
  BY <1>3, <1>6 DEF DoneUpTo
<1>8. ASSUME NEW q \in places
      PROVE  NotAfter(q, p)
                 <=> (q[1] < n \/ (q[1] = n /\ Disk[q[2]] \notin files)) \/ q = p
  <2>1. NotAfter(q, p) <=> q[1] < n \/ (q[1] = n /\ q[2] <= d)
    BY DEF NotAfter
  <2>2. CASE q[1] = n /\ Disk[q[2]] \notin files
    <3>1. Disk[q[2]] \in all \ files /\ ~Sooner(Disk[d], Disk[q[2]])
      BY <1>2, <1>4, <2>2
    <3>2. ~(d <= q[2])
      BY <1>4, <3>1, OnDisk
    <3>. QED
      BY <1>1, <1>4, <2>1, <2>2, <3>2
  <2>3. CASE q[1] = n /\ Disk[q[2]] \in files
    <3>1. Sooner(Disk[d], Disk[q[2]])
      BY <2>3 DEF IsFirst
    <3>2. d <= q[2]
      BY <1>4, <3>1, OnDisk
    <3>3. q[2] <= d <=> q = p
      BY <1>1, <1>4, <2>3, <3>2
    <3>. QED
      BY <1>4, <2>1, <2>3, <3>3
  <2>4. CASE q[1] # n
    BY <1>4, <2>1, <2>4
  <2>. QED
    BY <2>2, <2>3, <2>4
<1>9. \A q \in places : NotAfter(q, p) <=> q \in done \cup {p}
  BY <1>3, <1>8 DEF DoneUpTo
<1>10. InTurn(imports[n], root, [left EXCEPT !.files = more])
  <2>. DEFINE rest == [left EXCEPT !.files = more]
  <2>1. /\ left.root = AnswerAt(root, imports[n]).root
        /\ left.alias = imports[n].alias
    BY DEF InTurn
  <2>2. ASSUME NEW f \in more, NEW g \in all \ more PROVE ~Sooner(f, g)
    <3>1. CASE g \in all \ files
      BY <1>2, <3>1
    <3>2. CASE g = Disk[d]
      <4>1. f \in Files
        BY <1>2, Finding, ElementOfSeq, <1>1 DEF all
      <4>2. PICK e \in DOMAIN Disk : Disk[e] = f
        BY <4>1 DEF Files
      <4>3. d <= e
        BY <4>2, OnDisk DEF IsFirst
      <4>4. e # d /\ e \in Nat
        BY <4>2, OnDisk
      <4>5. ~(e <= d)
        BY <1>1, <4>3, <4>4
      <4>. QED
        BY <3>2, <4>2, <4>5, OnDisk
    <3>. QED
      BY <3>1, <3>2
  <2>3. rest.files = more /\ rest.root = left.root /\ rest.alias = left.alias
    OBVIOUS
  <2>. HIDE DEF rest, more
  <2>4. more \subseteq all
    BY <1>2 DEF more
  <2>5. InTurn(imports[n], root, rest)
    BY <2>1, <2>2, <2>3, <2>4 DEF InTurn, all
  <2>. QED
    BY <2>5 DEF rest, more
<1>. QED
  BY <1>3, <1>7, <1>9, <1>10 DEF places

\* What the module in hand has, with one more dependency: what was done stands
\* where it did, and so does what the prelude gave.
LEMMA MoreStays ==
    ASSUME Inv, at \in Index, NEW imports \in Seq(Imports), NEW root,
           NEW done \in SUBSET Places(imports, root),
           NEW path \in Files, NEW where \in RootNumbers, NEW alias \in Aliases,
           NEW n \in Nat, n <= Len(Prelude)
    PROVE  LET deps == modules[at].dependencies
               map == WithKey(path)
               after == Depends(WithInterned(path, where), at,
                                InternedAt(path), alias)
           IN  /\ Entered(deps, imports, root, byPath, done) =>
                     Entered(after[at].dependencies, imports, root, map, done)
               /\ Offered(deps, at, byPath, n) =>
                     Offered(after[at].dependencies, at, map, n)
<1>. DEFINE deps == modules[at].dependencies
            map == WithKey(path)
            after == Depends(WithInterned(path, where), at, InternedAt(path),
                             alias)
            more == after[at].dependencies
<1>1. deps \in Seq(Dependency) /\ MapKept(byPath, map)
  BY ModuleAt, Grown
<1>2. more \in Seq(Dependency) /\ Begins(deps, more)
  <2>. DEFINE edge == [module |-> InternedAt(path), alias |-> alias]
  <2>1. more = Append(deps, edge) /\ edge \in Dependency
    BY Depended
  <2>. HIDE DEF more, deps, edge
  <2>. QED
    BY <1>1, <2>1, AppendBegins
<1>. HIDE DEF deps, map, more
<1>3. PICK m : m = at
  OBVIOUS
<1>4. PICK old : old = byPath
  OBVIOUS
<1>5. Entered(deps, imports, root, byPath, done) =>
          Entered(more, imports, root, map, done)
  BY <1>1, <1>2, <1>4, EnteredStays
<1>6. Offered(deps, at, byPath, n) => Offered(more, at, map, n)
  BY <1>1, <1>2, <1>3, <1>4, OfferedStays
<1>. QED
  BY <1>5, <1>6 DEF deps, map, more

\* One more file of the import in hand is a dependency, at the next place.
LEMMA AddDependencyOrder == Inv /\ Order /\ AddDependency => Order'
<1>. SUFFICES ASSUME Inv, Order, AddDependency PROVE Order'
  OBVIOUS
<1>. DEFINE imports == ImportsOf(at)
            root == modules[at].root
            deps == modules[at].dependencies
            places == Places(imports, root)
            n == imported
            done == DoneUpTo(places, n, found.files)
<1>1. /\ Following /\ step = "imports" /\ at \in Index
      /\ UNCHANGED <<program, at, step, imported, given, reports, error>>
      /\ n \in Nat /\ given \in Nat /\ root # INVALID_ROOT
      /\ found \in [files : SUBSET Files, root : RootNumbers, alias : Aliases]
  BY DEF AddDependency, Following, Inv, LoopTyped
<1>2. PICK file \in found.files :
         /\ IsFirst(file, found.files)
         /\ modules' = Depends(WithInterned(file, found.root), at,
                               InternedAt(file), found.alias)
         /\ byPath' = WithKey(file)
         /\ found' = [found EXCEPT !.files = @ \ {file}]
  BY DEF AddDependency
<1>3. /\ root \in RootNumbers /\ deps \in Seq(Dependency)
      /\ imports \in Seq(Imports) /\ Len(imports) \in Nat /\ at \in Nat
  BY <1>1, ModuleAt, LenProperties
<1>4. file \in Files /\ found.root \in RootNumbers /\ found.alias \in Aliases
  BY <1>1, <1>2
<1>. DEFINE list == WithInterned(file, found.root)
            edge == [module |-> InternedAt(file), alias |-> found.alias]
            after == modules'[at].dependencies
<1>5. /\ DOMAIN modules' = DOMAIN list
      /\ \A m \in DOMAIN list : m # at => modules'[m] = list[m]
      /\ modules'[at].path = modules[at].path /\ modules'[at].root = root
      /\ modules'[at].parsed = modules[at].parsed
      /\ after = Append(deps, edge) /\ edge \in Dependency
  BY <1>1, <1>2, <1>4, Depended, SMTT(60)
<1>6. /\ MapKept(byPath, byPath')
      /\ byPath'[Canonical(file)] = InternedAt(file)
      /\ InternedAt(file) # INVALID_MODULE
      /\ list \in Seq(ModuleRecord)
      /\ DOMAIN modules \subseteq DOMAIN list
      /\ \A m \in DOMAIN modules : list[m] = modules[m]
      /\ \A m \in DOMAIN list \ DOMAIN modules : Untouched(list[m])
  BY <1>2, <1>4, Grown
<1>7. ImportsOf(at)' = imports
  BY <1>1, <1>5 DEF ImportsOf, program
<1>8. Advanced(modules[at], at, imports, byPath, reports, n, found, given)
  BY <1>1 DEF Order, Current
<1>9. /\ given = 0 /\ n \in 1 .. Len(imports) /\ InTurn(imports[n], root, found)
      /\ Len(deps) = Cardinality(done)
      /\ found.alias = imports[n].alias
  BY <1>1, <1>2, <1>3, <1>8 DEF Advanced, InTurn
<1>10. Others'
  <2>1. DOMAIN modules' \subseteq Nat
    BY <1>5, <1>6, LenProperties
  <2>2. /\ DOMAIN modules \subseteq DOMAIN modules'
        /\ \A m \in DOMAIN modules : m # at => modules'[m] = modules[m]
        /\ \A m \in DOMAIN modules' \ DOMAIN modules : Untouched(modules'[m])
        /\ modules'[at].parsed = modules[at].parsed
    BY <1>1, <1>5, <1>6 DEF Index
  <2>3. /\ reports \subseteq reports' /\ imported <= imported' /\ imported' \in Nat
        /\ reports' \ reports = {} /\ UNCHANGED <<program, at, step>>
    BY <1>1
  <2>. QED
    BY <1>1, <1>6, <2>1, <2>2, <2>3, FollowingOthers DEF Order
<1>11. PICK d \in DOMAIN Disk : Disk[d] = file
  BY <1>4 DEF Files
<1>. DEFINE p == <<n, d>>
            rest == found.files \ {file}
<1>12. /\ p \in places /\ p \notin done /\ done \in SUBSET places
       /\ DoneUpTo(places, n, rest) = done \cup {p}
       /\ \A q \in places : NotAfter(q, p) <=> q \in done \cup {p}
       /\ InTurn(imports[n], root, [found EXCEPT !.files = rest])
  <2>. HIDE DEF imports, root, n
  <2>1. Disk[d] \in found.files /\ IsFirst(Disk[d], found.files)
    BY <1>2, <1>11
  <2>2. LET more == found.files \ {Disk[d]}
        IN  /\ p \in places /\ p \notin done /\ done \in SUBSET places
            /\ DoneUpTo(places, n, more) = done \cup {p}
            /\ \A q \in places : NotAfter(q, p) <=> q \in done \cup {p}
            /\ InTurn(imports[n], root, [found EXCEPT !.files = more])
    BY <1>1, <1>3, <1>9, <2>1, NextPlace
  <2>. QED
    BY <1>11, <2>2
<1>13. /\ Cardinality(done) \in Nat
       /\ Rank(places, p) = Cardinality(done) + 1
       /\ Cardinality(done \cup {p}) = Cardinality(done) + 1
  <2>. HIDE DEF imports, root, n, p, done
  <2>. QED
    <3>1. /\ p \in Places(imports, root) /\ p \notin done
          /\ done \in SUBSET Places(imports, root)
          /\ \A q \in Places(imports, root) :
                NotAfter(q, p) <=> q \in done \cup {p}
      BY <1>12
    <3>. HIDE DEF places
    <3>2. /\ Cardinality(done) \in Nat
          /\ Rank(Places(imports, root), p) = Cardinality(done) + 1
          /\ Cardinality(done \cup {p}) = Cardinality(done) + 1
      BY <1>3, <3>1, NextRank
    <3>. QED
      BY <3>2 DEF places
<1>14. /\ Len(deps) \in Nat /\ Len(after) = Len(deps) + 1
       /\ DOMAIN after = 1 .. Len(deps) + 1
       /\ after[Len(deps) + 1] = edge
  BY <1>3, <1>5, AppendBegins
<1>15. /\ Entered(after, imports, root, byPath', done)
       /\ Offered(after, at, byPath', 0)
  <2>1. Entered(deps, imports, root, byPath, done) /\ Offered(deps, at, byPath, 0)
    BY <1>8, <1>9 DEF Advanced
  <2>2. 0 \in Nat /\ 0 <= Len(Prelude)
    BY PreludeAssumption, LenProperties
  <2>. QED
    BY <1>1, <1>2, <1>3, <1>4, <1>12, <2>1, <2>2, MoreStays
<1>16. Entered(after, imports, root, byPath', done \cup {p})
  <2>1. /\ Rank(places, p) \in DOMAIN after
        /\ after[Rank(places, p)] = edge
    BY <1>9, <1>13, <1>14
  <2>2. edge = [module |-> byPath'[Canonical(Disk[p[2]])],
                alias |-> imports[p[1]].alias]
    BY <1>6, <1>9, <1>11
  <2>3. byPath'[Canonical(Disk[p[2]])] # INVALID_MODULE
    BY <1>6, <1>11
  <2>. HIDE DEF p, edge, after, done
  <2>. QED
    BY <1>15, <2>1, <2>2, <2>3 DEF Entered
<1>17. Late(after, at, Cardinality(places))
  <2>1. IsFiniteSet(places) /\ done \cup {p} \in SUBSET places
    BY <1>3, <1>12, PlacesType
  <2>2. Cardinality(done \cup {p}) <= Cardinality(places) /\ Cardinality(places) \in Nat
    BY <2>1, FS_Subset, FS_CardinalityType
  <2>3. \A i \in DOMAIN after : ~(i > Cardinality(places))
    BY <1>9, <1>13, <1>14, <2>2
  <2>. QED
    BY <2>3 DEF Late
<1>18. found'.files = rest /\ found' = [found EXCEPT !.files = rest]
  BY <1>1, <1>2
<1>19. Advanced(modules'[at], at, imports, byPath', reports', n, found', given')
  <2>1. Reported(at, root, imports, reports', n) /\ n <= Len(imports)
    BY <1>1, <1>8 DEF Advanced
  <2>2. given' = 0 /\ ~(given' > 0) /\ given' <= Len(Prelude)
    BY <1>1, <1>9, PreludeAssumption, LenProperties
  <2>3. Len(after) = Cardinality(done \cup {p})
    BY <1>9, <1>13, <1>14
  <2>4. n > 0 /\ InTurn(imports[n], root, found')
    BY <1>9, <1>12, <1>18
  <2>5. DoneUpTo(places, n, found'.files) = done \cup {p}
    BY <1>12, <1>18
  <2>. HIDE DEF done, p, places, imports
  <2>. QED
    BY <1>5, <1>15, <1>16, <1>17, <2>1, <2>2, <2>3, <2>4, <2>5
       DEF Advanced, places
<1>20. Advanced(modules[at], at, ImportsOf(at), byPath, reports,
                imported, found, given)'
  BY <1>1, <1>7, <1>19
<1>21. Current'
  BY <1>1, <1>5, <1>20 DEF Current
<1>. QED
  BY <1>10, <1>21 DEF Order

\* What the prelude gives comes after the rest, and is not had twice.
LEMMA AddPreludeOrder == Inv /\ Order /\ AddPrelude => Order'
<1>. SUFFICES ASSUME Inv, Order, AddPrelude PROVE Order'
  OBVIOUS
<1>. DEFINE imports == ImportsOf(at)
            root == modules[at].root
            deps == modules[at].dependencies
            places == Places(imports, root)
            n == imported
            offer == Prelude[given + 1]
            target == InternedAt(offer.path)
            list == WithInterned(offer.path, offer.root)
            edge == [module |-> target, alias |-> INVALID_STRING]
            after == modules'[at].dependencies
<1>1. /\ Following /\ step = "imports" /\ at \in Index /\ found.files = {}
      /\ UNCHANGED <<program, at, step, imported, found, reports, error>>
      /\ n \in Nat /\ given \in Nat /\ root # INVALID_ROOT
      /\ given' = given + 1 /\ byPath' = WithKey(offer.path)
      /\ modules' = IF Refuses(target) THEN list
                    ELSE Depends(list, at, target, INVALID_STRING)
  BY DEF AddPrelude, Following, Inv, LoopTyped
<1>2. given < Len(Prelude) /\ Len(Prelude) \in Nat /\ given + 1 \in 1 .. Len(Prelude)
  BY <1>1, PreludeAssumption, LenProperties DEF AddPrelude
<1>3. offer.path \in Files /\ offer.root \in RootNumbers
  <2>1. offer \in [path : Files, root : DOMAIN Roots]
    BY <1>2, PreludeAssumption, ElementOfSeq
  <2>. QED
    BY <2>1 DEF RootNumbers
<1>4. /\ root \in RootNumbers /\ deps \in Seq(Dependency)
      /\ imports \in Seq(Imports) /\ Len(imports) \in Nat /\ at \in Nat
  BY <1>1, ModuleAt, LenProperties
<1>5. n = Len(imports)
  BY DEF AddPrelude, Writes, ImportsOf, Key
<1>6. /\ MapKept(byPath, byPath')
      /\ byPath'[Canonical(offer.path)] = target /\ target # INVALID_MODULE
      /\ list \in Seq(ModuleRecord)
      /\ DOMAIN modules \subseteq DOMAIN list
      /\ \A m \in DOMAIN modules : list[m] = modules[m]
      /\ \A m \in DOMAIN list \ DOMAIN modules : Untouched(list[m])
  BY <1>1, <1>3, Grown
<1>7. /\ DOMAIN modules' = DOMAIN list
      /\ \A m \in DOMAIN list : m # at => modules'[m] = list[m]
      /\ modules'[at].path = modules[at].path /\ modules'[at].root = root
      /\ modules'[at].parsed = modules[at].parsed
      /\ \/ Refuses(target) /\ after = deps
         \/ ~Refuses(target) /\ after = Append(deps, edge) /\ edge \in Dependency
  <2>1. CASE Refuses(target)
    BY <1>1, <1>6, <2>1 DEF Index
  <2>2. CASE ~Refuses(target)
    <3>1. INVALID_STRING \in Aliases
      BY AliasesAssumption
    <3>2. PICK p \in Files, r \in RootNumbers, a \in Aliases :
              p = offer.path /\ r = offer.root /\ a = INVALID_STRING
      BY <1>3, <3>1
    <3>3. PICK kept, then, added :
              /\ kept = WithInterned(p, r)
              /\ then = Depends(kept, at, InternedAt(p), a)
              /\ added = [module |-> InternedAt(p), alias |-> a]
      OBVIOUS
    <3>4. /\ DOMAIN then = DOMAIN kept
          /\ \A m \in DOMAIN kept : m # at => then[m] = kept[m]
          /\ then[at].path = modules[at].path
          /\ then[at].root = modules[at].root
          /\ then[at].parsed = modules[at].parsed
          /\ then[at].dependencies = Append(deps, added)
          /\ added \in Dependency
      BY <1>1, <3>3, Depended
    <3>5. kept = list /\ then = modules' /\ added = edge
      BY <1>1, <2>2, <3>2, <3>3, ZenonT(60)
    <3>. QED
      BY <1>1, <2>2, <3>4, <3>5, ZenonT(60)
  <2>. QED
    BY <2>1, <2>2
<1>8. ImportsOf(at)' = imports
  BY <1>1, <1>7, Zenon DEF ImportsOf, program
<1>9. Advanced(modules[at], at, imports, byPath, reports, n, found, given)
  BY <1>1 DEF Order, Current
<1>10. Others'
  <2>1. DOMAIN modules' \subseteq Nat
    BY <1>6, <1>7, LenProperties, SMTT(60)
  <2>2. /\ DOMAIN modules \subseteq DOMAIN modules'
        /\ \A m \in DOMAIN modules : m # at => modules'[m] = modules[m]
        /\ \A m \in DOMAIN modules' \ DOMAIN modules : Untouched(modules'[m])
        /\ modules'[at].parsed = modules[at].parsed
    BY <1>1, <1>6, <1>7, Zenon DEF Index
  <2>3. /\ reports \subseteq reports' /\ imported <= imported' /\ imported' \in Nat
        /\ reports' \ reports = {} /\ UNCHANGED <<program, at, step>>
    BY <1>1
  <2>. QED
    BY <1>1, <1>6, <2>1, <2>2, <2>3, FollowingOthers, ZenonT(60) DEF Order
<1>11. DoneUpTo(places, n, {}) = places
  BY <1>4, <1>5, AllDone
<1>12. /\ Entered(deps, imports, root, byPath, places)
       /\ Late(deps, at, Cardinality(places))
       /\ Offered(deps, at, byPath, given)
       /\ Reported(at, root, imports, reports, n)
  BY <1>1, <1>9, <1>11 DEF Advanced
<1>13. Refuses(target) <=> target = at \/ \E i \in DOMAIN deps : deps[i].module = target
  BY DEF Refuses, HasDependency
<1>. HIDE DEF imports, offer, target, list
<1>14. Begins(deps, after) /\ after \in Seq(Dependency)
  <2>1. CASE after = deps
    <3>1. Len(deps) \in Nat
      BY <1>4, LenProperties
    <3>. QED
      BY <1>4, <2>1, <3>1 DEF Begins
  <2>2. CASE after = Append(deps, edge) /\ edge \in Dependency
    <3>. HIDE DEF deps, edge, after
    <3>. QED
      BY <1>4, <2>2, AppendBegins
  <2>. QED
    BY <1>7, <2>1, <2>2
<1>15. /\ Entered(after, imports, root, byPath', places)
       /\ Offered(after, at, byPath', given)
  <2>. HIDE DEF deps, after, root
  <2>1. PICK old : old = byPath
    OBVIOUS
  <2>2. PICK map : map = byPath'
    OBVIOUS
  <2>3. PICK m : m = at
    OBVIOUS
  <2>4. MapKept(old, map)
    BY <1>6, <2>1, <2>2
  <2>5. Entered(after, imports, root, map, places)
    BY <1>4, <1>12, <1>14, <2>1, <2>4, EnteredStays
  <2>6. Offered(after, m, map, given)
    BY <1>1, <1>2, <1>4, <1>12, <1>14, <2>1, <2>3, <2>4, OfferedStays
  <2>. QED
    BY <2>2, <2>3, <2>5, <2>6
<1>16. Late(after, at, Cardinality(places))
  <2>1. CASE after = deps
    BY <1>12, <2>1
  <2>2. CASE ~Refuses(target) /\ after = Append(deps, edge) /\ edge \in Dependency
    <3>1. /\ Len(deps) \in Nat /\ DOMAIN deps = 1 .. Len(deps)
          /\ DOMAIN after = 1 .. Len(deps) + 1
          /\ \A i \in 1 .. Len(deps) : after[i] = deps[i]
          /\ after[Len(deps) + 1] = edge
      <4>. HIDE DEF deps, edge
      <4>. QED
        BY <1>4, <2>2, AppendBegins
    <3>2. /\ edge.module = target /\ edge.alias = INVALID_STRING /\ target # at
          /\ \A i \in DOMAIN deps : deps[i].module # target
      BY <1>13, <2>2
    <3>. HIDE DEF deps, edge, after, places
    <3>3. ASSUME NEW i \in DOMAIN after, i > Cardinality(places)
          PROVE  /\ after[i].alias = INVALID_STRING /\ after[i].module # at
                 /\ \A j \in DOMAIN after : after[j].module = after[i].module => i = j
      <4>1. CASE i = Len(deps) + 1
        BY <3>1, <3>2, <4>1
      <4>2. CASE i \in 1 .. Len(deps)
        <5>1. /\ deps[i].alias = INVALID_STRING /\ deps[i].module # at
              /\ \A j \in DOMAIN deps : deps[j].module = deps[i].module => i = j
          BY <1>12, <3>1, <3>3, <4>2 DEF Late
        <5>. QED
          BY <3>1, <3>2, <4>2, <5>1
      <4>. QED
        BY <3>1, <4>1, <4>2
    <3>. QED
      BY <3>3 DEF Late
  <2>. QED
    BY <1>7, <2>1, <2>2
<1>17. Offered(after, at, byPath', given + 1)
  <2>1. target = at \/ \E i \in DOMAIN after : after[i].module = target
    <3>1. CASE Refuses(target) /\ after = deps
      BY <1>13, <3>1
    <3>2. CASE after = Append(deps, edge) /\ edge \in Dependency
      <4>1. /\ DOMAIN after = 1 .. Len(deps) + 1 /\ Len(deps) \in Nat
            /\ after[Len(deps) + 1] = edge
        <5>. HIDE DEF deps, edge
        <5>. QED
          BY <1>4, <3>2, AppendBegins
      <4>. QED
        BY <4>1
    <3>. QED
      BY <1>7, <3>1, <3>2
  <2>2. ASSUME NEW p \in 1 .. given + 1
        PROVE  LET to == byPath'[Canonical(Prelude[p].path)]
               IN /\ to # INVALID_MODULE
                  /\ to = at \/ \E i \in DOMAIN after : after[i].module = to
    <3>1. CASE p = given + 1
      BY <1>6, <2>1, <3>1 DEF offer
    <3>2. CASE p \in 1 .. given
      BY <1>15, <3>2 DEF Offered
    <3>. QED
      BY <1>1, <3>1, <3>2
  <2>. QED
    BY <2>2 DEF Offered
<1>18. Advanced(modules'[at], at, imports, byPath', reports', n, found', given')
  <2>1. /\ found'.files = {} /\ n <= Len(imports) /\ given' <= Len(Prelude)
        /\ n = Len(imports) /\ ~(given' = 0) /\ given' = given + 1
    BY <1>1, <1>2, <1>4, <1>5
  <2>2. Reported(at, root, imports, reports', n)
    BY <1>1, <1>12
  <2>. HIDE DEF places
  <2>. QED
    BY <1>7, <1>11, <1>15, <1>16, <1>17, <2>1, <2>2 DEF Advanced, places
<1>19. Advanced(modules[at], at, ImportsOf(at), byPath, reports,
                imported, found, given)'
  BY <1>1, <1>8, <1>18
<1>20. Current'
  BY <1>1, <1>7, <1>19 DEF Current
<1>. QED
  BY <1>10, <1>20 DEF Order

\* A module that is left has everything.
LEMMA LeaveOrder == Inv /\ Order /\ LeaveModule => Order'
<1>. SUFFICES ASSUME Inv, Order, LeaveModule PROVE Order'
  OBVIOUS
<1>1. /\ step = "imports" /\ step' = "load" /\ at \in Nat /\ at' = at + 1
      /\ UNCHANGED <<program, modules, byPath, imported, found, given, reports>>
      /\ at \in Index /\ AllAnswered
  BY DEF LeaveModule, Inv, LoopTyped
<1>2. modules[at].root # INVALID_ROOT =>
         /\ Advanced(modules[at], at, ImportsOf(at), byPath, reports, imported,
                     found, given)
         /\ found.files = {} /\ imported = Len(ImportsOf(at))
         /\ given = Len(Prelude)
  BY <1>1 DEF Order, Current, AllAnswered, Writes, ImportsOf, Key
<1>3. found'.files = {} /\ text' \in Texts
  BY <1>1, <1>2 DEF Order, Others, Current, program
<1>4. \A m \in Index' : m \in Nat /\ (m > at => Untouched(modules'[m]))
  <2>1. \A m \in Index : m \in Nat
    BY ModuleAt
  <2>. QED
    BY <1>1, <2>1 DEF Order, Others, Index
<1>5. \A r \in reports' : r.module \in Nat /\ r.import \in Nat /\ r.module < at'
  BY <1>1 DEF Order, Others
<1>6. ASSUME NEW m \in Index', Finished(m)'
      PROVE  Complete(modules'[m], m, ImportsOf(m)', byPath', reports')
  <2>1. CASE m = at
    <3>1. modules[at].root # INVALID_ROOT
      BY <1>1, <1>6, <2>1 DEF Finished
    <3>2. /\ ImportsOf(at) \in Seq(Imports)
          /\ DoneUpTo(Places(ImportsOf(at), modules[at].root), imported, {})
                 = Places(ImportsOf(at), modules[at].root)
      BY <1>1, <1>2, <3>1, ModuleAt, AllDone
    <3>3. Complete(modules[at], at, ImportsOf(at), byPath, reports)
      BY <1>2, <3>1, <3>2 DEF Advanced, Complete
    <3>4. ImportsOf(m)' = ImportsOf(m)
      BY <1>1 DEF ImportsOf, program
    <3>. QED
      BY <1>1, <2>1, <3>3, <3>4
  <2>2. CASE m # at
    <3>1. m \in Index /\ Finished(m)
      BY <1>1, <1>4, <1>6, <2>2 DEF Finished, Index, program
    <3>2. MapKept(byPath, byPath')
      BY <1>1 DEF MapKept
    <3>. QED
      BY <1>1, <3>1, <3>2, FinishedStays DEF Order
  <2>. QED
    BY <2>1, <2>2
<1>7. \A m \in Index' : m > at' \/ m = at' => Untouched(modules'[m])
  BY <1>1, <1>4
<1>. QED
  BY <1>1, <1>3, <1>5, <1>6, <1>7 DEF Order, Others, Current

\* Ending changes nothing that is kept.
LEMMA FinishOrder == Inv /\ Order /\ (Finish \/ UNCHANGED vars) => Order'
<1>1. ASSUME Inv, Order, UNCHANGED vars PROVE Order'
  <2>1. Others'
    BY <1>1 DEF Order, Others, vars, Finished, ImportsOf, Index, Untouched
  <2>2. Current'
    BY <1>1 DEF Order, Current, vars, ImportsOf
  <2>. QED
    BY <2>1, <2>2 DEF Order
<1>2. ASSUME Inv, Order, Finish PROVE Order'
  <2>1. /\ step = "load" /\ step' = "done"
        /\ UNCHANGED <<program, modules, byPath, at, imported, found, given,
                       reports>>
    BY <1>2 DEF Finish
  <2>2. \A m \in Index' : Finished(m)' => Finished(m) /\ ImportsOf(m)' = ImportsOf(m)
    BY <2>1 DEF Finished, ImportsOf, program
  <2>3. Others'
    BY <1>2, <2>1, <2>2 DEF Order, Others, Index, program
  <2>. QED
    BY <2>1, <2>3 DEF Order, Current
<1>. QED
  BY <1>1, <1>2

-----------------------------------------------------------------------------
(* The search.                                                             *)

\* the visit of a module, and what the search knows of the loop
VisitAt(m) == Visit(modules[m].path, modules[m].root)
Left == {m \in Index : m < at}
Read == {m \in Index : m < at /\ modules[m].parsed}
Leads == IF onlyParse THEN NoEdges ELSE Edges[text]

\* A module is a visit there may be, and two modules visit two files.
LEMMA Visited ==
    ASSUME Inv
    PROVE  /\ \A m \in Index : VisitAt(m) \in Visits
           /\ \A m, o \in Index : VisitAt(m).file = VisitAt(o).file => m = o
<1>1. ASSUME NEW m \in Index PROVE VisitAt(m) \in Visits
  <2>1. modules[m].path \in Files /\ modules[m].root \in RootNumbers
    BY ModuleAt DEF ModuleRecord
  <2>. QED
    BY <2>1 DEF VisitAt, Visit, Visits
<1>2. ASSUME NEW m \in Index, NEW o \in Index,
             VisitAt(m).file = VisitAt(o).file
      PROVE  m = o
  <2>1. Canonical(modules[m].path) = Canonical(modules[o].path)
    BY <1>2 DEF VisitAt, Visit
  <2>. QED
    BY <2>1 DEF Inv, Tidy, Index
<1>. QED
  BY <1>1, <1>2

\* The module in hand is known and not left, and what is left when the loop goes
\* on is what was, and the module.
LEMMA GoingOn ==
    ASSUME Inv, at \in Index
    PROVE  /\ VisitAt(at) \in Known(Index) \ Known(Left)
           /\ Known({m \in Index : m < at + 1}) = Known(Left) \cup {VisitAt(at)}
           /\ modules[at].parsed =>
                 Known({m \in Index : m < at + 1 /\ modules[m].parsed})
                     = Known(Read) \cup {VisitAt(at)}
           /\ ~modules[at].parsed =>
                 Known({m \in Index : m < at + 1 /\ modules[m].parsed})
                     = Known(Read)
<1>1. \A m \in Index : m \in Nat
  BY ModuleAt
<1>2. \A m \in Index : m < at + 1 <=> m < at \/ m = at
  BY <1>1
<1>3. VisitAt(at) \notin Known(Left)
  <2>1. \A m \in Left : VisitAt(m) # VisitAt(at)
    BY <1>1, Visited DEF Left
  <2>. QED
    BY <2>1 DEF Known, VisitAt
<1>4. VisitAt(at) \in Known(Index)
  BY DEF Known, VisitAt
<1>5. {m \in Index : m < at + 1} = Left \cup {at}
  BY <1>2 DEF Left
<1>6. /\ modules[at].parsed =>
            {m \in Index : m < at + 1 /\ modules[m].parsed} = Read \cup {at}
      /\ ~modules[at].parsed =>
            {m \in Index : m < at + 1 /\ modules[m].parsed} = Read
  BY <1>2 DEF Read
<1>7. \A S : Known(S \cup {at}) = Known(S) \cup {VisitAt(at)}
  BY DEF Known, VisitAt
<1>. QED
  BY <1>3, <1>4, <1>5, <1>6, <1>7

\* What a file the loop may still ask of leads to.
LEMMA LeadsOn ==
    ASSUME Inv, Order
    PROVE  /\ DOMAIN Leads = Visits
           /\ \A v \in Visits :
                Leads[v] = IF onlyParse THEN {} ELSE LeadsTo(text, v)
BY DEF Order, Others, Leads, NoEdges, Edges

\* A step that interns nothing new is none of the search's.
LEMMA Stutters ==
    ASSUME UNCHANGED <<Leads, Known(Index), Known(Left), Known(Read), Over>>
    PROVE  UNCHANGED Search!reachVars
BY DEF Search!reachVars, Leads, Left, Read

\* One that interns a file finds a visit.
LEMMA Discovers ==
    ASSUME ~Over, UNCHANGED <<Leads, Known(Left), Known(Read), Over>>,
           NEW v \in Known(Index) \ Known(Left), NEW w \in Leads[v],
           w.file \notin Search!FilesOf(Known(Index)),
           Known(Index)' = Known(Index) \cup {w}
    PROVE  Search!Discover
BY DEF Search!Discover, Leads, Left, Read

\* One that goes on to the next module leaves a visit.
LEMMA Leaves ==
    ASSUME ~Over, UNCHANGED <<Leads, Known(Index), Over>>,
           NEW v \in Known(Index) \ Known(Left),
           Known(Left)' = Known(Left) \cup {v},
           \/ UNCHANGED Known(Read)
           \/ /\ Search!FilesOf(Leads[v]) \subseteq Search!FilesOf(Known(Index))
              /\ Known(Read)' = Known(Read) \cup {v}
    PROVE  Search!Leave
BY DEF Search!Leave, Leads, Left, Read

\* And one that ends the loop ends the search.
LEMMA Stops ==
    ASSUME ~Over, Over', UNCHANGED <<Leads, Known(Index), Known(Left), Known(Read)>>,
           Known(Left) = Known(Index)
    PROVE  Search!Stop
BY DEF Search!Stop, Leads, Left, Read

\* Before the entry nothing is known.
LEMMA InitSearch == Init => Search!Init
<1>. SUFFICES ASSUME Init PROVE Search!Init
  OBVIOUS
<1>1. Index = {} /\ ~Over
  BY EmptySeq DEF Init, Index, Over
<1>. QED
  BY <1>1 DEF Search!Init, Known

\* The entry is the first visit, or the loop stops with none.
LEMMA EnterSearch == Inv /\ Order /\ Enter => Search!Next
<1>. SUFFICES ASSUME Inv, Order, Enter PROVE Search!Next
  OBVIOUS
<1>1. /\ modules = <<>> /\ at = 1 /\ at' = 1 /\ ~Over /\ Index = {}
      /\ UNCHANGED program
  BY EmptySeq DEF Order, Others, Enter, Over, Index
<1>2. Leads' = Leads
  BY <1>1 DEF Leads, program
<1>3. PICK root \in RootNumbers :
        \/ step' = "failed" /\ UNCHANGED modules
        \/ step' = "load" /\ modules' = WithInterned(entry, root)
  BY DEF Enter
<1>4. CASE step' = "failed" /\ UNCHANGED modules
  <2>1. Over' /\ Index' = {}
    BY <1>1, <1>4 DEF Over, Index
  <2>2. Search!Stop
    BY <1>1, <1>2, <2>1, Stops DEF Known, Left, Read
  <2>. QED
    BY <2>2 DEF Search!Next
<1>5. CASE step' = "load" /\ modules' = WithInterned(entry, root)
  <2>1. entry \in Files
    BY DEF Inv, LoopTyped
  <2>2. byPath[Canonical(entry)] = INVALID_MODULE
    BY <1>1, <2>1, CanonicalFile DEF Inv, Tidy, Index
  <2>3. modules' = Append(modules, Made(entry, root))
    BY <1>5, <2>2 DEF WithInterned, Key
  <2>4. Len(modules) = 0 /\ modules \in Seq(ModuleRecord)
    BY <1>1 DEF Inv, Typed
  <2>5. Made(entry, root) \in ModuleRecord
    BY <2>1 DEF Made, ModuleRecord, Dependency
  <2>6. Index' = {1} /\ modules'[1] = Made(entry, root)
    BY <2>3, <2>4, <2>5, AppendProperties, LenProperties DEF Index
  <2>7. Known(Index)' = {Visit(entry, root)}
    BY <2>6 DEF Known, Made
  <2>8. Known(Left)' = {} /\ Known(Read)' = {} /\ ~Over'
    BY <1>1, <1>5, <2>6 DEF Known, Left, Read, Over
  <2>9. Known(Left) = {} /\ Known(Read) = {} /\ Known(Index) = {}
    BY <1>1 DEF Known, Left, Read
  <2>10. Visit(entry, root) \in DOMAIN Leads
    <3>1. Visit(entry, root) \in Visits
      BY <2>1 DEF Visit, Visits
    <3>. QED
      BY <3>1, LeadsOn
  <2>11. UNCHANGED <<Leads, Known(Left), Known(Read), Over>>
    <3>1. step = "entry"
      BY DEF Enter
    <3>2. Over' = Over
      BY <1>5, <3>1 DEF Over
    <3>. QED
      BY <1>2, <2>8, <2>9, <3>2
  <2>12. Search!Enter
    BY <1>1, <2>7, <2>9, <2>10, <2>11 DEF Search!Enter, Leads, Left, Read
  <2>. QED
    BY <2>12 DEF Search!Next
<1>. QED
  BY <1>3, <1>4, <1>5

\* A file that is not read is left, and nothing is asked of it.
LEMMA NotParsedSearch ==
    Inv /\ Order /\ (Unreadable \/ DoesNotParse) => Search!Next
<1>. SUFFICES ASSUME Inv, Order, NEW gone \in BOOLEAN, NotParsed(gone)
              PROVE Search!Next
  BY DEF Unreadable, DoesNotParse
<1>1. /\ step = "load" /\ step' = "load" /\ at' = at + 1
      /\ UNCHANGED <<program, modules>> /\ at \in Index
  <2>1. modules \in Seq(ModuleRecord) /\ DOMAIN modules = 1 .. Len(modules)
        /\ Len(modules) \in Nat
    BY LenProperties DEF Inv, Typed
  <2>. QED
    BY <2>1 DEF NotParsed, Loading, Inv, LoopTyped, Index
<1>2. UNCHANGED <<Leads, Known(Index), Over>> /\ ~Over
  BY <1>1 DEF Leads, Known, Index, Over, program
<1>3. ~modules[at].parsed
  BY <1>1 DEF Order, Others, Untouched
<1>4. /\ Known(Left)' = Known({m \in Index : m < at + 1})
      /\ Known(Read)' = Known({m \in Index : m < at + 1 /\ modules[m].parsed})
  BY <1>1 DEF Known, Left, Read, Index
<1>5. Search!Leave
  BY <1>1, <1>2, <1>3, <1>4, GoingOn, Leaves
<1>. QED
  BY <1>5 DEF Search!Next

\* One that parses is left at once when no more was asked for.
LEMMA ParsesSearch ==
    Inv /\ Order /\ Parses => [Search!Next]_(Search!reachVars)
<1>. SUFFICES ASSUME Inv, Order, Parses PROVE [Search!Next]_(Search!reachVars)
  OBVIOUS
<1>1. /\ step = "load" /\ at \in Index /\ UNCHANGED program
      /\ modules \in Seq(ModuleRecord)
      /\ modules' = [modules EXCEPT ![at].parsed = TRUE]
      /\ step' \in {"load", "imports"}
  <2>1. modules \in Seq(ModuleRecord) /\ DOMAIN modules = 1 .. Len(modules)
        /\ Len(modules) \in Nat
    BY LenProperties DEF Inv, Typed
  <2>. QED
    BY <2>1 DEF Parses, Loading, Inv, LoopTyped, Index
<1>2. modules[at] \in ModuleRecord
  BY <1>1, ModuleAt
<1>3. /\ Index' = Index
      /\ \A m \in Index : /\ modules'[m].path = modules[m].path
                          /\ modules'[m].root = modules[m].root
                          /\ m # at => modules'[m] = modules[m]
      /\ modules'[at].parsed
  BY <1>1, <1>2 DEF Index, ModuleRecord
<1>4. \A S \in SUBSET Index :
         {Visit(modules'[m].path, modules'[m].root) : m \in S} = Known(S)
  BY <1>3 DEF Known
<1>5. UNCHANGED <<Leads, Known(Index), Over>> /\ ~Over
  BY <1>1, <1>3, <1>4 DEF Leads, Known, Over, program
<1>6. CASE onlyParse
  <2>1. at' = at + 1
    BY <1>6 DEF Parses
  <2>2. Left' = {m \in Index : m < at + 1} /\ Left' \in SUBSET Index
    BY <1>3, <2>1 DEF Left
  <2>3. Read' = {m \in Index : m < at /\ modules[m].parsed} \cup {at}
    <3>1. \A m \in Index : m \in Nat
      BY ModuleAt
    <3>2. Read' = {m \in Index : m < at + 1 /\ modules'[m].parsed}
      BY <1>3, <2>1 DEF Read
    <3>3. \A m \in Index : m < at + 1 /\ modules'[m].parsed
                              <=> (m < at /\ modules[m].parsed) \/ m = at
      BY <1>1, <1>3, <3>1
    <3>. QED
      BY <1>1, <3>2, <3>3
  <2>4. Known(Left)' = Known(Left) \cup {VisitAt(at)}
    <3>1. Known(Left)' = {Visit(modules'[m].path, modules'[m].root) : m \in Left'}
      BY DEF Known
    <3>2. Known(Left') = Known(Left) \cup {VisitAt(at)}
      BY <1>1, <2>2, GoingOn
    <3>. QED
      BY <1>4, <2>2, <3>1, <3>2
  <2>5. Known(Read)' = Known(Read) \cup {VisitAt(at)}
    <3>1. Known(Read)' = {Visit(modules'[m].path, modules'[m].root) : m \in Read'}
      BY DEF Known
    <3>2. Read' = Read \cup {at} /\ Read' \in SUBSET Index
      BY <1>1, <2>3 DEF Read
    <3>3. Known(Read \cup {at}) = Known(Read) \cup {VisitAt(at)}
      BY DEF Known, VisitAt
    <3>. QED
      BY <1>4, <3>1, <3>2, <3>3
  <2>6. VisitAt(at) \in Known(Index) \ Known(Left)
    BY <1>1, GoingOn
  <2>7. Search!FilesOf(Leads[VisitAt(at)]) \subseteq Search!FilesOf(Known(Index))
    <3>1. Leads[VisitAt(at)] = {}
      BY <1>1, <1>6, Visited, LeadsOn
    <3>. QED
      BY <3>1 DEF Search!FilesOf
  <2>8. Search!Leave
    BY <1>5, <2>4, <2>5, <2>6, <2>7, Leaves
  <2>. QED
    BY <2>8 DEF Search!Next
<1>7. CASE ~onlyParse
  <2>1. at' = at
    BY <1>7 DEF Parses
  <2>2. Left' = Left /\ Read' = Read
    <3>1. \A m \in Index : m < at => m # at
      BY ModuleAt
    <3>. QED
      BY <1>3, <2>1, <3>1 DEF Left, Read
  <2>3. Known(Left)' = Known(Left) /\ Known(Read)' = Known(Read)
    <3>1. Left \in SUBSET Index /\ Read \in SUBSET Index
      BY DEF Left, Read
    <3>2. /\ Known(Left)' = {Visit(modules'[m].path, modules'[m].root) : m \in Left'}
          /\ Known(Read)' = {Visit(modules'[m].path, modules'[m].root) : m \in Read'}
      BY DEF Known
    <3>. QED
      BY <1>4, <2>2, <3>1, <3>2
  <2>. QED
    BY <1>5, <2>3, Stutters
<1>. QED
  BY <1>6, <1>7

\* Interning what the module in hand leads to is a discovery, or nothing.
LEMMA InternSearch ==
    ASSUME Inv, Order, Following, UNCHANGED <<program, at, step>>,
           NEW path \in Files, NEW root \in RootNumbers,
           Visit(path, root) \in LeadsTo(text, VisitAt(at)),
           DOMAIN modules' = DOMAIN WithInterned(path, root),
           \A m \in DOMAIN modules' :
              /\ modules'[m].path = WithInterned(path, root)[m].path
              /\ modules'[m].root = WithInterned(path, root)[m].root
              /\ m \in DOMAIN modules =>
                    modules'[m].parsed = modules[m].parsed
    PROVE  [Search!Next]_(Search!reachVars)
<1>. DEFINE list == WithInterned(path, root)
            w == Visit(path, root)
<1>1. /\ at \in Index /\ step = "imports" /\ step' = "imports" /\ at' = at
      /\ ~onlyParse
  BY DEF Following, Inv, LoopTyped, Order, Others
<1>2. UNCHANGED Leads /\ UNCHANGED Over /\ ~Over
  BY <1>1 DEF Leads, Over, program
<1>3. /\ DOMAIN modules \subseteq DOMAIN list
      /\ \A m \in DOMAIN modules : list[m] = modules[m]
  BY Grown
<1>4. \A S \in SUBSET Index :
         {Visit(modules'[m].path, modules'[m].root) : m \in S} = Known(S)
  BY <1>3 DEF Known, Index
<1>5. Left' = Left /\ Read' = Read
  <2>1. \A m \in Index' : m < at => m \in Index
    <3>1. DOMAIN modules = 1 .. Len(modules) /\ Len(modules) \in Nat
      BY LenProperties DEF Inv, Typed
    <3>2. DOMAIN list \subseteq Nat \ {0}
      <4>1. list \in Seq(ModuleRecord)
        BY Grown
      <4>. QED
        BY <4>1, LenProperties
    <3>. QED
      BY <1>1, <3>1, <3>2 DEF Index
  <2>. QED
    BY <1>1, <1>3, <2>1 DEF Left, Read, Index
<1>6. Known(Left)' = Known(Left) /\ Known(Read)' = Known(Read)
  <2>1. Left \in SUBSET Index /\ Read \in SUBSET Index
    BY DEF Left, Read
  <2>2. /\ Known(Left)' = {Visit(modules'[m].path, modules'[m].root) : m \in Left'}
        /\ Known(Read)' = {Visit(modules'[m].path, modules'[m].root) : m \in Read'}
    BY DEF Known
  <2>. QED
    BY <1>4, <1>5, <2>1, <2>2
<1>7. Known(Index)' = {Visit(modules'[m].path, modules'[m].root) : m \in Index'}
  BY DEF Known
<1>8. CASE byPath[Canonical(path)] # INVALID_MODULE
  <2>1. Index' = Index
    BY <1>8 DEF WithInterned, Key, Index
  <2>2. Known(Index)' = Known(Index)
    BY <1>4, <1>7, <2>1
  <2>. QED
    BY <1>2, <1>6, <2>2, Stutters
<1>9. CASE byPath[Canonical(path)] = INVALID_MODULE
  <2>1. list = Append(modules, Made(path, root))
    BY <1>9 DEF WithInterned, Key
  <2>2. modules \in Seq(ModuleRecord) /\ Made(path, root) \in ModuleRecord
    BY DEF Made, ModuleRecord, Dependency, Inv, Typed
  <2>. DEFINE new == Len(modules) + 1
  <2>3. /\ DOMAIN list = DOMAIN modules \cup {new} /\ list[new] = Made(path, root)
    <3>1. /\ DOMAIN list = 1 .. Len(modules) + 1 /\ list[new] = Made(path, root)
          /\ DOMAIN modules = 1 .. Len(modules) /\ Len(modules) \in Nat
      BY <2>1, <2>2, AppendProperties, LenProperties
    <3>. QED
      BY <3>1
  <2>. HIDE DEF list, new
  <2>4. Index' = Index \cup {new} /\ new \in Index'
    BY <2>3 DEF Index, list
  <2>5. Visit(modules'[new].path, modules'[new].root) = w
    BY <2>3, <2>4 DEF Index, Made, list
  <2>6. Known(Index)' = Known(Index) \cup {w}
    <3>1. {Visit(modules'[m].path, modules'[m].root) : m \in Index} = Known(Index)
      BY <1>4
    <3>. QED
      BY <1>7, <2>4, <2>5, <3>1
  <2>7. w.file \notin Search!FilesOf(Known(Index))
    <3>1. \A m \in Index : Canonical(modules[m].path) # Canonical(path)
      <4>1. \A m \in Index : byPath[Canonical(modules[m].path)] # INVALID_MODULE
        BY ModuleAt DEF Inv, Tidy, Index, INVALID_MODULE
      <4>. QED
        BY <1>9, <4>1
    <3>. QED
      BY <3>1 DEF Search!FilesOf, Known, Visit
  <2>8. VisitAt(at) \in Known(Index) \ Known(Left) /\ w \in Leads[VisitAt(at)]
    BY <1>1, GoingOn, Visited, LeadsOn
  <2>9. Search!Discover
    BY <1>2, <1>6, <2>6, <2>7, <2>8, Discovers
  <2>. QED
    BY <2>9 DEF Search!Next
<1>. QED
  BY <1>8, <1>9

\* What a visit leads to, place by place.
LEMMA LedTo ==
    ASSUME NEW v, v.root # INVALID_ROOT, NEW w
    PROVE  w \in LeadsTo(text, v) <=>
             \/ \E i \in DOMAIN text[v.file] :
                   \E f \in FilesAt(v.root, text[v.file][i]) :
                      w = Visit(f, AnswerAt(v.root, text[v.file][i]).root)
             \/ \E p \in DOMAIN Prelude :
                   w = Visit(Prelude[p].path, Prelude[p].root)
<1>. DEFINE imports == text[v.file]
            Of(import) == {Visit(f, AnswerAt(v.root, import).root) :
                              f \in FilesAt(v.root, import)}
            all == {Of(imports[i]) : i \in DOMAIN imports}
            ours == {Visit(Prelude[p].path, Prelude[p].root) : p \in DOMAIN Prelude}
<1>1. LeadsTo(text, v) = (UNION all) \cup ours
  BY DEF LeadsTo
<1>2. w \in UNION all <=> \E i \in DOMAIN imports : w \in Of(imports[i])
  <2>. HIDE DEF Of, imports
  <2>. QED
    OBVIOUS
<1>3. \A import : w \in Of(import) <=>
         \E f \in FilesAt(v.root, import) :
            w = Visit(f, AnswerAt(v.root, import).root)
  OBVIOUS
<1>4. w \in ours <=>
         \E p \in DOMAIN Prelude : w = Visit(Prelude[p].path, Prelude[p].root)
  OBVIOUS
<1>5. w \in LeadsTo(text, v) <=> w \in UNION all \/ w \in ours
  <2>. HIDE DEF all, ours
  <2>. QED
    BY <1>1
<1>. HIDE DEF all, ours, Of
<1>. QED
  BY <1>2, <1>3, <1>4, <1>5

\* Depending on a module moves none.
LEMMA DependedSame ==
    ASSUME Inv, at \in Index, NEW path \in Files, NEW root \in RootNumbers,
           NEW alias \in Aliases
    PROVE  LET list == WithInterned(path, root)
               after == Depends(list, at, InternedAt(path), alias)
           IN  /\ DOMAIN after = DOMAIN list
               /\ \A m \in DOMAIN after :
                    /\ after[m].path = list[m].path
                    /\ after[m].root = list[m].root
                    /\ m \in DOMAIN modules => after[m].parsed = modules[m].parsed
<1>. DEFINE list == WithInterned(path, root)
            after == Depends(list, at, InternedAt(path), alias)
<1>1. /\ DOMAIN after = DOMAIN list
      /\ \A m \in DOMAIN list : m # at => after[m] = list[m]
      /\ after[at].path = modules[at].path /\ after[at].root = modules[at].root
      /\ after[at].parsed = modules[at].parsed
  BY Depended
<1>2. at \in DOMAIN modules /\ \A m \in DOMAIN modules : list[m] = modules[m]
  BY Grown DEF Index
<1>. HIDE DEF list, after
<1>3. \A m \in DOMAIN after :
         /\ after[m].path = list[m].path /\ after[m].root = list[m].root
         /\ m \in DOMAIN modules => after[m].parsed = modules[m].parsed
  BY <1>1, <1>2
<1>. QED
  BY <1>1, <1>3 DEF list, after

\* A file an import leads to is one the module leads to.
LEMMA AddDependencySearch ==
    Inv /\ Order /\ AddDependency => [Search!Next]_(Search!reachVars)
<1>. SUFFICES ASSUME Inv, Order, AddDependency
              PROVE [Search!Next]_(Search!reachVars)
  OBVIOUS
<1>1. /\ Following /\ at \in Index /\ UNCHANGED <<program, at, step>>
      /\ modules[at].root # INVALID_ROOT /\ imported \in Nat
      /\ found \in [files : SUBSET Files, root : RootNumbers, alias : Aliases]
      /\ step = "imports"
  BY DEF AddDependency, Following, Inv, LoopTyped
<1>2. PICK file \in found.files :
         modules' = Depends(WithInterned(file, found.root), at,
                            InternedAt(file), found.alias)
  BY DEF AddDependency
<1>3. file \in Files /\ found.root \in RootNumbers /\ found.alias \in Aliases
  BY <1>1
<1>4. ImportsOf(at) \in Seq(Imports) /\ Len(ImportsOf(at)) \in Nat
      /\ DOMAIN ImportsOf(at) = 1 .. Len(ImportsOf(at))
  BY <1>1, ModuleAt, LenProperties
<1>5. /\ imported \in DOMAIN ImportsOf(at)
      /\ InTurn(ImportsOf(at)[imported], modules[at].root, found)
  <2>1. Advanced(modules[at], at, ImportsOf(at), byPath, reports, imported,
                 found, given)
    BY <1>1 DEF Order, Current
  <2>2. found.files # {} /\ modules[at].root # INVALID_ROOT
    BY <1>1, <1>2
  <2>3. /\ imported <= Len(ImportsOf(at)) /\ imported > 0
        /\ InTurn(ImportsOf(at)[imported], modules[at].root, found)
    BY <2>1, <2>2 DEF Advanced
  <2>. QED
    BY <1>1, <1>4, <2>3
<1>6. Visit(file, found.root) \in LeadsTo(text, VisitAt(at))
  <2>1. /\ VisitAt(at).root = modules[at].root
        /\ text[VisitAt(at).file] = ImportsOf(at)
    BY DEF VisitAt, Visit, ImportsOf
  <2>. QED
    BY <1>1, <1>2, <1>5, <2>1, LedTo DEF InTurn
<1>7. /\ DOMAIN modules' = DOMAIN WithInterned(file, found.root)
      /\ \A m \in DOMAIN modules' :
            /\ modules'[m].path = WithInterned(file, found.root)[m].path
            /\ modules'[m].root = WithInterned(file, found.root)[m].root
            /\ m \in DOMAIN modules => modules'[m].parsed = modules[m].parsed
  BY <1>1, <1>2, <1>3, DependedSame
<1>. QED
  BY <1>1, <1>3, <1>6, <1>7, InternSearch

\* So is one of the prelude.
LEMMA AddPreludeSearch ==
    Inv /\ Order /\ AddPrelude => [Search!Next]_(Search!reachVars)
<1>. SUFFICES ASSUME Inv, Order, AddPrelude
              PROVE [Search!Next]_(Search!reachVars)
  OBVIOUS
<1>. DEFINE offer == Prelude[given + 1]
            list == WithInterned(offer.path, offer.root)
            target == InternedAt(offer.path)
<1>1. /\ Following /\ at \in Index /\ UNCHANGED <<program, at, step>>
      /\ modules[at].root # INVALID_ROOT
      /\ \/ modules' = list
         \/ modules' = Depends(list, at, target, INVALID_STRING)
  BY DEF AddPrelude, Following, Inv, LoopTyped
<1>2. given + 1 \in DOMAIN Prelude /\ DOMAIN Prelude = 1 .. Len(Prelude)
  BY PreludeAssumption, LenProperties DEF AddPrelude, Inv, LoopTyped
<1>3. offer.path \in Files /\ offer.root \in RootNumbers
  <2>1. offer \in [path : Files, root : DOMAIN Roots]
    BY <1>2, PreludeAssumption, ElementOfSeq
  <2>. QED
    BY <2>1 DEF RootNumbers
<1>4. Visit(offer.path, offer.root) \in LeadsTo(text, VisitAt(at))
  <2>1. VisitAt(at).root = modules[at].root
    BY DEF VisitAt, Visit
  <2>. QED
    BY <1>1, <1>2, <2>1, LedTo
<1>. HIDE DEF offer
<1>5. /\ DOMAIN modules' = DOMAIN list
      /\ \A m \in DOMAIN modules' :
            /\ modules'[m].path = list[m].path
            /\ modules'[m].root = list[m].root
            /\ m \in DOMAIN modules => modules'[m].parsed = modules[m].parsed
  <2>1. CASE modules' = list
    BY <1>3, <2>1, Grown
  <2>2. CASE modules' = Depends(list, at, target, INVALID_STRING)
    BY <1>1, <1>3, <2>2, AliasesAssumption, DependedSame
  <2>. QED
    BY <1>1, <2>1, <2>2
<1>. QED
  BY <1>1, <1>3, <1>4, <1>5, InternSearch

\* A module that was read and is left leads to nothing that is not known.
LEMMA LeaveSearch == Inv /\ Order /\ LeaveModule => Search!Next
<1>. SUFFICES ASSUME Inv, Order, LeaveModule PROVE Search!Next
  OBVIOUS
<1>1. /\ step = "imports" /\ step' = "load" /\ at' = at + 1 /\ at \in Index
      /\ UNCHANGED <<program, modules>>
      /\ ~onlyParse /\ modules[at].parsed
  BY DEF LeaveModule, Inv, LoopTyped, Order, Others
<1>2. UNCHANGED <<Leads, Known(Index), Over>> /\ ~Over
  BY <1>1 DEF Leads, Known, Index, Over, program
<1>3. /\ Known(Left)' = Known({m \in Index : m < at + 1})
      /\ Known(Read)' = Known({m \in Index : m < at + 1 /\ modules[m].parsed})
  BY <1>1 DEF Known, Left, Read, Index
<1>. DEFINE root == modules[at].root
            imports == ImportsOf(at)
            v == VisitAt(at)
<1>4. Leads[v] = LeadsTo(text, v) /\ v.root = root /\ text[v.file] = imports
  BY <1>1, Visited, LeadsOn DEF VisitAt, Visit, ImportsOf
<1>5. ASSUME NEW f \in Files, byPath[Canonical(f)] # INVALID_MODULE
      PROVE  Canonical(f) \in Search!FilesOf(Known(Index))
  <2>1. Canonical(f) \in Files
    BY CanonicalFile
  <2>2. PICK m \in Index : Canonical(modules[m].path) = Canonical(f)
    BY <1>5, <2>1 DEF Inv, Tidy, Index
  <2>3. VisitAt(m) \in Known(Index) /\ VisitAt(m).file = Canonical(f)
    BY <2>2 DEF Known, VisitAt, Visit
  <2>. QED
    BY <2>3 DEF Search!FilesOf
<1>6. ASSUME root # INVALID_ROOT
      PROVE  /\ \A i \in DOMAIN imports : \A f \in FilesAt(root, imports[i]) :
                   f \in Files /\ byPath[Canonical(f)] # INVALID_MODULE
             /\ \A p \in DOMAIN Prelude :
                   /\ Prelude[p].path \in Files
                   /\ byPath[Canonical(Prelude[p].path)] # INVALID_MODULE
  <2>1. /\ found.files = {} /\ imported = Len(imports) /\ given = Len(Prelude)
    BY <1>6 DEF LeaveModule, AllAnswered, Writes, ImportsOf, Key
  <2>2. Advanced(modules[at], at, imports, byPath, reports, imported, found, given)
    BY <1>1, <1>6 DEF Order, Current
  <2>3. imports \in Seq(Imports) /\ root \in RootNumbers
    BY <1>1, ModuleAt
  <2>. HIDE DEF imports, root
  <2>4. DoneUpTo(Places(imports, root), imported, {}) = Places(imports, root)
    BY <2>1, <2>3, AllDone
  <2>5. /\ Entered(modules[at].dependencies, imports, root, byPath,
                   Places(imports, root))
        /\ Offered(modules[at].dependencies, at, byPath, Len(Prelude))
    BY <2>1, <2>2, <2>4 DEF Advanced, root
  <2>6. ASSUME NEW i \in DOMAIN imports, NEW f \in FilesAt(root, imports[i])
        PROVE  f \in Files /\ byPath[Canonical(f)] # INVALID_MODULE
    <3>1. imports[i] \in Imports
      BY <2>3, ElementOfSeq, LenProperties
    <3>2. f \in Files
      BY <2>3, <3>1, Finding
    <3>3. PICK d \in DOMAIN Disk : Disk[d] = f
      BY <3>2 DEF Files
    <3>4. <<i, d>> \in Places(imports, root)
      BY <3>3 DEF Places
    <3>. QED
      BY <2>5, <3>2, <3>3, <3>4 DEF Entered
  <2>7. ASSUME NEW p \in DOMAIN Prelude
        PROVE  /\ Prelude[p].path \in Files
               /\ byPath[Canonical(Prelude[p].path)] # INVALID_MODULE
    <3>1. p \in 1 .. Len(Prelude)
      BY PreludeAssumption, LenProperties
    <3>2. Prelude[p] \in [path : Files, root : DOMAIN Roots]
      BY <3>1, PreludeAssumption, ElementOfSeq
    <3>. QED
      BY <2>5, <3>1, <3>2 DEF Offered
  <2>. QED
    BY <2>6, <2>7
<1>7. ASSUME NEW w \in LeadsTo(text, v)
      PROVE  w.file \in Search!FilesOf(Known(Index))
  <2>. HIDE DEF v, imports, root
  <2>1. /\ root # INVALID_ROOT
        /\ \/ \E i \in DOMAIN imports : \E f \in FilesAt(root, imports[i]) :
                 w.file = Canonical(f)
           \/ \E p \in DOMAIN Prelude : w.file = Canonical(Prelude[p].path)
    <3>1. root # INVALID_ROOT
      BY <1>4, <1>7 DEF LeadsTo
    <3>. QED
      BY <1>4, <1>7, <3>1, LedTo DEF Visit
  <2>. QED
    BY <1>5, <1>6, <2>1
<1>8. Search!FilesOf(Leads[v]) \subseteq Search!FilesOf(Known(Index))
  <2>1. \A f \in Search!FilesOf(Leads[v]) : \E w \in Leads[v] : f = w.file
    BY DEF Search!FilesOf
  <2>. QED
    BY <1>4, <1>7, <2>1
<1>9. Search!Leave
  BY <1>1, <1>2, <1>3, <1>8, GoingOn, Leaves
<1>. QED
  BY <1>9 DEF Search!Next

\* The loop ends when every visit is left.
LEMMA FinishSearch == Inv /\ Order /\ Finish => Search!Next
<1>. SUFFICES ASSUME Inv, Order, Finish PROVE Search!Next
  OBVIOUS
<1>1. /\ step = "load" /\ step' = "done" /\ UNCHANGED <<program, modules, at>>
      /\ at > Len(modules) /\ at \in Nat
  BY DEF Finish, Inv, LoopTyped
<1>2. \A m \in Index : m < at
  <2>1. DOMAIN modules = 1 .. Len(modules) /\ Len(modules) \in Nat
    BY LenProperties DEF Inv, Typed
  <2>. QED
    BY <1>1, <2>1 DEF Index
<1>3. Known(Left) = Known(Index)
  <2>1. Left = Index
    BY <1>2 DEF Left
  <2>. QED
    BY <2>1
<1>4. /\ UNCHANGED <<Leads, Known(Index), Known(Left), Known(Read)>>
      /\ ~Over /\ Over'
  BY <1>1 DEF Leads, Known, Left, Read, Index, Over, program
<1>5. Search!Stop
  BY <1>3, <1>4, Stops
<1>. QED
  BY <1>5 DEF Search!Next

\* Asking where a file is, and nothing, are no steps of the search.
LEMMA IdleSearch ==
    ResolveImport \/ UNCHANGED vars => UNCHANGED Search!reachVars
<1>1. ResolveImport \/ UNCHANGED vars =>
         UNCHANGED <<program, modules, at, step>>
  BY DEF ResolveImport, vars, program
<1>2. UNCHANGED <<program, modules, at, step>> =>
         UNCHANGED <<Leads, Known(Index), Known(Left), Known(Read), Over>>
  BY DEF Leads, Known, Left, Read, Index, Over, program
<1>. QED
  BY <1>1, <1>2, Stutters

-----------------------------------------------------------------------------
(* The name of a module.                                                   *)

\* A sequence that is cut in two is its two parts, one after the other.
LEMMA CutAndJoined ==
    ASSUME NEW S, NEW file \in Seq(S), NEW n \in Nat, n <= Len(file)
    PROVE  SubSeq(file, 1, n) \o SubSeq(file, n + 1, Len(file))
               = SubSeq(file, 1, Len(file))
<1>1. Len(file) \in Nat
  BY LenProperties
<1>2. 1 \in 1 .. Len(file) + 1 /\ n \in 1 - 1 .. Len(file) /\ Len(file) \in n .. Len(file)
  BY <1>1
<1>. QED
  BY <1>2, ConcatAdjacentSubSeq

\* The path of a file under a directory is the directory and what is below it.
LEMMA BelowDirectory ==
    ASSUME NEW file \in Seq(STRING), NEW base \in Seq(STRING),
           StartsWith(file, base)
    PROVE  /\ Relative(file, base) \in Seq(STRING)
           /\ Len(Relative(file, base)) > 0
           /\ base \o Relative(file, base) = file
<1>. DEFINE common == {n \in 0 .. Len(base) : n <= Len(file) /\
                          SubSeq(file, 1, n) = SubSeq(base, 1, n)}
            part == CHOOSE n \in common : \A o \in common : o <= n
            tail == SubSeq(file, Len(base) + 1, Len(file))
<1>1. Len(file) \in Nat /\ Len(base) \in Nat /\ Len(base) < Len(file)
  BY LenProperties DEF StartsWith
<1>2. SubSeq(file, 1, Len(base)) = base /\ SubSeq(base, 1, Len(base)) = base
  BY SubSeqFull DEF StartsWith
<1>3. Len(base) \in common /\ \A o \in common : o <= Len(base)
  BY <1>1, <1>2
<1>4. part = Len(base)
  <2>1. part \in common /\ \A o \in common : o <= part
    BY <1>3
  <2>2. Len(base) <= part
    BY <1>3, <2>1
  <2>3. part \in 0 .. Len(base)
    BY <2>1
  <2>. HIDE DEF part, common
  <2>. QED
    BY <1>1, <2>2, <2>3
<1>5. [i \in 1 .. Len(base) - part |-> ".."] = <<>>
  <2>1. Len(base) - part = 0
    <3>. HIDE DEF part
    <3>. QED
      BY <1>1, <1>4
  <2>2. [i \in 1 .. 0 |-> ".."] \in Seq(STRING)
    BY SeqDef
  <2>3. Len([i \in 1 .. 0 |-> ".."]) = 0
    BY <2>2, LenProperties
  <2>4. [i \in 1 .. 0 |-> ".."] = <<>>
    BY <2>2, <2>3, EmptySeq
  <2>. HIDE DEF part
  <2>. QED
    BY <2>1, <2>4
<1>6. tail \in Seq(STRING) /\ Len(tail) = Len(file) - Len(base)
  <2>1. \A i \in Len(base) + 1 .. Len(file) : file[i] \in STRING
    BY <1>1, ElementOfSeq
  <2>. QED
    BY <1>1, <2>1, SubSeqProperties
<1>7. Relative(file, base) = <<>> \o SubSeq(file, part + 1, Len(file))
  BY <1>5, ZenonT(60) DEF Relative
<1>. HIDE DEF part, common
<1>8. Relative(file, base) = tail
  BY <1>4, <1>6, <1>7, ConcatEmptySeq
<1>9. base \o tail = file
  <2>1. SubSeq(file, 1, Len(base)) \o SubSeq(file, Len(base) + 1, Len(file))
            = SubSeq(file, 1, Len(file))
    <3>1. PICK n \in Nat : n = Len(base) /\ n <= Len(file)
      BY <1>1
    <3>2. SubSeq(file, 1, n) \o SubSeq(file, n + 1, Len(file))
            = SubSeq(file, 1, Len(file))
      BY <3>1, CutAndJoined
    <3>. QED
      BY <3>1, <3>2
  <2>. QED
    BY <1>2, <2>1, SubSeqFull
<1>. QED
  BY <1>1, <1>6, <1>8, <1>9

\* A sequence of one element.
LEMMA OneElement ==
    ASSUME NEW S, NEW x \in S
    PROVE  <<x>> \in Seq(S) /\ Len(<<x>>) = 1 /\ <<x>>[1] = x
<1>1. <<x>> \in Seq(S)
  OBVIOUS
<1>2. Len(<<x>>) = 1
  OBVIOUS
<1>3. <<x>>[1] = x
  OBVIOUS
<1>. QED
  BY <1>1, <1>2, <1>3

\* A dotted name has a head, its first part, and a tail, the others.
LEMMA DottedName ==
    ASSUME NEW S, NEW x \in S, NEW s \in Seq(S)
    PROVE  /\ Len(<<x>> \o s) = Len(s) + 1
           /\ Head(<<x>> \o s) = x
           /\ Tail(<<x>> \o s) = s
<1>1. PICK o \in Seq(S) : o = <<x>> /\ Len(o) = 1 /\ o[1] = x
  BY OneElement
<1>2. Len(s) \in Nat
  BY LenProperties
<1>3. PICK d : d = o \o s
  OBVIOUS
<1>4. o \o s \in Seq(S) /\ Len(o \o s) = Len(o) + Len(s)
  BY ConcatProperties
<1>5. \A i \in 1 .. Len(o) + Len(s) : (o \o s)[i] = IF i <= Len(o) THEN o[i] ELSE s[i - Len(o)]
  BY ConcatProperties
<1>6. /\ d \in Seq(S) /\ Len(d) = 1 + Len(s)
      /\ \A i \in 1 .. 1 + Len(s) : d[i] = IF i <= 1 THEN x ELSE s[i - 1]
  BY <1>1, <1>3, <1>4, <1>5
<1>7. d # <<>>
  BY <1>2, <1>6, EmptySeq
<1>8. PICK t \in Seq(S) : t = Tail(d) /\ Len(t) = Len(s)
         /\ \A i \in 1 .. Len(t) : t[i] = d[i + 1]
  BY <1>2, <1>6, <1>7, HeadTailProperties, SMTT(60)
<1>9. \A i \in 1 .. Len(t) : t[i] = s[i]
  <2>1. TAKE i \in 1 .. Len(t)
  <2>2. i + 1 \in 1 .. 1 + Len(s) /\ ~ (i + 1 <= 1) /\ (i + 1) - 1 = i
    BY <1>2, <1>8
  <2>3. d[i + 1] = s[(i + 1) - 1]
    BY <1>6, <2>2
  <2>. QED
    BY <1>8, <2>2, <2>3
<1>10. t = s
  BY <1>8, <1>9, SeqEqual
<1>11. Head(d) = x
  <2>1. Head(d) = d[1]
    BY <1>6, <1>7, HeadTailProperties
  <2>. QED
    BY <1>2, <1>6, <2>1
<1>. QED
  BY <1>1, <1>2, <1>3, <1>6, <1>8, <1>10, <1>11

\* A root is reached by the name it gives itself.
LEMMA SeesItself ==
    ASSUME NEW root \in DOMAIN Roots, Roots[root].path # NoPath
    PROVE  VisibleRoot(Roots, root, Roots[root].name) = root
<1>. DEFINE lines == Roots[root].sees
            named == {i \in DOMAIN lines : lines[i].name = Roots[root].name}
            first == CHOOSE i \in named : \A j \in named : i <= j
<1>1. PICK i \in DOMAIN lines : lines[i] = Sees(Roots[root].name, root)
  BY RootsAssumption
<1>2. lines[i].name = Roots[root].name /\ lines[i].root = root
  BY <1>1 DEF Sees
<1>3. i \in Nat
  <2>1. Roots \in Seq([name : STRING, path : Seq(STRING),
                       sees : Seq([name : STRING, root : Nat])])
    BY RootsAssumption
  <2>2. Roots[root] \in [name : STRING, path : Seq(STRING),
                         sees : Seq([name : STRING, root : Nat])]
    BY <2>1, ElementOfSeq, LenProperties
  <2>3. lines \in Seq([name : STRING, root : Nat])
    BY <2>2
  <2>. QED
    BY <2>3, LenProperties
<1>4. \A j \in named : j = i
  BY <1>2, RootsAssumption
<1>5. named = {i}
  BY <1>2, <1>4
<1>. HIDE DEF named
<1>6. first = i
  <2>1. \E k \in named : \A j \in named : k <= j
    BY <1>3, <1>5
  <2>2. first \in named
    BY <2>1
  <2>. QED
    BY <1>5, <2>2
<1>7. VisibleRoot(Roots, root, Roots[root].name)
        = IF named = {} THEN INVALID_ROOT ELSE lines[first].root
  BY DEF VisibleRoot, named
<1>. QED
  BY <1>2, <1>5, <1>6, <1>7

\* The name of a file under a root finds the file.
LEMMA NameFinds ==
    ASSUME NEW root \in DOMAIN Roots, Roots[root].path # NoPath,
           NEW file \in Files, file \notin DOMAIN Links,
           StartsWith(file, Roots[root].path)
    PROVE  LET answer == Find(Roots, root, ModuleNameOfFile(Roots, root, file))
           IN  answer.status = "ok" /\ Canonical(answer.path) = file
<1>. DEFINE base == Roots[root].path
            own == Roots[root].name
            tail == Relative(file, base)
            name == ModuleNameOfFile(Roots, root, file)
            answer == Find(Roots, root, name)
<1>1. base \in Seq(STRING) /\ own \in STRING /\ root # INVALID_ROOT
  <2>1. Roots[root] \in [name : STRING, path : Seq(STRING),
                         sees : Seq([name : STRING, root : Nat])]
    BY RootsAssumption, ElementOfSeq, LenProperties
  <2>2. root # 0
    BY RootsAssumption, LenProperties
  <2>. QED
    BY <2>1, <2>2 DEF INVALID_ROOT
<1>2. file \in Seq(STRING)
  <2>1. PICK d \in DOMAIN Disk : file = Disk[d]
    BY DEF Files
  <2>. QED
    BY <2>1, DiskAssumption, ElementOfSeq, LenProperties
<1>3. Canonical(file) = file
  BY DEF Canonical
<1>4. tail \in Seq(STRING) /\ Len(tail) > 0 /\ base \o tail = file
  BY <1>1, <1>2, BelowDirectory
<1>5. Len(tail) \in Nat
  BY <1>4, LenProperties
<1>6. name = IF tail = <<own>> THEN tail ELSE <<own>> \o tail
  BY <1>3 DEF ModuleNameOfFile
<1>. HIDE DEF tail, name
<1>7. Head(name) = own /\ (IF Len(name) = 1 THEN name ELSE Tail(name)) = tail
  <2>1. CASE tail = <<own>>
    BY <1>6, <2>1
  <2>2. CASE tail # <<own>>
    <3>1. /\ Len(name) = Len(tail) + 1 /\ Head(name) = own /\ Tail(name) = tail
      BY <1>1, <1>4, <1>6, <2>2, DottedName, ZenonT(60)
    <3>2. Len(name) # 1
      BY <1>4, <1>5, <3>1
    <3>. QED
      BY <3>1, <3>2
  <2>. QED
    BY <2>1, <2>2
<1>8. TargetOf(Roots, root, name) = root
  BY <1>1, <1>7, SeesItself DEF TargetOf
<1>9. answer = Reached(file, {}, root)
  BY <1>1, <1>4, <1>7, <1>8 DEF Find
<1>. QED
  BY <1>3, <1>9 DEF Reached, name

\* Every module is of a root with a directory, or of none.
HasDirectory(root) == root # INVALID_ROOT => Roots[root].path # NoPath
Placed ==
    /\ HasDirectory(found.root)
    /\ \A m \in Index : HasDirectory(modules[m].root)

\* What a root sees has a directory.
LEMMA SeenHasDirectory ==
    ASSUME NEW root \in RootNumbers, NEW import \in Imports,
           AnswerAt(root, import).status = "ok"
    PROVE  HasDirectory(AnswerAt(root, import).root)
<1>. DEFINE target == TargetOf(Roots, root, import.name)
            lines == Roots[root].sees
            named == {i \in DOMAIN lines : lines[i].name = Head(import.name)}
            first == CHOOSE i \in named : \A j \in named : i <= j
<1>1. AnswerAt(root, import).root = target /\ target # INVALID_ROOT
  <2>. HIDE DEF target
  <2>1. /\ Find(Roots, root, import.name).status = "ok" =>
              /\ Find(Roots, root, import.name).root = target
              /\ target # INVALID_ROOT
        /\ FindAll(Roots, root, import.name).status = "ok" =>
              /\ FindAll(Roots, root, import.name).root = target
              /\ target # INVALID_ROOT
    BY DEF Find, FindAll, Missing, Reached, target
  <2>. QED
    BY <2>1 DEF AnswerAt
<1>2. root # INVALID_ROOT /\ named # {} /\ target = lines[first].root
  BY <1>1, Zenon DEF TargetOf, VisibleRoot
<1>3. root \in DOMAIN Roots
  BY <1>2, SMTT(60) DEF RootNumbers
<1>4. Roots[root] \in [name : STRING, path : Seq(STRING),
                       sees : Seq([name : STRING, root : Nat])]
  BY <1>3, RootsAssumption, ElementOfSeq, LenProperties
<1>5. lines \in Seq([name : STRING, root : Nat])
  BY <1>4
<1>6. DOMAIN lines \subseteq Nat
  BY <1>5, LenProperties
<1>7. \A i, j \in named : i = j
  BY <1>3, RootsAssumption
<1>8. first \in named
  <2>1. \E i \in named : \A j \in named : i <= j
    BY <1>2, <1>6, <1>7, OnlyOne, ZenonT(60)
  <2>. QED
    BY <2>1
<1>9. Roots[lines[first].root].path # NoPath
  BY <1>3, <1>8, RootsAssumption, ZenonT(60)
<1>. QED
  BY <1>1, <1>2, <1>9, Zenon DEF HasDirectory

\* Interning under a root with a directory keeps every module under one.
LEMMA InternPlaced ==
    ASSUME Inv, Placed, NEW path \in Files, NEW root \in RootNumbers,
           HasDirectory(root)
    PROVE  \A m \in DOMAIN WithInterned(path, root) :
              HasDirectory(WithInterned(path, root)[m].root)
<1>. DEFINE list == WithInterned(path, root)
<1>1. CASE list = modules
  BY <1>1 DEF Placed, Index
<1>2. CASE list = Append(modules, Made(path, root))
  <2>1. modules \in Seq(ModuleRecord) /\ Made(path, root) \in ModuleRecord
    BY DEF Made, ModuleRecord, Dependency, Inv, Typed
  <2>2. /\ DOMAIN list = 1 .. Len(modules) + 1 /\ Len(modules) \in Nat
        /\ DOMAIN modules = 1 .. Len(modules)
        /\ \A m \in 1 .. Len(modules) : list[m] = modules[m]
        /\ list[Len(modules) + 1] = Made(path, root)
    BY <1>2, <2>1, AppendProperties, LenProperties
  <2>3. Made(path, root).root = root
    BY DEF Made
  <2>. HIDE DEF list
  <2>4. ASSUME NEW m \in DOMAIN list PROVE HasDirectory(list[m].root)
    <3>1. CASE m = Len(modules) + 1
      BY <2>2, <2>3, <3>1
    <3>2. CASE m \in DOMAIN modules
      BY <2>2, <3>2 DEF Placed, Index
    <3>. QED
      BY <2>2, <2>4, <3>1, <3>2
  <2>. QED
    BY <2>4 DEF list
<1>. QED
  BY <1>1, <1>2 DEF WithInterned

\* Every step keeps it.
LEMMA InitPlaced == Init => Placed
<1>. SUFFICES ASSUME Init PROVE Placed
  OBVIOUS
<1>1. Index = {} /\ found.root = INVALID_ROOT
  BY EmptySeq DEF Init, Index, Nothing
<1>. QED
  BY <1>1 DEF Placed, HasDirectory

LEMMA NextPlaced == Inv /\ Placed /\ [Next]_vars => Placed'
<1>. SUFFICES ASSUME Inv, Placed, [Next]_vars PROVE Placed'
  OBVIOUS
<1>1. CASE UNCHANGED <<modules, found>>
  BY <1>1 DEF Placed, Index
<1>2. CASE Enter
  <2>1. PICK root \in RootNumbers :
          /\ IF hasTable THEN IsRootOfFile(root, Roots, entry)
             ELSE root = INVALID_ROOT
          /\ \/ UNCHANGED modules
             \/ modules' = WithInterned(entry, root)
    BY <1>2 DEF Enter
  <2>2. HasDirectory(root)
    BY <2>1 DEF HasDirectory, IsRootOfFile
  <2>3. UNCHANGED found /\ entry \in Files
    BY <1>2 DEF Enter, Inv, LoopTyped
  <2>. QED
    BY <1>1, <2>1, <2>2, <2>3, InternPlaced DEF Placed, Index
<1>3. CASE Parses
  <2>1. modules' = [modules EXCEPT ![at].parsed = TRUE] /\ UNCHANGED found
    BY <1>3 DEF Parses
  <2>2. \A m \in Index : modules[m] \in ModuleRecord
    BY ModuleAt
  <2>3. /\ DOMAIN modules' = DOMAIN modules
        /\ \A m \in DOMAIN modules : modules'[m].root = modules[m].root
    BY <2>1, <2>2 DEF Index, ModuleRecord
  <2>. QED
    BY <2>1, <2>3 DEF Placed, Index
<1>4. CASE ResolveImport
  <2>. DEFINE import == Writes[imported + 1]
              root == modules[at].root
  <2>1. /\ at \in Index /\ UNCHANGED modules
        /\ \/ UNCHANGED found
           \/ AnswerAt(root, import).status = "ok"
              /\ found' = [files |-> FilesAt(root, import),
                           root |-> AnswerAt(root, import).root,
                           alias |-> import.alias]
    BY <1>4 DEF ResolveImport, Following, Inv, LoopTyped
  <2>2. root \in RootNumbers /\ ImportsOf(at) \in Seq(Imports)
    BY <2>1, ModuleAt
  <2>3. import \in Imports
    <3>1. imported + 1 \in 1 .. Len(ImportsOf(at))
      BY <1>4, <2>2, LenProperties, SMTT(60)
         DEF ResolveImport, Writes, ImportsOf, Key, Inv, LoopTyped
    <3>. QED
      BY <2>2, <3>1, ElementOfSeq DEF Writes, ImportsOf, Key
  <2>. HIDE DEF import, root
  <2>4. HasDirectory(found'.root)
    BY <2>1, <2>2, <2>3, SeenHasDirectory DEF Placed
  <2>. QED
    BY <2>1, <2>4 DEF Placed, Index
<1>5. CASE AddDependency
  <2>1. /\ at \in Index
        /\ found \in [files : SUBSET Files, root : RootNumbers, alias : Aliases]
    BY <1>5 DEF AddDependency, Following, Inv, LoopTyped
  <2>2. PICK file \in found.files :
           /\ modules' = Depends(WithInterned(file, found.root), at,
                                 InternedAt(file), found.alias)
           /\ found' = [found EXCEPT !.files = @ \ {file}]
    BY <1>5 DEF AddDependency
  <2>3. file \in Files /\ found'.root = found.root
    BY <2>1, <2>2
  <2>4. \A m \in DOMAIN WithInterned(file, found.root) :
           HasDirectory(WithInterned(file, found.root)[m].root)
    BY <2>1, <2>3, InternPlaced DEF Placed
  <2>5. \A m \in DOMAIN modules' : HasDirectory(modules'[m].root)
    BY <2>1, <2>2, <2>3, <2>4, DependedSame
  <2>. QED
    BY <2>3, <2>5 DEF Placed, Index
<1>6. CASE AddPrelude
  <2>. DEFINE offer == Prelude[given + 1]
              list == WithInterned(offer.path, offer.root)
  <2>1. /\ at \in Index /\ UNCHANGED found
        /\ \/ modules' = list
           \/ modules' = Depends(list, at, InternedAt(offer.path), INVALID_STRING)
    BY <1>6 DEF AddPrelude, Following, Inv, LoopTyped
  <2>2. given + 1 \in DOMAIN Prelude /\ DOMAIN Prelude = 1 .. Len(Prelude)
    BY <1>6, PreludeAssumption, LenProperties DEF AddPrelude, Inv, LoopTyped
  <2>3. /\ offer.path \in Files /\ offer.root \in RootNumbers
        /\ HasDirectory(offer.root)
    <3>1. offer \in [path : Files, root : DOMAIN Roots]
      BY <2>2, PreludeAssumption, ElementOfSeq
    <3>. QED
      BY <2>2, <3>1, PreludeAssumption DEF RootNumbers, HasDirectory
  <2>. HIDE DEF offer
  <2>4. \A m \in DOMAIN list : HasDirectory(list[m].root)
    BY <2>3, InternPlaced
  <2>5. \A m \in DOMAIN modules' : HasDirectory(modules'[m].root)
    <3>1. CASE modules' = list
      BY <2>4, <3>1
    <3>2. CASE modules' = Depends(list, at, InternedAt(offer.path), INVALID_STRING)
      BY <2>1, <2>3, <2>4, <3>2, AliasesAssumption, DependedSame
    <3>. QED
      BY <2>1, <3>1, <3>2
  <2>. QED
    BY <2>1, <2>5 DEF Placed, Index
<1>7. CASE Unreadable \/ DoesNotParse \/ LeaveModule \/ Finish \/ UNCHANGED vars
  BY <1>1, <1>7 DEF Unreadable, DoesNotParse, NotParsed, LeaveModule, Finish, vars
<1>. QED
  BY <1>2, <1>3, <1>4, <1>5, <1>6, <1>7 DEF Next, Done

-----------------------------------------------------------------------------
(* The theorems.                                                           *)

\* The invariant holds in every state of every program.
THEOREM Invariance == Spec => []Inv
<1>1. Inv /\ [Next]_vars => Inv'
  BY NextKeeps DEF Keeps
<1>. QED
  BY InitInv, <1>1, PTL DEF Spec

\* What the loop holds is always what its members are for, and a dependency is
\* a module of the list: the indices the later phases follow lead somewhere.
THEOREM TypeCorrect == Spec => []TypeOK
BY Invariance, InvType, PTL

\* A file is one module, however many import it, however its path is spelled
\* and whatever the table says; the map of Compilation::intern finds it.
THEOREM OneModule == Spec => []OneModuleOfAFile
BY Invariance, InvOne, PTL

\* A module that was interned is never moved, never given another root, and
\* what it depends on is only added to: an index stays good while the list grows.
THEOREM Identity == Spec => IdentityStays
<1>1. Inv /\ [Next]_vars =>
        [\A m \in Index :
            /\ m \in DOMAIN modules'
            /\ modules'[m].path = modules[m].path
            /\ modules'[m].root = modules[m].root
            /\ SubSeq(modules'[m].dependencies, 1,
                      Len(modules[m].dependencies))
                   = modules[m].dependencies]_vars
  BY NextKeeps DEF Keeps, Extends, Kept, Index
<1>. QED
  BY Invariance, <1>1, PTL DEF Spec, IdentityStays

\* The order holds in every state of every program.
THEOREM Ordering == Spec => []Order
<1>1. Inv /\ Order /\ [Next]_vars => Order'
  BY EnterOrder, NotParsedOrder, ParsesOrder, ResolveImportOrder,
     AddDependencyOrder, AddPreludeOrder, LeaveOrder, FinishOrder
     DEF Next, Done
<1>. QED
  BY Invariance, InitOrder, <1>1, PTL DEF Spec

\* When the loop is over with a module, the module depends on what its source
\* wrote, line by line and a star in the order of its files, each with its alias,
\* and then once on each entry of the prelude it had not; what reached nothing
\* is reported, and nothing else is.
THEOREM InOrder == Spec => []ImportsInOrder
<1>1. ASSUME Inv, Order, NEW m \in Index, Finished(m)
      PROVE  Complete(modules[m], m, ImportsOf(m), byPath, reports)
  BY <1>1 DEF Order, Others
<1>2. Inv /\ Order => AnsweredInOrder
  <2>1. ASSUME Inv, NEW m \in Index
        PROVE  DOMAIN ImportsOf(m) = 1 .. Len(ImportsOf(m))
    BY <2>1, ModuleAt, LenProperties
  <2>. QED
    BY <1>1, <2>1 DEF AnsweredInOrder, Complete, Entered, Reported, Told
<1>3. Inv /\ Order => PreludeLastAndOnce
  <2>1. DOMAIN Prelude = 1 .. Len(Prelude)
    BY PreludeAssumption, LenProperties
  <2>. QED
    BY <1>1, <2>1 DEF PreludeLastAndOnce, Complete, Late, Offered, HasDependency
<1>4. Inv /\ Order => ImportsInOrder
  BY <1>2, <1>3 DEF ImportsInOrder
<1>. QED
  BY Invariance, Ordering, <1>4, PTL

\* Each step of the loop is one of a search of what can be reached, or none: a
\* module is interned because one in hand leads to it and no module was its
\* file, one that was read is left when all it leads to is known, and the loop
\* ends when every module was left. That it does end is not proved.
THEOREM Searches == Spec => Search!Init /\ [][Search!Next]_(Search!reachVars)
<1>1. Inv /\ Order /\ [Next]_vars => [Search!Next]_(Search!reachVars)
  BY EnterSearch, NotParsedSearch, ParsesSearch, AddDependencySearch,
     AddPreludeSearch, LeaveSearch, FinishSearch, IdleSearch DEF Next, Done
<1>. QED
  BY Invariance, Ordering, InitSearch, <1>1, PTL DEF Spec

\* The name a module is given is one an import of its own root finds it by,
\* whatever the roots and however one is inside another: the rule by which
\* module_name_of_file shortens <root>/<root>.hd and the one by which find reads
\* a name of one segment are each other's inverse.
THEOREM NameReaches == Spec => []NameReachesIt
<1>1. Inv /\ Placed => NameReachesIt
  <2>. SUFFICES ASSUME Inv, Placed, NEW m \in Index,
                       modules[m].root # INVALID_ROOT,
                       StartsWith(Canonical(modules[m].path),
                                  Roots[modules[m].root].path)
                PROVE  LET root == modules[m].root
                           file == Canonical(modules[m].path)
                           answer == Find(Roots, root,
                                          ModuleNameOfFile(Roots, root, file))
                       IN  /\ answer.status = "ok"
                           /\ Canonical(answer.path) = file
    BY DEF NameReachesIt
  <2>1. modules[m].path \in Files /\ modules[m].root \in DOMAIN Roots
    BY ModuleAt DEF ModuleRecord, RootNumbers
  <2>2. Canonical(modules[m].path) \in Files \ DOMAIN Links
    BY <2>1, DiskAssumption DEF Canonical
  <2>3. Roots[modules[m].root].path # NoPath
    BY DEF Placed, HasDirectory
  <2>. QED
    BY <2>1, <2>2, <2>3, NameFinds
<1>2. Spec => []Placed
  BY Invariance, InitPlaced, NextPlaced, PTL DEF Spec
<1>. QED
  BY Invariance, <1>1, <1>2, PTL
=============================================================================
