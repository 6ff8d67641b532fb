# A formal model of hdc, the Haard compiler

This directory holds TLA+ modules of the parts of `hdc` (`src/src/haard`) whose
behaviour over time is hard to see in the code, the TLC configurations that
check them on small programs, and proofs, checked by TLAPS, of what holds for
every program. Paths below are relative to `src/src/haard` unless they say
otherwise; "record NNNN" is `src/docs/design/NNNN-*.md`.

Contents: 1 the system · 2 the modules and the code · 3 the runs · 4 what is
proved · 5 disagreements met · 6 what is not modelled · 7 the plan.

## 1. The system

`hdc` is one process and one thread. It reads a file, follows its imports, and
takes the whole program through phases that each walk lists **which grow while
they are walked**: modules append modules, candidates append candidates, sugar
appends nodes. There is nothing to lose, time out or restart; what makes the
code hard is re-entrance (typing a name instantiates a generic, which types
other names, in other modules, in the middle of a walk), marks into lists that
move, memos written before what they stand for exists, and failures half way.

| part | state it keeps | operations | talks to | what makes it correct |
|---|---|---|---|---|
| Driver (`driver/`) | options, the table's path, the exit code | read arguments, look for a manifest, fill the finder, build, write | finder, package loader, compilation, writers | arguments read as written; nothing built without its table; a form only of what compiled; each exit code for what was done |
| Module finder (`module_finder/`) | roots, what each sees, the prelude | `load`, `open_root`, `see`, `give_to_everyone`; `find`, `find_all`, `root_of`, `module_name_of` | driver, package loader, build loop | a table is read as its text says, whatever its order, or refused |
| Package loader, manifest (`manifest/`) | a map from directories to roots; the recursion of `intern` | read a manifest, read what it needs, give the prelude | finder | ends on cycles; one package per directory; says what a table would; fails whole |
| Compilation, build loop (`compilation/`, `module/`) | the list of modules, the map of canonical paths, dependencies | `build`, `intern`, `load`, `resolve_imports`, `add_prelude` | finder, scanner, parser | one module per file; everything reached is visited once; dependencies in the order that resolves names |
| Scanner, parser (`scanner/`, `parser/`) | tokens with their indentation; a tree | scan, parse | build loop | blocks by indentation, precedence, recovery |
| Symbols and names (`symbol_table/`, `name_resolver/`) | scopes, symbols, candidates | collect, resolve bare, qualified and member names, rank overloads | type phase | the candidate a use means, in the order of scopes and dependencies |
| Type phase (`type_table/type_collector`, loops of `compilation`) | types of candidates, the marks `collected` and `inferred`, `walking`, its subject | `collect`, `infer`, `catch_up`, `type_signature_now`, the four loops | type builder, instantiator, sugar, checker | each name typed by each pass once and in order; nothing untyped when it is over |
| Type builder, instantiator (`type_table/`) | clones, their arguments, parameters that are bound | build a written type, instantiate, bind | type phase | one clone of an instantiation; its fields the declaration's with the arguments put in; growth refused |
| Statement and override checkers | what was checked | rules on statements, on overriding | type phase | every declaration checked, after it was typed |
| Sugar (`sugar/`) | the tree | for-each, switch, operators to plain statements | type phase | the same meaning, each operand evaluated once |
| Emitter (`emitter/`) | text of C++ | types in order, functions, temporaries | driver | a type after what it holds by value; temporaries destroyed |
| IR and lowering (`lowering/`, `ir/`) | functions, regions, blocks, layouts | lower, verify, flatten, lay out, interpret | driver, machine writer | what is made is ended once on every path; order kept |
| x86-64 writer, hasm, runtime (`backend/`, `src/toolchain`) | registers and stack slots; an image with holes | write, assemble | driver | values survive calls; holes filled |
| Hash (`src/std/hash.hd`) | three buffers, the size, the capacity | `has`, `add`, `remove`, `[]`, copy, walk | programs | it is a map; every call returns |
| The rest of the standard library (`src/std`) | arrays, lists, strings | add, remove, look up, walk | programs | a sequence |

How they interact: the driver fills the finder, from a table or through the
package loader, and hands it to the compilation. The build loop asks the finder
for every import and appends modules. When the list is complete,
`collect_types` runs two loops over the modules (written types, then inferred
ones), and `check_statements` two more; inside them the type collector asks the
type builder for written types, the builder asks the instantiator for clones,
the instantiator appends candidates to the module that **declared** the
generic, and the builder then calls the collector back (`type_signature_now`,
`catch_up`) before whoever asked goes on. Then the writers read the result.

The hazards are listed in `PROJECT.json`, each at its line; those of parts with
no module yet say so.

The modules follow a program through the compiler: what a build starts from
(Project, of Driver, RootsTable and PackageLoader) and the list of modules it becomes
(ModuleGraph); its text and tree (Syntax); the tree made plain (SugarPass); its
types, its clones and the function a call means (TypePhase, Instantiation,
Overloads); and what the two back ends make of it, which must be the same
(IrRun, Lifetimes, Expressions). StdHash is a program of the library.

## 2. The modules and the code

### The type phase

**TypePhase** is `TypeCollector` (`type_table/type_collector.cpp`) and the
loops of `Compilation::collect_types` and `check_statements`. Its state is the
code's: per module the list of candidates (`cand`) and the two marks (`mark`);
`walking`; the members `index` and `scope_of` of the collector (`subject`); the
recursion of walks and signatures as an explicit `stack`, innermost first; the
memo of instantiations; the position of the loops (`phase`, `at`, `grew`,
`round`). One action is one step between two points where something else can
run: `TakeCandidate` takes the next candidate of a round, `FinishWritten`,
`FinishInferred` and `FinishLate` end its typing, `Instantiate(k)` is the whole
of `Instantiator::instantiate` as the collector sees it (memo, clone, then a
frame for its signature), `FinishSignature` types head and fields and calls
`catch_up`, which steps aside when the module is being walked and otherwise
pushes a walk. `ScanDeclaration`, `LowerLoop`, `LowerSwitch` and
`CheckDeclaration` are the neighbours that declare names, or ask for clones,
between walks. What a type *is* is abstracted to how it was arrived at: nothing,
written, given by a lowering, inferred. The counters `wrote`, `gave`, `built`
and `scanned` are history the code does not keep.

**TypeLedger** is the abstract specification: names are declared, each is typed
once and after it was declared, and the phase closes only when nothing is left.
TypePhase implements it (`KeepsTheLedger`).

**Instantiation** is what an instantiation *is*: `Instantiator::instantiate` and
`TypeBuilder::build_written_name_here`, with the types themselves. A written type is a
sequence of words from the inside out (`A<T*>*` is the parameter, a shape, a
use of `A`, a shape; a name that names no type is the word `Unknown`); a clone is
the generic and its argument; a body is typed as soon as its clone is made, by a
`stack` of bodies, and `own` has what the items of the program itself came to.
The builder answers two failures without a word: a name that is unknown
(`type_builder.cpp:293`, the first of these written types) and whatever is around
a part with no type (319). Who speaks of the first is the walk over the uses, once
everything is typed (`ResolveUses`), so an error in `reported` carries the written
type it is of. TypePhase has when; Instantiation has what.

### From the command line to the list of modules

**ModuleFinder** has the questions of the finder as operators over the roots
(`Find`, `FindAll`, `RootOf`, `ModuleNameOfFile`, `Canonical`) and the three
calls that fill it, and the declarative meaning of a roots table; it has no state
of its own. **RootsTable** is `ModuleFinder::load`:
lines one by one, then the pending dependencies, then the prelude.
**PackageLoader** is the depth first walk of manifests, its memo and its
failures, with `intern`'s recursion as `stack`; it is checked against the *same*
meaning of a table, which is what record 0044 promises. **ModuleGraph** is the build
loop: `Enter`, then per module `Unreadable`, `DoesNotParse` or `Parses`, then
`ResolveImport` and `AddDependency` per import, `AddPrelude`, `LeaveModule`.
**ModuleReach** is its abstract specification: a search that visits each
reachable file once and stops. **Driver** is the command line, the search for
the manifest, each stage and each exit code; what the compilation makes of a
program is a choice there. **Project** is the three that a build starts from, one
at a time, and what each is held to.

RootsTable, PackageLoader and ModuleGraph extend ModuleFinder; the roots that
the first two produce are the constant `Roots` of the third.

### The text and the tree

**Scanner** is `scanner/scanner.cpp` as an operator from marks to tokens: the
longest operator, words, numbers, comments, strings, template strings with the
code in them, and the indentation with its seven bits, which are the constant
`WsBits` here. **Parser** is `parser/parser.cpp`, its state (the
place, the levels, the open brackets, the panic, the tokens that a `>` is carved
off) as a record that each rule takes and gives back, and its rules as one
operator each. **Syntax** is the pretty printer, and the machine that reads a
source, prints the tree and reads that again: `ScanIt`, `ParseIt`, `WriteBack`,
`ScanAgain`, `ParseAgain`.

**Sugar** has the three lowerers as rewritings of one tree: `SugarLowerer` (its
`walk` answers the node, the statements it inserts and the names it took),
`ForEachLowerer` and `SwitchLowerer`. **SugarPass** runs them over a function one
at a time (`lower_sugar`, `lower_loop`, `lower_switch`) and has the meaning that
each is held to: an interpreter of trees, written and lowered, whose trace is
the calls a function makes, with what they are given.

### Which function a call is

**Overloads** is `Coercion` (`steps` and what it asks), `OverloadResolver` and the
part of `ExpressionTyper::call` that finds a generic's parameters (`unify`,
`solve`, `inferred`). One step scores one candidate, drops one overridden method
from those that tie, or makes the choice. Against it stand relations that are
written without costs or loops: `Takes` (what a parameter may be given),
`AsWritten` (that some types for its parameters make a generic take the call) and
`BetterFor`. A closure that is given is typed once, by the first generic that asks
(`claim_closure`), which every later one then believes. What lies behind the table
of limits that `fits` reads is `past`, which is chosen.

### The back ends

**IrGraph** is the IR of a function, its builder, its flattener and its verifier,
as operators over regions and blocks. **FunctionLowerer** is the lowering of a
body: scopes with their cleanups, flags of temporaries that may not be built,
the named result, every statement that leaves. Objects are of one struct that
owns something; what an expression computes is left out and what it builds is
kept. **IrRun** runs a lowered body twice at once, as the graph and as the regions
say, instruction by instruction; what a call answers is a choice.

**Ownership** says what a type says of the lives of its values: what `Coercion` and
`OverrideChecker` let a program do with it. **EmittedLifetimes** is the C++ that
`Emitter` writes for a class, an enum and a tuple, *with what C++ does by itself*
where it writes nothing; **IrLifetimes** the functions that `IrLowerer` and
`FunctionLowerer` write instead. Both answer sequences of calls at places.
**Lifetimes** is the program: objects of one type, by either back end, made,
copied, moved, assigned and ended; a resource per owner.

**Arithmetic** is what the front end makes of an expression over numbers (its
types, its refusals) and what it is worth by records 0018, 0049, 0057 and 0083.
**EmittedArithmetic** is what the C++ for it computes, promotions, signed overflow
and undefined results included; **IrArithmetic** what the IR does, on bits.
**Expressions** sets the three beside each other. A whole number has as many bits
as the constants say, and a float is counted in halves.

### The library

**StdHash** is `Hash<K, V>` of `src/std/hash.hd`, every turn of its loops a step.
The three buffers are one function, `pairs`, from the slots of state 1, and the
set `gone` of the slots of state 2. `asked` is the call the program made, `step`
where it is: `Walk` is a turn of `slot_of`, `WalkToFree` one of `free_slot_for`,
`MoveSlot` and `SkipSlot` one of the loop that `grow` and the copying `init` have
in common; the add that a growth interrupts waits in `old`. After a copy the
program goes on with the copy. `HashOf` is a constant, any function to the
naturals: `hash_of` is an overload set that a program adds to. **StdMap** is the
abstract specification: a set of pairs and one call at a time. StdHash
implements it (`KeepsTheMap`), with what is held read off the *old* buffers while
there are any.

`PROJECT.json` ("map") gives the lines each definition stands for. Definitions
marked `(mutant: ...)` in the modules are not part of a specification: each is a
plausible bug, used to see that a property can fail.

## 3. The runs

Each run takes at most three minutes on two cores. The last two are the
disagreements of section 5.

| run | programs | states | what it shows |
|---|---|---|---|
| `type_phase` | two modules, a method of the first and a class of the second instantiated at any point, with a loop, a switch and locals | 141,018 | no module is walked twice at once; each pass goes through a name once and in order; nothing is read untyped; what was inferred stays; the phase implements TypeLedger; its rounds end |
| `project` | every command line of up to three arguments; every table of up to five lines over three directories; three manifests that need each other in every way | 468,798 | a command line, a table and manifests are read as they are written or refused, the last as the equivalent table; a form is written only of what compiled; manifests end |
| `module_graph` | three roots, one inside another, a symbolic link, an entry of two imports or files of one each | 165,455 | one module per file, imports in order, the prelude last; a module never moves; the loop implements ModuleReach |
| `instantiation` | two generics that write themselves and each other up to two uses deep | 205,836 | one clone per instantiation, its fields substituted; growth refused at the limit; each written type with no type was reported, itself and not another |
| `std_hash` | every sequence of calls on three keys, in tables of 2, 4 and 8 slots | 100,536 | no key is hidden, half is free, the hash implements StdMap, each call returns |
| `lowering` | 540 bodies that leave an `if`, `while`, `for` or `switch` in every way, with objects around | 411,947 | the IR verifies; the graph does what the regions do; each object is ended once, last made first; nothing is left |
| `syntax` | about 20,000 sources | 105,196 | a tree printed and read comes back; a statement that fails costs itself alone; blocks follow indentation |
| `sugar` | about 1,700 functions | 3,637 | the same calls before the passes and after each; no sugar is left |
| `back_ends` | every operator over every pair of small numbers; two objects of each of a hundred types | 422,662 | C++ and IR are worth what the records say; each resource has one holder; both call the same methods in the same order |
| `overloads` | about 9,000 calls of one to three candidates | 152,676 | what is chosen takes the call; what is refused nothing takes; no better candidate is passed over; their order does not matter |
| `front_end_disputed` | see section 5 |  | the front end breaks what is said of it |
| `back_ends_disputed` | see section 5 |  | the back ends break what is said of them |

A run that joins machines is their *sum*: a variable `part` says which of them a
behaviour is of, and the variables of the others are not used. MCProject joins
the driver, the table and the manifests (Project has their sum, which is what is
proved about); MCBackEnds the numbers and the objects;
MCDisputed every machine that has a program it gets wrong, and the constant
`Showing` says which of them are looked at: `{"sugar"}` alone shows a lowered
switch, and so on. The families of programs in the MC module of each machine
(`Disputed`) are named in section 5, so that one can be run by itself.

A property that joins others keeps their names beside it, in the module it is
of: `PassesInOrder`, for one, is `EachPassOnce`, `WrittenBeforeInferred` and
`TypesItsOwnModule`.

Why the bounds are enough to matter:

- *Type phase.* The marks are per module, so two modules are the fewest in which
  a walk of one is nested in a walk of the other; each declares a generic that
  either may instantiate, so that the inner walk asks for a clone in the module
  that is already waiting below, and a module for one of its own. One clone is a
  method, which has a signature of its own beside its class's, the other a class;
  a function of the second module has a local, and a loop and a switch of the
  first declare names when they are lowered. Every instantiation may be asked for
  at **every** point where typing may ask, so the programs are all those with
  these clones and not one of them. A program instantiates a bounded number of
  times, which is what `Keys` bounds; `Source` and `Switches` are small texts.
- *Instantiation.* `NESTING_LIMIT` is 2 instead of 16: with bodies of up to two
  uses inside each other the limit is met from below, at and above. `MaxClones`
  (40) is never reached: TLC would report a deadlock. A use of a generic of two
  parameters gives both the same argument.
- *Roots and manifests.* Five lines hold two blocks that see each other, a
  dependency above its block, a name twice and the prelude; three directories
  hold a diamond, a cycle of two and of three, and a package that needs itself.
- *Build loop.* Three roots, one inside another, so that a file has two names; a
  symbolic link from one root to another's file; an entry with two imports, or
  three files with one each, is the least that has every cycle, a star, an
  import that finds nothing and a file reached twice. Each file may also be
  unreadable or not parse.
- *Hash.* The first capacity is 2 instead of 8, so that three keys make the table
  grow twice, fill it with tombstones and wrap round its end. Two of them hash
  to the last slot of every table and the third to the first: they meet whether
  or not the search goes round. With the capacity bounded by the keys, the calls
  need no bound.
- *Syntax.* `WsBits` is 4 instead of 7, so that four levels of four columns are
  too deep for a token, and the limit is met by printed programs. The families
  are every line of up to five marks of a set, strings of up to four pieces, of
  which some hold code, some end the string and some the line, every layout of
  three lines over four indentations, bodies where lines that fail stand between
  lines that do not, and each statement's forms, imports among them.
- *Sugar.* Numbers wrap at 8, so that a range can end at the largest; a call
  answers each of two ways, and a loop turns up to 12 times. Every place a thing
  that is built may stand in is paired with every kind of thing.
- *Calls.* Classes three deep, one that may only be moved, one built from a
  `char*`; three sizes of whole number with limits 2, 4 and 6, so that written
  numbers lie at, below and above each; two candidates, which is what a tie
  takes, or three methods over each other; up to three arguments, with each set
  of defaults that the text can have.
- *Bodies.* One compound statement, whose body may hold another, with every way
  out from every depth, and objects before, in the head, in the tests and
  inside: flags, cleanups and the named result meet in pairs. Loops need no
  bound: a body has finitely many states.
- *Objects.* Two of a type, which is what copying, moving and assigning need,
  itself included; types up to three deep with a base, fields, tuples, arrays,
  enums and unions over owners that can be copied, moved or both.
- *Numbers.* Two, four and five bits for the sizes less than an int, an int and
  more than one, which is all that C++'s promotions tell apart, and every pair of
  values of them.

Fairness. Only `WF_vars(Next)` is assumed, where a liveness property is checked:
one thread that waits for nothing keeps running its next statement. Which
instantiation is asked for, and when the program's text has no more to ask, is
never assumed fair. Syntax, SugarPass, Overloads, IrRun, Lifetimes and Expressions have safety
properties only and assume nothing. StdHash assumes `WF_vars(Run)`, a call that was made going on,
and nothing of the program that makes the calls; `Ends` of TypePhase holds since a name asks a bounded number of
times. Deadlock is checked where a machine has a step for its end (`Done`,
`Finished`, `Returned`): a state with no next step would be a case that the model
misses. The machines that stop when a program has been followed to its end
(Syntax, SugarPass, Overloads, Lifetimes, Expressions) leave it out.

## 4. What is proved

Six modules hold proofs. All constants are arbitrary but for the named
assumptions of the modules they extend, which TLC evaluates in the runs and
which say only what the code's own types and callers do. Every invariant and
action property of the runs `type_phase`, `project`, `module_graph` and
`std_hash` is a theorem, and all of `instantiation` but one.

**ProjectProofs** (`DriverAssumption`, `TableAssumption`, `PackagesAssumption`): what
a build starts from. Each of the three machines has an inductive invariant that
says, at every step, what was read *so far* is what the text *so far* says.

- `CommandLineIsRead` (`ReadsTheCommandLine`): an argument is an option's value
  or it is not by the parity of the row of options before it (`IsValue`), so what
  the driver has after n arguments (`ReadInto`) follows from what it had before;
  `CommandLineRead` closes it at the end of the command line.
- `ExitIsWhatWasWritten` (`ExitSaysWhatWasWritten`): what each exit code stands
  for as the code has it, the manifest that is refused with a success and the IR of
  a program that was only parsed (`--pretty-print`) among it; that these are not
  what `driver.h:18` says is shown in section 5, *driver*. `BuildState`: at each stage
  the forms written are those asked for that are `Earlier`, and of what was built
  (`OfWhatWasBuilt`); `Ended` has one case for each way out.
- `TableIsRead` (`ReadsTheTable`): by stage. `LinesRead`: after k lines, the roots
  are those that the blocks *up to k* say (`RootsTo`), the pending dependencies are
  those lines and no other, in order (`PendingTo`), and no line so far was broken.
  `NeedsResolved`: the first m of them are resolved and the rest are untouched.
  `ImportsFound`: the same of the prelude. A block is told from another by its place
  among the blocks, counted with `RankIn`, which needs facts on cardinalities and no
  induction over the table.
- `ManifestsAreRead` (`ReadsTheManifests`): `intern` recurses over manifests that
  may need each other in a cycle. `PackagesMet` says a root is one directory's and
  every directory that was met is in reach of the program; `StackIs` that each frame
  needs the one above it; `Filled` that a root that is not on the stack sees what
  its manifest says, whole, and one that is on it sees the needs before the one in
  hand; `AnswerIs` that a root that was just answered is the one that was asked for.
  A failure is answered only where something in reach is not `Readable`. What is in
  reach is a least closed set: when the stack is empty all that was met is closed,
  so it is all of it. Then `AllReadable` meets `SaysWhatATableWould` and
  `FailsForAReason`.

**TypePhaseProofs** (`ModulesAssumption`, `KeysAssumption`, `SourceAssumption`), for
every number of modules, every text and every set of instantiations:

- `TypeCorrect`: `TypeOK` always. The types alone are not inductive: a frame
  reads `cand[m][c]`, so the invariant `Inv` adds that every frame points into
  the lists, and that the memo does. Lists only grow (`Grows`), so a frame that
  points in still does after any step (`FramesStay`). One lemma per group of
  actions (`WalkInv`, `InstantiateInv`, `FinishSignatureInv`, `LoopInv`).
- `WalksOnce` (`OneWalkPerModule`): no module is ever walked by two frames
  of the call stack, and `walking` is exactly the modules of the frames. The
  argument is about pushing and popping: a signature changes no walk
  (`PushSign`), a walk is begun only for a module outside `walking`
  (`PushWalk`, which is where `catch_up`'s test is used), and the top frame is
  replaced by one of the same module (`SwapTop`).
- `PassesOrdered` (`PassesInOrder`): the counts of a name follow from where its
  module is. A walk in it has been through the names up to its own (`Reading`:
  once those behind it, none of those ahead), and when none is in it the mark
  says so (`AtRest`); `Passing` says one or the other of every module and each
  pass. This needs that the inferred pass of a module begins when its written
  one is over (`NotYetInferred`), and that the collector's members are the module
  of the innermost walk (`SubjectsSuit`), which is what `catch_up` must put back.
- `InferredForGood` (`InferredStays`): a step that changes a name writes it in a
  pass that has not been through it, so it had no inferred type to lose.

**TypeLedgerProofs** extends it, for what the *loops* leave behind them:

- `LedgerKept` (`KeepsTheLedger`): every step is one of TypeLedger's or none, its
  last the closing. That nothing is left then is `AllSettled`: what a loop is past
  is settled (`SettledIn`), or is when the frames that are over it are popped, the
  bottom one of which is the loop's own (`BottomFrame`).
- `NothingUntyped` (`NothingIsReadUntyped`): besides, each clone has its signature
  before who asked for it goes on (`Signed`), inference asks its names after they
  are written (`NamesAsked`), and what is left to the checker are late clones
  (`OnlyClonesLeft`).

**InstantiationProofs** (`ParametersAssumption`, `ProgramsAssumption`,
`LimitAssumption`), for every set of generics and every program and limit:

- `Inductive`: `IInv`, that a body half typed has read what its words say so far
  (`FramesRead`), that a clone has one body (`OneBodyEach`) and that an argument is
  made of clones *before* its own (`WellMade`), which is why the spelling of a type
  ends.
- `OneSubstituted` (`OneSubstitutedClone`): one clone per instantiation, each field
  what the declaration wrote with the argument put in. What a written type
  means is a recursive function on numbers; facts about it are proved by
  taking the least number of the *set* of those they fail at, so that no
  theorem with an operator for a parameter is used.
- `NothingLost` (`NothingIsLostUnsaid`): a written type that came to nothing was
  reported at its own place, not that some error was: every clone repeats the
  failure of the body it is a copy of, and must be reported again. This is a second
  layer, `SaidInv`, over `IInv`, which has no reports in it: of the type being
  built, nothing in hand means that a word of it was refused here or that its
  first word is unknown (`FramesAccounted`), which is what the finished ones keep
  (`FieldsExcused`, `OwnExcused`); the walk turns the second into the first
  (`UsesResolved`), and no word is unknown but the first (`ItemsWritten`). The
  argument of a clone always has a type, since the builder never asks with one
  that has none.

**ModuleGraphProofs** (`DiskAssumption`, `RootsAssumption`, `PreludeAssumption`,
`AliasesAssumption`, `EntriesAssumption`, `TextsAssumption`), for every disk, table,
prelude and program:

- `Invariance`: the inductive invariant `Inv` is three things. `LoopTyped` types
  what the loop has in hand. `Typed` types the list and the map and says every
  dependency is an index of the list (`Closed`). `Tidy` says that list and map
  describe one another: the map sends the canonical path of each module to that
  module, and of any other file it says nothing. `OneModuleOfAFile` alone is
  not inductive: appending is safe only since the map would have found the file.
- `TypeCorrect` (`TypeOK`), `OneModule` (`OneModuleOfAFile`) follow from it.
- `Identity` (`IdentityStays`) is an action property: every step extends the list
  (`Extends`): what was interned keeps its index, its path, its root, and its
  dependencies grow at their end.
- `InOrder` (`ImportsInOrder`), from the invariant `Order` (`Ordering`): a module the
  loop is past is `Complete` and one it has not come to is bare (`Others`), and of
  the one in hand the dependencies so far are those of the imports so far
  (`Current`, `Advanced`). An import already depended on has its first place; what a
  star finds comes in the order of the disk (`InTurn`); the prelude's are last and
  not twice (`Late`, `Offered`).
- `Searches`: step by step the loop is the search of ModuleReach or rests: a
  module is interned because one in hand leads to it and it was not there, one
  that is left has had all it leads to interned, and the loop is over when all
  are. It is the safety half of `SearchesWhatIsReached`.
- `NameReaches` (`NameReachesIt`): the dotted name of a module, read back by an
  import of its own root, finds the file, since every module lies below its
  root's directory (`Placed`) or is its root's own.

**StdHashProofs**, for all keys and values, every hash and every even first
capacity (`DataAssumption`, `HashAssumption`, `CapacityAssumption`):

- `Invariance`: the inductive invariant `Inv`. What must hold of the table between
  calls (`NothingIsHidden`, `OneSlotPerKey`, `HalfIsFree`) is not inductive: a pair
  is placed rightly only for what the search before it learned. So `Searching`
  says of a search half way that the slots it passed are not empty and do not hold
  the key, `Placing` that the key is nowhere and the slots passed are taken,
  `Moving` that the new buffers hold exactly what was moved of the old, `Filling`
  that `h[k]` adds what was not held, `Roomy` that the test of half taken was
  made; `Control` says which locals mean something at each step.
  `MissingIsAbsent` is the heart: a search that meets an empty slot, or went all
  the way round, is right that the key is not there. Slots are compared by
  their `Distance` from where the search begins, which needs no arithmetic
  modulo the capacity.
- `NeverHidden` (`NothingIsHidden`), `HalfFree` (`HalfIsFree`) and `GrowsOnce` follow:
  an insertion made by a growth or a copy never grows the table, which is why
  the model needs no growth within a growth.
- `Refinement` (`KeepsTheMap`): every step is one of StdMap's or none. A growth is
  none, since `AllMoved` makes the last turn of its loop change nothing held.

Only model-checked:

- Liveness, which is out of the prover's reach: `Ends` of TypePhase and of
  StdHash's calls, `ManifestsEnd`, and that the search of ModuleReach ends.
- `StopsGrowing` of Instantiation, which is not true of every program: `depth_of`
  counts no level for a pointer or an array, so what a clone spells is bounded only
  where no generic grows by those (section 5, *clones*). The programs of the run
  grow by uses alone.
- Syntax, SugarPass, IrRun, Lifetimes, Expressions and Overloads, which are built
  on recursive operators over trees, types and graphs: what such an operator
  answers for every tree is an induction over data, and `tlapm` takes no module
  that reaches a RECURSIVE declaration. They are checked over families of
  programs.

## 5. Disagreements met

Each was met while modelling and reproduced with the compiler, but for the one
that reads out of bounds. The findings of `PROJECT.json` say of each, with its
line, what promises otherwise; the machine it is on, and the family of programs
that shows it there, are named here.

**front_end_disputed**

- *driver*: a manifest that does not read, and `--pkg` beside `--roots`, exit with
  0 and nothing built (`driver.cpp:163,168`: `return false` from an `int`), against
  `driver.h:18`; `--emit-ir` and `--emit-asm` beside `--pretty-print` succeed and
  write an empty program, of a source that was only parsed (`driver.cpp:179`).
- *types*: the test that gives a late clone both passes is off by one
  (`type_collector.cpp:259`): the clone that lands on the mark gets no `super`.
  And the body of a clone made after the first loop is never asked for the names
  it declares by assigning (`compilation.cpp:349`).
- *clones*: `depth_of` counts no level for a pointer or an array, so `class A<T>`
  with a field `A<T*>*` recurses until the stack is over.
- *modules*: a file inside two roots belongs to the root of whoever imported it
  first, not to the longest.
- *syntax*: `let (a) = p` is printed `let (a,) = p`, which does not read
  (`patterns`); a line that ends inside the `${ }` of a template string ends the
  statement (`templates`).
- *sugar*: a `default` before the case that matches runs too (`defaults`); two
  passes number their names each from zero and declare one twice (`names`); a
  case that builds what it compares with builds it before the switch (`cases`);
  a walk of a call's fixed array makes the call on every turn (`arrays`).
- *calls*: a `T&&` is given what its class is built from, and a written number
  (`moved`); a `char*&` is refused where a `char*` is taken (`built`); a bare `T` is
  bound to a reference (`bound`), and `T*` or `Box<T>` to none (`inside`); whether an
  `isize` takes a number is read past the end of a table (`sizes`); a parameter that
  has no default is left out when one before it has one (`omitted`); a variant
  whose payload has a default takes some of what it carries (`payload`); a
  closure keeps the type that the first generic candidate asked of it (`asked`).

**back_ends_disputed**

- *bodies*: a body that leaves on every side of its last statement, and holds an
  object, is lowered to a graph that the verifier refuses (`DeadEnds`); a local
  that every return gives back is never ended when a loop declares it, nor are
  the elements of a bracket literal (`Forgotten`).
- *objects*: a struct with a fixed array of owners is assigned by its bytes
  (`arrays`); what holds an owner that cannot be copied can be (`held`); a derived
  class that copies itself never ends its base when it is assigned (`derived`);
  the two back ends end a variant's parts in different orders (`variants`); the
  C++ of a class with an array beside an owner does not compile (`beside`); an
  enum that was given nothing is ended as its first variant by the C++ (`unset`);
  a union's own copy and end are run by the C++ alone (`union`).
- *numbers*: written numbers are ints to C++ when alone (`alone`, `shifted`), a
  long when they are large (`large`), negative after a minus (`minus`) and doubles
  beside an `f32` (`single`); a compound assignment reads its place before its right
  side, or after (`order`); the lowest `i64` comes not back from an `f64` (`lowest`);
  a number no `i32` holds is one when nothing asks (`unfit`); `bool` takes a
  fraction (`bool`); `%` of floats and `//` of characters are taken by the front end
  and by nobody after (`classes`, `divided`).

Others, for which no run is kept:

- `require_default_construction` is asked in the written sweep only
  (`type_collector.cpp:271`), so a field of a clone born in inference is never
  asked.
- The reference that a lowered switch binds its subject to is overwritten with a
  copy by the late passes, for every switch of a module but the first
  (`sugar/switch_lowerer.cpp:146`, record 0043).
- A use of a generic with a *pointer to* the parameter, in a generic's own body,
  is taken for an instantiation (`type_builder.cpp:351` looks at a bare parameter
  only), and the clone of an unbound parameter cannot be emitted.
- A manifest that needs two versions of one library under one name is refused
  (`package_loader.cpp:94`), against `manifest.cpp:109`.
- Record 0007 says a module that imports itself is warned about; nothing warns.
- `takes([T(1), T(2)])`, a bracket literal of owners given to an overload of a
  base, makes IR that does not verify (`upcast`).
- A closure in braces on one line cannot hold a `return` or an `if`, which look for
  the end of a line; two declarations of a module may stand on one line, where two
  statements of a body may not; and recovery inside a block in braces stops at
  the `}` of a closure it holds.

## 6. What is not modelled, and why

`PROJECT.json` ("components") lists every part. In the parts that are modelled:

- Names inside closures are typed by a path of their own
  (`type_locals_of_closure`) that TypePhase leaves out. The clone of a class is its
  head and one field there: `type_signature_now` goes through all of its children
  and types the signatures of its methods and its variants too
  (`type_collector.cpp:108-128`), which are left out, and so are the clones those
  would ask for. A name asks for one clone each time it is typed (`MayAsk`), where
  a written type with several uses asks for several, one inside the other or one
  after the other (`type_builder.cpp:301`); several names of one walk do ask for
  several, and a clone's signature for the next.
- Instantiation has no tuples or functions, and gives every parameter of a use the
  same argument. The walk over the uses is one step, which reports all that it
  would meet.
- The text of tables, manifests and diagnostics is left out, so a line is what
  its text means; paths are sequences of names and the disk does not change
  while the finder reads it (it may by the time a file is loaded:
  `Unreadable`).
- StdHash leaves out the cursors, which read the slots between two calls and
  about which record 0042 promises nothing when the hash changes meanwhile, and
  what a program writes through the reference that `h[k]` gives back; that the
  capacity doubles past 2^30 is out of any program's reach.
- The scanner has no hexadecimal or binary numbers, no UTF-8 and no limit on a
  token's length, and a fraction is a word; the parser has no `parse_value`,
  which reads a manifest.
- The sugar pass is a function's: literals at module level are left out, and the
  refusals of `ForEachLowerer`.
- FunctionLowerer has one type of object and no members, globals or calls through
  a table; Lifetimes has their types and no statements. Between them an object
  is followed through a body, or through its methods, and not through both.
- Expressions has no pointers, and of floats `+`, `-`, the comparisons and the
  casts: `//` and `**` of floats, which the emitter writes as `__floor_div_f` and
  `__power_f`, are in no statement, and EmittedArithmetic answers them with a mark of
  their own (`HelperOfFloats`) and not with a refusal.
- Overloads has one table of types: a type is the same in every module. Of the
  names a call may be, construction, `super` and variants with their enum's
  arguments are left out, and the size of an array. The bodies of closures are
  not typed: a closure has how many it takes and what it gives back.

Left out for good: the source file and token stream (I/O and passive data), the
runtime (assembly outside of the compiler) and the bootstrap (the front half of
the compiler written again in Haard).

## 7. The plan

Done: what a build starts from, the list of modules, the text and its tree, the
sugar, the type phase, its clones, the choice of a function, both back ends over
objects and numbers, and the library's hash; and the proofs of all of these that
are not built on recursive operators. What a next step would be, in this order:

1. **NameResolver** with the symbol table: bare, qualified and member lookup over
   the scopes and the dependencies that ModuleGraph orders, against a
   declarative meaning, giving Overloads its candidates.
2. **OverrideChecker** and virtual slots (`ir_class_table`): overriding over a
   hierarchy with clones in it.
3. **TypePhase** with closures, and the type table: interning and translation
   between modules.
4. The emitter's order of types, `IrLayout`, the x86-64 writer and hasm: values
   across calls, labels and holes.
5. Proofs about the choice of a function: `InAnyOrder` of Overloads, once its
   scoring is written with a constant cost per candidate so that no recursion is in
   reach; and about bodies, `EndedOnceInOrder`, once the regions of IrGraph are a
   function on their depth.

Runs are few on purpose: each asks one question.
