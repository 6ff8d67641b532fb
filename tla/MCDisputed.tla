----------------------------- MODULE MCDisputed -----------------------------
(***************************************************************************)
(* The programs that do not do what a record, a comment or a test says of   *)
(* them, by the machine that shows it, one at a time.  A run takes those of *)
(* the front end or those of the back ends.                                *)
(***************************************************************************)
EXTENDS Integers, Sequences, FiniteSets, TLC

CONSTANTS Showing,  \* the machines of the run
          Things, NoBlock, INVALID_STRING, CommandLines,
          Declarations, Disk, Links, Roots, Prelude, Entries, TextsGiven,
          LinesGiven, Sugared, Containers, ClassesGiven, Calls, BodiesGiven,
          OwnersGiven, StatementsGiven

VARIABLES part,
  argv, number, options, path, package, roots, goal, filled, compiled, wrote,
  exit,                                                          \* Driver
  cand, mark, memo, frames, walking, subject, phase, turn, grew, free, named,
  lowered, checked, round,                                       \* TypePhase
  declared, item, clones, stack, own, reported, resolved,        \* Instantiation
  entry, hasTable, text, onlyParse, modules, byPath, at, step, imported, found,
  given, reports, error,                                         \* ModuleGraph
  source, reading, tokens, faults, read, printed, again,         \* Syntax
  program, tree, stage, names, sugared,                          \* SugarPass
  call, past, closures, left, lowest, tied, answer,                    \* Overloads
  prog, code, pc, inside, values, memory, built, over,           \* IrRun
  type, by, alive, variant, held, owned, wrong,                  \* Lifetimes
  statement, stands, emitted, interpreted                        \* Expressions

ofD == <<argv, number, options, path, package, roots, goal, filled, compiled,
         wrote, exit>>
ofT == <<cand, mark, memo, frames, walking, subject, phase, turn, grew, free,
         named, lowered, checked, round>>
ofI == <<declared, item, clones, stack, own, reported, resolved>>
ofG == <<entry, hasTable, text, onlyParse, modules, byPath, at, step, imported,
         found, given, reports, error>>
ofY == <<source, reading, tokens, faults, read, printed, again>>
ofS == <<program, tree, stage, names, sugared>>
ofO == <<call, past, closures, left, lowest, tied, answer>>
ofF == <<prog, code, pc, inside, values, memory, built, over>>
ofL == <<type, by, alive, variant, held, owned, wrong>>
ofE == <<statement, stands, emitted, interpreted>>

noD == /\ argv = 0 /\ number = 0 /\ options = 0 /\ path = 0 /\ package = 0
       /\ roots = 0 /\ goal = 0 /\ filled = 0 /\ compiled = 0 /\ wrote = 0
       /\ exit = 0
noT == /\ cand = 0 /\ mark = 0 /\ memo = 0 /\ frames = 0 /\ walking = 0
       /\ subject = 0 /\ phase = 0 /\ turn = 0 /\ grew = 0 /\ free = 0
       /\ named = 0 /\ lowered = 0 /\ checked = 0 /\ round = 0
noI == /\ declared = 0 /\ item = 0 /\ clones = 0 /\ stack = 0 /\ own = 0
       /\ reported = 0 /\ resolved = 0
noG == /\ entry = 0 /\ hasTable = 0 /\ text = 0 /\ onlyParse = 0 /\ modules = 0
       /\ byPath = 0 /\ at = 0 /\ step = 0 /\ imported = 0 /\ found = 0
       /\ given = 0 /\ reports = 0 /\ error = 0
noY == /\ source = 0 /\ reading = 0 /\ tokens = 0 /\ faults = 0 /\ read = 0
       /\ printed = 0 /\ again = 0
noS == program = 0 /\ tree = 0 /\ stage = 0 /\ names = 0 /\ sugared = 0
noO == call = 0 /\ past = 0 /\ closures = 0 /\ left = 0 /\ lowest = 0 /\ tied = 0 /\ answer = 0
noF == /\ prog = 0 /\ code = 0 /\ pc = 0 /\ inside = 0 /\ values = 0
       /\ memory = 0 /\ built = 0 /\ over = 0
noL == /\ type = 0 /\ by = 0 /\ alive = 0 /\ variant = 0 /\ held = 0
       /\ owned = 0 /\ wrong = 0
noE == statement = 0 /\ stands = 0 /\ emitted = 0 /\ interpreted = 0

-----------------------------------------------------------------------------
\* A manifest that may not read or stands beside a table, and a program that is
\* only parsed, with what is asked to be written of it.
D == INSTANCE Driver WITH
    stage <- goal, hasTable <- filled, built <- compiled, code <- exit
TheCommandLines ==
    {<<"--pkg", "y.hd", "--roots", "y.hd", "x.hd">>,
     <<"--pkg", "y.hd", "--emit-cpp", "x.hd">>,
     <<"--pretty-print", "--emit-ir", "x.hd">>,
     <<"--pretty-print", "--emit-asm", "x.hd">>}

\* A module whose only clone is a class with a base and a body that assigns.
Written(sort, owner) == [sort |-> sort, owner |-> owner, assigns |-> FALSE]
T == INSTANCE TypePhase WITH
    NumModules <- 1, Keys <- {"clone"}, Assigns <- {"clone"},
    HostOf <- [k \in {"clone"} |-> 1], SortOf <- [k \in {"clone"} |-> "class"],
    Source <- <<<<Written("class", 1), Written("local", 1)>>>>,
    Switches <- <<0>>, stack <- frames, at <- turn

\* A machine, and beside it the programs of its MC module.
I == INSTANCE Instantiation WITH
    Parameters <- <<1, 2>>, NESTING_LIMIT <- 3, MaxClones <- 40,
    Programs <- Declarations, program <- declared, at <- item
OfI == INSTANCE MCInstantiation WITH
    Parameters <- <<1, 2>>, NESTING_LIMIT <- 3, MaxClones <- 40,
    Programs <- {}, program <- declared, at <- item
GrowingClass == OfI!ShapedPrograms

G == INSTANCE ModuleGraph WITH
    Tables <- {TRUE}, Texts <- TextsGiven, Aliases <- {INVALID_STRING, "z"}
OfG == INSTANCE MCModuleGraph WITH
    Tables <- {TRUE}, Texts <- {}, Aliases <- {}, Disk <- <<>>, Links <- <<>>,
    Roots <- <<>>, Prelude <- <<>>, Entries <- {}
TheDisk == OfG!MCDisk
TheLinks == OfG!MCLinks
TheRoots == OfG!MCRoots
ThePrelude == OfG!MCPrelude
TheEntry == OfG!OneEntry
BothNames == OfG!BothNames

Y == INSTANCE Syntax WITH
    WsBits <- 4, Programs <- LinesGiven, program <- source, stage <- reading
OfY == INSTANCE MCSyntax WITH
    WsBits <- 4, Programs <- {}, program <- source, stage <- reading
SourcesDisputed == OfY!Disputed

S == INSTANCE SugarPass WITH
    Modulus <- 8, MaxTurns <- 12, Types <- Containers, Programs <- Sugared,
    held <- sugared
OfS == INSTANCE MCSugar WITH
    Modulus <- 8, MaxTurns <- 12, Types <- <<>>, Programs <- {}, held <- sugared
SugarDisputed == OfS!Disputed
SugarContainers == OfS!ContainerTypes

O == INSTANCE Overloads WITH
    Classes <- ClassesGiven, WholeLimits <- [u8 |-> 2, i32 |-> 4, i64 |-> 6]
OfO == INSTANCE MCOverloads WITH Classes <- <<>>, WholeLimits <- <<>>, Calls <- {}
TheClasses == OfO!TheClasses
CallsDisputed == OfO!Disputed

F == INSTANCE IrRun WITH
    Locals <- {"w", "x", "y", "z"}, Programs <- BodiesGiven,
    at <- pc, alive <- built, left <- over
OfF == INSTANCE MCFunctionLowerer WITH
    Locals <- {"w", "x", "y", "z"}, Programs <- {},
    at <- pc, alive <- built, left <- over
BodiesDisputed == OfF!DeadEnds \cup OfF!Forgotten

L == INSTANCE Lifetimes WITH
    Types <- OwnersGiven, Objects <- Things, BackEnds <- {"C++", "IR"}

E == INSTANCE Expressions WITH
    Statements <- StatementsGiven,
    NarrowBits <- 2, IntBits <- 4, WideBits <- 6, SingleBits <- 2, DoubleBits <- 3
OfE == INSTANCE MCBackEnds WITH
    Statements <- <<>>, Types <- {}, Objects <- {}, BackEnds <- {},
    NarrowBits <- 2, IntBits <- 4, WideBits <- 6, SingleBits <- 2, DoubleBits <- 3
StatementsDisputed == OfE!Disputed
OwnersDisputed == OfE!DisputedTypes

-----------------------------------------------------------------------------
Init ==
    /\ part \in Showing
    /\ IF part = "driver" THEN D!Init ELSE noD
    /\ IF part = "types" THEN T!Init ELSE noT
    /\ IF part = "clones" THEN I!Init ELSE noI
    /\ IF part = "modules" THEN G!Init ELSE noG
    /\ IF part = "syntax" THEN Y!Init ELSE noY
    /\ IF part = "sugar" THEN S!Init ELSE noS
    /\ IF part = "calls" THEN O!Init ELSE noO
    /\ IF part = "bodies" THEN F!Init ELSE noF
    /\ IF part = "objects" THEN L!Init ELSE noL
    /\ IF part = "numbers" THEN E!Init ELSE noE

Next ==
    /\ UNCHANGED part
    /\ IF part = "driver" THEN D!Next ELSE UNCHANGED ofD
    /\ IF part = "types" THEN T!Next ELSE UNCHANGED ofT
    /\ IF part = "clones" THEN I!Next ELSE UNCHANGED ofI
    /\ IF part = "modules" THEN G!Next ELSE UNCHANGED ofG
    /\ IF part = "syntax" THEN Y!Next ELSE UNCHANGED ofY
    /\ IF part = "sugar" THEN S!Next ELSE UNCHANGED ofS
    /\ IF part = "calls" THEN O!Next ELSE UNCHANGED ofO
    /\ IF part = "bodies" THEN F!Next ELSE UNCHANGED ofF
    /\ IF part = "objects" THEN L!Next ELSE UNCHANGED ofL
    /\ IF part = "numbers" THEN E!Next ELSE UNCHANGED ofE

Spec == Init /\ [][Next]_<<part, ofD, ofT, ofI, ofG, ofY, ofS, ofO, ofF, ofL, ofE>>

-----------------------------------------------------------------------------
\* What is written of the front end: an exit code says what was done
\* (driver.h:18), of the program that was checked; a clone is given both passes and its body
\* is asked for its names (type_collector.h, implicit_collector.cpp); a class
\* cannot go on growing (instantiator.cpp:8); a file is of the longest root
\* that covers it (record 0010); what is printed reads back (pretty_printer.h) and
\* a template is one line (parser.cpp:1174);
\* a lowering keeps what was written (record 0061); a reference is read as what
\* it names, and what a parameter takes is what a call gives it (record 0018).
FrontEndAsWritten ==
    /\ part = "driver" => D!ExitsAsWritten
    /\ part = "types" => T!CloneGetsBothPasses /\ T!CloneBodiesAreNamed
    /\ part = "clones" => I!StopsGrowing
    /\ part = "modules" => G!OfTheLongestRoot
    /\ part = "syntax" => Y!PrintsBack /\ Y!TemplateIsOneLine
    /\ part = "sugar" => S!SameMeaning
    /\ part = "calls" => O!AReferenceIsWhatItNames

\* What is written of the back ends: a lowered body verifies and ends what it
\* made (ir_verifier.h, record 0031); each thing an owner got is given back
\* once, and the two do it alike (function_lowerer.cpp:310); a number is worth
\* what records 0057 and 0083 say, to both.
BackEndsAsWritten ==
    /\ part = "bodies" => F!Verifies /\ F!NothingLeftBehind
    /\ part = "objects" => L!OnceAndAlike
    /\ part = "numbers" => E!AsRecorded
=============================================================================
