-------------------------------- MODULE Driver --------------------------------
(***************************************************************************)
(* Driver: the command line of hdc, the one file it looks for by itself,   *)
(* and what becomes the exit code. What the phases and the writers make of *)
(* a program is theirs: here they succeed or they do not.                  *)
(***************************************************************************)
EXTENDS Integers, Sequences, FiniteSets

CONSTANT CommandLines       \* sequences of arguments

Flags == {"--help", "--tokens", "--emit-cpp", "--emit-ir", "--emit-asm",
          "--pretty-print"}
Valued == {"--pkg", "--roots"}
Operands == {"", "x.hd", "y.hd"}    \* and what no option is called
Arguments == Flags \cup Valued \cup Operands \cup {"--unknown"}

Above == "above/haard.pkg"

CommandLinesAssumption == CommandLines \subseteq Seq(Arguments)

VARIABLES
    argv,
    number,     \* how many arguments were read
    options,    \* the flags among them
    path,       \* the file to compile, "" for none
    package,    \* the manifest, written or found, "" for none
    roots,      \* the roots table, "" for none
    stage,      \* where run is
    hasTable,   \* the finder was filled
    built,      \* what the compilation came to: nothing, parsed or checked
    wrote,      \* what went to the standard output
    code        \* the exit code

vars == <<argv, number, options, path, package, roots, stage, hasTable, built,
          wrote, code>>

Running == -1

Init ==
    /\ argv \in CommandLines
    /\ number = 0
    /\ options = {} /\ path = "" /\ package = "" /\ roots = ""
    /\ stage = "arguments"
    /\ hasTable = FALSE
    /\ built = "nothing"
    /\ wrote = <<>>
    /\ code = Running

-----------------------------------------------------------------------------
(* read_arguments, and what run makes of them.                             *)

Exit(c) == stage' = "over" /\ code' = c

Reading == stage = "arguments" /\ number < Len(argv)
Argument == argv[number + 1]

ReadFlag ==
    /\ Reading /\ Argument \in Flags
    /\ options' = options \cup {Argument}
    /\ number' = number + 1
    /\ UNCHANGED <<argv, path, package, roots, stage, hasTable, built, wrote,
                   code>>

\* (mutant: the value is read again as an argument)
ReadValueTwice ==
    /\ Reading /\ Argument \in Valued /\ number + 2 <= Len(argv)
    /\ number' = number + 1
    /\ IF Argument = "--pkg"
       THEN package' = argv[number + 2] /\ UNCHANGED roots
       ELSE roots' = argv[number + 2] /\ UNCHANGED package
    /\ UNCHANGED <<argv, options, path, stage, hasTable, built, wrote,
                   code>>

\* the value is the next argument, whatever it looks like
ReadValue ==
    /\ Reading /\ Argument \in Valued /\ number + 2 <= Len(argv)
    /\ number' = number + 2
    /\ IF Argument = "--pkg"
       THEN package' = argv[number + 2] /\ UNCHANGED roots
       ELSE roots' = argv[number + 2] /\ UNCHANGED package
    /\ UNCHANGED <<argv, options, path, stage, hasTable, built, wrote,
                   code>>

ReadPath ==
    /\ Reading /\ Argument \in Operands /\ path = ""
    /\ path' = Argument
    /\ number' = number + 1
    /\ UNCHANGED <<argv, options, package, roots, stage, hasTable, built,
                   wrote, code>>

\* no value, no such option, or a second file
RefuseArgument ==
    /\ Reading
    /\ \/ Argument \in Valued /\ number + 1 = Len(argv)
       \/ Argument = "--unknown"
       \/ Argument \in Operands /\ path # ""
    /\ Exit(2)
    /\ UNCHANGED <<argv, number, options, path, package, roots, hasTable,
                   built, wrote>>

EndOfArguments ==
    /\ stage = "arguments" /\ number = Len(argv)
    /\ IF "--help" \in options
       THEN Exit(0) /\ wrote' = Append(wrote, "usage")
       ELSE IF path = "" THEN Exit(2) /\ UNCHANGED wrote
       ELSE stage' = "manifest" /\ UNCHANGED <<wrote, code>>
    /\ UNCHANGED <<argv, number, options, path, package, roots, hasTable,
                   built>>

-----------------------------------------------------------------------------
(* compile.                                                                *)

\* the nearest haard.pkg at or above the file, when nothing was written
LookAbove ==
    /\ stage = "manifest"
    /\ IF package = "" /\ roots = "" THEN package' \in {"", Above}
       ELSE UNCHANGED package
    /\ stage' = "table"
    /\ UNCHANGED <<argv, number, options, path, roots, hasTable, built, wrote,
                   code>>

\* `return false' of a function that gives an int
RefuseBoth ==
    /\ stage = "table" /\ package # "" /\ roots # ""
    /\ Exit(0)
    /\ UNCHANGED <<argv, number, options, path, package, roots, hasTable,
                   built, wrote>>

ReadTable(from, failure) ==
    /\ hasTable' \in BOOLEAN
    /\ IF hasTable' THEN stage' = "build" /\ UNCHANGED code
       ELSE Exit(failure)

\* set_package, set_roots, or neither
FillFinder ==
    /\ stage = "table" /\ (package = "" \/ roots = "")
    /\ IF package # "" THEN ReadTable(package, 0)
       ELSE IF roots # "" THEN ReadTable(roots, 2)
       ELSE stage' = "build" /\ UNCHANGED <<hasTable, code>>
    /\ UNCHANGED <<argv, number, options, path, package, roots, built, wrote>>

\* no root covers the file; a file is not there; an error in the source
Outcomes == {"unreadable", "errors", "ok"}
                \cup IF hasTable THEN {"unplaced"} ELSE {}
Tokens(outcome) ==
    IF "--tokens" \in options /\ outcome # "unplaced" THEN <<"tokens">>
    ELSE <<>>

\* (mutant: what the program had wrong is printed, and the code forgotten)
AfterBuildAnyway(outcome) ==
    IF outcome \in {"unplaced", "unreadable"} THEN Exit(2) /\ UNCHANGED built
    ELSE /\ stage' = "cpp"
         /\ built' = IF outcome = "ok" THEN "checked" ELSE "nothing"
         /\ UNCHANGED code

AfterBuild(outcome) ==
    IF outcome \in {"unplaced", "unreadable"} THEN Exit(2) /\ UNCHANGED built
    ELSE IF outcome = "errors" THEN Exit(1) /\ UNCHANGED built
    ELSE /\ stage' = "cpp"
         /\ built' = IF "--pretty-print" \in options THEN "parsed"
                     ELSE "checked"
         /\ UNCHANGED code

Build ==
    /\ stage = "build"
    /\ \E outcome \in Outcomes :
          /\ wrote' = wrote \o Tokens(outcome)
          /\ AfterBuild(outcome)
    /\ UNCHANGED <<argv, number, options, path, package, roots, hasTable>>

Forms == <<"cpp", "ir", "asm", "source">>
Stages == {Forms[i] : i \in DOMAIN Forms}
Asked(form) ==
    CASE form = "cpp" -> "--emit-cpp" \in options
      [] form = "ir" -> "--emit-ir" \in options
      [] form = "asm" -> "--emit-asm" \in options
      [] form = "source" -> "--pretty-print" \in options

\* a program that only parsed declares nothing: the emitter finds no `main',
\* and the lowerer finds nothing to lower and nothing wrong with it
MayWrite(form) ==
    IF built = "parsed" /\ form = "cpp" THEN {FALSE}
    ELSE IF built = "parsed" /\ form \in {"ir", "asm"} THEN {TRUE}
    ELSE BOOLEAN

GoOn(form) ==
    /\ IF form = "source" THEN Exit(0)
       ELSE /\ \E i \in DOMAIN Forms : Forms[i] = form /\ stage' = Forms[i + 1]
            /\ UNCHANGED code

Write(form, writes) ==
    IF writes THEN wrote' = Append(wrote, form) /\ GoOn(form)
    ELSE UNCHANGED wrote /\ Exit(1)

\* the forms one after the other, each when it was asked for
WriteForm ==
    /\ stage \in Stages
    /\ IF Asked(stage) THEN \E writes \in MayWrite(stage) : Write(stage, writes)
       ELSE GoOn(stage) /\ UNCHANGED wrote
    /\ UNCHANGED <<argv, number, options, path, package, roots, hasTable,
                   built>>

Done == stage = "over" /\ UNCHANGED vars

Next ==
    \/ ReadFlag \/ ReadValue \/ ReadPath \/ RefuseArgument \/ EndOfArguments
    \/ LookAbove \/ RefuseBoth \/ FillFinder \/ Build \/ WriteForm \/ Done

Spec == Init /\ [][Next]_vars

-----------------------------------------------------------------------------
(* Properties.                                                             *)

\* which arguments are the value of the one before them: of the options that
\* stand one after the other before it, every second is the value of the first
OptionsBefore(i) == {j \in 1 .. i - 1 : \A k \in j .. i - 1 : argv[k] \in Valued}
IsValue(i) == Cardinality(OptionsBefore(i)) % 2 = 1
Own == {i \in DOMAIN argv : ~IsValue(i)}

\* A command line that is gone through means one thing: its flags in any
\* order, the last value of an option given twice, and the one file that is
\* nobody's value (driver.cpp read_arguments).
ReadsWhatIsWritten ==
    stage \in {"manifest", "table"} =>
        /\ options = {argv[i] : i \in Own} \cap Flags
        /\ path \in {argv[i] : i \in Own} \cap Operands
        /\ Cardinality({i \in Own : argv[i] \notin Flags \cup Valued
                                        \cup {""}}) = 1
        /\ \A name \in Valued :
              LET at == {i \in Own : argv[i] = name}
                  kept == IF name = "--pkg" THEN package ELSE roots
              IN IF at = {} THEN kept \in {"", Above}
                 ELSE LET last == CHOOSE i \in at : \A j \in at : j <= i
                      IN kept \in {argv[last + 1]}
                             \cup IF argv[last + 1] = "" THEN {Above} ELSE {}

\* A program is never built without the table it was given, nor with two: a
\* table that does not read is not the same as none, which would compile one
\* file and follow no import.
BuiltWithItsTable ==
    stage \in {"build"} \cup Stages =>
        /\ package = "" \/ roots = ""
        /\ hasTable <=> package # "" \/ roots # ""

Said == {wrote[i] : i \in DOMAIN wrote}
AskedFor == {form \in Stages : Asked(form)}
Before(n) == {Forms[i] : i \in 1 .. n - 1}

\* a manifest beside a table, or one that does not read: both are refused with
\* the exit code of a success, and nothing is built
RefusedManifest == package # "" /\ ~hasTable

\* What each exit code of the driver stands for. 0: the usage was asked for,
\* or every form that was asked for was written of what was built, or a manifest
\* was refused. 1: nothing was built, or a form could not be written, and then
\* those before it were and no other. 2: no form was written. None is written
\* of a program with errors, and the three that compile it only once it was
\* checked - but for the IR and the assembly beside --pretty-print.
ExitSaysWhatWasWritten ==
    LET forms == Said \cap Stages
    IN /\ code = 0 =>
             \/ "--help" \in options /\ "usage" \in Said /\ forms = {}
             \/ built # "nothing" /\ forms = AskedFor
             \/ RefusedManifest /\ forms = {}
       /\ code = 1 =>
             \/ built = "nothing" /\ forms = {}
             \/ \E n \in DOMAIN Forms :
                   Asked(Forms[n]) /\ forms = AskedFor \cap Before(n)
       /\ code = 2 => forms = {}
       /\ forms # {} => built # "nothing"
       /\ "cpp" \in forms => built = "checked"
       /\ forms \cap {"ir", "asm"} # {} =>
             built = "checked" \/ "--pretty-print" \in options

\* What is written of them (driver.h:18, and the usage of driver.cpp:129-131): 0
\* is a success, so the file compiled and what was asked for is there; and what
\* is written as C++, IR or assembly is the program, which is what was checked.
ExitsAsWritten ==
    LET forms == Said \cap Stages
    IN /\ code = 0 => \/ "usage" \in Said
                      \/ built # "nothing" /\ forms = AskedFor
       /\ forms \cap {"cpp", "ir", "asm"} # {} => built = "checked"

=============================================================================
