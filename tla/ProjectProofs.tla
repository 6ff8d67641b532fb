---------------------------- MODULE ProjectProofs ----------------------------
(***************************************************************************)
(* What is proved of what a build starts from, for every command line,     *)
(* every table and every set of manifests. The command line is read as it  *)
(* is written, a program is built with the table it was given or not at    *)
(* all, and success is that all that was asked for was written. A table is *)
(* read exactly when it says something, into the roots it says. Manifests  *)
(* are read into what a table of those in reach would say, and a failure   *)
(* has its reason in one of them.                                          *)
(***************************************************************************)
EXTENDS Project, FiniteSetTheorems, SequenceTheorems,
        WellFoundedInduction, TLAPS

-----------------------------------------------------------------------------
\* The cardinality the driver speaks of is that of the theorems.
LEMMA DriverCounts ==
    ASSUME NEW S
    PROVE  D!Cardinality(S) = Cardinality(S)
BY ZenonT(60) DEF D!Cardinality, Cardinality

-----------------------------------------------------------------------------
(* Which arguments are values.                                             *)

\* The first argument is nobody's value.
LEMMA FirstIsNoValue == ~D!IsValue(1)
<1>1. D!OptionsBefore(1) = {}
  BY DEF D!OptionsBefore
<1>. QED
  BY <1>1, FS_EmptySet, DriverCounts DEF D!IsValue

\* An argument is the value of the one before it when that one is an option
\* with a value and no value itself.
LEMMA ValueOfTheOneBefore ==
    ASSUME NEW i \in Nat \ {0}
    PROVE  D!IsValue(i + 1) <=> argv[i] \in D!Valued /\ ~D!IsValue(i)
<1>1. CASE argv[i] \notin D!Valued
  <2>1. D!OptionsBefore(i + 1) = {}
    BY <1>1 DEF D!OptionsBefore
  <2>2. D!Cardinality(D!OptionsBefore(i + 1)) = 0
    BY <2>1, FS_EmptySet, DriverCounts
  <2>. QED
    BY <1>1, <2>2 DEF D!IsValue
<1>2. CASE argv[i] \in D!Valued
  <2>1. D!OptionsBefore(i + 1) = D!OptionsBefore(i) \cup {i}
    BY <1>2 DEF D!OptionsBefore
  <2>2. i \notin D!OptionsBefore(i)
    BY DEF D!OptionsBefore
  <2>3. IsFiniteSet(D!OptionsBefore(i))
    <3>1. IsFiniteSet(1 .. i - 1)
      BY FS_Interval
    <3>. QED
      BY <3>1, FS_Subset DEF D!OptionsBefore
  <2>4. /\ Cardinality(D!OptionsBefore(i)) \in Nat
        /\ Cardinality(D!OptionsBefore(i + 1))
              = Cardinality(D!OptionsBefore(i)) + 1
    BY <2>1, <2>2, <2>3, FS_AddElement, FS_CardinalityType
  <2>. QED
    BY <1>2, <2>4, DriverCounts DEF D!IsValue
<1>. QED
  BY <1>1, <1>2

-----------------------------------------------------------------------------
(* What the arguments that were read come to.                              *)

\* what the last option of a name was given, of some of the arguments
IsGiven(args, some, name, value) ==
    /\ (\A i \in some : args[i] # name) => value = ""
    /\ (\E i \in some : args[i] = name) =>
          \E i \in some : /\ args[i] = name /\ value = args[i + 1]
                          /\ \A j \in some : args[j] = name => j <= i

AreFlags(args, some, flags) ==
    \A flag \in D!Flags : flag \in flags <=> \E i \in some : args[i] = flag

\* the one of them that names a file
NamesAFile(arg) == arg \notin D!Flags \cup D!Valued \cup {""}
IsTheFile(args, some, file) ==
    /\ file = "" => \A i \in some : ~NamesAFile(args[i])
    /\ file # "" => \E i \in some :
          /\ args[i] = file /\ NamesAFile(args[i])
          /\ \A j \in some : NamesAFile(args[j]) => j = i

\* those that are read and are nobody's value
Read == {i \in D!Own : i <= number}

ReadInto(someOptions, somePath, somePackage, someRoots) ==
    /\ AreFlags(argv, Read, someOptions)
    /\ IsTheFile(argv, Read, somePath)
    /\ IsGiven(argv, Read, "--pkg", somePackage)
    /\ IsGiven(argv, Read, "--roots", someRoots)

CommandLineRead ==
    /\ argv \in Seq(D!Arguments) /\ number \in 0 .. Len(argv)
    /\ options \subseteq D!Flags /\ path \in D!Operands
    /\ stage = "arguments" =>
          ~D!IsValue(number + 1) /\ ReadInto(options, path, package, roots)
    /\ stage \in {"manifest", "table"} =>
          /\ number = Len(argv) /\ path # ""
          /\ \/ ReadInto(options, path, package, roots)
             \/ package = D!Above /\ ReadInto(options, path, "", roots)

\* To go on by an argument, or by an option and its value, is to have read one
\* more that is nobody's value.
LEMMA OneMore ==
    ASSUME CommandLineRead, D!Reading, argv' = argv,
           \/ number' = number + 1 /\ D!Argument \notin D!Valued
           \/ /\ number' = number + 2 /\ D!Argument \in D!Valued
              /\ number + 2 <= Len(argv)
    PROVE  /\ number + 1 \in D!Own /\ number + 1 \notin Read
           /\ \A i \in Read : i < number + 1
           /\ Read' = Read \cup {number + 1}
           /\ number' \in 0 .. Len(argv) /\ ~D!IsValue(number' + 1)
<1>1. /\ number \in Nat /\ Len(argv) \in Nat /\ number < Len(argv)
      /\ DOMAIN argv = 1 .. Len(argv)
  BY LenProperties DEF CommandLineRead, D!Reading
<1>2. ~D!IsValue(number + 1)
  BY DEF CommandLineRead, D!Reading
<1>3. number + 1 \in D!Own /\ number + 1 \notin Read
  BY <1>1, <1>2 DEF D!Own, Read
<1>4. \A i \in Read : i < number + 1
  BY <1>1 DEF Read, D!Own
<1>5. D!IsValue(number + 2) <=> D!Argument \in D!Valued
  <2>1. number + 1 \in Nat \ {0} /\ (number + 1) + 1 = number + 2
    BY <1>1
  <2>2. D!IsValue((number + 1) + 1)
            <=> argv[number + 1] \in D!Valued /\ ~D!IsValue(number + 1)
    BY <2>1, ValueOfTheOneBefore
  <2>. QED
    BY <1>2, <2>1, <2>2 DEF D!Argument
<1>6. D!Own' = D!Own
  BY DEF D!Own, D!IsValue, D!OptionsBefore
<1>7. CASE number' = number + 1 /\ D!Argument \notin D!Valued
  <2>1. Read' = Read \cup {number + 1}
    BY <1>1, <1>3, <1>6, <1>7 DEF Read, D!Own
  <2>2. ~D!IsValue((number + 1) + 1)
    <3>1. (number + 1) + 1 = number + 2
      BY <1>1
    <3>. QED
      BY <1>5, <1>7, <3>1
  <2>. QED
    BY <1>1, <1>3, <1>4, <1>7, <2>1, <2>2
<1>8. CASE /\ number' = number + 2 /\ D!Argument \in D!Valued
           /\ number + 2 <= Len(argv)
  <2>1. number + 2 \notin D!Own
    BY <1>5, <1>8 DEF D!Own
  <2>2. Read' = Read \cup {number + 1}
    BY <1>1, <1>3, <1>6, <1>8, <2>1 DEF Read, D!Own
  <2>3. ~D!IsValue((number + 2) + 1)
    <3>1. number + 2 \in Nat \ {0}
      BY <1>1
    <3>. QED
      BY <1>5, <1>8, <3>1, ValueOfTheOneBefore
  <2>. QED
    BY <1>1, <1>3, <1>4, <1>8, <2>2, <2>3
<1>. QED
  BY <1>7, <1>8

\* An argument more changes what the options of another name were given, the
\* flags and the file by what it is.
LEMMA OneMoreValue ==
    ASSUME NEW args, NEW some \in SUBSET Int, NEW n \in Int,
           \A i \in some : i < n, NEW name, NEW value,
           args[n] # name => IsGiven(args, some, name, value),
           args[n] = name => value = args[n + 1]
    PROVE  IsGiven(args, some \cup {n}, name, value)
<1>1. CASE args[n] = name
  <2>1. \A j \in some \cup {n} : j <= n
    OBVIOUS
  <2>2. n \in some \cup {n} /\ args[n] = name /\ value = args[n + 1]
    BY <1>1
  <2>. QED
    BY <2>1, <2>2 DEF IsGiven
<1>2. CASE args[n] # name
  <2>1. IsGiven(args, some, name, value)
    BY <1>2
  <2>2. (\E i \in some : args[i] = name) <=> \E i \in some \cup {n} : args[i] = name
    BY <1>2
  <2>3. ASSUME NEW i \in some, args[i] = name, value = args[i + 1],
               \A j \in some : args[j] = name => j <= i
        PROVE  IsGiven(args, some \cup {n}, name, value)
    BY <1>2, <2>3 DEF IsGiven
  <2>4. CASE \E i \in some : args[i] = name
    BY <2>1, <2>3, <2>4 DEF IsGiven
  <2>5. CASE \A i \in some : args[i] # name
    BY <1>2, <2>1, <2>5 DEF IsGiven
  <2>. QED
    BY <2>4, <2>5
<1>. QED
  BY <1>1, <1>2

LEMMA OneMoreFlag ==
    ASSUME NEW args, NEW some, NEW n, NEW flags, NEW more,
           AreFlags(args, some, flags),
           more = flags \cup ({args[n]} \cap D!Flags)
    PROVE  AreFlags(args, some \cup {n}, more)
BY DEF AreFlags

LEMMA OneMoreFile ==
    ASSUME NEW args, NEW some, NEW n, n \notin some, NEW file, NEW last,
           IsTheFile(args, some, file),
           NamesAFile(args[n]) => file = "" /\ last = args[n],
           ~NamesAFile(args[n]) => last = file,
           NamesAFile(args[n]) => args[n] # ""
    PROVE  IsTheFile(args, some \cup {n}, last)
<1>1. CASE NamesAFile(args[n])
  BY <1>1 DEF IsTheFile
<1>2. CASE ~NamesAFile(args[n])
  BY <1>2 DEF IsTheFile
<1>. QED
  BY <1>1, <1>2

LEMMA InitCommandLine == D!Init => CommandLineRead
<1>. SUFFICES ASSUME D!Init PROVE CommandLineRead
  OBVIOUS
<1>1. argv \in Seq(D!Arguments)
  BY DriverAssumption DEF D!Init, D!CommandLinesAssumption
<1>2. /\ options = {} /\ path = "" /\ package = "" /\ roots = ""
      /\ stage = "arguments"
  BY DEF D!Init
<1>3. number = 0
  BY DEF D!Init
<1>4. Len(argv) \in Nat
  BY <1>1, LenProperties
<1>5. Read = {}
  <2>1. DOMAIN argv = 1 .. Len(argv)
    BY <1>1, LenProperties
  <2>. QED
    BY <1>3, <2>1 DEF Read, D!Own
<1>6. ~D!IsValue(number + 1)
  <2>1. number + 1 = 1
    BY <1>3
  <2>. QED
    BY <2>1, FirstIsNoValue
<1>7. ReadInto(options, path, package, roots)
  BY <1>2, <1>5 DEF ReadInto, AreFlags, IsTheFile, IsGiven
<1>8. path \in D!Operands
  BY <1>2 DEF D!Operands
<1>. QED
  <2>1. options \subseteq D!Flags
    BY <1>2
  <2>2. number \in 0 .. Len(argv)
    BY <1>3, <1>4
  <2>. QED
    BY <1>1, <1>2, <1>6, <1>7, <1>8, <2>1, <2>2 DEF CommandLineRead

\* Every step reads on as the text goes.
LEMMA NextCommandLine ==
    CommandLineRead /\ [D!Next]_(D!vars) => CommandLineRead'
<1>. SUFFICES ASSUME CommandLineRead, [D!Next]_(D!vars)
              PROVE  CommandLineRead'
  OBVIOUS
<1>1. /\ argv \in Seq(D!Arguments) /\ Len(argv) \in Nat
      /\ number \in 0 .. Len(argv)
      /\ options \subseteq D!Flags /\ path \in D!Operands
  BY LenProperties DEF CommandLineRead
<1>2. /\ D!Flags \cap D!Valued = {} /\ D!Flags \cap D!Operands = {}
      /\ D!Valued \cap D!Operands = {}
      /\ "" \in D!Operands /\ "--pkg" \notin D!Flags \cup D!Operands
      /\ "--roots" \notin D!Flags \cup D!Operands
      /\ D!Valued = {"--pkg", "--roots"} /\ "" \notin D!Flags \cup D!Valued
  BY DEF D!Flags, D!Valued, D!Operands
\* what an argument more comes to, whatever it is
<1>3. ASSUME D!Reading, argv' = argv, stage' = stage,
             \/ number' = number + 1 /\ D!Argument \notin D!Valued
             \/ /\ number' = number + 2 /\ D!Argument \in D!Valued
                /\ number + 2 <= Len(argv),
             options' = options \cup ({D!Argument} \cap D!Flags),
             NamesAFile(D!Argument) =>
                path = "" /\ path' = D!Argument /\ path' # "",
             ~NamesAFile(D!Argument) => path' = path,
             D!Argument = "--pkg" => package' = argv[number + 2],
             D!Argument # "--pkg" => package' = package,
             D!Argument = "--roots" => roots' = argv[number + 2],
             D!Argument # "--roots" => roots' = roots,
             path' \in D!Operands
      PROVE  CommandLineRead'
  <2>. DEFINE n == number + 1
  <2>1. /\ n \notin Read /\ \A i \in Read : i < n
        /\ Read' = Read \cup {n}
        /\ number' \in 0 .. Len(argv) /\ ~D!IsValue(number' + 1)
    BY <1>3, OneMore
  <2>2. Read \in SUBSET Int /\ n \in Int /\ n + 1 = number + 2
    BY <1>1, LenProperties DEF Read, D!Own
  <2>3. ReadInto(options, path, package, roots)
    BY <1>3 DEF CommandLineRead, D!Reading
  <2>4. D!Argument = argv[n]
    BY DEF D!Argument
  <2>. HIDE DEF n
  <2>5. AreFlags(argv, Read \cup {n}, options')
    BY <1>3, <2>3, <2>4, OneMoreFlag DEF ReadInto
  <2>6. IsTheFile(argv, Read \cup {n}, path')
    BY <1>3, <2>1, <2>3, <2>4, OneMoreFile DEF ReadInto
  <2>7. IsGiven(argv, Read \cup {n}, "--pkg", package')
    BY <1>3, <2>1, <2>2, <2>3, <2>4, OneMoreValue DEF ReadInto
  <2>8. IsGiven(argv, Read \cup {n}, "--roots", roots')
    BY <1>3, <2>1, <2>2, <2>3, <2>4, OneMoreValue DEF ReadInto
  <2>9. ReadInto(options, path, package, roots)'
    BY <1>3, <2>1, <2>5, <2>6, <2>7, <2>8 DEF ReadInto
  <2>10. ~D!IsValue(number + 1)'
    BY <1>3, <2>1 DEF D!IsValue, D!OptionsBefore
  <2>11. options' \subseteq D!Flags
    BY <1>1, <1>3
  <2>12. stage' = "arguments"
    BY <1>3 DEF D!Reading
  <2>. QED
    BY <1>1, <1>3, <2>1, <2>9, <2>10, <2>11, <2>12 DEF CommandLineRead
<1>4. CASE D!ReadFlag
  <2>1. D!Argument \in D!Flags /\ D!Argument \notin D!Valued
        /\ ~NamesAFile(D!Argument)
        /\ D!Argument # "--pkg" /\ D!Argument # "--roots"
    BY <1>2, <1>4 DEF D!ReadFlag, NamesAFile
  <2>2. options' = options \cup ({D!Argument} \cap D!Flags)
    BY <1>4, <2>1 DEF D!ReadFlag
  <2>. QED
    BY <1>1, <1>3, <1>4, <2>1, <2>2 DEF D!ReadFlag
<1>5. CASE D!ReadValue
  <2>1. D!Argument \in D!Valued /\ D!Argument \notin D!Flags
        /\ ~NamesAFile(D!Argument)
    BY <1>2, <1>5 DEF D!ReadValue, NamesAFile
  <2>2. options' = options \cup ({D!Argument} \cap D!Flags)
    BY <1>5, <2>1 DEF D!ReadValue
  <2>3. \/ D!Argument = "--pkg" /\ package' = argv[number + 2]
           /\ roots' = roots
        \/ D!Argument = "--roots" /\ roots' = argv[number + 2]
           /\ package' = package
    BY <1>2, <1>5, <2>1 DEF D!ReadValue
  <2>. QED
    BY <1>1, <1>3, <1>5, <2>1, <2>2, <2>3 DEF D!ReadValue
<1>6. CASE D!ReadPath
  <2>1. /\ D!Argument \in D!Operands /\ D!Argument \notin D!Flags
        /\ D!Argument \notin D!Valued
        /\ D!Argument # "--pkg" /\ D!Argument # "--roots"
    BY <1>2, <1>6 DEF D!ReadPath
  <2>2. NamesAFile(D!Argument) <=> D!Argument # ""
    BY <1>2, <2>1 DEF NamesAFile
  <2>3. options' = options \cup ({D!Argument} \cap D!Flags)
    BY <1>6, <2>1 DEF D!ReadPath
  <2>. QED
    BY <1>3, <1>6, <2>1, <2>2, <2>3 DEF D!ReadPath
\* what goes on after the arguments, and what gives up
<1>7. ASSUME UNCHANGED <<argv, number, options, path, package, roots>>,
             stage' \notin {"arguments", "manifest", "table"}
      PROVE  CommandLineRead'
  BY <1>1, <1>7 DEF CommandLineRead
<1>8. CASE D!RefuseArgument
  BY <1>7, <1>8 DEF D!RefuseArgument, D!Exit
<1>9. ASSUME UNCHANGED <<argv, number>>
       PROVE  Read' = Read
  BY <1>9 DEF Read, D!Own, D!IsValue, D!OptionsBefore
<1>10. CASE D!EndOfArguments
  <2>1. UNCHANGED <<argv, number, options, path, package, roots>>
    BY <1>10 DEF D!EndOfArguments
  <2>2. ReadInto(options, path, package, roots)
    BY <1>10 DEF CommandLineRead, D!EndOfArguments
  <2>3. ReadInto(options, path, package, roots)'
    BY <1>9, <2>1, <2>2 DEF ReadInto
  <2>4. CASE stage' = "manifest"
    <3>1. number' = Len(argv') /\ path' # ""
      BY <1>10, <2>1, <2>4 DEF D!EndOfArguments, D!Exit
    <3>. QED
      BY <1>1, <2>1, <2>3, <2>4, <3>1 DEF CommandLineRead
  <2>5. CASE stage' # "manifest"
    <3>1. stage' = "over"
      BY <1>10, <2>5 DEF D!EndOfArguments, D!Exit
    <3>. QED
      BY <1>7, <2>1, <3>1
  <2>. QED
    BY <2>4, <2>5
<1>11. CASE D!LookAbove
  <2>1. UNCHANGED <<argv, number, options, path, roots>> /\ stage' = "table"
    BY <1>11 DEF D!LookAbove
  <2>2. /\ number = Len(argv) /\ path # ""
        /\ \/ ReadInto(options, path, package, roots)
           \/ package = D!Above /\ ReadInto(options, path, "", roots)
    BY <1>11 DEF CommandLineRead, D!LookAbove
  <2>3. \/ package' = package
        \/ package = "" /\ package' = D!Above
    BY <1>11 DEF D!LookAbove
  <2>4. D!Above # ""
    BY DEF D!Above
  <2>5. \/ ReadInto(options, path, package', roots)
        \/ package' = D!Above /\ ReadInto(options, path, "", roots)
    BY <2>2, <2>3, <2>4
  <2>6. \/ ReadInto(options, path, package, roots)'
        \/ package' = D!Above /\ ReadInto(options, path, "", roots)'
    BY <1>9, <2>1, <2>5 DEF ReadInto
  <2>. QED
    BY <1>1, <2>1, <2>2, <2>6 DEF CommandLineRead, D!Above
<1>12. CASE D!RefuseBoth
  BY <1>7, <1>12 DEF D!RefuseBoth, D!Exit
<1>13. CASE D!FillFinder
  BY <1>7, <1>13 DEF D!FillFinder, D!ReadTable, D!Exit
<1>14. CASE D!Build
  <2>1. stage' \in {"over", "cpp"}
    BY <1>14 DEF D!Build, D!AfterBuild, D!Exit
  <2>. QED
    BY <1>7, <1>14, <2>1 DEF D!Build
<1>15. CASE D!WriteForm
  <2>1. stage' \in {"over", "cpp", "ir", "asm", "source"}
    BY <1>15 DEF D!WriteForm, D!Write, D!GoOn, D!Forms, D!Exit
  <2>. QED
    BY <1>7, <1>15, <2>1 DEF D!WriteForm
<1>16. CASE UNCHANGED D!vars
  BY <1>1, <1>9, <1>16 DEF D!vars, CommandLineRead, ReadInto,
     D!IsValue, D!OptionsBefore
<1>. QED
  BY <1>4, <1>5, <1>6, <1>8, <1>10, <1>11, <1>12, <1>13, <1>14, <1>15, <1>16
     DEF D!Next, D!Done

\* What was read at the end of the line is what is written on it.
LEMMA CommandLineMeant == CommandLineRead => D!ReadsWhatIsWritten
<1>. SUFFICES ASSUME CommandLineRead, stage \in {"manifest", "table"}
              PROVE  /\ options = {argv[i] : i \in D!Own} \cap D!Flags
                     /\ path \in {argv[i] : i \in D!Own} \cap D!Operands
                     /\ D!Cardinality({i \in D!Own : argv[i] \notin
                            D!Flags \cup D!Valued \cup {""}}) = 1
                     /\ \A name \in D!Valued :
                          LET at == {i \in D!Own : argv[i] = name}
                              kept == IF name = "--pkg" THEN package ELSE roots
                          IN IF at = {} THEN kept \in {"", D!Above}
                             ELSE LET last == CHOOSE i \in at :
                                                \A j \in at : j <= i
                                  IN kept \in {argv[last + 1]}
                                        \cup IF argv[last + 1] = ""
                                             THEN {D!Above} ELSE {}
  BY DEF D!ReadsWhatIsWritten
<1>1. /\ argv \in Seq(D!Arguments) /\ number = Len(argv) /\ path # ""
      /\ options \subseteq D!Flags /\ path \in D!Operands
  BY DEF CommandLineRead
<1>2. Read = D!Own
  <2>1. DOMAIN argv = 1 .. number /\ number \in Nat
    BY <1>1, LenProperties
  <2>2. \A i \in D!Own : i <= number
    BY <2>1 DEF D!Own
  <2>. QED
    BY <2>2 DEF Read
<1>3. PICK given : /\ ReadInto(options, path, given, roots)
                   /\ \/ package = given
                      \/ given = "" /\ package = D!Above
  BY DEF CommandLineRead
<1>4. options = {argv[i] : i \in D!Own} \cap D!Flags
  BY <1>1, <1>2, <1>3 DEF ReadInto, AreFlags
<1>5. PICK i \in D!Own : /\ argv[i] = path /\ NamesAFile(argv[i])
                         /\ \A j \in D!Own : NamesAFile(argv[j]) => j = i
  BY <1>1, <1>2, <1>3 DEF ReadInto, IsTheFile
<1>6. path \in {argv[j] : j \in D!Own} \cap D!Operands
  BY <1>1, <1>5
<1>7. D!Cardinality({j \in D!Own : argv[j] \notin
                        D!Flags \cup D!Valued \cup {""}}) = 1
  <2>1. {j \in D!Own : argv[j] \notin D!Flags \cup D!Valued \cup {""}} = {i}
    BY <1>5 DEF NamesAFile
  <2>. QED
    BY <2>1, FS_Singleton, DriverCounts
\* the last of a name, whoever is given its value
<1>8. ASSUME NEW name, NEW value, IsGiven(argv, Read, name, value)
      PROVE  LET at == {j \in D!Own : argv[j] = name}
             IN  /\ at = {} => value = ""
                 /\ at # {} => value = argv[(CHOOSE j \in at :
                                               \A k \in at : k <= j) + 1]
  <2>. DEFINE at == {j \in D!Own : argv[j] = name}
              last == CHOOSE j \in at : \A k \in at : k <= j
  <2>1. CASE at = {}
    BY <1>2, <1>8, <2>1 DEF IsGiven
  <2>2. CASE at # {}
    <3>1. PICK j \in at : value = argv[j + 1] /\ \A k \in at : k <= j
      BY <1>2, <1>8, <2>2 DEF IsGiven
    <3>2. \A k \in at : k \in Int
      <4>1. DOMAIN argv \subseteq Int
        <5>1. DOMAIN argv = 1 .. Len(argv)
          BY <1>1, LenProperties
        <5>. QED
          BY <5>1
      <4>. QED
        BY <4>1 DEF D!Own
    <3>3. last \in at /\ \A k \in at : k <= last
      BY <3>1
    <3>. HIDE DEF at, last
    <3>4. last = j
      BY <3>1, <3>2, <3>3
    <3>. QED
      BY <2>2, <3>1, <3>4 DEF at, last
  <2>. QED
    BY <2>1, <2>2
<1>9. ASSUME NEW name \in D!Valued
      PROVE  LET at == {j \in D!Own : argv[j] = name}
                 kept == IF name = "--pkg" THEN package ELSE roots
             IN IF at = {} THEN kept \in {"", D!Above}
                ELSE LET last == CHOOSE j \in at : \A k \in at : k <= j
                     IN kept \in {argv[last + 1]}
                           \cup IF argv[last + 1] = ""
                                THEN {D!Above} ELSE {}
  <2>. DEFINE at == {j \in D!Own : argv[j] = name}
              last == CHOOSE j \in at : \A k \in at : k <= j
              kept == IF name = "--pkg" THEN package ELSE roots
  <2>1. ASSUME NEW value, IsGiven(argv, Read, name, value)
        PROVE  (at = {} => value = "") /\ (at # {} => value = argv[last + 1])
    BY <1>8, <2>1
  <2>. HIDE DEF last, at
  <2>2. CASE name = "--pkg"
    <3>1. (at = {} => given = "") /\ (at # {} => given = argv[last + 1])
      BY <1>3, <2>1, <2>2 DEF ReadInto
    <3>. QED
      BY <1>3, <2>2, <3>1 DEF at, last
  <2>3. CASE name = "--roots"
    <3>1. (at = {} => roots = "") /\ (at # {} => roots = argv[last + 1])
      BY <1>3, <2>1, <2>3 DEF ReadInto
    <3>. QED
      BY <2>3, <3>1 DEF at, last
  <2>. QED
    BY <2>2, <2>3 DEF D!Valued
<1>. QED
  BY <1>4, <1>6, <1>7, <1>9

-----------------------------------------------------------------------------
(* What is built, and what is written of it.                               *)

Outputs == D!Said \cap D!Stages

\* the forms before one
Earlier(form) ==
    CASE form = "cpp" -> {}
      [] form = "ir" -> {"cpp"}
      [] form = "asm" -> {"cpp", "ir"}
      [] form = "source" -> {"cpp", "ir", "asm"}

\* what was written of a program that was checked, or only parsed
OfWhatWasBuilt ==
    /\ Outputs # {} => built # "nothing"
    /\ "cpp" \in Outputs => built = "checked"
    /\ Outputs \cap {"ir", "asm"} # {} =>
          built = "checked" \/ "--pretty-print" \in options

\* how the driver may have ended
Ended ==
    \/ code = 0 /\ "--help" \in options /\ "usage" \in D!Said /\ Outputs = {}
    \/ code = 0 /\ built # "nothing" /\ Outputs = D!AskedFor
    \/ code = 0 /\ D!RefusedManifest /\ Outputs = {}
    \/ code \in {1, 2} /\ built = "nothing" /\ Outputs = {}
    \/ code = 1 /\ \E form \in D!Stages :
          D!Asked(form) /\ Outputs = D!AskedFor \cap Earlier(form)

Ahead == {"arguments", "manifest", "table"}

Written == {"usage", "tokens", "cpp", "ir", "asm", "source"}

BuildState ==
    /\ stage \in Ahead \cup {"build", "over"} \cup D!Stages
    /\ wrote \in Seq(Written)
    /\ stage \in Ahead => ~hasTable
    /\ stage \in Ahead \cup {"build"} => Outputs = {} /\ built = "nothing"
    /\ D!BuiltWithItsTable
    /\ stage \in D!Stages =>
          /\ built = "checked" \/ (built = "parsed" /\ "--pretty-print" \in options)
          /\ Outputs = D!AskedFor \cap Earlier(stage)
    /\ IF stage = "over" THEN Ended ELSE code = D!Running
    /\ OfWhatWasBuilt

LEMMA TheStages == D!Stages = {"cpp", "ir", "asm", "source"}
BY DEF D!Stages, D!Forms

\* What a writer adds to what was written.
LEMMA OneMoreOutput ==
    ASSUME NEW S, NEW s \in Seq(S), NEW x \in S
    PROVE  /\ Append(s, x) \in Seq(S)
           /\ {Append(s, x)[i] : i \in DOMAIN Append(s, x)}
                 = {s[i] : i \in DOMAIN s} \cup {x}
<1>1. /\ Append(s, x) \in Seq(S)
      /\ Len(Append(s, x)) = Len(s) + 1
      /\ \A i \in 1 .. Len(s) : Append(s, x)[i] = s[i]
      /\ Append(s, x)[Len(s) + 1] = x
  BY AppendProperties
<1>2. /\ Len(s) \in Nat /\ DOMAIN s = 1 .. Len(s)
      /\ DOMAIN Append(s, x) = 1 .. Len(s) + 1
  BY <1>1, LenProperties
<1>. QED
  BY <1>1, <1>2

LEMMA InitBuild == D!Init => BuildState
<1>. SUFFICES ASSUME D!Init PROVE BuildState
  OBVIOUS
<1>1. /\ stage = "arguments" /\ hasTable = FALSE /\ built = "nothing"
      /\ code = D!Running
  BY DEF D!Init
<1>2. wrote = <<>>
  BY DEF D!Init
<1>3. wrote \in Seq(Written) /\ Outputs = {}
  BY <1>2, EmptySeq, LenProperties DEF Outputs, D!Said
<1>4. D!BuiltWithItsTable
  BY <1>1, TheStages DEF D!BuiltWithItsTable
<1>. QED
  BY <1>1, <1>3, <1>4, TheStages DEF BuildState, Ahead, OfWhatWasBuilt

LEMMA NextBuild == BuildState /\ [D!Next]_(D!vars) => BuildState'
<1>. SUFFICES ASSUME BuildState, [D!Next]_(D!vars) PROVE BuildState'
  OBVIOUS
<1>1. wrote' = wrote => Outputs' = Outputs
  BY DEF Outputs, D!Said, D!Stages
<1>2. options' = options => D!AskedFor' = D!AskedFor
  BY DEF D!AskedFor, D!Asked, D!Stages
<1>3. \A c : D!Exit(c) => stage' = "over" /\ code' = c
  BY DEF D!Exit
<1>14. ASSUME stage' \in Ahead \cup {"over"} PROVE D!BuiltWithItsTable'
  BY <1>14, TheStages DEF Ahead, D!BuiltWithItsTable
<1>15. ASSUME stage \in {"build"} \cup D!Stages, UNCHANGED <<package, roots, hasTable>>
       PROVE  D!BuiltWithItsTable'
  <2>1. D!BuiltWithItsTable
    BY DEF BuildState
  <2>. QED
    BY <1>15, <2>1 DEF D!BuiltWithItsTable
\* before anything is built
<1>4. ASSUME stage \in Ahead, UNCHANGED <<built, wrote>>,
             \/ stage' \in Ahead /\ code' = code /\ hasTable' = hasTable
             \/ stage' = "over" /\ (code' = 2 \/ (code' = 0 /\ D!RefusedManifest'))
      PROVE  BuildState'
  <2>1. Outputs' = {} /\ built' = "nothing" /\ wrote' \in Seq(Written)
    BY <1>1, <1>4 DEF BuildState
  <2>2. OfWhatWasBuilt'
    BY <2>1 DEF OfWhatWasBuilt
  <2>3. stage' = "over" => Ended'
    BY <1>4, <2>1, TheStages DEF Ended, Ahead
  <2>4. stage' # "over" => code' = D!Running /\ ~hasTable' /\ stage' \in Ahead
    BY <1>4, TheStages DEF BuildState, Ahead
  <2>5. D!BuiltWithItsTable'
    BY <1>4, <1>14
  <2>. QED
    BY <2>1, <2>2, <2>3, <2>4, <2>5, TheStages DEF BuildState, Ahead
<1>5. CASE D!ReadFlag \/ D!ReadValue \/ D!ReadPath
  BY <1>4, <1>5 DEF D!ReadFlag, D!ReadValue, D!ReadPath, D!Reading, Ahead
<1>6. CASE D!RefuseArgument
  <2>1. stage = "arguments" /\ UNCHANGED <<built, wrote>> /\ D!Exit(2)
    BY <1>6 DEF D!RefuseArgument, D!Reading
  <2>2. stage' = "over" /\ code' = 2
    BY <1>3, <2>1
  <2>3. stage \in Ahead /\ UNCHANGED <<built, wrote>>
    BY <2>1 DEF Ahead
  <2>. QED
    BY <1>4, <2>2, <2>3
<1>7. CASE D!EndOfArguments
  <2>1. stage = "arguments" /\ UNCHANGED <<options, hasTable, built>>
    BY <1>7 DEF D!EndOfArguments
  <2>2. CASE "--help" \notin options
    <3>1. /\ UNCHANGED wrote
          /\ \/ stage' = "manifest" /\ code' = code
             \/ D!Exit(2)
      BY <1>7, <2>2 DEF D!EndOfArguments
    <3>2. \/ stage' \in Ahead /\ code' = code /\ hasTable' = hasTable
          \/ stage' = "over" /\ code' = 2
      BY <1>3, <2>1, <3>1 DEF Ahead
    <3>3. stage \in Ahead /\ UNCHANGED <<built, wrote>>
      BY <2>1, <3>1 DEF Ahead
    <3>. QED
      BY <1>4, <3>2, <3>3
  <2>3. CASE "--help" \in options
    <3>1. wrote' = Append(wrote, "usage") /\ stage' = "over" /\ code' = 0
      BY <1>3, <1>7, <2>3 DEF D!EndOfArguments
    <3>2. wrote \in Seq(Written) /\ Outputs = {} /\ built = "nothing"
      BY <2>1 DEF BuildState, Ahead
    <3>3. wrote' \in Seq(Written) /\ D!Said' = D!Said \cup {"usage"}
      BY <3>1, <3>2, OneMoreOutput DEF Written, D!Said
    <3>4. Outputs' = {} /\ "usage" \in D!Said'
      BY <3>2, <3>3, TheStages DEF Outputs, D!Stages
    <3>5. Ended' /\ OfWhatWasBuilt'
      BY <2>1, <2>3, <3>1, <3>4 DEF Ended, OfWhatWasBuilt
    <3>6. D!BuiltWithItsTable'
      BY <1>14, <3>1
    <3>. QED
      BY <3>1, <3>3, <3>5, <3>6, TheStages DEF BuildState, Ahead
  <2>. QED
    BY <2>2, <2>3
<1>8. CASE D!LookAbove
  BY <1>4, <1>8 DEF D!LookAbove, Ahead
<1>9. CASE D!RefuseBoth
  <2>1. /\ stage = "table" /\ package # "" /\ UNCHANGED <<package, hasTable, built, wrote>>
        /\ stage' = "over" /\ code' = 0
    BY <1>3, <1>9 DEF D!RefuseBoth
  <2>2. D!RefusedManifest'
    BY <2>1 DEF BuildState, Ahead, D!RefusedManifest
  <2>. QED
    BY <1>4, <2>1, <2>2 DEF Ahead
<1>10. CASE D!FillFinder
  <2>1. stage = "table" /\ UNCHANGED <<package, roots, built, wrote>>
        /\ (package = "" \/ roots = "")
    BY <1>10 DEF D!FillFinder
  <2>2. ~hasTable /\ Outputs = {} /\ built = "nothing" /\ code = D!Running
        /\ wrote \in Seq(Written)
    BY <2>1, TheStages DEF BuildState, Ahead
  \* the table was read, or there is none
  <2>3. ASSUME stage' = "build", code' = code, D!BuiltWithItsTable'
        PROVE  BuildState'
    <3>1. Outputs' = {} /\ wrote' \in Seq(Written) /\ built' = "nothing"
      BY <1>1, <2>1, <2>2
    <3>2. OfWhatWasBuilt'
      BY <3>1 DEF OfWhatWasBuilt
    <3>. QED
      BY <2>2, <2>3, <3>1, <3>2, TheStages DEF BuildState, Ahead
  <2>4. CASE package # ""
    <3>1. D!ReadTable(package, 0)
      BY <1>10, <2>4 DEF D!FillFinder
    <3>2. CASE hasTable'
      <4>1. stage' = "build" /\ code' = code
        BY <3>1, <3>2 DEF D!ReadTable
      <4>2. D!BuiltWithItsTable'
        BY <2>1, <2>4, <3>2 DEF D!BuiltWithItsTable
      <4>. QED
        BY <2>3, <4>1, <4>2
    <3>3. CASE ~hasTable'
      <4>1. D!Exit(0)
        BY <3>1, <3>3 DEF D!ReadTable
      <4>2. D!RefusedManifest'
        BY <2>1, <2>4, <3>3 DEF D!RefusedManifest
      <4>. QED
        BY <1>3, <1>4, <2>1, <4>1, <4>2 DEF Ahead
    <3>. QED
      BY <3>2, <3>3
  <2>5. CASE package = "" /\ roots # ""
    <3>1. D!ReadTable(roots, 2)
      BY <1>10, <2>5 DEF D!FillFinder
    <3>2. CASE hasTable'
      <4>1. stage' = "build" /\ code' = code
        BY <3>1, <3>2 DEF D!ReadTable
      <4>2. D!BuiltWithItsTable'
        BY <2>1, <2>5, <3>2 DEF D!BuiltWithItsTable
      <4>. QED
        BY <2>3, <4>1, <4>2
    <3>3. CASE ~hasTable'
      <4>1. D!Exit(2)
        BY <3>1, <3>3 DEF D!ReadTable
      <4>2. stage' = "over" /\ code' = 2
        BY <1>3, <4>1
      <4>3. stage \in Ahead /\ UNCHANGED <<built, wrote>>
        BY <2>1 DEF Ahead
      <4>. QED
        BY <1>4, <4>2, <4>3
    <3>. QED
      BY <3>2, <3>3
  <2>6. CASE package = "" /\ roots = ""
    <3>1. stage' = "build" /\ UNCHANGED <<hasTable, code>>
      BY <1>10, <2>6 DEF D!FillFinder
    <3>2. D!BuiltWithItsTable'
      BY <2>1, <2>2, <2>6, <3>1 DEF D!BuiltWithItsTable
    <3>. QED
      BY <2>3, <3>1, <3>2
  <2>. QED
    BY <2>4, <2>5, <2>6
<1>11. CASE D!Build
  <2>1. PICK outcome \in D!Outcomes :
           wrote' = wrote \o D!Tokens(outcome) /\ D!AfterBuild(outcome)
    BY <1>11 DEF D!Build
  <2>2. stage = "build" /\ UNCHANGED <<options, package, roots, hasTable>>
    BY <1>11 DEF D!Build
  <2>3. /\ wrote \in Seq(Written) /\ Outputs = {} /\ built = "nothing"
        /\ code = D!Running
    BY <2>2, TheStages DEF BuildState, Ahead
  <2>4. wrote' \in Seq(Written) /\ Outputs' = {}
    <3>1. CASE D!Tokens(outcome) = <<>>
      BY <1>1, <2>1, <2>3, <3>1, ConcatEmptySeq
    <3>2. CASE D!Tokens(outcome) = <<"tokens">>
      <4>1. wrote' = Append(wrote, "tokens")
        BY <2>1, <2>3, <3>2, AppendIsConcat DEF Written
      <4>2. wrote' \in Seq(Written) /\ D!Said' = D!Said \cup {"tokens"}
        <5>1. wrote \in Seq(Written) /\ "tokens" \in Written
          BY <2>3 DEF Written
        <5>. QED
          BY <4>1, <5>1, OneMoreOutput DEF D!Said
      <4>. QED
        BY <2>3, <4>2, TheStages DEF Outputs, D!Stages
    <3>. QED
      BY <3>1, <3>2 DEF D!Tokens
  <2>5. \/ stage' = "over" /\ built' = built /\ code' \in {1, 2}
        \/ /\ stage' = "cpp" /\ code' = code
           /\ \/ built' = "checked"
              \/ built' = "parsed" /\ "--pretty-print" \in options
    BY <1>3, <2>1 DEF D!AfterBuild
  <2>6. OfWhatWasBuilt'
    BY <2>4 DEF OfWhatWasBuilt
  <2>7. CASE stage' = "over"
    <3>1. Ended'
      BY <2>3, <2>4, <2>5, <2>7 DEF Ended
    <3>. QED
      BY <1>14, <2>4, <2>6, <2>7, <3>1, TheStages DEF BuildState, Ahead
  <2>8. CASE stage' = "cpp"
    <3>1. Outputs' = D!AskedFor' \cap Earlier(stage')
      BY <2>4, <2>8 DEF Earlier
    <3>2. D!BuiltWithItsTable'
      BY <1>15, <2>2
    <3>3. options' = options
      BY <2>2
    <3>. QED
      BY <2>3, <2>4, <2>5, <2>6, <2>8, <3>1, <3>2, <3>3, TheStages DEF BuildState, Ahead
  <2>. QED
    BY <2>5, <2>7, <2>8
<1>12. CASE D!WriteForm
  <2>1. stage \in D!Stages /\ UNCHANGED <<options, package, roots, hasTable, built>>
    BY <1>12 DEF D!WriteForm
  <2>2. /\ wrote \in Seq(Written) /\ code = D!Running
        /\ built = "checked" \/ (built = "parsed" /\ "--pretty-print" \in options)
        /\ Outputs = D!AskedFor \cap Earlier(stage)
        /\ OfWhatWasBuilt
    BY <2>1, TheStages DEF BuildState
  <2>3. D!AskedFor' = D!AskedFor /\ D!BuiltWithItsTable'
    BY <1>2, <1>15, <2>1
  \* the form was written, or nobody asked for it
  <2>4. ASSUME D!GoOn(stage), wrote' \in Seq(Written),
               Outputs' = Outputs \cup ({stage} \cap D!AskedFor),
               OfWhatWasBuilt'
        PROVE  BuildState'
    <3>1. Outputs' = D!AskedFor \cap (Earlier(stage) \cup {stage})
      BY <2>2, <2>4
    <3>2. CASE stage = "source"
      <4>1. stage' = "over" /\ code' = 0
        BY <1>3, <2>4, <3>2 DEF D!GoOn
      <4>2. Earlier(stage) \cup {stage} = D!Stages
        BY <3>2, TheStages DEF Earlier
      <4>3. Outputs' = D!AskedFor'
        BY <2>3, <3>1, <4>2 DEF D!AskedFor
      <4>4. built' # "nothing"
        BY <2>1, <2>2
      <4>5. Ended'
        BY <4>1, <4>3, <4>4 DEF Ended
      <4>. QED
        BY <2>3, <2>4, <4>1, <4>5, TheStages DEF BuildState, Ahead
    <3>3. CASE stage # "source"
      <4>1. code' = code /\ \/ stage = "cpp" /\ stage' = "ir"
                            \/ stage = "ir" /\ stage' = "asm"
                            \/ stage = "asm" /\ stage' = "source"
        BY <2>4, <3>3 DEF D!GoOn, D!Forms
      <4>2. Earlier(stage') = Earlier(stage) \cup {stage}
        BY <4>1 DEF Earlier
      <4>3. Outputs' = D!AskedFor' \cap Earlier(stage')
        BY <2>3, <3>1, <4>2
      <4>. QED
        BY <2>1, <2>2, <2>3, <2>4, <4>1, <4>3, TheStages DEF BuildState, Ahead
    <3>. QED
      BY <3>2, <3>3
  <2>5. CASE ~D!Asked(stage)
    <3>1. stage \notin D!AskedFor /\ wrote' = wrote /\ D!GoOn(stage)
      BY <1>12, <2>5 DEF D!WriteForm, D!AskedFor
    <3>2. Outputs' = Outputs \cup ({stage} \cap D!AskedFor)
      BY <1>1, <3>1
    <3>3. OfWhatWasBuilt'
      BY <1>1, <2>1, <2>2, <3>1 DEF OfWhatWasBuilt
    <3>4. wrote' \in Seq(Written)
      BY <2>2, <3>1
    <3>. QED
      BY <2>4, <3>1, <3>2, <3>3, <3>4
  <2>6. CASE D!Asked(stage)
    <3>1. PICK writes \in D!MayWrite(stage) : D!Write(stage, writes)
      BY <1>12, <2>6 DEF D!WriteForm
    <3>2. CASE writes
      <4>1. wrote' = Append(wrote, stage) /\ D!GoOn(stage)
        BY <3>1, <3>2 DEF D!Write
      <4>2. stage \in Written
        BY <2>1, TheStages DEF Written
      <4>3. wrote' \in Seq(Written) /\ D!Said' = D!Said \cup {stage}
        <5>1. wrote \in Seq(Written)
          BY <2>2
        <5>. QED
          BY <4>1, <4>2, <5>1, OneMoreOutput DEF D!Said
      <4>4. Outputs' = Outputs \cup {stage}
        BY <2>1, <4>3, TheStages DEF Outputs, D!Stages
      <4>5. stage \in D!AskedFor
        BY <2>1, <2>6 DEF D!AskedFor
      <4>6. stage = "cpp" => built = "checked"
        BY <2>2, <3>1, <3>2 DEF D!MayWrite
      <4>7. OfWhatWasBuilt'
        BY <2>1, <2>2, <4>4, <4>6 DEF OfWhatWasBuilt
      <4>8. Outputs' = Outputs \cup ({stage} \cap D!AskedFor)
        BY <4>4, <4>5
      <4>. QED
        BY <2>4, <4>1, <4>3, <4>7, <4>8
    <3>3. CASE ~writes
      <4>1. wrote' = wrote /\ stage' = "over" /\ code' = 1
        BY <1>3, <3>1, <3>3 DEF D!Write
      <4>2. PICK form \in D!Stages : form = stage
        BY <2>1
      <4>3. Outputs' = D!AskedFor' \cap Earlier(form)
        BY <1>1, <2>2, <2>3, <4>1, <4>2
      <4>7. D!Asked(form)'
        BY <2>1, <2>6, <4>2 DEF D!Asked
      <4>8. form \in D!Stages'
        BY DEF D!Stages
      <4>4. Ended'
        BY <4>1, <4>3, <4>7, <4>8 DEF Ended
      <4>5. OfWhatWasBuilt'
        BY <1>1, <2>1, <2>2, <4>1 DEF OfWhatWasBuilt
      <4>6. wrote' \in Seq(Written)
        BY <2>2, <4>1
      <4>. QED
        BY <2>3, <4>1, <4>4, <4>5, <4>6, TheStages DEF BuildState, Ahead
    <3>. QED
      BY <3>2, <3>3
  <2>. QED
    BY <2>5, <2>6
<1>13. CASE UNCHANGED D!vars
  <2>1. /\ UNCHANGED <<stage, code, package, roots, hasTable, built, options, wrote>>
        /\ Outputs' = Outputs /\ D!AskedFor' = D!AskedFor /\ D!Said' = D!Said
    BY <1>1, <1>2, <1>13 DEF D!vars, D!Said
  <2>2. Ended => Ended'
    BY <2>1 DEF Ended, D!Asked, D!Stages, D!RefusedManifest
  <2>3. OfWhatWasBuilt'
    BY <2>1 DEF BuildState, OfWhatWasBuilt
  <2>4. D!BuiltWithItsTable'
    BY <2>1 DEF BuildState, D!BuiltWithItsTable
  <2>. QED
    BY <2>1, <2>2, <2>3, <2>4, TheStages DEF BuildState, Ahead
<1>. QED
  BY <1>5, <1>6, <1>7, <1>8, <1>9, <1>10, <1>11, <1>12, <1>13
     DEF D!Next, D!Done

\* The forms before one, by its place in their order.
LEMMA FormsBefore ==
    ASSUME NEW form \in D!Stages
    PROVE  \E n \in DOMAIN D!Forms : D!Forms[n] = form /\ Earlier(form) = D!Before(n)
<1>1. DOMAIN D!Forms = 1 .. 4 /\ D!Forms[1] = "cpp" /\ D!Forms[2] = "ir"
      /\ D!Forms[3] = "asm" /\ D!Forms[4] = "source"
  BY DEF D!Forms
<1>2. D!Before(1) = {} /\ D!Before(2) = {"cpp"}
  BY <1>1 DEF D!Before
<1>3. D!Before(3) = {"cpp", "ir"}
  BY <1>1 DEF D!Before
<1>4. D!Before(4) = {"cpp", "ir", "asm"}
  BY <1>1 DEF D!Before
<1>. QED
  BY <1>1, <1>2, <1>3, <1>4, TheStages DEF Earlier

LEMMA BuildMeant == BuildState => D!BuiltWithItsTable /\ D!ExitSaysWhatWasWritten
<1>. SUFFICES ASSUME BuildState
              PROVE  D!BuiltWithItsTable /\ D!ExitSaysWhatWasWritten
  OBVIOUS
<1>1. D!BuiltWithItsTable
  BY DEF BuildState
<1>2. code \in {0, 1, 2} => Ended
  BY DEF BuildState, D!Running
<1>3. Outputs = D!Said \cap D!Stages
  BY DEF Outputs
<1>4. code = 1 =>
         \/ built = "nothing" /\ Outputs = {}
         \/ \E n \in DOMAIN D!Forms :
               D!Asked(D!Forms[n]) /\ Outputs = D!AskedFor \cap D!Before(n)
  <2>. SUFFICES ASSUME code = 1, ~(built = "nothing" /\ Outputs = {})
                PROVE  \E n \in DOMAIN D!Forms :
                         D!Asked(D!Forms[n]) /\ Outputs = D!AskedFor \cap D!Before(n)
    OBVIOUS
  <2>1. PICK form \in D!Stages : D!Asked(form) /\ Outputs = D!AskedFor \cap Earlier(form)
    BY <1>2 DEF Ended
  <2>2. PICK n \in DOMAIN D!Forms : D!Forms[n] = form /\ Earlier(form) = D!Before(n)
    BY FormsBefore
  <2>. QED
    BY <2>1, <2>2
<1>5. /\ code = 0 =>
            \/ "--help" \in options /\ "usage" \in D!Said /\ Outputs = {}
            \/ built # "nothing" /\ Outputs = D!AskedFor
            \/ D!RefusedManifest /\ Outputs = {}
      /\ code = 2 => Outputs = {}
  BY <1>2 DEF Ended
<1>6. OfWhatWasBuilt
  BY DEF BuildState
<1>7. D!ExitSaysWhatWasWritten
  BY <1>3, <1>4, <1>5, <1>6 DEF OfWhatWasBuilt, D!ExitSaysWhatWasWritten
<1>. QED
  BY <1>1, <1>7

-----------------------------------------------------------------------------
(* How many of some lines are down to one.                                 *)

LEMMA TableCounts ==
    ASSUME NEW S
    PROVE  R!Cardinality(S) = Cardinality(S)
BY DEF R!Cardinality, Cardinality

\* A set of numbers that has one has a least one.
LEMMA LeastOf ==
    ASSUME NEW T \in SUBSET Nat, T # {}
    PROVE  \E x \in T : \A y \in T : x <= y
<1>. DEFINE below == {ss \in Nat \X Nat : ss[1] < ss[2]}
<1>1. IsWellFoundedOn(below, Nat)
  BY NatLessThanWellFounded DEF OpToRel
<1>2. \A x, y \in Nat : <<y, x>> \in below <=> y < x
  OBVIOUS
<1>. HIDE DEF below
<1>3. PICK x \in T : \A y \in T : ~ (<<y, x>> \in below)
  BY <1>1, WFMin
<1>4. ASSUME NEW y \in T PROVE x <= y
  <2>1. x \in Nat /\ y \in Nat
    OBVIOUS
  <2>2. <<y, x>> \in below <=> y < x
    BY <1>2, <2>1
  <2>3. ~ (y < x)
    BY <1>3, <2>2
  <2>. QED
    BY <2>1, <2>3
<1>. QED
  BY <1>4

LineNumbers == SUBSET (Nat \ {0})

LEMMA LineNumber ==
    ASSUME NEW S \in LineNumbers, NEW i \in S
    PROVE  i \in Nat /\ i > 0
BY DEF LineNumbers

LEMMA RankType ==
    ASSUME NEW S \in LineNumbers, NEW i \in Nat
    PROVE  /\ IsFiniteSet({j \in S : j <= i})
           /\ R!RankIn(S, i) = Cardinality({j \in S : j <= i})
           /\ R!RankIn(S, i) \in Nat
<1>1. IsFiniteSet(1 .. i)
  BY FS_Interval
<1>2. {j \in S : j <= i} \in SUBSET (1 .. i)
  BY LineNumber
<1>3. IsFiniteSet({j \in S : j <= i})
  BY <1>1, <1>2, FS_Subset
<1>. QED
  BY <1>3, FS_CardinalityType, TableCounts DEF R!RankIn

\* No line is down to none.
LEMMA RankZero ==
    ASSUME NEW S \in LineNumbers
    PROVE  R!RankIn(S, 0) = 0
<1>1. {j \in S : j <= 0} = {}
  BY LineNumber
<1>. QED
  BY <1>1, FS_EmptySet, TableCounts DEF R!RankIn

\* A line further is one more if it is one of them.
LEMMA RankNext ==
    ASSUME NEW S \in LineNumbers, NEW i \in Nat
    PROVE  R!RankIn(S, i + 1) = R!RankIn(S, i) + IF i + 1 \in S THEN 1 ELSE 0
<1>1. CASE i + 1 \in S
  <2>1. {j \in S : j <= i + 1} = {j \in S : j <= i} \cup {i + 1}
    BY <1>1, LineNumber
  <2>2. i + 1 \notin {j \in S : j <= i}
    OBVIOUS
  <2>3. Cardinality({j \in S : j <= i} \cup {i + 1})
            = Cardinality({j \in S : j <= i}) + 1
    BY <2>2, RankType, FS_AddElement
  <2>4. R!RankIn(S, i + 1) = Cardinality({j \in S : j <= i} \cup {i + 1})
    BY <2>1, TableCounts DEF R!RankIn
  <2>5. R!RankIn(S, i) = Cardinality({j \in S : j <= i}) /\ R!RankIn(S, i) \in Nat
    BY RankType
  <2>. QED
    BY <1>1, <2>3, <2>4, <2>5
<1>2. CASE i + 1 \notin S
  <2>1. {j \in S : j <= i + 1} = {j \in S : j <= i}
    BY <1>2, LineNumber
  <2>2. R!RankIn(S, i + 1) = R!RankIn(S, i)
    BY <2>1 DEF R!RankIn
  <2>3. R!RankIn(S, i) \in Nat
    BY RankType
  <2>. QED
    BY <1>2, <2>2, <2>3
<1>. QED
  BY <1>1, <1>2

LEMMA RankSame ==
    ASSUME NEW S \in LineNumbers, NEW i \in Nat, i + 1 \notin S
    PROVE  R!RankIn(S, i + 1) = R!RankIn(S, i)
<1>1. R!RankIn(S, i + 1) = R!RankIn(S, i) + 0
  BY RankNext
<1>2. R!RankIn(S, i) \in Nat
  BY RankType
<1>. QED
  BY <1>1, <1>2

\* Further down there are no fewer, and more at each of them.
LEMMA RankGrows ==
    ASSUME NEW S \in LineNumbers, NEW i \in Nat, NEW k \in Nat, i <= k
    PROVE  /\ R!RankIn(S, i) <= R!RankIn(S, k)
           /\ k \in S /\ i < k => R!RankIn(S, i) < R!RankIn(S, k)
<1>. DEFINE A == {j \in S : j <= i}
            B == {j \in S : j <= k}
<1>1. IsFiniteSet(B)
  BY RankType
<1>2. A \in SUBSET B
  BY LineNumber
<1>3. /\ Cardinality(A) <= Cardinality(B)
      /\ Cardinality(A) = Cardinality(B) => A = B
  BY <1>1, <1>2, FS_Subset
<1>4. k \in S /\ i < k => A # B
  OBVIOUS
<1>5. /\ R!RankIn(S, i) = Cardinality(A) /\ R!RankIn(S, k) = Cardinality(B)
      /\ R!RankIn(S, i) \in Nat /\ R!RankIn(S, k) \in Nat
  BY RankType
<1>. QED
  BY <1>3, <1>4, <1>5

\* A line is the one its number says, and no other.
LEMMA RankInjective ==
    ASSUME NEW S \in LineNumbers, NEW i \in S, NEW k \in S,
           R!RankIn(S, i) = R!RankIn(S, k)
    PROVE  i = k
<1>1. i \in Nat /\ k \in Nat
  BY DEF LineNumbers
<1>2. R!RankIn(S, i) \in Nat /\ R!RankIn(S, k) \in Nat
  BY <1>1, RankType
<1>3. ~ (i < k)
  BY <1>1, <1>2, RankGrows
<1>4. ~ (k < i)
  BY <1>1, <1>2, RankGrows
<1>. QED
  BY <1>1, <1>3, <1>4

LEMMA NthOfRank ==
    ASSUME NEW S \in LineNumbers, NEW i \in S
    PROVE  R!Nth(S, R!RankIn(S, i)) = i
<1>. DEFINE n == R!RankIn(S, i)
            nth == CHOOSE j \in S : R!RankIn(S, j) = n
<1>1. nth \in S /\ R!RankIn(S, nth) = n
  OBVIOUS
<1>2. R!Nth(S, n) = nth
  BY DEF R!Nth
<1>. HIDE DEF nth
<1>. QED
  BY <1>1, <1>2, RankInjective

\* There is a line for every number up to how many there are.
LEMMA NthIsThere ==
    ASSUME NEW S \in LineNumbers, NEW k \in Nat, NEW n \in 1 .. R!RankIn(S, k)
    PROVE  \E i \in S : i <= k /\ R!RankIn(S, i) = n /\ R!Nth(S, n) = i
<1>. DEFINE T == {j \in Nat : n <= R!RankIn(S, j)}
<1>1. k \in T /\ T \in SUBSET Nat
  BY RankType
<1>2. PICK i \in T : \A j \in T : i <= j
  BY <1>1, LeastOf
<1>3. i \in Nat /\ n <= R!RankIn(S, i) /\ R!RankIn(S, i) \in Nat
  BY <1>2, RankType
<1>4. i # 0
  BY <1>3, RankZero, RankType
<1>5. i - 1 \in Nat /\ R!RankIn(S, i - 1) \in Nat /\ (i - 1) + 1 = i
  <2>1. i - 1 \in Nat /\ (i - 1) + 1 = i
    BY <1>3, <1>4
  <2>. QED
    BY <2>1, RankType
<1>6. R!RankIn(S, i - 1) < n
  BY <1>2, <1>3, <1>5
<1>7. R!RankIn(S, (i - 1) + 1)
        = R!RankIn(S, i - 1) + IF (i - 1) + 1 \in S THEN 1 ELSE 0
  BY <1>5, RankNext
<1>8. i \in S /\ R!RankIn(S, i) = n
  BY <1>3, <1>5, <1>6, <1>7
<1>9. R!Nth(S, n) = i
  BY <1>8, NthOfRank
<1>. QED
  BY <1>1, <1>2, <1>8, <1>9

\* Down to the last line there are all.
LEMMA RankOfAll ==
    ASSUME NEW k \in Nat, NEW S \in SUBSET (1 .. k)
    PROVE  R!RankIn(S, k) = R!Cardinality(S)
<1>1. \A j \in S : j <= k
  OBVIOUS
<1>2. {j \in S : j <= k} = S
  BY <1>1
<1>. QED
  BY <1>2 DEF R!RankIn

-----------------------------------------------------------------------------
(* The lines of a table and the blocks they are.                           *)

Tables == Seq(Lines)

\* A line is what the reader knows how to read.
LEMMA LineType ==
    ASSUME NEW tab \in Tables, NEW i \in DOMAIN tab
    PROVE  /\ i \in 1 .. Len(tab)
           /\ tab[i].kind \in {"root", "prelude", "dependency", "import",
                               "broken"}
           /\ tab[i].name \in Seq(STRING) /\ tab[i].name # <<>>
           /\ Head(tab[i].name) \in STRING /\ tab[i].path \in Seq(STRING)
           /\ tab[i].kind \in {"root", "dependency"} => tab[i].path # <<>>
<1>1. i \in 1 .. Len(tab)
  BY LenProperties DEF Tables
<1>2. tab[i] \in Lines
  BY <1>1, ElementOfSeq DEF Tables
<1>3. /\ tab[i] \in [kind : {"root", "prelude", "dependency", "import", "broken"},
                     name : Seq(STRING), path : Seq(STRING)]
      /\ tab[i].name # <<>>
      /\ tab[i].kind \in {"root", "dependency"} => tab[i].path # <<>>
  BY <1>2, TableAssumption DEF R!LinesAssumption, R!NoPath
<1>4. /\ tab[i].kind \in {"root", "prelude", "dependency", "import", "broken"}
      /\ tab[i].name \in Seq(STRING) /\ tab[i].path \in Seq(STRING)
  BY <1>3
<1>5. Head(tab[i].name) \in STRING
  BY <1>3, <1>4, HeadTailProperties
<1>. QED
  BY <1>1, <1>3, <1>4, <1>5

LEMMA LinesType ==
    ASSUME NEW tab \in Tables, NEW kinds, NEW b
    PROVE  /\ Len(tab) \in Nat /\ DOMAIN tab = 1 .. Len(tab)
           /\ R!LinesOf(tab, kinds) \in SUBSET (1 .. Len(tab))
           /\ R!LinesOf(tab, kinds) \in LineNumbers
           /\ R!Headers(tab) \in SUBSET (1 .. Len(tab))
           /\ R!Headers(tab) \in LineNumbers
           /\ R!DependenciesOf(tab, b) \in SUBSET (1 .. Len(tab))
           /\ R!DependenciesOf(tab, b) \in LineNumbers
<1>1. Len(tab) \in Nat /\ DOMAIN tab = 1 .. Len(tab)
  BY LenProperties DEF Tables
<1>2. \A some : R!LinesOf(tab, some) \in SUBSET (1 .. Len(tab))
  BY <1>1 DEF R!LinesOf
<1>3. R!DependenciesOf(tab, b) \in SUBSET (1 .. Len(tab))
  BY <1>2 DEF R!DependenciesOf
<1>4. SUBSET (1 .. Len(tab)) \subseteq LineNumbers
  BY <1>1 DEF LineNumbers
<1>. QED
  BY <1>1, <1>2, <1>3, <1>4 DEF R!Headers

\* A line further is a block further where it is a header.
LEMMA BlockNext ==
    ASSUME NEW tab \in Tables, NEW k \in Nat
    PROVE  /\ R!BlockOf(tab, k) \in Nat
           /\ R!BlockOf(tab, k + 1)
                = R!BlockOf(tab, k) + IF k + 1 \in R!Headers(tab) THEN 1 ELSE 0
BY LinesType, RankType, RankNext DEF R!BlockOf

\* The block of a header is a block, and it says what the header says.
LEMMA HeaderSays ==
    ASSUME NEW tab \in Tables, NEW h \in R!Headers(tab)
    PROVE  LET b == R!BlockOf(tab, h)
               blocks == R!BlocksOf(tab)
           IN  /\ b \in DOMAIN blocks /\ R!Nth(R!Headers(tab), b) = h
               /\ blocks[b].name = IF tab[h].kind = "root"
                                   THEN Head(tab[h].name) ELSE "prelude"
               /\ blocks[b].path = IF tab[h].kind = "root"
                                   THEN tab[h].path ELSE <<>>
<1>. DEFINE H == R!Headers(tab)
            b == R!BlockOf(tab, h)
            blocks == R!BlocksOf(tab)
<1>1. H \in LineNumbers /\ H \in SUBSET (1 .. Len(tab)) /\ Len(tab) \in Nat
  BY LinesType
<1>2. h \in Nat /\ h <= Len(tab) /\ h > 0
  BY <1>1
<1>3. R!RankIn(H, Len(tab)) = R!Cardinality(H)
  BY <1>1, RankOfAll
<1>4. b \in Nat /\ b <= R!Cardinality(H) /\ R!Cardinality(H) \in Nat
  BY <1>1, <1>2, <1>3, RankType, RankGrows DEF R!BlockOf
<1>5. b > 0
  <2>1. R!RankIn(H, 0) = 0 /\ R!RankIn(H, 0) < R!RankIn(H, h)
    BY <1>1, <1>2, RankZero, RankGrows
  <2>. QED
    BY <1>4, <2>1 DEF R!BlockOf
<1>6. R!Nth(H, b) = h
  BY <1>1, NthOfRank DEF R!BlockOf
<1>7. b \in 1 .. R!Cardinality(H)
  BY <1>4, <1>5
<1>. HIDE DEF b, H
<1>8. /\ DOMAIN blocks = 1 .. R!Cardinality(H)
      /\ blocks[b].name = IF tab[h].kind = "root"
                          THEN Head(tab[h].name) ELSE "prelude"
      /\ blocks[b].path = IF tab[h].kind = "root"
                          THEN tab[h].path ELSE <<>>
  BY <1>6, <1>7 DEF R!BlocksOf, R!NoPath, H
<1>. QED
  BY <1>6, <1>7, <1>8 DEF b, H

\* The blocks are those of the headers.
LEMMA BlocksType ==
    ASSUME NEW tab \in Tables
    PROVE  /\ R!Cardinality(R!Headers(tab)) \in Nat
           /\ DOMAIN R!BlocksOf(tab) = 1 .. R!Cardinality(R!Headers(tab))
           /\ R!BlockOf(tab, Len(tab)) = R!Cardinality(R!Headers(tab))
           /\ R!BlockOf(tab, 0) = 0
           /\ \A b \in DOMAIN R!BlocksOf(tab) :
                 /\ DOMAIN R!BlocksOf(tab)[b].needs
                      = 1 .. R!Cardinality(R!DependenciesOf(tab, b))
                 /\ R!Cardinality(R!DependenciesOf(tab, b)) \in Nat
                 /\ R!RankIn(R!DependenciesOf(tab, b), Len(tab))
                      = R!Cardinality(R!DependenciesOf(tab, b))
<1>1. Len(tab) \in Nat
  BY LinesType
<1>2. R!BlockOf(tab, Len(tab)) = R!Cardinality(R!Headers(tab))
  BY <1>1, LinesType, RankOfAll DEF R!BlockOf
<1>3. R!BlockOf(tab, 0) = 0
  BY LinesType, RankZero DEF R!BlockOf
<1>4. R!Cardinality(R!Headers(tab)) \in Nat
  BY <1>1, <1>2, BlockNext
<1>5. DOMAIN R!BlocksOf(tab) = 1 .. R!Cardinality(R!Headers(tab))
  BY DEF R!BlocksOf
<1>6. ASSUME NEW b \in DOMAIN R!BlocksOf(tab)
      PROVE  /\ DOMAIN R!BlocksOf(tab)[b].needs
                  = 1 .. R!Cardinality(R!DependenciesOf(tab, b))
             /\ R!Cardinality(R!DependenciesOf(tab, b)) \in Nat
             /\ R!RankIn(R!DependenciesOf(tab, b), Len(tab))
                  = R!Cardinality(R!DependenciesOf(tab, b))
  <2>1. R!RankIn(R!DependenciesOf(tab, b), Len(tab))
            = R!Cardinality(R!DependenciesOf(tab, b))
    BY <1>1, LinesType, RankOfAll
  <2>2. R!Cardinality(R!DependenciesOf(tab, b)) \in Nat
    BY <1>1, <2>1, LinesType, RankType
  <2>3. DOMAIN R!BlocksOf(tab)[b].needs
            = 1 .. R!Cardinality(R!DependenciesOf(tab, b))
    BY <1>5 DEF R!BlocksOf
  <2>. QED
    BY <2>1, <2>2, <2>3
<1>. QED
  BY <1>2, <1>3, <1>4, <1>5, <1>6

\* A dependency is among what its block asks for, at its place.
LEMMA DependencySays ==
    ASSUME NEW tab \in Tables, NEW b \in DOMAIN R!BlocksOf(tab),
           NEW i \in R!DependenciesOf(tab, b)
    PROVE  LET n == R!RankIn(R!DependenciesOf(tab, b), i)
               needs == R!BlocksOf(tab)[b].needs
           IN  /\ n \in DOMAIN needs
               /\ needs[n] = [name |-> Head(tab[i].name), path |-> tab[i].path]
<1>. DEFINE deps == R!DependenciesOf(tab, b)
            n == R!RankIn(deps, i)
<1>1. deps \in LineNumbers /\ deps \in SUBSET (1 .. Len(tab)) /\ Len(tab) \in Nat
  BY LinesType
<1>2. i \in Nat /\ i <= Len(tab) /\ i > 0 /\ i \in deps
  BY <1>1
<1>. HIDE DEF deps
<1>3. R!RankIn(deps, Len(tab)) = R!Cardinality(deps)
  BY <1>1, RankOfAll
<1>4. n \in Nat /\ n <= R!Cardinality(deps)
  BY <1>1, <1>2, <1>3, RankType, RankGrows
<1>5. n > 0
  <2>1. R!RankIn(deps, 0) = 0 /\ R!RankIn(deps, 0) < R!RankIn(deps, i)
    BY <1>1, <1>2, RankZero, RankGrows
  <2>. QED
    BY <1>4, <2>1
<1>6. R!Nth(deps, n) = i
  BY <1>1, <1>2, NthOfRank
<1>7. n \in DOMAIN R!BlocksOf(tab)[b].needs
  BY <1>4, <1>5, BlocksType DEF deps
<1>. HIDE DEF n
<1>8. R!BlocksOf(tab)[b].needs[n]
        = [name |-> Head(tab[i].name), path |-> tab[i].path]
  BY <1>6, <1>7, BlocksType DEF R!BlocksOf, deps
<1>. QED
  BY <1>7, <1>8 DEF n, deps

-----------------------------------------------------------------------------
(* What the lines read so far have come to, down to line k.                *)

\* The lines are where they belong, and no two blocks have one directory.
PlacedTo(tab, k) ==
    /\ \A i \in R!LinesOf(tab, {"broken"}) : i > k
    /\ \A i \in R!LinesOf(tab, {"dependency", "import"}) :
          i <= k => R!BlockOf(tab, i) > 0
    /\ \A i \in R!LinesOf(tab, {"import"}) :
          i <= k =>
             tab[R!Nth(R!Headers(tab), R!BlockOf(tab, i))].kind = "prelude"
    /\ \A i, j \in R!LinesOf(tab, {"prelude"}) : i <= k /\ j <= k => i = j

PathsDiffer(tab, k) ==
    LET blocks == R!BlocksOf(tab)
    IN \A b, c \in 1 .. R!BlockOf(tab, k) :
          blocks[b].path = blocks[c].path /\ blocks[b].path # <<>> => b = c

\* The prelude's block is known once its header was read.
PreludeTo(tab, k, known) ==
    \/ known = 0 /\ \A h \in R!LinesOf(tab, {"prelude"}) : h > k
    \/ \E h \in R!LinesOf(tab, {"prelude"}) :
          h <= k /\ known = R!BlockOf(tab, h)

\* What a block sees when so many of its dependencies were resolved.
SeenOf(tab, b, m) ==
    LET blocks == R!BlocksOf(tab)
    IN R!OwnName(blocks, b) \o
          [n \in 1 .. m |-> R!Sees(blocks[b].needs[n].name,
                                   R!BlockAt(blocks, blocks[b].needs[n].path))]
RootSaid(tab, b, m) ==
    [name |-> R!BlocksOf(tab)[b].name, path |-> R!BlocksOf(tab)[b].path,
     sees |-> SeenOf(tab, b, m)]

\* The roots are the blocks, each seeing itself.
RootsTo(tab, k, rs) ==
    /\ \E S : rs \in Seq(S)
    /\ Len(rs) = R!BlockOf(tab, k)
    /\ \A b \in 1 .. R!BlockOf(tab, k) : rs[b] = RootSaid(tab, b, 0)

\* The pending dependencies are what the blocks ask for, in order.
OfBlock(list, b) == {p \in DOMAIN list : list[p].block = b}
PendingTo(tab, k, list) ==
    /\ list \in Seq([block : Nat, name : STRING, path : Seq(STRING)])
    /\ \A b \in 1 .. R!BlockOf(tab, Len(tab)) :
          R!RankIn(OfBlock(list, b), Len(list))
             = R!RankIn(R!DependenciesOf(tab, b), k)
    /\ \A p \in DOMAIN list :
          LET b == list[p].block
              n == R!RankIn(OfBlock(list, b), p)
              needs == R!BlocksOf(tab)[b].needs
          IN  /\ b \in 1 .. R!BlockOf(tab, k)
              /\ n \in DOMAIN needs
              /\ needs[n] = [name |-> list[p].name, path |-> list[p].path]
              /\ list[p].path # <<>>

\* The imports are those of the import lines, in order.
ImportsTo(tab, k, list) ==
    LET lines == R!LinesOf(tab, {"import"})
    IN /\ list \in Seq(Seq(STRING))
       /\ Len(list) = R!RankIn(lines, k)
       /\ \A i \in lines : i <= k =>
             list[R!RankIn(lines, i)] = tab[i].name

ReadTo(tab, k, known, list, names) ==
    /\ PlacedTo(tab, k) /\ PathsDiffer(tab, k) /\ PreludeTo(tab, k, known)
    /\ PendingTo(tab, k, list) /\ ImportsTo(tab, k, names)

\* At the top of the table there is nothing.
LEMMA ReadToTop ==
    ASSUME NEW tab \in Tables
    PROVE  ReadTo(tab, 0, 0, <<>>, <<>>) /\ RootsTo(tab, 0, <<>>)
<1>1. /\ \A kinds : R!LinesOf(tab, kinds) \in LineNumbers
      /\ R!Headers(tab) \in LineNumbers
      /\ \A b : R!DependenciesOf(tab, b) \in LineNumbers
  BY LinesType
<1>2. \A kinds : \A i \in R!LinesOf(tab, kinds) : i > 0 /\ ~ (i <= 0)
  BY <1>1, LineNumber
<1>3. R!BlockOf(tab, 0) = 0
  BY BlocksType
<1>4. PlacedTo(tab, 0)
  BY <1>2 DEF PlacedTo
<1>5. PathsDiffer(tab, 0)
  BY <1>3 DEF PathsDiffer
<1>6. PreludeTo(tab, 0, 0)
  BY <1>2 DEF PreludeTo
<1>7. ImportsTo(tab, 0, <<>>)
  <2>1. R!RankIn(R!LinesOf(tab, {"import"}), 0) = 0
    BY <1>1, RankZero
  <2>2. <<>> \in Seq(Seq(STRING)) /\ Len(<<>>) = 0
    BY EmptySeq
  <2>. QED
    BY <1>2, <2>1, <2>2 DEF ImportsTo
<1>8. PendingTo(tab, 0, <<>>)
  <2>. DEFINE rec == [block : Nat, name : STRING, path : Seq(STRING)]
  <2>1. PICK empty \in Seq(rec) : empty = <<>> /\ Len(empty) = 0
    BY EmptySeq
  <2>2. DOMAIN empty = {}
    BY <2>1, LenProperties
  <2>3. ASSUME NEW b
        PROVE  R!RankIn(OfBlock(empty, b), Len(empty))
                  = R!RankIn(R!DependenciesOf(tab, b), 0)
    <3>1. OfBlock(empty, b) \in LineNumbers
      BY <2>2 DEF OfBlock, LineNumbers
    <3>. QED
      BY <1>1, <2>1, <3>1, RankZero
  <2>4. PendingTo(tab, 0, empty)
    BY <2>2, <2>3 DEF PendingTo
  <2>. QED
    BY <2>1, <2>4
<1>9. RootsTo(tab, 0, <<>>)
  BY <1>3, EmptySeq DEF RootsTo
<1>. QED
  BY <1>4, <1>5, <1>6, <1>7, <1>8, <1>9 DEF ReadTo

\* A line that is no header leaves the blocks as they were.
LEMMA SameBlock ==
    ASSUME NEW tab \in Tables, NEW k \in Nat, k + 1 \in DOMAIN tab,
           tab[k + 1].kind \notin {"root", "prelude"}, NEW known, NEW rs,
           PathsDiffer(tab, k), PreludeTo(tab, k, known), RootsTo(tab, k, rs)
    PROVE  /\ R!BlockOf(tab, k + 1) = R!BlockOf(tab, k)
           /\ PathsDiffer(tab, k + 1) /\ PreludeTo(tab, k + 1, known)
           /\ RootsTo(tab, k + 1, rs)
<1>1. k + 1 \notin R!Headers(tab) /\ k + 1 \notin R!LinesOf(tab, {"prelude"})
  BY DEF R!Headers, R!LinesOf
<1>2. R!BlockOf(tab, k + 1) = R!BlockOf(tab, k)
  BY <1>1, BlockNext
<1>3. \A i \in R!LinesOf(tab, {"prelude"}) : i \in Nat /\ i # k + 1
  BY <1>1, LinesType, LineNumber
<1>4. PreludeTo(tab, k + 1, known)
  <2>1. CASE known = 0 /\ \A h \in R!LinesOf(tab, {"prelude"}) : h > k
    BY <1>3, <2>1 DEF PreludeTo
  <2>2. CASE \E h \in R!LinesOf(tab, {"prelude"}) :
                h <= k /\ known = R!BlockOf(tab, h)
    BY <1>3, <2>2 DEF PreludeTo
  <2>. QED
    BY <2>1, <2>2 DEF PreludeTo
<1>. QED
  BY <1>2, <1>4 DEF PathsDiffer, RootsTo

\* A line that asks for nothing leaves what was asked for, and one that lists
\* no import the list of them.
LEMMA SamePending ==
    ASSUME NEW tab \in Tables, NEW k \in Nat, k + 1 \in DOMAIN tab,
           tab[k + 1].kind # "dependency", NEW list, PendingTo(tab, k, list)
    PROVE  PendingTo(tab, k + 1, list)
<1>1. \A b : k + 1 \notin R!DependenciesOf(tab, b)
  BY DEF R!DependenciesOf, R!LinesOf
<1>2. ASSUME NEW b
      PROVE  R!RankIn(R!DependenciesOf(tab, b), k + 1)
                = R!RankIn(R!DependenciesOf(tab, b), k)
  BY <1>1, LinesType, RankSame
<1>3. /\ R!BlockOf(tab, k) \in Nat /\ R!BlockOf(tab, k + 1) \in Nat
      /\ R!BlockOf(tab, k) <= R!BlockOf(tab, k + 1)
  BY BlockNext
<1>4. 1 .. R!BlockOf(tab, k) \subseteq 1 .. R!BlockOf(tab, k + 1)
  BY <1>3
<1>. QED
  BY <1>2, <1>4 DEF PendingTo

LEMMA SameImports ==
    ASSUME NEW tab \in Tables, NEW k \in Nat, k + 1 \in DOMAIN tab,
           tab[k + 1].kind # "import", NEW list, ImportsTo(tab, k, list)
    PROVE  ImportsTo(tab, k + 1, list)
<1>1. k + 1 \notin R!LinesOf(tab, {"import"})
  BY DEF R!LinesOf
<1>2. R!RankIn(R!LinesOf(tab, {"import"}), k + 1)
        = R!RankIn(R!LinesOf(tab, {"import"}), k)
  BY <1>1, LinesType, RankSame
<1>3. \A i \in R!LinesOf(tab, {"import"}) : i <= k + 1 => i <= k
  BY <1>1, LinesType, LineNumber
<1>. QED
  BY <1>2, <1>3 DEF ImportsTo

\* A sequence of one element.
LEMMA OneElement ==
    ASSUME NEW S, NEW x \in S
    PROVE  <<x>> \in Seq(S) /\ Len(<<x>>) = 1 /\ <<x>>[1] = x
<1>1. <<x>> \in Seq(S)
  OBVIOUS
<1>2. Len(<<x>>) = 1
  OBVIOUS
<1>3. <<x>>[1] = x
  OBVIOUS
<1>. QED
  BY <1>1, <1>2, <1>3

LEMMA OwnNameType ==
    ASSUME NEW blocks, NEW b
    PROVE  LET own == R!OwnName(blocks, b)
               itself == R!Sees(blocks[b].name, b)
           IN  /\ own \in Seq({itself})
               /\ blocks[b].path = <<>> => own = <<>> /\ Len(own) = 0
               /\ blocks[b].path # <<>> =>
                     own = <<itself>> /\ Len(own) = 1 /\ own[1] = itself
<1>. DEFINE itself == R!Sees(blocks[b].name, b)
<1>1. /\ <<itself>> \in Seq({itself}) /\ Len(<<itself>>) = 1
      /\ <<itself>>[1] = itself
  BY OneElement
<1>2. <<>> \in Seq({itself}) /\ Len(<<>>) = 0
  BY EmptySeq
<1>. HIDE DEF itself
<1>3. R!OwnName(blocks, b) = IF blocks[b].path = <<>> THEN <<>> ELSE <<itself>>
  BY DEF R!OwnName, R!NoPath, itself
<1>4. CASE blocks[b].path = <<>>
  BY <1>2, <1>3, <1>4 DEF itself
<1>5. CASE blocks[b].path # <<>>
  BY <1>1, <1>3, <1>5 DEF itself
<1>. QED
  BY <1>4, <1>5

\* Before any dependency a block sees itself, or nothing.
LEMMA SeenFirst ==
    ASSUME NEW tab, NEW b
    PROVE  SeenOf(tab, b, 0) = R!OwnName(R!BlocksOf(tab), b)
<1>. DEFINE blocks == R!BlocksOf(tab)
            own == R!OwnName(blocks, b)
            none == [n \in 1 .. 0 |->
                        R!Sees(blocks[b].needs[n].name,
                               R!BlockAt(blocks, blocks[b].needs[n].path))]
<1>1. none = <<>>
  <2>1. none \in Seq({0})
    BY SeqDef
  <2>2. Len(none) = 0
    BY <2>1, LenProperties
  <2>. HIDE DEF none
  <2>. QED
    BY <2>1, <2>2, EmptySeq
<1>2. PICK S : own \in Seq(S)
  BY OwnNameType
<1>3. SeenOf(tab, b, 0) = own \o none
  BY DEF SeenOf
<1>. HIDE DEF own, none
<1>4. own \o <<>> = own
  BY <1>2, ConcatEmptySeq
<1>. QED
  BY <1>1, <1>3, <1>4 DEF own

\* The block with a directory is one that has it, when there is one.
LEMMA BlockFound ==
    ASSUME NEW path_, \E S : roots \in Seq(S)
    PROVE  /\ R!BlockWithPath(path_) = 0 =>
                 \A b \in 1 .. Len(roots) : roots[b].path # path_
           /\ R!BlockWithPath(path_) # 0 =>
                 /\ R!BlockWithPath(path_) \in 1 .. Len(roots)
                 /\ roots[R!BlockWithPath(path_)].path = path_
<1>. DEFINE found == {i \in DOMAIN roots : roots[i].path = path_}
            first == CHOOSE i \in found : \A j \in found : i <= j
<1>1. DOMAIN roots = 1 .. Len(roots) /\ Len(roots) \in Nat
  BY LenProperties
<1>2. R!BlockWithPath(path_) = IF found = {} THEN 0 ELSE first
  BY DEF R!BlockWithPath, R!INVALID_ROOT
<1>3. CASE found = {}
  BY <1>1, <1>2, <1>3
<1>4. CASE found # {}
  <2>1. found \in SUBSET Nat
    BY <1>1
  <2>2. \E i \in found : \A j \in found : i <= j
    BY <1>4, <2>1, LeastOf
  <2>3. first \in found
    BY <2>2
  <2>4. \A i \in found : i \in 1 .. Len(roots) /\ roots[i].path = path_
    BY <1>1
  <2>. HIDE DEF first, found
  <2>5. R!BlockWithPath(path_) = first
    BY <1>2, <1>4
  <2>6. first \in 1 .. Len(roots) /\ roots[first].path = path_
    BY <2>3, <2>4
  <2>7. first # 0
    BY <1>1, <2>6
  <2>. QED
    BY <2>5, <2>6, <2>7
<1>. QED
  BY <1>3, <1>4

\* A header opens the next block.
LEMMA HeaderRead ==
    ASSUME NEW tab \in Tables, NEW k \in Nat, k + 1 \in DOMAIN tab,
           tab[k + 1].kind \in {"root", "prelude"},
           NEW rs, RootsTo(tab, k, rs), NEW opened,
           opened = [name |-> IF tab[k + 1].kind = "root"
                              THEN Head(tab[k + 1].name) ELSE "prelude",
                     path |-> IF tab[k + 1].kind = "root"
                              THEN tab[k + 1].path ELSE <<>>,
                     sees |-> IF tab[k + 1].kind = "root"
                              THEN <<R!Sees(Head(tab[k + 1].name), Len(rs) + 1)>>
                              ELSE <<>>]
    PROVE  /\ R!BlockOf(tab, k + 1) = Len(rs) + 1
           /\ RootsTo(tab, k + 1, Append(rs, opened))
           /\ R!BlocksOf(tab)[Len(rs) + 1].path = opened.path
<1>. DEFINE b == Len(rs) + 1
            blocks == R!BlocksOf(tab)
<1>1. PICK S : rs \in Seq(S)
  BY DEF RootsTo
<1>2. Len(rs) = R!BlockOf(tab, k) /\ Len(rs) \in Nat
  BY <1>1, LenProperties DEF RootsTo
<1>3. k + 1 \in R!Headers(tab)
  BY DEF R!Headers, R!LinesOf
<1>4. R!BlockOf(tab, k + 1) = b
  BY <1>2, <1>3, BlockNext
<1>5. /\ b \in DOMAIN blocks
      /\ blocks[b].name = opened.name /\ blocks[b].path = opened.path
  BY <1>3, <1>4, HeaderSays
<1>6. RootSaid(tab, b, 0) = opened
  <2>1. SeenOf(tab, b, 0) = R!OwnName(blocks, b)
    BY SeenFirst
  <2>2. R!OwnName(blocks, b) = opened.sees
    <3>1. CASE tab[k + 1].kind = "root"
      <4>1. tab[k + 1].path # <<>>
        BY <3>1, LineType
      <4>2. blocks[b].path # <<>> /\ blocks[b].name = Head(tab[k + 1].name)
        BY <1>5, <3>1, <4>1
      <4>. QED
        BY <3>1, <4>2, OwnNameType
    <3>2. CASE tab[k + 1].kind = "prelude"
      <4>1. blocks[b].path = <<>>
        BY <1>5, <3>2
      <4>. QED
        BY <3>2, <4>1, OwnNameType
    <3>. QED
      BY <3>1, <3>2
  <2>3. RootSaid(tab, b, 0) = [name |-> opened.name, path |-> opened.path,
                               sees |-> opened.sees]
    BY <1>5, <2>1, <2>2 DEF RootSaid
  <2>. QED
    BY <2>3
<1>. HIDE DEF b, blocks
<1>7. rs \in Seq(S \cup {opened}) /\ opened \in S \cup {opened}
  BY <1>1, SeqMonotonic
<1>8. /\ Append(rs, opened) \in Seq(S \cup {opened})
      /\ Len(Append(rs, opened)) = Len(rs) + 1
      /\ \A i \in 1 .. Len(rs) : Append(rs, opened)[i] = rs[i]
      /\ Append(rs, opened)[Len(rs) + 1] = opened
  BY <1>7, AppendProperties
<1>9. \A i \in 1 .. b : Append(rs, opened)[i] = RootSaid(tab, i, 0)
  <2>. TAKE i \in 1 .. b
  <2>1. CASE i = b
    BY <1>6, <1>8, <2>1 DEF b
  <2>2. CASE i # b
    <3>1. i \in 1 .. Len(rs)
      BY <1>2, <2>2 DEF b
    <3>. QED
      BY <1>2, <1>8, <3>1 DEF RootsTo
  <2>. QED
    BY <2>1, <2>2
<1>10. RootsTo(tab, k + 1, Append(rs, opened))
  BY <1>4, <1>8, <1>9 DEF RootsTo, b
<1>. QED
  BY <1>4, <1>5, <1>10 DEF b, blocks

\* A line more is in its place where the table says so of it.
LEMMA PlacedNext ==
    ASSUME NEW tab \in Tables, NEW k \in Nat, k + 1 \in DOMAIN tab,
           PlacedTo(tab, k), tab[k + 1].kind # "broken",
           tab[k + 1].kind \in {"dependency", "import"} =>
               R!BlockOf(tab, k + 1) > 0,
           tab[k + 1].kind = "import" =>
               tab[R!Nth(R!Headers(tab), R!BlockOf(tab, k + 1))].kind = "prelude",
           tab[k + 1].kind = "prelude" =>
               \A h \in R!LinesOf(tab, {"prelude"}) : h > k
    PROVE  PlacedTo(tab, k + 1)
<1>1. \A kinds : \A i \in R!LinesOf(tab, kinds) :
         /\ i \in Nat /\ (i <= k + 1 <=> i <= k \/ i = k + 1)
         /\ (i = k + 1 => tab[k + 1].kind \in kinds)
  <2>1. \A kinds : \A i \in R!LinesOf(tab, kinds) : tab[i].kind \in kinds
    BY DEF R!LinesOf
  <2>2. \A kinds : \A i \in R!LinesOf(tab, kinds) : i \in Nat
    BY LinesType, LineNumber
  <2>3. \A i \in Nat : i <= k + 1 <=> i <= k \/ i = k + 1
    OBVIOUS
  <2>. QED
    BY <2>1, <2>2, <2>3
<1>2. \A i \in R!LinesOf(tab, {"broken"}) : i > k + 1
  <2>. TAKE i \in R!LinesOf(tab, {"broken"})
  <2>1. i \in Nat /\ i > k /\ i # k + 1
    BY <1>1 DEF PlacedTo
  <2>. QED
    BY <2>1
<1>3. \A i \in R!LinesOf(tab, {"dependency", "import"}) :
         i <= k + 1 => R!BlockOf(tab, i) > 0
  BY <1>1 DEF PlacedTo
<1>4. \A i \in R!LinesOf(tab, {"import"}) : i <= k + 1 =>
         tab[R!Nth(R!Headers(tab), R!BlockOf(tab, i))].kind = "prelude"
  BY <1>1 DEF PlacedTo
<1>5. \A i, j \in R!LinesOf(tab, {"prelude"}) :
         i <= k + 1 /\ j <= k + 1 => i = j
  <2>. TAKE i, j \in R!LinesOf(tab, {"prelude"})
  <2>. HAVE i <= k + 1 /\ j <= k + 1
  <2>1. CASE i = k + 1 \/ j = k + 1
    <3>1. \A h \in R!LinesOf(tab, {"prelude"}) : h > k
      BY <1>1, <2>1
    <3>. QED
      BY <1>1, <3>1
  <2>2. CASE i # k + 1 /\ j # k + 1
    BY <1>1, <2>2 DEF PlacedTo
  <2>. QED
    BY <2>1, <2>2
<1>. QED
  BY <1>2, <1>3, <1>4, <1>5 DEF PlacedTo

\* A root's header, when no block has its directory.
LEMMA RootRead ==
    ASSUME NEW tab \in Tables, NEW k \in Nat, k + 1 \in DOMAIN tab,
           tab[k + 1].kind = "root", NEW known, NEW list, NEW names,
           ReadTo(tab, k, known, list, names), NEW rs, RootsTo(tab, k, rs),
           \A b \in 1 .. Len(rs) : rs[b].path # tab[k + 1].path
    PROVE  /\ ReadTo(tab, k + 1, known, list, names)
           /\ RootsTo(tab, k + 1, R!OpenRoot(rs, Head(tab[k + 1].name),
                                             tab[k + 1].path))
           /\ R!BlockOf(tab, k + 1) = Len(rs) + 1
<1>. DEFINE opened == [name |-> Head(tab[k + 1].name), path |-> tab[k + 1].path,
                       sees |-> <<R!Sees(Head(tab[k + 1].name), Len(rs) + 1)>>]
            blocks == R!BlocksOf(tab)
<1>1. opened = [name |-> IF tab[k + 1].kind = "root"
                         THEN Head(tab[k + 1].name) ELSE "prelude",
                path |-> IF tab[k + 1].kind = "root"
                         THEN tab[k + 1].path ELSE <<>>,
                sees |-> IF tab[k + 1].kind = "root"
                         THEN <<R!Sees(Head(tab[k + 1].name), Len(rs) + 1)>>
                         ELSE <<>>]
  OBVIOUS
<1>2. opened.path = tab[k + 1].path
  OBVIOUS
<1>3. R!OpenRoot(rs, Head(tab[k + 1].name), tab[k + 1].path)
        = Append(rs, opened)
  BY DEF R!OpenRoot
<1>. HIDE DEF opened
<1>4. /\ R!BlockOf(tab, k + 1) = Len(rs) + 1
      /\ RootsTo(tab, k + 1, Append(rs, opened))
      /\ blocks[Len(rs) + 1].path = tab[k + 1].path
  BY <1>1, <1>2, HeaderRead
<1>5. Len(rs) = R!BlockOf(tab, k) /\ Len(rs) \in Nat
  BY BlockNext DEF RootsTo
<1>6. PathsDiffer(tab, k + 1)
  <2>1. \A b \in 1 .. Len(rs) : blocks[b].path # tab[k + 1].path
    <3>. TAKE b \in 1 .. Len(rs)
    <3>1. rs[b] = RootSaid(tab, b, 0)
      BY <1>5 DEF RootsTo
    <3>2. rs[b].path = blocks[b].path
      BY <3>1 DEF RootSaid
    <3>. QED
      BY <3>2
  <2>2. \A b \in 1 .. Len(rs) + 1 : b \in 1 .. Len(rs) \/ b = Len(rs) + 1
    BY <1>5
  <2>3. \A b, c \in 1 .. Len(rs) :
           blocks[b].path = blocks[c].path /\ blocks[b].path # <<>> => b = c
    BY <1>5 DEF PathsDiffer, ReadTo
  <2>4. \A b, c \in 1 .. Len(rs) + 1 :
           blocks[b].path = blocks[c].path /\ blocks[b].path # <<>> => b = c
    BY <1>4, <2>1, <2>2, <2>3
  <2>. QED
    BY <1>4, <2>4 DEF PathsDiffer
<1>7. PreludeTo(tab, k + 1, known)
  <2>1. k + 1 \notin R!LinesOf(tab, {"prelude"})
    BY DEF R!LinesOf
  <2>2. \A h \in R!LinesOf(tab, {"prelude"}) : h \in Nat /\ h # k + 1
    BY <2>1, LinesType, LineNumber
  <2>3. CASE known = 0 /\ \A h \in R!LinesOf(tab, {"prelude"}) : h > k
    BY <2>2, <2>3 DEF PreludeTo
  <2>4. CASE \E h \in R!LinesOf(tab, {"prelude"}) :
                h <= k /\ known = R!BlockOf(tab, h)
    BY <2>2, <2>4 DEF PreludeTo
  <2>. QED
    BY <2>3, <2>4 DEF PreludeTo, ReadTo
<1>8. PlacedTo(tab, k + 1)
  BY PlacedNext DEF ReadTo
<1>9. PendingTo(tab, k + 1, list) /\ ImportsTo(tab, k + 1, names)
  BY SamePending, SameImports DEF ReadTo
<1>. QED
  BY <1>3, <1>4, <1>6, <1>7, <1>8, <1>9 DEF ReadTo

\* The prelude's header, when it is the first.
LEMMA PreludeRead ==
    ASSUME NEW tab \in Tables, NEW k \in Nat, k + 1 \in DOMAIN tab,
           tab[k + 1].kind = "prelude", NEW list, NEW names,
           ReadTo(tab, k, 0, list, names), NEW rs, RootsTo(tab, k, rs)
    PROVE  /\ ReadTo(tab, k + 1, Len(rs) + 1, list, names)
           /\ RootsTo(tab, k + 1, Append(rs, [name |-> "prelude",
                                              path |-> <<>>, sees |-> <<>>]))
           /\ R!BlockOf(tab, k + 1) = Len(rs) + 1
<1>. DEFINE opened == [name |-> "prelude", path |-> <<>>, sees |-> <<>>]
            blocks == R!BlocksOf(tab)
<1>1. opened = [name |-> IF tab[k + 1].kind = "root"
                         THEN Head(tab[k + 1].name) ELSE "prelude",
                path |-> IF tab[k + 1].kind = "root"
                         THEN tab[k + 1].path ELSE <<>>,
                sees |-> IF tab[k + 1].kind = "root"
                         THEN <<R!Sees(Head(tab[k + 1].name), Len(rs) + 1)>>
                         ELSE <<>>]
  OBVIOUS
<1>2. opened.path = <<>>
  OBVIOUS
<1>. HIDE DEF opened
<1>3. /\ R!BlockOf(tab, k + 1) = Len(rs) + 1
      /\ RootsTo(tab, k + 1, Append(rs, opened))
      /\ blocks[Len(rs) + 1].path = <<>>
  BY <1>1, <1>2, HeaderRead
<1>4. Len(rs) = R!BlockOf(tab, k) /\ Len(rs) \in Nat
  BY BlockNext DEF RootsTo
<1>5. \A h \in R!LinesOf(tab, {"prelude"}) : h > k
  <2>1. ASSUME NEW h \in R!LinesOf(tab, {"prelude"}), 0 = R!BlockOf(tab, h)
        PROVE  FALSE
    <3>1. h \in R!Headers(tab)
      BY DEF R!Headers, R!LinesOf
    <3>2. R!BlockOf(tab, h) \in DOMAIN blocks
      BY <3>1, HeaderSays
    <3>. QED
      BY <2>1, <3>2, BlocksType
  <2>. QED
    BY <2>1 DEF ReadTo, PreludeTo
<1>6. PathsDiffer(tab, k + 1)
  <2>1. \A b \in 1 .. Len(rs) + 1 : b \in 1 .. Len(rs) \/ b = Len(rs) + 1
    BY <1>4
  <2>2. \A b, c \in 1 .. Len(rs) :
           blocks[b].path = blocks[c].path /\ blocks[b].path # <<>> => b = c
    BY <1>4 DEF PathsDiffer, ReadTo
  <2>3. \A b, c \in 1 .. Len(rs) + 1 :
           blocks[b].path = blocks[c].path /\ blocks[b].path # <<>> => b = c
    BY <1>3, <2>1, <2>2
  <2>. QED
    BY <1>3, <2>3 DEF PathsDiffer
<1>7. PreludeTo(tab, k + 1, Len(rs) + 1)
  <2>1. k + 1 \in R!LinesOf(tab, {"prelude"})
    BY DEF R!LinesOf
  <2>2. k + 1 <= k + 1
    OBVIOUS
  <2>. QED
    BY <1>3, <2>1, <2>2 DEF PreludeTo
<1>8. PlacedTo(tab, k + 1)
  BY <1>5, PlacedNext DEF ReadTo
<1>9. PendingTo(tab, k + 1, list) /\ ImportsTo(tab, k + 1, names)
  BY SamePending, SameImports DEF ReadTo
<1>. QED
  BY <1>3, <1>6, <1>7, <1>8, <1>9 DEF ReadTo, opened

\* The records the pending dependencies are.
Wanted == [block : Nat, name : STRING, path : Seq(STRING)]

LEMMA OfBlockType ==
    ASSUME NEW list \in Seq(Wanted), NEW b
    PROVE  OfBlock(list, b) \in LineNumbers
           /\ OfBlock(list, b) \in SUBSET (1 .. Len(list)) /\ Len(list) \in Nat
<1>1. DOMAIN list = 1 .. Len(list) /\ Len(list) \in Nat
  BY LenProperties
<1>2. OfBlock(list, b) \in SUBSET (1 .. Len(list))
  BY <1>1 DEF OfBlock
<1>. QED
  BY <1>1, <1>2 DEF LineNumbers

\* One more that is wanted is the last of its block, and leaves the places of
\* the others.
LEMMA OneMoreWanted ==
    ASSUME NEW list \in Seq(Wanted), NEW wanted \in Wanted, NEW b
    PROVE  LET more == Append(list, wanted)
               n == Len(list)
           IN  /\ more \in Seq(Wanted) /\ Len(more) = n + 1
               /\ DOMAIN more = 1 .. n + 1 /\ DOMAIN list = 1 .. n
               /\ \A p \in 1 .. n : more[p] = list[p]
               /\ more[n + 1] = wanted
               /\ \A p \in 0 .. n : R!RankIn(OfBlock(more, b), p)
                                       = R!RankIn(OfBlock(list, b), p)
               /\ R!RankIn(OfBlock(more, b), n + 1)
                     = R!RankIn(OfBlock(list, b), n)
                          + IF b = wanted.block THEN 1 ELSE 0
<1>. DEFINE more == Append(list, wanted)
            n == Len(list)
<1>1. /\ more \in Seq(Wanted) /\ Len(more) = n + 1
      /\ \A p \in 1 .. n : more[p] = list[p]
      /\ more[n + 1] = wanted
  BY AppendProperties
<1>2. n \in Nat /\ DOMAIN list = 1 .. n /\ DOMAIN more = 1 .. n + 1
  BY <1>1, LenProperties
<1>. HIDE DEF more, n
<1>3. OfBlock(more, b) \in LineNumbers
  BY <1>1, OfBlockType
<1>4. \A p \in 1 .. n : p \in OfBlock(more, b) <=> p \in OfBlock(list, b)
  BY <1>1, <1>2 DEF OfBlock
<1>5. \A p \in OfBlock(more, b) \cup OfBlock(list, b) : p \in Nat /\ p > 0
  BY <1>3, OfBlockType, LineNumber
<1>6. ASSUME NEW p \in 0 .. n
      PROVE  R!RankIn(OfBlock(more, b), p) = R!RankIn(OfBlock(list, b), p)
  <2>1. {j \in OfBlock(more, b) : j <= p} = {j \in OfBlock(list, b) : j <= p}
    BY <1>2, <1>4, <1>5
  <2>. QED
    BY <2>1 DEF R!RankIn
<1>7. n + 1 \in OfBlock(more, b) <=> b = wanted.block
  <2>1. n + 1 \in DOMAIN more
    BY <1>2
  <2>. QED
    BY <1>1, <2>1 DEF OfBlock
<1>8. R!RankIn(OfBlock(more, b), n + 1)
        = R!RankIn(OfBlock(more, b), n) + IF b = wanted.block THEN 1 ELSE 0
  BY <1>2, <1>3, <1>7, RankNext
<1>9. R!RankIn(OfBlock(more, b), n) = R!RankIn(OfBlock(list, b), n)
  BY <1>2, <1>6
<1>. QED
  BY <1>1, <1>2, <1>6, <1>8, <1>9 DEF more, n

\* A dependency, in a block.
LEMMA DependencyRead ==
    ASSUME NEW tab \in Tables, NEW k \in Nat, k + 1 \in DOMAIN tab,
           tab[k + 1].kind = "dependency", NEW known, NEW list, NEW names,
           ReadTo(tab, k, known, list, names), NEW rs, RootsTo(tab, k, rs),
           R!BlockOf(tab, k) # 0
    PROVE  /\ ReadTo(tab, k + 1, known,
                     Append(list, [block |-> R!BlockOf(tab, k),
                                   name |-> Head(tab[k + 1].name),
                                   path |-> tab[k + 1].path]), names)
           /\ RootsTo(tab, k + 1, rs)
           /\ R!BlockOf(tab, k + 1) = R!BlockOf(tab, k)
<1>. DEFINE b == R!BlockOf(tab, k)
            wanted == [block |-> b, name |-> Head(tab[k + 1].name),
                       path |-> tab[k + 1].path]
            more == Append(list, wanted)
            blocks == R!BlocksOf(tab)
            deps(c) == R!DependenciesOf(tab, c)
<1>1. /\ R!BlockOf(tab, k + 1) = b /\ RootsTo(tab, k + 1, rs)
      /\ PathsDiffer(tab, k + 1) /\ PreludeTo(tab, k + 1, known)
  BY SameBlock DEF ReadTo
<1>2. b \in Nat /\ b > 0
  BY BlockNext
<1>3. PlacedTo(tab, k + 1)
  BY <1>1, <1>2, PlacedNext DEF ReadTo
<1>4. ImportsTo(tab, k + 1, names)
  BY SameImports DEF ReadTo
<1>5. /\ wanted \in Wanted /\ wanted.block = b
      /\ wanted.name = Head(tab[k + 1].name) /\ wanted.path = tab[k + 1].path
      /\ wanted.path # <<>>
  BY <1>2, LineType DEF Wanted
<1>. HIDE DEF wanted
<1>6. PendingTo(tab, k, list) /\ list \in Seq(Wanted)
  BY DEF ReadTo, PendingTo, Wanted
<1>7. \A c : k + 1 \in deps(c) <=> c = b
  BY <1>1 DEF R!DependenciesOf, R!LinesOf
<1>8. b <= R!BlockOf(tab, Len(tab)) /\ R!BlockOf(tab, Len(tab)) \in Nat
  <2>1. k + 1 \in Nat /\ k + 1 <= Len(tab) /\ Len(tab) \in Nat
    BY LinesType
  <2>2. R!BlockOf(tab, k + 1) <= R!BlockOf(tab, Len(tab))
    BY <2>1, LinesType, RankGrows DEF R!BlockOf
  <2>. QED
    BY <1>1, <2>1, <2>2, BlockNext
<1>9. b \in DOMAIN blocks
  BY <1>2, <1>8, BlocksType
<1>10. \A c : R!RankIn(deps(c), k + 1)
                = R!RankIn(deps(c), k) + IF c = b THEN 1 ELSE 0
  <2>. TAKE c
  <2>1. deps(c) \in LineNumbers
    BY LinesType
  <2>. QED
    BY <1>7, <2>1, RankNext
<1>. HIDE DEF deps
<1>11. /\ more \in Seq(Wanted) /\ Len(more) = Len(list) + 1
       /\ DOMAIN more = 1 .. Len(list) + 1 /\ DOMAIN list = 1 .. Len(list)
       /\ \A p \in 1 .. Len(list) : more[p] = list[p]
       /\ more[Len(list) + 1] = wanted
  BY <1>5, <1>6, OneMoreWanted
<1>12. \A c : /\ \A p \in 0 .. Len(list) : R!RankIn(OfBlock(more, c), p)
                                             = R!RankIn(OfBlock(list, c), p)
              /\ R!RankIn(OfBlock(more, c), Len(list) + 1)
                    = R!RankIn(OfBlock(list, c), Len(list))
                         + IF c = b THEN 1 ELSE 0
  BY <1>5, <1>6, OneMoreWanted
<1>. HIDE DEF more
<1>13. \A c \in 1 .. R!BlockOf(tab, Len(tab)) :
          R!RankIn(OfBlock(list, c), Len(list)) = R!RankIn(deps(c), k)
  BY <1>6 DEF PendingTo, deps
<1>14. \A c \in 1 .. R!BlockOf(tab, Len(tab)) :
          R!RankIn(OfBlock(more, c), Len(more)) = R!RankIn(deps(c), k + 1)
  BY <1>10, <1>11, <1>12, <1>13
<1>15. Len(list) \in Nat
  BY <1>6, LenProperties
<1>16. ASSUME NEW p \in DOMAIN more
       PROVE  LET c == more[p].block
                  n == R!RankIn(OfBlock(more, c), p)
                  needs == blocks[c].needs
              IN  /\ c \in 1 .. R!BlockOf(tab, k + 1)
                  /\ n \in DOMAIN needs
                  /\ needs[n] = [name |-> more[p].name, path |-> more[p].path]
                  /\ more[p].path # <<>>
  <2>1. CASE p \in 1 .. Len(list)
    <3>1. p \in 0 .. Len(list) /\ more[p] = list[p] /\ p \in DOMAIN list
      BY <1>11, <1>15, <2>1
    <3>2. R!RankIn(OfBlock(more, more[p].block), p)
             = R!RankIn(OfBlock(list, more[p].block), p)
      BY <1>12, <3>1
    <3>. QED
      BY <1>1, <1>6, <3>1, <3>2 DEF PendingTo
  <2>2. CASE p = Len(list) + 1
    <3>1. more[p] = wanted /\ more[p].block = b
      BY <1>5, <1>11, <2>2
    <3>2. b \in 1 .. R!BlockOf(tab, Len(tab))
      BY <1>2, <1>8
    <3>3. R!RankIn(OfBlock(more, b), p) = R!RankIn(deps(b), k + 1)
      BY <1>11, <1>14, <2>2, <3>2
    <3>4. k + 1 \in deps(b)
      BY <1>7
    <3>5. /\ R!RankIn(deps(b), k + 1) \in DOMAIN blocks[b].needs
          /\ blocks[b].needs[R!RankIn(deps(b), k + 1)]
                = [name |-> Head(tab[k + 1].name), path |-> tab[k + 1].path]
      BY <1>9, <3>4, DependencySays DEF deps
    <3>6. b \in 1 .. R!BlockOf(tab, k + 1)
      BY <1>1, <1>2
    <3>. QED
      BY <1>5, <3>1, <3>3, <3>5, <3>6
  <2>. QED
    BY <1>11, <1>15, <2>1, <2>2
<1>17. PendingTo(tab, k + 1, more)
  BY <1>11, <1>14, <1>16 DEF PendingTo, Wanted, deps
<1>. QED
  BY <1>1, <1>3, <1>4, <1>17 DEF ReadTo, more, wanted


\* A line down to k has a number among those down to k.
LEMMA RankWithin ==
    ASSUME NEW S \in LineNumbers, NEW k \in Nat, NEW i \in S, i <= k
    PROVE  R!RankIn(S, i) \in 1 .. R!RankIn(S, k)
<1>1. i \in Nat /\ i > 0
  BY LineNumber
<1>2. R!RankIn(S, i) <= R!RankIn(S, k)
  BY <1>1, RankGrows
<1>3. R!RankIn(S, 0) = 0 /\ R!RankIn(S, 0) < R!RankIn(S, i)
  BY <1>1, RankZero, RankGrows
<1>4. R!RankIn(S, i) \in Nat /\ R!RankIn(S, k) \in Nat
  BY <1>1, RankType
<1>. QED
  BY <1>2, <1>3, <1>4

\* A block that lines belong to has a header, above them.
LEMMA BlockHasHeader ==
    ASSUME NEW tab \in Tables, NEW k \in Nat, R!BlockOf(tab, k) # 0
    PROVE  \E h \in R!Headers(tab) :
              /\ h <= k /\ R!BlockOf(tab, h) = R!BlockOf(tab, k)
              /\ R!Nth(R!Headers(tab), R!BlockOf(tab, k)) = h
<1>1. R!Headers(tab) \in LineNumbers
  BY LinesType
<1>2. R!BlockOf(tab, k) \in 1 .. R!RankIn(R!Headers(tab), k)
  BY BlockNext DEF R!BlockOf
<1>. QED
  BY <1>1, <1>2, NthIsThere DEF R!BlockOf

\* An import, in the prelude's block.
LEMMA ImportRead ==
    ASSUME NEW tab \in Tables, NEW k \in Nat, k + 1 \in DOMAIN tab,
           tab[k + 1].kind = "import", NEW known, NEW list, NEW names,
           ReadTo(tab, k, known, list, names), NEW rs, RootsTo(tab, k, rs),
           known # 0, R!BlockOf(tab, k) = known
    PROVE  /\ ReadTo(tab, k + 1, known, list, Append(names, tab[k + 1].name))
           /\ RootsTo(tab, k + 1, rs)
           /\ R!BlockOf(tab, k + 1) = R!BlockOf(tab, k)
<1>. DEFINE lines == R!LinesOf(tab, {"import"})
            more == Append(names, tab[k + 1].name)
<1>1. /\ R!BlockOf(tab, k + 1) = known /\ RootsTo(tab, k + 1, rs)
      /\ PathsDiffer(tab, k + 1) /\ PreludeTo(tab, k + 1, known)
  BY SameBlock DEF ReadTo
<1>2. PendingTo(tab, k + 1, list)
  BY SamePending DEF ReadTo
<1>3. PICK h \in R!LinesOf(tab, {"prelude"}) : known = R!BlockOf(tab, h)
  BY DEF ReadTo, PreludeTo
<1>4. h \in R!Headers(tab) /\ tab[h].kind = "prelude"
  BY <1>3 DEF R!Headers, R!LinesOf
<1>5. R!Nth(R!Headers(tab), known) = h
  BY <1>3, <1>4, HeaderSays
<1>6. known > 0
  BY BlockNext
<1>7. PlacedTo(tab, k + 1)
  BY <1>1, <1>4, <1>5, <1>6, PlacedNext DEF ReadTo
<1>8. lines \in LineNumbers /\ k + 1 \in lines
  BY LinesType DEF R!LinesOf
<1>. HIDE DEF lines
<1>9. R!RankIn(lines, k + 1) = R!RankIn(lines, k) + 1 /\ R!RankIn(lines, k) \in Nat
  BY <1>8, RankNext, RankType
<1>10. /\ names \in Seq(Seq(STRING)) /\ Len(names) = R!RankIn(lines, k)
       /\ \A i \in lines : i <= k => names[R!RankIn(lines, i)] = tab[i].name
  BY DEF ReadTo, ImportsTo, lines
<1>11. /\ more \in Seq(Seq(STRING)) /\ Len(more) = Len(names) + 1
       /\ \A i \in 1 .. Len(names) : more[i] = names[i]
       /\ more[Len(names) + 1] = tab[k + 1].name
  BY <1>10, LineType, AppendProperties
<1>. HIDE DEF more
<1>12. ASSUME NEW i \in lines, i <= k + 1
       PROVE  more[R!RankIn(lines, i)] = tab[i].name
  <2>1. CASE i = k + 1
    BY <1>9, <1>10, <1>11, <2>1
  <2>2. CASE i # k + 1
    <3>1. i <= k
      BY <1>8, <1>12, <2>2, LineNumber
    <3>2. R!RankIn(lines, i) \in 1 .. Len(names)
      BY <1>8, <1>10, <3>1, RankWithin
    <3>. QED
      BY <1>10, <1>11, <3>1, <3>2
  <2>. QED
    BY <2>1, <2>2
<1>13. ImportsTo(tab, k + 1, more)
  BY <1>9, <1>10, <1>11, <1>12 DEF ImportsTo, lines
<1>. QED
  BY <1>1, <1>2, <1>7, <1>13 DEF ReadTo, more

-----------------------------------------------------------------------------
(* Where the reading of the lines stops, the table says nothing.           *)

LEMMA RootRefused ==
    ASSUME NEW tab \in Tables, NEW k \in Nat, k + 1 \in DOMAIN tab,
           tab[k + 1].kind = "root", NEW rs, RootsTo(tab, k, rs),
           NEW b \in 1 .. Len(rs), rs[b].path = tab[k + 1].path
    PROVE  ~R!WellFormed(tab)
<1>. DEFINE blocks == R!BlocksOf(tab)
            c == R!BlockOf(tab, k + 1)
<1>1. Len(rs) = R!BlockOf(tab, k) /\ R!BlockOf(tab, k) \in Nat
  BY BlockNext DEF RootsTo
<1>2. k + 1 \in R!Headers(tab)
  BY DEF R!Headers, R!LinesOf
<1>3. c = Len(rs) + 1
  BY <1>1, <1>2, BlockNext
<1>4. /\ c \in DOMAIN blocks /\ blocks[c].path = tab[k + 1].path
  BY <1>2, HeaderSays
<1>5. b \in DOMAIN blocks /\ b # c
  BY <1>1, <1>3, <1>4, BlocksType
<1>6. rs[b] = RootSaid(tab, b, 0)
  BY <1>1 DEF RootsTo
<1>7. blocks[b].path = blocks[c].path
  BY <1>4, <1>6 DEF RootSaid
<1>8. blocks[b].path # <<>>
  BY <1>4, <1>7, LineType
<1>. HIDE DEF blocks, c
<1>9. ~R!BlocksAgree(blocks)
  BY <1>4, <1>5, <1>7, <1>8 DEF R!BlocksAgree, R!NoPath
<1>. QED
  BY <1>9 DEF R!WellFormed, blocks

LEMMA PreludeRefused ==
    ASSUME NEW tab \in Tables, NEW k \in Nat, k + 1 \in DOMAIN tab,
           tab[k + 1].kind = "prelude", NEW known, PreludeTo(tab, k, known),
           known # 0
    PROVE  ~R!WellFormed(tab)
<1>1. PICK h \in R!LinesOf(tab, {"prelude"}) : h <= k
  BY DEF PreludeTo
<1>2. k + 1 \in R!LinesOf(tab, {"prelude"})
  BY DEF R!LinesOf
<1>3. h # k + 1
  BY <1>1
<1>. QED
  BY <1>1, <1>2, <1>3 DEF R!WellFormed, R!LinesInPlace

LEMMA LooseRefused ==
    ASSUME NEW tab \in Tables, NEW k \in Nat, k + 1 \in DOMAIN tab,
           tab[k + 1].kind \in {"dependency", "import"},
           R!BlockOf(tab, k) = 0
    PROVE  ~R!WellFormed(tab)
<1>1. /\ k + 1 \notin R!Headers(tab)
      /\ k + 1 \in R!LinesOf(tab, {"dependency", "import"})
  BY DEF R!Headers, R!LinesOf
<1>2. R!BlockOf(tab, k + 1) = 0
  BY <1>1, BlockNext
<1>. QED
  BY <1>1, <1>2 DEF R!WellFormed, R!LinesInPlace

LEMMA ImportRefused ==
    ASSUME NEW tab \in Tables, NEW k \in Nat, k + 1 \in DOMAIN tab,
           tab[k + 1].kind = "import", NEW known,
           PlacedTo(tab, k), PreludeTo(tab, k, known),
           known = 0 \/ R!BlockOf(tab, k) # known
    PROVE  ~R!WellFormed(tab)
<1>. DEFINE prel == R!LinesOf(tab, {"prelude"})
<1>1. /\ k + 1 \notin R!Headers(tab) /\ k + 1 \in R!LinesOf(tab, {"import"})
  BY DEF R!Headers, R!LinesOf
<1>2. R!BlockOf(tab, k + 1) = R!BlockOf(tab, k)
  BY <1>1, BlockNext
<1>3. SUFFICES ASSUME R!LinesInPlace(tab) PROVE FALSE
  BY DEF R!WellFormed
<1>4. R!BlockOf(tab, k) # 0
  BY <1>3, LooseRefused, <1>1, <1>2 DEF R!LinesInPlace, R!LinesOf
<1>5. PICK h \in R!Headers(tab) :
          /\ h <= k /\ R!BlockOf(tab, h) = R!BlockOf(tab, k)
          /\ R!Nth(R!Headers(tab), R!BlockOf(tab, k)) = h
  BY <1>4, BlockHasHeader
<1>6. tab[h].kind = "prelude"
  BY <1>1, <1>2, <1>3, <1>5 DEF R!LinesInPlace
<1>7. h \in prel
  BY <1>5, <1>6 DEF R!Headers, R!LinesOf
<1>8. h \in Nat /\ ~ (h > k)
  BY <1>5, LinesType, LineNumber
<1>9. PICK g \in prel : g <= k /\ known = R!BlockOf(tab, g)
  BY <1>7, <1>8 DEF PreludeTo
<1>10. g = h
  BY <1>5, <1>7, <1>9 DEF PlacedTo
<1>11. known = R!BlockOf(tab, k)
  BY <1>5, <1>9, <1>10
<1>. QED
  BY <1>4, <1>11

LEMMA BrokenRefused ==
    ASSUME NEW tab \in Tables, NEW i \in DOMAIN tab, tab[i].kind = "broken"
    PROVE  ~R!WellFormed(tab)
BY DEF R!WellFormed, R!LinesInPlace, R!LinesOf

-----------------------------------------------------------------------------
(* The dependencies, once every block is known.                            *)

\* What the n-th dependency of a block puts in its view.
NeedSeen(tab, b, n) ==
    LET blocks == R!BlocksOf(tab)
    IN R!Sees(blocks[b].needs[n].name,
              R!BlockAt(blocks, blocks[b].needs[n].path))

\* A list of known length is a sequence.
LEMMA ListOf ==
    ASSUME NEW tab, NEW b, NEW m \in Nat, NEW T,
           \A n \in 1 .. m : NeedSeen(tab, b, n) \in T
    PROVE  LET list == [n \in 1 .. m |-> NeedSeen(tab, b, n)]
           IN  /\ list \in Seq(T) /\ Len(list) = m
               /\ \A n \in 1 .. m : list[n] = NeedSeen(tab, b, n)
<1>. DEFINE list == [n \in 1 .. m |-> NeedSeen(tab, b, n)]
<1>1. list \in [1 .. m -> T]
  OBVIOUS
<1>2. list \in Seq(T)
  BY <1>1, SeqDef
<1>3. DOMAIN list = 1 .. m /\ \A n \in 1 .. m : list[n] = NeedSeen(tab, b, n)
  OBVIOUS
<1>. HIDE DEF list
<1>4. DOMAIN list = 1 .. Len(list) /\ Len(list) \in Nat
  BY <1>2, LenProperties
<1>5. Len(list) = m
  BY <1>3, <1>4
<1>. QED
  BY <1>2, <1>3, <1>5 DEF list

\* What a block sees is itself, if it has a directory, and what it needs.
LEMMA SeenIs ==
    ASSUME NEW tab, NEW b, NEW m \in Nat
    PROVE  LET seen == SeenOf(tab, b, m)
               itself == R!Sees(R!BlocksOf(tab)[b].name, b)
               own == R!BlocksOf(tab)[b].path # <<>>
           IN  /\ seen \in Seq({itself} \cup {NeedSeen(tab, b, n) : n \in 1 .. m})
               /\ own => \E i \in 1 .. Len(seen) : seen[i] = itself
               /\ \A n \in 1 .. m : \E i \in 1 .. Len(seen) :
                     seen[i] = NeedSeen(tab, b, n)
               /\ \A i \in 1 .. Len(seen) :
                     \/ own /\ seen[i] = itself
                     \/ \E n \in 1 .. m : seen[i] = NeedSeen(tab, b, n)
<1>. DEFINE blocks == R!BlocksOf(tab)
            itself == R!Sees(blocks[b].name, b)
            own == R!OwnName(blocks, b)
            T == {itself} \cup {NeedSeen(tab, b, n) : n \in 1 .. m}
            list == [n \in 1 .. m |-> NeedSeen(tab, b, n)]
            seen == SeenOf(tab, b, m)
<1>1. /\ own \in Seq({itself})
      /\ blocks[b].path = <<>> => Len(own) = 0
      /\ blocks[b].path # <<>> => Len(own) = 1 /\ own[1] = itself
  BY OwnNameType
<1>2. seen = own \o list
  BY DEF SeenOf, NeedSeen
<1>3. {itself} \subseteq T /\ \A n \in 1 .. m : NeedSeen(tab, b, n) \in T
  OBVIOUS
<1>. HIDE DEF T, own, itself, seen
<1>4. own \in Seq(T)
  BY <1>1, <1>3, SeqMonotonic
<1>5. /\ list \in Seq(T) /\ Len(list) = m
      /\ \A n \in 1 .. m : list[n] = NeedSeen(tab, b, n)
  BY <1>3, ListOf
<1>. HIDE DEF list
<1>6. /\ seen \in Seq(T) /\ Len(seen) = Len(own) + m
      /\ \A i \in 1 .. Len(own) + m :
            seen[i] = IF i <= Len(own) THEN own[i] ELSE list[i - Len(own)]
  BY <1>2, <1>4, <1>5, ConcatProperties
<1>7. ASSUME blocks[b].path # <<>> PROVE \E i \in 1 .. Len(seen) : seen[i] = itself
  <2>1. Len(own) = 1 /\ own[1] = itself
    BY <1>1, <1>7
  <2>2. 1 \in 1 .. Len(own) + m /\ 1 <= Len(own)
    BY <2>1
  <2>3. seen[1] = own[1]
    BY <1>6, <2>2
  <2>. QED
    BY <1>6, <2>1, <2>2, <2>3
<1>8. Len(own) \in {0, 1}
  BY <1>1
<1>9. ASSUME NEW n \in 1 .. m
      PROVE  \E i \in 1 .. Len(seen) : seen[i] = NeedSeen(tab, b, n)
  <2>1. /\ Len(own) + n \in 1 .. Len(own) + m /\ ~ (Len(own) + n <= Len(own))
        /\ (Len(own) + n) - Len(own) = n
    BY <1>8
  <2>2. seen[Len(own) + n] = list[n]
    BY <1>6, <2>1
  <2>. QED
    BY <1>5, <1>6, <2>1, <2>2
<1>10. ASSUME NEW i \in 1 .. Len(seen)
       PROVE  \/ blocks[b].path # <<>> /\ seen[i] = itself
              \/ \E n \in 1 .. m : seen[i] = NeedSeen(tab, b, n)
  <2>1. i \in 1 .. Len(own) + m
    BY <1>6
  <2>2. CASE i <= Len(own)
    <3>1. Len(own) = 1 /\ i = 1
      <4>1. i \in Int /\ i >= 1
        BY <1>8, <2>1
      <4>2. Len(own) # 0
        BY <2>2, <4>1
      <4>3. Len(own) = 1
        BY <1>8, <4>2
      <4>. QED
        BY <2>2, <4>1, <4>3
    <3>. blocks[b].path # <<>>
      <4>1. Len(own) # 0
        BY <3>1
      <4>. QED
        BY <1>1, <4>1
    <3>2. seen[i] = own[i]
      BY <1>6, <2>1, <2>2
    <3>. QED
      BY <1>1, <3>1, <3>2
  <2>3. CASE ~ (i <= Len(own))
    <3>1. i - Len(own) \in 1 .. m
      BY <1>8, <2>1, <2>3
    <3>2. seen[i] = list[i - Len(own)]
      BY <1>6, <2>1, <2>3
    <3>. QED
      BY <1>5, <3>1, <3>2
  <2>. QED
    BY <2>2, <2>3
<1>. QED
  BY <1>6, <1>7, <1>9, <1>10 DEF seen, itself, T

\* One more dependency is the last it sees.
LEMMA SeenNext ==
    ASSUME NEW tab, NEW b, NEW m \in Nat
    PROVE  SeenOf(tab, b, m + 1)
              = Append(SeenOf(tab, b, m), NeedSeen(tab, b, m + 1))
<1>. DEFINE blocks == R!BlocksOf(tab)
            itself == R!Sees(blocks[b].name, b)
            own == R!OwnName(blocks, b)
            x == NeedSeen(tab, b, m + 1)
            T == {itself} \cup {NeedSeen(tab, b, n) : n \in 1 .. m + 1}
            list == [n \in 1 .. m |-> NeedSeen(tab, b, n)]
            more == [n \in 1 .. m + 1 |-> NeedSeen(tab, b, n)]
<1>1. own \in Seq({itself})
  BY OwnNameType
<1>2. SeenOf(tab, b, m) = own \o list /\ SeenOf(tab, b, m + 1) = own \o more
  BY DEF SeenOf, NeedSeen
<1>3. /\ {itself} \subseteq T
      /\ \A n \in 1 .. m + 1 : NeedSeen(tab, b, n) \in T
      /\ m + 1 \in Nat /\ m + 1 \in 1 .. m + 1
      /\ \A n \in 1 .. m + 1 : n \in 1 .. m \/ n = m + 1
      /\ \A n \in 1 .. m : n \in 1 .. m + 1
  OBVIOUS
<1>. HIDE DEF T, own, itself
<1>4. own \in Seq(T) /\ x \in T
  BY <1>1, <1>3, SeqMonotonic
<1>5. /\ list \in Seq(T) /\ Len(list) = m
      /\ \A n \in 1 .. m : list[n] = NeedSeen(tab, b, n)
  BY <1>3, ListOf
<1>6. /\ more \in Seq(T) /\ Len(more) = m + 1
      /\ \A n \in 1 .. m + 1 : more[n] = NeedSeen(tab, b, n)
  BY <1>3, ListOf
<1>. HIDE DEF list, more, x
<1>7. more = Append(list, x)
  <2>1. /\ Append(list, x) \in Seq(T) /\ Len(Append(list, x)) = m + 1
        /\ \A n \in 1 .. m : Append(list, x)[n] = list[n]
        /\ Append(list, x)[m + 1] = x
    BY <1>4, <1>5, AppendProperties
  <2>2. \A n \in 1 .. Len(more) : more[n] = Append(list, x)[n]
    BY <1>3, <1>5, <1>6, <2>1 DEF x
  <2>. QED
    BY <1>6, <2>1, <2>2, SeqEqual
<1>8. <<x>> \in Seq(T) /\ Append(list, x) = list \o <<x>>
  BY <1>4, <1>5, OneElement, AppendIsConcat
<1>9. own \o (list \o <<x>>) = (own \o list) \o <<x>>
  BY <1>4, <1>5, <1>8, ConcatAssociative, SMTT(60)
<1>10. own \o list \in Seq(T)
  BY <1>4, <1>5, ConcatProperties
<1>11. Append(own \o list, x) = (own \o list) \o <<x>>
  BY <1>4, <1>10, AppendIsConcat
<1>. QED
  BY <1>2, <1>7, <1>8, <1>9, <1>11 DEF x

\* A block sees no root of a name when no line of its view has it.
LEMMA NameInView ==
    ASSUME NEW rs, NEW b, NEW name_, NEW S, rs[b].sees \in Seq(S),
           \A i \in 1 .. Len(rs[b].sees) : rs[b].sees[i].root # 0
    PROVE  LET seen == rs[b].sees
               target == R!VisibleRoot(rs, b, name_)
           IN  /\ target = 0 => \A i \in 1 .. Len(seen) : seen[i].name # name_
               /\ target # 0 => \E i \in 1 .. Len(seen) :
                                   seen[i].name = name_ /\ seen[i].root = target
<1>. DEFINE seen == rs[b].sees
            named == {i \in DOMAIN seen : seen[i].name = name_}
            first == CHOOSE i \in named : \A j \in named : i <= j
<1>1. DOMAIN seen = 1 .. Len(seen) /\ Len(seen) \in Nat
  BY LenProperties
<1>2. R!VisibleRoot(rs, b, name_) = IF named = {} THEN 0 ELSE seen[first].root
  BY DEF R!VisibleRoot, R!INVALID_ROOT
<1>3. CASE named = {}
  BY <1>1, <1>2, <1>3
<1>4. CASE named # {}
  <2>1. named \in SUBSET Nat
    BY <1>1
  <2>2. \E i \in named : \A j \in named : i <= j
    BY <1>4, <2>1, LeastOf
  <2>3. first \in named
    BY <2>2
  <2>4. \A i \in named : i \in 1 .. Len(seen) /\ seen[i].name = name_
    BY <1>1
  <2>. HIDE DEF first, named
  <2>5. R!VisibleRoot(rs, b, name_) = seen[first].root
    BY <1>2, <1>4
  <2>6. first \in 1 .. Len(seen) /\ seen[first].name = name_
    BY <2>3, <2>4
  <2>7. R!VisibleRoot(rs, b, name_) # 0
    BY <2>5, <2>6
  <2>. QED
    BY <2>5, <2>6, <2>7
<1>. QED
  BY <1>3, <1>4

\* What a need of a block is to be, among so many of it.
NeedAgrees(tab, b, n, m) ==
    LET blocks == R!BlocksOf(tab)
        need == blocks[b].needs[n]
    IN /\ \E c \in DOMAIN blocks : blocks[c].path = need.path
       /\ need.path # <<>>
       /\ blocks[b].path # <<>> => need.name # blocks[b].name
       /\ \A o \in 1 .. m : blocks[b].needs[o].name = need.name => o = n

\* The first m of the pending dependencies were resolved, into these roots.
ResolvedTo(tab, list, m, rs) ==
    /\ \E S : rs \in Seq(S)
    /\ Len(rs) = R!Cardinality(R!Headers(tab))
    /\ \A b \in 1 .. Len(rs) :
          LET done == R!RankIn(OfBlock(list, b), m)
          IN  /\ rs[b] = RootSaid(tab, b, done)
              /\ \A n \in 1 .. done : NeedAgrees(tab, b, n, done)

\* No block is named for a directory no block has.
LEMMA BlockAtIs ==
    ASSUME NEW tab \in Tables, PathsDiffer(tab, Len(tab)),
           NEW c \in DOMAIN R!BlocksOf(tab), R!BlocksOf(tab)[c].path # <<>>
    PROVE  R!BlockAt(R!BlocksOf(tab), R!BlocksOf(tab)[c].path) = c
<1>. DEFINE blocks == R!BlocksOf(tab)
            path_ == blocks[c].path
            at == CHOOSE b \in DOMAIN blocks : blocks[b].path = path_
<1>1. at \in DOMAIN blocks /\ blocks[at].path = path_
  OBVIOUS
<1>2. DOMAIN blocks = 1 .. R!BlockOf(tab, Len(tab))
  BY BlocksType
<1>3. R!BlockAt(blocks, path_) = at
  BY DEF R!BlockAt
<1>. HIDE DEF at
<1>4. at = c
  BY <1>1, <1>2 DEF PathsDiffer
<1>. QED
  BY <1>3, <1>4

\* What a block sees by then is never no root.
LEMMA SeenAreRoots ==
    ASSUME NEW tab \in Tables, PathsDiffer(tab, Len(tab)), NEW m \in Nat,
           NEW b \in DOMAIN R!BlocksOf(tab),
           \A n \in 1 .. m : NeedAgrees(tab, b, n, m)
    PROVE  LET seen == SeenOf(tab, b, m)
           IN \A i \in 1 .. Len(seen) :
                /\ seen[i] = R!Sees(seen[i].name, seen[i].root)
                /\ seen[i].root \in DOMAIN R!BlocksOf(tab) /\ seen[i].root # 0
<1>. DEFINE blocks == R!BlocksOf(tab)
            seen == SeenOf(tab, b, m)
<1>1. \A n, r : /\ R!Sees(n, r).name = n /\ R!Sees(n, r).root = r
  BY DEF R!Sees
<1>2. \A c \in DOMAIN blocks : c # 0
  BY BlocksType
<1>3. ASSUME NEW n \in 1 .. m
      PROVE  NeedSeen(tab, b, n).root \in DOMAIN blocks
  <2>1. PICK c \in DOMAIN blocks :
            /\ blocks[c].path = blocks[b].needs[n].path
            /\ blocks[c].path # <<>>
    BY DEF NeedAgrees
  <2>2. R!BlockAt(blocks, blocks[c].path) = c
    BY <2>1, BlockAtIs
  <2>. QED
    BY <1>1, <2>1, <2>2 DEF NeedSeen
<1>4. ASSUME NEW i \in 1 .. Len(seen)
      PROVE  /\ seen[i] = R!Sees(seen[i].name, seen[i].root)
             /\ seen[i].root \in DOMAIN blocks
  <2>1. CASE seen[i] = R!Sees(blocks[b].name, b)
    BY <1>1, <2>1
  <2>2. CASE \E n \in 1 .. m : seen[i] = NeedSeen(tab, b, n)
    <3>1. PICK n \in 1 .. m : seen[i] = NeedSeen(tab, b, n)
      BY <2>2
    <3>2. seen[i].root \in DOMAIN blocks
      BY <1>3, <3>1
    <3>3. seen[i] = R!Sees(seen[i].name, seen[i].root)
      BY <1>1, <3>1 DEF NeedSeen
    <3>. QED
      BY <3>2, <3>3
  <2>. QED
    BY <2>1, <2>2, SeenIs
<1>. QED
  BY <1>2, <1>4

\* The next dependency that is pending is the next of its block.
LEMMA WantedAt ==
    ASSUME NEW tab \in Tables, NEW list, PendingTo(tab, Len(tab), list),
           NEW m \in Nat, m < Len(list)
    PROVE  LET wanted == list[m + 1]
               b == wanted.block
               done == R!RankIn(OfBlock(list, b), m)
               needs == R!BlocksOf(tab)[b].needs
           IN  /\ b \in DOMAIN R!BlocksOf(tab)
               /\ done \in Nat /\ R!RankIn(OfBlock(list, b), m + 1) = done + 1
               /\ done + 1 \in DOMAIN needs
               /\ needs[done + 1].name = wanted.name
               /\ needs[done + 1].path = wanted.path /\ wanted.path # <<>>
               /\ \A c : c # b => R!RankIn(OfBlock(list, c), m + 1)
                                     = R!RankIn(OfBlock(list, c), m)
<1>. DEFINE wanted == list[m + 1]
            b == wanted.block
            done == R!RankIn(OfBlock(list, b), m)
            needs == R!BlocksOf(tab)[b].needs
<1>1. list \in Seq(Wanted) /\ Len(list) \in Nat /\ DOMAIN list = 1 .. Len(list)
  BY LenProperties DEF PendingTo, Wanted
<1>2. m + 1 \in DOMAIN list
  BY <1>1
<1>3. \A c : /\ OfBlock(list, c) \in LineNumbers
             /\ m + 1 \in OfBlock(list, c) <=> c = b
  BY <1>1, <1>2, OfBlockType DEF OfBlock
<1>4. \A c : R!RankIn(OfBlock(list, c), m) \in Nat
  BY <1>3, RankType
<1>5. R!RankIn(OfBlock(list, b), m + 1) = done + 1
  BY <1>3, <1>4, RankNext
<1>6. \A c : c # b => R!RankIn(OfBlock(list, c), m + 1)
                         = R!RankIn(OfBlock(list, c), m)
  BY <1>3, RankSame
<1>7. LET n == R!RankIn(OfBlock(list, b), m + 1)
      IN /\ b \in 1 .. R!BlockOf(tab, Len(tab)) /\ n \in DOMAIN needs
         /\ needs[n] = [name |-> wanted.name, path |-> wanted.path]
         /\ wanted.path # <<>>
  BY <1>2 DEF PendingTo
<1>8. b \in DOMAIN R!BlocksOf(tab)
  BY <1>7, BlocksType
<1>9. /\ done + 1 \in DOMAIN needs
      /\ needs[done + 1].name = wanted.name
      /\ needs[done + 1].path = wanted.path
  BY <1>5, <1>7
<1>. QED
  BY <1>4, <1>5, <1>6, <1>7, <1>8, <1>9

\* When no line of its view has the name, the block agrees with one need more.
LEMMA OneNeedMore ==
    ASSUME NEW tab \in Tables, NEW b, NEW done \in Nat,
           \A n \in 1 .. done : NeedAgrees(tab, b, n, done),
           NEW target \in DOMAIN R!BlocksOf(tab),
           R!BlocksOf(tab)[target].path = R!BlocksOf(tab)[b].needs[done + 1].path,
           R!BlocksOf(tab)[b].needs[done + 1].path # <<>>,
           \A i \in 1 .. Len(SeenOf(tab, b, done)) :
              SeenOf(tab, b, done)[i].name
                 # R!BlocksOf(tab)[b].needs[done + 1].name
    PROVE  \A n \in 1 .. done + 1 : NeedAgrees(tab, b, n, done + 1)
<1>. DEFINE blocks == R!BlocksOf(tab)
            needs == blocks[b].needs
            new == needs[done + 1].name
            seen == SeenOf(tab, b, done)
            itself == R!Sees(blocks[b].name, b)
<1>1. \A n, r : /\ R!Sees(n, r).name = n /\ R!Sees(n, r).root = r
  BY DEF R!Sees
<1>2. blocks[b].path # <<>> => new # blocks[b].name
  <2>1. blocks[b].path # <<>> => \E i \in 1 .. Len(seen) : seen[i] = itself
    BY SeenIs
  <2>. QED
    BY <1>1, <2>1
<1>3. \A o \in 1 .. done : needs[o].name # new
  <2>1. \A o \in 1 .. done :
           \E i \in 1 .. Len(seen) : seen[i] = NeedSeen(tab, b, o)
    BY SeenIs, ZenonT(60)
  <2>2. \A o \in 1 .. done : NeedSeen(tab, b, o).name = needs[o].name
    BY <1>1 DEF NeedSeen
  <2>. QED
    BY <2>1, <2>2
<1>. HIDE DEF seen, itself, needs, blocks, new
<1>4. \A n \in 1 .. done + 1 : n \in 1 .. done \/ n = done + 1
  OBVIOUS
<1>5. ASSUME NEW n \in 1 .. done + 1 PROVE NeedAgrees(tab, b, n, done + 1)
  <2>1. CASE n \in 1 .. done
    <3>1. NeedAgrees(tab, b, n, done)
      BY <2>1
    <3>2. \A o \in 1 .. done + 1 : needs[o].name = needs[n].name => o = n
      <4>. TAKE o \in 1 .. done + 1
      <4>. HAVE needs[o].name = needs[n].name
      <4>1. CASE o \in 1 .. done
        BY <3>1, <4>1 DEF NeedAgrees, needs, blocks
      <4>2. CASE o = done + 1
        BY <1>3, <2>1, <4>2 DEF new
      <4>. QED
        BY <1>4, <4>1, <4>2
    <3>. QED
      BY <3>1, <3>2, SMTT(60) DEF NeedAgrees, needs, blocks
  <2>2. CASE n = done + 1
    <3>1. \A o \in 1 .. done + 1 : needs[o].name = needs[n].name => o = n
      BY <1>3, <1>4, <2>2 DEF new
    <3>. QED
      BY <1>2, <2>2, <3>1 DEF NeedAgrees, needs, blocks, new
  <2>. QED
    BY <1>4, <2>1, <2>2
<1>. QED
  BY <1>5

\* What the next dependency finds: the block of its directory, and the view of
\* its own block.
LEMMA ViewAt ==
    ASSUME NEW tab \in Tables, NEW list, PendingTo(tab, Len(tab), list),
           PathsDiffer(tab, Len(tab)), NEW m \in Nat, m < Len(list),
           ResolvedTo(tab, list, m, roots)
    PROVE  LET wanted == list[m + 1]
               b == wanted.block
               done == R!RankIn(OfBlock(list, b), m)
               seen == SeenOf(tab, b, done)
               target == R!BlockWithPath(wanted.path)
               named == R!VisibleRoot(roots, b, wanted.name)
           IN  /\ DOMAIN roots = 1 .. Len(roots)
               /\ 1 .. Len(roots) = DOMAIN R!BlocksOf(tab)
               /\ \A n \in 1 .. done : NeedAgrees(tab, b, n, done)
               /\ roots[b] = RootSaid(tab, b, done)
               /\ target = 0 => \A c \in DOMAIN R!BlocksOf(tab) :
                                   R!BlocksOf(tab)[c].path # wanted.path
               /\ target # 0 => /\ target \in DOMAIN R!BlocksOf(tab)
                                /\ R!BlocksOf(tab)[target].path = wanted.path
               /\ named = 0 => \A i \in 1 .. Len(seen) :
                                  seen[i].name # wanted.name
               /\ named # 0 => \E i \in 1 .. Len(seen) :
                                  seen[i].name = wanted.name
<1>. DEFINE wanted == list[m + 1]
            b == wanted.block
            done == R!RankIn(OfBlock(list, b), m)
            seen == SeenOf(tab, b, done)
            target == R!BlockWithPath(wanted.path)
            named == R!VisibleRoot(roots, b, wanted.name)
            blocks == R!BlocksOf(tab)
<1>1. b \in DOMAIN blocks /\ done \in Nat
  BY WantedAt
<1>2. PICK S : roots \in Seq(S)
  BY DEF ResolvedTo
<1>3. /\ DOMAIN roots = 1 .. Len(roots) /\ Len(roots) \in Nat
      /\ 1 .. Len(roots) = DOMAIN blocks
  BY <1>2, LenProperties, BlocksType DEF ResolvedTo
<1>4. /\ roots[b] = RootSaid(tab, b, done)
      /\ \A n \in 1 .. done : NeedAgrees(tab, b, n, done)
  BY <1>1, <1>3 DEF ResolvedTo
<1>5. \A c \in DOMAIN blocks : roots[c].path = blocks[c].path
  BY <1>3 DEF ResolvedTo, RootSaid
<1>6. /\ target = 0 => \A c \in 1 .. Len(roots) : roots[c].path # wanted.path
      /\ target # 0 => target \in 1 .. Len(roots) /\ roots[target].path = wanted.path
  BY <1>2, BlockFound
<1>. HIDE DEF done, b
<1>7. \A i \in 1 .. Len(seen) : seen[i].root # 0
  BY <1>1, <1>4, SeenAreRoots
<1>8. PICK T : seen \in Seq(T)
  BY <1>1, SeenIs
<1>9. roots[b].sees = seen
  BY <1>4 DEF RootSaid
<1>. HIDE DEF seen, named
<1>10. /\ named = 0 => \A i \in 1 .. Len(seen) : seen[i].name # wanted.name
       /\ named # 0 => \E i \in 1 .. Len(seen) : seen[i].name = wanted.name
  <2>1. /\ roots[b].sees \in Seq(T)
        /\ \A i \in 1 .. Len(roots[b].sees) : roots[b].sees[i].root # 0
    BY <1>7, <1>8, <1>9
  <2>2. LET found == R!VisibleRoot(roots, b, wanted.name)
        IN  /\ found = 0 => \A i \in 1 .. Len(roots[b].sees) :
                               roots[b].sees[i].name # wanted.name
            /\ found # 0 => \E i \in 1 .. Len(roots[b].sees) :
                               /\ roots[b].sees[i].name = wanted.name
                               /\ roots[b].sees[i].root = found
    BY <2>1, NameInView
  <2>. QED
    BY <1>9, <2>2 DEF named
<1>. QED
  BY <1>3, <1>4, <1>5, <1>6, <1>10, ZenonT(60) DEF seen, done, b, named

LEMMA DependencyResolved ==
    ASSUME NEW tab \in Tables, NEW list, PendingTo(tab, Len(tab), list),
           PathsDiffer(tab, Len(tab)), NEW m \in Nat, m < Len(list),
           ResolvedTo(tab, list, m, roots),
           R!BlockWithPath(list[m + 1].path) # 0,
           R!MaySee(roots, list[m + 1].block, list[m + 1].name)
    PROVE  ResolvedTo(tab, list, m + 1,
                      R!See(roots, list[m + 1].block, list[m + 1].name,
                            R!BlockWithPath(list[m + 1].path)))
<1>. DEFINE wanted == list[m + 1]
            b == wanted.block
            done == R!RankIn(OfBlock(list, b), m)
            blocks == R!BlocksOf(tab)
            needs == blocks[b].needs
            seen == SeenOf(tab, b, done)
            target == R!BlockWithPath(wanted.path)
            x == R!Sees(wanted.name, target)
            after == R!See(roots, b, wanted.name, target)
            root == RootSaid(tab, b, done + 1)
<1>1. /\ b \in DOMAIN blocks
      /\ done \in Nat /\ R!RankIn(OfBlock(list, b), m + 1) = done + 1
      /\ needs[done + 1].name = wanted.name
      /\ needs[done + 1].path = wanted.path /\ wanted.path # <<>>
      /\ \A c : c # b => R!RankIn(OfBlock(list, c), m + 1)
                            = R!RankIn(OfBlock(list, c), m)
  BY WantedAt, SMTT(60)
<1>2. R!VisibleRoot(roots, b, wanted.name) = 0
  BY DEF R!MaySee, R!INVALID_ROOT
<1>3. /\ DOMAIN roots = 1 .. Len(roots) /\ 1 .. Len(roots) = DOMAIN blocks
      /\ \A n \in 1 .. done : NeedAgrees(tab, b, n, done)
      /\ roots[b] = RootSaid(tab, b, done)
      /\ target \in DOMAIN blocks /\ blocks[target].path = wanted.path
      /\ \A i \in 1 .. Len(seen) : seen[i].name # wanted.name
  BY <1>2, ViewAt, SMTT(60)
<1>4. R!BlockAt(blocks, wanted.path) = target
  BY <1>1, <1>3, BlockAtIs, ZenonT(60)
<1>5. NeedSeen(tab, b, done + 1) = x
  BY <1>1, <1>4 DEF NeedSeen
<1>6. SeenOf(tab, b, done + 1) = Append(seen, x)
  BY <1>1, <1>5, SeenNext, SMTT(60)
<1>7. \A n \in 1 .. done + 1 : NeedAgrees(tab, b, n, done + 1)
  BY <1>1, <1>3, OneNeedMore, ZenonT(60)
<1>8. after = [roots EXCEPT ![b].sees = Append(@, x)]
  BY DEF R!See
<1>. HIDE DEF done, wanted, target, seen, x, after
<1>9. after = [roots EXCEPT ![b] = root]
  <2>1. roots[b].sees = seen
    BY <1>3 DEF RootSaid, seen
  <2>2. [roots[b] EXCEPT !.sees = Append(@, x)] = root
    <3>1. roots[b] = [name |-> blocks[b].name, path |-> blocks[b].path,
                      sees |-> seen]
      BY <1>3 DEF RootSaid, seen
    <3>2. root = [name |-> blocks[b].name, path |-> blocks[b].path,
                  sees |-> Append(seen, x)]
      BY <1>6 DEF RootSaid
    <3>. HIDE DEF blocks, root
    <3>3. PICK rec, n, p, s, u :
              /\ rec = roots[b] /\ n = blocks[b].name /\ p = blocks[b].path
              /\ s = seen /\ u = Append(seen, x)
      OBVIOUS
    <3>4. rec = [name |-> n, path |-> p, sees |-> s]
      BY <3>1, <3>3
    <3>5. [rec EXCEPT !.sees = u] = [name |-> n, path |-> p, sees |-> u]
      BY <3>4
    <3>6. [rec EXCEPT !.sees = u] = root
      BY <3>2, <3>3, <3>5
    <3>7. [roots[b] EXCEPT !.sees = Append(@, x)] = [rec EXCEPT !.sees = u]
      BY <2>1, <3>3
    <3>. QED
      BY <3>6, <3>7
  <2>3. after = [roots EXCEPT ![b] = [roots[b] EXCEPT !.sees = Append(@, x)]]
    BY <1>8
  <2>. QED
    BY <2>2, <2>3
<1>10. PICK S : roots \in Seq(S)
  BY DEF ResolvedTo
<1>. HIDE DEF root
<1>11. roots \in Seq(S \cup {root}) /\ root \in S \cup {root}
  BY <1>10, SeqMonotonic
<1>12. /\ after \in Seq(S \cup {root}) /\ Len(after) = Len(roots)
       /\ \A c \in 1 .. Len(roots) : after[c] = IF c = b THEN root ELSE roots[c]
  BY <1>1, <1>3, <1>9, <1>11, ExceptSeq, SMTT(60)
<1>13. ASSUME NEW c \in 1 .. Len(after)
       PROVE  LET now == R!RankIn(OfBlock(list, c), m + 1)
              IN  /\ after[c] = RootSaid(tab, c, now)
                  /\ \A n \in 1 .. now : NeedAgrees(tab, c, n, now)
  <2>1. CASE c = b
    BY <1>1, <1>7, <1>12, <2>1 DEF root
  <2>2. CASE c # b
    <3>1. /\ after[c] = roots[c] /\ c \in 1 .. Len(roots)
          /\ R!RankIn(OfBlock(list, c), m + 1) = R!RankIn(OfBlock(list, c), m)
      BY <1>1, <1>12, <2>2
    <3>. QED
      BY <3>1 DEF ResolvedTo
  <2>. QED
    BY <2>1, <2>2
<1>14. Len(after) = R!Cardinality(R!Headers(tab))
  BY <1>12 DEF ResolvedTo
<1>15. ResolvedTo(tab, list, m + 1, after)
  BY <1>12, <1>13, <1>14 DEF ResolvedTo
<1>. QED
  BY <1>15 DEF after, wanted, target

\* Where it stops, no block has the directory or the block sees the name.
LEMMA DependencyRefused ==
    ASSUME NEW tab \in Tables, NEW list, PendingTo(tab, Len(tab), list),
           PathsDiffer(tab, Len(tab)), NEW m \in Nat, m < Len(list),
           ResolvedTo(tab, list, m, roots),
           \/ R!BlockWithPath(list[m + 1].path) = 0
           \/ ~R!MaySee(roots, list[m + 1].block, list[m + 1].name)
    PROVE  ~R!WellFormed(tab)
<1>. DEFINE wanted == list[m + 1]
            b == wanted.block
            done == R!RankIn(OfBlock(list, b), m)
            blocks == R!BlocksOf(tab)
            needs == blocks[b].needs
            seen == SeenOf(tab, b, done)
<1>1. /\ b \in DOMAIN blocks
      /\ done \in Nat /\ done + 1 \in DOMAIN needs
      /\ needs[done + 1].name = wanted.name
      /\ needs[done + 1].path = wanted.path
  BY WantedAt, SMTT(60)
<1>2. SUFFICES ASSUME R!BlocksAgree(blocks) PROVE FALSE
  BY DEF R!WellFormed
<1>3. LET need == needs[done + 1]
      IN /\ \E c \in DOMAIN blocks : blocks[c].path = need.path
         /\ blocks[b].path # <<>> => need.name # blocks[b].name
         /\ \A o \in DOMAIN needs : needs[o].name = need.name => o = done + 1
  BY <1>1, <1>2, SMTT(60) DEF R!BlocksAgree, R!NoPath
<1>4. CASE R!BlockWithPath(wanted.path) = 0
  <2>1. \A c \in DOMAIN blocks : blocks[c].path # wanted.path
    BY <1>4, ViewAt
  <2>. QED
    BY <1>1, <1>3, <2>1
<1>5. CASE ~R!MaySee(roots, b, wanted.name)
  <2>1. R!VisibleRoot(roots, b, wanted.name) # 0
    BY <1>5 DEF R!MaySee, R!INVALID_ROOT
  <2>2. PICK i \in 1 .. Len(seen) : seen[i].name = wanted.name
    BY <2>1, ViewAt
  <2>3. \A n, r : R!Sees(n, r).name = n
    BY DEF R!Sees
  <2>4. \/ blocks[b].path # <<>> /\ seen[i] = R!Sees(blocks[b].name, b)
        \/ \E o \in 1 .. done : seen[i] = NeedSeen(tab, b, o)
    BY <1>1, SeenIs, ZenonT(60)
  <2>5. CASE blocks[b].path # <<>> /\ seen[i] = R!Sees(blocks[b].name, b)
    BY <1>1, <1>3, <2>2, <2>3, <2>5, SMTT(60)
  <2>6. CASE \E o \in 1 .. done : seen[i] = NeedSeen(tab, b, o)
    <3>1. PICK o \in 1 .. done : seen[i] = NeedSeen(tab, b, o)
      BY <2>6
    <3>2. needs[o].name = wanted.name
      BY <2>2, <2>3, <3>1, SMTT(60) DEF NeedSeen
    <3>3. o # done + 1 /\ o \in 1 .. done + 1
      BY <1>1
    <3>4. DOMAIN needs = 1 .. R!Cardinality(R!DependenciesOf(tab, b))
      BY <1>1, BlocksType
    <3>5. R!Cardinality(R!DependenciesOf(tab, b)) \in Nat
      BY <1>1, BlocksType
    <3>6. o \in DOMAIN needs
      BY <1>1, <3>3, <3>4, <3>5, SMTT(60)
    <3>. QED
      BY <1>1, <1>3, <3>2, <3>3, <3>6, ZenonT(60)
  <2>. QED
    BY <2>4, <2>5, <2>6
<1>. QED
  BY <1>4, <1>5

\* When all are resolved, the roots are those the blocks are.
LEMMA AllResolved ==
    ASSUME NEW tab \in Tables, NEW list, PendingTo(tab, Len(tab), list),
           PathsDiffer(tab, Len(tab)), NEW rs,
           ResolvedTo(tab, list, Len(list), rs)
    PROVE  /\ rs = R!RootsOf(R!BlocksOf(tab)) /\ R!BlocksAgree(R!BlocksOf(tab))
           /\ DOMAIN rs = DOMAIN R!BlocksOf(tab)
           /\ \A b \in DOMAIN rs :
                 \E m \in Nat : /\ rs[b].sees = SeenOf(tab, b, m)
                                /\ \A n \in 1 .. m : NeedAgrees(tab, b, n, m)
<1>. DEFINE blocks == R!BlocksOf(tab)
            H == R!Cardinality(R!Headers(tab))
            N(b) == R!Cardinality(R!DependenciesOf(tab, b))
<1>1. /\ H \in Nat /\ DOMAIN blocks = 1 .. H
      /\ H = R!BlockOf(tab, Len(tab))
      /\ \A b \in 1 .. H : DOMAIN blocks[b].needs = 1 .. N(b) /\ N(b) \in Nat
  BY BlocksType
<1>2. \A b \in 1 .. H : R!RankIn(OfBlock(list, b), Len(list)) = N(b)
  BY <1>1, BlocksType DEF PendingTo
<1>3. \E S : rs \in Seq(S)
  BY DEF ResolvedTo
<1>4. Len(rs) = H /\ DOMAIN rs = 1 .. H
  BY <1>3, LenProperties DEF ResolvedTo
<1>. HIDE DEF N, H, blocks
<1>5. \A b \in 1 .. H : /\ rs[b] = RootSaid(tab, b, N(b))
                        /\ \A n \in 1 .. N(b) : NeedAgrees(tab, b, n, N(b))
  BY <1>2, <1>4 DEF ResolvedTo
<1>6. rs = [b \in 1 .. H |-> RootSaid(tab, b, N(b))]
  <2>1. rs = [b \in 1 .. H |-> rs[b]]
    BY <1>3, <1>4, LenProperties
  <2>. QED
    BY <1>5, <2>1
<1>7. R!RootsOf(blocks) = [b \in 1 .. H |-> RootSaid(tab, b, N(b))]
  BY <1>1 DEF R!RootsOf, RootSaid, SeenOf, blocks
<1>8. R!BlocksAgree(blocks)
  <2>1. \A b, c \in DOMAIN blocks :
          blocks[b].path = blocks[c].path /\ blocks[b].path # <<>> => b = c
    BY <1>1 DEF PathsDiffer, blocks
  <2>2. \A b \in DOMAIN blocks : \A n \in DOMAIN blocks[b].needs :
          LET need == blocks[b].needs[n]
          IN /\ \E c \in DOMAIN blocks : blocks[c].path = need.path
             /\ blocks[b].path # <<>> => need.name # blocks[b].name
             /\ \A o \in DOMAIN blocks[b].needs :
                   blocks[b].needs[o].name = need.name => o = n
    <3>. TAKE b \in DOMAIN blocks
    <3>. TAKE n \in DOMAIN blocks[b].needs
    <3>1. NeedAgrees(tab, b, n, N(b)) /\ DOMAIN blocks[b].needs = 1 .. N(b)
      BY <1>1, <1>5
    <3>. QED
      BY <3>1 DEF NeedAgrees, blocks
  <2>. QED
    BY <2>1, <2>2 DEF R!BlocksAgree, R!NoPath
<1>9. \A b \in 1 .. H : rs[b].sees = SeenOf(tab, b, N(b))
  <2>1. \A b, m : RootSaid(tab, b, m).sees = SeenOf(tab, b, m)
    BY DEF RootSaid
  <2>. QED
    BY <1>5, <2>1
<1>. QED
  BY <1>1, <1>4, <1>5, <1>6, <1>7, <1>8, <1>9 DEF blocks

-----------------------------------------------------------------------------
(* The prelude's imports, once every block sees what it needs.             *)

LEMMA LinesPlaced ==
    ASSUME NEW tab \in Tables, PlacedTo(tab, Len(tab))
    PROVE  R!LinesInPlace(tab)
<1>1. Len(tab) \in Nat
      /\ \A kinds : R!LinesOf(tab, kinds) \in SUBSET (1 .. Len(tab))
  BY LinesType
<1>2. \A kinds : \A i \in R!LinesOf(tab, kinds) : i <= Len(tab) /\ ~ (i > Len(tab))
  BY <1>1
<1>3. R!LinesOf(tab, {"broken"}) = {}
  BY <1>2 DEF PlacedTo
<1>4. \A i \in R!LinesOf(tab, {"dependency", "import"}) : R!BlockOf(tab, i) > 0
  BY <1>2 DEF PlacedTo
<1>5. \A i \in R!LinesOf(tab, {"import"}) :
         tab[R!Nth(R!Headers(tab), R!BlockOf(tab, i))].kind = "prelude"
  BY <1>2 DEF PlacedTo
<1>6. \A i, j \in R!LinesOf(tab, {"prelude"}) : i = j
  BY <1>2 DEF PlacedTo
<1>. QED
  BY <1>3, <1>4, <1>5, <1>6 DEF R!LinesInPlace

\* The imports are lines of the prelude's block.
LEMMA ImportAt ==
    ASSUME NEW tab \in Tables, PlacedTo(tab, Len(tab)), NEW known,
           PreludeTo(tab, Len(tab), known), NEW names,
           ImportsTo(tab, Len(tab), names), NEW m \in Nat, m < Len(names)
    PROVE  \E i \in R!LinesOf(tab, {"import"}) :
              /\ R!RankIn(R!LinesOf(tab, {"import"}), i) = m + 1
              /\ names[m + 1] = tab[i].name /\ tab[i].name # <<>>
              /\ tab[i].name \in Seq(STRING)
              /\ R!BlockOf(tab, i) = known
              /\ known \in DOMAIN R!BlocksOf(tab) /\ known # 0
<1>. DEFINE lines == R!LinesOf(tab, {"import"})
<1>1. /\ lines \in LineNumbers /\ lines \in SUBSET (1 .. Len(tab))
      /\ Len(tab) \in Nat /\ DOMAIN tab = 1 .. Len(tab)
      /\ R!RankIn(lines, Len(tab)) \in Nat
  BY LinesType, RankType
<1>2. /\ Len(names) = R!RankIn(lines, Len(tab))
      /\ \A i \in lines : i <= Len(tab) => names[R!RankIn(lines, i)] = tab[i].name
  BY DEF ImportsTo
<1>. HIDE DEF lines
<1>3. m + 1 \in 1 .. R!RankIn(lines, Len(tab))
  BY <1>1, <1>2
<1>4. PICK i \in lines : i <= Len(tab) /\ R!RankIn(lines, i) = m + 1
  BY <1>1, <1>3, NthIsThere
<1>5. names[m + 1] = tab[i].name
  BY <1>2, <1>4
<1>6. i \in Nat /\ i \in DOMAIN tab
  BY <1>1
<1>7. tab[i].name # <<>> /\ tab[i].name \in Seq(STRING)
  BY <1>6, LineType
<1>8. /\ R!BlockOf(tab, i) > 0 /\ R!BlockOf(tab, i) \in Nat
      /\ tab[R!Nth(R!Headers(tab), R!BlockOf(tab, i))].kind = "prelude"
  <2>1. R!LinesInPlace(tab)
    BY LinesPlaced
  <2>2. i \in R!LinesOf(tab, {"import"})
    BY DEF lines
  <2>3. i \in R!LinesOf(tab, {"dependency", "import"})
    BY <2>2 DEF R!LinesOf
  <2>. QED
    BY <1>6, <2>1, <2>2, <2>3, BlockNext DEF R!LinesInPlace
<1>9. PICK h \in R!Headers(tab) :
          /\ h <= i /\ R!BlockOf(tab, h) = R!BlockOf(tab, i)
          /\ R!Nth(R!Headers(tab), R!BlockOf(tab, i)) = h
  <2>1. R!BlockOf(tab, i) # 0
    BY <1>8
  <2>. QED
    BY <1>6, <2>1, BlockHasHeader
<1>10. h \in R!LinesOf(tab, {"prelude"})
  BY <1>8, <1>9 DEF R!Headers, R!LinesOf
<1>11. h \in Nat /\ h <= Len(tab) /\ ~ (h > Len(tab))
  BY <1>1, <1>9, LinesType
<1>12. PICK g \in R!LinesOf(tab, {"prelude"}) :
           g <= Len(tab) /\ known = R!BlockOf(tab, g)
  BY <1>10, <1>11 DEF PreludeTo
<1>13. g = h
  BY <1>10, <1>11, <1>12 DEF PlacedTo
<1>14. known = R!BlockOf(tab, i)
  BY <1>9, <1>12, <1>13
<1>15. known \in DOMAIN R!BlocksOf(tab)
  BY <1>9, <1>14, HeaderSays
<1>. QED
  BY <1>4, <1>5, <1>7, <1>8, <1>14, <1>15 DEF lines

\* A view is of roots.
IsView(seen) ==
    /\ \E T : seen \in Seq(T)
    /\ \A i \in 1 .. Len(seen) : /\ seen[i] = R!Sees(seen[i].name, seen[i].root)
                                /\ seen[i].root # 0

\* What is found is a file, of a root that is in view under the import's first
\* name.
LEMMA FindIsSeen ==
    ASSUME NEW rs, NEW b, b # 0, NEW name_, IsView(rs[b].sees),
           R!Find(rs, b, name_).status = "ok"
    PROVE  /\ R!Find(rs, b, name_).path \in R!Files
           /\ R!Sees(Head(name_), R!Find(rs, b, name_).root)
                 \in {rs[b].sees[i] : i \in DOMAIN rs[b].sees}
<1>. DEFINE target == R!VisibleRoot(rs, b, Head(name_))
            tail == IF Len(name_) = 1 THEN name_ ELSE Tail(name_)
            at == rs[target].path \o tail
            seen == rs[b].sees
            result == R!Find(rs, b, name_)
<1>1. result = IF target = 0 THEN R!Missing("no root", <<>>)
               ELSE IF at \notin R!Files THEN R!Missing("no file", at)
               ELSE R!Reached(at, {}, target)
  BY DEF R!Find, R!TargetOf, R!INVALID_ROOT, R!NoPath
<1>. HIDE DEF target, at, result
<1>2. /\ R!Missing("no root", <<>>).status = "no root"
      /\ R!Missing("no file", at).status = "no file"
      /\ R!Reached(at, {}, target).path = at
      /\ R!Reached(at, {}, target).root = target
  BY DEF R!Missing, R!Reached
<1>3. result.status = "ok"
  BY DEF result
<1>4. target # 0 /\ at \in R!Files /\ result.path = at /\ result.root = target
  BY <1>1, <1>2, <1>3
<1>5. PICK i \in 1 .. Len(seen) :
          seen[i].name = Head(name_) /\ seen[i].root = target
  <2>1. PICK T : /\ rs[b].sees \in Seq(T)
                 /\ \A i \in 1 .. Len(rs[b].sees) : rs[b].sees[i].root # 0
    BY DEF IsView
  <2>2. PICK head : head = Head(name_)
    OBVIOUS
  <2>3. LET found == R!VisibleRoot(rs, b, head)
        IN  /\ found = 0 => \A i \in 1 .. Len(rs[b].sees) :
                               rs[b].sees[i].name # head
            /\ found # 0 => \E i \in 1 .. Len(rs[b].sees) :
                               /\ rs[b].sees[i].name = head
                               /\ rs[b].sees[i].root = found
    BY <2>1, NameInView, ZenonT(60)
  <2>. QED
    BY <1>4, <2>2, <2>3 DEF target
<1>6. DOMAIN seen = 1 .. Len(seen)
  BY LenProperties DEF IsView
<1>7. seen[i] = R!Sees(Head(name_), target)
  BY <1>5 DEF IsView
<1>. QED
  BY <1>4, <1>5, <1>6, <1>7 DEF result

\* The first m imports were found, and this is what they are.
FoundTo(tab, known, names, m, given) ==
    LET lines == R!LinesOf(tab, {"import"})
        rs == R!RootsOf(R!BlocksOf(tab))
    IN /\ \E S : given \in Seq(S)
       /\ Len(given) = m
       /\ \A p \in 1 .. m :
             /\ given[p].path \in R!Files
             /\ R!Sees(Head(names[p]), given[p].root)
                   \in {rs[known].sees[j] : j \in DOMAIN rs[known].sees}
       /\ \A i \in lines : R!RankIn(lines, i) <= m =>
             R!Find(rs, R!BlockOf(tab, i), tab[i].name).status = "ok"

\* Every block of the roots sees roots.
ViewsAreRoots(rs) == \A b \in DOMAIN rs : IsView(rs[b].sees)

LEMMA RootsAreSeen ==
    ASSUME NEW tab \in Tables, NEW list, PendingTo(tab, Len(tab), list),
           PathsDiffer(tab, Len(tab)), NEW rs,
           ResolvedTo(tab, list, Len(list), rs)
    PROVE  ViewsAreRoots(rs)
<1>1. ASSUME NEW b \in DOMAIN rs PROVE IsView(rs[b].sees)
  <2>1. PICK m \in Nat : /\ rs[b].sees = SeenOf(tab, b, m)
                         /\ \A n \in 1 .. m : NeedAgrees(tab, b, n, m)
    BY AllResolved
  <2>2. b \in DOMAIN R!BlocksOf(tab)
    BY AllResolved
  <2>3. \E T : SeenOf(tab, b, m) \in Seq(T)
    BY SeenIs
  <2>4. \A i \in 1 .. Len(SeenOf(tab, b, m)) :
           /\ SeenOf(tab, b, m)[i] = R!Sees(SeenOf(tab, b, m)[i].name,
                                            SeenOf(tab, b, m)[i].root)
           /\ SeenOf(tab, b, m)[i].root # 0
    BY <2>1, <2>2, SeenAreRoots
  <2>. QED
    BY <2>1, <2>3, <2>4 DEF IsView
<1>. QED
  BY <1>1 DEF ViewsAreRoots

\* One import more that is found.
LEMMA ImportFound ==
    ASSUME NEW tab \in Tables, PlacedTo(tab, Len(tab)), NEW known,
           PreludeTo(tab, Len(tab), known), NEW names,
           ImportsTo(tab, Len(tab), names), NEW m \in Nat, m < Len(names),
           NEW rs, rs = R!RootsOf(R!BlocksOf(tab)), ViewsAreRoots(rs),
           DOMAIN rs = DOMAIN R!BlocksOf(tab),
           NEW given, FoundTo(tab, known, names, m, given),
           NEW result, result = R!Find(rs, known, names[m + 1]),
           result.status = "ok"
    PROVE  FoundTo(tab, known, names, m + 1,
                   Append(given, [path |-> result.path, root |-> result.root]))
<1>. DEFINE lines == R!LinesOf(tab, {"import"})
            x == [path |-> result.path, root |-> result.root]
            more == Append(given, x)
            Seen(p, r) == R!Sees(Head(names[p]), r)
                             \in {rs[known].sees[j] : j \in DOMAIN rs[known].sees}
<1>1. PICK i \in lines :
          /\ R!RankIn(lines, i) = m + 1 /\ names[m + 1] = tab[i].name
          /\ R!BlockOf(tab, i) = known /\ known \in DOMAIN R!BlocksOf(tab)
          /\ known # 0
  BY ImportAt
<1>2. lines \in LineNumbers /\ \A j \in lines : j \in Nat /\ R!RankIn(lines, j) \in Nat
  <2>1. lines \in LineNumbers
    BY LinesType
  <2>. HIDE DEF lines
  <2>. QED
    BY <2>1, LineNumber, RankType
<1>3. result.path \in R!Files /\ Seen(m + 1, result.root)
  <2>1. IsView(rs[known].sees)
    BY <1>1 DEF ViewsAreRoots
  <2>2. R!Find(rs, known, names[m + 1]).status = "ok"
    OBVIOUS
  <2>3. PICK name_ : name_ = names[m + 1]
    OBVIOUS
  <2>4. R!Find(rs, known, name_).status = "ok" /\ known # 0
    BY <1>1, <2>2, <2>3
  <2>5. /\ R!Find(rs, known, name_).path \in R!Files
        /\ R!Sees(Head(name_), R!Find(rs, known, name_).root)
              \in {rs[known].sees[o] : o \in DOMAIN rs[known].sees}
    BY <2>1, <2>4, FindIsSeen
  <2>. QED
    BY <2>3, <2>5
<1>4. x.path = result.path /\ x.root = result.root
  OBVIOUS
<1>. HIDE DEF x, lines, Seen
<1>5. PICK S : given \in Seq(S)
  BY DEF FoundTo
<1>6. given \in Seq(S \cup {x}) /\ x \in S \cup {x} /\ Len(given) = m
  BY <1>5, SeqMonotonic DEF FoundTo
<1>7. /\ more \in Seq(S \cup {x}) /\ Len(more) = m + 1
      /\ \A p \in 1 .. m : more[p] = given[p]
      /\ more[m + 1] = x
  BY <1>6, AppendProperties
<1>. HIDE DEF more
<1>8. \A p \in 1 .. m : given[p].path \in R!Files /\ Seen(p, given[p].root)
  BY DEF FoundTo, Seen
<1>9. \A p \in 1 .. m + 1 : more[p].path \in R!Files /\ Seen(p, more[p].root)
  <2>. TAKE p \in 1 .. m + 1
  <2>1. p \in 1 .. m \/ p = m + 1
    OBVIOUS
  <2>2. CASE p \in 1 .. m
    BY <1>7, <1>8, <2>2
  <2>3. CASE p = m + 1
    BY <1>3, <1>4, <1>7, <2>3
  <2>. QED
    BY <2>1, <2>2, <2>3
<1>10. ASSUME NEW j \in lines, R!RankIn(lines, j) <= m + 1
       PROVE  R!Find(rs, R!BlockOf(tab, j), tab[j].name).status = "ok"
  <2>1. CASE R!RankIn(lines, j) = m + 1
    <3>1. j = i
      BY <1>1, <1>2, <2>1, RankInjective
    <3>. QED
      BY <1>1, <3>1
  <2>2. CASE R!RankIn(lines, j) # m + 1
    <3>1. R!RankIn(lines, j) <= m
      BY <1>2, <1>10, <2>2
    <3>. QED
      BY <3>1 DEF FoundTo, lines
  <2>. QED
    BY <2>1, <2>2
<1>. QED
  BY <1>7, <1>9, <1>10, SMTT(60) DEF FoundTo, lines, Seen, more, x

\* An import that is not found is one the table should not list.
LEMMA ImportNotFound ==
    ASSUME NEW tab \in Tables, PlacedTo(tab, Len(tab)), NEW known,
           PreludeTo(tab, Len(tab), known), NEW names,
           ImportsTo(tab, Len(tab), names), NEW m \in Nat, m < Len(names),
           R!Find(R!RootsOf(R!BlocksOf(tab)), known, names[m + 1]).status # "ok"
    PROVE  ~R!WellFormed(tab)
<1>1. PICK i \in R!LinesOf(tab, {"import"}) :
          names[m + 1] = tab[i].name /\ R!BlockOf(tab, i) = known
  BY ImportAt
<1>2. ~R!PreludeIsFound(tab)
  BY <1>1 DEF R!PreludeIsFound
<1>. QED
  BY <1>2 DEF R!WellFormed

\* When all are found, the table says something.
LEMMA AllFound ==
    ASSUME NEW tab \in Tables, PlacedTo(tab, Len(tab)), NEW known, NEW names,
           ImportsTo(tab, Len(tab), names), R!BlocksAgree(R!BlocksOf(tab)),
           NEW given, FoundTo(tab, known, names, Len(names), given)
    PROVE  R!WellFormed(tab)
<1>. DEFINE lines == R!LinesOf(tab, {"import"})
<1>1. lines \in LineNumbers /\ lines \in SUBSET (1 .. Len(tab)) /\ Len(tab) \in Nat
  BY LinesType
<1>2. Len(names) = R!RankIn(lines, Len(tab))
  BY DEF ImportsTo
<1>. HIDE DEF lines
<1>3. ASSUME NEW i \in lines PROVE R!RankIn(lines, i) <= Len(names)
  <2>1. i <= Len(tab)
    BY <1>1
  <2>2. R!RankIn(lines, i) \in 1 .. R!RankIn(lines, Len(tab))
    BY <1>1, <2>1, RankWithin
  <2>. QED
    BY <1>2, <2>2
<1>4. R!PreludeIsFound(tab)
  BY <1>3 DEF R!PreludeIsFound, FoundTo, lines
<1>. QED
  BY <1>4, LinesPlaced DEF R!WellFormed

-----------------------------------------------------------------------------
(* What reading a table keeps: the lines read so far, then the dependencies *)
(* resolved so far, then the imports found so far, are what the table says. *)

AtTop == /\ number = 0 /\ block = 0 /\ preludeBlock = 0
         /\ roots = <<>> /\ prelude = <<>> /\ pending = <<>> /\ imports = <<>>
LinesRead ==
    /\ number \in 0 .. Len(table) /\ block = R!BlockOf(table, number)
    /\ ReadTo(table, number, preludeBlock, pending, imports)
    /\ RootsTo(table, number, roots) /\ prelude = <<>>
AllRead == ReadTo(table, Len(table), preludeBlock, pending, imports)
NeedsResolved ==
    /\ number \in 0 .. Len(pending) /\ AllRead
    /\ ResolvedTo(table, pending, number, roots) /\ prelude = <<>>
ImportsFound(m) ==
    /\ AllRead /\ ResolvedTo(table, pending, Len(pending), roots)
    /\ FoundTo(table, preludeBlock, imports, m, prelude)

TableRead ==
    /\ table \in Tables
    /\ stage = "opening" => AtTop
    /\ stage = "reading" => LinesRead
    /\ stage = "dependencies" => NeedsResolved
    /\ stage = "prelude" => number \in 0 .. Len(imports) /\ ImportsFound(number)
    /\ stage = "loaded" => ImportsFound(Len(imports))
    /\ stage = "failed" => ~R!WellFormed(table)

LEMMA InitTable == R!Init => TableRead
<1>. SUFFICES ASSUME R!Init PROVE TableRead
  OBVIOUS
<1>1. PICK n \in 0 .. MaxLines : table \in [1 .. n -> Lines]
  BY DEF R!Init
<1>2. n \in Nat
  BY TableAssumption DEF R!LinesAssumption
<1>3. table \in Tables
  BY <1>1, <1>2, SeqDef DEF Tables
<1>4. stage = "opening" /\ AtTop
  BY DEF R!Init, AtTop, R!INVALID_ROOT
<1>. QED
  BY <1>3, <1>4 DEF TableRead

LEMMA OpenTable == TableRead /\ R!Open => TableRead'
<1>. SUFFICES ASSUME TableRead, R!Open PROVE TableRead'
  OBVIOUS
<1>1. /\ table' = table /\ number' = 0 /\ roots' = <<>> /\ prelude' = <<>>
      /\ block' = 0 /\ preludeBlock' = 0 /\ pending' = <<>> /\ imports' = <<>>
      /\ stage' = "reading" /\ table \in Tables
  BY DEF TableRead, R!Open, AtTop
<1>2. ReadTo(table, 0, 0, <<>>, <<>>) /\ RootsTo(table, 0, <<>>)
  BY <1>1, ReadToTop
<1>3. /\ R!BlockOf(table, 0) = 0 /\ 0 \in 0 .. Len(table)
  BY <1>1, BlocksType, LinesType
<1>4. LinesRead'
  BY <1>1, <1>2, <1>3 DEF LinesRead
<1>. QED
  BY <1>1, <1>4 DEF TableRead

\* Where a line is read, it is the next.
LEMMA NextLine ==
    ASSUME TableRead, NEW kind_, R!Reading(kind_)
    PROVE  /\ table \in Tables /\ stage = "reading" /\ number \in Nat
           /\ number + 1 \in DOMAIN table /\ number + 1 \in 0 .. Len(table)
           /\ R!Line = table[number + 1] /\ table[number + 1].kind = kind_
           /\ block = R!BlockOf(table, number)
           /\ ReadTo(table, number, preludeBlock, pending, imports)
           /\ RootsTo(table, number, roots) /\ prelude = <<>>
           /\ Len(roots) = R!BlockOf(table, number)
           /\ \E S : roots \in Seq(S)
<1>1. table \in Tables /\ stage = "reading" /\ LinesRead
  BY DEF TableRead, R!Reading
<1>2. Len(table) \in Nat /\ DOMAIN table = 1 .. Len(table)
  BY <1>1, LinesType
<1>3. number \in Nat /\ number < Len(table) /\ R!Line.kind = kind_
  BY <1>1, <1>2 DEF LinesRead, R!Reading
<1>. QED
  BY <1>1, <1>2, <1>3 DEF LinesRead, R!Line, RootsTo

\* A failure is of a table that says nothing.
LEMMA FailTable ==
    TableRead /\ R!Fail /\ ~R!WellFormed(table) => TableRead'
<1>. SUFFICES ASSUME TableRead, R!Fail, ~R!WellFormed(table) PROVE TableRead'
  OBVIOUS
<1>1. table' = table /\ stage' = "failed" /\ table \in Tables
  BY DEF TableRead, R!Fail
<1>2. ~R!WellFormed(table)'
  BY <1>1
<1>. QED
  BY <1>1, <1>2 DEF TableRead

LEMMA HeaderTable == TableRead /\ R!ReadHeader => TableRead'
<1>. SUFFICES ASSUME TableRead, R!ReadHeader PROVE TableRead'
  OBVIOUS
<1>1. R!Reading("root")
  BY DEF R!ReadHeader
<1>2. /\ table \in Tables /\ stage = "reading" /\ number \in Nat
      /\ number + 1 \in DOMAIN table /\ number + 1 \in 0 .. Len(table)
      /\ R!Line = table[number + 1] /\ table[number + 1].kind = "root"
      /\ ReadTo(table, number, preludeBlock, pending, imports)
      /\ RootsTo(table, number, roots) /\ prelude = <<>>
      /\ \E S : roots \in Seq(S)
  BY <1>1, NextLine
<1>. DEFINE path_ == table[number + 1].path
            opened == R!OpenRoot(roots, Head(table[number + 1].name), path_)
<1>3. CASE R!BlockWithPath(path_) # 0
  <2>1. R!Fail
    BY <1>2, <1>3 DEF R!ReadHeader, R!INVALID_ROOT
  <2>2. /\ R!BlockWithPath(path_) \in 1 .. Len(roots)
        /\ roots[R!BlockWithPath(path_)].path = path_
    BY <1>2, <1>3, BlockFound
  <2>3. ~R!WellFormed(table)
    BY <1>2, <2>2, RootRefused
  <2>. QED
    BY <2>1, <2>3, FailTable
<1>4. CASE R!BlockWithPath(path_) = 0
  <2>1. /\ roots' = opened /\ block' = Len(roots) + 1 /\ number' = number + 1
        /\ table' = table /\ stage' = stage /\ prelude' = prelude
        /\ preludeBlock' = preludeBlock /\ pending' = pending
        /\ imports' = imports
    BY <1>2, <1>4 DEF R!ReadHeader, R!INVALID_ROOT
  <2>2. \A b \in 1 .. Len(roots) : roots[b].path # path_
    BY <1>2, <1>4, BlockFound
  <2>3. /\ ReadTo(table, number + 1, preludeBlock, pending, imports)
        /\ RootsTo(table, number + 1, opened)
        /\ R!BlockOf(table, number + 1) = Len(roots) + 1
    BY <1>2, <2>2, RootRead
  <2>. HIDE DEF opened
  <2>4. LinesRead'
    BY <1>2, <2>1, <2>3 DEF LinesRead
  <2>. QED
    BY <1>2, <2>1, <2>4 DEF TableRead
<1>. QED
  BY <1>3, <1>4

LEMMA PreludeHeaderTable == TableRead /\ R!ReadPreludeHeader => TableRead'
<1>. SUFFICES ASSUME TableRead, R!ReadPreludeHeader PROVE TableRead'
  OBVIOUS
<1>1. R!Reading("prelude")
  BY DEF R!ReadPreludeHeader
<1>2. /\ table \in Tables /\ stage = "reading" /\ number \in Nat
      /\ number + 1 \in DOMAIN table /\ number + 1 \in 0 .. Len(table)
      /\ table[number + 1].kind = "prelude"
      /\ ReadTo(table, number, preludeBlock, pending, imports)
      /\ RootsTo(table, number, roots) /\ prelude = <<>>
  BY <1>1, NextLine
<1>3. CASE preludeBlock # 0
  <2>1. R!Fail
    BY <1>3 DEF R!ReadPreludeHeader, R!INVALID_ROOT
  <2>2. ~R!WellFormed(table)
    BY <1>2, <1>3, PreludeRefused DEF ReadTo
  <2>. QED
    BY <2>1, <2>2, FailTable
<1>4. CASE preludeBlock = 0
  <2>. DEFINE opened == Append(roots, [name |-> "prelude", path |-> <<>>,
                                       sees |-> <<>>])
  <2>1. /\ roots' = opened /\ block' = Len(roots) + 1 /\ number' = number + 1
        /\ table' = table /\ stage' = stage /\ prelude' = prelude
        /\ preludeBlock' = Len(roots) + 1 /\ pending' = pending
        /\ imports' = imports
    BY <1>4 DEF R!ReadPreludeHeader, R!INVALID_ROOT, R!NoPath
  <2>2. /\ ReadTo(table, number + 1, Len(roots) + 1, pending, imports)
        /\ RootsTo(table, number + 1, opened)
        /\ R!BlockOf(table, number + 1) = Len(roots) + 1
    BY <1>2, <1>4, PreludeRead
  <2>. HIDE DEF opened
  <2>3. LinesRead'
    BY <1>2, <2>1, <2>2 DEF LinesRead
  <2>. QED
    BY <1>2, <2>1, <2>3 DEF TableRead
<1>. QED
  BY <1>3, <1>4

LEMMA DependencyTable == TableRead /\ R!ReadDependency => TableRead'
<1>. SUFFICES ASSUME TableRead, R!ReadDependency PROVE TableRead'
  OBVIOUS
<1>1. R!Reading("dependency")
  BY DEF R!ReadDependency
<1>2. /\ table \in Tables /\ stage = "reading" /\ number \in Nat
      /\ number + 1 \in DOMAIN table /\ number + 1 \in 0 .. Len(table)
      /\ R!Line = table[number + 1] /\ table[number + 1].kind = "dependency"
      /\ block = R!BlockOf(table, number)
      /\ ReadTo(table, number, preludeBlock, pending, imports)
      /\ RootsTo(table, number, roots) /\ prelude = <<>>
  BY <1>1, NextLine
<1>3. CASE block = 0
  <2>1. R!Fail
    BY <1>3 DEF R!ReadDependency, R!INVALID_ROOT
  <2>2. ~R!WellFormed(table)
    BY <1>2, <1>3, LooseRefused
  <2>. QED
    BY <2>1, <2>2, FailTable
<1>4. CASE block # 0
  <2>. DEFINE more == Append(pending,
                             [block |-> R!BlockOf(table, number),
                              name |-> Head(table[number + 1].name),
                              path |-> table[number + 1].path])
  <2>1. /\ pending' = more /\ block' = block /\ number' = number + 1
        /\ table' = table /\ stage' = stage /\ prelude' = prelude
        /\ preludeBlock' = preludeBlock /\ roots' = roots
        /\ imports' = imports
    BY <1>2, <1>4 DEF R!ReadDependency, R!INVALID_ROOT
  <2>2. /\ ReadTo(table, number + 1, preludeBlock, more, imports)
        /\ RootsTo(table, number + 1, roots)
        /\ R!BlockOf(table, number + 1) = block
    BY <1>2, <1>4, DependencyRead
  <2>. HIDE DEF more
  <2>3. LinesRead'
    BY <1>2, <2>1, <2>2 DEF LinesRead
  <2>. QED
    BY <1>2, <2>1, <2>3 DEF TableRead
<1>. QED
  BY <1>3, <1>4

LEMMA ImportTable == TableRead /\ R!ReadPreludeImport => TableRead'
<1>. SUFFICES ASSUME TableRead, R!ReadPreludeImport PROVE TableRead'
  OBVIOUS
<1>1. R!Reading("import")
  BY DEF R!ReadPreludeImport
<1>2. /\ table \in Tables /\ stage = "reading" /\ number \in Nat
      /\ number + 1 \in DOMAIN table /\ number + 1 \in 0 .. Len(table)
      /\ R!Line = table[number + 1] /\ table[number + 1].kind = "import"
      /\ block = R!BlockOf(table, number)
      /\ ReadTo(table, number, preludeBlock, pending, imports)
      /\ RootsTo(table, number, roots) /\ prelude = <<>>
  BY <1>1, NextLine
<1>3. CASE preludeBlock = 0 \/ block # preludeBlock
  <2>1. R!Fail
    BY <1>3 DEF R!ReadPreludeImport, R!INVALID_ROOT
  <2>2. ~R!WellFormed(table)
    BY <1>2, <1>3, ImportRefused DEF ReadTo
  <2>. QED
    BY <2>1, <2>2, FailTable
<1>4. CASE preludeBlock # 0 /\ block = preludeBlock
  <2>. DEFINE more == Append(imports, table[number + 1].name)
  <2>1. /\ imports' = more /\ block' = block /\ number' = number + 1
        /\ table' = table /\ stage' = stage /\ prelude' = prelude
        /\ preludeBlock' = preludeBlock /\ roots' = roots
        /\ pending' = pending
    BY <1>2, <1>4 DEF R!ReadPreludeImport, R!INVALID_ROOT
  <2>2. /\ ReadTo(table, number + 1, preludeBlock, pending, more)
        /\ RootsTo(table, number + 1, roots)
        /\ R!BlockOf(table, number + 1) = block
    BY <1>2, <1>4, ImportRead
  <2>. HIDE DEF more
  <2>3. LinesRead'
    BY <1>2, <2>1, <2>2 DEF LinesRead
  <2>. QED
    BY <1>2, <2>1, <2>3 DEF TableRead
<1>. QED
  BY <1>3, <1>4

LEMMA BrokenTable == TableRead /\ R!ReadBroken => TableRead'
<1>. SUFFICES ASSUME TableRead, R!ReadBroken PROVE TableRead'
  OBVIOUS
<1>1. R!Reading("broken") /\ R!Fail
  BY DEF R!ReadBroken
<1>2. /\ table \in Tables /\ number + 1 \in DOMAIN table
      /\ table[number + 1].kind = "broken"
  BY <1>1, NextLine
<1>3. ~R!WellFormed(table)
  BY <1>2, BrokenRefused
<1>. QED
  BY <1>1, <1>3, FailTable

\* When the lines are over, none of the dependencies was resolved.
LEMMA EndOfLinesTable == TableRead /\ R!EndOfLines => TableRead'
<1>. SUFFICES ASSUME TableRead, R!EndOfLines PROVE TableRead'
  OBVIOUS
<1>1. /\ table \in Tables /\ LinesRead /\ number = Len(table)
      /\ stage' = "dependencies" /\ number' = 0 /\ table' = table
      /\ roots' = roots /\ prelude' = prelude /\ preludeBlock' = preludeBlock
      /\ pending' = pending /\ imports' = imports
  BY DEF TableRead, R!EndOfLines, R!NextStage
<1>2. /\ ReadTo(table, Len(table), preludeBlock, pending, imports)
      /\ RootsTo(table, Len(table), roots) /\ prelude = <<>>
  BY <1>1 DEF LinesRead
<1>3. pending \in Seq(Wanted)
  BY <1>2 DEF ReadTo, PendingTo, Wanted
<1>4. \A b : R!RankIn(OfBlock(pending, b), 0) = 0
  BY <1>3, OfBlockType, RankZero
<1>5. Len(roots) = R!Cardinality(R!Headers(table))
  BY <1>1, <1>2, BlocksType DEF RootsTo
<1>6. ASSUME NEW b \in 1 .. Len(roots)
      PROVE  LET done == R!RankIn(OfBlock(pending, b), 0)
             IN  /\ roots[b] = RootSaid(table, b, done)
                 /\ \A n \in 1 .. done : NeedAgrees(table, b, n, done)
  <2>1. roots[b] = RootSaid(table, b, 0)
    BY <1>2 DEF RootsTo
  <2>. QED
    BY <1>4, <2>1
<1>7. ResolvedTo(table, pending, 0, roots)
  BY <1>2, <1>5, <1>6 DEF ResolvedTo, RootsTo
<1>8. 0 \in 0 .. Len(pending)
  BY <1>3, LenProperties
<1>9. NeedsResolved'
  BY <1>1, <1>2, <1>7, <1>8 DEF NeedsResolved, AllRead
<1>. QED
  BY <1>1, <1>9 DEF TableRead

LEMMA ResolveTable == TableRead /\ R!ResolveDependency => TableRead'
<1>. SUFFICES ASSUME TableRead, R!ResolveDependency PROVE TableRead'
  OBVIOUS
<1>. DEFINE wanted == pending[number + 1]
            target == R!BlockWithPath(wanted.path)
            after == R!See(roots, wanted.block, wanted.name, target)
<1>1. /\ table \in Tables /\ stage = "dependencies" /\ NeedsResolved
      /\ number < Len(pending)
  BY DEF TableRead, R!ResolveDependency
<1>2. /\ PendingTo(table, Len(table), pending) /\ PathsDiffer(table, Len(table))
      /\ ResolvedTo(table, pending, number, roots) /\ AllRead /\ prelude = <<>>
  BY <1>1 DEF NeedsResolved, AllRead, ReadTo
<1>3. Len(pending) \in Nat
  BY <1>2, LenProperties DEF PendingTo
<1>4. number \in Nat /\ number + 1 \in 0 .. Len(pending)
  BY <1>1, <1>3 DEF NeedsResolved
<1>5. CASE target = 0 \/ ~R!MaySee(roots, wanted.block, wanted.name)
  <2>1. R!Fail
    BY <1>5 DEF R!ResolveDependency, R!INVALID_ROOT
  <2>2. ~R!WellFormed(table)
    BY <1>1, <1>2, <1>4, <1>5, DependencyRefused
  <2>. QED
    BY <2>1, <2>2, FailTable
<1>6. CASE target # 0 /\ R!MaySee(roots, wanted.block, wanted.name)
  <2>1. /\ roots' = after /\ number' = number + 1 /\ table' = table
        /\ stage' = stage /\ prelude' = prelude /\ block' = block
        /\ preludeBlock' = preludeBlock /\ pending' = pending
        /\ imports' = imports
    BY <1>6 DEF R!ResolveDependency, R!INVALID_ROOT
  <2>2. ResolvedTo(table, pending, number + 1, after)
    BY <1>1, <1>2, <1>4, <1>6, DependencyResolved
  <2>. HIDE DEF after
  <2>3. NeedsResolved'
    BY <1>2, <1>4, <2>1, <2>2 DEF NeedsResolved, AllRead
  <2>. QED
    BY <1>1, <2>1, <2>3 DEF TableRead
<1>. QED
  BY <1>5, <1>6

\* When the dependencies are over, none of the imports was found.
LEMMA EndOfNeedsTable == TableRead /\ R!EndOfDependencies => TableRead'
<1>. SUFFICES ASSUME TableRead, R!EndOfDependencies PROVE TableRead'
  OBVIOUS
<1>1. /\ table \in Tables /\ NeedsResolved /\ number = Len(pending)
      /\ stage' = "prelude" /\ number' = 0 /\ table' = table
      /\ roots' = roots /\ prelude' = prelude /\ preludeBlock' = preludeBlock
      /\ pending' = pending /\ imports' = imports
  BY DEF TableRead, R!EndOfDependencies, R!NextStage
<1>2. /\ AllRead /\ ResolvedTo(table, pending, Len(pending), roots)
      /\ prelude = <<>>
  BY <1>1 DEF NeedsResolved
<1>. DEFINE lines == R!LinesOf(table, {"import"})
<1>3. lines \in LineNumbers
  BY <1>1, LinesType
<1>4. ASSUME NEW i \in lines PROVE ~ (R!RankIn(lines, i) <= 0)
  <2>1. i \in Nat
    BY <1>3, LineNumber
  <2>2. R!RankIn(lines, i) \in 1 .. R!RankIn(lines, i)
    <3>. HIDE DEF lines
    <3>. QED
      BY <1>3, <2>1, RankWithin
  <2>3. R!RankIn(lines, i) \in Nat
    <3>. HIDE DEF lines
    <3>. QED
      BY <1>3, <2>1, RankType
  <2>. QED
    BY <2>2, <2>3
<1>5. prelude \in Seq({0}) /\ Len(prelude) = 0
  BY <1>2, EmptySeq
<1>6. FoundTo(table, preludeBlock, imports, 0, prelude)
  BY <1>4, <1>5 DEF FoundTo
<1>7. imports \in Seq(Seq(STRING))
  BY <1>2 DEF AllRead, ReadTo, ImportsTo
<1>8. 0 \in 0 .. Len(imports)
  BY <1>7, LenProperties
<1>9. ImportsFound(0)'
  BY <1>1, <1>2, <1>6 DEF ImportsFound, AllRead
<1>. QED
  BY <1>1, <1>8, <1>9 DEF TableRead

\* What an import is asked in.
LEMMA AskedIn ==
    ASSUME table \in Tables, NEW m, ImportsFound(m)
    PROVE  /\ PlacedTo(table, Len(table))
           /\ PreludeTo(table, Len(table), preludeBlock)
           /\ ImportsTo(table, Len(table), imports)
           /\ PathsDiffer(table, Len(table))
           /\ PendingTo(table, Len(table), pending)
           /\ roots = R!RootsOf(R!BlocksOf(table)) /\ ViewsAreRoots(roots)
           /\ R!BlocksAgree(R!BlocksOf(table))
           /\ DOMAIN roots = DOMAIN R!BlocksOf(table)
           /\ FoundTo(table, preludeBlock, imports, m, prelude)
           /\ Len(imports) \in Nat
<1>1. /\ PlacedTo(table, Len(table))
      /\ PreludeTo(table, Len(table), preludeBlock)
      /\ ImportsTo(table, Len(table), imports)
      /\ PathsDiffer(table, Len(table))
      /\ PendingTo(table, Len(table), pending)
      /\ ResolvedTo(table, pending, Len(pending), roots)
      /\ FoundTo(table, preludeBlock, imports, m, prelude)
  BY DEF ImportsFound, AllRead, ReadTo
<1>2. /\ roots = R!RootsOf(R!BlocksOf(table))
      /\ R!BlocksAgree(R!BlocksOf(table))
      /\ DOMAIN roots = DOMAIN R!BlocksOf(table)
  BY <1>1, AllResolved
<1>3. ViewsAreRoots(roots)
  BY <1>1, RootsAreSeen
<1>4. Len(imports) \in Nat
  BY <1>1, LenProperties DEF ImportsTo
<1>. QED
  BY <1>1, <1>2, <1>3, <1>4

LEMMA FindTable == TableRead /\ R!ResolvePrelude => TableRead'
<1>. SUFFICES ASSUME TableRead, R!ResolvePrelude PROVE TableRead'
  OBVIOUS
<1>. DEFINE result == R!Find(roots, preludeBlock, imports[number + 1])
            more == Append(prelude, [path |-> result.path, root |-> result.root])
<1>1. /\ table \in Tables /\ stage = "prelude" /\ ImportsFound(number)
      /\ number < Len(imports) /\ number \in 0 .. Len(imports)
  BY DEF TableRead, R!ResolvePrelude
<1>2. /\ PlacedTo(table, Len(table))
      /\ PreludeTo(table, Len(table), preludeBlock)
      /\ ImportsTo(table, Len(table), imports)
      /\ roots = R!RootsOf(R!BlocksOf(table)) /\ ViewsAreRoots(roots)
      /\ DOMAIN roots = DOMAIN R!BlocksOf(table)
      /\ FoundTo(table, preludeBlock, imports, number, prelude)
      /\ Len(imports) \in Nat
  BY <1>1, AskedIn
<1>3. number \in Nat /\ number + 1 \in 0 .. Len(imports)
  BY <1>1, <1>2
<1>4. CASE result.status # "ok"
  <2>1. R!Fail
    BY <1>4 DEF R!ResolvePrelude
  <2>2. ~R!WellFormed(table)
    BY <1>1, <1>2, <1>3, <1>4, ImportNotFound
  <2>. QED
    BY <2>1, <2>2, FailTable
<1>5. CASE result.status = "ok"
  <2>1. /\ prelude' = more /\ number' = number + 1 /\ table' = table
        /\ stage' = stage /\ roots' = roots /\ block' = block
        /\ preludeBlock' = preludeBlock /\ pending' = pending
        /\ imports' = imports
    BY <1>5 DEF R!ResolvePrelude
  <2>2. FoundTo(table, preludeBlock, imports, number + 1, more)
    <3>. HIDE DEF result
    <3>1. result = R!Find(roots, preludeBlock, imports[number + 1])
      BY DEF result
    <3>. QED
      BY <1>1, <1>2, <1>3, <1>5, <3>1, ImportFound
  <2>. HIDE DEF more
  <2>3. ImportsFound(number)'
    BY <1>1, <2>1, <2>2 DEF ImportsFound, AllRead
  <2>. QED
    BY <1>1, <1>3, <2>1, <2>3 DEF TableRead
<1>. QED
  BY <1>4, <1>5

LEMMA EndOfPreludeTable == TableRead /\ R!EndOfPrelude => TableRead'
<1>. SUFFICES ASSUME TableRead, R!EndOfPrelude PROVE TableRead'
  OBVIOUS
<1>1. /\ table \in Tables /\ ImportsFound(number) /\ number = Len(imports)
      /\ stage' = "loaded" /\ table' = table
      /\ roots' = roots /\ prelude' = prelude /\ preludeBlock' = preludeBlock
      /\ pending' = pending /\ imports' = imports
  BY DEF TableRead, R!EndOfPrelude, R!NextStage
<1>2. ImportsFound(Len(imports))'
  BY <1>1 DEF ImportsFound, AllRead
<1>. QED
  BY <1>1, <1>2 DEF TableRead

LEMMA NextTable == TableRead /\ (R!Next \/ UNCHANGED R!vars) => TableRead'
<1>. SUFFICES ASSUME TableRead, R!Next \/ UNCHANGED R!vars PROVE TableRead'
  OBVIOUS
<1>1. CASE R!CannotOpen
  BY <1>1 DEF TableRead, R!CannotOpen
<1>2. CASE UNCHANGED R!vars
  BY <1>2 DEF R!vars, TableRead, AtTop, LinesRead, NeedsResolved,
              ImportsFound, AllRead
<1>3. CASE R!Done
  BY <1>2, <1>3 DEF R!Done
<1>. QED
  BY <1>1, <1>2, <1>3, OpenTable, HeaderTable, PreludeHeaderTable,
     DependencyTable, ImportTable, BrokenTable, EndOfLinesTable, ResolveTable,
     EndOfNeedsTable, FindTable, EndOfPreludeTable DEF R!Next

LEMMA TableMeant ==
    TableRead => /\ R!LoadsWhatIsWritten
                 /\ R!RefusesOnlyTheUnreadable /\ R!PreludeIsSeen
<1>. SUFFICES ASSUME TableRead
              PROVE  /\ R!LoadsWhatIsWritten
                     /\ R!RefusesOnlyTheUnreadable /\ R!PreludeIsSeen
  OBVIOUS
<1>1. CASE stage # "loaded"
  BY <1>1 DEF TableRead, R!LoadsWhatIsWritten, R!RefusesOnlyTheUnreadable,
              R!PreludeIsSeen
<1>2. CASE stage = "loaded"
  <2>1. table \in Tables /\ ImportsFound(Len(imports))
    BY <1>2 DEF TableRead
  <2>2. /\ roots = R!RootsOf(R!BlocksOf(table))
        /\ PlacedTo(table, Len(table))
        /\ ImportsTo(table, Len(table), imports)
        /\ R!BlocksAgree(R!BlocksOf(table))
        /\ FoundTo(table, preludeBlock, imports, Len(imports), prelude)
    BY <2>1, AskedIn
  <2>3. R!WellFormed(table)
    BY <2>1, <2>2, AllFound
  <2>4. DOMAIN prelude = 1 .. Len(imports)
    BY <2>2, LenProperties DEF FoundTo
  <2>5. \A p \in 1 .. Len(imports) :
           /\ prelude[p].path \in R!Files
           /\ R!Sees(Head(imports[p]), prelude[p].root)
                 \in {roots[preludeBlock].sees[j] :
                        j \in DOMAIN roots[preludeBlock].sees}
    BY <2>2 DEF FoundTo
  <2>6. R!PreludeIsSeen
    BY <2>4, <2>5 DEF R!PreludeIsSeen
  <2>. QED
    BY <1>2, <2>2, <2>3, <2>6 DEF R!LoadsWhatIsWritten,
                                  R!RefusesOnlyTheUnreadable
<1>. QED
  BY <1>1, <1>2

-----------------------------------------------------------------------------
(* The manifests, and the directories the program's own reaches.           *)

LEMMA ManifestType ==
    ASSUME disk \in Manifests, NEW dir \in DOMAIN disk
    PROVE  /\ Program \in DOMAIN disk /\ dir # <<>>
           /\ disk[dir].name \in STRING
           /\ Len(disk[dir].needs) \in Nat
           /\ DOMAIN disk[dir].needs = 1 .. Len(disk[dir].needs)
           /\ \A n \in 1 .. Len(disk[dir].needs) :
                 /\ disk[dir].needs[n].name \in STRING
                 /\ disk[dir].needs[n].path \in DOMAIN disk \cup {<<>>}
           /\ disk[dir].prelude \in Seq(Seq(STRING))
           /\ Len(disk[dir].prelude) \in Nat
<1>. DEFINE asks == [name : STRING, path : DOMAIN disk \cup {<<>>}]
            needs == disk[dir].needs
<1>1. /\ Program \in DOMAIN disk /\ dir # <<>> /\ disk[dir].name \in STRING
      /\ needs \in Seq(asks) /\ disk[dir].prelude \in Seq(Seq(STRING))
  BY PackagesAssumption DEF P!ManifestsAssumption, P!NoPath
<1>2. Len(needs) \in Nat /\ DOMAIN needs = 1 .. Len(needs)
  BY <1>1, LenProperties
<1>3. \A n \in 1 .. Len(needs) : needs[n] \in asks
  BY <1>1, ElementOfSeq
<1>4. Len(disk[dir].prelude) \in Nat
  BY <1>1, LenProperties
<1>. QED
  BY <1>1, <1>2, <1>3, <1>4

\* The program is in reach, and so is what is needed by what is.
LEMMA ProgramInReach ==
    ASSUME disk \in Manifests
    PROVE  Program \in P!InReach
<1>1. Program \in DOMAIN disk
  BY PackagesAssumption DEF P!ManifestsAssumption
<1>. QED
  BY <1>1 DEF P!InReach, P!IsClosed, P!Dirs

LEMMA NeedInReach ==
    ASSUME disk \in Manifests, NEW dir \in P!InReach,
           NEW n \in 1 .. Len(disk[dir].needs), disk[dir].needs[n].path # <<>>
    PROVE  dir \in DOMAIN disk /\ disk[dir].needs[n].path \in P!InReach
<1>. DEFINE to == disk[dir].needs[n].path
<1>1. dir \in DOMAIN disk
  BY DEF P!InReach, P!Dirs
<1>2. DOMAIN disk[dir].needs = 1 .. Len(disk[dir].needs) /\ to \in DOMAIN disk
  BY <1>1, ManifestType
<1>3. to \in P!Needed(dir)
  BY <1>2 DEF P!Needed, P!NoPath
<1>4. \A dirs \in SUBSET DOMAIN disk :
         P!IsClosed(dirs) => dir \in dirs
  BY DEF P!InReach, P!Dirs
<1>. HIDE DEF to
<1>5. \A dirs \in SUBSET DOMAIN disk : P!IsClosed(dirs) => to \in dirs
  BY <1>3, <1>4 DEF P!IsClosed
<1>6. to \in P!InReach
  BY <1>2, <1>5 DEF P!InReach, P!Dirs, to
<1>. QED
  BY <1>1, <1>6 DEF to

\* A set that is closed holds all that is in reach.
LEMMA ClosedHoldsReach ==
    ASSUME NEW dirs \in SUBSET DOMAIN disk, P!IsClosed(dirs)
    PROVE  P!InReach \subseteq dirs
BY DEF P!InReach, P!Dirs

\* A manifest nothing is wrong with.
Readable(dir) ==
    /\ disk[dir].reads
    /\ \A i \in DOMAIN disk[dir].needs :
          /\ disk[dir].needs[i].path # <<>>
          /\ disk[dir].needs[i].name # disk[dir].name
          /\ \A j \in DOMAIN disk[dir].needs :
                disk[dir].needs[i].name = disk[dir].needs[j].name => i = j
AllReadable == \A dir \in P!InReach : Readable(dir)

-----------------------------------------------------------------------------
(* What the walk has come to: the packages met, the manifests being read    *)
(* and how far, and what each root sees by then.                            *)

SeesRecords == [name : STRING, root : Nat]
RootRecords(d) == [name : STRING, path : DOMAIN d, sees : Seq(SeesRecords)]
Frames(d) == [dir : DOMAIN d, root : Nat, at : Nat]

\* A root is a directory, one of them, in reach, whose manifest reads.
PackagesMet(d, pk, rs, reach) ==
    /\ rs \in Seq(RootRecords(d)) /\ DOMAIN pk = DOMAIN d
    /\ \A dir \in DOMAIN d :
          /\ pk[dir] \in 0 .. Len(rs)
          /\ pk[dir] # 0 => rs[pk[dir]].path = dir /\ dir \in reach
                               /\ d[dir].reads /\ rs[pk[dir]].name = d[dir].name
    /\ \A r \in 1 .. Len(rs) : pk[rs[r].path] = r
PackagesAre(d, pk, rs, reach) ==
    PackagesMet(d, pk, rs, reach) /\ pk[Program] = 1

\* The manifests being read were met one from the other, and none twice.
StackIs(d, pk, st) ==
    /\ st \in Seq(Frames(d))
    /\ \A i \in 1 .. Len(st) :
          /\ st[i].root = pk[st[i].dir] /\ st[i].root # 0
          /\ st[i].at \in 1 .. Len(d[st[i].dir].needs) + 1
    /\ \A i, j \in 1 .. Len(st) : st[i].dir = st[j].dir => i = j
    /\ \A i \in 1 .. Len(st) : i + 1 \in 1 .. Len(st) =>
          /\ st[i].at \in 1 .. Len(d[st[i].dir].needs)
          /\ d[st[i].dir].needs[st[i].at].path = st[i + 1].dir
    /\ st # <<>> => st[1].dir = Program

\* A need that was met, among so many of its manifest.
NeedIsMet(d, pk, dir, n, m) ==
    LET need == d[dir].needs[n]
    IN /\ need.path \in DOMAIN d /\ need.path # <<>> /\ pk[need.path] # 0
       /\ need.name # d[dir].name
       /\ \A o \in 1 .. m : d[dir].needs[o].name = need.name => o = n

\* A root sees itself and the first m things it needs.
FilledTo(d, pk, rs, dir, m) ==
    LET seen == rs[pk[dir]].sees
    IN /\ Len(seen) = m + 1
       /\ seen[1] = R!Sees(d[dir].name, pk[dir])
       /\ \A n \in 1 .. m :
             /\ seen[n + 1] = R!Sees(d[dir].needs[n].name,
                                     pk[d[dir].needs[n].path])
             /\ NeedIsMet(d, pk, dir, n, m)

Filled(d, pk, rs, st) ==
    /\ \A i \in 1 .. Len(st) : FilledTo(d, pk, rs, st[i].dir, st[i].at - 1)
    /\ \A dir \in DOMAIN d :
          pk[dir] # 0 /\ (\A i \in 1 .. Len(st) : st[i].dir # dir) =>
             FilledTo(d, pk, rs, dir, Len(d[dir].needs))

\* What Filled says of a stack, put together from its two halves.
LEMMA FilledByParts ==
    ASSUME NEW d, NEW pk, NEW rs, NEW st, NEW n, Len(st) = n,
           \A i \in 1 .. n : FilledTo(d, pk, rs, st[i].dir, st[i].at - 1),
           \A dir \in DOMAIN d :
              pk[dir] # 0 /\ (\A i \in 1 .. n : st[i].dir # dir) =>
                 FilledTo(d, pk, rs, dir, Len(d[dir].needs))
    PROVE  Filled(d, pk, rs, st)
  BY DEF Filled

\* What the last intern gave back is what its caller asked for.
AnswerIs(d, pk, st, given) ==
    given # -1 =>
       IF st = <<>> THEN given = pk[Program]
       ELSE LET top == st[Len(st)]
            IN /\ top.at \in 1 .. Len(d[top.dir].needs)
               /\ d[top.dir].needs[top.at].path \in DOMAIN d
               /\ d[top.dir].needs[top.at].path # <<>>
               /\ given = pk[d[top.dir].needs[top.at].path]

WalkIs(d, pk, rs, st, given) ==
    StackIs(d, pk, st) /\ Filled(d, pk, rs, st) /\ AnswerIs(d, pk, st, given)

PackagesWalked ==
    /\ PackagesAre(disk, packages, roots, P!InReach)
    /\ prelude = <<>> /\ asked = 0
    /\ IF answer = 0 THEN ~AllReadable
       ELSE WalkIs(disk, packages, roots, stack, answer)
       /\ (stack = <<>> => answer # -1)

PackagesLoaded(m) ==
    /\ PackagesAre(disk, packages, roots, P!InReach)
    /\ stack = <<>> /\ Filled(disk, packages, roots, stack)
    /\ answer = 1 /\ asked = m /\ m \in 0 .. Len(disk[Program].prelude)

PackagesRead ==
    /\ disk \in Manifests
    /\ stage \in {"manifest", "packages", "prelude", "loaded", "failed"}
    /\ stage = "manifest" =>
          /\ roots = <<>> /\ prelude = <<>> /\ stack = <<>> /\ asked = 0
          /\ packages = [dir \in DOMAIN disk |-> 0]
    /\ stage = "packages" => PackagesWalked
    /\ stage = "prelude" => PackagesLoaded(asked)
    /\ stage = "loaded" => PackagesLoaded(Len(disk[Program].prelude))
    /\ stage = "failed" =>
          /\ roots = <<>> /\ prelude = <<>>
          /\ AllReadable => asked < Len(disk[Program].prelude)

\* The map with one directory more, and the walk with one manifest more.
Met(pk, dir, r) == [pk EXCEPT ![dir] = r]
Deeper(st, dir, r) == Append(st, [dir |-> dir, root |-> r, at |-> 1])

\* A root more, of a directory that was not met.
LEMMA OnePackageMore ==
    ASSUME NEW d, NEW pk, NEW rs, NEW reach, PackagesMet(d, pk, rs, reach),
           NEW dir \in DOMAIN d, pk[dir] = 0, dir \in reach, d[dir].reads,
           d[dir].name \in STRING
    PROVE  LET r == Len(rs) + 1
               more == R!OpenRoot(rs, d[dir].name, dir)
               now == Met(pk, dir, r)
           IN  /\ PackagesMet(d, now, more, reach)
               /\ r \in Nat /\ r # 0 /\ now[dir] = r /\ DOMAIN now = DOMAIN pk
               /\ \A e \in DOMAIN d : e # dir => now[e] = pk[e]
               /\ \A e \in DOMAIN d : pk[e] # 0 => more[pk[e]] = rs[pk[e]]
               /\ FilledTo(d, now, more, dir, 0)
<1>. DEFINE r == Len(rs) + 1
            x == R!Sees(d[dir].name, r)
            root == [name |-> d[dir].name, path |-> dir, sees |-> <<x>>]
            more == R!OpenRoot(rs, d[dir].name, dir)
            now == Met(pk, dir, r)
<1>0. more = Append(rs, root)
  BY DEF R!OpenRoot
<1>1. /\ rs \in Seq(RootRecords(d)) /\ DOMAIN pk = DOMAIN d
      /\ \A e \in DOMAIN d :
            /\ pk[e] \in 0 .. Len(rs)
            /\ pk[e] # 0 => rs[pk[e]].path = e /\ e \in reach
                               /\ d[e].reads /\ rs[pk[e]].name = d[e].name
      /\ \A i \in 1 .. Len(rs) : pk[rs[i].path] = i
  BY DEF PackagesMet
<1>2. Len(rs) \in Nat /\ r \in Nat /\ r # 0 /\ r \notin 1 .. Len(rs)
      /\ \A i \in 1 .. r : i \in 1 .. Len(rs) \/ i = r
  <2>1. Len(rs) \in Nat
    BY <1>1, LenProperties
  <2>. QED
    BY <2>1
<1>3. \A i \in 1 .. Len(rs) : rs[i] \in RootRecords(d)
  BY <1>1, ElementOfSeq
<1>. HIDE DEF r, more, now
<1>4. x \in SeesRecords
  BY <1>2 DEF R!Sees, SeesRecords
<1>. HIDE DEF x
<1>5. <<x>> \in Seq(SeesRecords) /\ Len(<<x>>) = 1 /\ <<x>>[1] = x
  BY <1>4, OneElement
<1>6. root \in RootRecords(d)
  BY <1>5 DEF RootRecords
<1>7. root.name = d[dir].name /\ root.path = dir /\ root.sees = <<x>>
  OBVIOUS
<1>. HIDE DEF root
<1>8. /\ more \in Seq(RootRecords(d)) /\ Len(more) = r
      /\ \A i \in 1 .. Len(rs) : more[i] = rs[i]
      /\ more[r] = root
  BY <1>0, <1>1, <1>6, AppendProperties DEF r
<1>9. /\ now[dir] = r /\ DOMAIN now = DOMAIN d
      /\ \A e \in DOMAIN d : e # dir => now[e] = pk[e]
  BY <1>1 DEF Met, now
<1>10. \A e \in DOMAIN d : pk[e] # 0 => pk[e] \in 1 .. Len(rs) /\ e # dir
  BY <1>1, <1>2
<1>11. \A e \in DOMAIN d : pk[e] # 0 => more[pk[e]] = rs[pk[e]]
  BY <1>8, <1>10
<1>12. ASSUME NEW e \in DOMAIN d
       PROVE  /\ now[e] \in 0 .. Len(more)
              /\ now[e] # 0 => more[now[e]].path = e /\ e \in reach
                                /\ d[e].reads /\ more[now[e]].name = d[e].name
  <2>1. CASE e = dir
    BY <1>2, <1>7, <1>8, <1>9, <2>1
  <2>2. CASE e # dir
    <3>1. now[e] = pk[e] /\ pk[e] \in 0 .. Len(rs)
      BY <1>1, <1>9, <2>2
    <3>2. now[e] \in 0 .. Len(more)
      <4>1. Len(more) = Len(rs) + 1
        BY <1>8 DEF r
      <4>. QED
        BY <1>2, <3>1, <4>1
    <3>. QED
      BY <1>1, <1>11, <3>1, <3>2
  <2>. QED
    BY <2>1, <2>2
<1>13. ASSUME NEW i \in 1 .. Len(more) PROVE now[more[i].path] = i
  <2>1. CASE i = r
    BY <1>7, <1>8, <1>9, <2>1
  <2>2. CASE i \in 1 .. Len(rs)
    <3>1. more[i] = rs[i] /\ pk[rs[i].path] = i /\ rs[i].path \in DOMAIN d
      BY <1>1, <1>3, <1>8, <2>2 DEF RootRecords
    <3>2. rs[i].path # dir
      BY <1>2, <2>2, <3>1
    <3>. QED
      BY <1>9, <3>1, <3>2
  <2>. QED
    BY <1>2, <1>8, <2>1, <2>2
<1>14. PackagesMet(d, now, more, reach)
  BY <1>8, <1>9, <1>12, <1>13 DEF PackagesMet
<1>15. FilledTo(d, now, more, dir, 0)
  <2>1. more[now[dir]].sees = <<x>>
    BY <1>7, <1>8, <1>9
  <2>2. /\ Len(more[now[dir]].sees) = 0 + 1
        /\ more[now[dir]].sees[1] = R!Sees(d[dir].name, now[dir])
    BY <1>5, <1>9, <2>1 DEF x
  <2>. QED
    BY <2>2 DEF FilledTo
<1>. QED
  BY <1>1, <1>2, <1>9, <1>11, <1>14, <1>15 DEF now, more, r

\* What a root sees stays when a directory is met that was not.
LEMMA FilledStays ==
    ASSUME NEW d, NEW pk, NEW rs, NEW now, NEW more, NEW dir \in DOMAIN d,
           pk[dir] # 0, NEW m, FilledTo(d, pk, rs, dir, m),
           \A e \in DOMAIN d : pk[e] # 0 => now[e] = pk[e],
           more[pk[dir]] = rs[pk[dir]]
    PROVE  FilledTo(d, now, more, dir, m)
<1>1. now[dir] = pk[dir]
  OBVIOUS
<1>2. ASSUME NEW n \in 1 .. m
      PROVE  /\ NeedIsMet(d, now, dir, n, m)
             /\ now[d[dir].needs[n].path] = pk[d[dir].needs[n].path]
  <2>1. NeedIsMet(d, pk, dir, n, m)
    BY DEF FilledTo
  <2>2. now[d[dir].needs[n].path] = pk[d[dir].needs[n].path]
    BY <2>1 DEF NeedIsMet
  <2>. QED
    BY <2>1, <2>2 DEF NeedIsMet
<1>. QED
  BY <1>1, <1>2 DEF FilledTo

\* Who is to be read next: the program, or what the one on top needs.
AsksFor(d, st, dir) ==
    \/ st = <<>> /\ dir = Program
    \/ LET top == st[Len(st)]
       IN /\ st # <<>> /\ top.at \in 1 .. Len(d[top.dir].needs)
          /\ d[top.dir].needs[top.at].path = dir

\* A manifest more is being read, for the one on top or for the program.
DeeperIs(d, pk, rs, st, reach, dir) ==
    LET r == Len(rs) + 1
        more == R!OpenRoot(rs, d[dir].name, dir)
        now == Met(pk, dir, r)
        deeper == Deeper(st, dir, r)
    IN  /\ PackagesMet(d, now, more, reach) /\ StackIs(d, now, deeper)
        /\ Filled(d, now, more, deeper) /\ deeper # <<>>
        /\ now[dir] = r /\ \A e \in DOMAIN d : pk[e] # 0 => now[e] = pk[e]

LEMMA OneFrameMore ==
    ASSUME NEW d, NEW pk, NEW rs, NEW st, NEW reach,
           PackagesMet(d, pk, rs, reach), StackIs(d, pk, st),
           Filled(d, pk, rs, st),
           NEW dir \in DOMAIN d, pk[dir] = 0, dir \in reach, d[dir].reads,
           d[dir].name \in STRING, Len(d[dir].needs) \in Nat,
           AsksFor(d, st, dir)
    PROVE  DeeperIs(d, pk, rs, st, reach, dir)
<1>. DEFINE r == Len(rs) + 1
            more == R!OpenRoot(rs, d[dir].name, dir)
            now == Met(pk, dir, r)
            frame == [dir |-> dir, root |-> r, at |-> 1]
            deeper == Deeper(st, dir, r)
            n == Len(st)
<1>1. deeper = Append(st, frame)
  BY DEF Deeper
<1>2. /\ PackagesMet(d, now, more, reach)
      /\ r \in Nat /\ r # 0 /\ now[dir] = r
      /\ \A e \in DOMAIN d : e # dir => now[e] = pk[e]
      /\ \A e \in DOMAIN d : pk[e] # 0 => more[pk[e]] = rs[pk[e]]
      /\ FilledTo(d, now, more, dir, 0)
  BY OnePackageMore
<1>. HIDE DEF more, now, r, deeper
<1>3. \A e \in DOMAIN d : pk[e] # 0 => now[e] = pk[e]
  BY <1>2
<1>4. frame \in Frames(d)
  BY <1>2 DEF Frames
<1>5. frame.dir = dir /\ frame.root = r /\ frame.at = 1
  OBVIOUS
<1>. HIDE DEF frame
<1>6. /\ st \in Seq(Frames(d))
      /\ \A i \in 1 .. n :
            /\ st[i].root = pk[st[i].dir] /\ st[i].root # 0
            /\ st[i].at \in 1 .. Len(d[st[i].dir].needs) + 1
      /\ \A i, j \in 1 .. n : st[i].dir = st[j].dir => i = j
      /\ \A i \in 1 .. n : i + 1 \in 1 .. n =>
            /\ st[i].at \in 1 .. Len(d[st[i].dir].needs)
            /\ d[st[i].dir].needs[st[i].at].path = st[i + 1].dir
      /\ st # <<>> => st[1].dir = Program
  BY DEF StackIs
<1>7. n \in Nat /\ (st # <<>> <=> n # 0)
  <2>1. n \in Nat /\ (st # <<>> => n # 0)
    BY <1>6, EmptySeq, LenProperties
  <2>2. st = <<>> => n = 0
    BY EmptySeq
  <2>. QED
    BY <2>1, <2>2
<1>8. /\ deeper \in Seq(Frames(d)) /\ Len(deeper) = n + 1 /\ deeper # <<>>
      /\ \A i \in 1 .. n : deeper[i] = st[i]
      /\ deeper[n + 1] = frame
  <2>1. st \in Seq(Frames(d))
    BY <1>6
  <2>. QED
    BY <1>1, <1>4, <2>1, AppendProperties
<1>9. \A i \in 1 .. n : /\ st[i].dir \in DOMAIN d /\ pk[st[i].dir] # 0
                        /\ st[i].dir # dir
  <2>1. \A i \in 1 .. n : st[i] \in Frames(d)
    BY <1>6, ElementOfSeq
  <2>. QED
    BY <1>6, <2>1, SMTT(60) DEF Frames
<1>. HIDE DEF n
<1>10. \A i \in 1 .. n + 1 : i \in 1 .. n \/ i = n + 1
  BY <1>7
<1>11. StackIs(d, now, deeper)
  <2>1. ASSUME NEW i \in 1 .. n + 1
        PROVE  /\ deeper[i].root = now[deeper[i].dir] /\ deeper[i].root # 0
               /\ deeper[i].at \in 1 .. Len(d[deeper[i].dir].needs) + 1
    <3>1. CASE i \in 1 .. n
      <4>1. deeper[i] = st[i]
        BY <1>8, <3>1
      <4>2. now[st[i].dir] = pk[st[i].dir]
        BY <1>3, <1>9, <3>1
      <4>. QED
        BY <1>6, <3>1, <4>1, <4>2, SMTT(60)
    <3>2. CASE i = n + 1
      <4>1. deeper[i].root = now[deeper[i].dir] /\ deeper[i].root # 0
        BY <1>2, <1>5, <1>8, <3>2
      <4>2. 1 \in 1 .. Len(d[dir].needs) + 1
        OBVIOUS
      <4>3. deeper[i].at \in 1 .. Len(d[deeper[i].dir].needs) + 1
        BY <1>5, <1>8, <3>2, <4>2
      <4>. QED
        BY <4>1, <4>3
    <3>. QED
      BY <1>10, <3>1, <3>2
  <2>2. \A i, j \in 1 .. n + 1 : deeper[i].dir = deeper[j].dir => i = j
    <3>. TAKE i, j \in 1 .. n + 1
    <3>. HAVE deeper[i].dir = deeper[j].dir
    <3>1. CASE i \in 1 .. n /\ j \in 1 .. n
      BY <1>6, <1>8, <3>1
    <3>2. CASE i = n + 1 /\ j \in 1 .. n
      BY <1>5, <1>8, <1>9, <3>2
    <3>3. CASE j = n + 1 /\ i \in 1 .. n
      BY <1>5, <1>8, <1>9, <3>3
    <3>. QED
      BY <1>10, <3>1, <3>2, <3>3
  <2>3. ASSUME NEW i \in 1 .. n + 1, i + 1 \in 1 .. n + 1
        PROVE  /\ deeper[i].at \in 1 .. Len(d[deeper[i].dir].needs)
               /\ d[deeper[i].dir].needs[deeper[i].at].path = deeper[i + 1].dir
    <3>1. i \in 1 .. n /\ deeper[i] = st[i]
      BY <1>7, <1>8, <2>3
    <3>2. CASE i + 1 \in 1 .. n
      <4>1. deeper[i + 1] = st[i + 1]
        BY <1>8, <3>2
      <4>2. /\ st[i].at \in 1 .. Len(d[st[i].dir].needs)
            /\ d[st[i].dir].needs[st[i].at].path = st[i + 1].dir
        BY <1>6, <3>1, <3>2
      <4>. QED
        BY <3>1, <4>1, <4>2
    <3>3. CASE i + 1 = n + 1
      <4>1. i = n /\ n # 0 /\ deeper[i + 1].dir = dir
        BY <1>5, <1>7, <1>8, <3>1, <3>3
      <4>. QED
        BY <1>7, <3>1, <4>1, SMTT(60) DEF n, AsksFor
    <3>. QED
      BY <1>10, <2>3, <3>2, <3>3
  <2>4. deeper[1].dir = Program
    <3>1. CASE n = 0
      <4>1. deeper[1] = frame /\ st = <<>>
        BY <1>7, <1>8, <3>1
      <4>. QED
        BY <1>5, <4>1 DEF AsksFor
    <3>2. CASE n # 0
      <4>1. 1 \in 1 .. n /\ st # <<>>
        BY <1>7, <3>2
      <4>2. deeper[1] = st[1]
        BY <1>8, <4>1
      <4>. QED
        BY <1>6, <4>1, <4>2
    <3>. QED
      BY <3>1, <3>2
  <2>. QED
    BY <1>8, <2>1, <2>2, <2>3, <2>4, SMTT(60) DEF StackIs
<1>12. Filled(d, now, more, deeper)
  <2>1. ASSUME NEW i \in 1 .. n + 1
        PROVE  FilledTo(d, now, more, deeper[i].dir, deeper[i].at - 1)
    <3>1. CASE i \in 1 .. n
      <4>1. FilledTo(d, pk, rs, st[i].dir, st[i].at - 1)
        BY <3>1 DEF Filled, n
      <4>2. st[i].dir \in DOMAIN d /\ pk[st[i].dir] # 0
        BY <1>9, <3>1
      <4>3. FilledTo(d, now, more, st[i].dir, st[i].at - 1)
        <5>1. PICK e, m : e = st[i].dir /\ m = st[i].at - 1
          OBVIOUS
        <5>2. e \in DOMAIN d /\ pk[e] # 0 /\ FilledTo(d, pk, rs, e, m)
          BY <4>1, <4>2, <5>1
        <5>3. more[pk[e]] = rs[pk[e]]
          BY <1>2, <5>2
        <5>4. FilledTo(d, now, more, e, m)
          BY <1>3, <5>2, <5>3, FilledStays
        <5>. QED
          BY <5>1, <5>4
      <4>. QED
        BY <1>8, <3>1, <4>3
    <3>2. CASE i = n + 1
      <4>1. deeper[i].dir = dir /\ deeper[i].at - 1 = 0
        BY <1>5, <1>8, <3>2
      <4>. QED
        BY <1>2, <4>1
    <3>. QED
      BY <1>10, <3>1, <3>2
  <2>2. ASSUME NEW e \in DOMAIN d, now[e] # 0,
               \A i \in 1 .. n + 1 : deeper[i].dir # e
        PROVE  FilledTo(d, now, more, e, Len(d[e].needs))
    <3>1. e # dir
      <4>1. n + 1 \in 1 .. n + 1
        BY <1>7
      <4>. QED
        BY <1>5, <1>8, <2>2, <4>1
    <3>2. pk[e] # 0
      BY <1>2, <2>2, <3>1
    <3>3. \A i \in 1 .. n : st[i].dir # e
      <4>1. \A i \in 1 .. n : i \in 1 .. n + 1
        BY <1>7
      <4>. QED
        BY <1>8, <2>2, <4>1
    <3>4. FilledTo(d, pk, rs, e, Len(d[e].needs))
      BY <3>2, <3>3 DEF Filled, n
    <3>5. PICK m : m = Len(d[e].needs)
      OBVIOUS
    <3>6. more[pk[e]] = rs[pk[e]] /\ FilledTo(d, pk, rs, e, m)
      BY <1>2, <3>2, <3>4, <3>5
    <3>7. FilledTo(d, now, more, e, m)
      BY <1>3, <3>2, <3>6, FilledStays
    <3>. QED
      BY <3>5, <3>7
  <2>. QED
    BY <1>8, <2>1, <2>2 DEF Filled
<1>. QED
  BY <1>2, <1>3, <1>8, <1>11, <1>12 DEF DeeperIs, deeper, more, now, r

\* The manifest on top has one need more behind it.
Further(st) == [st EXCEPT ![Len(st)].at = @ + 1]

FurtherIs(d, st) ==
    LET n == Len(st)
        more == Further(st)
    IN  /\ n \in Nat /\ n # 0 /\ more \in Seq(Frames(d)) /\ Len(more) = n
        /\ more # <<>> /\ \A i \in 1 .. n : i # n => more[i] = st[i]
        /\ \A i \in 1 .. n : st[i] \in Frames(d)
        /\ more[n].dir = st[n].dir /\ more[n].root = st[n].root
        /\ more[n].at = st[n].at + 1

LEMMA FurtherType ==
    ASSUME NEW d, NEW st \in Seq(Frames(d)), st # <<>>
    PROVE  FurtherIs(d, st)
<1>. DEFINE n == Len(st)
            top == [st[n] EXCEPT !.at = @ + 1]
            more == Further(st)
<1>1. n \in Nat /\ n # 0 /\ DOMAIN st = 1 .. n
  BY EmptySeq, LenProperties
<1>2. n \in 1 .. n /\ \A i \in 1 .. n : st[i] \in Frames(d)
  BY <1>1, ElementOfSeq
<1>3. /\ st[n].dir \in DOMAIN d /\ st[n].root \in Nat /\ st[n].at \in Nat
      /\ st[n] \in Frames(d)
  BY <1>2 DEF Frames
<1>4. /\ top \in Frames(d) /\ top.dir = st[n].dir /\ top.root = st[n].root
      /\ top.at = st[n].at + 1
  <2>1. PICK frame \in Frames(d) : frame = st[n]
    BY <1>3
  <2>2. /\ [frame EXCEPT !.at = @ + 1] \in Frames(d)
        /\ [frame EXCEPT !.at = @ + 1].dir = frame.dir
        /\ [frame EXCEPT !.at = @ + 1].root = frame.root
        /\ [frame EXCEPT !.at = @ + 1].at = frame.at + 1
    BY SMTT(60) DEF Frames
  <2>3. top = [frame EXCEPT !.at = @ + 1]
    BY <2>1
  <2>. HIDE DEF top
  <2>. QED
    BY <2>1, <2>2, <2>3
<1>5. more = [st EXCEPT ![n] = top]
  BY DEF Further
<1>. HIDE DEF top, more
<1>6. /\ more \in Seq(Frames(d)) /\ Len(more) = n
      /\ \A i \in 1 .. n : more[i] = IF i = n THEN top ELSE st[i]
  BY <1>2, <1>4, <1>5, ExceptSeq
<1>7. more # <<>>
  <2>1. Len(more) # 0
    BY <1>1, <1>6, Zenon
  <2>. QED
    BY <2>1, EmptySeq
<1>8. more[n] = top /\ \A i \in 1 .. n : i # n => more[i] = st[i]
  BY <1>2, <1>6
<1>. QED
  BY <1>1, <1>2, <1>4, <1>6, <1>7, <1>8, Zenon DEF FurtherIs, more

\* A line more in the view of a root.
LEMMA SeeType ==
    ASSUME NEW d, NEW rs \in Seq(RootRecords(d)), NEW r \in 1 .. Len(rs),
           NEW name_ \in STRING, NEW target \in Nat
    PROVE  LET more == P!See(rs, r, name_, target)
           IN  /\ more \in Seq(RootRecords(d)) /\ Len(more) = Len(rs)
               /\ \A i \in 1 .. Len(rs) : i # r => more[i] = rs[i]
               /\ more[r].name = rs[r].name /\ more[r].path = rs[r].path
               /\ more[r].sees = Append(rs[r].sees, R!Sees(name_, target))
<1>. DEFINE x == R!Sees(name_, target)
            root == [rs[r] EXCEPT !.sees = Append(@, x)]
            more == P!See(rs, r, name_, target)
<1>1. rs[r] \in RootRecords(d) /\ DOMAIN rs = 1 .. Len(rs)
  BY ElementOfSeq, LenProperties
<1>2. x \in SeesRecords
  BY DEF R!Sees, SeesRecords
<1>3. P!Sees(name_, target) = x
  BY DEF P!Sees, R!Sees
<1>. HIDE DEF x
<1>4. /\ root \in RootRecords(d) /\ root.name = rs[r].name
      /\ root.path = rs[r].path /\ root.sees = Append(rs[r].sees, x)
  <2>1. PICK old \in RootRecords(d) : old = rs[r]
    BY <1>1
  <2>2. PICK seen : seen = Append(old.sees, x)
    OBVIOUS
  <2>3. seen \in Seq(SeesRecords)
    <3>1. old.sees \in Seq(SeesRecords)
      BY DEF RootRecords
    <3>. QED
      BY <1>2, <2>2, <3>1, AppendProperties
  <2>4. /\ [old EXCEPT !.sees = seen] \in RootRecords(d)
        /\ [old EXCEPT !.sees = seen].name = old.name
        /\ [old EXCEPT !.sees = seen].path = old.path
        /\ [old EXCEPT !.sees = seen].sees = seen
    BY <2>3 DEF RootRecords
  <2>5. root = [old EXCEPT !.sees = seen]
    BY <2>1, <2>2
  <2>. HIDE DEF root
  <2>. QED
    BY <2>1, <2>2, <2>4, <2>5
<1>5. more = [rs EXCEPT ![r] = root]
  BY <1>3 DEF P!See
<1>. HIDE DEF root, more
<1>6. /\ more \in Seq(RootRecords(d)) /\ Len(more) = Len(rs)
      /\ \A i \in 1 .. Len(rs) : more[i] = IF i = r THEN root ELSE rs[i]
  BY <1>4, <1>5, ExceptSeq
<1>. QED
  BY <1>4, <1>6 DEF more, x

\* A name is in view when it is the package's own or that of a need met.
NameMeans(d, pk, rs, dir, m, name_) ==
    LET named == P!VisibleRoot(rs, pk[dir], name_)
    IN  /\ named = 0 => /\ name_ # d[dir].name
                        /\ \A n \in 1 .. m : d[dir].needs[n].name # name_
        /\ named # 0 => \/ name_ = d[dir].name
                        \/ \E n \in 1 .. m : d[dir].needs[n].name = name_

LEMMA PackageNamed ==
    ASSUME NEW d, NEW pk, NEW rs, NEW dir, pk[dir] # 0,
           rs[pk[dir]] \in RootRecords(d), NEW m \in Nat,
           FilledTo(d, pk, rs, dir, m), NEW name_
    PROVE  NameMeans(d, pk, rs, dir, m, name_)
<1>. DEFINE r == pk[dir]
            seen == rs[r].sees
            named == R!VisibleRoot(rs, r, name_)
<1>1. P!VisibleRoot(rs, r, name_) = named
  BY DEF P!VisibleRoot, R!VisibleRoot, P!INVALID_ROOT, R!INVALID_ROOT
<1>2. seen \in Seq(SeesRecords)
  BY DEF RootRecords
<1>3. /\ Len(seen) = m + 1 /\ seen[1].name = d[dir].name /\ seen[1].root # 0
      /\ \A n \in 1 .. m : /\ seen[n + 1].name = d[dir].needs[n].name
                           /\ seen[n + 1].root # 0
  <2>1. /\ Len(seen) = m + 1 /\ seen[1] = R!Sees(d[dir].name, r)
        /\ \A n \in 1 .. m :
              /\ seen[n + 1] = R!Sees(d[dir].needs[n].name,
                                      pk[d[dir].needs[n].path])
              /\ pk[d[dir].needs[n].path] # 0
    BY DEF FilledTo, NeedIsMet
  <2>2. \A word, to : R!Sees(word, to).name = word /\ R!Sees(word, to).root = to
    BY DEF R!Sees
  <2>. HIDE DEF seen
  <2>3. seen[1].name = d[dir].name /\ seen[1].root # 0
    BY <2>1, <2>2
  <2>4. ASSUME NEW n \in 1 .. m
        PROVE  seen[n + 1].name = d[dir].needs[n].name /\ seen[n + 1].root # 0
    <3>1. PICK word, to : /\ word = d[dir].needs[n].name
                          /\ to = pk[d[dir].needs[n].path]
      OBVIOUS
    <3>2. seen[n + 1] = R!Sees(word, to) /\ to # 0
      BY <2>1, <3>1
    <3>3. R!Sees(word, to).name = word /\ R!Sees(word, to).root = to
      BY <2>2
    <3>. QED
      BY <3>1, <3>2, <3>3
  <2>. QED
    BY <2>1, <2>3, <2>4
<1>4. \A i \in 1 .. m + 1 : i = 1 \/ \E n \in 1 .. m : i = n + 1
  <2>. TAKE i \in 1 .. m + 1
  <2>1. CASE i # 1
    <3>1. i - 1 \in 1 .. m /\ i = (i - 1) + 1
      BY <2>1
    <3>. QED
      BY <3>1
  <2>. QED
    BY <2>1
<1>5. \A i \in 1 .. Len(seen) : seen[i].root # 0
  BY <1>3, <1>4, ZenonT(60)
<1>6. /\ named = 0 => \A i \in 1 .. Len(seen) : seen[i].name # name_
      /\ named # 0 => \E i \in 1 .. Len(seen) : seen[i].name = name_
  <2>1. PICK b : b = r
    OBVIOUS
  <2>2. /\ rs[b].sees \in Seq(SeesRecords)
        /\ \A i \in 1 .. Len(rs[b].sees) : rs[b].sees[i].root # 0
    BY <1>2, <1>5, <2>1
  <2>3. LET found == R!VisibleRoot(rs, b, name_)
        IN  /\ found = 0 => \A i \in 1 .. Len(rs[b].sees) :
                               rs[b].sees[i].name # name_
            /\ found # 0 => \E i \in 1 .. Len(rs[b].sees) :
                               /\ rs[b].sees[i].name = name_
                               /\ rs[b].sees[i].root = found
    BY <2>2, NameInView
  <2>. QED
    BY <2>1, <2>3
<1>. HIDE DEF r, named
<1>7. named = 0 => /\ name_ # d[dir].name
                   /\ \A n \in 1 .. m : d[dir].needs[n].name # name_
  <2>1. 1 \in 1 .. Len(seen) /\ \A n \in 1 .. m : n + 1 \in 1 .. Len(seen)
    BY <1>3
  <2>. QED
    BY <1>3, <1>6, <2>1
<1>8. named # 0 => \/ name_ = d[dir].name
                   \/ \E n \in 1 .. m : d[dir].needs[n].name = name_
  <2>. HAVE named # 0
  <2>1. PICK i \in 1 .. m + 1 : seen[i].name = name_
    BY <1>3, <1>6
  <2>. QED
    BY <1>3, <1>4, <2>1
<1>. QED
  BY <1>1, <1>7, <1>8 DEF NameMeans, r

\* A root that sees one thing more, and the others as they were.
SawMore(d, pk, rs, reach, dir, name_, target) ==
    LET more == P!See(rs, pk[dir], name_, target)
    IN  /\ PackagesMet(d, pk, more, reach)
        /\ rs[pk[dir]] \in RootRecords(d)
        /\ more[pk[dir]].sees
              = Append(rs[pk[dir]].sees, R!Sees(name_, target))
        /\ \A e \in DOMAIN d :
              pk[e] # 0 /\ e # dir => more[pk[e]] = rs[pk[e]]

LEMMA SeesOneMore ==
    ASSUME NEW d, NEW pk, NEW rs, NEW reach, PackagesMet(d, pk, rs, reach),
           NEW dir \in DOMAIN d, pk[dir] # 0,
           NEW name_ \in STRING, NEW target \in Nat
    PROVE  SawMore(d, pk, rs, reach, dir, name_, target)
<1>. DEFINE more == P!See(rs, pk[dir], name_, target)
<1>1. /\ rs \in Seq(RootRecords(d)) /\ DOMAIN pk = DOMAIN d
      /\ \A e \in DOMAIN d :
            /\ pk[e] \in 0 .. Len(rs)
            /\ pk[e] # 0 => rs[pk[e]].path = e /\ e \in reach
                               /\ d[e].reads /\ rs[pk[e]].name = d[e].name
      /\ \A i \in 1 .. Len(rs) : pk[rs[i].path] = i
  BY DEF PackagesMet
<1>2. PICK r : r = pk[dir]
  OBVIOUS
<1>3. Len(rs) \in Nat /\ \A e \in DOMAIN d : pk[e] # 0 => pk[e] \in 1 .. Len(rs)
  <2>1. Len(rs) \in Nat
    BY <1>1, LenProperties
  <2>. QED
    BY <1>1, <2>1
<1>4. r \in 1 .. Len(rs) /\ rs[r].path = dir
  BY <1>1, <1>2, <1>3
<1>5. rs[r] \in RootRecords(d)
  BY <1>1, <1>4, ElementOfSeq
<1>6. LET after == P!See(rs, r, name_, target)
      IN  /\ after \in Seq(RootRecords(d)) /\ Len(after) = Len(rs)
          /\ \A i \in 1 .. Len(rs) : i # r => after[i] = rs[i]
          /\ after[r].name = rs[r].name /\ after[r].path = rs[r].path
          /\ after[r].sees = Append(rs[r].sees, R!Sees(name_, target))
  BY <1>1, <1>4, SeeType, SMTT(60)
<1>7. /\ more \in Seq(RootRecords(d)) /\ Len(more) = Len(rs)
      /\ \A i \in 1 .. Len(rs) : i # r => more[i] = rs[i]
      /\ more[r].name = rs[r].name /\ more[r].path = rs[r].path
      /\ more[r].sees = Append(rs[r].sees, R!Sees(name_, target))
  BY <1>2, <1>6
<1>. HIDE DEF more
<1>8. \A i \in 1 .. Len(rs) : more[i].path = rs[i].path /\ more[i].name = rs[i].name
  BY <1>7
<1>9. PackagesMet(d, pk, more, reach)
  BY <1>1, <1>3, <1>7, <1>8, SMTT(60) DEF PackagesMet
<1>10. \A e \in DOMAIN d : pk[e] # 0 /\ e # dir => more[pk[e]] = rs[pk[e]]
  BY <1>1, <1>3, <1>4, <1>7
<1>. QED
  BY <1>2, <1>5, <1>7, <1>9, <1>10 DEF SawMore, more

\* The next need is taken, which has a name nothing has.
LEMMA OneNeedTaken ==
    ASSUME NEW d, NEW pk, NEW rs, NEW more, NEW dir, pk[dir] # 0,
           rs[pk[dir]] \in RootRecords(d), NEW m \in Nat,
           FilledTo(d, pk, rs, dir, m), NEW next, next = m + 1,
           NEW need, need = d[dir].needs[next],
           need.path \in DOMAIN d, need.path # <<>>, pk[need.path] # 0,
           P!VisibleRoot(rs, pk[dir], need.name) = 0,
           R!Sees(need.name, pk[need.path]) \in SeesRecords,
           more[pk[dir]].sees
              = Append(rs[pk[dir]].sees, R!Sees(need.name, pk[need.path]))
    PROVE  FilledTo(d, pk, more, dir, next)
<1>1. /\ need.name # d[dir].name
      /\ \A n \in 1 .. m : d[dir].needs[n].name # need.name
  <2>1. PICK word : word = need.name
    BY SMTT(60)
  <2>2. NameMeans(d, pk, rs, dir, m, word)
    BY PackageNamed
  <2>. QED
    BY <2>1, <2>2, ZenonT(60) DEF NameMeans
<1>2. \A o \in 1 .. m + 1 : o \in 1 .. m \/ o = m + 1
  BY SMTT(60)
<1>3. ASSUME NEW n \in 1 .. m PROVE NeedIsMet(d, pk, dir, n, m + 1)
  <2>1. NeedIsMet(d, pk, dir, n, m)
    BY SMTT(60) DEF FilledTo
  <2>2. \A o \in 1 .. m + 1 :
           d[dir].needs[o].name = d[dir].needs[n].name => o = n
    BY <1>1, <1>2, <2>1, ZenonT(60) DEF NeedIsMet
  <2>. QED
    BY <2>1, <2>2, ZenonT(60) DEF NeedIsMet
<1>4. NeedIsMet(d, pk, dir, m + 1, m + 1)
  <2>1. \A o \in 1 .. m + 1 : d[dir].needs[o].name = need.name => o = m + 1
    BY <1>1, <1>2, SMTT(60)
  <2>. QED
    BY <1>1, <2>1, ZenonT(60) DEF NeedIsMet
<1>. DEFINE seen == rs[pk[dir]].sees
            x == R!Sees(need.name, pk[need.path])
<1>5. /\ Len(seen) = m + 1 /\ seen[1] = R!Sees(d[dir].name, pk[dir])
      /\ \A n \in 1 .. m :
            seen[n + 1] = R!Sees(d[dir].needs[n].name, pk[d[dir].needs[n].path])
  BY ZenonT(60) DEF FilledTo
<1>6. seen \in Seq(SeesRecords) /\ x \in SeesRecords
  BY SMTT(60) DEF RootRecords
<1>. HIDE DEF seen, x
<1>7. /\ Len(Append(seen, x)) = m + 2 /\ Append(seen, x)[m + 2] = x
      /\ \A i \in 1 .. m + 1 : Append(seen, x)[i] = seen[i]
  <2>1. /\ Len(Append(seen, x)) = Len(seen) + 1
        /\ \A i \in 1 .. Len(seen) : Append(seen, x)[i] = seen[i]
        /\ Append(seen, x)[Len(seen) + 1] = x
    BY <1>6, AppendProperties, SMTT(60)
  <2>. QED
    BY <1>5, <2>1, SMTT(60)
<1>8. PICK after : after = Append(seen, x)
  OBVIOUS
<1>9. more[pk[dir]].sees = after
  BY <1>8, ZenonT(60) DEF seen, x
<1>10. /\ Len(after) = (m + 1) + 1 /\ after[1] = R!Sees(d[dir].name, pk[dir])
       /\ \A n \in 1 .. m : after[n + 1] = seen[n + 1]
       /\ after[(m + 1) + 1] = x
  BY <1>5, <1>7, <1>8, SMTT(60)
<1>11. ASSUME NEW n \in 1 .. m + 1
       PROVE  /\ after[n + 1] = R!Sees(d[dir].needs[n].name,
                                       pk[d[dir].needs[n].path])
              /\ NeedIsMet(d, pk, dir, n, m + 1)
  <2>1. CASE n \in 1 .. m
    BY <1>3, <1>5, <1>10, <2>1, ZenonT(60)
  <2>2. CASE n = m + 1
    BY <1>4, <1>10, <2>2, SMTT(60) DEF x
  <2>. QED
    BY <1>2, <2>1, <2>2, SMTT(60)
<1>. QED
  BY <1>9, <1>10, <1>11, SMTT(60) DEF FilledTo

LEMMA StackFurther ==
    ASSUME NEW d, NEW pk, NEW st, StackIs(d, pk, st), st # <<>>,
           st[Len(st)].at \in 1 .. Len(d[st[Len(st)].dir].needs),
           Len(d[st[Len(st)].dir].needs) \in Nat
    PROVE  StackIs(d, pk, Further(st))
<1>. DEFINE n == Len(st)
            more == Further(st)
<1>1. /\ st \in Seq(Frames(d))
      /\ \A i \in 1 .. n :
            /\ st[i].root = pk[st[i].dir] /\ st[i].root # 0
            /\ st[i].at \in 1 .. Len(d[st[i].dir].needs) + 1
      /\ \A i, j \in 1 .. n : st[i].dir = st[j].dir => i = j
      /\ \A i \in 1 .. n : i + 1 \in 1 .. n =>
            /\ st[i].at \in 1 .. Len(d[st[i].dir].needs)
            /\ d[st[i].dir].needs[st[i].at].path = st[i + 1].dir
      /\ st[1].dir = Program
  BY SMTT(60) DEF StackIs
<1>2. /\ n \in Nat /\ n # 0 /\ more \in Seq(Frames(d)) /\ Len(more) = n
      /\ more # <<>> /\ \A i \in 1 .. n : i # n => more[i] = st[i]
      /\ \A i \in 1 .. n : st[i] \in Frames(d)
      /\ more[n].dir = st[n].dir /\ more[n].root = st[n].root
      /\ more[n].at = st[n].at + 1
  BY <1>1, FurtherType DEF FurtherIs
<1>. HIDE DEF more
<1>3. \A i \in 1 .. n : more[i].dir = st[i].dir /\ more[i].root = st[i].root
  BY <1>2
<1>4. more[n].at \in 1 .. Len(d[st[n].dir].needs) + 1
  BY <1>2
<1>. HIDE DEF n
<1>5. \A i \in 1 .. n : more[i].at \in 1 .. Len(d[more[i].dir].needs) + 1
  BY <1>1, <1>2, <1>3, <1>4, ZenonT(60)
<1>6. ASSUME NEW i \in 1 .. n, i + 1 \in 1 .. n
      PROVE  /\ more[i].at \in 1 .. Len(d[more[i].dir].needs)
             /\ d[more[i].dir].needs[more[i].at].path = more[i + 1].dir
  <2>1. i # n
    BY <1>2, <1>6
  <2>2. more[i] = st[i] /\ more[i + 1].dir = st[i + 1].dir
    BY <1>2, <1>3, <1>6, <2>1
  <2>3. /\ st[i].at \in 1 .. Len(d[st[i].dir].needs)
        /\ d[st[i].dir].needs[st[i].at].path = st[i + 1].dir
    BY <1>1, <1>6
  <2>. QED
    BY <2>2, <2>3
<1>7. more[1].dir = Program
  <2>1. 1 \in 1 .. n
    BY <1>2
  <2>. QED
    BY <1>1, <1>3, <2>1
<1>8. /\ \A i \in 1 .. n : more[i].root = pk[more[i].dir] /\ more[i].root # 0
      /\ \A i, j \in 1 .. n : more[i].dir = more[j].dir => i = j
  BY <1>1, <1>3, ZenonT(60)
<1>. QED
  BY <1>2, <1>5, <1>6, <1>7, <1>8, SMTT(60) DEF StackIs, more

\* The one on top takes the root it was given, and reads on.
Took(d, pk, rs, st, reach, top, need) ==
    LET more == P!See(rs, top.root, need.name, pk[need.path])
    IN  /\ PackagesMet(d, pk, more, reach)
        /\ StackIs(d, pk, Further(st))
        /\ Filled(d, pk, more, Further(st))
        /\ Further(st) # <<>>

LEMMA WalkTakes ==
    ASSUME NEW d, NEW pk, NEW rs, NEW st, NEW reach,
           PackagesMet(d, pk, rs, reach), StackIs(d, pk, st),
           Filled(d, pk, rs, st), st # <<>>,
           NEW top, top = st[Len(st)], NEW need, need = d[top.dir].needs[top.at],
           top.at \in 1 .. Len(d[top.dir].needs),
           Len(d[top.dir].needs) \in Nat,
           need.name \in STRING, need.path \in DOMAIN d, need.path # <<>>,
           pk[need.path] # 0,
           P!VisibleRoot(rs, top.root, need.name) = 0
    PROVE  Took(d, pk, rs, st, reach, top, need)
<1>. DEFINE n == Len(st)
            on == Further(st)
            more == P!See(rs, top.root, need.name, pk[need.path])
<1>1. /\ st \in Seq(Frames(d))
      /\ \A i \in 1 .. n : st[i].root = pk[st[i].dir] /\ st[i].root # 0
      /\ \A i, j \in 1 .. n : st[i].dir = st[j].dir => i = j
  BY ZenonT(60) DEF StackIs
<1>2. /\ n \in Nat /\ n # 0 /\ on \in Seq(Frames(d)) /\ Len(on) = n
      /\ on # <<>> /\ \A i \in 1 .. n : i # n => on[i] = st[i]
      /\ \A i \in 1 .. n : st[i] \in Frames(d)
      /\ on[n].dir = top.dir /\ on[n].at = top.at + 1
  <2>1. FurtherIs(d, st)
    BY <1>1, FurtherType, SMTT(60)
  <2>2. /\ n \in Nat /\ n # 0 /\ on \in Seq(Frames(d)) /\ Len(on) = n
        /\ on # <<>> /\ \A i \in 1 .. n : i # n => on[i] = st[i]
        /\ \A i \in 1 .. n : st[i] \in Frames(d)
        /\ on[n].dir = st[n].dir /\ on[n].at = st[n].at + 1
    BY <2>1, SMTT(60) DEF FurtherIs
  <2>. QED
    BY <2>2, SMTT(60)
<1>3. StackIs(d, pk, on)
  <2>1. /\ st[Len(st)].at \in 1 .. Len(d[st[Len(st)].dir].needs)
        /\ Len(d[st[Len(st)].dir].needs) \in Nat
    BY SMTT(60)
  <2>. QED
    BY <2>1, StackFurther, ZenonT(60)
<1>. HIDE DEF on, n
<1>4. \A i \in 1 .. n : on[i].dir = st[i].dir
  BY <1>2, ZenonT(60) DEF n
<1>5. n \in 1 .. n /\ top = st[n]
  <2>1. n \in Nat /\ n # 0
    BY <1>2, SMTT(60)
  <2>2. n \in 1 .. n
    BY <2>1, SMTT(60)
  <2>3. top = st[n]
    BY SMTT(60) DEF n
  <2>. QED
    BY <2>2, <2>3, SMTT(60)
<1>6. PICK dir \in DOMAIN d : dir = top.dir
  BY <1>2, <1>5, SMTT(60) DEF Frames
<1>7. pk[dir] = top.root /\ pk[dir] # 0
  BY <1>1, <1>5, <1>6, SMTT(60)
<1>8. PICK m \in Nat : m + 1 = top.at
  <2>1. top.at - 1 \in Nat /\ (top.at - 1) + 1 = top.at
    BY SMTT(60)
  <2>. QED
    BY <2>1, SMTT(60)
<1>9. FilledTo(d, pk, rs, dir, m)
  <2>1. FilledTo(d, pk, rs, top.dir, top.at - 1)
    BY <1>5, SMTT(60) DEF Filled, n
  <2>2. top.at - 1 = m
    BY <1>8, SMTT(60)
  <2>. QED
    BY <1>6, <2>1, <2>2, SMTT(60)
<1>10. PICK target \in Nat : target = pk[need.path]
  <2>1. pk[need.path] \in 0 .. Len(rs) /\ rs \in Seq(RootRecords(d))
    BY ZenonT(60) DEF PackagesMet
  <2>2. Len(rs) \in Nat
    BY <2>1, LenProperties, ZenonT(60)
  <2>3. \A k \in 0 .. Len(rs) : k \in Nat
    BY <2>2, SMTT(60)
  <2>. QED
    BY <2>1, <2>3, Zenon
<1>11. PICK word \in STRING : word = need.name
  BY Zenon
<1>12. SawMore(d, pk, rs, reach, dir, word, target)
  BY <1>7, SeesOneMore, SMTT(60)
<1>13. more = P!See(rs, pk[dir], word, target)
  BY <1>7, <1>10, <1>11, ZenonT(60)
<1>. HIDE DEF more
<1>14. /\ PackagesMet(d, pk, more, reach)
       /\ rs[pk[dir]] \in RootRecords(d)
       /\ more[pk[dir]].sees
             = Append(rs[pk[dir]].sees, R!Sees(need.name, pk[need.path]))
       /\ \A e \in DOMAIN d : pk[e] # 0 /\ e # dir => more[pk[e]] = rs[pk[e]]
  BY <1>10, <1>11, <1>12, <1>13, Zenon DEF SawMore
<1>15. FilledTo(d, pk, more, dir, m + 1)
  <2>1. R!Sees(need.name, pk[need.path]) \in SeesRecords
    BY <1>10, ZenonT(60) DEF R!Sees, SeesRecords
  <2>2. need = d[dir].needs[m + 1]
    BY <1>6, <1>8, SMTT(60)
  <2>3. P!VisibleRoot(rs, pk[dir], need.name) = 0
    BY <1>7, SMTT(60)
  <2>4. PICK after, next : after = more /\ next = m + 1
    BY SMTT(60)
  <2>5. /\ need = d[dir].needs[next]
        /\ after[pk[dir]].sees
              = Append(rs[pk[dir]].sees, R!Sees(need.name, pk[need.path]))
    BY <1>14, <2>2, <2>4, SMTT(60)
  <2>6. rs[pk[dir]] \in RootRecords(d)
    BY <1>14, Zenon
  <2>7. FilledTo(d, pk, after, dir, next)
    BY <1>7, <1>9, <2>1, <2>3, <2>4, <2>5, <2>6, OneNeedTaken, Zenon
  <2>. QED
    BY <2>4, <2>7, SMTT(60)
<1>16. ASSUME NEW e \in DOMAIN d, e # dir, pk[e] # 0, NEW k,
              FilledTo(d, pk, rs, e, k)
       PROVE  FilledTo(d, pk, more, e, k)
  <2>1. more[pk[e]] = rs[pk[e]] /\ \A f \in DOMAIN d : pk[f] # 0 => pk[f] = pk[f]
    BY <1>14, <1>16, Zenon
  <2>. QED
    BY <1>16, <2>1, FilledStays, SMTT(60)
<1>17. Filled(d, pk, more, on)
  <2>1. ASSUME NEW i \in 1 .. n
        PROVE  FilledTo(d, pk, more, on[i].dir, on[i].at - 1)
    <3>1. CASE i = n
      <4>1. on[i].dir = dir /\ on[i].at - 1 = m + 1
        BY <1>2, <1>6, <1>8, <3>1, SMTT(60) DEF n
      <4>. QED
        BY <1>15, <4>1, SMTT(60)
    <3>2. CASE i # n
      <4>1. on[i] = st[i] /\ FilledTo(d, pk, rs, st[i].dir, st[i].at - 1)
        BY <1>2, <3>2, ZenonT(60) DEF Filled, n
      <4>2. PICK e, k : e = st[i].dir /\ k = st[i].at - 1
        BY ZenonT(60)
      <4>3. e \in DOMAIN d /\ pk[e] # 0 /\ e # dir
        <5>1. st[i] \in Frames(d)
          BY <1>2, SMTT(60) DEF n
        <5>2. e \in DOMAIN d
          BY <4>2, <5>1, SMTT(60) DEF Frames
        <5>3. pk[e] # 0
          BY <1>1, <4>2, ZenonT(60)
        <5>4. e # dir
          BY <1>1, <1>5, <1>6, <3>2, <4>2, ZenonT(60) DEF n
        <5>. QED
          BY <5>2, <5>3, <5>4, SMTT(60)
      <4>4. FilledTo(d, pk, more, e, k)
        BY <1>16, <4>1, <4>2, <4>3, SMTT(60)
      <4>. QED
        BY <4>1, <4>2, <4>4, SMTT(60)
    <3>. QED
      BY <3>1, <3>2, SMTT(60)
  <2>2. ASSUME NEW e \in DOMAIN d, pk[e] # 0, \A i \in 1 .. n : on[i].dir # e
        PROVE  FilledTo(d, pk, more, e, Len(d[e].needs))
    <3>1. \A i \in 1 .. n : st[i].dir # e
      BY <1>4, <2>2, SMTT(60)
    <3>2. e # dir
      BY <1>5, <1>6, <3>1, SMTT(60)
    <3>3. FilledTo(d, pk, rs, e, Len(d[e].needs))
      BY <2>2, <3>1, SMTT(60) DEF Filled, n
    <3>4. PICK k : k = Len(d[e].needs)
      BY ZenonT(60)
    <3>. QED
      BY <1>16, <2>2, <3>2, <3>3, <3>4, ZenonT(60)
  <2>. QED
    BY <1>2, <2>1, <2>2, FilledByParts, ZenonT(60)
<1>. QED
  BY <1>2, <1>3, <1>14, <1>17, Zenon DEF Took, on, more

\* The one on top is read, and the one below it is given its root.
Returned(d, pk, rs, st, top) ==
    LET below == SubSeq(st, 1, Len(st) - 1)
    IN  /\ StackIs(d, pk, below) /\ Filled(d, pk, rs, below)
        /\ AnswerIs(d, pk, below, top.root)

LEMMA WalkReturns ==
    ASSUME NEW d, NEW pk, NEW rs, NEW st, StackIs(d, pk, st),
           Filled(d, pk, rs, st), st # <<>>,
           NEW top, top = st[Len(st)], top.at - 1 = Len(d[top.dir].needs),
           \A e \in DOMAIN d : e # <<>>
    PROVE  Returned(d, pk, rs, st, top)
<1>. DEFINE n == Len(st)
            below == SubSeq(st, 1, Len(st) - 1)
<1>1. /\ st \in Seq(Frames(d))
      /\ \A i \in 1 .. n :
            /\ st[i].root = pk[st[i].dir] /\ st[i].root # 0
            /\ st[i].at \in 1 .. Len(d[st[i].dir].needs) + 1
      /\ \A i, j \in 1 .. n : st[i].dir = st[j].dir => i = j
      /\ \A i \in 1 .. n : i + 1 \in 1 .. n =>
            /\ st[i].at \in 1 .. Len(d[st[i].dir].needs)
            /\ d[st[i].dir].needs[st[i].at].path = st[i + 1].dir
      /\ st[1].dir = Program
  BY SMTT(60) DEF StackIs
<1>2. n \in Nat /\ n # 0 /\ \A i \in 1 .. n : st[i] \in Frames(d)
  BY <1>1, EmptySeq, LenProperties, ElementOfSeq
<1>3. PICK k \in Nat : k = n - 1 /\ n = k + 1
  <2>1. n \in Nat /\ n # 0
    BY <1>2
  <2>. HIDE DEF n
  <2>2. n - 1 \in Nat /\ n = (n - 1) + 1
    BY <2>1
  <2>. QED
    BY <2>2
<1>4. \A i \in 1 .. k : i \in 1 .. n /\ i + 1 \in 1 .. n /\ i # n
  BY <1>3
<1>5. \A i \in 1 .. n : i \in 1 .. k \/ i = n
  BY <1>3
<1>6. below = SubSeq(st, 1, k)
  BY <1>3
<1>. HIDE DEF below
<1>7. /\ below \in Seq(Frames(d)) /\ Len(below) = k
      /\ \A i \in 1 .. k : below[i] = st[i]
  <2>1. \A i \in 1 .. k : st[i] \in Frames(d)
    BY <1>2, <1>4
  <2>2. /\ SubSeq(st, 1, k) \in Seq(Frames(d))
        /\ Len(SubSeq(st, 1, k)) = IF 1 <= k THEN k - 1 + 1 ELSE 0
        /\ \A i \in 1 .. k - 1 + 1 : SubSeq(st, 1, k)[i] = st[1 + i - 1]
    BY <2>1, SubSeqProperties
  <2>3. k - 1 + 1 = k /\ \A i \in 1 .. k : 1 + i - 1 = i
    OBVIOUS
  <2>4. Len(SubSeq(st, 1, k)) = k
    BY <2>2
  <2>. QED
    BY <1>6, <2>2, <2>3, <2>4
<1>8. top = st[n]
  OBVIOUS
<1>. HIDE DEF n
<1>9. n \in 1 .. n /\ top.dir \in DOMAIN d /\ top.root = pk[top.dir] /\ top.root # 0
  <2>1. n \in 1 .. n
    BY <1>2
  <2>2. st[n] \in Frames(d) /\ st[n].root = pk[st[n].dir] /\ st[n].root # 0
    BY <1>1, <1>2, <2>1
  <2>. QED
    BY <1>8, <2>1, <2>2 DEF Frames
<1>10. below # <<>> <=> k # 0
  BY <1>7, EmptySeq
<1>11. StackIs(d, pk, below)
  <2>1. below # <<>> => below[1].dir = Program
    <3>1. k # 0 => 1 \in 1 .. k
      OBVIOUS
    <3>. QED
      BY <1>1, <1>7, <1>10, <3>1
  <2>2. ASSUME NEW i \in 1 .. k, i + 1 \in 1 .. k
        PROVE  /\ below[i].at \in 1 .. Len(d[below[i].dir].needs)
               /\ d[below[i].dir].needs[below[i].at].path = below[i + 1].dir
    BY <1>1, <1>4, <1>7, <2>2
  <2>. QED
    BY <1>1, <1>4, <1>7, <2>1, <2>2, ZenonT(60) DEF StackIs
<1>12. Filled(d, pk, rs, below)
  <2>1. \A i \in 1 .. k : FilledTo(d, pk, rs, below[i].dir, below[i].at - 1)
    BY <1>4, <1>7 DEF Filled, n
  <2>2. ASSUME NEW e \in DOMAIN d, pk[e] # 0, \A i \in 1 .. k : below[i].dir # e
        PROVE  FilledTo(d, pk, rs, e, Len(d[e].needs))
    <3>1. CASE e = top.dir
      <4>1. FilledTo(d, pk, rs, top.dir, top.at - 1)
        BY <1>8, <1>9 DEF Filled, n
      <4>. QED
        BY <3>1, <4>1
    <3>2. CASE e # top.dir
      <4>1. \A i \in 1 .. n : st[i].dir # e
        BY <1>5, <1>7, <1>8, <2>2, <3>2
      <4>. QED
        BY <2>2, <4>1 DEF Filled, n
    <3>. QED
      BY <3>1, <3>2
  <2>. QED
    BY <1>7, <2>1, <2>2 DEF Filled
<1>13. AnswerIs(d, pk, below, top.root)
  <2>1. CASE k = 0
    <3>1. n = 1 /\ below = <<>>
      BY <1>3, <1>10, <2>1
    <3>2. top.root = pk[Program]
      BY <1>1, <1>8, <1>9, <3>1
    <3>. QED
      BY <3>1, <3>2 DEF AnswerIs
  <2>2. CASE k # 0
    <3>1. k \in 1 .. k /\ below # <<>> /\ below[Len(below)] = st[k]
      BY <1>7, <1>10, <2>2
    <3>2. /\ st[k].at \in 1 .. Len(d[st[k].dir].needs)
          /\ d[st[k].dir].needs[st[k].at].path = top.dir
      BY <1>1, <1>3, <1>4, <1>8, <3>1, SMTT(60)
    <3>. QED
      BY <1>9, <3>1, <3>2 DEF AnswerIs
  <2>. QED
    BY <2>1, <2>2
<1>. QED
  BY <1>11, <1>12, <1>13 DEF Returned, below

-----------------------------------------------------------------------------
(* Every action keeps what the walk has come to.                           *)

\* What is in reach, and whether it all reads, is of the disk alone.
LEMMA ReachStays ==
    ASSUME disk' = disk
    PROVE  P!InReach' = P!InReach /\ (AllReadable <=> AllReadable')
<1>1. P!InReach' = P!InReach
  BY DEF P!InReach, P!Dirs, P!IsClosed, P!Needed, P!NoPath
<1>. QED
  BY <1>1 DEF AllReadable, Readable

\* The manifest on top.
LEMMA TopIs ==
    ASSUME disk \in Manifests, PackagesMet(disk, packages, roots, P!InReach),
           StackIs(disk, packages, stack), stack # <<>>
    PROVE  /\ P!Top = stack[Len(stack)]
           /\ P!Top.dir \in DOMAIN disk /\ P!Top.dir \in P!InReach
           /\ P!Top.root = packages[P!Top.dir] /\ P!Top.root # 0
           /\ P!Top.at \in 1 .. Len(disk[P!Top.dir].needs) + 1
           /\ Len(disk[P!Top.dir].needs) \in Nat
           /\ Len(stack) \in 1 .. Len(stack)
<1>1. /\ stack \in Seq(Frames(disk))
      /\ \A i \in 1 .. Len(stack) :
            /\ stack[i].root = packages[stack[i].dir] /\ stack[i].root # 0
            /\ stack[i].at \in 1 .. Len(disk[stack[i].dir].needs) + 1
  BY DEF StackIs
<1>2. Len(stack) \in 1 .. Len(stack)
  <2>1. Len(stack) \in Nat /\ Len(stack) # 0
    BY <1>1, EmptySeq, LenProperties
  <2>. QED
    BY <2>1
<1>3. PICK top : top = stack[Len(stack)]
  OBVIOUS
<1>4. top \in Frames(disk)
  BY <1>1, <1>2, <1>3, ElementOfSeq
<1>5. /\ top.dir \in DOMAIN disk /\ top.root = packages[top.dir] /\ top.root # 0
      /\ top.at \in 1 .. Len(disk[top.dir].needs) + 1
  BY <1>1, <1>2, <1>3, <1>4 DEF Frames
<1>6. top.dir \in P!InReach
  BY <1>5 DEF PackagesMet
<1>7. Len(disk[top.dir].needs) \in Nat
  BY <1>5, ManifestType
<1>. QED
  BY <1>2, <1>3, <1>5, <1>6, <1>7 DEF P!Top

\* One call of intern.
LEMMA CallWalks ==
    ASSUME disk \in Manifests, PackagesMet(disk, packages, roots, P!InReach),
           StackIs(disk, packages, stack), Filled(disk, packages, roots, stack),
           NEW dir \in P!InReach, AsksFor(disk, stack, dir), P!Call(dir, stack)
    PROVE  /\ PackagesMet(disk, packages', roots', P!InReach)
           /\ \/ answer' = 0 /\ ~AllReadable
              \/ /\ answer' # 0
                 /\ WalkIs(disk, packages', roots', stack', answer')
                 /\ stack' = <<>> => answer' # -1
           /\ \A e \in DOMAIN disk : packages[e] # 0 => packages'[e] = packages[e]
           /\ packages[dir] = 0 /\ disk[dir].reads => packages'[dir] = Len(roots) + 1
<1>1. dir \in DOMAIN disk
  BY DEF P!InReach, P!Dirs
<1>2. dir # <<>> /\ disk[dir].name \in STRING /\ Len(disk[dir].needs) \in Nat
  BY <1>1, ManifestType
<1>3. packages[dir] \in 0 .. Len(roots) /\ Len(roots) \in Nat
  <2>1. packages[dir] \in 0 .. Len(roots) /\ roots \in Seq(RootRecords(disk))
    BY <1>1 DEF PackagesMet
  <2>. QED
    BY <2>1, LenProperties
<1>4. CASE packages[dir] # 0
  <2>1. /\ answer' = packages[dir] /\ stack' = stack
        /\ roots' = roots /\ packages' = packages
    BY <1>4 DEF P!Call, P!INVALID_ROOT
  <2>2. answer' # 0 /\ answer' # -1
    BY <1>3, <1>4, <2>1
  <2>3. AnswerIs(disk, packages, stack, packages[dir])
    <3>1. CASE stack = <<>>
      BY <3>1 DEF AnswerIs, AsksFor
    <3>2. CASE stack # <<>>
      BY <1>1, <1>2, <3>2, ZenonT(60) DEF AnswerIs, AsksFor
    <3>. QED
      BY <3>1, <3>2
  <2>4. WalkIs(disk, packages', roots', stack', answer')
    BY <2>1, <2>3 DEF WalkIs
  <2>. QED
    BY <1>4, <2>1, <2>2, <2>4
<1>5. CASE packages[dir] = 0 /\ ~disk[dir].reads
  <2>1. /\ answer' = 0 /\ stack' = stack
        /\ roots' = roots /\ packages' = packages
    BY <1>5 DEF P!Call, P!INVALID_ROOT
  <2>2. ~AllReadable
    BY <1>5 DEF AllReadable, Readable
  <2>. QED
    BY <1>5, <2>1, <2>2
<1>6. CASE packages[dir] = 0 /\ disk[dir].reads
  <2>1. PICK r : r = Len(roots) + 1
    OBVIOUS
  <2>2. /\ roots' = R!OpenRoot(roots, disk[dir].name, dir)
        /\ packages' = Met(packages, dir, r)
        /\ stack' = Deeper(stack, dir, r) /\ answer' = -1
    BY <1>6, <2>1 DEF P!Call, P!INVALID_ROOT, P!Unknown, P!OpenRoot, R!OpenRoot,
                      P!Sees, R!Sees, Met, Deeper
  <2>3. DeeperIs(disk, packages, roots, stack, P!InReach, dir)
    BY <1>1, <1>2, <1>6, OneFrameMore
  <2>4. /\ PackagesMet(disk, packages', roots', P!InReach)
        /\ StackIs(disk, packages', stack')
        /\ Filled(disk, packages', roots', stack') /\ stack' # <<>>
        /\ packages'[dir] = r
        /\ \A e \in DOMAIN disk : packages[e] # 0 => packages'[e] = packages[e]
    BY <2>1, <2>2, <2>3 DEF DeeperIs
  <2>5. AnswerIs(disk, packages', stack', -1)
    BY SMTT(60) DEF AnswerIs
  <2>6. WalkIs(disk, packages', roots', stack', answer')
    BY <2>2, <2>4, <2>5 DEF WalkIs
  <2>7. answer' # 0
    BY <2>2
  <2>. QED
    BY <2>1, <2>4, <2>6, <2>7
<1>. QED
  BY <1>4, <1>5, <1>6

\* The program's manifest is the first that is read, or nothing is.
LEMMA ProgramRead ==
    ASSUME PackagesRead, P!ReadProgram
    PROVE  PackagesRead'
<1>1. /\ disk \in Manifests /\ stage = "manifest" /\ roots = <<>> /\ prelude = <<>>
      /\ stack = <<>> /\ asked = 0
      /\ packages = [dir \in DOMAIN disk |-> 0]
  BY DEF PackagesRead, P!ReadProgram
<1>2. disk' = disk /\ asked' = asked
  BY DEF P!ReadProgram
<1>3. P!InReach' = P!InReach /\ (AllReadable <=> AllReadable')
  BY <1>2, ReachStays
<1>4. Program \in P!InReach /\ Program \in DOMAIN disk
  BY <1>1, ProgramInReach DEF P!InReach, P!Dirs
<1>5. CASE ~disk[Program].reads
  <2>1. stage' = "failed" /\ roots' = <<>> /\ prelude' = <<>>
    BY <1>5 DEF P!ReadProgram, P!Clear
  <2>2. ~AllReadable
    BY <1>4, <1>5 DEF AllReadable, Readable
  <2>. QED
    BY <1>1, <1>2, <1>3, <2>1, <2>2 DEF PackagesRead
<1>6. CASE disk[Program].reads
  <2>1. stage' = "packages" /\ prelude' = <<>> /\ P!Call(Program, stack)
    BY <1>1, <1>6 DEF P!ReadProgram
  <2>2. Len(roots) = 0 /\ Len(stack) = 0 /\ 1 .. 0 = {}
    BY <1>1, EmptySeq
  <2>3. \A dir \in DOMAIN disk : packages[dir] = 0
    BY <1>1
  <2>4. PackagesMet(disk, packages, roots, P!InReach)
    <3>1. roots \in Seq(RootRecords(disk)) /\ DOMAIN packages = DOMAIN disk
      BY <1>1, EmptySeq
    <3>2. 0 \in 0 .. Len(roots)
      BY <2>2
    <3>. QED
      BY <2>2, <2>3, <3>1, <3>2 DEF PackagesMet
  <2>5. StackIs(disk, packages, stack)
    <3>1. stack \in Seq(Frames(disk))
      BY <1>1, EmptySeq
    <3>. QED
      BY <1>1, <2>2, <3>1 DEF StackIs
  <2>6. Filled(disk, packages, roots, stack)
    BY <2>2, <2>3 DEF Filled
  <2>7. AsksFor(disk, stack, Program)
    BY <1>1 DEF AsksFor
  <2>8. /\ PackagesMet(disk, packages', roots', P!InReach)
        /\ \/ answer' = 0 /\ ~AllReadable
           \/ /\ answer' # 0
              /\ WalkIs(disk, packages', roots', stack', answer')
              /\ stack' = <<>> => answer' # -1
        /\ packages[Program] = 0 /\ disk[Program].reads =>
              packages'[Program] = Len(roots) + 1
    BY <1>1, <1>4, <2>1, <2>4, <2>5, <2>6, <2>7, CallWalks
  <2>9. packages'[Program] = 1
    BY <1>4, <1>6, <2>2, <2>3, <2>8
  <2>10. PackagesWalked'
    BY <1>1, <1>2, <1>3, <2>1, <2>8, <2>9 DEF PackagesWalked, PackagesAre
  <2>. QED
    BY <1>1, <1>2, <2>1, <2>10 DEF PackagesRead
<1>. QED
  BY <1>5, <1>6

\* What is known while the walk goes on.
LEMMA Walked ==
    ASSUME PackagesRead, stage = "packages"
    PROVE  /\ disk \in Manifests /\ prelude = <<>> /\ asked = 0
           /\ PackagesMet(disk, packages, roots, P!InReach)
           /\ packages[Program] = 1
           /\ answer = 0 => ~AllReadable
           /\ answer # 0 => /\ StackIs(disk, packages, stack)
                            /\ Filled(disk, packages, roots, stack)
                            /\ AnswerIs(disk, packages, stack, answer)
BY DEF PackagesRead, PackagesWalked, PackagesAre, WalkIs

LEMMA NeedRead ==
    ASSUME PackagesRead, P!ReadNeed
    PROVE  PackagesRead'
<1>1. /\ stage = "packages" /\ stack # <<>> /\ answer = -1
      /\ P!Top.at <= Len(disk[P!Top.dir].needs)
      /\ P!Need.path # <<>> /\ P!Call(P!Need.path, stack)
      /\ disk' = disk /\ prelude' = prelude /\ stage' = stage /\ asked' = asked
  BY DEF P!ReadNeed, P!Walking, P!HasNeed, P!Unknown, P!NoPath
<1>2. /\ disk \in Manifests /\ prelude = <<>> /\ asked = 0
      /\ PackagesMet(disk, packages, roots, P!InReach)
      /\ packages[Program] = 1
      /\ StackIs(disk, packages, stack) /\ Filled(disk, packages, roots, stack)
  <2>1. answer # 0
    BY <1>1
  <2>. QED
    BY <1>1, <2>1, Walked
<1>3. /\ P!Top = stack[Len(stack)] /\ P!Top.dir \in P!InReach
      /\ P!Top.at \in 1 .. Len(disk[P!Top.dir].needs) + 1
      /\ Len(disk[P!Top.dir].needs) \in Nat
  BY <1>1, <1>2, TopIs
<1>4. P!Top.at \in 1 .. Len(disk[P!Top.dir].needs)
  BY <1>1, <1>3
<1>5. PICK dir : dir = P!Need.path
  OBVIOUS
<1>6. dir \in P!InReach
  <2>1. PICK from, n : from = P!Top.dir /\ n = P!Top.at
    OBVIOUS
  <2>2. /\ from \in P!InReach /\ n \in 1 .. Len(disk[from].needs)
        /\ disk[from].needs[n].path # <<>>
    BY <1>1, <1>3, <1>4, <2>1, ZenonT(60) DEF P!Need
  <2>3. disk[from].needs[n].path \in P!InReach
    BY <1>2, <2>2, NeedInReach
  <2>. QED
    BY <1>5, <2>1, <2>3 DEF P!Need
<1>7. AsksFor(disk, stack, dir)
  BY <1>1, <1>3, <1>4, <1>5, ZenonT(60) DEF AsksFor, P!Need
<1>8. P!Call(dir, stack)
  BY <1>1, <1>5
<1>9. /\ PackagesMet(disk, packages', roots', P!InReach)
      /\ \/ answer' = 0 /\ ~AllReadable
         \/ /\ answer' # 0
            /\ WalkIs(disk, packages', roots', stack', answer')
            /\ stack' = <<>> => answer' # -1
      /\ \A e \in DOMAIN disk : packages[e] # 0 => packages'[e] = packages[e]
  BY <1>2, <1>6, <1>7, <1>8, CallWalks
<1>10. packages'[Program] = 1
  <2>1. Program \in DOMAIN disk
    BY <1>2, ProgramInReach DEF P!InReach, P!Dirs
  <2>. QED
    BY <1>2, <1>9, <2>1
<1>11. P!InReach' = P!InReach /\ (AllReadable <=> AllReadable')
  BY <1>1, ReachStays
<1>12. PackagesWalked'
  BY <1>1, <1>2, <1>9, <1>10, <1>11 DEF PackagesWalked, PackagesAre
<1>. QED
  BY <1>1, <1>2, <1>12 DEF PackagesRead

\* The walk gives up, and there was a reason for it.
LEMMA WalkGivesUp ==
    ASSUME PackagesRead, stage = "packages", P!GiveUp, ~AllReadable
    PROVE  PackagesRead'
<1>1. /\ answer' = 0 /\ disk' = disk /\ roots' = roots /\ prelude' = prelude
      /\ packages' = packages /\ stage' = stage /\ asked' = asked
  BY DEF P!GiveUp, P!INVALID_ROOT
<1>2. /\ disk \in Manifests /\ prelude = <<>> /\ asked = 0
      /\ PackagesMet(disk, packages, roots, P!InReach)
      /\ packages[Program] = 1
  BY Walked
<1>3. P!InReach' = P!InReach /\ (AllReadable <=> AllReadable')
  BY <1>1, ReachStays
<1>4. PackagesWalked'
  BY <1>1, <1>2, <1>3 DEF PackagesWalked, PackagesAre
<1>. QED
  BY <1>1, <1>2, <1>4 DEF PackagesRead

LEMMA VersionNeeded ==
    ASSUME PackagesRead, P!NeedsVersion
    PROVE  PackagesRead'
<1>1. /\ stage = "packages" /\ stack # <<>> /\ answer = -1
      /\ P!Top.at <= Len(disk[P!Top.dir].needs)
      /\ P!Need.path = <<>> /\ P!GiveUp
  BY DEF P!NeedsVersion, P!Walking, P!HasNeed, P!Unknown, P!NoPath
<1>2. /\ disk \in Manifests /\ PackagesMet(disk, packages, roots, P!InReach)
      /\ StackIs(disk, packages, stack)
  <2>1. answer # 0
    BY <1>1
  <2>. QED
    BY <1>1, <2>1, Walked
<1>3. /\ P!Top.dir \in P!InReach /\ P!Top.dir \in DOMAIN disk
      /\ P!Top.at \in 1 .. Len(disk[P!Top.dir].needs) + 1
      /\ Len(disk[P!Top.dir].needs) \in Nat
  BY <1>1, <1>2, TopIs
<1>4. P!Top.at \in DOMAIN disk[P!Top.dir].needs
  <2>1. P!Top.at \in 1 .. Len(disk[P!Top.dir].needs)
    BY <1>1, <1>3
  <2>. QED
    BY <1>2, <1>3, <2>1, ManifestType
<1>5. ~AllReadable
  BY <1>1, <1>3, <1>4 DEF AllReadable, Readable, P!Need
<1>. QED
  BY <1>1, <1>5, WalkGivesUp

LEMMA FailureTaken ==
    ASSUME PackagesRead, P!TakeFailure
    PROVE  PackagesRead'
<1>1. stage = "packages" /\ answer = 0 /\ P!GiveUp
  BY DEF P!TakeFailure, P!Walking, P!INVALID_ROOT
<1>2. ~AllReadable
  BY <1>1, Walked
<1>. QED
  BY <1>1, <1>2, WalkGivesUp

LEMMA RootTaken ==
    ASSUME PackagesRead, P!TakeRoot
    PROVE  PackagesRead'
<1>1. /\ stage = "packages" /\ stack # <<>> /\ answer # -1 /\ answer # 0
  BY DEF P!TakeRoot, P!Walking, P!Unknown, P!INVALID_ROOT
<1>2. /\ disk \in Manifests /\ prelude = <<>> /\ asked = 0
      /\ PackagesMet(disk, packages, roots, P!InReach)
      /\ packages[Program] = 1
      /\ StackIs(disk, packages, stack) /\ Filled(disk, packages, roots, stack)
      /\ AnswerIs(disk, packages, stack, answer)
  BY <1>1, Walked
<1>3. PICK top : top = P!Top
  OBVIOUS
<1>4. PICK need : need = P!Need
  OBVIOUS
<1>5. /\ top = stack[Len(stack)] /\ need = disk[top.dir].needs[top.at]
      /\ top.dir \in DOMAIN disk /\ top.dir \in P!InReach
      /\ top.root = packages[top.dir] /\ top.root # 0
      /\ Len(disk[top.dir].needs) \in Nat
      /\ Len(stack) \in 1 .. Len(stack)
  BY <1>1, <1>2, <1>3, <1>4, TopIs DEF P!Need
<1>6. /\ top.at \in 1 .. Len(disk[top.dir].needs)
      /\ need.path \in DOMAIN disk /\ need.path # <<>>
      /\ answer = packages[need.path]
  BY <1>1, <1>2, <1>5, SMTT(60) DEF AnswerIs
<1>7. /\ need.name \in STRING
      /\ DOMAIN disk[top.dir].needs = 1 .. Len(disk[top.dir].needs)
  BY <1>2, <1>5, <1>6, ManifestType, Zenon
<1>8. PICK named : named = P!VisibleRoot(roots, top.root, need.name)
  OBVIOUS
<1>9. CASE named = 0
  <2>1. P!MaySee(roots, P!Top.root, P!Need.name)
    BY <1>3, <1>4, <1>8, <1>9 DEF P!MaySee, P!INVALID_ROOT
  <2>2. /\ roots' = P!See(roots, top.root, need.name, packages[need.path])
        /\ stack' = Further(stack) /\ answer' = -1
        /\ disk' = disk /\ prelude' = prelude /\ packages' = packages
        /\ stage' = stage /\ asked' = asked
    BY <1>3, <1>4, <1>6, <2>1 DEF P!TakeRoot, P!Unknown, Further
  <2>3. packages[need.path] # 0
    BY <1>1, <1>6
  <2>4. Took(disk, packages, roots, stack, P!InReach, top, need)
    BY <1>1, <1>2, <1>5, <1>6, <1>7, <1>8, <1>9, <2>3, WalkTakes, Zenon
  <2>5. /\ PackagesMet(disk, packages', roots', P!InReach)
        /\ StackIs(disk, packages', stack')
        /\ Filled(disk, packages', roots', stack') /\ stack' # <<>>
    BY <2>2, <2>4 DEF Took
  <2>6. WalkIs(disk, packages', roots', stack', answer')
    BY <2>2, <2>5 DEF WalkIs, AnswerIs
  <2>7. P!InReach' = P!InReach
    BY <2>2, ReachStays
  <2>8. answer' # 0
    BY <2>2
  <2>9. PackagesWalked'
    BY <1>2, <2>2, <2>5, <2>6, <2>7, <2>8 DEF PackagesWalked, PackagesAre
  <2>. QED
    BY <1>1, <1>2, <2>2, <2>9 DEF PackagesRead
<1>10. CASE named # 0
  <2>1. P!GiveUp
    BY <1>3, <1>4, <1>8, <1>10 DEF P!TakeRoot, P!MaySee, P!INVALID_ROOT
  <2>2. PICK dir : dir = top.dir
    OBVIOUS
  <2>3. PICK m \in Nat : m = top.at - 1 /\ m + 1 = top.at
    <3>1. top.at - 1 \in Nat /\ (top.at - 1) + 1 = top.at
      BY <1>5, <1>6
    <3>. QED
      BY <3>1
  <2>4. FilledTo(disk, packages, roots, dir, m)
    BY <1>2, <1>5, <2>2, <2>3 DEF Filled
  <2>5. roots[packages[dir]] \in RootRecords(disk)
    <3>1. /\ roots \in Seq(RootRecords(disk))
          /\ packages[dir] \in 0 .. Len(roots) /\ packages[dir] # 0
      BY <1>2, <1>5, <2>2 DEF PackagesMet
    <3>2. packages[dir] \in 1 .. Len(roots)
      <4>1. Len(roots) \in Nat
        BY <3>1, LenProperties
      <4>. QED
        BY <3>1, <4>1
    <3>. QED
      BY <3>1, <3>2, ElementOfSeq
  <2>6. PICK word : word = need.name
    OBVIOUS
  <2>7. NameMeans(disk, packages, roots, dir, m, word)
    BY <1>5, <2>2, <2>4, <2>5, PackageNamed
  <2>8. \/ word = disk[dir].name
        \/ \E n \in 1 .. m : disk[dir].needs[n].name = word
    BY <1>5, <1>8, <1>10, <2>2, <2>6, <2>7, Zenon DEF NameMeans
  <2>9. ~Readable(dir)
    <3>1. m + 1 \in DOMAIN disk[dir].needs /\ word = disk[dir].needs[m + 1].name
      BY <1>5, <1>6, <1>7, <2>2, <2>3, <2>6
    <3>2. CASE word = disk[dir].name
      BY <3>1, <3>2 DEF Readable
    <3>3. CASE \E n \in 1 .. m : disk[dir].needs[n].name = word
      <4>1. PICK n \in 1 .. m : disk[dir].needs[n].name = word
        BY <3>3
      <4>2. n \in DOMAIN disk[dir].needs /\ n # m + 1
        BY <1>5, <1>6, <1>7, <2>2, <2>3
      <4>. QED
        BY <3>1, <4>1, <4>2 DEF Readable
    <3>. QED
      BY <2>8, <3>2, <3>3
  <2>10. ~AllReadable
    BY <1>5, <2>2, <2>9 DEF AllReadable
  <2>. QED
    BY <1>1, <2>1, <2>10, WalkGivesUp
<1>. QED
  BY <1>9, <1>10

LEMMA RootReturned ==
    ASSUME PackagesRead, P!ReturnRoot
    PROVE  PackagesRead'
<1>1. /\ stage = "packages" /\ stack # <<>> /\ answer = -1
      /\ ~(P!Top.at <= Len(disk[P!Top.dir].needs))
      /\ answer' = P!Top.root /\ stack' = SubSeq(stack, 1, Len(stack) - 1)
      /\ disk' = disk /\ roots' = roots /\ prelude' = prelude
      /\ packages' = packages /\ stage' = stage /\ asked' = asked
  BY DEF P!ReturnRoot, P!Walking, P!HasNeed, P!Unknown
<1>2. /\ disk \in Manifests /\ prelude = <<>> /\ asked = 0
      /\ PackagesMet(disk, packages, roots, P!InReach)
      /\ packages[Program] = 1
      /\ StackIs(disk, packages, stack) /\ Filled(disk, packages, roots, stack)
  <2>1. answer # 0
    BY <1>1
  <2>. QED
    BY <1>1, <2>1, Walked
<1>3. PICK top : top = P!Top
  OBVIOUS
<1>4. /\ top = stack[Len(stack)] /\ top.dir \in DOMAIN disk
      /\ top.root = packages[top.dir] /\ top.root # 0
      /\ top.at \in 1 .. Len(disk[top.dir].needs) + 1
      /\ Len(disk[top.dir].needs) \in Nat
  BY <1>1, <1>2, <1>3, TopIs
<1>5. top.at - 1 = Len(disk[top.dir].needs)
  <2>1. PICK size \in Nat : size = Len(disk[top.dir].needs)
    BY <1>4
  <2>2. top.at \in 1 .. size + 1 /\ ~(top.at <= size)
    BY <1>1, <1>3, <1>4, <2>1
  <2>3. \A at \in 1 .. size + 1 : ~(at <= size) => at - 1 = size
    BY <2>1
  <2>. QED
    BY <2>1, <2>2, <2>3
<1>6. \A e \in DOMAIN disk : e # <<>>
  BY <1>2, ManifestType
<1>7. Returned(disk, packages, roots, stack, top)
  BY <1>1, <1>2, <1>4, <1>5, <1>6, WalkReturns
<1>8. WalkIs(disk, packages', roots', stack', answer')
  BY <1>1, <1>3, <1>7 DEF WalkIs, Returned
<1>9. answer' # 0 /\ answer' # -1
  <2>1. packages[top.dir] \in 0 .. Len(roots) /\ roots \in Seq(RootRecords(disk))
    BY <1>2, <1>4 DEF PackagesMet
  <2>2. Len(roots) \in Nat
    BY <2>1, LenProperties
  <2>3. \A k \in 0 .. Len(roots) : k # -1
    BY <2>2
  <2>. QED
    BY <1>1, <1>3, <1>4, <2>1, <2>3
<1>10. P!InReach' = P!InReach
  BY <1>1, ReachStays
<1>11. PackagesWalked'
  BY <1>1, <1>2, <1>8, <1>9, <1>10 DEF PackagesWalked, PackagesAre
<1>. QED
  BY <1>1, <1>2, <1>11 DEF PackagesRead

LEMMA ProgramInterned ==
    ASSUME PackagesRead, P!Interned
    PROVE  PackagesRead'
<1>1. /\ stage = "packages" /\ stack = <<>> /\ answer # -1
      /\ disk' = disk /\ packages' = packages /\ stack' = stack
      /\ answer' = answer /\ asked' = asked
  BY DEF P!Interned, P!Unknown
<1>2. /\ disk \in Manifests /\ prelude = <<>> /\ asked = 0
      /\ PackagesMet(disk, packages, roots, P!InReach)
      /\ packages[Program] = 1
      /\ answer = 0 => ~AllReadable
      /\ answer # 0 => /\ Filled(disk, packages, roots, stack)
                       /\ AnswerIs(disk, packages, stack, answer)
  BY <1>1, Walked
<1>3. P!InReach' = P!InReach /\ (AllReadable <=> AllReadable')
  BY <1>1, ReachStays
<1>4. CASE answer = 0
  <2>1. stage' = "failed" /\ roots' = <<>> /\ prelude' = <<>>
    BY <1>4 DEF P!Interned, P!INVALID_ROOT, P!Clear
  <2>. QED
    BY <1>1, <1>2, <1>3, <1>4, <2>1 DEF PackagesRead
<1>5. CASE answer # 0
  <2>1. stage' = "prelude" /\ roots' = roots /\ prelude' = prelude
    BY <1>5 DEF P!Interned, P!INVALID_ROOT
  <2>2. answer = 1
    BY <1>1, <1>2, <1>5 DEF AnswerIs
  <2>3. asked \in 0 .. Len(disk[Program].prelude)
    <3>1. Len(disk[Program].prelude) \in Nat
      BY <1>2, ManifestType, ProgramInReach DEF P!InReach, P!Dirs
    <3>. QED
      BY <1>2, <3>1
  <2>4. PackagesLoaded(asked)'
    BY <1>1, <1>2, <1>3, <1>5, <2>1, <2>2, <2>3 DEF PackagesLoaded, PackagesAre
  <2>. QED
    BY <1>1, <1>2, <2>1, <2>4 DEF PackagesRead
<1>. QED
  BY <1>4, <1>5

LEMMA EveryoneGiven ==
    ASSUME PackagesRead, P!GiveEveryone
    PROVE  PackagesRead'
<1>1. /\ stage = "prelude" /\ asked < Len(disk[Program].prelude)
      /\ disk' = disk /\ packages' = packages /\ stack' = stack
      /\ answer' = answer
      /\ \/ /\ stage' = "failed" /\ roots' = <<>> /\ prelude' = <<>>
            /\ asked' = asked
         \/ asked' = asked + 1 /\ roots' = roots /\ stage' = stage
  BY DEF P!GiveEveryone, P!Clear
<1>2. disk \in Manifests /\ PackagesLoaded(asked)
  BY <1>1 DEF PackagesRead
<1>3. P!InReach' = P!InReach /\ (AllReadable <=> AllReadable')
  BY <1>1, ReachStays
<1>4. CASE stage' = "failed" /\ roots' = <<>> /\ prelude' = <<>> /\ asked' = asked
  BY <1>1, <1>2, <1>4 DEF PackagesRead
<1>5. CASE asked' = asked + 1 /\ roots' = roots /\ stage' = stage
  <2>1. asked + 1 \in 0 .. Len(disk[Program].prelude)
    <3>1. Len(disk[Program].prelude) \in Nat
      BY <1>2, ManifestType, ProgramInReach DEF P!InReach, P!Dirs
    <3>. QED
      BY <1>1, <1>2, <3>1 DEF PackagesLoaded
  <2>2. PackagesLoaded(asked)'
    BY <1>1, <1>2, <1>3, <1>5, <2>1 DEF PackagesLoaded
  <2>. QED
    BY <1>1, <1>2, <1>5, <2>2 DEF PackagesRead
<1>. QED
  BY <1>1, <1>4, <1>5

LEMMA AllLoaded ==
    ASSUME PackagesRead, P!Loaded
    PROVE  PackagesRead'
<1>1. /\ stage = "prelude" /\ asked = Len(disk[Program].prelude)
      /\ stage' = "loaded"
      /\ disk' = disk /\ roots' = roots /\ prelude' = prelude
      /\ packages' = packages /\ stack' = stack /\ answer' = answer
      /\ asked' = asked
  BY DEF P!Loaded
<1>2. disk \in Manifests /\ PackagesLoaded(asked)
  BY <1>1 DEF PackagesRead
<1>3. P!InReach' = P!InReach
  BY <1>1, ReachStays
<1>4. PackagesLoaded(Len(disk[Program].prelude))'
  BY <1>1, <1>2, <1>3 DEF PackagesLoaded
<1>. QED
  BY <1>1, <1>2, <1>4 DEF PackagesRead

LEMMA InitPackages ==
    ASSUME P!Init
    PROVE  PackagesRead
BY DEF P!Init, PackagesRead, P!Dirs, P!INVALID_ROOT

LEMMA NextPackages ==
    ASSUME PackagesRead, P!Next \/ UNCHANGED P!vars
    PROVE  PackagesRead'
<1>1. ASSUME UNCHANGED P!vars PROVE PackagesRead'
  <2>1. /\ disk' = disk /\ roots' = roots /\ prelude' = prelude
        /\ packages' = packages /\ stack' = stack /\ answer' = answer
        /\ stage' = stage /\ asked' = asked
    BY <1>1 DEF P!vars
  <2>2. P!InReach' = P!InReach /\ (AllReadable <=> AllReadable')
    BY <2>1, ReachStays
  <2>3. stage = "packages" => PackagesWalked'
    BY <2>1, <2>2 DEF PackagesRead, PackagesWalked
  <2>4. stage = "prelude" => PackagesLoaded(asked)'
    BY <2>1, <2>2 DEF PackagesRead, PackagesLoaded
  <2>5. stage = "loaded" => PackagesLoaded(Len(disk[Program].prelude))'
    BY <2>1, <2>2 DEF PackagesRead, PackagesLoaded
  <2>. QED
    BY <2>1, <2>2, <2>3, <2>4, <2>5 DEF PackagesRead
<1>2. P!Done => UNCHANGED P!vars
  BY DEF P!Done
<1>. QED
  BY <1>1, <1>2, ProgramRead, NeedRead, VersionNeeded, FailureTaken, RootTaken,
     RootReturned, ProgramInterned, EveryoneGiven, AllLoaded DEF P!Next

-----------------------------------------------------------------------------
(* What was loaded is what a table would say.                              *)

\* A package's own name and then what it needs.
LEMMA ViewSaid ==
    ASSUME NEW S, NEW own \in S, NEW rest, NEW m \in Nat, DOMAIN rest = 1 .. m,
           NEW seen \in Seq(S), Len(seen) = m + 1, seen[1] = own,
           rest \in [1 .. m -> S],
           \A n \in 1 .. m : seen[n + 1] = rest[n]
    PROVE  seen = <<own>> \o rest
<1>1. rest \in Seq(S)
  BY SeqDef
<1>2. Len(rest) = m
  <2>1. DOMAIN rest = 1 .. Len(rest) /\ Len(rest) \in Nat
    BY <1>1, LenProperties
  <2>. QED
    BY <2>1
<1>3. <<own>> \in Seq(S) /\ Len(<<own>>) = 1 /\ <<own>>[1] = own
  BY OneElement
<1>4. PICK first \in Seq(S) : first = <<own>> /\ Len(first) = 1 /\ first[1] = own
  BY <1>3
<1>5. /\ first \o rest \in Seq(S)
      /\ Len(first \o rest) = Len(first) + Len(rest)
      /\ \A i \in 1 .. Len(first) + Len(rest) :
            (first \o rest)[i] = IF i <= Len(first) THEN first[i]
                                 ELSE rest[i - Len(first)]
  BY <1>1, ConcatProperties
<1>6. PICK all \in Seq(S) : all = first \o rest
  BY <1>5
<1>7. Len(all) = 1 + m
  BY <1>2, <1>4, <1>5, <1>6
<1>8. ASSUME NEW i \in 1 .. Len(seen) PROVE seen[i] = all[i]
  <2>1. all[i] = IF i <= 1 THEN first[i] ELSE rest[i - 1]
    <3>1. i \in 1 .. 1 + m
      OBVIOUS
    <3>. QED
      BY <1>2, <1>4, <1>5, <1>6, <3>1
  <2>2. CASE i = 1
    BY <1>4, <2>1, <2>2
  <2>3. CASE i # 1
    <3>1. i - 1 \in 1 .. m /\ (i - 1) + 1 = i /\ ~(i <= 1)
      BY <2>3
    <3>2. seen[(i - 1) + 1] = rest[i - 1]
      BY <3>1
    <3>. QED
      BY <2>1, <3>1, <3>2
  <2>. QED
    BY <2>2, <2>3
<1>9. Len(seen) = Len(all)
  BY <1>7
<1>10. seen = all
  BY <1>6, <1>8, <1>9, SeqEqual
<1>. QED
  BY <1>4, <1>6, <1>10

\* Every package that was met is read to its end.
AllFilled ==
    \A dir \in DOMAIN disk : packages[dir] # 0 =>
        FilledTo(disk, packages, roots, dir, Len(disk[dir].needs))

\* The block of a directory that was met is its root.
LEMMA BlockSaid ==
    ASSUME PackagesMet(disk, packages, roots, P!InReach),
           NEW dir \in DOMAIN disk, packages[dir] # 0
    PROVE  P!BlockAt(P!BlocksSaid, dir) = packages[dir]
<1>. DEFINE blocks == P!BlocksSaid
<1>1. /\ DOMAIN blocks = DOMAIN roots
      /\ \A r \in DOMAIN roots : blocks[r].path = roots[r].path
  BY DEF P!BlocksSaid
<1>2. /\ roots \in Seq(RootRecords(disk))
      /\ packages[dir] \in 0 .. Len(roots) /\ roots[packages[dir]].path = dir
      /\ \A r \in 1 .. Len(roots) : packages[roots[r].path] = r
  BY DEF PackagesMet
<1>3. DOMAIN roots = 1 .. Len(roots) /\ packages[dir] \in DOMAIN roots
  <2>1. DOMAIN roots = 1 .. Len(roots) /\ Len(roots) \in Nat
    BY <1>2, LenProperties
  <2>. QED
    BY <1>2, <2>1
<1>. HIDE DEF blocks
<1>4. \A b \in DOMAIN blocks : blocks[b].path = dir <=> b = packages[dir]
  BY <1>1, <1>2, <1>3
<1>5. P!BlockAt(blocks, dir) = packages[dir]
  BY <1>1, <1>3, <1>4 DEF P!BlockAt
<1>. QED
  BY <1>5 DEF blocks

LEMMA RootsSaid ==
    ASSUME disk \in Manifests, PackagesMet(disk, packages, roots, P!InReach),
           AllFilled
    PROVE  roots = P!RootsOf(P!BlocksSaid)
<1>. DEFINE blocks == P!BlocksSaid
            Rest(b) == [n \in DOMAIN blocks[b].needs |->
                          P!Sees(blocks[b].needs[n].name,
                                 P!BlockAt(blocks, blocks[b].needs[n].path))]
            Said(b) == [name |-> blocks[b].name, path |-> blocks[b].path,
                        sees |-> P!OwnName(blocks, b) \o Rest(b)]
<1>1. P!RootsOf(blocks) = [b \in DOMAIN blocks |-> Said(b)]
  BY DEF P!RootsOf
<1>2. /\ DOMAIN blocks = DOMAIN roots
      /\ \A r \in DOMAIN roots :
            /\ blocks[r].name = disk[roots[r].path].name
            /\ blocks[r].path = roots[r].path
            /\ blocks[r].needs = disk[roots[r].path].needs
  BY DEF P!BlocksSaid
<1>3. /\ roots \in Seq(RootRecords(disk)) /\ DOMAIN roots = 1 .. Len(roots)
      /\ \A r \in DOMAIN roots :
            /\ roots[r] \in RootRecords(disk)
            /\ packages[roots[r].path] = r /\ r # 0
  <2>1. roots \in Seq(RootRecords(disk))
    BY DEF PackagesMet
  <2>2. DOMAIN roots = 1 .. Len(roots) /\ Len(roots) \in Nat
    BY <2>1, LenProperties
  <2>3. \A r \in 1 .. Len(roots) : roots[r] \in RootRecords(disk) /\ r # 0
    BY <2>1, <2>2, ElementOfSeq
  <2>4. \A r \in 1 .. Len(roots) : packages[roots[r].path] = r
    BY DEF PackagesMet
  <2>. QED
    BY <2>1, <2>2, <2>3, <2>4
<1>4. ASSUME NEW dir \in DOMAIN disk, packages[dir] # 0
      PROVE  P!BlockAt(blocks, dir) = packages[dir]
  BY <1>4, BlockSaid
<1>5. ASSUME NEW r \in DOMAIN roots PROVE roots[r] = Said(r)
  <2>1. PICK root \in RootRecords(disk) : root = roots[r]
    BY <1>3
  <2>2. PICK dir \in DOMAIN disk : dir = root.path
    BY <2>1 DEF RootRecords
  <2>3. packages[dir] = r /\ r # 0
    BY <1>3, <2>1, <2>2
  <2>4. PICK needs : needs = disk[dir].needs
    OBVIOUS
  <2>5. PICK m \in Nat : m = Len(needs) /\ DOMAIN needs = 1 .. m
    BY <2>4, ManifestType
  <2>6. /\ Len(root.sees) = m + 1
        /\ root.sees[1] = R!Sees(disk[dir].name, r)
        /\ \A n \in 1 .. m :
              /\ root.sees[n + 1] = R!Sees(needs[n].name, packages[needs[n].path])
              /\ NeedIsMet(disk, packages, dir, n, m)
    <3>1. FilledTo(disk, packages, roots, dir, m)
      BY <2>3, <2>4, <2>5 DEF AllFilled
    <3>. QED
      BY <2>1, <2>3, <2>4, <3>1 DEF FilledTo
  <2>7. /\ blocks[r].name = disk[dir].name /\ blocks[r].path = dir
        /\ blocks[r].needs = needs
    BY <1>2, <2>1, <2>2, <2>4
  <2>. DEFINE rest == Rest(r)
  <2>8. /\ DOMAIN rest = 1 .. m
        /\ \A n \in 1 .. m : rest[n] = R!Sees(needs[n].name,
                                              packages[needs[n].path])
    <3>1. DOMAIN rest = 1 .. m
      BY <2>5, <2>7
    <3>2. ASSUME NEW n \in 1 .. m
          PROVE  rest[n] = R!Sees(needs[n].name, packages[needs[n].path])
      <4>1. rest[n] = P!Sees(needs[n].name, P!BlockAt(blocks, needs[n].path))
        BY <2>5, <2>7
      <4>2. needs[n].path \in DOMAIN disk /\ packages[needs[n].path] # 0
        BY <2>4, <2>6 DEF NeedIsMet
      <4>3. P!BlockAt(blocks, needs[n].path) = packages[needs[n].path]
        BY <1>4, <4>2
      <4>. QED
        BY <4>1, <4>3 DEF P!Sees, R!Sees
    <3>. QED
      BY <3>1, <3>2
  <2>9. rest \in [1 .. m -> {root.sees[n] : n \in 1 .. m + 1}]
    <3>1. rest = [n \in 1 .. m |-> rest[n]]
      BY <2>5, <2>7
    <3>. HIDE DEF rest
    <3>2. \A n \in 1 .. m : rest[n] = root.sees[n + 1] /\ n + 1 \in 1 .. m + 1
      BY <2>6, <2>8
    <3>. QED
      BY <3>1, <3>2
  <2>10. P!OwnName(blocks, r) = <<R!Sees(disk[dir].name, r)>>
    <3>1. dir # <<>>
      BY ManifestType
    <3>. QED
      BY <2>7, <3>1 DEF P!OwnName, P!NoPath, P!Sees, R!Sees
  <2>. HIDE DEF Rest, blocks
  <2>11. root.sees = P!OwnName(blocks, r) \o rest
    <3>1. PICK own : own = R!Sees(disk[dir].name, r)
      OBVIOUS
    <3>2. PICK seen : seen = root.sees
      OBVIOUS
    <3>3. PICK more : more = rest
      OBVIOUS
    <3>. DEFINE S == SeesRecords
    <3>4. seen \in Seq(S) /\ \A n \in 1 .. m + 1 : seen[n] \in S
      <4>1. seen \in Seq(S)
        BY <2>1, <3>2 DEF RootRecords
      <4>. QED
        BY <2>6, <3>2, <4>1, ElementOfSeq
    <3>5. own \in S
      <4>1. 1 \in 1 .. m + 1 /\ own = seen[1]
        BY <2>6, <3>1, <3>2
      <4>. QED
        BY <3>4, <4>1
    <3>6. more \in [1 .. m -> S]
      BY <2>9, <3>2, <3>3, <3>4
    <3>7. /\ DOMAIN more = 1 .. m /\ Len(seen) = m + 1 /\ seen[1] = own
          /\ \A n \in 1 .. m : seen[n + 1] = more[n]
      BY <2>6, <2>8, <3>1, <3>2, <3>3
    <3>. HIDE DEF S
    <3>8. seen = <<own>> \o more
      BY <3>4, <3>5, <3>6, <3>7, ViewSaid
    <3>. QED
      BY <2>10, <3>1, <3>2, <3>3, <3>8
  <2>12. root.name = disk[dir].name
    <3>1. roots[packages[dir]].name = disk[dir].name
      BY <2>3 DEF PackagesMet
    <3>. QED
      BY <2>1, <2>3, <3>1
  <2>13. root = [name |-> root.name, path |-> root.path, sees |-> root.sees]
    BY DEF RootRecords
  <2>. QED
    BY <2>1, <2>2, <2>7, <2>11, <2>12, <2>13
<1>. HIDE DEF Said, blocks
<1>6. roots = [r \in DOMAIN roots |-> roots[r]]
  BY <1>3
<1>7. roots = [r \in DOMAIN roots |-> Said(r)]
  BY <1>5, <1>6
<1>. QED
  BY <1>1, <1>2, <1>7 DEF blocks

\* What was met is what is in reach, and all of it reads.
LEMMA ReachSaid ==
    ASSUME disk \in Manifests, PackagesAre(disk, packages, roots, P!InReach),
           AllFilled
    PROVE  /\ \A dir \in DOMAIN disk : packages[dir] # 0 <=> dir \in P!InReach
           /\ AllReadable
<1>. DEFINE met == {dir \in DOMAIN disk : packages[dir] # 0}
<1>1. /\ Program \in DOMAIN disk /\ packages[Program] = 1
      /\ \A dir \in met : dir \in P!InReach /\ disk[dir].reads
  BY ProgramInReach DEF PackagesAre, PackagesMet, P!InReach, P!Dirs
<1>2. ASSUME NEW dir \in met, NEW n \in DOMAIN disk[dir].needs
      PROVE  /\ disk[dir].needs[n].path \in met
             /\ disk[dir].needs[n].path # <<>>
             /\ disk[dir].needs[n].name # disk[dir].name
             /\ \A o \in DOMAIN disk[dir].needs :
                   disk[dir].needs[n].name = disk[dir].needs[o].name => n = o
  <2>1. PICK m : m = Len(disk[dir].needs) /\ DOMAIN disk[dir].needs = 1 .. m
    BY ManifestType
  <2>2. FilledTo(disk, packages, roots, dir, m)
    BY <2>1 DEF AllFilled
  <2>3. NeedIsMet(disk, packages, dir, n, m)
    BY <2>1, <2>2 DEF FilledTo
  <2>. QED
    BY <2>1, <2>3 DEF NeedIsMet
<1>3. P!IsClosed(met)
  <2>1. ASSUME NEW dir \in met, NEW to \in P!Needed(dir) PROVE to \in met
    <3>1. PICK n \in DOMAIN disk[dir].needs : to = disk[dir].needs[n].path
      BY DEF P!Needed
    <3>. QED
      BY <1>2, <3>1
  <2>2. Program \in met
    BY <1>1
  <2>. QED
    BY <2>1, <2>2 DEF P!IsClosed
<1>4. P!InReach \subseteq met
  <2>1. met \in SUBSET DOMAIN disk
    OBVIOUS
  <2>. QED
    BY <1>3, <2>1, ClosedHoldsReach
<1>5. \A dir \in P!InReach : Readable(dir)
  BY <1>1, <1>2, <1>4 DEF Readable
<1>. QED
  BY <1>1, <1>4, <1>5 DEF AllReadable

LEMMA PackagesMeant ==
    ASSUME PackagesRead
    PROVE  /\ P!OnePackageOfADirectory
           /\ P!SaysWhatATableWould /\ P!FailsForAReason
<1>1. CASE stage = "manifest"
  <2>1. roots = <<>> /\ DOMAIN roots = {}
    BY <1>1, EmptySeq DEF PackagesRead
  <2>. QED
    BY <1>1, <2>1 DEF P!OnePackageOfADirectory, P!SaysWhatATableWould,
                      P!FailsForAReason
<1>2. CASE stage = "failed"
  <2>1. roots = <<>> /\ DOMAIN roots = {}
    BY <1>2, EmptySeq DEF PackagesRead
  <2>2. P!FailsForAReason
    BY <1>2 DEF PackagesRead, P!FailsForAReason, AllReadable, Readable, P!NoPath
  <2>. QED
    BY <1>2, <2>1, <2>2 DEF P!OnePackageOfADirectory, P!SaysWhatATableWould
<1>3. ASSUME PackagesMet(disk, packages, roots, P!InReach)
      PROVE  P!OnePackageOfADirectory
  <2>1. /\ roots \in Seq(RootRecords(disk))
        /\ \A r \in 1 .. Len(roots) : packages[roots[r].path] = r
    BY <1>3 DEF PackagesMet
  <2>2. DOMAIN roots = 1 .. Len(roots)
    BY <2>1, LenProperties
  <2>. QED
    BY <2>1, <2>2 DEF P!OnePackageOfADirectory
<1>4. CASE stage = "packages"
  <2>1. P!OnePackageOfADirectory
    BY <1>3, <1>4, Walked
  <2>. QED
    BY <1>4, <2>1 DEF P!SaysWhatATableWould, P!FailsForAReason
<1>5. CASE stage \in {"prelude", "loaded"}
  <2>1. /\ disk \in Manifests /\ PackagesAre(disk, packages, roots, P!InReach)
        /\ stack = <<>> /\ Filled(disk, packages, roots, stack)
    BY <1>5 DEF PackagesRead, PackagesLoaded
  <2>2. AllFilled
    <3>1. 1 .. Len(stack) = {}
      <4>1. Len(stack) = 0
        BY <2>1, EmptySeq
      <4>. QED
        BY <4>1
    <3>. QED
      BY <2>1, <3>1 DEF AllFilled, Filled
  <2>3. PackagesMet(disk, packages, roots, P!InReach) /\ packages[Program] = 1
    BY <2>1 DEF PackagesAre
  <2>4. /\ \A dir \in DOMAIN disk : packages[dir] # 0 <=> dir \in P!InReach
        /\ AllReadable
    BY <2>1, <2>2, ReachSaid
  <2>5. P!FailsForAReason
    BY <1>5, <2>4 DEF P!FailsForAReason, AllReadable, Readable, P!NoPath
  <2>6. roots = P!RootsOf(P!BlocksSaid)
    BY <2>1, <2>2, <2>3, RootsSaid
  <2>7. /\ roots \in Seq(RootRecords(disk)) /\ DOMAIN roots = 1 .. Len(roots)
        /\ \A r \in DOMAIN roots : roots[r] \in RootRecords(disk) /\ r # 0
                                   /\ packages[roots[r].path] = r
        /\ \A dir \in DOMAIN disk : packages[dir] # 0 =>
              packages[dir] \in DOMAIN roots /\ roots[packages[dir]].path = dir
    <3>1. roots \in Seq(RootRecords(disk))
      BY <2>3 DEF PackagesMet
    <3>2. DOMAIN roots = 1 .. Len(roots) /\ Len(roots) \in Nat
      BY <3>1, LenProperties
    <3>3. \A r \in 1 .. Len(roots) : roots[r] \in RootRecords(disk) /\ r # 0
      BY <3>1, <3>2, ElementOfSeq
    <3>4. \A r \in 1 .. Len(roots) : packages[roots[r].path] = r
      BY <2>3 DEF PackagesMet
    <3>5. \A dir \in DOMAIN disk : packages[dir] # 0 =>
             packages[dir] \in 1 .. Len(roots) /\ roots[packages[dir]].path = dir
      BY <2>3, <3>2 DEF PackagesMet
    <3>. QED
      BY <3>1, <3>2, <3>3, <3>4, <3>5
  <2>8. {roots[r].path : r \in DOMAIN roots} = P!InReach
    <3>1. ASSUME NEW r \in DOMAIN roots PROVE roots[r].path \in P!InReach
      <4>1. roots[r].path \in DOMAIN disk /\ packages[roots[r].path] # 0
        BY <2>7 DEF RootRecords
      <4>. QED
        BY <2>4, <4>1
    <3>2. ASSUME NEW dir \in P!InReach
          PROVE  \E r \in DOMAIN roots : roots[r].path = dir
      <4>1. dir \in DOMAIN disk
        BY DEF P!InReach, P!Dirs
      <4>. QED
        BY <2>4, <2>7, <4>1
    <3>. QED
      BY <3>1, <3>2
  <2>9. roots[1].path = Program
    BY <2>1, <2>3, <2>7, ProgramInReach DEF P!InReach, P!Dirs
  <2>10. P!OnePackageOfADirectory
    BY <1>3, <2>3
  <2>. QED
    BY <2>5, <2>6, <2>8, <2>9, <2>10 DEF P!SaysWhatATableWould
<1>. QED
  BY <1>1, <1>2, <1>4, <1>5 DEF PackagesRead
-----------------------------------------------------------------------------
(* The theorems.                                                           *)

\* Every command line means one thing: whatever its arguments and their order,
\* what the driver has read when it reaches the file is the flags that are
\* nobody's value, the last value of an option, and the one name of a file.
THEOREM CommandLineIsRead == Spec => []ReadsTheCommandLine
<1>. DEFINE Reads == part = "driver" => CommandLineRead
<1>1. Init => Reads
  BY InitCommandLine DEF Init
<1>2. Reads /\ [Next]_vars => Reads'
  <2>. SUFFICES ASSUME Reads, [Next]_vars, part' = "driver"
                PROVE  CommandLineRead'
    OBVIOUS
  <2>1. CASE D!Next /\ part = "driver"
    BY <2>1, NextCommandLine
  <2>2. CASE UNCHANGED vars
    BY <2>2, NextCommandLine DEF vars, OfTheDriver, D!vars
  <2>. QED
    BY <2>1, <2>2 DEF Next
<1>3. Reads => ReadsTheCommandLine
  BY CommandLineMeant DEF ReadsTheCommandLine
<1>. QED
  BY <1>1, <1>2, <1>3, PTL DEF Spec

\* No program is built without the table it was given or with two, and each exit
\* code of the driver stands for what was built and written: 0 for the usage, for
\* every form that was asked for, or for a manifest that was refused; 1 for a
\* program that was not built, or the forms before the one that failed; 2 for no
\* form. No form is written of a program with errors.
THEOREM ExitIsWhatWasWritten == Spec => []ExitSaysWhatWasWritten
<1>. DEFINE Builds == part = "driver" => BuildState
<1>1. Init => Builds
  BY InitBuild DEF Init
<1>2. Builds /\ [Next]_vars => Builds'
  <2>. SUFFICES ASSUME Builds, [Next]_vars, part' = "driver"
                PROVE  BuildState'
    OBVIOUS
  <2>1. CASE D!Next /\ part = "driver"
    BY <2>1, NextBuild
  <2>2. CASE UNCHANGED vars
    BY <2>2, NextBuild DEF vars, OfTheDriver, D!vars
  <2>. QED
    BY <2>1, <2>2 DEF Next
<1>3. Builds => ExitSaysWhatWasWritten
  BY BuildMeant DEF ExitSaysWhatWasWritten
<1>. QED
  BY <1>1, <1>2, <1>3, PTL DEF Spec


\* Every roots table is read exactly when its text says something: into the
\* roots its blocks are, whatever their order, each seeing what its lines give
\* it, with a prelude of files its own block sees; and where the reading fails,
\* the text says nothing.
THEOREM TableIsRead == Spec => []ReadsTheTable
<1>. DEFINE Reads == part = "table" => TableRead
<1>1. Init => Reads
  BY InitTable DEF Init
<1>2. Reads /\ [Next]_vars => Reads'
  <2>. SUFFICES ASSUME Reads, [Next]_vars, part' = "table"
                PROVE  TableRead'
    OBVIOUS
  <2>1. CASE R!Next /\ part = "table"
    BY <2>1, NextTable
  <2>2. CASE UNCHANGED vars
    BY <2>2, NextTable DEF vars, OfTheTable, R!vars
  <2>. QED
    BY <2>1, <2>2 DEF Next
<1>3. Reads => ReadsTheTable
  BY TableMeant DEF ReadsTheTable
<1>. QED
  BY <1>1, <1>2, <1>3, PTL DEF Spec

\* Whatever the manifests say and however they need each other: a directory is
\* one package, what comes out is what a table of those in reach would say, the
\* program's own first, and it fails exactly where a manifest in reach does not
\* read, needs a version, gives two things one name, or a module every file is
\* to see is not found.
THEOREM ManifestsAreRead == Spec => []ReadsTheManifests
<1>. DEFINE Reads == part = "packages" => PackagesRead
<1>1. Init => Reads
  BY InitPackages DEF Init
<1>2. Reads /\ [Next]_vars => Reads'
  <2>. SUFFICES ASSUME Reads, [Next]_vars, part' = "packages"
                PROVE  PackagesRead'
    OBVIOUS
  <2>1. CASE P!Next /\ part = "packages"
    BY <2>1, NextPackages
  <2>2. CASE UNCHANGED vars
    BY <2>2, NextPackages DEF vars, OfThePackages, P!vars
  <2>. QED
    BY <2>1, <2>2 DEF Next
<1>3. Reads => ReadsTheManifests
  BY PackagesMeant DEF ReadsTheManifests
<1>. QED
  BY <1>1, <1>2, <1>3, PTL DEF Spec
=============================================================================
