------------------------------ MODULE TypePhase ------------------------------
(***************************************************************************)
(* The type phase of hdc: what Compilation::collect_types and              *)
(* Compilation::check_statements do to the candidates of every module, and *)
(* what TypeCollector does when typing one candidate instantiates a        *)
(* generic in the middle of it.                                            *)
(*                                                                         *)
(* A module keeps its candidates in a list that only grows, and two marks  *)
(* into it, one per pass: what the WRITTEN pass has finished, and what the *)
(* INFERRED pass has. A use of a generic clones the declaration into the   *)
(* module that wrote it, so a list grows while it is walked, and while     *)
(* another module's list is: the collector then types the clone's          *)
(* signature at once and `catches up' its module, a walk nested inside the *)
(* walk that asked. The call stack of those walks is `stack'.              *)
(*                                                                         *)
(* What a type is, is abstracted to how it was arrived at (TypeStates).    *)
(* The clone of a class is its head and its field: the methods and the     *)
(* variants that its signature types as well (type_signature_now, for each *)
(* child) are left out, as are the candidates inside a closure. A name     *)
(* asks for one clone while it is typed, where a written type may use      *)
(* several generics.                                                       *)
(***************************************************************************)
EXTENDS Integers, Sequences, FiniteSets

CONSTANTS
    NumModules,     \* the modules that parsed, in the order they were interned
    Keys,           \* the instantiations the program can ask for
    HostOf,         \* the module that declares the generic of a key
    SortOf,         \* what a key clones: a class, a function or a method
    Assigns,        \* the keys whose body assigns to a bare name
    Source,         \* per module, the names its text declares, and in which declaration
    Switches        \* per module, the switches that C++ cannot switch over

Modules == 1 .. NumModules
Passes == {"written", "inferred"}

\* a declaration heads the names that follow it; a method heads a body inside
\* a class, and the others are children of the root
RootSorts == {"class", "function"}
HeadSorts == RootSorts \cup {"method"}
BodySorts == {"field", "local", "loop", "implicit", "switch"}

\* "none" is INVALID_TYPE; "given" is a type a lowering set on the local it
\* wrote, before any walk reaches it
TypeStates == {"none", "written", "given", "inferred"}

ASSUME ModulesAssumption == NumModules \in Nat \ {0}
ASSUME KeysAssumption ==
    /\ HostOf \in [Keys -> Modules]
    /\ SortOf \in [Keys -> HeadSorts]
    /\ Assigns \subseteq Keys
ASSUME SourceAssumption ==
    /\ Source \in [Modules -> Seq([sort : HeadSorts \cup BodySorts,
                                   owner : Nat, assigns : BOOLEAN])]
    /\ \A m \in Modules : /\ Len(Source[m]) > 0
                          /\ Source[m][1].sort = "class"
    /\ Switches \in [Modules -> Nat]

VARIABLES
    cand,       \* per module, its candidates in the order they were declared
    mark,       \* the maps `collected' and `inferred'; 0 where there is no key
    memo,       \* the candidate a key was cloned into, 0 before
    stack,      \* the walks and signatures being worked, the innermost first
    walking,    \* the modules a walk is in
    subject,    \* the members `index' and `scope_of' of the collector
    phase,      \* which loop of Compilation is running
    at,         \* the module that loop is at
    grew,       \* whether this round of the loop changed anything
    free,       \* whether the loop's own typing may still instantiate
    named,      \* how many of a module's root declarations were asked for the
                \*   names they declare by assigning them
    lowered,    \* how many of a module's switches were taken apart
    checked,    \* the declarations the statement checker has walked
    round       \* the snapshot of declarations it is walking now

vars == <<cand, mark, memo, stack, walking, subject, phase, at, grew, free,
          named, lowered, checked, round>>

-----------------------------------------------------------------------------
(* Candidates.                                                             *)

\* get_candidate_count: index 0 is a sentinel, so the count is one past
Count(m) == Len(cand[m]) + 1

\* `wrote', `gave', `built' and `scanned' are history the code does not keep:
\* how often the written pass, the inferred pass, require_default_construction
\* and the ImplicitCollector went through the name
Declared(sort, owner, assigns, type, early) ==
    [sort |-> sort, owner |-> owner, assigns |-> assigns, type |-> type,
     super |-> FALSE, early |-> early, scanned |-> FALSE,
     wrote |-> 0, gave |-> 0, built |-> 0]

EarlyPhases == {"collect", "implicit"}

\* the clone a key makes, its head first, as collect_declaration declares it
Clone(k, c) ==
    LET sort == SortOf[k]
        owner == IF sort = "method" THEN 1 ELSE c
        early == phase \in EarlyPhases
    IN <<Declared(sort, owner, k \in Assigns, "none", early),
         Declared(IF sort = "class" THEN "field" ELSE "local",
                  c, FALSE, "none", early)>>

\* what is written: a signature, a class or a field says its type, and a
\* binding with nothing written says nothing
WrittenType(name) ==
    IF name.sort \in HeadSorts \cup {"field"} THEN "written" ELSE "none"

\* a declaration is its own type in either pass; for the others it is
\* written_or_inferred: a type already there is the written one and stays,
\* and with none there the expression decides
InferredType(name) ==
    IF name.sort \in HeadSorts THEN "written"
    ELSE IF name.type = "none" THEN "inferred" ELSE name.type

Wrote(name) == [name EXCEPT !.type = WrittenType(name), !.wrote = @ + 1,
                            !.super = (name.sort = "class")]
Gave(name) == [name EXCEPT !.type = InferredType(name), !.gave = @ + 1]

\* the sweep of the written pass also asks for the default construction
WroteAndAsked(name) == [Wrote(name) EXCEPT !.built = name.built + 1]

\* the list of module m after the lowering or the clone that declares names
Grown(m, names) == [cand EXCEPT ![m] = @ \o names]

RootHeads(m) == {c \in DOMAIN cand[m] : cand[m][c].sort \in RootSorts}
Heads(m) == {c \in DOMAIN cand[m] : cand[m][c].sort \in HeadSorts}
Methods(m, c) == {d \in DOMAIN cand[m] : /\ cand[m][d].sort = "method"
                                        /\ cand[m][d].owner = c}

\* what is left for StatementChecker::check to walk: a declaration it has not
\* been through, and a method that grew inside one it has
Unchecked(m) ==
    {c \in Heads(m) \ checked[m] :
        cand[m][c].sort = "method" => cand[m][c].owner \in checked[m]}

-----------------------------------------------------------------------------
(* The call stack. A `walk' is TypeCollector::walk, a `sign' is            *)
(* type_signature_now followed by the catch_up that TypeBuilder asks for   *)
(* wherever it instantiates.                                               *)

NoCandidate == 0

Subject(m, scopes, upto) == [mod |-> m, scopes |-> scopes, upto |-> upto]

WalkFrame(m, pass, nested, held) ==
    [op |-> "walk", mod |-> m, pass |-> pass, count |-> Count(m),
     todo |-> {c \in DOMAIN cand[m] : c >= mark[pass][m]},
     cand |-> NoCandidate, step |-> "main", asked |-> FALSE, worked |-> FALSE,
     nested |-> nested, held |-> held]

\* (mutant: the signature of a clone left for the walk that comes to it)
SignFrameLater(m, c, fresh) ==
    [op |-> "sign", mod |-> m, pass |-> "written", count |-> 0, todo |-> {},
     cand |-> c, step |-> "known", asked |-> TRUE, worked |-> FALSE,
     nested |-> TRUE, held |-> subject]

SignFrame(m, c, fresh) ==
    [op |-> "sign", mod |-> m, pass |-> "written", count |-> 0, todo |-> {},
     cand |-> c, step |-> IF fresh THEN "main" ELSE "known",
     asked |-> ~fresh, worked |-> FALSE, nested |-> TRUE, held |-> subject]

Top == stack[1]
Working(op) == stack # <<>> /\ Top.op = op
Typing == Working("walk") /\ Top.cand # NoCandidate
Subjected == cand[Top.mod][Top.cand]

SetTop(frame) == stack' = <<frame>> \o Tail(stack)

\* (mutant: the last candidate taken for the sentinel)
PendingButOne(m, pass) == mark[pass][m] < Count(m) - 1

\* `walk' begins when there is something past its mark, and with nothing
\* there it returns as it came, writing down the mark it read
Pending(m, pass) == mark[pass][m] < Count(m)

BeginWalk(below, m, pass, nested, held) ==
    /\ stack' = <<WalkFrame(m, pass, nested, held)>> \o below
    /\ walking' = walking \cup {m}
    /\ subject' = Subject(m, m, Count(m))

\* (mutant: catch_up as it was before it asked which pass had been through)
CatchUpPassWritten(m) == "written"

\* catch_up asks the inferred pass once inference has been through the module:
\* the written pass again would take back what was inferred
CatchUpPass(m) == IF mark["inferred"][m] > 0 THEN "inferred" ELSE "written"

\* (mutant: a module walked twice)
CatchUpAlways(below, m, held) ==
    IF ~Pending(m, CatchUpPass(m))
    THEN stack' = below /\ subject' = held /\ UNCHANGED walking
    ELSE BeginWalk(below, m, CatchUpPass(m), TRUE, held)

CatchUp(below, m, held) ==
    IF m \in walking \/ ~Pending(m, CatchUpPass(m))
    THEN stack' = below /\ subject' = held /\ UNCHANGED walking
    ELSE BeginWalk(below, m, CatchUpPass(m), TRUE, held)

-----------------------------------------------------------------------------
(* The walk of one module.                                                 *)

\* a name past the `collected' mark was never in the written pass, so the
\* inferred pass gives it both
IsLate(frame, c) ==
    /\ frame.pass = "inferred"
    /\ c > mark["written"][frame.mod]

\* The code takes a round in the order of scopes, symbols and candidates,
\* which says nothing of how the indices come: any order here
TakeCandidate ==
    /\ Working("walk")
    /\ Top.cand = NoCandidate
    /\ \E c \in Top.todo :
          SetTop([Top EXCEPT !.cand = c, !.todo = @ \ {c}, !.asked = FALSE,
                             !.step = IF IsLate(Top, c) THEN "late" ELSE "main"])
    /\ UNCHANGED <<cand, mark, memo, walking, subject, phase, at, grew, free,
                   named, lowered, checked, round>>

\* what a late name gets before the inferred pass: its written type and super,
\* and not the default construction check
FinishLate ==
    /\ Typing
    /\ Top.step = "late"
    /\ cand' = [cand EXCEPT ![Top.mod][Top.cand] = Wrote(@)]
    /\ SetTop([Top EXCEPT !.step = "main", !.asked = FALSE])
    /\ UNCHANGED <<mark, memo, walking, subject, phase, at, grew, free, named,
                   lowered, checked, round>>

FinishWritten ==
    /\ Typing
    /\ Top.pass = "written"
    /\ cand' = [cand EXCEPT ![Top.mod][Top.cand] = WroteAndAsked(@)]
    /\ SetTop([Top EXCEPT !.cand = NoCandidate, !.worked = TRUE])
    /\ UNCHANGED <<mark, memo, walking, subject, phase, at, grew, free, named,
                   lowered, checked, round>>

FinishInferred ==
    /\ Typing
    /\ Top.pass = "inferred"
    /\ Top.step = "main"
    /\ cand' = [cand EXCEPT ![Top.mod][Top.cand] = Gave(@)]
    /\ SetTop([Top EXCEPT !.cand = NoCandidate, !.worked = TRUE])
    /\ UNCHANGED <<mark, memo, walking, subject, phase, at, grew, free, named,
                   lowered, checked, round>>

\* a loop variable is typed by taking its loop apart, which declares a local
\* of the lowering's own, typed as it is made, and leaves an ordinary binding
LowerLoop ==
    /\ Typing
    /\ Top.pass = "inferred"
    /\ Top.step = "main"
    /\ Subjected.sort = "loop"
    /\ LET local == Declared("local", Subjected.owner, FALSE, "given", FALSE)
           bound == [Subjected EXCEPT !.sort = "local"]
           typed == [cand[Top.mod] EXCEPT ![Top.cand] = Gave(bound)]
       IN cand' = [cand EXCEPT ![Top.mod] = typed \o <<local>>]
    /\ SetTop([Top EXCEPT !.cand = NoCandidate, !.worked = TRUE])
    /\ UNCHANGED <<mark, memo, walking, subject, phase, at, grew, free, named,
                   lowered, checked, round>>

RoundIsOver ==
    /\ Working("walk")
    /\ Top.cand = NoCandidate
    /\ Top.todo = {}

\* the count is read again, and what the round declared is the next round
NextRound ==
    /\ RoundIsOver
    /\ Top.count < Count(Top.mod)
    /\ SetTop([Top EXCEPT !.todo = {c \in DOMAIN cand[Top.mod] : c >= Top.count},
                          !.count = Count(Top.mod)])
    /\ subject' = [subject EXCEPT !.scopes = Top.mod, !.upto = Count(Top.mod)]
    /\ UNCHANGED <<cand, mark, memo, walking, phase, at, grew, free, named,
                   lowered, checked, round>>

\* The mark is written and the module is no longer walked. What catch_up held
\* of the outer walk is put back; a walk Compilation began goes on to the next
\* module
FinishWalk ==
    /\ RoundIsOver
    /\ Top.count = Count(Top.mod)
    /\ mark' = [mark EXCEPT ![Top.pass][Top.mod] = Top.count]
    /\ walking' = walking \ {Top.mod}
    /\ stack' = Tail(stack)
    /\ IF Top.nested
       THEN subject' = Top.held /\ UNCHANGED <<at, grew>>
       ELSE /\ at' = at + 1
            /\ grew' = (grew \/ Top.worked)
            /\ UNCHANGED subject
    /\ UNCHANGED <<cand, memo, phase, free, named, lowered, checked, round>>

-----------------------------------------------------------------------------
(* Instantiating.                                                          *)

\* A type that is written names classes; a function or a method is cloned by
\* a call, which only an expression makes. A class is its own type and asks
\* for its base in the written pass alone
MayName(k) ==
    \/ /\ Typing
       /\ \/ Top.pass = "written" \/ Top.step = "late"
          \/ Subjected.sort \in {"function", "method"}
       /\ SortOf[k] = "class"
    \/ /\ Typing
       /\ Top.pass = "inferred" /\ Top.step = "main"
       /\ Subjected.sort \in BodySorts
    \/ Working("sign") /\ SortOf[k] = "class"

\* one use per typing of one name, of one signature, of one switch's subject
\* or of one declaration's statements: a bound, which several of a written type
\* would pass
MayAsk(k) ==
    \/ stack # <<>> /\ ~Top.asked /\ MayName(k)
    \/ stack = <<>> /\ free

Asked == IF stack = <<>> THEN <<>> ELSE <<[Top EXCEPT !.asked = TRUE]>> \o Tail(stack)

\* find_instantiation; 0 says there is none
Found(k) == memo[k]

\* Instantiator::instantiate finds the clone or makes it and writes it down
\* before anything in it is typed; then its signature is typed at once
Instantiate(k) ==
    LET m == HostOf[k]
        c == IF Found(k) = 0 THEN Count(m) ELSE Found(k)
        list == IF Found(k) = 0 THEN Grown(m, Clone(k, c)) ELSE cand
        fresh == list[m][c].type = "none"
        class == list[m][c].sort = "class"
    IN /\ MayAsk(k)
       /\ memo' = [memo EXCEPT ![k] = c]
       /\ cand' = IF fresh /\ class
                  THEN [list EXCEPT ![m][c].type = "written"] ELSE list
       /\ stack' = <<SignFrame(m, c, fresh)>> \o Asked
       /\ subject' = IF ~fresh THEN subject
                     ELSE IF class THEN [subject EXCEPT !.mod = m]
                     ELSE Subject(m, m, Len(list[m]) + 1)
       /\ free' = FALSE
       /\ UNCHANGED <<mark, walking, phase, at, grew, named, lowered, checked,
                      round>>

\* type_signature_now is done: the declaration has a type, and the fields of a
\* class the types they wrote. Then the clone's module is caught up
FinishSignature ==
    /\ Working("sign")
    /\ cand' = IF Top.step = "known" THEN cand
               ELSE [cand EXCEPT ![Top.mod] =
                       [c \in DOMAIN @ |->
                          IF /\ @[c].type = "none"
                             /\ \/ c = Top.cand
                                \/ @[c].owner = Top.cand /\ @[c].sort = "field"
                          THEN [@[c] EXCEPT !.type = "written"] ELSE @[c]]]
    /\ CatchUp(Tail(stack), Top.mod, Top.held)
    /\ UNCHANGED <<mark, memo, phase, at, grew, free, named, lowered, checked,
                   round>>

-----------------------------------------------------------------------------
(* The loops of Compilation.                                               *)

Idle == stack = <<>>
LoopIsOver == Idle /\ at = NumModules + 1
InLoop(p) == Idle /\ phase = p /\ at \in Modules

Begin(p) ==
    /\ phase' = p
    /\ at' = 1
    /\ grew' = FALSE
    /\ free' = (p = "switch")
    /\ round' = IF p = "check" THEN Unchecked(1) ELSE {}

PassOfLoop == IF phase = "collect" THEN "written" ELSE "inferred"

\* types.collect(i), types.infer(i), and between two rounds of the checker
\* catch_up(i) followed by infer(i), which is the same walk
WalkModule ==
    /\ Idle
    /\ phase \in {"collect", "infer", "recheck"}
    /\ at \in Modules
    /\ Pending(at, PassOfLoop)
    /\ BeginWalk(<<>>, at, PassOfLoop, FALSE, subject)
    /\ UNCHANGED <<cand, mark, memo, phase, at, grew, free, named, lowered,
                   checked, round>>

NothingToWalk ==
    /\ Idle
    /\ phase \in {"collect", "infer", "recheck"}
    /\ at \in Modules
    /\ ~Pending(at, PassOfLoop)
    /\ subject' = [subject EXCEPT !.mod = at]
    /\ at' = at + 1
    /\ UNCHANGED <<cand, mark, memo, stack, walking, phase, grew, free, named,
                   lowered, checked, round>>

\* ImplicitCollector::declare: the root declarations past its watermark, and
\* only those, are asked in order for the names they declare by assigning them
Unscanned(m) ==
    {c \in RootHeads(m) : Cardinality({d \in RootHeads(m) : d < c}) >= named[m]}

ScanDeclaration ==
    /\ InLoop("implicit")
    /\ \E d \in Unscanned(at) :
          LET assigned == IF cand[at][d].assigns
                          THEN <<Declared("implicit", d, FALSE, "none", TRUE)>>
                          ELSE <<>>
              asked == [cand[at][d] EXCEPT !.scanned = TRUE]
          IN /\ \A o \in Unscanned(at) : d <= o
             /\ cand' = [cand EXCEPT ![at] =
                            [cand[at] EXCEPT ![d] = asked] \o assigned]
    /\ named' = [named EXCEPT ![at] = @ + 1]
    /\ grew' = TRUE
    /\ UNCHANGED <<mark, memo, stack, walking, subject, phase, at, free, lowered,
                   checked, round>>

LeaveScanned ==
    /\ InLoop("implicit")
    /\ Unscanned(at) = {}
    /\ at' = at + 1
    /\ UNCHANGED <<cand, mark, memo, stack, walking, subject, phase, grew, free,
                   named, lowered, checked, round>>

\* SwitchLowerer: the subject goes into a local whose type is set as it is
\* made, a reference where the subject has a name
LowerSwitch ==
    /\ InLoop("switch")
    /\ lowered[at] < Switches[at]
    /\ lowered' = [lowered EXCEPT ![at] = @ + 1]
    /\ cand' = Grown(at, <<Declared("switch", 1, FALSE, "given", FALSE)>>)
    /\ grew' = TRUE
    /\ UNCHANGED <<mark, memo, stack, walking, subject, phase, at, free, named,
                   checked, round>>

\* a subject that has no type yet is left for the next round
LeaveSwitches ==
    /\ InLoop("switch")
    /\ at' = at + 1
    /\ free' = TRUE
    /\ UNCHANGED <<cand, mark, memo, stack, walking, subject, phase, grew,
                   named, lowered, checked, round>>

\* StatementChecker::check walks one declaration of its snapshot, and the
\* members it has by then with it
CheckDeclaration ==
    /\ InLoop("check")
    /\ \E d \in round :
          /\ \A o \in round : d <= o
          /\ round' = round \ {d}
          /\ checked' = [checked EXCEPT ![at] = @ \cup {d} \cup Methods(at, d)]
    /\ free' = TRUE
    /\ UNCHANGED <<cand, mark, memo, stack, walking, subject, phase, at, grew,
                   named, lowered>>

LeaveChecked ==
    /\ InLoop("check")
    /\ round = {}
    /\ at' = at + 1
    /\ free' = FALSE
    /\ round' = IF at = NumModules THEN {} ELSE Unchecked(at + 1)
    /\ UNCHANGED <<cand, mark, memo, stack, walking, subject, phase, grew,
                   named, lowered, checked>>

\* (mutant: what grew after the round of its module left unchecked)
HasMoreNever == FALSE

HasMore == \E m \in Modules : Unchecked(m) # {}

NextLoop ==
    /\ LoopIsOver
    /\ \/ phase = "collect" /\ phase' = "implicit" /\ at' = 1
          /\ UNCHANGED <<grew, free, round>>
       \/ phase = "implicit" /\ Begin(IF grew THEN "collect" ELSE "infer")
       \/ phase = "infer" /\ phase' = "switch" /\ at' = 1 /\ free' = TRUE
          /\ UNCHANGED <<grew, round>>
       \/ phase = "switch" /\ Begin(IF grew THEN "infer" ELSE "check")
       \/ phase = "check" /\ Begin(IF HasMore THEN "recheck" ELSE "done")
       \/ phase = "recheck" /\ Begin("check")
    /\ UNCHANGED <<cand, mark, memo, stack, walking, subject, named, lowered,
                   checked>>

\* the override checks come next, and no candidate changes again
Finished == phase = "done" /\ UNCHANGED vars

Init ==
    /\ cand = [m \in Modules |->
                 [c \in DOMAIN Source[m] |->
                    Declared(Source[m][c].sort, Source[m][c].owner,
                             Source[m][c].assigns, "none", TRUE)]]
    /\ mark = [p \in Passes |-> [m \in Modules |-> 0]]
    /\ memo = [k \in Keys |-> 0]
    /\ stack = <<>>
    /\ walking = {}
    /\ subject = Subject(1, 1, 0)
    /\ phase = "collect"
    /\ at = 1
    /\ grew = FALSE
    /\ free = FALSE
    /\ named = [m \in Modules |-> 0]
    /\ lowered = [m \in Modules |-> 0]
    /\ checked = [m \in Modules |-> {}]
    /\ round = {}

Next ==
    \/ TakeCandidate \/ FinishLate \/ FinishWritten \/ FinishInferred
    \/ LowerLoop \/ NextRound \/ FinishWalk
    \/ \E k \in Keys : Instantiate(k)
    \/ FinishSignature
    \/ WalkModule \/ NothingToWalk \/ ScanDeclaration \/ LeaveScanned
    \/ LowerSwitch \/ LeaveSwitches
    \/ CheckDeclaration \/ LeaveChecked
    \/ NextLoop \/ Finished

\* one thread, which never waits for anything: it goes on until it is done
Spec == Init /\ [][Next]_vars /\ WF_vars(Next)

-----------------------------------------------------------------------------
(* Properties.                                                             *)

Phases == EarlyPhases \cup {"infer", "switch", "check", "recheck", "done"}

NameType == [sort : HeadSorts \cup BodySorts, owner : Nat, assigns : BOOLEAN,
             type : TypeStates, super : BOOLEAN, early : BOOLEAN,
             scanned : BOOLEAN, wrote : Nat, gave : Nat, built : Nat]
SubjectType == [mod : Modules, scopes : Modules, upto : Nat]
FrameType == [op : {"walk", "sign"}, mod : Modules, pass : Passes, count : Nat,
              todo : SUBSET Nat, cand : Nat, step : {"main", "late", "known"},
              asked : BOOLEAN, worked : BOOLEAN, nested : BOOLEAN,
              held : SubjectType]

\* Every variable holds values of the shape the code's structures have.
TypeOK ==
    /\ cand \in [Modules -> Seq(NameType)]
    /\ mark \in [Passes -> [Modules -> Nat]]
    /\ memo \in [Keys -> Nat]
    /\ stack \in Seq(FrameType)
    /\ walking \subseteq Modules
    /\ subject \in SubjectType
    /\ phase \in Phases
    /\ at \in Nat
    /\ grew \in BOOLEAN
    /\ free \in BOOLEAN
    /\ named \in [Modules -> Nat]
    /\ lowered \in [Modules -> Nat]
    /\ checked \in [Modules -> SUBSET Nat]
    /\ round \subseteq Nat

Names == UNION {{m} \X DOMAIN cand[m] : m \in Modules}
Walks == {i \in DOMAIN stack : stack[i].op = "walk"}

\* catch_up steps aside for a module already being walked, so no module is
\* ever walked by two frames of the call stack, and `walking' is exactly the
\* modules the frames are in.
OneWalkPerModule ==
    /\ \A i, j \in Walks : stack[i].mod = stack[j].mod => i = j
    /\ walking = {stack[i].mod : i \in Walks}

\* The collector keeps what it is looking at in members, and a walk nested in
\* a walk moves them. Whenever a walk types a name, `index' is its module and
\* `scope_of' is that module's and was read when the name was already there.
TypesItsOwnModule ==
    Typing => /\ subject.mod = Top.mod
              /\ subject.scopes = Top.mod
              /\ Top.cand < subject.upto

\* Nothing is typed, or reported, twice: each pass goes through a name at most
\* once, whatever was cloned while it walked (the comment on
\* TypeCollector::walk), and the default construction is asked for once.
EachPassOnce ==
    \A m \in Modules : \A c \in DOMAIN cand[m] :
        cand[m][c].wrote <= 1 /\ cand[m][c].gave <= 1 /\ cand[m][c].built <= 1

\* The inferred pass reads what the written pass left behind, so a name has
\* been through the written one first. The mark is off by one for a name that
\* lands on it, and at most one name of a module does.
WrittenBeforeInferred ==
    \A m \in Modules :
        \A c, d \in DOMAIN cand[m] :
            /\ cand[m][c].gave > 0 /\ cand[m][c].wrote = 0
            /\ cand[m][d].gave > 0 /\ cand[m][d].wrote = 0
            => c = d

\* What was inferred stays: the written pass never runs again over a name the
\* inferred pass has finished, though clones keep being made after both loops.
InferredStays ==
    [][\A m \in Modules : \A c \in DOMAIN cand[m] :
          cand[m][c].type = "inferred" => cand'[m][c].type = "inferred"]_vars

\* Once inference has been through every module, whenever no walk runs every
\* name is typed: a clone born under the statement checker was caught up, and
\* what it instantiated in turn, before the checker goes on.
TypedWhenIdle ==
    phase \in {"check", "recheck", "done"} /\ Idle =>
        \A m \in Modules : \A c \in DOMAIN cand[m] :
            cand[m][c].type # "none" /\ cand[m][c].gave = 1

\* Whoever asked for an instantiation goes on with a clone whose declaration
\* has a type, and whose fields do: `this' and a member are read the moment
\* the clone exists, also when its module is the one being walked.
CloneHasSignature ==
    Typing => \A k \in Keys :
        memo[k] # 0 /\ ~(\E i \in DOMAIN stack : /\ stack[i].op = "sign"
                                                 /\ stack[i].mod = HostOf[k]
                                                 /\ stack[i].cand = memo[k])
        => \A c \in DOMAIN cand[HostOf[k]] :
              \/ c = memo[k]
              \/ cand[HostOf[k]][c].owner = memo[k]
                 /\ cand[HostOf[k]][c].sort = "field"
              => cand[HostOf[k]][c].type # "none"

\* What the statement checker walks has been typed: a clone waits for the
\* round after the one it was made in, by the snapshot of each round.
CheckedIsTyped ==
    \A m \in Modules : \A d \in checked[m] :
        \A c \in DOMAIN cand[m] :
            cand[m][c].owner = d /\ cand[m][c].sort # "method"
            => cand[m][c].type # "none"

\* Inference starts on a program whose bodies were asked for the names they
\* declare by assigning: every declaration of the first loop was, in a round
\* after which its base was known.
NamedBeforeInference ==
    phase \notin EarlyPhases =>
        \A m \in Modules : \A c \in RootHeads(m) :
            cand[m][c].early => /\ cand[m][c].scanned
                                /\ cand[m][c].sort = "class" => cand[m][c].super

\* The passes over a module's names: each name once through each, the written
\* one first, and always in the module it is a name of.
PassesInOrder == EachPassOnce /\ WrittenBeforeInferred /\ TypesItsOwnModule

\* Whatever reads a type finds it there: who instantiated a clone, the
\* inference, the statement checker, and what comes after the loops.
NothingIsReadUntyped ==
    CloneHasSignature /\ NamedBeforeInference /\ CheckedIsTyped /\ TypedWhenIdle

\* The phases end: a round can only add finitely many clones, each typed once
\* and checked once, and the last round has everything checked.
Ends == <>(/\ phase = "done"
           /\ \A m \in Modules : Heads(m) \subseteq checked[m])

\* The phase implements its ledger: a name is typed when the inferred pass has
\* been through it, and the ledger is closed when the loops have ended.
Ledger == INSTANCE TypeLedger WITH
    born <- Names,
    typed <- {n \in Names : cand[n[1]][n[2]].gave > 0},
    over <- phase = "done"
KeepsTheLedger == Ledger!Spec

-----------------------------------------------------------------------------
(* What the comments of the source say and the program does not do.        *)

\* `a declaration made during the second pass has never been through the
\* first [...] So it gets both, in order': a clone's base is known once it has
\* been inferred.
CloneGetsBothPasses ==
    \A m \in Modules : \A c \in RootHeads(m) :
        cand[m][c].sort = "class" /\ cand[m][c].gave = 1 => cand[m][c].super

\* The ImplicitCollector `reaches the clone on its next round'.
CloneBodiesAreNamed ==
    phase = "done" =>
        \A m \in Modules : \A c \in Heads(m) :
            cand[m][c].assigns => cand[m][c].scanned

=============================================================================
