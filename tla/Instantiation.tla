---------------------------- MODULE Instantiation ----------------------------
(***************************************************************************)
(* What the use of a generic becomes (record 0002): the clone the          *)
(* Instantiator makes of the declaration, found again when the same        *)
(* arguments are written, refused when the arguments nest too deep, and    *)
(* typed at once, which may ask for others. TypePhase has when this        *)
(* happens; this module has what is asked for.                             *)
(*                                                                         *)
(* A written type is read from the inside out: `A<T*>*' is the parameter,  *)
(* a shape around it, a use of A, a shape. A shape is a pointer, a         *)
(* reference or an array; a use of a generic of two parameters gives both  *)
(* the same argument. A name that is unknown, or is no type, is answered    *)
(* without a word, and whatever is written inside of it is not looked at:   *)
(* it stands for both. Who says so is the walk over the uses, later.        *)
(***************************************************************************)
EXTENDS Integers, Sequences, FiniteSets

CONSTANTS
    Parameters,     \* per generic, how many parameters it has
    Programs,       \* per program: what each generic writes, and what it does
    NESTING_LIMIT,
    MaxClones       \* bound: how many clones are looked at

Generics == DOMAIN Parameters

Builtin == [word |-> "builtin"]
Unknown == [word |-> "unknown"]
Parameter == [word |-> "parameter"]
Shape == [word |-> "shape"]
Use(generic, count) == [word |-> "use", generic |-> generic, count |-> count]

Words == {Builtin, Unknown, Parameter, Shape}
            \cup [word : {"use"}, generic : Generics, count : Nat]

\* how a type is written: a name that is given nothing, and what is put
\* around it; a use around something gives it as the argument
WrittenType(words) ==
    /\ words # <<>>
    /\ words[1] # Shape /\ (words[1].word = "use" => words[1].count = 0)
    /\ \A n \in 2 .. Len(words) :
          words[n] = Shape \/ (words[n].word = "use" /\ words[n].count > 0)

ASSUME ParametersAssumption == Parameters \in Seq(Nat \ {0})
ASSUME ProgramsAssumption ==
    \A p \in Programs :
        /\ p \in [bodies : Seq(Seq(Seq(Words))), text : Seq(Seq(Words))]
        /\ DOMAIN p.bodies = Generics
        /\ \A g \in Generics : \A f \in DOMAIN p.bodies[g] :
              WrittenType(p.bodies[g][f])
        /\ \A f \in DOMAIN p.text :
              /\ WrittenType(p.text[f])
              /\ \A n \in DOMAIN p.text[f] : p.text[f][n] # Parameter
ASSUME LimitAssumption == NESTING_LIMIT \in Nat \ {0} /\ MaxClones \in Nat

VARIABLES
    program,    \* [bodies: per generic, its written types; text: the others]
    at,         \* how many items of the program were typed
    clones,     \* the instantiations, in the order they were made
    stack,      \* the bodies being typed, the innermost last
    own,        \* per item, what its written types came to
    reported,   \* the errors: what was refused, and at which written type
    resolved    \* the uses were walked

vars == <<program, at, clones, stack, own, reported, resolved>>

-----------------------------------------------------------------------------
(* Types. A type is what is inside and how many shapes are around it.      *)

INVALID_TYPE == [kind |-> "invalid"]
TypeOf(kind, index) ==
    [kind |-> kind, index |-> index, count |-> 0, shapes |-> 0]
\* a generic written with its own parameters: it keeps how many were written
OwnOf(use) == [TypeOf("own", use.generic) EXCEPT !.count = use.count]
Around(type) ==
    IF type = INVALID_TYPE THEN type ELSE [type EXCEPT !.shapes = @ + 1]

\* the levels of instantiation, read off the records that made them: a type
\* that is an instantiation carries no arguments (mutant: so it has none)
DepthOfNothing(type) == 0
DepthOf(type) ==
    LET depth[i \in 0 .. Len(clones)] ==
            IF i = 0 THEN 0
            ELSE LET inner == clones[i].argument
                 IN 1 + IF inner.kind = "made" THEN depth[inner.index] ELSE 0
    IN IF type.kind = "made" THEN depth[type.index] ELSE 0

Made(generic, argument) ==
    {i \in DOMAIN clones : /\ clones[i].generic = generic
                           /\ clones[i].argument = argument}

-----------------------------------------------------------------------------
(* The bodies being typed.                                                 *)

\* the one in hand is the last of those that were begun
Frame(clone, bound, types) ==
    [clone |-> clone, bound |-> bound, types |-> types, begun |-> 0,
     words |-> <<>>, type |-> INVALID_TYPE, started |-> FALSE]

\* the generic declarations' own bodies, where the parameter is itself, and
\* then what is written outside of them
Items ==
    [i \in 1 .. Cardinality(Generics) + 1 |->
        IF i \in Generics
        THEN Frame(0, TypeOf("generic", i), program.bodies[i])
        ELSE Frame(0, INVALID_TYPE, program.text)]

Init ==
    /\ program \in Programs
    /\ at = 0
    /\ clones = <<>> /\ stack = <<>>
    /\ own = [i \in DOMAIN Items |-> <<>>]
    /\ reported = {} /\ resolved = FALSE

\* where a type is written: in a clone, or in an item of the program
Place(clone, item, field) == [clone |-> clone, item |-> item, field |-> field]
Report(place, what) == [place |-> place, what |-> what]

Top == stack[Len(stack)]
Word == Head(Top.words)
Building == stack # <<>> /\ Top.words # <<>>
Here == Place(Top.clone, IF Top.clone = 0 THEN at ELSE 0, Top.begun)

\* the word is over, and the type in hand is this
Becomes(type) ==
    stack' = [stack EXCEPT ![Len(stack)].words = Tail(@),
                           ![Len(stack)].type = type]

Begin ==
    /\ stack = <<>> /\ at < Len(Items)
    /\ stack' = <<Items[at + 1]>>
    /\ at' = at + 1
    /\ UNCHANGED <<program, clones, own, reported, resolved>>

\* the next written type of the body
NextType ==
    /\ stack # <<>> /\ ~Top.started /\ Top.begun < Len(Top.types)
    /\ stack' = [stack EXCEPT ![Len(stack)].words = Top.types[Top.begun + 1],
                              ![Len(stack)].begun = @ + 1,
                              ![Len(stack)].type = INVALID_TYPE,
                              ![Len(stack)].started = TRUE]
    /\ UNCHANGED <<program, at, clones, own, reported, resolved>>

Build ==
    /\ Building /\ Word.word # "use"
    /\ Becomes(CASE Word.word = "builtin" -> TypeOf("builtin", 0)
                 [] Word.word = "unknown" -> INVALID_TYPE
                 [] Word.word = "parameter" -> Top.bound
                 [] Word.word = "shape" -> Around(Top.type))
    /\ UNCHANGED <<program, at, clones, own, reported, resolved>>

Asking == Building /\ Word.word = "use"
Poisoned == Word.count > 0 /\ Top.type = INVALID_TYPE

\* an argument that could not be built poisons what contains it
Poison ==
    /\ Asking /\ Poisoned
    /\ Becomes(INVALID_TYPE)
    /\ UNCHANGED <<program, at, clones, own, reported, resolved>>

\* a parameter nothing has bound: it is the declaration being written down,
\* and not an instantiation of it
Unbound == Word.count > 0 /\ Top.type.kind = "generic" /\ Top.type.shapes = 0

NameOwn ==
    /\ Asking /\ ~Poisoned /\ Unbound
    /\ Becomes(OwnOf(Word))
    /\ UNCHANGED <<program, at, clones, own, reported, resolved>>

Instantiating == Asking /\ ~Poisoned /\ ~Unbound

\* (mutant: what was said of one written type is not said of another)
RefuseOnce(what) ==
    /\ reported' = IF \E r \in reported : r.what = what THEN reported
                   ELSE reported \cup {Report(Here, what)}
    /\ Becomes(INVALID_TYPE)
    /\ UNCHANGED <<program, at, clones, own, resolved>>
Refuse(what) ==
    /\ reported' = reported \cup {Report(Here, what)}
    /\ Becomes(INVALID_TYPE)
    /\ UNCHANGED <<program, at, clones, own, resolved>>

WrongArity == Word.count # Parameters[Word.generic]
RefuseArity == Instantiating /\ WrongArity /\ Refuse("arity")

TooDeep == DepthOf(Top.type) >= NESTING_LIMIT
RefuseNesting == Instantiating /\ ~WrongArity /\ TooDeep /\ Refuse("nesting")

Accepted == Instantiating /\ ~WrongArity /\ ~TooDeep

FindClone ==
    /\ Accepted
    /\ \E i \in Made(Word.generic, Top.type) : Becomes(TypeOf("made", i))
    /\ UNCHANGED <<program, at, clones, own, reported, resolved>>

\* (mutant: the body is typed with what the caller's parameter is)
BodyOfCaller(i, generic) == Frame(i, Top.bound, program.bodies[generic])
\* inside the clone the parameter is the argument
BodyOf(i, generic) == Frame(i, Top.type, program.bodies[generic])

\* the record is written before the body is typed, so that a body that reaches
\* this same instantiation finds it
MakeClone ==
    /\ Accepted /\ Made(Word.generic, Top.type) = {}
    /\ Len(clones) < MaxClones
    /\ LET i == Len(clones) + 1
       IN /\ clones' = Append(clones, [generic |-> Word.generic,
                                       argument |-> Top.type,
                                       fields |-> <<>>])
          /\ stack' = Append([stack EXCEPT ![Len(stack)].words = Tail(@),
                                           ![Len(stack)].type =
                                                   TypeOf("made", i)],
                             BodyOf(i, Word.generic))
    /\ UNCHANGED <<program, at, own, reported, resolved>>

\* a written type is built, and what it is the type of has it
EndType ==
    /\ stack # <<>> /\ Top.started /\ Top.words = <<>>
    /\ stack' = [stack EXCEPT ![Len(stack)].started = FALSE]
    /\ IF Top.clone = 0
       THEN /\ own' = [own EXCEPT ![at] = Append(@, Top.type)]
            /\ UNCHANGED clones
       ELSE /\ clones' = [clones EXCEPT ![Top.clone].fields =
                                            Append(@, Top.type)]
            /\ UNCHANGED own
    /\ UNCHANGED <<program, at, reported, resolved>>

EndBody ==
    /\ stack # <<>> /\ ~Top.started /\ Top.begun = Len(Top.types)
    /\ stack' = SubSeq(stack, 1, Len(stack) - 1)
    /\ UNCHANGED <<program, at, clones, own, reported, resolved>>

Typed == stack = <<>> /\ at = Len(Items)

\* every type that is written, in the program and in the clones that stand
\* beside what they were made of
TextOf(place) ==
    IF place.clone = 0 THEN Items[place.item].types[place.field]
    ELSE program.bodies[clones[place.clone].generic][place.field]
ItemPlaces ==
    UNION {{Place(0, i, f) : f \in DOMAIN Items[i].types} : i \in DOMAIN Items}
ClonePlaces ==
    UNION {{Place(i, 0, f) : f \in DOMAIN program.bodies[clones[i].generic]} :
           i \in DOMAIN clones}
Places == ItemPlaces \cup ClonePlaces
IsUnknown(place) == TextOf(place)[1] = Unknown

\* once all is typed every use is walked, and the name that names no type is
\* reported wherever it stands
ResolveUses ==
    /\ Typed /\ ~resolved
    /\ resolved' = TRUE
    /\ reported' = reported \cup {Report(place, "unknown") :
                                    place \in {q \in Places : IsUnknown(q)}}
    /\ UNCHANGED <<program, at, clones, stack, own>>

Over == Typed /\ resolved
Done == Over /\ UNCHANGED vars

Next ==
    \/ Begin \/ NextType \/ Build \/ Poison \/ NameOwn
    \/ RefuseArity \/ RefuseNesting \/ FindClone \/ MakeClone
    \/ EndType \/ EndBody \/ ResolveUses \/ Done

Spec == Init /\ [][Next]_vars

-----------------------------------------------------------------------------
(* Properties.                                                             *)

\* One instantiation is one declaration, however deep a body reaches itself:
\* two uses of it compare equal because they are the same candidate
\* (module.h:37).
OneClonePerInstantiation ==
    \A i, j \in DOMAIN clones :
        (/\ clones[i].generic = clones[j].generic
         /\ clones[i].argument = clones[j].argument) => i = j

\* A type spelled out, from the inside out, with no clone in it: how each of
\* the clones is, the argument of one being among those before it, and a type
\* that may be one of them.
WithShapes(words, type) == words \o [s \in 1 .. type.shapes |-> Shape]
Inside(type) ==
    CASE type.kind = "builtin" -> <<Builtin>>
      [] type.kind = "generic" -> <<Parameter>>
      [] type.kind = "own" -> <<Parameter, Use(type.index, type.count)>>
SpelledClones(made) ==
    LET clone[i \in 0 .. Len(made)] ==
            IF i = 0 THEN <<>>
            ELSE LET inner == made[i].argument
                 IN Append(WithShapes(IF inner.kind = "made"
                                  THEN clone[inner.index] ELSE Inside(inner),
                                  inner),
                           Use(made[i].generic, Parameters[made[i].generic]))
    IN clone
SpelledAmong(made, type) ==
    WithShapes(IF type.kind = "made" THEN SpelledClones(made)[type.index]
           ELSE Inside(type), type)
Spelled(type) == SpelledAmong(clones, type)

\* a written type with the parameter replaced by what is spelled
ReplacedUpTo(words, spelled) ==
    LET upTo[n \in 0 .. Len(words)] ==
            IF n = 0 THEN <<>>
            ELSE upTo[n - 1] \o IF words[n] = Parameter THEN spelled
                                ELSE <<words[n]>>
    IN upTo
Replaced(words, spelled) == ReplacedUpTo(words, spelled)[Len(words)]

\* Inside a clone the parameter is not a stand-in for a type, it is that type:
\* a field of it is what the declaration wrote, with the argument put in, and
\* stays so however many clones were made in the middle of typing it
\* (instantiator.cpp:118).
FieldsAreSubstituted ==
    \A i \in DOMAIN clones : \A f \in DOMAIN clones[i].fields :
        clones[i].fields[f] # INVALID_TYPE =>
            Spelled(clones[i].fields[f])
                = Replaced(program.bodies[clones[i].generic][f],
                           Spelled(clones[i].argument))

\* A clone is one, and it is the declaration with the argument put in.
OneSubstitutedClone == OneClonePerInstantiation /\ FieldsAreSubstituted

\* How many levels a program's own text has, and how far its arguments may
\* then grow when a level is counted each time.
Levels(words) == Cardinality({n \in DOMAIN words :
                                 words[n].word \in {"shape", "use"}})
WrittenLevels ==
    LET types == {program.bodies[g] : g \in Generics} \cup {program.text}
        all == UNION {{Levels(t[i]) : i \in DOMAIN t} : t \in types}
    IN CHOOSE most \in all \cup {1} : \A n \in all \cup {1} : n <= most

\* A program written by mistake stops (instantiator.cpp:8): the argument of an
\* instantiation is at most NESTING_LIMIT times as deep as what is written.
StopsGrowing ==
    \A i \in DOMAIN clones :
        Levels(Spelled(clones[i].argument)) <= WrittenLevels * NESTING_LIMIT

\* What has no type was reported, itself and not another: where its own text is
\* built, or, if a name of it names no type, by the walk over the uses. A part
\* that could not be built takes what contains it down without a word
\* (type_builder.cpp:293,319), in a clone as in what was written, so each of
\* the words must be there for each; and nothing is made of an argument that
\* has no type.
Explained(place) ==
    \/ \E r \in reported : r.place = place
    \/ ~resolved /\ IsUnknown(place)
NothingIsLostUnsaid ==
    /\ \A i \in DOMAIN clones : clones[i].argument # INVALID_TYPE
    /\ \A i \in DOMAIN clones : \A f \in DOMAIN clones[i].fields :
          clones[i].fields[f] = INVALID_TYPE => Explained(Place(i, 0, f))
    /\ \A i \in DOMAIN own : \A f \in DOMAIN own[i] :
          own[i][f] = INVALID_TYPE => Explained(Place(0, i, f))

=============================================================================
