----------------------------- MODULE Overloads -----------------------------
(***************************************************************************)
(* Which function a call names: what a generic's parameters must be for the *)
(* arguments (record 0059, type_table/expression_typer.cpp), what each      *)
(* argument costs at each parameter (record 0018, type_table/coercion.cpp)  *)
(* and which candidate is chosen (name_resolver/overload_resolver.cpp).     *)
(*                                                                         *)
(* A type is its kind, its name and the types inside it; the clone of a     *)
(* generic class has its arguments there.  A class has a base or none, the  *)
(* types each 'init' of one parameter takes, and may be copied or not.  Left *)
(* out: the translation of a type from one module's table to another's, the *)
(* variants of a generic enum that are called, and the wording of a refusal. *)
(***************************************************************************)
EXTENDS Integers, FiniteSets, SequencesExt

CONSTANTS Classes,      \* [name -> [base, inits, copied]]
          WholeLimits,  \* [whole number -> the largest it holds]
          Calls         \* families of calls: [candidates, arguments]

Type(kind, name, of) == [kind |-> kind, name |-> name, of |-> of]
NoType == Type("none", "", <<>>)
Builtin(name) == Type("builtin", name, <<>>)
Class(name) == Type("class", name, <<>>)
Clone(name, of) == Type("class", name, of)
Generic(name) == Type("generic", name, <<>>)
Pointer(t) == Type("pointer", "", <<t>>)
Reference(t) == Type("reference", "", <<t>>)
MoveReference(t) == Type("move reference", "", <<t>>)
Array(t) == Type("array", "", <<t>>)
Tuple(ts) == Type("tuple", "", ts)
Function(ts) == Type("function", "", ts)

References == {"reference", "move reference"}
value_of(t) == IF t.kind \in References THEN t.of[1] ELSE t

\* A candidate: a "function", a "variant" that carries something, or anything
\* else; what it takes; which of them have a default, where a variant has one for
\* all it carries or none;
\* its generic parameters; and the class it is declared in.
\* An argument: "typed", and its type, NoType where it has an error of its own;
\* a number, "integer" or "real", and its value; a "null"; a "closure", how many
\* it takes and what it gives back, NoType for what it is given; a name of
\* several "functions"; a "variant" of a generic enum nothing gave its
\* arguments; a "tuple" of arguments.

VARIABLES call,      \* the call
          past,      \* the two numbers that lie behind the limits of the literals
          closures,  \* the type of each closure that was typed
          left,      \* the candidates not scored yet
          lowest,    \* the lowest score, -1 for none
          tied,      \* the candidates that have it
          answer     \* what the call is: its status, and who was chosen

vars == <<call, past, closures, left, lowest, tied, answer>>

-----------------------------------------------------------------------------
\* Coercion.
RECURSIVE climb(_, _)
climb(from, to) ==
    CASE from = to -> 0
      [] from = NoType \/ from.kind # "class" -> -1
      [] OTHER -> LET above == climb(Classes[from.name].base, to)
                  IN  IF above < 0 THEN -1 ELSE above + 1

may_be_copied(t) == t.kind = "class" => Classes[t.name].copied
builds_from(wanted, given) ==
    LET t == value_of(wanted)
    IN  t.kind = "class" /\ given \in Classes[t.name].inits
is_moved(given, wanted) ==
    given.kind = "move reference" /\ builds_from(value_of(wanted), given)

OneMore(steps) == IF steps < 0 THEN -1 ELSE steps + 1

\* (mutant: a value taken for its base, which is slicing)
Slices(given, wanted) ==
    IF NoType \in {given, wanted} THEN -1 ELSE climb(value_of(given), value_of(wanted))
RECURSIVE steps(_, _)
steps(given, wanted) ==
    LET both(kinds) == given.kind = wanted.kind /\ given.kind \in kinds
        bound == climb(given, wanted.of[1])
    IN  CASE NoType \in {given, wanted} -> -1
          [] given = wanted -> 0
          [] both({"pointer", "reference", "move reference"}) ->
               climb(given.of[1], wanted.of[1])
          [] /\ wanted.kind = "reference" /\ given.kind # "reference"
             /\ bound >= 0 -> bound
          [] given.kind = "move reference" ->
               IF wanted.kind # "reference" /\ builds_from(wanted, given) THEN 1
               ELSE OneMore(steps(Reference(value_of(given)), wanted))
          [] given.kind = "reference" /\ wanted.kind # "reference" ->
               IF may_be_copied(given.of[1]) THEN OneMore(steps(given.of[1], wanted))
               ELSE -1
          [] given.kind = "array" /\ wanted.kind = "pointer" ->
               IF given.of = wanted.of THEN 1 ELSE -1
          [] builds_from(wanted, given) ->
               IF wanted.kind = "reference" THEN 2 ELSE 1
          [] OTHER -> -1

-----------------------------------------------------------------------------
\* What one argument costs at one parameter.
Sizes == {"isize", "usize"}
Limit(whole) == IF whole \in Sizes THEN past[whole] ELSE WholeLimits[whole]
WholeNames == DOMAIN WholeLimits \cup Sizes

fits(argument, name) ==
    IF argument.is = "integer" THEN name \in WholeNames /\ argument.value <= Limit(name)
    ELSE name \in {"f32", "f64"}
default_of(argument) == IF argument.is = "integer" THEN "i32" ELSE "f64"

\* (mutant: a temporary that costs nothing)
NoStep(parameter) == 0
Held(parameter) == IF parameter.kind = "reference" THEN 1 ELSE 0

RECURSIVE match(_, _)
Total(costs) == IF \E i \in DOMAIN costs : costs[i] < 0 THEN -1
                ELSE FoldLeft(LAMBDA x, y : x + y, 0, costs)
\* A name of several functions waits for nothing inside a tuple.
tuple_match(parts, parameter) ==
    LET shape == value_of(parameter)
    IN  IF \/ shape.kind # "tuple" \/ Len(shape.of) # Len(parts)
           \/ \E i \in DOMAIN parts : parts[i].is = "functions" THEN -1
        ELSE Total([i \in DOMAIN parts |-> match(parts[i], shape.of[i])])

match(argument, parameter) ==
    LET wanted == value_of(parameter)
        If(takes, cost) == IF takes THEN cost ELSE -1
    IN  CASE parameter = NoType -> -1
          [] argument.is = "null" -> If(parameter.kind = "pointer", 0)
          [] argument.is = "closure" ->
               If(parameter.kind = "function" /\ argument.takes + 1 = Len(parameter.of), 0)
          [] argument.is = "functions" -> If(wanted.kind = "function", 0)
          [] argument.is = "variant" ->
               If(wanted.kind = "class" /\ wanted.of # <<>>
                    /\ wanted.name = argument.type.name, Held(parameter))
          [] argument.is = "tuple" -> tuple_match(argument.of, parameter)
          [] argument.is \in {"integer", "real"} ->
               If(wanted.kind = "builtin" /\ fits(argument, wanted.name),
                  Held(parameter) + (IF wanted.name = default_of(argument) THEN 0 ELSE 1))
          [] OTHER -> steps(argument.type, parameter)

required_of(candidate) ==
    IF candidate.is = "variant" /\ candidate.defaults # {} THEN 0
    ELSE Cardinality(DOMAIN candidate.parameters \ candidate.defaults)
score(candidate, arguments) ==
    IF candidate.is \notin {"function", "variant"} \/ Len(arguments) < required_of(candidate)
       \/ Len(arguments) > Len(candidate.parameters) THEN -1
    ELSE Total([i \in DOMAIN arguments |-> match(arguments[i], candidate.parameters[i])])

holder_of(candidate) == IF candidate.is = "function" THEN candidate.holder ELSE NoType
overrides(derived, base) ==
    /\ NoType \notin {holder_of(derived), holder_of(base)}
    /\ climb(holder_of(derived), holder_of(base)) > 0
    /\ derived.parameters = base.parameters

-----------------------------------------------------------------------------
\* A generic's parameters.  'bound' is a function of those that are known;
\* what does not agree with it is No.
No == [failed |-> TRUE]
Nothing == [x \in {} |-> NoType]

RECURSIVE mentions_a_parameter(_)
mentions_a_parameter(t) ==
    t.kind = "generic" \/ \E i \in DOMAIN t.of : mentions_a_parameter(t.of[i])

RECURSIVE substitute(_, _)
substitute(t, bound) ==
    CASE t.kind = "generic" -> IF t.name \in DOMAIN bound THEN bound[t.name] ELSE t
      [] t.kind = "class" -> t
      [] OTHER -> [t EXCEPT !.of = [i \in DOMAIN t.of |-> substitute(t.of[i], bound)]]

\* What is laid under a reference.
\* (mutant: a reference handed on as it is)
HandedOn(argument) == argument
Named(argument) == value_of(argument)

RECURSIVE unify(_, _, _)
Each(parameters, arguments, bound) ==
    LET next(b, i) == IF b = No THEN No ELSE unify(parameters[i], arguments[i], b)
    IN  IF Len(parameters) # Len(arguments) THEN No
        ELSE FoldLeft(next, bound, [i \in DOMAIN parameters |-> i])

Bind(parameter, argument, bound) ==
    IF parameter.name \notin DOMAIN bound THEN (parameter.name :> argument) @@ bound
    ELSE IF bound[parameter.name] = argument THEN bound ELSE No

unify(parameter, argument, bound) ==
    LET inside == IF parameter.kind = argument.kind /\ parameter.name = argument.name
                    THEN Each(parameter.of, argument.of, bound) ELSE No
    IN  CASE NoType \in {parameter, argument} -> bound
          [] parameter.kind = "generic" -> Bind(parameter, argument, bound)
          [] parameter.kind \in References ->
               unify(parameter.of[1], Named(argument), bound)
          [] parameter.kind \in {"pointer", "array", "function"} -> inside
          [] parameter.kind = "tuple" ->
               IF value_of(argument).kind = "tuple"
                 THEN Each(parameter.of, value_of(argument).of, bound) ELSE No
          [] parameter.kind = "class" /\ mentions_a_parameter(parameter) -> inside
          [] OTHER -> bound

\* What a tuple written as an argument is when nothing is asked of it, if each
\* of its parts is something.
RECURSIVE tuple_argument(_)
tuple_argument(parts) ==
    LET one(part) ==
          CASE part.is = "tuple" -> tuple_argument(part.of)
            [] part.is \in {"integer", "real"} -> Builtin(default_of(part))
            [] part.is = "typed" -> value_of(part.type)
            [] OTHER -> NoType
        all == [i \in DOMAIN parts |-> one(parts[i])]
    IN  IF Len(all) < 2 \/ NoType \in Range(all) THEN NoType ELSE Tuple(all)
type_of(argument) ==
    CASE argument.is = "tuple" -> tuple_argument(argument.of)
      [] argument.is = "typed" -> argument.type
      [] OTHER -> NoType

\* What a closure is once it is told what it takes: what it gives back is what
\* is asked, and a report where its body is not that; and with nothing asked,
\* what it was given or a type of its own.
ClosureOf(argument, told, result) ==
    IF Len(told) # argument.takes THEN NoType
    ELSE Function(Append(told, CASE ~mentions_a_parameter(result) -> result
                                 [] argument.type = NoType -> told[1]
                                 [] OTHER -> argument.type))

\* The three sources of record 0059, in the order they are trusted.  A closure
\* is typed once: what the first candidate to ask made of it is what it is.
solve(signature, arguments, known) ==
    LET In(is) == SelectSeq([i \in DOMAIN arguments |-> i], LAMBDA i : arguments[i].is \in is)
        typed(b, i) ==
          IF b = No THEN No ELSE unify(signature[i], type_of(arguments[i]), b)
        number(b, i) ==
          LET wanted == value_of(signature[i])
          IN  IF b = No \/ wanted.kind # "generic" \/ wanted.name \in DOMAIN b THEN b
              ELSE (wanted.name :> Builtin(default_of(arguments[i]))) @@ b
        closure(so, i) ==
          LET wanted == signature[i].of
              told == [j \in 1 .. Len(wanted) - 1 |-> substitute(wanted[j], so.bound)]
              result == substitute(Last(wanted), so.bound)
              made == IF i \in DOMAIN so.closures THEN so.closures[i]
                      ELSE ClosureOf(arguments[i], told, result)
          IN  IF \/ so.bound = No \/ signature[i].kind # "function"
                 \/ \E j \in DOMAIN told : mentions_a_parameter(told[j])
              THEN [so EXCEPT !.bound = No]
              ELSE [bound |-> IF made = NoType THEN No ELSE unify(signature[i], made, so.bound),
                    closures |-> (i :> made) @@ so.closures]
        said == FoldLeft(number, FoldLeft(typed, Nothing, In({"typed", "tuple"})),
                         In({"integer", "real"}))
    IN  FoldLeft(closure, [bound |-> said, closures |-> known], In({"closure"}))

\* The clone made for a call, the types inside its classes substituted too.
RECURSIVE Instance(_, _)
Instance(t, bound) ==
    IF t.kind = "generic" THEN bound[t.name]
    ELSE [t EXCEPT !.of = [i \in DOMAIN t.of |-> Instance(t.of[i], bound)]]
instantiate_written(candidate, bound) ==
    [candidate EXCEPT !.parameters = [i \in DOMAIN @ |-> Instance(@[i], bound)],
                      !.generics = {}, !.bound = bound]

WrongCount(candidate, arguments) ==
    Len(arguments) > Len(candidate.parameters) \/ Len(arguments) < required_of(candidate)

\* What is left of the candidates, and the closures that were typed for it.
inferred(candidates, arguments) ==
    LET waits == \E i \in DOMAIN arguments : mentions_a_parameter(type_of(arguments[i]))
        one(so, c) ==
          LET solved == solve(c.parameters, arguments, so.closures)
          IN  IF c.generics = {} \/ WrongCount(c, arguments)
              THEN [so EXCEPT !.candidates = Append(@, c)]
              ELSE [closures |-> solved.closures,
                    candidates |->
                      IF solved.bound # No /\ c.generics \subseteq DOMAIN solved.bound
                      THEN Append(so.candidates, instantiate_written(c, solved.bound))
                      ELSE so.candidates]
    IN  IF waits THEN [candidates |-> candidates, closures |-> Nothing]
        ELSE FoldLeft(one, [candidates |-> <<>>, closures |-> Nothing], candidates)

-----------------------------------------------------------------------------
Pending == [status |-> "pending", chosen |-> 0]

Init ==
    /\ \E family \in DOMAIN Calls : call \in Calls[family]
    /\ past \in [Sizes -> {0, 2 ^ 30}]
    /\ LET made == inferred(call.candidates, call.arguments)
       IN  left = made.candidates /\ closures = made.closures
    /\ lowest = -1 /\ tied = <<>> /\ answer = Pending

Score ==
    LET candidate == Head(left)
        points == score(candidate, call.arguments)
        lower == points >= 0 /\ (lowest < 0 \/ points < lowest)
    IN  /\ answer = Pending /\ left # <<>>
        /\ left' = Tail(left)
        /\ lowest' = IF lower THEN points ELSE lowest
        /\ tied' = CASE lower -> <<candidate>>
                     [] points >= 0 /\ points = lowest -> Append(tied, candidate)
                     [] OTHER -> tied
        /\ UNCHANGED <<call, past, closures, answer>>

\* A method written over one of a base is that one written again.
Overriding == {i \in DOMAIN tied : \E j \in DOMAIN tied \ {i} : overrides(tied[i], tied[j])}

\* (mutant: the wrong one of the two is dropped)
DropsTheDerived ==
    /\ answer = Pending /\ left = <<>> /\ Overriding # {}
    /\ \E i \in Overriding : tied' = RemoveAt(tied, i)
    /\ UNCHANGED <<call, past, closures, left, lowest, answer>>
Drop ==
    LET i == Min(Overriding)
        j == Min({k \in DOMAIN tied \ {i} : overrides(tied[i], tied[k])})
    IN  /\ answer = Pending /\ left = <<>> /\ Overriding # {}
        /\ tied' = RemoveAt(tied, j)
        /\ UNCHANGED <<call, past, closures, left, lowest, answer>>

\* What 'call' makes of the choice.
Waits == \E i \in DOMAIN call.arguments : type_of(call.arguments[i]).kind = "generic"
CannotBeCopied(candidate) ==
    \E i \in DOMAIN call.arguments :
      LET argument == call.arguments[i]
      IN  /\ ~argument.temporary
          /\ ~may_be_copied(candidate.parameters[i])
          /\ ~is_moved(argument.type, candidate.parameters[i])
\* A closure nobody asked is typed as what it is given to.
NowTyped(candidate) ==
    LET all == {i \in DOMAIN call.arguments : call.arguments[i].is = "closure"}
    IN  closures @@ [i \in all |-> candidate.parameters[i]]
Choose ==
    /\ answer = Pending /\ left = <<>> /\ Overriding = {}
    /\ closures' = IF Len(tied) = 1 THEN NowTyped(tied[1]) ELSE closures
    /\ answer' = [status |-> CASE Len(tied) # 1 /\ Waits -> "later"
                               [] tied = <<>> -> "none"
                               [] Len(tied) > 1 -> "ambiguous"
                               [] CannotBeCopied(tied[1]) -> "cannot be copied"
                               [] OTHER -> "found",
                  chosen |-> IF tied = <<>> THEN 0 ELSE tied[1].id]
    /\ UNCHANGED <<call, past, left, lowest, tied>>

Next == Score \/ Drop \/ Choose
Spec == Init /\ [][Next]_vars

-----------------------------------------------------------------------------
\* What record 0018's list says, whatever the code counts.
RECURSIVE Line(_)
Line(t) == IF t.kind # "class" THEN {t} ELSE {t} \cup Line(Classes[t.name].base)

RECURSIVE Given(_, _)
Given(t, p) ==
    \/ t = p
    \/ /\ t.kind = p.kind /\ p.kind \in {"pointer", "move reference"}
       /\ p.of[1] \in Line(t.of[1])
    \/ p.kind = "reference" /\ p.of[1] \in Line(value_of(t))
    \/ t.kind = "array" /\ p = Pointer(t.of[1])
    \/ value_of(p).kind = "class" /\ t \in Classes[value_of(p).name].inits
       /\ p.kind # "move reference" /\ (t.kind = "move reference" => p.kind = "class")
    \/ t.kind \in References /\ may_be_copied(value_of(t)) /\ Given(value_of(t), p)
       /\ p.kind # "move reference"

InRange(argument, t) ==
    /\ t.kind = "builtin"
    /\ CASE argument.is = "real" -> t.name \in {"f32", "f64"}
         [] t.name \in DOMAIN WholeLimits -> argument.value <= WholeLimits[t.name]
         [] OTHER -> t.name \in {"isize", "usize"}
RECURSIVE Takes(_, _)
Takes(p, argument) ==
    LET t == value_of(p)
    IN  CASE argument.is = "typed" -> Given(argument.type, p)
          [] p.kind = "move reference" -> FALSE
          [] argument.is \in {"integer", "real"} -> InRange(argument, t)
          [] argument.is = "null" -> p.kind = "pointer"
          [] argument.is = "closure" ->
               p.kind = "function" /\ Len(p.of) = argument.takes + 1
          [] argument.is = "functions" -> t.kind = "function"
          [] argument.is = "variant" ->
               t.kind = "class" /\ t.of # <<>> /\ t.name = argument.type.name
          [] OTHER -> /\ t.kind = "tuple" /\ Len(t.of) = Len(argument.of)
                      /\ \A i \in DOMAIN t.of : Takes(t.of[i], argument.of[i])
TakesAll(candidate, arguments) ==
    /\ candidate.is \in {"function", "variant"}
    /\ Len(arguments) <= Len(candidate.parameters)
    /\ (Len(arguments) + 1) .. Len(candidate.parameters) \subseteq
         (IF candidate.is = "variant" /\ arguments # <<>> THEN {} ELSE candidate.defaults)
    /\ \A i \in DOMAIN arguments : Takes(candidate.parameters[i], arguments[i])

\* The types a generic's parameters are: one an argument has, one inside it,
\* or the one a written number has when nothing asks; never a reference.
RECURSIVE Inside(_)
Inside(t) == {t} \cup UNION {Inside(t.of[i]) : i \in DOMAIN t.of}
Universe == {t \in UNION {Inside(type_of(call.arguments[i])) \cup Inside(call.arguments[i].type) :
                            i \in DOMAIN call.arguments}
                   \cup {Builtin("i32"), Builtin("f64")} :
               t.kind \notin References \cup {"none", "generic"}}

\* Some values the parameters of a candidate are, with which it takes the call
\* as it is written: what an argument is, and not what it could become.  A
\* closure says what it gives back, once something else said what it takes.
RECURSIVE Names(_)
Names(t) == (IF t.kind = "generic" THEN {t.name} ELSE {})
            \cup UNION {Names(t.of[i]) : i \in DOMAIN t.of}
GivesBack(p, argument) ==
    p.kind = "function" /\ Last(p.of) = (IF argument.type = NoType THEN p.of[1] ELSE argument.type)
Says(p, argument) ==
    CASE argument.is \in {"typed", "tuple"} -> value_of(p) = value_of(type_of(argument))
      [] argument.is \in {"integer", "real"} -> value_of(p).name = default_of(argument)
      [] argument.is = "closure" -> GivesBack(p, argument)
      [] OTHER -> TRUE
AllAreSaid(candidate, arguments) ==
    LET p == candidate.parameters
        by(is) == {i \in DOMAIN arguments : arguments[i].is \in is}
        first == UNION {Names(p[i]) : i \in by({"typed", "tuple", "integer", "real"})}
        told == UNION {UNION {Names(p[i].of[j]) : j \in 1 .. Len(p[i].of) - 1} : i \in by({"closure"})}
    IN  told \subseteq first
        /\ candidate.generics \subseteq first \cup UNION {Names(p[i]) : i \in by({"closure"})}
AsWritten(candidate, arguments) ==
    \E bound \in [candidate.generics -> Universe] :
      LET clone == instantiate_written(candidate, bound)
      IN  /\ TakesAll(clone, arguments) /\ AllAreSaid(candidate, arguments)
          /\ \A i \in DOMAIN arguments :
               mentions_a_parameter(candidate.parameters[i]) =>
                 Says(clone.parameters[i], arguments[i])

Kept == ToSet(inferred(call.candidates, call.arguments).candidates)
Chosen == CHOOSE c \in Kept : c.id = answer.chosen

\* Preferences the sources state, of one parameter over another.
Better(argument, p, q) ==
    LET t == argument.type
        value == p.kind \notin References /\ q = Reference(p)
    IN  CASE argument.is \in {"integer", "real"} ->
               \/ value
               \/ p.kind = q.kind /\ value_of(p).name = default_of(argument) /\ p # q
          [] argument.is = "variant" -> value
          [] argument.is = "typed" ->
               \/ t.kind \in References /\ p = t /\ q # t
               \/ t.kind \notin References /\ value
                  /\ p.kind = "class" /\ t \in Classes[p.name].inits
               \/ p.kind = q.kind /\ p.kind \in References \cup {"pointer"}
                  /\ q.of[1] \in Line(p.of[1]) /\ p # q
          [] OTHER -> FALSE
BetterFor(c, d, arguments) ==
    /\ \E i \in DOMAIN arguments : Better(arguments[i], c.parameters[i], d.parameters[i])
    /\ \A i \in DOMAIN arguments :
         c.parameters[i] = d.parameters[i] \/ Better(arguments[i], c.parameters[i], d.parameters[i])

\* A function is found only if it can be given every argument: no object is
\* sliced to its base, none is moved that no '&&' moves, none copied that
\* cannot be; every closure was typed as the function it is given to; what is
\* not written has a default; and a parameter of a generic is a value.
OnlyWhatItTakes ==
    answer.status = "found" =>
      /\ TakesAll(Chosen, call.arguments)
      /\ \A i \in DOMAIN closures : closures[i] = Chosen.parameters[i]
      /\ Range(Chosen.bound) \subseteq Universe

\* A call is refused only when nothing takes it: neither a candidate as it is
\* declared nor a generic one, whatever its parameters are.
RefusedForAReason ==
    answer.status = "none" =>
      \A i \in DOMAIN call.candidates :
        LET c == call.candidates[i]
        IN  IF c.generics = {} THEN ~TakesAll(c, call.arguments)
            ELSE ~AsWritten(c, call.arguments)

\* What is found, or is among what ties, is never worse at one argument and
\* better at none than another that takes the call: a reference goes to a
\* reference, what is built or written to a value, a class to the nearest above
\* it, a number to what it is when nothing asks (records 0018 and 0068).
PreferredAsRecorded ==
    answer.status \in {"found", "ambiguous", "cannot be copied"} =>
      \A i \in DOMAIN tied : \A c \in Kept :
        TakesAll(c, call.arguments) => ~BetterFor(c, tied[i], call.arguments)

\* The order the candidates were found in, by scope, by base and by import,
\* decides nothing: what is left is what costs least and nothing cheapest
\* is written over.
Cheapest == {c \in Kept : /\ score(c, call.arguments) >= 0
                         /\ \A d \in Kept : score(d, call.arguments) < 0
                              \/ score(c, call.arguments) <= score(d, call.arguments)}
WrittenOver(c, d) ==
    /\ {c.holder, d.holder} \subseteq {t \in {c.holder, d.holder} : t.kind = "class"}
    /\ c.holder # d.holder /\ c.holder \in Line(d.holder)
    /\ c.parameters = d.parameters
InAnyOrder ==
    answer # Pending =>
      ToSet(tied) = {c \in Cheapest : \A d \in Cheapest : ~WrittenOver(c, d)}

\* The two that fail where a reference is not read as what it names.
AReferenceIsWhatItNames == OnlyWhatItTakes /\ RefusedForAReason
=============================================================================
