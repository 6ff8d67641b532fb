--------------------------- MODULE MCFunctionLowerer ---------------------------
(***************************************************************************)
(* Functions with one compound statement, whose body may hold another, over *)
(* two locals: every way out of it, from every depth, with objects built   *)
(* before it, in its head, in its tests and inside it.                     *)
(***************************************************************************)
EXTENDS IrRun

Plain == [k |-> "plain"]
Temp  == [k |-> "temp"]
True  == [k |-> "true"]
Both  == [k |-> "and", l |-> Plain, r |-> Temp]
One   == [k |-> "not", e |-> [k |-> "or", l |-> Plain, r |-> Temp]]

New(args) == [k |-> "new", args |-> args]
Copy(x)   == [k |-> "local", x |-> x]
Let(x, e) == [k |-> "let", x |-> x, e |-> e]
Ref(x, e) == [k |-> "ref", x |-> x, e |-> e]
Do(e)     == [k |-> "do", e |-> e]

BreakIt    == [k |-> "break"]
ContinueIt == [k |-> "continue"]
Give(e)    == [k |-> "return", e |-> e]

If(arms, otherwise)   == [k |-> "if", arms |-> arms, otherwise |-> otherwise]
Arm(test, body)       == [test |-> test, body |-> body]
While(test, body)     == [k |-> "while", test |-> test, body |-> body]
For(head, test, body) == [k |-> "for", head |-> head, test |-> test,
                          increment |-> Temp, body |-> body]
Switch(subject, cases, default, exhaustive) ==
  [k |-> "switch", subject |-> subject, labels |-> 3, cases |-> cases,
   default |-> default, exhaustive |-> exhaustive]
Case(labels, body) == [labels |-> labels, body |-> body]

\* What a function of that shape gives back, when its local is x.
Given(shape) ==
  CASE shape = "void"   -> {NoBlock}
    [] shape = "value"  -> {One}
    [] shape = "struct" -> {Copy("x"), New(<<>>)}

\* The inner bodies: a way out, alone or under a test, after a local of their
\* own and before a statement that builds.
Leaves(shape) ==
  {BreakIt, ContinueIt, Do([k |-> "and", l |-> [k |-> "pass", x |-> "x"],
                            r |-> Plain])} \cup {Give(e) : e \in Given(shape)}

Nested(shape) ==
  Leaves(shape)
  \cup {If(<<Arm(Temp, <<Let("z", New(<<>>)), leaf>>)>>, otherwise) :
          leaf \in Leaves(shape), otherwise \in {NoBlock, <<Do(Temp)>>}}
  \cup {If(<<Arm(Plain, <<leaf>>), Arm(Temp, <<ContinueIt>>)>>, <<BreakIt>>) :
          leaf \in Leaves(shape)}
  \cup {Switch(Plain, <<Case(<<1, 2>>, <<Let("z", Copy("x")), leaf>>),
                       Case(<<3>>, <<BreakIt>>)>>, NoBlock, TRUE) :
          leaf \in Leaves(shape)}
  \cup {While(Plain, <<Ref("z", New(<<>>)), leaf>>) : leaf \in Leaves(shape)}

Bodies(shape) ==
  UNION {{<<inner>>, <<Let("y", New(<<Temp, Temp>>)), inner, Do(One)>>} :
           inner \in Nested(shape)}

Compound(shape) ==
  {While(Both, <<Let("w", New(<<>>))>> \o body) : body \in Bodies(shape)}
  \cup {For(<<Let("w", New(<<>>))>>,
            IF shape = "void" THEN [k |-> "none"] ELSE Both, body) :
          body \in Bodies(shape)}
  \cup {Switch(One, <<Case(<<2>>, body), Case(<<1, 3>>, <<Do(Temp)>>)>>,
               default, FALSE) :
          body \in {b \in Bodies(shape) : LeavesALoop(b, 0)},
          default \in {NoBlock, <<Let("y", Copy("x")), Do(Both)>>}}

Written(shape) ==
  {[shape |-> shape, body |-> <<Let("x", New(<<>>)), statement, Give(e)>>] :
     statement \in Compound(shape), e \in Given(shape)}

\* Functions whose last statement leaves on every side of it, without a
\* 'return' at the end.
Sides ==
  {<<If(<<Arm(Plain, <<Give(One)>>)>>, <<Give(Plain)>>)>>,
   <<Switch(Plain, <<Case(<<1, 2>>, <<Give(Both)>>), Case(<<3>>, <<Give(Temp)>>)>>,
            NoBlock, TRUE)>>,
   <<While(True, <<Do(Temp), If(<<Arm(Plain, <<Give(Temp)>>)>>, NoBlock)>>)>>,
   <<For(<<Do(One)>>, [k |-> "none"], <<Let("y", New(<<>>)), Give(Both)>>)>>}

\* The functions of the run.
MCPrograms ==
  Written("void") \cup Written("struct")
  \cup {p \in Written("value") : p.body[2].k = "while"}
  \cup {[shape |-> "value", body |-> body] : body \in Sides}

\* The same, holding an object when they leave.
DeadEnds ==
  {[shape |-> "value", body |-> <<Let("x", New(<<>>))>> \o body] : body \in Sides}

\* A local every 'return' gives back, declared in a loop that goes round; and
\* the elements of a literal.
Forgotten ==
  {[shape |-> "struct",
    body |-> <<While(True, <<Let("x", New(<<>>)),
                             If(<<Arm(Plain, <<Give(Copy("x"))>>)>>, NoBlock)>>)>>],
   [shape |-> "void",
    body |-> <<Let("x", [k |-> "list", n |-> 2]), Give(NoBlock)>>]}
=============================================================================
