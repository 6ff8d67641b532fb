------------------------------ MODULE MCSugar ------------------------------
(***************************************************************************)
(* The programs the sugar passes are run over.  Every call of a program    *)
(* has a name of its own; the ones in Fixed answer what is written there,  *)
(* and every other call answers "no", or "yes" once and then "no".         *)
(***************************************************************************)
EXTENDS SugarPass

Call(name) == Tree("call", name, <<>>)
With(name, arguments) == Tree("call", name, arguments)
Text(parts) == Tree("template", "", parts)
Elements3(parts) == Tree("array", "", parts)
Tuple(parts) == Tree("tuple", "", parts)
And(a, b) == Tree("and", "", <<a, b>>)
Or(a, b) == Tree("or", "", <<a, b>>)
If(condition, statements) == Tree("if", "", <<condition, Block(statements)>>)
While(condition, statements) == Tree("while", "", <<condition, Block(statements)>>)
ForEach(variable, container, statements) ==
    Tree("for each", "", <<variable, container, Block(statements)>>)
LetPattern(pattern, value) == Tree("let pattern", "", <<pattern, value>>)
None == Tree("none", "", <<>>)
Break == Tree("break", "", <<>>)
Continue == Tree("continue", "", <<>>)
Return(value) == Tree("return", "", <<value>>)
At(name, i) == Tree("index", "", <<Name(name), Literal(i)>>)
Case(pattern, statements) == Tree("case", "", <<pattern, Block(statements)>>)
Shares(pattern) == Tree("case", "", <<pattern>>)
Default(statements) == Tree("default", "", <<Block(statements)>>)
Variant(tag, captures) == Tree("variant", tag, [i \in DOMAIN captures |-> Name(captures[i])])

\* What the named things are: numbers, tuples, variants and containers.
Fixed ==
    [n1 |-> <<1>>, n2 |-> <<2>>, n3 |-> <<3>>, n7 |-> <<7>>, n0 |-> <<0>>,
     pair |-> <<<<4, 5>>>>, nest |-> <<<<1, <<2, 3>>>>>>, index |-> <<1, 0>>,
     listed |-> <<[shape |-> "class", items |-> <<1, 2, 3>>]>>,
     empty |-> <<[shape |-> "class", items |-> <<>>]>>,
     pairs |-> <<[shape |-> "class", items |-> <<<<1, 2>>, <<3, 4>>>>]>>,
     hash |-> <<[shape |-> "hash", items |-> <<<<1, 2>>, <<3, 4>>>>]>>,
     tagged |-> <<<<0, <<"some", 6>>>>>>, bare |-> <<<<0, <<"none">>>>>>,
     again |-> <<[shape |-> "class", items |-> <<1, 2, 3>>]>>,
     say |-> <<0>>, first |-> <<0>>, second |-> <<0>>, third |-> <<0>>,
     last |-> <<0>>]
ContainerTypes == [hash |-> [shape |-> "hash", length |-> 0],
                   held |-> [shape |-> "fixed", length |-> 3],
                   again |-> [shape |-> "fixed", length |-> 3]]

RECURSIVE CallsIn(_)
CallsIn(node) ==
    UNION {CallsIn(node.kids[i]) : i \in DOMAIN node.kids}
    \cup (IF node.kind = "call" THEN {node.text} ELSE {})

Answering(source, inputs, fixed) ==
    LET calls == CallsIn(source)
        asked == calls \ DOMAIN fixed
        given == [name \in calls \cap DOMAIN fixed |-> fixed[name]]
    IN  {[source |-> source, inputs |-> inputs, answers |-> script @@ given] :
           script \in [asked -> {<<FALSE>>, <<TRUE, FALSE>>}]}

Function(params, statements) ==
    Tree("function", "", <<Tree("params", "", params), Block(statements)>>)
Bodies(bodies) == UNION {Answering(Function(<<>>, body), <<>>, Fixed) : body \in bodies}

-----------------------------------------------------------------------------
\* Conditions with something to build in them; 'at' keeps the names apart.
Says(name) == With(name, <<Text(<<Call("n1"), Call("n2")>>)>>)
Conditions(at) ==
    LET n(i) == at \o ToString(i)
    IN  {Says(n(1)),
         Or(Call(n(1)), Says(n(2))),
         And(Says(n(1)), Call(n(2))),
         And(Call(n(1)), With(n(2), <<Elements3(<<Call("n1"), Text(<<Call("n2")>>)>>)>>)),
         And(And(Call(n(1)), Says(n(2))), Not(Call(n(3)))),
         Or(Call(n(1)), And(Not(Call(n(2))), Says(n(3))))}
Few(at) == {Call(at), And(Call(at \o "1"), Says(at \o "2"))}

\* The condition of an 'if' and of every 'elif' behind it.
IfPrograms ==
    Bodies({<<Tree("if", "", <<c1, Block(<<Call("first")>>),
                               Tree("elif", "", <<c2, Block(<<Call("second")>>)>>),
                               Tree("elif", "", <<c3, Block(<<Call("third")>>)>>),
                               Tree("else", "", <<Block(<<Call("last")>>)>>)>>),
              Call("say")>> :
              c1 \in Few("a"), c2 \in Conditions("b"), c3 \in Few("c")})

\* A loop whose condition, or whose step, builds something, and that is left
\* or taken round from the middle of its body.
Middles == {<<>>, <<If(Call("m"), <<Continue>>)>>, <<If(Call("m"), <<Break>>)>>}
WhilePrograms ==
    Bodies({<<While(c, <<Call("first")>> \o middle \o <<Call("second")>>), Call("last")>> :
              c \in Conditions("a"), middle \in Middles})
Steps == {<<Call("third")>>, <<With("third", <<Text(<<Call("n3")>>)>>)>>,
          <<Assignment(Name("i"), With("third", <<Elements3(<<Call("n3")>>)>>))>>}
ForPrograms ==
    Bodies({<<Tree("for", "", <<head, c, Tree("step", "", step),
                                Block(<<Call("first")>> \o middle \o <<Call("second")>>)>>),
              Call("last")>> :
              head \in {None, Tree("head", "", <<Let("i", With("n0", <<Text(<<Call("n1")>>)>>))>>)},
              c \in Few("a"), step \in Steps, middle \in Middles})

\* Values built inside values, at a binding, a call, a return and a closure.
ValuePrograms ==
    Bodies({<<Let("x", value), With("say", <<Name("x")>>)>> :
              value \in {Text(<<Call("n1"), Text(<<Call("n2")>>)>>),
                         Elements3(<<Call("n1"), With("n2", <<Elements3(<<Call("n3")>>)>>)>>),
                         Elements3(<<Text(<<Call("n1")>>), Text(<<Call("n2")>>)>>),
                         Or(Call("a"), Not(Says("b")))}}
           \cup {<<If(Call("a"), <<Return(With("n1", <<Text(<<Call("n2")>>)>>))>>),
                   Return(Text(<<Call("n3")>>))>>})

-----------------------------------------------------------------------------
\* Tuples: bound, assigned (a swap, a swap in place, a place with a call in
\* it), taken as parameters and walked.
AB == Tuple(<<Name("a"), Name("b")>>)
Nested == Tuple(<<Name("a"), Tuple(<<Name("b"), Name("c")>>)>>)
Tell(read) == With("say", [i \in DOMAIN read |-> Name(read[i])])
TuplePrograms ==
    Bodies({<<LetPattern(AB, Call("pair")), Tell(<<"a", "b">>)>>,
            <<LetPattern(Nested, Call("nest")), Tell(<<"a", "b", "c">>)>>,
            <<Let("p", Call("pair")), LetPattern(AB, Name("p")), Tell(<<"a", "b">>)>>,
            <<LetPattern(Tuple(<<Name("_"), Name("b")>>), Call("pair")), Tell(<<"b">>)>>,
            <<LetPattern(Tuple(<<Name("a")>>), Call("pair")), Tell(<<"a">>)>>,
            <<LetPattern(AB, Tuple(<<Text(<<Call("n1")>>), Call("n2")>>)), Tell(<<"a", "b">>)>>,
            <<LetPattern(AB, Call("pair")),
              Tree("=", "", <<AB, Tuple(<<Name("b"), Name("a")>>)>>), Tell(<<"a", "b">>)>>,
            <<Let("p", Call("pair")),
              Tree("=", "", <<Tuple(<<At("p", 1), At("p", 0)>>), Name("p")>>), Tell(<<"p">>)>>,
            <<Let("p", Call("pair")),
              Tree("=", "", <<Tuple(<<Tree("index", "", <<Name("p"), Call("index")>>),
                                      Name("_")>>), Call("nest")>>), Tell(<<"p">>)>>,
            <<LetPattern(Nested, Call("nest")),
              Tree("=", "", <<Nested, Tuple(<<Name("c"), Tuple(<<Name("a"), Name("b")>>)>>)>>),
              Tell(<<"a", "b", "c">>)>>})
    \cup UNION {Answering(Function(<<AB, Name("x"), Tuple(<<Name("c"), Name("_")>>)>>,
                                   <<Tell(<<"a", "b", "x", "c">>)>>),
                          <<<<1, 2>>, 3, <<4, 5>>>>, Fixed)}

\* Switches over tuples: literals, a call among them, '_', captures, nested
\* patterns, patterns that share a block, variants, and a body that leaves
\* the loop around it.
Zero == Literal(0)
Patterns ==
    {Tuple(<<Zero, Name("_")>>), Tuple(<<Literal(4), Name("y")>>),
     Tuple(<<Name("x"), Call("n3")>>), Tuple(<<Call("n1"), Literal(5)>>)}
Bound(pattern) ==
    SelectSeq(<<"x", "y">>, LAMBDA n : \E i \in DOMAIN pattern.kids :
                                         pattern.kids[i] = Name(n))
Subjects == {Call("pair"), Tuple(<<Zero, Call("n3")>>), Tuple(<<Text(<<Call("n1")>>), Zero>>)}
Switch(subject, cases) == Tree("switch", "", <<subject>> \o cases)
SwitchPrograms ==
    Bodies({<<Switch(subject,
                     <<Case(p1, <<Call("first"), Tell(Bound(p1))>>),
                       Case(p2, <<Call("second"), Tell(Bound(p2))>>)>> \o rest),
              Call("last")>> :
              subject \in Subjects \ {Tuple(<<Text(<<Call("n1")>>), Zero>>)},
              p1 \in Patterns, p2 \in Patterns,
              rest \in {<<>>, <<Default(<<Call("third")>>)>>}}
           \cup {<<Let("p", Call("nest")),
                   Switch(Name("p"),
                          <<Shares(Tuple(<<Zero, Name("_")>>)),
                            Case(Tuple(<<Call("n1"), Tuple(<<Call("n2"), inner>>)>>),
                                 <<Call("first"), With("say", <<Text(<<Call("n7")>>)>>)>>),
                            Case(Tuple(<<Name("_"), Name("w")>>), <<Tell(<<"w">>)>>)>>),
                   Call("last")>> : inner \in {Literal(3), Zero}}
           \cup {<<Switch(Call(subject),
                          <<Case(Tuple(<<Zero, Variant("some", <<"v">>)>>), <<Tell(<<"v">>)>>),
                            Case(Tuple(<<Name("n"), Variant("none", <<>>)>>), <<Tell(<<"n">>)>>),
                            Default(<<Call("third")>>)>>)>> : subject \in {"tagged", "bare"}}
           \cup {<<While(Call("a"),
                         <<Switch(Call("pair"),
                                  <<Case(Tuple(<<Literal(4), Name("_")>>), <<leave>>),
                                    Default(<<Call("third")>>)>>), Call("first")>>),
                   Call("last")>> : leave \in {Break, Continue, Call("second")}}
           \* two patterns that capture and share a block: the pass refuses it
           \cup {<<Switch(Call("pair"), <<Shares(Tuple(<<Name("x"), Zero>>)),
                                         Case(Tuple(<<Zero, Name("x")>>), <<Tell(<<"x">>)>>)>>)>>})

\* Switches over a bool, some of the cases without a block of their own; and
\* one inside another.
BoolCases == {<<Case(Call("b"), <<Call("first")>>), Case(Literal(TRUE), <<Call("second")>>)>>,
              <<Shares(Call("b")), Shares(Call("c")), Case(Call("d"), <<Call("first")>>),
                Shares(Literal(TRUE)), Case(Call("e"), <<Call("second")>>)>>,
              <<Shares(Literal(FALSE)),
                Case(Call("b"), <<Switch(Says("c"), <<Case(Call("d"), <<Call("first")>>),
                                                      Default(<<Call("second")>>)>>)>>)>>}
BoolPrograms ==
    Bodies({<<Switch(Call("a"), cases \o rest), Call("last")>> :
              cases \in BoolCases, rest \in {<<>>, <<Default(<<Call("third")>>)>>}})

\* Walks: a range of either kind up to the largest number, a class, a fixed
\* array, a hash by its keys and by its pairs, one walk inside another.
Ranges ==
    {Tree(kind, "", <<from, to>>) :
       kind \in {"inclusive range", "exclusive range"},
       from \in {Literal(0), Call("n2")}, to \in {Literal(Modulus - 1), Call("n2"), Call("n0")}}
Written(container) ==
    IF container = Name("held")
    THEN <<Let("held", Call("listed"))>> ELSE <<>>
WalkPrograms ==
    Bodies({Written(container)
            \o <<ForEach(Name("i"), container,
                         <<Tell(<<"i">>)>> \o middle \o <<Call("second")>>), Call("last")>> :
              container \in Ranges \cup {Call("listed"), Call("empty"), Name("held"),
                                         Elements3(<<Call("n1"), Call("n2")>>)},
              middle \in Middles}
           \cup {<<ForEach(AB, Call(container), <<Tell(<<"a", "b">>)>> \o middle)>> :
                   container \in {"pairs", "hash"}, middle \in Middles}
           \cup {<<ForEach(Name("k"), Call("hash"), <<Tell(<<"k">>)>>)>>,
                 <<ForEach(Name("i"), Tree("exclusive range", "", <<Zero, Literal(2)>>),
                           <<ForEach(AB, Call("pairs"), <<Tell(<<"i", "a">>)>>),
                             ForEach(Name("j"), Tree("inclusive range", "",
                                                     <<Zero, Name("i")>>),
                                     <<If(Says("a"), <<Continue>>), Tell(<<"i", "j">>)>>)>>)>>})

Families ==
    [ifs |-> IfPrograms, whiles |-> WhilePrograms, fors |-> ForPrograms,
     values |-> ValuePrograms, tuples |-> TuplePrograms,
     switches |-> SwitchPrograms, bools |-> BoolPrograms, walks |-> WalkPrograms]

-----------------------------------------------------------------------------
\* Programs of which what is written and what is run are not the same.

\* A 'default' written before the case that matches.
DefaultFirst ==
    Bodies({<<Switch(Call("pair"),
                     <<Default(<<Call("third")>>),
                       Case(Tuple(<<Literal(4), Name("_")>>), <<Call("first")>>)>>)>>})
\* A case, of a switch over a bool, that builds what it compares with.
CaseBuilds ==
    Bodies({<<Switch(Call("a"), <<Case(Call("b"), <<Call("first")>>),
                                  Case(Says("c"), <<Call("second")>>)>>)>>})
\* A walk over the fixed array that a call gives.
ArrayOfACall ==
    Bodies({<<ForEach(Name("i"), Call("again"), <<Tell(<<"i">>)>>)>>})
\* Two tuples taken apart, and a third in the body of an inclusive walk: the
\* third name of the one pass is the third of the other.
NamesMeet ==
    Bodies({<<LetPattern(AB, Call("pair")),
              LetPattern(Tuple(<<Name("c"), Name("d")>>), Call("nest")),
              ForEach(Name("i"), Tree("inclusive range", "", <<Zero, Literal(2)>>),
                      <<LetPattern(Tuple(<<Name("e"), Name("_")>>), Call("tagged")),
                        Tell(<<"i", "e">>)>>)>>})
Disputed == [defaults |-> DefaultFirst, cases |-> CaseBuilds,
             arrays |-> ArrayOfACall, names |-> NamesMeet]
=============================================================================
