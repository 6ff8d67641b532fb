----------------------------- MODULE SugarPass ------------------------------
(***************************************************************************)
(* The three passes over one function: the sugar pass before its names are *)
(* declared, and then, as types become known, each 'for ... in' and each   *)
(* switch over what C++ cannot switch on (the build loop and the type      *)
(* phase of src/src/haard/compilation/compilation.cpp).  Whatever stage a  *)
(* tree is at, it does what the function that was written does.            *)
(***************************************************************************)
EXTENDS Sugar

-----------------------------------------------------------------------------
(***************************************************************************)
(* What a function does, read off its tree: the reference the sugar passes *)
(* are checked against.  It understands the written forms (a template      *)
(* string is text joined when its turn comes, a pattern takes a value      *)
(* apart, a switch runs the first case that matches and its 'default' when *)
(* none does, a range is walked from one end to the other) and the plain   *)
(* ones they become.                                                       *)
(*                                                                         *)
(* What can be seen of a run is the calls it makes, each with what it was  *)
(* given.  A call answers by a script: answers[f][k] is what f answers the *)
(* k-th time.  The order of the calls inside one statement is left open    *)
(* (docs/design/0061), so the calls are kept in groups, one per statement  *)
(* or condition that was run.                                              *)
(***************************************************************************)

CONSTANTS Modulus, \* the numbers are 0 .. Modulus - 1
          MaxTurns \* no loop of a program makes more

Start(inputs, answers) ==
    [env |-> inputs, answers |-> answers,
     asked |-> [name \in DOMAIN answers |-> 0],
     group |-> <<>>, trace |-> <<>>, cursors |-> <<>>, signal |-> ""]

Given(value, st) == [value |-> value, st |-> st]
Bind(st, name, value) == [st EXCEPT !.env = (name :> value) @@ @]
Raise(st, signal) == [st EXCEPT !.signal = signal]
\* The calls made since the last statement or condition are a group.
Close(st) == IF st.group = <<>> THEN st
             ELSE [st EXCEPT !.trace = Append(@, st.group), !.group = <<>>]

\* A call by its name: the answer and the call itself.
Ask(name, values, st) ==
    LET script == st.answers[name]
        turn == st.asked[name] + 1
    IN  Given(script[IF turn > Len(script) THEN Len(script) ELSE turn],
              [st EXCEPT !.asked[name] = turn,
                         !.group = Append(@, name \o ToString(values))])

\* The methods of the library a 'for' is lowered to.
Keys(container) ==
    IF container.shape = "hash"
    THEN [i \in DOMAIN container.items |-> container.items[i][1]]
    ELSE container.items
Invoke(method, value, st) ==
    LET cursor == st.cursors[value]
    IN  CASE method = "items" -> Given([value EXCEPT !.shape = "class"], st)
          [] method = "iterator" ->
               Given(Len(st.cursors) + 1,
                     [st EXCEPT !.cursors = Append(@, [of |-> Keys(value), at |-> 0])])
          [] method = "has_next" -> Given(cursor.at < Len(cursor.of), st)
          [] method = "next" -> Given(cursor.of[cursor.at + 1],
                                      [st EXCEPT !.cursors[value].at = @ + 1])

Sum(a, b) == (a + b) % Modulus
Difference(a, b) == (Modulus + a - b) % Modulus

RECURSIVE Eval(_, _)
EvalNext(so_far, e) == Given(Append(so_far.value, e.value), e.st)
EvalAll(nodes, st) ==
    FoldLeft(LAMBDA so_far, node : EvalNext(so_far, Eval(node, so_far.st)),
             Given(<<>>, st), nodes)

\* What a node gives of what its kids gave, a and b the first two of them.
Applied(node, all) ==
    LET a == all.value[1]
        b == all.value[2]
        gives(value) == Given(value, all.st)
    IN  CASE node.kind = "template" ->
               gives([i \in DOMAIN node.kids |-> ToString(all.value[i])])
          [] node.kind = "array" -> gives([shape |-> "class", items |-> all.value])
          [] node.kind = "tuple" -> all
          [] node.kind = "call" -> Ask(node.text, all.value, all.st)
          [] node.kind = "method" -> Invoke(node.text, a, all.st)
          [] node.kind = "index" ->
               gives((IF node.kids[2].kind = "name" THEN a.items ELSE a)[b + 1])
          [] node.kind = "not" -> gives(~a)
          [] node.kind = "==" -> gives(a = b)
          [] node.kind = "<" -> gives(a < b)
          [] node.kind = "<=" -> gives(a <= b)
          [] node.kind = "+" -> gives(Sum(a, b))
          [] node.kind = "-" -> gives(Difference(a, b))

\* The second half of an 'and' or an 'or', when the first does not decide.
SecondHalf(node, first) ==
    IF first.value = (node.kind = "or") THEN first ELSE Eval(node.kids[2], first.st)

Eval(node, st) ==
    CASE node.kind = "literal" -> Given(node.text, st)
      [] node.kind = "name" -> Given(st.env[node.text], st)
      [] node.kind = "text" -> Given(<<>>, st)
      [] node.kind \in {"and", "or"} -> SecondHalf(node, Eval(node.kids[1], st))
      [] OTHER -> Applied(node, EvalAll(node.kids, st))

\* A pattern given a value: the names it binds, or the places it writes.
RECURSIVE TakeApart(_, _, _)
Write(name, at, value) == [at.st EXCEPT !.env[name][at.value + 1] = value]
TakeApart(pattern, value, st) ==
    LET one == pattern.kind = "tuple" /\ Len(pattern.kids) = 1
        part(so_far, i) ==
            TakeApart(pattern.kids[i], IF one THEN value ELSE value[i], so_far)
    IN  CASE pattern.kind = "tuple" ->
               FoldLeft(part, st, [i \in DOMAIN pattern.kids |-> i])
          [] pattern.kind = "index" ->
               Write(pattern.kids[1].text, Eval(pattern.kids[2], st), value)
          [] pattern.text = "_" -> st
          [] OTHER -> Bind(st, pattern.text, value)

\* A pattern of a case asked of a value: whether it matches, and the state
\* with what it captures.
RECURSIVE Match(_, _, _)
Tested(value, tested) == Given(tested.value = value, tested.st)
Match(pattern, value, st) ==
    LET part(so_far, i) ==
            IF ~so_far.value THEN so_far
            ELSE Match(pattern.kids[i], value[i], so_far.st)
    IN  CASE pattern.kind = "tuple" ->
               FoldLeft(part, Given(TRUE, st), [i \in DOMAIN pattern.kids |-> i])
          [] pattern.kind = "name" ->
               Given(TRUE, IF pattern.text = "_" THEN st
                           ELSE Bind(st, pattern.text, value))
          [] pattern.kind = "variant" ->
               IF value[1] # pattern.text THEN Given(FALSE, st)
               ELSE Given(TRUE, TakeApart(Tree("tuple", "", <<Name("_")>> \o pattern.kids),
                                          value, st))
          [] OTHER -> Tested(value, Eval(pattern, st))

\* What a container gives, in turn.
Between(inclusive, ends) ==
    LET from == ends.value[1]
        to == ends.value[2] + (IF inclusive THEN 1 ELSE 0)
    IN  Given([i \in 1 .. (IF to > from THEN to - from ELSE 0) |-> from + i - 1],
              ends.st)
Held(wanted, e) == Given(IF wanted > 1 THEN e.value.items ELSE Keys(e.value), e.st)
Elements(node, wanted, st) ==
    IF node.kind \in {"inclusive range", "exclusive range"}
    THEN Between(node.kind = "inclusive range", EvalAll(node.kids, st))
    ELSE Held(wanted, Eval(node, st))

RECURSIVE Run(_, _)
RunAll(statements, st) ==
    FoldLeft(LAMBDA so_far, statement :
               IF so_far.signal # "" THEN so_far ELSE Run(statement, so_far),
             st, statements)

\* What a block declared is gone behind it, and what it hid is back.
LetsOf(statements) ==
    {statements[i].text : i \in {j \in DOMAIN statements : statements[j].kind = "let"}}
Leave(hidden, statements, st) ==
    [st EXCEPT !.env = [name \in LetsOf(statements) \cap DOMAIN hidden |->
                          hidden[name]] @@ @]

AfterTurn(st) == IF st.signal \in {"break", "continue"} THEN Raise(st, "") ELSE st

\* A loop, <<condition, step, body>>, and the turns it still may make.
RECURSIVE Loop(_, _, _)
TurnEnded(loop, turns, after) ==
    IF after.signal \notin {"", "continue"} THEN AfterTurn(after)
    ELSE Loop(loop, turns - 1, RunAll(loop[2].kids, AfterTurn(after)))
TurnAsked(loop, turns, asked) ==
    IF ~asked.value THEN Close(asked.st)
    ELSE TurnEnded(loop, turns, Run(loop[3], Close(asked.st)))
Loop(loop, turns, st) ==
    IF turns = 0 THEN Raise(st, "stuck")
    ELSE TurnAsked(loop, turns,
                   IF loop[1].kind = "none" THEN Given(TRUE, st) ELSE Eval(loop[1], st))

\* The branches of an 'if' that are left; the first is two kids.
RECURSIVE Branches(_, _)
BranchAsked(branches, asked) ==
    IF asked.value THEN Run(Head(branches).kids[2], Close(asked.st))
    ELSE Branches(Tail(branches), Close(asked.st))
Branches(branches, st) ==
    IF branches = <<>> THEN st
    ELSE IF Head(branches).kind = "else" THEN Run(Head(branches).kids[1], st)
    ELSE BranchAsked(branches, Eval(Head(branches).kids[1], st))

\* The first case that matches, from the i-th, runs the next block there is.
RECURSIVE Cases(_, _, _, _)
BlockOf(cases, i) ==
    cases[CHOOSE j \in i .. Len(cases) :
            /\ Len(cases[j].kids) = 2
            /\ \A k \in i .. j - 1 : Len(cases[k].kids) = 1].kids[2]
CaseAsked(cases, i, value, matched) ==
    IF matched.value THEN Run(BlockOf(cases, i), Close(matched.st))
    ELSE Cases(cases, i + 1, value, matched.st)
Cases(cases, i, value, st) ==
    LET default == SelectSeq(cases, LAMBDA case : case.kind = "default")
    IN  IF i > Len(cases)
        THEN RunAll([k \in DOMAIN default |-> default[k].kids[1]], Close(st))
        ELSE IF cases[i].kind = "default" THEN Cases(cases, i + 1, value, st)
        ELSE CaseAsked(cases, i, value, Match(cases[i].kids[1], value, st))

\* A walk over elements, each taken apart for a turn of its own.
Stopping(after) ==
    [st |-> AfterTurn(after), stopped |-> after.signal \notin {"", "continue"}]
WalkOver(elements, pattern, body) ==
    LET turn(so_far, element) ==
            IF so_far.stopped THEN so_far
            ELSE Stopping(Run(body, TakeApart(pattern, element, so_far.st)))
    IN  FoldLeft(turn, [st |-> Close(elements.st), stopped |-> FALSE],
                 elements.value).st

\* What a statement does with what it evaluates first.
BoundTo(name, first) == Close(Bind(first.st, name, first.value))
Assigned(target, value) == Close(TakeApart(target, value.value, value.st))
Appended(name, piece) ==
    Close([piece.st EXCEPT !.env[name] = Append(@, ToString(piece.value))])
Switched(cases, subject) == Cases(cases, 1, subject.value, subject.st)

Run(statement, st) ==
    LET kids == statement.kids
        kind == statement.kind
        wanted == IF kids[1].kind = "tuple" THEN Len(kids[1].kids)
                  ELSE IF statement.text = "2" THEN 2 ELSE 1
    IN  CASE kind = "block" -> Leave(st.env, kids, RunAll(kids, st))
          [] kind = "let" -> BoundTo(statement.text, Eval(kids[1], st))
          [] kind \in {"=", "let pattern"} -> Assigned(kids[1], Eval(kids[2], st))
          [] kind = "append" -> Appended(statement.text, Eval(kids[1], st))
          [] kind = "if" ->
               Branches(<<Tree("elif", "", SubSeq(kids, 1, 2))>>
                        \o SubSeq(kids, 3, Len(kids)), st)
          [] kind = "while" ->
               Loop(<<kids[1], Tree("step", "", <<>>), kids[2]>>, MaxTurns, st)
          [] kind = "for" -> Loop(Tail(kids), MaxTurns, RunAll(kids[1].kids, st))
          [] kind = "for each" ->
               Leave(st.env, <<Let(kids[1].text, kids[1])>>,
                     WalkOver(Elements(kids[2], wanted, st), kids[1], kids[3]))
          [] kind = "switch" -> Switched(Tail(kids), Eval(kids[1], st))
          [] kind \in {"break", "continue"} -> Raise(st, kind)
          [] kind = "return" -> Raise(Close(Eval(kids[1], st).st), "return")
          [] OTHER -> Close(Eval(statement, st).st)

-----------------------------------------------------------------------------
\* A name is declared in a whole block: one that is read before its 'let' is
\* refused (symbol_table, "is used before it is declared").
RECURSIVE ReadsOf(_)
ReadsOf(node) ==
    LET below == UNION {ReadsOf(node.kids[i]) : i \in DOMAIN node.kids}
    IN  CASE node.kind \in {"name", "append"} -> below \cup {node.text}
          [] node.kind = "block" -> below \ LetsOf(node.kids)
          [] OTHER -> below

RECURSIVE ReadTooEarly(_)
ReadTooEarly(node) ==
    \/ /\ node.kind = "block"
       /\ \E j \in DOMAIN node.kids :
            /\ node.kids[j].kind = "let"
            /\ \E i \in 1 .. j : node.kids[j].text \in ReadsOf(node.kids[i])
    \/ \E i \in DOMAIN node.kids : ReadTooEarly(node.kids[i])

\* What a function does when it is called with these inputs.
Observed(ended) == [trace |-> ended.trace, signal |-> ended.signal]
Meaning(function, inputs, answers) ==
    LET params == function.kids[1].kids
        begun == FoldLeft(LAMBDA st, i : TakeApart(params[i], inputs[i], st),
                          Start([x \in {} |-> x], answers),
                          [i \in DOMAIN params |-> i])
    IN  IF ReadTooEarly(function) THEN [trace |-> <<>>, signal |-> "refused"]
        ELSE Observed(Run(function.kids[2], begun))

\* The same calls, whatever the order inside a group.
RECURSIVE InGroups(_, _)
InGroups(groups, calls) ==
    LET size == Len(Head(groups))
        first == SubSeq(calls, 1, size)
        times(call, seq) == Cardinality({i \in DOMAIN seq : seq[i] = call})
    IN  IF groups = <<>> THEN calls = <<>>
        ELSE /\ Len(calls) >= size
             /\ \A call \in Range(first) :
                  times(call, first) = times(call, Head(groups))
             /\ InGroups(Tail(groups), SubSeq(calls, size + 1, Len(calls)))

Agree(wanted, done) ==
    /\ done.signal = wanted.signal
    /\ InGroups(wanted.trace, FlattenSeq(done.trace))
DoesWhat(source, tree, inputs, answers) ==
    Agree(Meaning(source, inputs, answers), Meaning(tree, inputs, answers))

-----------------------------------------------------------------------------

CONSTANT Programs \* families of [source, inputs, answers]

VARIABLES program, \* what was written, with what it is called with
          tree,    \* the function as it is
          stage,   \* "written", "lowered" or, the sugar pass refusing, "refused"
          names,   \* how many names the loops have taken
          held     \* and how many the switches have

vars == <<program, tree, stage, names, held>>

Init ==
    /\ \E family \in DOMAIN Programs : program \in Programs[family]
    /\ tree = program.source
    /\ stage = "written" /\ names = 0 /\ held = 0

Becomes(lowered) ==
    /\ tree' = lowered.node
    /\ stage' = IF lowered.pass.errors = 0 THEN "lowered" ELSE "refused"
lower_sugar ==
    /\ stage = "written"
    /\ Becomes(lower(tree))
    /\ UNCHANGED <<program, names, held>>

Loses(lowered) ==
    /\ tree' = lowered.node
    /\ names' = names + lowered.names
lower_loop ==
    /\ stage = "lowered" /\ HasLoop(tree)
    /\ Loses(LowerFirst(tree, names))
    /\ UNCHANGED <<program, stage, held>>

\* The switches of a module are looked for when a round has typed its locals.
lower_switch ==
    /\ stage = "lowered" /\ ~HasLoop(tree) /\ HasSwitch(tree)
    /\ tree' = RewriteFirst(tree, held)
    /\ held' = held + 1
    /\ UNCHANGED <<program, stage, names>>

Next == lower_sugar \/ lower_loop \/ lower_switch
Spec == Init /\ [][Next]_vars

-----------------------------------------------------------------------------
\* A program the passes take is, at every stage, a program that makes the
\* calls the written one makes, as often, with the same values, statement by
\* statement and condition by condition, and leaves the same way: what a pass
\* moves before a statement is built when that statement runs and only then
\* (docs/design/0061), a loop's step survives a 'continue', a tuple is read
\* before it is written and a range ends at the largest number there is.
SameMeaning ==
    stage # "refused" =>
        DoesWhat(program.source, tree, program.inputs, program.answers)

\* A tree with nothing of what the sugar pass takes apart.
RECURSIVE Plain(_)
Plain(node) ==
    LET kid(i) == node.kids[i]
        unbound(i) == kid(i).kind = "array" /\ kid(i).kids # <<>> /\ node.kind # "let"
    IN  /\ node.kind \notin {"template", "let pattern"}
        /\ node.kind \in {"=", "for each", "case", "params"} =>
             \A i \in DOMAIN node.kids :
               kid(i).kind = "tuple" => node.kind = "=" /\ i = 2
        /\ \A i \in DOMAIN node.kids : ~unbound(i) /\ Plain(kid(i))
\* After the sugar pass nothing downstream has to know what was written: no
\* template string, no bracket literal that is not the value of a name, no
\* tuple to bind, assign, walk or match, anywhere in the tree
\* (sugar_lowerer.h:12-36), and no later pass puts one back.
NothingIsLeft ==
    stage = "lowered" => Plain(tree)
=============================================================================
