------------------------------- MODULE Sugar --------------------------------
(***************************************************************************)
(* The sugar pass (src/src/haard/sugar/sugar_lowerer.cpp): a tree of a     *)
(* function rewritten into one that holds no template string, no literal   *)
(* of elements that is not bound to a name and no tuple written as a       *)
(* pattern.                                                                *)
(*                                                                         *)
(* The code rewrites nodes in place and inserts statements before the one  *)
(* it is in.  Here a walk answers the node as it is after it, the          *)
(* statements that were inserted, first to last, and the pass as it is     *)
(* after it: the number of names it made and the errors it reported.       *)
(*                                                                         *)
(* After it, the two rewritings that wait for types: a 'for ... in'        *)
(* (sugar/for_each_lowerer.cpp) and a switch over what C++ cannot switch   *)
(* on (sugar/switch_lowerer.cpp).                                          *)
(*                                                                         *)
(* The types written beside a pattern, which only say what each name is,   *)
(* and the spellings of the library's types are left out.                  *)
(***************************************************************************)
EXTENDS Naturals, Sequences, FiniteSets, TLC, SequencesExt, Functions

Tree(kind, text, kids) == [kind |-> kind, text |-> text, kids |-> kids]
Name(text) == Tree("name", text, <<>>)
Literal(value) == Tree("literal", value, <<>>)
Block(statements) == Tree("block", "", statements)
Let(name, value) == Tree("let", name, <<value>>)
Assignment(target, value) == Tree("=", "", <<target, value>>)
Not(node) == Tree("not", "", <<node>>)

\* A name no source writes: what it is for, and a number.
Made(prefix, pass) == prefix \o ToString(pass.counter)
Counted(pass) == [pass EXCEPT !.counter = @ + 1]

\* A bracket literal and a template string with something inside.
IsLiteral(node) == node.kind = "array"
IsBuilt(node) == node.kind = "template" \/ (IsLiteral(node) /\ node.kids # <<>>)

\* Whether anything under this node would be built before its statement.
RECURSIVE hoists(_)
hoists(node) ==
    /\ node.kind # "block"
    /\ IsBuilt(node) \/ \E i \in DOMAIN node.kids : hoists(node.kids[i])

\* What a walk answers: the node, what was put before it, and the pass.
Walked(node, before, pass) == [node |-> node, before |-> before, pass |-> pass]

-----------------------------------------------------------------------------
\* The four places a part of a statement does not run once and first.

\* 'a and b' is the branch it always was.
Flagged(node, name) ==
    LET test == IF node.kind = "and" THEN Name(name) ELSE Not(Name(name))
    IN  <<Let(name, node.kids[1]),
          Tree("if", "", <<test, Block(<<Assignment(Name(name), node.kids[2])>>)>>)>>

make_exit_unless(condition) ==
    Tree("if", "", <<Not(condition), Block(<<Tree("break", "", <<>>)>>)>>)

prepend(block, statements) == [block EXCEPT !.kids = statements \o @]

\* A condition that builds something is asked at the top of every turn.
condition_into_the_body(loop) ==
    IF ~hoists(loop.kids[1]) THEN loop
    ELSE [loop EXCEPT
            !.kids = <<Literal(TRUE),
                       prepend(@[2], <<make_exit_unless(@[1])>>)>>]

\* The children of a 'for' are its head, its condition, its step and its
\* body.  A step that builds something runs at the top of the next turn,
\* behind the flag that the step now sets, and the condition after it.
StepApart(loop, flag) ==
    LET moves_step == hoists(loop.kids[3])
        first == IF moves_step
                 THEN <<Tree("if", "", <<Name(flag), Block(loop.kids[3].kids)>>)>>
                 ELSE <<>>
        asked == IF loop.kids[2].kind = "none" THEN <<>>
                 ELSE <<make_exit_unless(loop.kids[2])>>
        step == IF moves_step
                THEN Tree("step", "", <<Assignment(Name(flag), Literal(TRUE))>>)
                ELSE loop.kids[3]
    IN  [loop EXCEPT !.kids = <<@[1], Tree("none", "", <<>>), step,
                                prepend(@[4], first \o asked)>>]

\* Answers the loop and the flag declared before it.
take_the_step_apart(loop, pass) ==
    LET moves_step == hoists(loop.kids[3])
        flag == Made("__step", pass)
    IN  IF ~moves_step /\ ~hoists(loop.kids[2])
        THEN Walked(loop, <<>>, pass)
        ELSE Walked(StepApart(loop, flag),
                    IF moves_step THEN <<Let(flag, Literal(FALSE))>> ELSE <<>>,
                    IF moves_step THEN Counted(pass) ELSE pass)

\* The first 'elif' whose condition builds something becomes the 'else' that
\* holds it and every branch after it.
elif_into_an_else(branch) ==
    LET moved == {i \in DOMAIN branch.kids :
                    branch.kids[i].kind = "elif" /\ hoists(branch.kids[i].kids[1])}
        at == CHOOSE i \in moved : \A j \in moved : i <= j
        inner == Tree("if", "", branch.kids[at].kids
                                \o SubSeq(branch.kids, at + 1, Len(branch.kids)))
    IN  IF moved = {} THEN branch
        ELSE [branch EXCEPT !.kids = SubSeq(@, 1, at - 1)
                                     \o <<Tree("else", "", <<Block(<<inner>>)>>)>>]

-----------------------------------------------------------------------------
\* Tuples taken apart.

\* '<source>[i][j]...', the positions from 0.
element_at(source, path) ==
    FoldLeft(LAMBDA node, i : Tree("index", "", <<node, Literal(i)>>),
             Name(source), path)

Inside(path, i) == Append(path, i - 1)

\* The declarations of the names of a pattern; '_' binds nothing, and a
\* pattern of one takes the whole of what it is given.
RECURSIVE destructure_into(_, _, _)
destructure_into(pattern, source, path) ==
    LET one(child, here) ==
            IF child.kind = "tuple" THEN destructure_into(child, source, here)
            ELSE IF child.text = "_" THEN <<>>
            ELSE <<Let(child.text, element_at(source, here))>>
        each == [i \in DOMAIN pattern.kids |->
                   one(pattern.kids[i],
                       IF Len(pattern.kids) = 1 THEN path ELSE Inside(path, i))]
    IN  FlattenSeq(each)

is_destructuring(statement) == statement.kind = "let pattern"

\* A name is read once per element; anything else is read once, into a name.
destructure(statement, pass) ==
    LET pattern == statement.kids[1]
        value == statement.kids[2]
        source == IF value.kind = "name" THEN value.text ELSE Made("__d", pass)
        held == IF value.kind = "name" THEN <<>> ELSE <<Let(source, value)>>
    IN  [written |-> held \o destructure_into(pattern, source, <<>>),
         pass |-> IF value.kind = "name" THEN pass ELSE Counted(pass)]

RECURSIVE assign_into(_, _, _)
assign_into(pattern, source, path) ==
    LET one(target, here) ==
            IF target.kind = "tuple" THEN assign_into(target, source, here)
            ELSE IF target.kind = "name" /\ target.text = "_" THEN <<>>
            ELSE <<Assignment(target, element_at(source, here))>>
    IN  FlattenSeq([i \in DOMAIN pattern.kids |->
                      one(pattern.kids[i], Inside(path, i))])

is_tuple_assignment(statement) ==
    statement.kind = "=" /\ statement.kids[1].kind = "tuple"

\* The right side is held by a name of its own, whatever it is: both sides of
\* a swap are read before either is written.
assign_apart(statement, pass) ==
    LET source == Made("__d", pass)
    IN  [written |-> <<Let(source, statement.kids[2])>>
                     \o assign_into(statement.kids[1], source, <<>>),
         pass |-> Counted(pass)]

\* A tuple written as a parameter is a name, and the first lines of the body.
lower_parameter_patterns(function, pass) ==
    LET params == function.kids[1].kids
        body == function.kids[2]
        is_pattern(i) == params[i].kind = "tuple"
        before(i) == Cardinality({j \in 1 .. i - 1 : is_pattern(j)})
        source(i) == Made("__p", [pass EXCEPT !.counter = @ + before(i)])
        named == [i \in DOMAIN params |->
                    IF is_pattern(i) THEN Name(source(i)) ELSE params[i]]
        written == FlattenSeq([i \in DOMAIN params |->
                       IF is_pattern(i)
                       THEN destructure_into(params[i], source(i), <<>>)
                       ELSE <<>>])
    IN  Walked([function EXCEPT
                  !.kids = <<Tree("params", "", named), prepend(body, written)>>],
               <<>>, [pass EXCEPT !.counter = @ + before(Len(params) + 1)])

\* 'for (a, b) in c' walks a name that its body takes apart; how many names
\* the pattern has is kept on the loop.
lower_pattern_loop(loop, pass) ==
    LET pattern == loop.kids[1]
        name == Made("__e", pass)
    IN  IF pattern.kind # "tuple" THEN Walked(loop, <<>>, pass)
        ELSE Walked([loop EXCEPT
                       !.text = ToString(Len(pattern.kids)),
                       !.kids = <<Name(name), @[2],
                                  prepend(@[3], destructure_into(pattern, name, <<>>))>>],
                    <<>>, Counted(pass))

-----------------------------------------------------------------------------
\* A switch over tuples.

\* What a pattern asks for, first element to last: the tests of its literals,
\* the names it captures and the variants it must be, each with where it is.
NoDemands == [tests |-> <<>>, captures |-> <<>>, variants |-> <<>>]
Both(first, second) ==
    [part \in DOMAIN first |-> first[part] \o second[part]]

RECURSIVE take_pattern_apart(_, _, _)
take_pattern_apart(pattern, held, path) ==
    LET demands(element, here) ==
            CASE element.kind = "tuple" -> take_pattern_apart(element, held, here)
              [] element.kind = "name" /\ element.text = "_" -> NoDemands
              [] element.kind = "name" ->
                   [NoDemands EXCEPT !.captures = <<Let(element.text,
                                                        element_at(held, here))>>]
              [] element.kind = "variant" ->
                   [NoDemands EXCEPT !.variants = <<<<element,
                                                      element_at(held, here)>>>>]
              [] OTHER ->
                   [NoDemands EXCEPT !.tests = <<Tree("==", "",
                                       <<element_at(held, here), element>>)>>]
    IN  FoldLeft(Both, NoDemands,
                 [i \in DOMAIN pattern.kids |->
                    demands(pattern.kids[i], Inside(path, i))])

joined(word, parts) ==
    FoldLeft(LAMBDA whole, part : Tree(word, "", <<whole, part>>), Head(parts),
             Tail(parts))

\* A pattern that is no tuple is a whole value, compared whole.
DemandsOf(pattern, held) ==
    IF pattern.kind = "tuple" THEN take_pattern_apart(pattern, held, <<>>)
    ELSE [NoDemands EXCEPT !.tests = <<Tree("==", "", <<Name(held), pattern>>)>>]

\* What every branch asks first, and then one of the patterns of its group;
\* a pattern that tests nothing matches anything.
BranchTest(matched, group) ==
    LET unmatched == Not(Name(matched))
        alternatives == [i \in DOMAIN group |-> joined("and", group[i].tests)]
    IN  IF \E i \in DOMAIN group : group[i].tests = <<>> THEN unmatched
        ELSE Tree("and", "", <<unmatched, joined("or", alternatives)>>)

\* The flag, the captures and the case's own body, inside a switch over each
\* variant, whose default does nothing.
BranchBody(matched, demands, body) ==
    LET inner == Block(<<Assignment(Name(matched), Literal(TRUE))>>
                       \o demands.captures \o <<body>>)
        around(inside, variant) ==
            Block(<<Tree("switch", "",
                         <<variant[2],
                           Tree("case", "", <<variant[1], inside>>),
                           Tree("default", "", <<Block(<<>>)>>)>>)>>)
    IN  FoldRight(LAMBDA variant, inside : around(inside, variant),
                  demands.variants, inner)

is_tuple_switch(statement) ==
    /\ statement.kind = "switch"
    /\ \E i \in 2 .. Len(statement.kids) :
         /\ statement.kids[i].kind = "case"
         /\ statement.kids[i].kids[1].kind = "tuple"

\* The branches the cases become, with the patterns still waiting for a
\* block and the errors: a default runs where it is written, if nothing has
\* matched by then.
OneCase(so_far, case, held, matched) ==
    LET group == Append(so_far.group, DemandsOf(case.kids[1], held))
        demands == FoldLeft(Both, NoDemands, group)
        refused == /\ Len(group) > 1
                   /\ demands.captures # <<>> \/ demands.variants # <<>>
    IN  CASE case.kind = "default" ->
               [so_far EXCEPT
                  !.written = Append(@, Tree("if", "", <<Not(Name(matched)),
                                                         case.kids[1]>>))]
          [] Len(case.kids) = 1 -> [so_far EXCEPT !.group = group]
          [] OTHER ->
               [group |-> <<>>,
                errors |-> so_far.errors + (IF refused THEN 1 ELSE 0),
                written |-> Append(so_far.written,
                              Tree("if", "", <<BranchTest(matched, group),
                                               BranchBody(matched, demands,
                                                          case.kids[2])>>))]

\* The subject is read once: a name is already that.
lower_tuple_switch(switch, pass) ==
    LET subject == switch.kids[1]
        is_name == subject.kind = "name"
        held == IF is_name THEN subject.text ELSE Made("__sw", pass)
        after == IF is_name THEN pass ELSE Counted(pass)
        matched == Made("__m", after)
        cases == FoldLeft(LAMBDA so_far, case : OneCase(so_far, case, held, matched),
                          [group |-> <<>>, errors |-> 0, written |-> <<>>],
                          Tail(switch.kids))
        first == IF is_name THEN <<>> ELSE <<Let(held, subject)>>
    IN  [written |-> <<Block(first \o <<Let(matched, Literal(FALSE))>> \o cases.written)>>,
         pass |-> [Counted(after) EXCEPT !.errors = @ + cases.errors]]

-----------------------------------------------------------------------------
\* The walk.

RECURSIVE walk(_, _)

\* A kid, or a statement, and what was lifted out of it.
Beside(so_far, walked) ==
    [kids |-> Append(so_far.kids, walked.node),
     before |-> so_far.before \o walked.before, pass |-> walked.pass]
Behind(so_far, walked) ==
    [kids |-> so_far.kids \o Append(walked.before, walked.node), pass |-> walked.pass]

WithKids(node, all) == Walked([node EXCEPT !.kids = all.kids], all.before, all.pass)
walk_children(node, pass) ==
    WithKids(node, FoldLeft(LAMBDA so_far, kid : Beside(so_far, walk(kid, so_far.pass)),
                            [kids |-> <<>>, before |-> <<>>, pass |-> pass], node.kids))

\* Statements, each after what was lifted out of it.
WalkStatements(statements, pass) ==
    FoldLeft(LAMBDA so_far, statement : Behind(so_far, walk(statement, so_far.pass)),
             [kids |-> <<>>, pass |-> pass], statements)

\* A statement of a block, which may become several.
WalkApart(apart) == WalkStatements(apart.written, apart.pass)
OneOf(statement, pass) == [written |-> <<statement>>, pass |-> pass]
TakenApart(statement, pass) ==
    CASE is_destructuring(statement) -> destructure(statement, pass)
      [] is_tuple_assignment(statement) -> assign_apart(statement, pass)
      [] is_tuple_switch(statement) -> lower_tuple_switch(statement, pass)
      [] OTHER -> OneOf(statement, pass)

After(so_far, walked) == [kids |-> so_far.kids \o walked.kids, pass |-> walked.pass]
InBlock(all) == Walked(Block(all.kids), <<>>, all.pass)
walk_block(block, pass) ==
    InBlock(FoldLeft(LAMBDA so_far, statement :
                       After(so_far, WalkApart(TakenApart(statement, so_far.pass))),
                     [kids |-> <<>>, pass |-> pass], block.kids))

\* (mutant: the flag and its branch are put in and not walked themselves)
BranchUnwalked(node, pass) ==
    LET name == Made("__sc", pass)
    IN  Walked(Name(name), Flagged(node, name), Counted(pass))
NameBehind(name, walked) == Walked(Name(name), walked.kids, walked.pass)
short_circuit_into_a_branch(node, pass) ==
    NameBehind(Made("__sc", pass),
               WalkStatements(Flagged(node, Made("__sc", pass)), Counted(pass)))

\* A local, and what it is built from appended piece by piece.
lower_template_string(all) ==
    LET name == Made("__ts", all.pass)
        appends == [i \in DOMAIN all.node.kids |->
                      Tree("append", name, <<all.node.kids[i]>>)]
    IN  Walked(Name(name), all.before \o <<Let(name, Tree("text", "", <<>>))>> \o appends,
               Counted(all.pass))

hoist_literal(all) ==
    LET name == Made("__ar", all.pass)
    IN  IF all.node.kids = <<>> THEN all
        ELSE Walked(Name(name), Append(all.before, Let(name, all.node)),
                    Counted(all.pass))

\* The elements of a literal bound to a name are walked, and it stays.
walk_binding(node, held) ==
    Walked([node EXCEPT !.kids = <<held.node>>], held.before, held.pass)

\* What a loop needs before it comes before what its own parts do.
LedBy(before, walked) == Walked(walked.node, before \o walked.before, walked.pass)
WalkPrepared(prepared) ==
    LedBy(prepared.before, walk_children(prepared.node, prepared.pass))

\* A node made ready for the walk of its parts.
Prepared(node, pass) ==
    CASE node.kind = "while" -> Walked(condition_into_the_body(node), <<>>, pass)
      [] node.kind = "for" -> take_the_step_apart(node, pass)
      [] node.kind = "for each" -> lower_pattern_loop(node, pass)
      [] node.kind = "function" -> lower_parameter_patterns(node, pass)
      [] node.kind = "if" -> Walked(elif_into_an_else(node), <<>>, pass)
      [] OTHER -> Walked(node, <<>>, pass)

walk(node, pass) ==
    CASE node.kind = "block" -> walk_block(node, pass)
      [] node.kind \in {"and", "or"} /\ hoists(node.kids[2]) ->
           short_circuit_into_a_branch(node, pass)
      [] IsLiteral(node) -> hoist_literal(walk_children(node, pass))
      [] node.kind = "let" /\ IsLiteral(node.kids[1]) ->
           walk_binding(node, walk_children(node.kids[1], pass))
      [] node.kind = "template" -> lower_template_string(walk_children(node, pass))
      [] OTHER -> WalkPrepared(Prepared(node, pass))

lower(function) == walk(function, [counter |-> 0, errors |-> 0])

-----------------------------------------------------------------------------
(***************************************************************************)
(* The lowering of 'for x in <something>'                                  *)
(* (src/src/haard/sugar/for_each_lowerer.cpp): which of three loops it is  *)
(* depends on what is walked, so this pass runs in the type phase and      *)
(* numbers the names it makes by a counter of its own.                     *)
(*                                                                         *)
(* A loop is <<variable, container, block>>, its text how many names its   *)
(* pattern had.  What the typer says of a container is Types: its shape,   *)
(* "class", "hash" (a class whose iterator gives no tuple and which has    *)
(* 'items') or "fixed", and a fixed array's length.  A loop over anything  *)
(* else, or with two variables, is left standing and reported: the program *)
(* has no further tree to speak of.                                        *)
(***************************************************************************)

CONSTANT Types

Class == [shape |-> "class", length |-> 0]
TypeOf(node) ==
    IF node.kind \in {"name", "call"} /\ node.text \in DOMAIN Types
    THEN Types[node.text] ELSE Class

name_for(prefix, n) == prefix \o ToString(n)
call_on(receiver, method) == Tree("method", method, <<receiver>>)

condition_of(name, limit, inclusive) ==
    Tree(IF inclusive THEN "<=" ELSE "<", "", <<Name(name), limit>>)
sum_of(name, value) == Tree("+", "", <<Name(name), value>>)

loop_of(condition, stepped, body) ==
    Tree("for", "", <<Tree("none", "", <<>>), condition,
                      Tree("step", "", <<stepped>>), body>>)
counted_loop(name, condition, body) ==
    loop_of(condition, Assignment(Name(name), sum_of(name, Literal(1))), body)

\* What a loop becomes, and how many names it took.
Rewritten(statements, names) == [node |-> Block(statements), names |-> names]

over_a_cursor(variable, container, body, n) ==
    LET cursor == name_for("__c", n)
        next == Let(variable, call_on(Name(cursor), "next"))
    IN  Rewritten(<<Let(cursor, call_on(container, "iterator")),
                    Tree("while", "", <<call_on(Name(cursor), "has_next"),
                                        prepend(body, <<next>>)>>)>>, 1)

\* The sequence is indexed every turn and not held: a local would be a copy.
over_a_fixed_array(variable, container, length, body, n) ==
    LET counted == name_for("__i", n)
        element == Tree("index", "", <<container, Name(counted)>>)
    IN  Rewritten(<<Let(counted, Literal(0)),
                    counted_loop(counted,
                                 condition_of(counted, Literal(length), FALSE),
                                 prepend(body, <<Let(variable, element)>>))>>, 1)

\* (mutant: the inclusive range is the same loop with '<=')
OneMoreTurn(variable, range, body, n) ==
    LET limit == name_for("__e", n)
    IN  Rewritten(<<Let(limit, range.kids[2]), Let(variable, range.kids[1]),
                    counted_loop(variable,
                                 condition_of(variable, Name(limit),
                                              range.kind = "inclusive range"),
                                 body)>>, 1)
\* The end is evaluated once.  The inclusive form asks whether there is
\* another turn before it steps, and steps at the top of that turn, by
\* nothing the first time: the end may be the largest value there is.
over_a_range(variable, range, body, n) ==
    LET limit == name_for("__e", n)
        more == name_for("__m", n + 1)
        step == name_for("__d", n + 2)
        below(inclusive) == condition_of(variable, Name(limit), inclusive)
        stepping == <<Assignment(Name(variable), sum_of(variable, Name(step))),
                      Assignment(Name(step), Literal(1))>>
        ends == <<Let(limit, range.kids[2]), Let(variable, range.kids[1])>>
    IN  IF range.kind = "exclusive range"
        THEN Rewritten(Append(ends, counted_loop(variable, below(FALSE), body)), 1)
        ELSE Rewritten(ends \o
                <<Let(more, below(TRUE)),
                  Let(step, Tree("-", "", <<Name(limit), Name(limit)>>)),
                  loop_of(Name(more), Assignment(Name(more), below(FALSE)),
                          prepend(body, stepping))>>, 3)

\* 'for (k, v) in c' walks what 'items' gives when walking c gives no tuple.
walked_by_items(loop, container) ==
    loop.text \notin {"", "1"} /\ TypeOf(container).shape = "hash"

LowerLoop(loop, n) ==
    LET variable == loop.kids[1].text
        container == loop.kids[2]
        body == loop.kids[3]
        type == TypeOf(container)
    IN  CASE container.kind \in {"inclusive range", "exclusive range"} ->
               over_a_range(variable, container, body, n)
          [] type.shape \in {"class", "hash"} ->
               over_a_cursor(variable,
                             IF walked_by_items(loop, container)
                             THEN call_on(container, "items") ELSE container,
                             body, n)
          [] type.shape = "fixed" ->
               over_a_fixed_array(variable, container, type.length, body, n)

\* The collector reaches the loops in the order they are written.
RECURSIVE LowerFirst(_, _), HasLoop(_)
HasLoop(node) == node.kind = "for each"
                 \/ \E i \in DOMAIN node.kids : HasLoop(node.kids[i])
LowerFirst(node, n) ==
    LET holding == {i \in DOMAIN node.kids : HasLoop(node.kids[i])}
        at == CHOOSE i \in holding : \A j \in holding : i <= j
        below == LowerFirst(node.kids[at], n)
    IN  IF node.kind = "for each" THEN LowerLoop(node, n)
        ELSE [below EXCEPT !.node = [node EXCEPT !.kids[at] = below.node]]

-----------------------------------------------------------------------------
(***************************************************************************)
(* The lowering of a switch C++ has no switch for                          *)
(* (src/src/haard/sugar/switch_lowerer.cpp): a bool, a String, a float, a  *)
(* class.  The subject is held by a local and the cases become a chain of  *)
(* comparisons.  It runs in the type phase, which is when the type of the  *)
(* subject is known; the numbers of its names are its own too.             *)
(*                                                                         *)
(* That the local is a reference when the subject has a name is left out.  *)
(***************************************************************************)

\* Whole numbers and enums stay a switch.
switchable(switch) ==
    \/ TypeOf(switch.kids[1]).shape = "number"
    \/ \E i \in 2 .. Len(switch.kids) :
         /\ switch.kids[i].kind = "case"
         /\ switch.kids[i].kids[1].kind = "variant"

\* The patterns from the first that waits for a block to the one with it.
PatternsEq(name, cases, i) ==
    LET first == CHOOSE f \in 1 .. i :
                   /\ \A j \in f .. i - 1 : Len(cases[j].kids) = 1
                                            /\ cases[j].kind = "case"
                   /\ f > 1 => Len(cases[f - 1].kids) = 2
                               \/ cases[f - 1].kind = "default"
    IN  joined("or", [k \in 1 .. i - first + 1 |->
                        Tree("==", "", <<Name(name), cases[first + k - 1].kids[1]>>)])

\* The local and the chain.
rewrite(switch, n) ==
    LET name == name_for("__sw", n)
        cases == Tail(switch.kids)
        with_block == SelectSeq([i \in DOMAIN cases |-> i],
                                LAMBDA i : cases[i].kind = "default"
                                           \/ Len(cases[i].kids) = 2)
        branch(i) ==
            IF cases[i].kind = "default" THEN Tree("else", "", cases[i].kids)
            ELSE Tree("elif", "", <<PatternsEq(name, cases, i), cases[i].kids[2]>>)
        branches == [k \in DOMAIN with_block |-> branch(with_block[k])]
    IN  Block(<<Let(name, switch.kids[1]),
                Tree("if", "", Head(branches).kids \o Tail(branches))>>)

\* A switch this pass has to rewrite, the outermost first.
RECURSIVE HasSwitch(_), RewriteFirst(_, _)
HasSwitch(node) ==
    \/ node.kind = "switch" /\ ~switchable(node)
    \/ \E i \in DOMAIN node.kids : HasSwitch(node.kids[i])
RewriteFirst(node, n) ==
    LET holding == {i \in DOMAIN node.kids : HasSwitch(node.kids[i])}
        at == CHOOSE i \in holding : \A j \in holding : i <= j
    IN  IF node.kind = "switch" /\ ~switchable(node) THEN rewrite(node, n)
        ELSE [node EXCEPT !.kids[at] = RewriteFirst(node.kids[at], n)]
=============================================================================
