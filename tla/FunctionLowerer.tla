--------------------------- MODULE FunctionLowerer ---------------------------
(***************************************************************************)
(* A function's body made IR (lowering/function_lowerer.cpp), for what it  *)
(* builds and ends: where each object is built, which scope ends it, and   *)
(* what a 'break', a 'continue', a 'return' and the end of a block run.    *)
(*                                                                         *)
(* Every object is of one struct that owns something: it has an 'init', a  *)
(* copy and a 'destroy'.  A body is a sequence of statements; what an      *)
(* expression computes is left out, what it builds on the way is kept:     *)
(*   plain         a call that builds nothing and gives a bool             *)
(*   temp          a method called on an object built for the call         *)
(*   pass x        a call given a copy of the local x                      *)
(*   and, or, not  of two such, or one                                     *)
(* and a struct is built from                                              *)
(*   new args      its 'init', given what those expressions give           *)
(*   local x       a copy of the local x                                   *)
(*   list n        a literal of n elements, given to an 'init' of its own  *)
(***************************************************************************)
EXTENDS IrGraph

CONSTANT Locals        \* the names of a body's locals
CONSTANT NoBlock       \* an 'else', a 'default' or a part that is not there

ASSUME NoBlockIsNone == NoBlock \notin Locals

\* The caller's place for the struct given back: a parameter, so no
\* instruction gives it.
Destination == 0

----------------------------------------------------------------------------
\* What a body that must give a value back has to do, as the statement
\* checker reads it (statement_checker/statement_checker.cpp).

RECURSIVE breaks_out(_), terminates(_)

breaks_out(body) ==
  \E i \in DOMAIN body :
    LET s == body[i]
    IN  CASE s.k = "break"  -> TRUE
          [] s.k = "if"     -> \/ \E a \in DOMAIN s.arms :
                                     breaks_out(s.arms[a].body)
                               \/ s.otherwise # NoBlock
                                  /\ breaks_out(s.otherwise)
          [] s.k = "switch" -> \/ \E c \in DOMAIN s.cases :
                                     breaks_out(s.cases[c].body)
                               \/ s.default # NoBlock /\ breaks_out(s.default)
          [] s.k = "scope"  -> breaks_out(s.body)
          [] OTHER          -> FALSE

terminates(body) ==
  \E i \in DOMAIN body :
    LET s == body[i]
    IN  CASE s.k = "return" -> TRUE
          [] s.k = "scope"  -> terminates(s.body)
          [] s.k = "if"     -> /\ \A a \in DOMAIN s.arms :
                                     terminates(s.arms[a].body)
                               /\ s.otherwise # NoBlock
                               /\ terminates(s.otherwise)
          [] s.k = "while"  -> s.test.k = "true" /\ ~breaks_out(s.body)
          [] s.k = "for"    -> s.test.k \in {"none", "true"}
                               /\ ~breaks_out(s.body)
          [] s.k = "switch" -> /\ \A c \in DOMAIN s.cases :
                                     terminates(s.cases[c].body)
                               /\ \/ s.default # NoBlock
                                     /\ terminates(s.default)
                                  \/ s.default = NoBlock /\ s.exhaustive
          [] OTHER          -> FALSE

\* Every 'break' and 'continue' is inside a loop.
RECURSIVE LeavesALoop(_, _)
LeavesALoop(body, loops) ==
  \A i \in DOMAIN body :
    LET s == body[i]
    IN  CASE s.k \in {"break", "continue"} -> loops > 0
          [] s.k = "if"     -> /\ \A a \in DOMAIN s.arms :
                                     LeavesALoop(s.arms[a].body, loops)
                               /\ s.otherwise # NoBlock
                                  => LeavesALoop(s.otherwise, loops)
          [] s.k = "switch" -> /\ \A c \in DOMAIN s.cases :
                                     LeavesALoop(s.cases[c].body, loops)
                               /\ s.default # NoBlock
                                  => LeavesALoop(s.default, loops)
          [] s.k = "scope"  -> LeavesALoop(s.body, loops)
          [] s.k \in {"while", "for"} -> LeavesALoop(s.body, loops + 1)
          [] OTHER          -> TRUE

----------------------------------------------------------------------------
\* What the lowerer keeps: the builder, the scopes it is in with what each
\* has to end, the loops, how many right sides of an 'and' or an 'or' it is
\* inside of, the slot of each local, the local built in the destination,
\* and the value of the last expression.  'homes' is the depth of the scope
\* that ends each object, kept for the properties.

Scope(statement) == [statement |-> statement, cleanups |-> <<>>]

begin(shape) ==
  [b |-> begin_function, scopes |-> <<>>, loops |-> <<>>, conditional |-> 0,
   slots |-> [x \in Locals |-> 0], named_result |-> NoBlock,
   shape |-> shape, value |-> 0, homes |-> <<>>]

On(l, b) == [l EXCEPT !.b = b]
Gave(l, b) == [l EXCEPT !.b = b, !.value = result_of(b)]
Emit(l, op, a, x, extra) == Gave(l, emit(l.b, op, a, x, 0, extra))

\* An entry slot, whose number is the value it leaves.
Slot(l) == [l EXCEPT !.b = entry_slot(@), !.value = l.b.next]

\* What the last expression left, used: put in a slot, kept besides, made its
\* opposite, asked.
StoreIn(l, slot)  == Emit(l, "store", l.value, slot, 0)
KeepIn(l, slot)   == [StoreIn(l, slot) EXCEPT !.value = l.value]
LoadFrom(l, slot) == Emit(l, "load", slot, 0, 0)
Negate(l)    == Emit(l, "not", l.value, 0, 0)
BeginIf(l)   == On(l, begin_if(l.b, l.value))
BeginElse(l) == On(l, begin_else(l.b))
BeginLoop(l) == On(l, begin_loop(l.b))
BeginBlock(l) == On(l, begin_block(l.b))
EndRegion(l) == On(l, end(l.b))

open_scope(l, statement) == [l EXCEPT !.scopes = Append(@, Scope(statement))]

destroy(l, target) == Emit(l, "drop", target, 0, 0)

\* A flag of the entry, set or cleared.
Flag(l, flag, value) == StoreIn(Emit(l, "const", value, 0, 0), flag)

\* One object ended: at once, or under the flag that says it was built,
\* which is cleared for the next turn of a loop.
CleanUp(l, one) ==
  IF one.flag = 0 THEN destroy(l, one.target)
  ELSE EndRegion(Flag(destroy(BeginIf(LoadFrom(l, one.flag)), one.target),
                      one.flag, 0))

\* (mutant: a scope's objects ended in the order they were made)
CleanupsFirstToLast(l, depth) ==
  LET kept == SubSeq(l.scopes, depth + 1, Len(l.scopes))
      all  == FlattenSeq([s \in DOMAIN kept |->
                            kept[Len(kept) + 1 - s].cleanups])
  IN  FoldLeft(CleanUp, l, all)

\* (mutant: the innermost scope alone, whatever is left)
CleanupsOfOneScope(l, depth) ==
  FoldLeft(CleanUp, l, Reverse(Last(l.scopes).cleanups))

\* What the scopes from 'depth' in have to end: the innermost first, the
\* last made first.
run_cleanups(l, depth) ==
  LET kept == SubSeq(l.scopes, depth + 1, Len(l.scopes))
      all  == Reverse(FlattenSeq([s \in DOMAIN kept |-> kept[s].cleanups]))
  IN  FoldLeft(CleanUp, l, all)

\* (mutant: the end of a block written after what already left it)
CloseAlways(l) ==
  [run_cleanups(l, Len(l.scopes) - 1) EXCEPT !.scopes = Front(@)]

close_scope(l) ==
  LET run == IF ended(l.b) THEN l ELSE run_cleanups(l, Len(l.scopes) - 1)
  IN  [run EXCEPT !.scopes = Front(@)]

\* The scope an object ends with: a local's is the innermost that is not a
\* statement's.
HomeOf(l, local) ==
  IF ~local THEN Len(l.scopes)
  ELSE LET blocks == {s \in DOMAIN l.scopes :
                        s = 1 \/ ~l.scopes[s].statement}
       IN  CHOOSE s \in blocks : \A t \in blocks : t <= s

Owe(l, home, target, flag) ==
  [l EXCEPT !.scopes[home].cleanups =
                Append(@, [target |-> target, flag |-> flag]),
            !.homes = Append(@, <<target, home>>)]

\* What is made on one side of an 'and' or an 'or' has a flag that says so.
add_cleanup(l, target, local) ==
  IF l.conditional > 0 /\ ~local
  THEN Owe(Flag(On(l, entry_flag(l.b)), l.b.next, 1), HomeOf(l, local), target,
           l.b.next)
  ELSE Owe(l, HomeOf(l, local), target, 0)

----------------------------------------------------------------------------
\* Expressions: what each builds on the way, and the value it leaves.

RECURSIVE value_of(_, _), build_into(_, _, _)

\* An object built for the expression it is in, which ends it.
materialise(l, e) ==
  [add_cleanup(build_into(Slot(l), l.b.next, e), l.b.next, FALSE)
     EXCEPT !.value = l.b.next]

\* A copy of a local, made by the caller for the call and ended with it.
PassedByValue(l, x) ==
  materialise(l, [k |-> "local", x |-> x])

\* 'a and b': the right side is written inside an 'if' on the left one, and
\* what it makes it makes on that path only.
RightSide(l, e, answer) ==
  LET right == value_of([BeginIf(l) EXCEPT !.conditional = @ + 1], e.r)
  IN  EndRegion(StoreIn([right EXCEPT !.conditional = @ - 1], answer))
logical(l, e) ==
  LET left == KeepIn(value_of(Slot(l), e.l), l.b.next)
      test == IF e.k = "and" THEN left ELSE Negate(left)
  IN  LoadFrom(RightSide(test, e, l.b.next), l.b.next)

value_of(l, e) ==
  CASE e.k = "plain" -> Emit(l, "ask", 0, 0, 0)
    [] e.k = "true"  -> Emit(l, "const", 1, 0, 0)
    [] e.k = "temp"  -> Emit(materialise(l, [k |-> "new", args |-> <<>>]),
                             "ask", 0, 0, 0)
    [] e.k = "pass"  -> Emit(PassedByValue(l, e.x), "ask", 0, 0, 0)
    [] e.k = "not"   -> Negate(value_of(l, e.e))
    [] e.k \in {"and", "or"} -> logical(l, e)

arguments_for(l, args) == FoldLeft(value_of, l, args)

\* The elements of a literal, each built in its place of a fixed array, and
\* the object built from where they are.  Nothing ends the elements.
RECURSIVE build_from_literal(_, _, _)
build_from_literal(l, target, n) ==
  IF n = 0 THEN Emit(l, "make", target, 0, 0)
  ELSE build_from_literal(
         [Emit(Slot(l), "make", l.b.next, 0, 0)
            EXCEPT !.homes = Append(@, <<l.b.next, Len(l.scopes)>>)],
         target, n - 1)

\* The struct an expression is, built in the place given.
build_into(l, target, e) ==
  CASE e.k = "new"   -> Emit(arguments_for(l, e.args), "make", target, 0, 0)
    [] e.k = "local" -> Emit(l, "copy", target, l.slots[e.x], 0)
    [] e.k = "list"  -> build_from_literal(l, target, e.n)

----------------------------------------------------------------------------
\* Statements.

\* The local every 'return' gives back, or none.
RECURSIVE returns_in(_)
returns_in(body) ==
  UNION {LET s == body[i]
         IN  CASE s.k = "return" -> {s.e}
               [] s.k = "if" ->
                    UNION {returns_in(s.arms[a].body) : a \in DOMAIN s.arms}
                    \cup (IF s.otherwise = NoBlock THEN {}
                          ELSE returns_in(s.otherwise))
               [] s.k = "switch" ->
                    UNION {returns_in(s.cases[c].body) : c \in DOMAIN s.cases}
                    \cup (IF s.default = NoBlock THEN {}
                          ELSE returns_in(s.default))
               [] s.k \in {"while", "for", "scope"} -> returns_in(s.body)
               [] OTHER -> {} : i \in DOMAIN body}

named_result_of(body) ==
  LET given == returns_in(body)
  IN  IF \E x \in Locals : given = {[k |-> "local", x |-> x]}
      THEN (CHOOSE e \in given : TRUE).x
      ELSE NoBlock

BuiltThere(l) == [l EXCEPT !.homes = Append(@, <<Destination, 0>>)]

\* A local is built in a slot of its own, or where the caller said when it
\* is the one every 'return' gives back, which is then not ended here.
lower_binding(l, s) ==
  IF s.x = l.named_result
  THEN BuiltThere(build_into([l EXCEPT !.slots[s.x] = Destination],
                             Destination, s.e))
  ELSE add_cleanup(build_into([Slot(l) EXCEPT !.slots[s.x] = l.b.next],
                              l.b.next, s.e),
                   l.b.next, TRUE)

\* A reference to what is no place: the temporary lives as long as it does.
KeepTemporary(l, s) ==
  [add_cleanup(build_into(Slot(l), l.b.next, s.e), l.b.next, TRUE)
     EXCEPT !.slots[s.x] = l.b.next]

\* What a 'return' gives back, built where the caller said unless it is
\* there already, before what the function holds is ended.
Back(l, given) == Emit(run_cleanups(l, 0), "ret", given, 0, 0)
BackWithIt(l) == Back(l, l.value)
give_back(l, e) ==
  CASE l.shape = "value" -> BackWithIt(value_of(l, e))
    [] l.shape = "struct" /\ l.named_result # NoBlock -> Back(l, 0)
    [] OTHER -> Back(BuiltThere(build_into(l, Destination, e)), 0)

lower_return(l, s) ==
  IF s.e = NoBlock THEN Back(l, 0) ELSE give_back(l, s.e)

\* (mutant: a 'break' ends the block it is in, and not those around it)
BreakOneScope(l) ==
  LET left == CleanupsOfOneScope(l, 0)
  IN  Emit(left, "break", Last(l.loops).broken, 0, 0)

lower_break(l) ==
  LET left == run_cleanups(l, Last(l.loops).depth)
  IN  Emit(left, "break", Last(l.loops).broken, 0, 0)

\* In a 'for' what goes round is the block the body is, so that the
\* increment runs.
lower_continue(l) ==
  LET left == run_cleanups(l, Last(l.loops).depth)
      loop == Last(l.loops)
  IN  Emit(left, IF loop.continue_breaks THEN "break" ELSE "continue",
           loop.continued, 0, 0)

\* A condition is a statement of its own: its temporaries end before either
\* side runs.
ConditionDone(l) == [close_scope(l) EXCEPT !.value = l.value]
Condition(l, e) == ConditionDone(value_of(open_scope(l, TRUE), e))

\* 'if not value: break loop'
LeaveUnless(l, loop) ==
  EndRegion(Emit(BeginIf(Negate(l)), "break", loop, 0, 0))

RECURSIVE lower_block(_, _), lower_statement(_, _), lower_statements(_, _),
          lower_branches(_, _, _), lower_cases(_, _, _, _)

\* What follows what left the block never runs, and is not written.
lower_statements(l, body) ==
  IF body = <<>> \/ ended(l.b) THEN l
  ELSE lower_statements(lower_statement(l, Head(body)), Tail(body))

lower_block(l, body) ==
  close_scope(lower_statements(open_scope(l, FALSE), body))

\* An 'elif' is an 'if' in the 'else' of the one before.
OtherSide(l, arms, otherwise) ==
  CASE arms # <<>> -> lower_branches(BeginElse(l), arms, otherwise)
    [] arms = <<>> /\ otherwise # NoBlock -> lower_block(BeginElse(l), otherwise)
    [] OTHER -> l
lower_branches(l, arms, otherwise) ==
  LET one == lower_block(BeginIf(Condition(l, Head(arms).test)), Head(arms).body)
  IN  EndRegion(OtherSide(one, Tail(arms), otherwise))

lower_if(l, s) == lower_branches(l, s.arms, s.otherwise)

\* Whether the tag is one of the labels a group of cases has.
OrIs(l, tag, label) ==
  LET same == Emit(l, "is", tag, label, 0)
  IN  Emit(same, "or", l.value, same.value, 0)
CaseTest(l, tag, labels) ==
  FoldLeft(LAMBDA m, label : OrIs(m, tag, label),
           Emit(l, "is", tag, Head(labels), 0), Tail(labels))

\* Each group of cases is an 'if' that leaves the switch when it is done; the
\* last of a switch that names every variant runs without a test.
CaseBody(l, body) == close_scope(lower_block(open_scope(l, FALSE), body))
LeaveSwitch(l, region) ==
  EndRegion(IF ended(l.b) THEN l ELSE Emit(l, "break", region, 0, 0))
lower_cases(l, s, tag, region) ==
  CASE s.cases = <<>> -> l
    [] s.exhaustive /\ s.default = NoBlock /\ Len(s.cases) = 1 ->
         CaseBody(l, s.cases[1].body)
    [] OTHER ->
         LET one == Head(s.cases)
             body == CaseBody(BeginIf(CaseTest(l, tag, one.labels)), one.body)
         IN  lower_cases(LeaveSwitch(body, region), [s EXCEPT !.cases = Tail(@)],
                         tag, region)

\* The subject's temporaries live as long as the switch does.
SwitchOn(l, s) ==
  LET cases == lower_cases(BeginBlock(l), s, l.value, l.b.next)
  IN  close_scope(EndRegion(IF s.default = NoBlock THEN cases
                            ELSE lower_block(cases, s.default)))
lower_switch(l, s) ==
  SwitchOn(Emit(value_of(open_scope(l, FALSE), s.subject), "pick", s.labels, 0, 0),
           s)

Inside(l, broken, continued, breaks) ==
  [l EXCEPT !.loops = Append(@, [broken |-> broken, continued |-> continued,
                                 continue_breaks |-> breaks,
                                 depth |-> Len(l.scopes)])]
Outside(l) == [l EXCEPT !.loops = Front(@)]

\* The body of a loop, and what its 'break' and its 'continue' leave.
LoopBody(l, body, broken, continued, breaks) ==
  EndRegion(Outside(lower_block(Inside(l, broken, continued, breaks), body)))
LoopTest(l, test, always) ==
  IF test.k = always THEN BeginLoop(l)
  ELSE LeaveUnless(Condition(BeginLoop(l), test), l.b.next)

lower_while(l, s) ==
  LoopBody(LoopTest(l, s.test, "true"), s.body, l.b.next, l.b.next, FALSE)

\* What the head declares lives as long as the loop; a 'continue' leaves the
\* block that is the body, and what comes after it goes round.
ForBody(l, s, loop) ==
  EndRegion(Condition(LoopBody(BeginBlock(l), s.body, loop, l.b.next, TRUE),
                      s.increment))
ForLoop(l, s) == close_scope(ForBody(LoopTest(l, s.test, "none"), s, l.b.next))
lower_for(l, s) == ForLoop(lower_statements(open_scope(l, FALSE), s.head), s)

lower_statement(l, s) ==
  CASE s.k = "pass"     -> l
    [] s.k = "scope"    -> lower_block(l, s.body)
    [] s.k = "if"       -> lower_if(l, s)
    [] s.k = "while"    -> lower_while(l, s)
    [] s.k = "for"      -> lower_for(l, s)
    [] s.k = "switch"   -> lower_switch(l, s)
    [] s.k = "let"      -> close_scope(lower_binding(open_scope(l, TRUE), s))
    [] s.k = "ref"      -> close_scope(KeepTemporary(open_scope(l, TRUE), s))
    [] s.k = "return"   -> close_scope(lower_return(open_scope(l, TRUE), s))
    [] s.k = "break"    -> lower_break(l)
    [] s.k = "continue" -> lower_continue(l)
    [] s.k = "do"       -> close_scope(value_of(open_scope(l, TRUE), s.e))

\* A function that gives nothing back may end without saying so; one that
\* gives a struct back has it built by its 'return's, and ends the same way
\* for the IR.
EndOfBody(l) ==
  IF ended(l.b) \/ l.shape = "value" THEN l ELSE Back(l, 0)
lower(shape, body) ==
  EndOfBody(lower_block(
    [begin(shape) EXCEPT !.named_result =
       IF shape = "struct" THEN named_result_of(body) ELSE NoBlock], body))
=============================================================================
