------------------------------- MODULE Syntax -------------------------------
(***************************************************************************)
(* A source read, written back by the pretty printer and read again.       *)
(*                                                                         *)
(* A program is a header line and units, each a sequence of lines; a line  *)
(* is an indentation, the marks on it, the name it is told by and whether  *)
(* it opens a block.                                                       *)
(***************************************************************************)
EXTENDS Scanner, Parser

-----------------------------------------------------------------------------
(***************************************************************************)
(* The pretty printer (src/src/haard/pretty_printer/pretty_printer.cpp): a *)
(* walk over the tree that writes marks, as the scanner reads them.  It    *)
(* never asks what binds tighter than what, since the brackets the source  *)
(* had are nodes; it asks only whether two operators in a row would be     *)
(* read back as one.                                                       *)
(*                                                                         *)
(* "out" is what was written; the printer's state besides it is the level. *)
(***************************************************************************)

would_paste(first, second) == first = second /\ first \in {"-", "+", "&"}

print_string(out, marks) ==
    LET pasted == /\ out # <<>> /\ marks # <<>>
                  /\ would_paste(Last(out), Head(marks))
    IN  out \o (IF pasted THEN <<" ">> ELSE <<>>) \o marks

Spaces(n) == [i \in 1 .. n |-> " "]
print_new_line(out, level) == out \o <<"\n">> \o Spaces(4 * level)

RECURSIVE print_node(_, _, _)

RECURSIVE print_children_joined(_, _, _, _)
print_children_joined(out, kids, separator, level) ==
    IF kids = <<>> THEN out
    ELSE LET first == print_node(out, Head(kids), level)
             next == IF Len(kids) = 1 THEN first
                     ELSE print_string(first, separator)
         IN  print_children_joined(next, Tail(kids), separator, level)

\* Each on a line of its own, at this level.
RECURSIVE print_lines(_, _, _)
print_lines(out, kids, level) ==
    IF kids = <<>> THEN out
    ELSE print_lines(print_node(print_new_line(out, level), Head(kids), level),
                     Tail(kids), level)

Comma == <<",", " ">>

\* How the children of a node are written when nothing else depends on
\* them: what stands before them, between them and after them.
DeclarationParts ==
    ("module" :> <<<<>>, <<"\n">>, <<>>>>)
    @@ ("import" :> <<<<"import", " ">>, <<>>, <<>>>>)
    @@ ("import path" :> <<<<>>, <<".">>, <<>>>>)
    @@ ("let" :> <<<<"let", " ">>, <<>>, <<>>>>)
    @@ ("const" :> <<<<"const", " ">>, <<>>, <<>>>>)
    @@ ("field" :> <<<<>>, <<>>, <<>>>>)
    @@ ("super type" :> <<<<"(">>, <<>>, <<")">>>>)
    @@ ("generic parameters" :> <<<<"<">>, Comma, <<">">>>>)
    @@ ("return type" :> <<<<" ", ":", " ">>, <<>>, <<>>>>)
StatementParts ==
    ("for head" :> <<<<>>, Comma, <<>>>>)
    @@ ("for condition" :> <<<<";", " ">>, <<>>, <<>>>>)
    @@ ("for increment" :> <<<<";", " ">>, Comma, <<>>>>)
BindingParts ==
    ("param" :> <<<<"@">>, <<>>, <<>>>>)
    @@ ("binding type" :> <<<<" ", ":", " ">>, <<>>, <<>>>>)
    @@ ("binding expression" :> <<<<" ", "=", " ">>, <<>>, <<>>>>)
OperandParts ==
    ("parenthesis" :> <<<<"(">>, <<>>, <<")">>>>)
    @@ ("arguments" :> <<<<"(">>, Comma, <<")">>>>)
    @@ ("list" :> <<<<"[">>, Comma, <<"]">>>>)
    @@ ("array" :> <<<<"{">>, Comma, <<"}">>>>)
    @@ ("hash" :> <<<<"{">>, Comma, <<"}">>>>)
    @@ ("hash pair" :> <<<<>>, <<":", " ">>, <<>>>>)
    @@ ("call" :> <<<<>>, <<>>, <<>>>>)
    @@ ("generic name" :> <<<<>>, <<>>, <<>>>>)
    @@ ("sizeof" :> <<<<"sizeof", "(">>, <<>>, <<")">>>>)
    @@ ("new" :> <<<<"new", " ">>, <<>>, <<>>>>)
    @@ ("closure parameter" :> <<<<>>, <<>>, <<>>>>)
    @@ ("closure return type" :> <<<<" ", "-", ">", " ">>, <<>>, <<>>>>)
TypeParts ==
    ("named type" :> <<<<>>, <<>>, <<>>>>)
    @@ ("generic arguments" :> <<<<"<">>, Comma, <<">">>>>)
    @@ ("pointer type" :> <<<<>>, <<>>, <<"*">>>>)
    @@ ("reference type" :> <<<<>>, <<>>, <<"&">>>>)
    @@ ("move reference type" :> <<<<>>, <<>>, <<"&", "&">>>>)
    @@ ("list type" :> <<<<"[">>, <<>>, <<"]">>>>)
    @@ ("hash type" :> <<<<"{">>, <<":", " ">>, <<"}">>>>)
    @@ ("tuple type" :> <<<<"(">>, Comma, <<")">>>>)
    @@ ("function type" :> <<<<>>, <<" ", "-", ">", " ">>, <<>>>>)
Parts == DeclarationParts @@ StatementParts @@ BindingParts @@ OperandParts
         @@ TypeParts

\* An operator is written as it was read, with spaces around all but a range
\* and after a word.
OperatorKinds == {"binary", "not in", "prefix", "postfix"}
AroundOperator(node) ==
    CASE node.kind = "binary" /\ node.text \in {<<".", ".">>, <<".", ".", ".">>} ->
           <<<<>>, node.text, <<>>>>
      [] node.kind = "binary" -> <<<<>>, <<" ">> \o node.text \o <<" ">>, <<>>>>
      [] node.kind = "not in" -> <<<<>>, <<" ", "not", " ", "in", " ">>, <<>>>>
      [] node.kind = "postfix" -> <<<<>>, <<>>, node.text>>
      [] node.kind = "prefix" /\ Head(node.text) \in {"not", "delete"} ->
           <<node.text \o <<" ">>, <<>>, <<>>>>
      [] OTHER -> <<node.text, <<>>, <<>>>>

\* A template string ends with the quote it began with.
AroundTemplate(node) ==
    IF node.kind = "interpolation" THEN <<<<"$", "{">>, <<>>, <<"}">>>>
    ELSE <<node.text, <<>>, node.text>>

\* What is written with the node's own token.
AroundToken(node) ==
    CASE node.kind = "reach" -> <<<<>>, node.text, <<>>>>
      [] node.kind = "jump" /\ node.kids # <<>> ->
           <<node.text \o <<" ">>, <<>>, <<>>>>
      [] node.kind = "import alias" ->
           <<<<" ", "as", " ">> \o node.text, <<>>, <<>>>>
      [] OTHER -> <<node.text, <<>>, <<>>>>

Around(node) ==
    CASE node.kind \in DOMAIN Parts -> Parts[node.kind]
      [] node.kind \in OperatorKinds -> AroundOperator(node)
      [] node.kind \in {"template string", "interpolation"} -> AroundTemplate(node)
      [] OTHER -> AroundToken(node)

\* '::name' has one child, and 'alias::name' two.
print_scope(out, kids, level) ==
    IF Len(kids) = 1 THEN print_node(print_string(out, <<":", ":">>), kids[1], level)
    ELSE print_children_joined(out, kids, <<":", ":">>, level)

\* The target and then the subscript: an index, and an array type.
print_subscript(out, kids, level) ==
    LET open == print_string(print_node(out, kids[1], level), <<"[">>)
    IN  print_string(print_children_joined(open, Tail(kids), <<>>, level), <<"]">>)

print_tuple(out, kids, level) ==
    LET items == print_children_joined(print_string(out, <<"(">>), kids, Comma,
                                       level)
    IN  print_string(items, IF Len(kids) = 1 THEN <<",", ")">> ELSE <<")">>)

\* The children in order, the ':' written when the walk reaches the block and
\* the branches on lines of their own.
RECURSIVE print_conditional(_, _, _)
print_conditional(out, kids, level) ==
    IF kids = <<>> THEN out
    ELSE LET kid == Head(kids)
             before == CASE kid.kind = "block" -> print_string(out, <<":">>)
                         [] kid.kind \in {"elif", "else"} ->
                              print_new_line(out, level)
                         [] OTHER -> out
         IN  print_conditional(print_node(before, kid, level), Tail(kids), level)

print_switch(out, kids, level) ==
    LET header == print_node(print_string(out, <<"switch", " ">>), kids[1], level)
    IN  print_lines(print_string(header, <<":">>), Tail(kids), level + 1)

print_case(out, kids, level) ==
    LET pattern == print_node(print_string(out, <<"case", " ">>), kids[1], level)
    IN  print_children_joined(print_string(pattern, <<":">>), Tail(kids), <<>>,
                              level)

\* A parameter is a line of its own, one level in.
RECURSIVE print_function(_, _, _)
print_function(out, kids, level) ==
    IF kids = <<>> THEN out
    ELSE print_function(
             IF Head(kids).kind = "param"
             THEN print_node(print_new_line(out, level + 1), Head(kids), level + 1)
             ELSE print_node(out, Head(kids), level),
             Tail(kids), level)

RECURSIVE print_type_declaration(_, _, _)
print_type_declaration(out, kids, level) ==
    IF kids = <<>> THEN out
    ELSE print_type_declaration(
             print_node(IF Head(kids).kind = "type body"
                        THEN print_string(out, <<":">>) ELSE out,
                        Head(kids), level),
             Tail(kids), level)

\* The body one statement a line whatever the source did.
print_closure(out, kids, level) ==
    LET parameters == SelectSeq(kids, LAMBDA kid : kid.kind = "closure parameter")
        type == SelectSeq(kids, LAMBDA kid : kid.kind = "closure return type")
        header == print_string(print_children_joined(print_string(out, <<"|">>),
                                   parameters, Comma, level), <<"|">>)
        open == print_string(print_children_joined(header, type, <<>>, level),
                             <<" ", "{">>)
    IN  print_string(print_new_line(print_node(open, Last(kids), level), level),
                     <<"}">>)

\* The kinds that are laid out by what their children are: of a declaration,
\* of a statement and of an expression.
DeclarationKinds == {"function", "type", "block", "type body", "pass"}
print_declaration(out, node, level) ==
    CASE node.kind = "function" ->
           print_function(print_string(out, <<"def", " ">>), node.kids, level)
      [] node.kind = "type" ->
           print_type_declaration(print_string(out, node.text \o <<" ">>),
                                  node.kids, level)
      [] node.kind \in {"block", "type body"} ->
           print_lines(out, node.kids, level + 1)
      [] node.kind = "pass" -> print_string(out, <<"pass">>)

StatementKinds ==
    {"if", "elif", "else", "while", "switch", "case", "default", "for", "for each"}
print_statement(out, node, level) ==
    CASE node.kind = "switch" -> print_switch(out, node.kids, level)
      [] node.kind = "case" -> print_case(out, node.kids, level)
      [] node.kind \in {"else", "default"} ->
           print_conditional(print_string(out, <<node.kind>>), node.kids, level)
      [] node.kind \in {"for", "for each"} ->
           print_conditional(print_string(out, <<"for", " ">>), node.kids, level)
      [] OTHER ->
           print_conditional(print_string(out, <<node.kind, " ">>), node.kids, level)

OperandKinds == {"scope", "index", "array type", "tuple", "closure"}
print_operand(out, node, level) ==
    CASE node.kind = "scope" -> print_scope(out, node.kids, level)
      [] node.kind \in {"index", "array type"} ->
           print_subscript(out, node.kids, level)
      [] node.kind = "tuple" -> print_tuple(out, node.kids, level)
      [] node.kind = "closure" -> print_closure(out, node.kids, level)

print_node(out, node, level) ==
    LET around == Around(node)
    IN  CASE node.kind \in DeclarationKinds -> print_declaration(out, node, level)
          [] node.kind \in StatementKinds -> print_statement(out, node, level)
          [] node.kind \in OperandKinds -> print_operand(out, node, level)
          [] OTHER ->
               print_string(print_children_joined(print_string(out, around[1]),
                                node.kids, around[2], level), around[3])

print(tree) == Append(print_node(<<>>, tree, 0), "\n")

-----------------------------------------------------------------------------

\* Families of programs, each a set under a name.
CONSTANT Programs

VARIABLES program, stage, tokens, faults, read, printed, again
vars == <<program, stage, tokens, faults, read, printed, again>>

TextOf(lines) ==
    FlattenSeq([i \in DOMAIN lines |->
                  Spaces(lines[i].ws) \o Append(lines[i].marks, "\n")])

Lines(prog) == <<prog.header>> \o FlattenSeq(prog.units)

\* What a parse leaves.
Reading(parsed) ==
    [errors |-> Len(parsed.errors), levels |-> parsed.levels,
     tree |-> parsed.node]
Unread == [errors |-> 0, levels |-> <<0>>, tree |-> NoNode]
IsClean(reading) == faults = {} /\ reading.errors = 0

Init ==
    /\ \E family \in DOMAIN Programs : program \in Programs[family]
    /\ stage = "written"
    /\ tokens = <<>> /\ faults = {}
    /\ read = Unread /\ printed = <<>> /\ again = Unread

Scan(text) ==
    LET scanned == get_tokens(text)
    IN  tokens' = scanned.tokens /\ faults' = scanned.errors

ScanIt ==
    /\ stage = "written"
    /\ stage' = "scanned"
    /\ Scan(TextOf(Lines(program)))
    /\ UNCHANGED <<program, read, printed, again>>

\* Only what scans is parsed.
ParseIt ==
    /\ stage = "scanned" /\ faults = {}
    /\ stage' = "read"
    /\ read' = Reading(parse(tokens))
    /\ UNCHANGED <<program, tokens, faults, printed, again>>

\* Whatever the recovery kept can be printed.
WriteBack ==
    /\ stage = "read"
    /\ stage' = "printed"
    /\ printed' = print(read.tree)
    /\ UNCHANGED <<program, tokens, faults, read, again>>

ScanAgain ==
    /\ stage = "printed"
    /\ stage' = "scanned again"
    /\ Scan(printed)
    /\ UNCHANGED <<program, read, printed, again>>

ParseAgain ==
    /\ stage = "scanned again" /\ faults = {}
    /\ stage' = "again"
    /\ again' = Reading(parse(tokens))
    /\ UNCHANGED <<program, tokens, faults, read, printed>>

Next == ScanIt \/ ParseIt \/ WriteBack \/ ScanAgain \/ ParseAgain
Spec == Init /\ [][Next]_vars

-----------------------------------------------------------------------------
\* What the printer writes is read back as the tree it was written from, of a
\* source with errors too, whose recovery keeps a program that reads without
\* one (tests/parser/README.md:46-59); or the scanner says that the printed
\* indentation is too deep to be read.
PrintsBack ==
    /\ stage = "scanned again" => faults \subseteq {"too deep"}
    /\ stage = "again" => IsClean(again) /\ again.tree = read.tree

\* "The scanner does not set 'newline_before' inside a template, because the
\* chunk before a token is what consumed the newline" (parser.cpp:1174).
WithinTemplate(i) ==
    LET before(kind) == Cardinality({j \in 1 .. i - 1 : tokens[j].kind = kind})
    IN  before("template begin") > before("template end")
TemplateIsOneLine ==
    stage = "scanned" /\ faults = {} =>
        \A i \in DOMAIN tokens : WithinTemplate(i) => ~tokens[i].nl

\* The statements of the one function a program is, as they were kept.
Statements(tree) ==
    IF tree.kids = <<>> THEN <<>> ELSE Last(tree.kids[1].kids).kids

\* A statement that fails costs the file itself and no other: what is kept of
\* a body is what is kept of each of its units read alone, in their order,
\* and every failure is reported once (parse_body, synchronize).
KeepsTheOthers ==
    stage = "read" /\ Len(program.units) > 1 =>
        LET alone(unit) ==
                Reading(parse(get_tokens(TextOf(<<program.header>>
                                                \o unit)).tokens))
            each == [i \in DOMAIN program.units |-> alone(program.units[i])]
        IN  /\ Statements(read.tree) =
                 FlattenSeq([i \in DOMAIN each |-> Statements(each[i].tree)])
            /\ read.errors = FoldLeft(LAMBDA n, one : n + one.errors, 0, each)
            /\ read.levels = <<0>>

\* The block a line is in is that of the nearest header before it that every
\* line since is deeper than.
HeaderOf(lines, i) ==
    LET around == {j \in 1 .. i - 1 :
                     lines[j].opens /\ \A k \in j + 1 .. i : lines[k].ws > lines[j].ws}
    IN  IF around = {} THEN <<>> ELSE lines[Max(around)].name

\* Which name stands in the block under which, in the tree.
NameOf(node) == IF node.kids = <<>> THEN node.text ELSE node.kids[1].text
RECURSIVE Nesting(_, _)
Nesting(node, under) ==
    LET body == IF node.kind = "module" THEN node.kids
                ELSE IF node.kids = <<>> THEN <<>> ELSE Last(node.kids).kids
        name == IF node.kind = "module" THEN <<>> ELSE NameOf(node)
    IN  (IF node.kind = "module" THEN {} ELSE {<<under, name>>})
        \union UNION {Nesting(kid, name) : kid \in Range(body)}

\* Every line stands in the tree under the line its indentation puts it
\* under, whether or not it is level with the lines beside it (parse_block,
\* is_indented).  The lines of such a program carry a name each.
BlocksFollowIndentation ==
    stage = "read" /\ IsClean(read) /\ program.layout =>
        LET lines == Lines(program)
        IN  Nesting(read.tree, <<>>)
              = {<<HeaderOf(lines, i), lines[i].name>> : i \in DOMAIN lines}
=============================================================================
