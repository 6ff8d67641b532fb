------------------------------- MODULE Parser -------------------------------
(***************************************************************************)
(* The parser's rules (src/src/haard/parser/parser.cpp), one operator a    *)
(* rule: types, expressions by the cascade of their precedence, and the    *)
(* statements, whose blocks are found by indentation or by braces.         *)
(***************************************************************************)
EXTENDS Naturals, Sequences, SequencesExt

-----------------------------------------------------------------------------
(***************************************************************************)
(* What every rule of the parser is written with: the token it looks at,   *)
(* the line rule, panic mode, and the nodes a rule leaves behind           *)
(* (src/src/haard/parser/parser.cpp, src/src/haard/ast/ast_builder.cpp).   *)
(*                                                                         *)
(* A rule is an operator from the parser's state to the state after it,    *)
(* whose "node" is what the rule read.                                     *)
(***************************************************************************)

NoNode == [kind |-> "none", text |-> <<>>, kids |-> <<>>]

\* add_child skips a child that is not there: an error leaves the node
\* shorter, never with a hole in it.
Node(kind, text, kids) ==
    [kind |-> kind, text |-> text,
     kids |-> SelectSeq(kids, LAMBDA kid : kid # NoNode)]

Reset(tokens) ==
    [tokens |-> tokens, at |-> 1, first |-> 1, panic |-> FALSE,
     brackets |-> 0, levels |-> <<0>>, errors |-> <<>>,
     node |-> NoNode, kids |-> <<>>]

Give(p, node) == [p EXCEPT !.node = node]
Nothing(p) == Give(p, NoNode)

\* A rule's node, over what it had read and what it read last, or over the
\* list it read.
Made(p, kind, before) == Give(p, Node(kind, <<>>, Append(before, p.node)))
MadeOf(p, kind) == Give(p, Node(kind, <<>>, p.kids))

current(p) == p.tokens[p.at]
text_of(p) == current(p).text
at_end(p) == current(p).kind = "eof"

\* A statement lives on one line, and inside a bracket it does not.
on_same_line(p) ==
    \/ p.brackets > 0
    \/ p.at = p.first
    \/ ~current(p).nl

lookahead_anywhere(p, kinds) == ~p.panic /\ current(p).kind \in kinds
lookahead_any(p, kinds) == lookahead_anywhere(p, kinds) /\ on_same_line(p)
lookahead(p, kind) == lookahead_any(p, {kind})

\* Frozen in panic, so that what follows an error looks at the same token.
advance(p) == IF p.panic \/ at_end(p) THEN p ELSE [p EXCEPT !.at = @ + 1]

\* One error a statement: what follows it is its consequence.
error(p) ==
    IF p.panic THEN p
    ELSE [p EXCEPT !.panic = TRUE, !.errors = Append(@, p.at)]
poison(p) == [p EXCEPT !.panic = TRUE]

match(p, kind) == IF lookahead(p, kind) THEN advance(p) ELSE p
expect(p, kind) == IF lookahead(p, kind) THEN advance(p) ELSE error(p)
expect_anywhere(p, kind) ==
    IF lookahead_anywhere(p, {kind}) THEN advance(p) ELSE error(p)

begin_statement(p) == [p EXCEPT !.first = p.at, !.brackets = 0]
open_bracket(p) == [p EXCEPT !.brackets = @ + 1]

close_bracket(p) == [p EXCEPT !.brackets = @ - 1]

glued_to_previous(p) == current(p).glued

indentation_of_current_line(p) == current(p).ws
indent(p, indentation) == [p EXCEPT !.levels = Append(@, indentation)]
dedent(p) == [p EXCEPT !.levels = IF Len(@) > 1 THEN Front(@) ELSE @]

\* (mutant: a line at the header's own level is inside its block)
IndentedOrLevel(p) ==
    ~p.panic /\ ~at_end(p) /\ indentation_of_current_line(p) >= Last(p.levels)

is_indented(p) ==
    /\ ~p.panic
    /\ ~at_end(p)
    /\ indentation_of_current_line(p) > Last(p.levels)

-----------------------------------------------------------------------------
\* The recovery.

\* A braced block ends at its brace, not at the end of a line.
at_block_end(p, braced) ==
    at_end(p) \/ (braced /\ lookahead_anywhere(p, {"}"}))

RECURSIVE RestOfLine(_, _)
RestOfLine(p, braced) ==
    IF at_block_end(p, braced) \/ current(p).nl THEN p
    ELSE RestOfLine(advance(p), braced)

skip_to_next_line(p, braced) ==
    IF at_block_end(p, braced) THEN p ELSE RestOfLine(advance(p), braced)

\* The lines a failed statement opened go down with it.
RECURSIVE SkipDeeper(_, _, _)
SkipDeeper(p, indentation, braced) ==
    IF ~at_block_end(p, braced) /\ indentation_of_current_line(p) > indentation
    THEN SkipDeeper(skip_to_next_line(p, braced), indentation, braced)
    ELSE p

\* (mutant: the line a failed statement stopped at goes down with it)
SwallowsALine(p, indentation, start, braced) ==
    SkipDeeper(skip_to_next_line([p EXCEPT !.panic = FALSE], braced),
               indentation, braced)

\* A statement that failed gives up the rest of its line, and its first
\* token at least; one that stopped at the start of a line leaves that line.
synchronize(p, indentation, start, braced) ==
    LET on == [p EXCEPT !.panic = FALSE]
        past == IF on.at = start \/ ~current(on).nl
                THEN skip_to_next_line(on, braced) ELSE on
    IN  SkipDeeper(past, indentation, braced)

-----------------------------------------------------------------------------

\* The rules that stand inside one another, each reached by its name.
RECURSIVE Rule(_, _, _)
Expression(p) == Rule(p, "expression", 0)
Type(p) == Rule(p, "type", 0)
Pattern(p) == Rule(p, "pattern", 0)
Level(p, level) == Rule(p, "level", level)
Unary(p) == Rule(p, "unary", 0)
Body(p, kind) == Rule(p, "body", kind)
Statement(p) == Rule(p, "statement", 0)
Member(p, type_is_optional) == Rule(p, "member", type_is_optional)

parse_word(p, kind) ==
    IF lookahead(p, "id") THEN advance(Give(p, Node(kind, text_of(p), <<>>)))
    ELSE Nothing(error(p))
parse_identifier(p) == parse_word(p, "identifier")

\* An item of a list, by the rule that reads it.
parse_item(p, rule) ==
    CASE rule = "expression" -> Expression(p)
      [] rule = "type" -> Type(p)
      [] rule = "name" -> parse_identifier(p)
      [] rule = "pattern" -> Pattern(p)

\* item (',' item)*, into "kids"; a list that takes a trailing comma names
\* the token that closes it.
RECURSIVE parse_items(_, _, _, _), ItemsAfter(_, _, _)
ItemsAfter(p, rule, close) ==
    IF p.panic \/ ~lookahead(p, ",") THEN p
    ELSE IF lookahead(advance(p), close) THEN advance(p)
    ELSE parse_items(advance(p), rule, p.kids, close)
parse_items(p, rule, kids, close) ==
    LET item == parse_item(p, rule)
    IN  ItemsAfter([item EXCEPT !.kids = Append(kids, item.node)], rule, close)

NoTrailing == "no trailing comma"

\* kind '(' items ')' for the rules that suspend no line rule.
parse_enclosed(p, kind, rule, open, close) ==
    MadeOf(expect(parse_items(expect(p, open), rule, <<>>, NoTrailing), close),
           kind)

-----------------------------------------------------------------------------
\* Types.

\* One '>' is carved off the front of a '>>' or a '>>>', in the token itself.
expect_generic_close(p) ==
    LET token == current(p)
        rest == [token EXCEPT !.kind = IF @ = ">>" THEN ">" ELSE ">>",
                              !.text = Tail(@)]
    IN  IF lookahead(p, ">") THEN advance(p)
        ELSE IF lookahead_any(p, {">>", ">>>"})
             THEN [p EXCEPT !.tokens[p.at] = rest]
             ELSE error(p)

parse_generic_arguments(p) ==
    LET open == advance(p)
    IN  IF ~lookahead(p, "<") THEN Nothing(p)
        ELSE IF ~glued_to_previous(p) THEN Nothing(error(p))
        ELSE IF ~glued_to_previous(open) THEN Nothing(error(open))
        ELSE MadeOf(expect_generic_close(
                        parse_items(open, "type", <<>>, NoTrailing)),
                    "generic arguments")

\* '::' name, or name ('::' name)?
ScopeAfter(p) ==
    IF lookahead(p, "::")
    THEN Made(parse_identifier(advance(p)), "scope", <<p.node>>) ELSE p
parse_scope(p) ==
    IF lookahead(p, "::") THEN Made(parse_identifier(advance(p)), "scope", <<>>)
    ELSE ScopeAfter(parse_identifier(p))

ArgumentsOf(p) ==
    IF p.node = NoNode THEN p
    ELSE Made(parse_generic_arguments(p), "named type", <<p.node>>)
parse_named_type(p) == ArgumentsOf(parse_scope(p))

\* '*' | '**' | '&' | '&&' | '[' expression? ']', each round wrapping what
\* came before it; '&&' is one reference of its own, '**' is two pointers.
RECURSIVE parse_type_postfix(_)
parse_type_postfix(p) ==
    LET wrapped(kind) == Made(advance(p), kind, <<>>)
        open == advance(p)
        round ==
            CASE lookahead(p, "*") -> wrapped("pointer type")
              [] lookahead(p, "**") ->
                   Made(wrapped("pointer type"), "pointer type", <<>>)
              [] lookahead(p, "&") -> wrapped("reference type")
              [] lookahead(p, "&&") -> wrapped("move reference type")
              [] lookahead(p, "[") ->
                   Made(expect(IF lookahead(open, "]") THEN Nothing(open)
                               ELSE Expression(open), "]"),
                        "array type", <<p.node>>)
    IN  IF p.panic \/ ~lookahead_any(p, {"*", "**", "&", "&&", "["}) THEN p
        ELSE parse_type_postfix(round)

HashValue(p) ==
    Made(expect(Type(expect(p, ":")), "}"), "hash type", <<p.node>>)
parse_hash_type(p) == HashValue(Type(expect(p, "{")))

parse_primary_type(p) ==
    parse_type_postfix(
        CASE lookahead(p, "[") ->
               Made(expect(Type(advance(p)), "]"), "list type", <<>>)
          [] lookahead(p, "{") -> parse_hash_type(p)
          [] lookahead(p, "builtin") ->
               Give(advance(p), Node("builtin type", text_of(p), <<>>))
          [] OTHER -> parse_named_type(p))

parse_tuple_type(p) ==
    IF lookahead(p, "(")
    THEN parse_type_postfix(parse_enclosed(p, "tuple type", "type", "(", ")"))
    ELSE parse_primary_type(p)

\* tuple_type ('->' tuple_type)*: all but the last are parameters.
RECURSIVE parse_arrows(_, _)
parse_arrows(p, kids) ==
    CASE ~p.panic /\ lookahead(p, "->") ->
           parse_arrows(parse_tuple_type(advance(p)), Append(kids, p.node))
      [] kids = <<>> -> p
      [] OTHER -> Made(p, "function type", kids)

parse_type(p) == parse_arrows(parse_tuple_type(p), <<>>)

-----------------------------------------------------------------------------
\* Bindings.

\* ':' type, where it may be left out and where it may not.
parse_binding_type(p) ==
    IF ~lookahead(p, ":") THEN Nothing(p)
    ELSE Made(Type(advance(p)), "binding type", <<>>)
parse_param_type(p) ==
    IF lookahead(p, ":") THEN parse_binding_type(p) ELSE Nothing(error(p))

parse_binding_expression(p) ==
    IF ~lookahead(p, "=") THEN Nothing(p)
    ELSE Made(Expression(advance(p)), "binding expression", <<>>)

\* A name, or a tuple of patterns taken apart.
parse_binding_pattern(p) ==
    IF lookahead(p, "(") THEN parse_enclosed(p, "tuple", "pattern", "(", ")")
    ELSE parse_identifier(p)

\* What follows a binding's target, and what follows its type.
ValueOf(type, kind, target) ==
    Made(parse_binding_expression(type), kind, <<target, type.node>>)
Binding(target, kind) == ValueOf(parse_binding_type(target), kind, target.node)
TypedBinding(target, kind) ==
    ValueOf(parse_param_type(target), kind, target.node)

parse_binding(p, kind) == Binding(Pattern(p), kind)

\* let_declaration and const_declaration
parse_declared(p, word) == parse_binding(expect(p, word), word)

parse_param(p) ==
    TypedBinding(Pattern(expect(begin_statement(p), "@")), "param")

\* A field states its type, and a variant of an enum need not.
parse_field(p, type_is_optional) ==
    IF type_is_optional THEN Binding(parse_identifier(p), "field")
    ELSE TypedBinding(parse_identifier(p), "field")

-----------------------------------------------------------------------------
\* Expressions, from the loosest level to the tightest.

Binary(p, oper, left) == Give(p, Node("binary", oper, <<left, p.node>>))

CastAfter(p) ==
    IF p.panic \/ ~lookahead(p, "as") THEN p
    ELSE Binary(Type(advance(p)), text_of(p), p.node)
parse_cast_expression(p) == CastAfter(Level(p, 1))

Assignments ==
    {"=", "+=", "-=", "*=", "/=", "//=", "%=", "&=", "|=", "^=", "<<=", ">>=",
     ">>>="}

\* Right associative.
AssignmentAfter(p) ==
    IF p.panic \/ ~lookahead_any(p, Assignments) THEN p
    ELSE Binary(Expression(advance(p)), text_of(p), p.node)
parse_assignment_expression(p) == AssignmentAfter(parse_cast_expression(p))
parse_expression(p) == parse_assignment_expression(p)

\* The levels below a cast.  Level 3 is the word 'not' and level 9 the right
\* associative '**'; the bitwise operators bind tighter than the arithmetic.
LevelOperators ==
    <<{"or", "||"}, {"and", "&&"}, {"not"}, {"==", "!="},
      {"<", ">", "<=", ">=", "in"}, {"..", "..."}, {"+", "-"},
      {"*", "/", "//", "%"}, {"**"}, {"|"}, {"^"}, {"&"}, {"<<", ">>", ">>>"}>>

Prefix(p, text) == Give(p, Node("prefix", text, <<p.node>>))

parse_logical_not_expression(p) ==
    IF lookahead(p, "not") THEN Prefix(Level(advance(p), 3), <<"not">>)
    ELSE Level(p, 4)

\* A glued '<' that gets here is glued to what can carry no list of types.
parse_relational_operator(p) ==
    IF lookahead_any(p, {"<", ">"}) /\ glued_to_previous(p) THEN error(p)
    ELSE p

parse_not_in(p) ==
    Made(Level(expect(advance(p), "in"), 6), "not in", <<p.node>>)

\* level := tighter (operator tighter)*, folded from the left.
RECURSIVE parse_chain(_, _)
ChainAfter(p, level) ==
    CASE lookahead_any(p, LevelOperators[level]) ->
           parse_chain(Binary(Level(advance(p), level + 1), text_of(p), p.node),
                       level)
      [] level = 5 /\ lookahead(p, "not") -> parse_chain(parse_not_in(p), level)
      [] OTHER -> p
parse_chain(p, level) ==
    CASE p.panic -> p
      [] level = 5 -> ChainAfter(parse_relational_operator(p), level)
      [] OTHER -> ChainAfter(p, level)

\* A power tower folds from the right.
TowerAfter(p) ==
    IF p.panic \/ ~lookahead(p, "**") THEN p
    ELSE Binary(Level(advance(p), 9), text_of(p), p.node)
parse_power_expression(p) == TowerAfter(Level(p, 10))

parse_level(p, level) ==
    CASE level = 3 -> parse_logical_not_expression(p)
      [] level = 9 -> parse_power_expression(p)
      [] level = 14 -> Unary(p)
      [] OTHER -> parse_chain(Level(p, level + 1), level)

\* The items up to what closes them, and what they are between two brackets.
ItemsUntil(p, close, trailing) ==
    IF lookahead(p, close) THEN [p EXCEPT !.kids = <<>>]
    ELSE parse_items(p, "expression", <<>>, trailing)
parse_bracketed(p, kind, open, close, trailing) ==
    MadeOf(close_bracket(
               expect(ItemsUntil(open_bracket(expect(p, open)), close, trailing),
                      close)),
           kind)

parse_arguments(p) == parse_bracketed(p, "arguments", "(", ")", NoTrailing)

ArgumentsOfNew(p) ==
    Made(IF lookahead(p, "(") THEN parse_arguments(p) ELSE Nothing(p),
         "new", <<p.node>>)
parse_new(p) == ArgumentsOfNew(Type(expect(p, "new")))

\* 'delete x' and 'delete[] x'
DeleteAfter(p) ==
    IF lookahead(p, "[")
    THEN Prefix(Unary(expect(advance(p), "]")), <<"delete", "[", "]">>)
    ELSE Prefix(Unary(p), <<"delete">>)
parse_delete(p) == DeleteAfter(expect(p, "delete"))

parse_sizeof(p) ==
    Made(expect(Type(expect(expect(p, "sizeof"), "(")), ")"), "sizeof", <<>>)

\* 'f<T>' glued carries types; spaced, the '<' is a comparison.
parse_generic_name(p) ==
    IF p.node = NoNode \/ ~lookahead(p, "<") \/ ~glued_to_previous(p) THEN p
    ELSE Made(parse_generic_arguments(p), "generic name", <<p.node>>)

\* '.' name | '->' name | '[' expression ']' | arguments | '++' | '--'
RECURSIVE parse_postfix(_)
Reached(p, to) == Give(to, Node("reach", text_of(p), <<p.node, to.node>>))
parse_postfix(p) ==
    LET round ==
            CASE lookahead_any(p, {".", "->"}) ->
                   Reached(p, parse_generic_name(parse_identifier(advance(p))))
              [] lookahead(p, "[") ->
                   Made(close_bracket(
                            expect(Expression(open_bracket(advance(p))), "]")),
                        "index", <<p.node>>)
              [] lookahead(p, "(") -> Made(parse_arguments(p), "call", <<p.node>>)
              [] lookahead_any(p, {"++", "--"}) ->
                   Give(advance(p), Node("postfix", text_of(p), <<p.node>>))
    IN  IF p.panic \/ ~lookahead_any(p, {".", "->", "[", "(", "++", "--"}) THEN p
        ELSE parse_postfix(round)

-----------------------------------------------------------------------------
\* What stands by itself.

\* '(' expression (',' expression?)* ')': a comma makes it a tuple.
parse_parenthesis_or_tuple(p) ==
    LET open == open_bracket(expect(p, "("))
        items == parse_items(open, "expression", <<>>, ")")
        alone == ~lookahead(Expression(open), ",")
    IN  MadeOf(close_bracket(expect(items, ")")),
               IF alone THEN "parenthesis" ELSE "tuple")

\* (name ':' expression)*, from the first key on.
RECURSIVE parse_hash(_, _), HashAfter(_, _)
HashAfter(p, pairs) ==
    IF lookahead(p, ",") /\ ~lookahead(advance(p), "}")
    THEN parse_hash(parse_identifier(advance(p)), pairs)
    ELSE Give(close_bracket(expect(match(p, ","), "}")), Node("hash", <<>>, pairs))
parse_hash(p, kids) ==
    LET pair == Made(Expression(expect(p, ":")), "hash pair", <<p.node>>)
    IN  HashAfter(pair, Append(kids, pair.node))

\* A name before a ':' opens a hash, and anything else is an array.
OpensAHash(inside, key) ==
    /\ ~lookahead(inside, "}")
    /\ key.node.kind = "identifier"
    /\ lookahead(key, ":")
parse_array_or_hash(p) ==
    LET inside == open_bracket(expect(p, "{"))
        key == Expression(inside)
    IN  IF OpensAHash(inside, key) THEN parse_hash(key, <<>>)
        ELSE parse_bracketed(p, "array", "{", "}", "}")

ClosureParameter(target) ==
    Made(parse_binding_type(target), "closure parameter", <<target.node>>)
parse_closure_parameter(p) == ClosureParameter(Pattern(p))

RECURSIVE parse_closure_parameters(_, _), ClosureParametersAfter(_, _)
ClosureParametersAfter(p, kids) ==
    IF lookahead(p, ",") THEN parse_closure_parameters(advance(p), kids)
    ELSE [p EXCEPT !.kids = kids]
parse_closure_parameters(p, kids) ==
    LET one == parse_closure_parameter(p)
    IN  ClosureParametersAfter(one, Append(kids, one.node))

\* ('||' | '|' parameters? '|') ('->' type)? '{' body '}'
ClosureHeader(p) ==
    CASE lookahead(p, "||") -> [advance(p) EXCEPT !.kids = <<>>]
      [] lookahead(advance(p), "|") -> [advance(advance(p)) EXCEPT !.kids = <<>>]
      [] OTHER -> expect(parse_closure_parameters(expect(p, "|"), <<>>), "|")
ClosureResult(p) ==
    IF lookahead(p, "->")
    THEN Made(Type(advance(p)), "closure return type", <<>>) ELSE Nothing(p)
ClosureBody(p, parameters) ==
    Made(expect_anywhere(MadeOf(Body(expect(p, "{"), "braced"), "block"), "}"),
         "closure", Append(parameters, p.node))
ClosureAfter(p) == ClosureBody(ClosureResult(p), p.kids)
parse_closure(p) == ClosureAfter(ClosureHeader(p))

parse_literal(p) == Give(advance(p), Node("literal", text_of(p), <<>>))

\* A chunk that is empty is text nobody wrote, and leaves no node.
parse_template_string_chunk(p) ==
    Give(advance(p), IF text_of(p) = <<>> THEN NoNode
                     ELSE Node("template chunk", text_of(p), <<>>))
parse_interpolation(p) ==
    Made(expect(Expression(expect(p, "interpolation begin")), "interpolation end"),
         "interpolation", <<>>)

\* begin (chunk | interpolation)* end
RECURSIVE parse_template_parts(_, _)
PartsAfter(p, kids) == parse_template_parts(p, Append(kids, p.node))
parse_template_parts(p, kids) ==
    CASE lookahead(p, "template chunk") ->
           PartsAfter(parse_template_string_chunk(p), kids)
      [] lookahead(p, "interpolation begin") ->
           PartsAfter(parse_interpolation(p), kids)
      [] OTHER -> [p EXCEPT !.kids = kids]
parse_template_string(p) ==
    LET parts == parse_template_parts(expect(p, "template begin"), <<>>)
    IN  Give(expect(parts, "template end"),
             Node("template string", text_of(p), parts.kids))

\* A builtin stands where a callee does only when its '(' follows.
parse_primary_expression(p) ==
    LET leaf(kind) == Give(advance(p), Node(kind, text_of(p), <<>>))
    IN  CASE lookahead(p, "(") -> parse_parenthesis_or_tuple(p)
          [] lookahead(p, "[") -> parse_bracketed(p, "list", "[", "]", "]")
          [] lookahead(p, "{") -> parse_array_or_hash(p)
          [] lookahead_any(p, {"|", "||"}) -> parse_closure(p)
          [] lookahead_any(p, {"this", "super"}) -> leaf("this")
          [] lookahead(p, "builtin") /\ current(advance(p)).kind = "(" ->
               leaf("builtin type")
          [] lookahead(p, "template begin") -> parse_template_string(p)
          [] lookahead(p, "literal") -> parse_literal(p)
          [] lookahead_any(p, {"::", "id"}) -> parse_generic_name(parse_scope(p))
          [] OTHER -> Nothing(error(p))

\* A prefix operator takes what comes after it; a sign is looser than the
\* '**' right after its operand, and '**' in front is two dereferences.
parse_unary_expression(p) ==
    CASE lookahead(p, "new") -> parse_new(p)
      [] lookahead(p, "delete") -> parse_delete(p)
      [] lookahead(p, "sizeof") -> parse_sizeof(p)
      [] lookahead(p, "**") -> Prefix(Prefix(Unary(advance(p)), <<"*">>), <<"*">>)
      [] lookahead_any(p, {"-", "+"}) ->
           Prefix(TowerAfter(Unary(advance(p))), text_of(p))
      [] lookahead_any(p, {"!", "&", "&&", "*", "~", "++", "--"}) ->
           Prefix(Unary(advance(p)), text_of(p))
      [] OTHER -> parse_postfix(parse_primary_expression(p))

-----------------------------------------------------------------------------
\* Blocks.  The header's own indentation is what is pushed, so whatever is
\* deeper is inside; a braced block pushes none and answers to its brace.

inside_block(p, kind) ==
    IF kind # "braced" THEN is_indented(p)
    ELSE ~lookahead_anywhere(p, {"}"}) /\ ~p.panic /\ ~at_end(p)

leftover_on_the_line(p, kind) ==
    /\ ~at_end(p)
    /\ ~(kind = "braced" /\ lookahead_anywhere(p, {"}"}))
    /\ on_same_line(p)

\* (statement | member)+: a statement that trails something is kept and what
\* trails it is not; one that failed takes down the lines it opened.
RECURSIVE parse_lines(_, _, _)
Resume(p, line, braced) ==
    synchronize(p, indentation_of_current_line(line), line.at, braced)
LinesAfter(p, line, kind, kids) ==
    CASE p.panic -> parse_lines(Resume(p, line, kind = "braced"), kind, kids)
      [] leftover_on_the_line(p, kind) ->
           parse_lines(Resume(error(p), line, kind = "braced"), kind,
                       Append(kids, p.node))
      [] OTHER -> parse_lines(p, kind, Append(kids, p.node))
parse_lines(p, kind, kids) ==
    CASE ~inside_block(p, kind) -> [p EXCEPT !.kids = kids]
      [] kind \in {"members", "enum members"} ->
           LinesAfter(Member(begin_statement(p), kind = "enum members"),
                      p, kind, kids)
      [] OTHER -> LinesAfter(Statement(begin_statement(p)), p, kind, kids)

\* 'pass' is the whole block.
parse_pass(p, kind) ==
    LET pass == expect(begin_statement(p), "pass")
        alone == [pass EXCEPT !.kids = <<Node("pass", <<>>, <<>>)>>]
    IN  IF inside_block(alone, kind) THEN error(alone) ELSE alone

\* A block with nothing left in it cannot be kept.  The brackets around a
\* closure go on joining their lines once its block has ended.
Kept(p, brackets) ==
    [IF p.kids = <<>> THEN poison(p) ELSE p EXCEPT !.brackets = brackets]
parse_body(p, kind) ==
    CASE ~inside_block(p, kind) -> Kept([error(p) EXCEPT !.kids = <<>>], p.brackets)
      [] lookahead_anywhere(p, {"pass"}) -> Kept(parse_pass(p, kind), p.brackets)
      [] OTHER -> Kept(parse_lines(p, kind, <<>>), p.brackets)

parse_block(p, indentation) ==
    MadeOf(dedent(Body(indent(p, indentation), "indented")), "block")

-----------------------------------------------------------------------------
\* Statements.

\* expression ':' block, into "kids"
BlockOf(p, indentation, before) ==
    LET block == parse_block(expect(p, ":"), indentation)
    IN  [block EXCEPT !.kids = Append(before, block.node)]
ConditionAfter(p, indentation) == BlockOf(p, indentation, <<p.node>>)
parse_conditional(p, indentation) == ConditionAfter(Expression(p), indentation)

\* An 'elif' and an 'else' deeper than the block that holds the 'if'.
RECURSIVE parse_branches(_, _)
Elif(p) ==
    MadeOf(parse_conditional(expect(p, "elif"), indentation_of_current_line(p)),
           "elif")
Else(p) ==
    MadeOf(BlockOf(expect(p, "else"), indentation_of_current_line(p), <<>>), "else")
Listed(p, kids) == [p EXCEPT !.kids = Append(kids, p.node)]
parse_branches(p, kids) ==
    LET line == begin_statement(p)
        elif == Elif(line)
    IN  CASE lookahead_anywhere(p, {"elif"}) /\ is_indented(p) ->
               parse_branches(elif, Append(kids, elif.node))
          [] lookahead_anywhere(p, {"else"}) /\ is_indented(p) ->
               Listed(Else(line), kids)
          [] OTHER -> [p EXCEPT !.kids = kids]

BranchesAfter(p) == MadeOf(parse_branches(p, p.kids), "if")
parse_if(p) ==
    BranchesAfter(parse_conditional(expect(p, "if"), indentation_of_current_line(p)))

parse_while(p) ==
    MadeOf(parse_conditional(expect(p, "while"), indentation_of_current_line(p)),
           "while")

\* 'case' expression ':' block?: what decides is the line after it.
CaseAfter(p, indentation) ==
    CASE p.panic -> p
      [] indentation_of_current_line(p) > indentation ->
           Made(parse_block(p, indentation), "case", <<p.node>>)
      [] OTHER -> Made(IF leftover_on_the_line(p, "indented") THEN error(p) ELSE p,
                       "case", <<>>)
parse_case(p) ==
    CaseAfter(expect(Expression(expect(begin_statement(p), "case")), ":"),
              indentation_of_current_line(p))

parse_default(p) ==
    MadeOf(BlockOf(expect(begin_statement(p), "default"),
                   indentation_of_current_line(p), <<>>),
           "default")

RECURSIVE parse_cases(_, _), CasesAfter(_, _)
CasesAfter(p, kids) == parse_cases(p, Append(kids, p.node))
parse_cases(p, kids) ==
    CASE is_indented(p) /\ lookahead_anywhere(p, {"case"}) ->
           CasesAfter(parse_case(p), kids)
      [] is_indented(p) /\ lookahead_anywhere(p, {"default"}) ->
           CasesAfter(parse_default(p), kids)
      [] OTHER -> [p EXCEPT !.kids = kids]

\* 'switch' expression ':' (case | default)+
SomeCases(p, subject) ==
    Give(dedent(IF p.kids = <<>> THEN error(p) ELSE p),
         Node("switch", <<>>, <<subject>> \o p.kids))
SwitchAfter(p, indentation) ==
    SomeCases(parse_cases(indent(expect(p, ":"), indentation), <<>>), p.node)
parse_switch(p) ==
    SwitchAfter(Expression(expect(p, "switch")), indentation_of_current_line(p))

\* The condition and the increment of a 'for', each behind its ';' and each
\* written back even when nothing follows it.
parse_for_condition(p) ==
    LET open == advance(p)
    IN  IF ~lookahead(p, ";") THEN Nothing(p)
        ELSE Made(IF lookahead_any(open, {";", ":"}) THEN Nothing(open)
                  ELSE Expression(open), "for condition", <<>>)
parse_for_increment(p) ==
    IF ~lookahead(p, ";") THEN Nothing(p)
    ELSE MadeOf(ItemsUntil(advance(p), ":", NoTrailing), "for increment")

IsIn(node) ==
    node.kind = "not in" \/ (node.kind = "binary" /\ node.text = <<"in">>)

\* Which loop it is shows in the last expression of its head.
ForBlock(p, kind, indentation, before) ==
    Made(parse_block(expect(p, ":"), indentation), kind, Append(before, p.node))
ForIncrement(p, indentation, head) ==
    ForBlock(parse_for_increment(p), "for", indentation, <<head, p.node>>)
ForAfter(p, indentation) ==
    LET head == Node("for head", <<>>, p.kids)
    IN  IF p.kids # <<>> /\ IsIn(Last(p.kids))
        THEN ForBlock(Nothing(p), "for each", indentation, <<head>>)
        ELSE ForIncrement(parse_for_condition(p), indentation, head)
parse_for(p) ==
    ForAfter(ItemsUntil(expect(p, "for"), ";", NoTrailing),
             indentation_of_current_line(p))

\* The value after the word, when the line goes on.
JumpAfter(p) ==
    IF on_same_line(p) /\ ~at_end(p) THEN Expression(p) ELSE Nothing(p)
Jump(p, word) == Give(p, Node("jump", <<word>>, <<p.node>>))
parse_jump(p, word) == Jump(JumpAfter(expect(p, word)), word)

parse_statement(p) ==
    LET word == current(p).kind
    IN  CASE word \in {"let", "const"} -> parse_declared(p, word)
          [] word = "if" -> parse_if(p)
          [] word = "while" -> parse_while(p)
          [] word = "switch" -> parse_switch(p)
          [] word = "for" -> parse_for(p)
          [] word \in {"return", "break", "continue", "yield"} ->
               parse_jump(p, word)
          [] OTHER -> Expression(p)

-----------------------------------------------------------------------------
\* Declarations.

parse_generic_parameters(p) ==
    IF ~lookahead(p, "<") THEN Nothing(p)
    ELSE IF ~glued_to_previous(p) THEN Nothing(error(p))
    ELSE parse_enclosed(p, "generic parameters", "name", "<", ">")

\* 'operator' and what it overloads, written against it.  The name is built
\* and not read off the source, where '[' and ']' are two tokens.
Overloadable ==
    {"=", "+", "-", "**", "*", "//", "/", "%", "==", "!=", "<=", "<", ">=", ">"}
parse_operator_name(p) ==
    LET at == expect(p, "operator")
        open == advance(at)
        named(after, text) ==
            Give(advance(after), Node("identifier", <<"operator">> \o text, <<>>))
    IN  CASE ~glued_to_previous(at) -> Nothing(error(at))
          [] lookahead(at, "[") /\ lookahead(open, "]") -> named(open, <<"[", "]">>)
          [] lookahead(at, "[") -> Nothing(error(open))
          [] lookahead_any(at, Overloadable) -> named(at, text_of(at))
          [] OTHER -> Nothing(error(at))

RECURSIVE parse_params(_, _), ParamsAfter(_, _)
ParamsAfter(p, kids) == parse_params(p, Append(kids, p.node))
parse_params(p, kids) ==
    IF is_indented(p) /\ lookahead_anywhere(p, {"@"})
    THEN ParamsAfter(parse_param(p), kids)
    ELSE [p EXCEPT !.kids = kids]

\* 'def' (name | operator name) generics? ':' type param* block
FunctionBlock(p, indentation, signature) ==
    Made(parse_block(dedent(p), indentation), "function", signature \o p.kids)
FunctionParams(p, indentation, head) ==
    FunctionBlock(parse_params(indent(p, indentation), <<>>), indentation,
                  Append(head, Node("return type", <<>>, <<p.node>>)))
FunctionType(p, indentation, name) ==
    FunctionParams(Type(expect(p, ":")), indentation, <<name, p.node>>)
FunctionAfter(p, indentation) ==
    FunctionType(parse_generic_parameters(p), indentation, p.node)
FunctionName(p) ==
    IF lookahead(p, "operator") THEN parse_operator_name(p) ELSE parse_identifier(p)
parse_function(p) ==
    FunctionAfter(FunctionName(expect_anywhere(p, "def")),
                  indentation_of_current_line(p))

parse_member(p, type_is_optional) ==
    IF lookahead_anywhere(p, {"def"}) THEN parse_function(p)
    ELSE parse_field(p, type_is_optional)

parse_super_type(p) ==
    IF ~lookahead(p, "(") THEN Nothing(p)
    ELSE Made(expect(Type(advance(p)), ")"), "super type", <<>>)

\* word name generics? super? ':' body
TypeBody(p, word, head) ==
    Give(dedent(p),
         Node("type", <<word>>, Append(head, Node("type body", <<>>, p.kids))))
TypeSuper(p, indentation, word, head) ==
    TypeBody(Body(indent(expect(p, ":"), indentation),
                  IF word = "enum" THEN "enum members" ELSE "members"),
             word, Append(head, p.node))
TypeGenerics(p, indentation, word, name) ==
    TypeSuper(parse_super_type(p), indentation, word, <<name, p.node>>)
TypeAfter(p, indentation, word) ==
    TypeGenerics(parse_generic_parameters(p), indentation, word, p.node)
parse_type_declaration(p, word) ==
    TypeAfter(parse_identifier(expect(begin_statement(p), word)),
              indentation_of_current_line(p), word)

\* name ('.' name)* ('.' '*')?, into "kids": nothing of the path follows a '*'.
RECURSIVE parse_import_path(_, _)
parse_import_path_segment(p) == parse_word(p, "import path segment")
PathAfter(p, kids) ==
    CASE ~lookahead(p, ".") -> [p EXCEPT !.kids = kids]
      [] lookahead(advance(p), "*") ->
           [advance(advance(p)) EXCEPT
              !.kids = Append(kids, Node("import all", <<"*">>, <<>>))]
      [] OTHER -> parse_import_path(advance(p), kids)
parse_import_path(p, kids) ==
    LET segment == parse_import_path_segment(p)
    IN  PathAfter(segment, Append(kids, segment.node))

parse_import_alias(p) ==
    IF lookahead(p, "as") THEN parse_word(advance(p), "import alias") ELSE Nothing(p)
ImportAfter(p) == Made(parse_import_alias(p), "import", <<p.node>>)
parse_import(p) ==
    ImportAfter(MadeOf(parse_import_path(expect_anywhere(p, "import"), <<>>),
                       "import path"))

parse_declaration(p) ==
    LET word == current(p).kind
    IN  CASE word = "import" -> parse_import(p)
          [] word \in {"let", "const"} -> parse_declared(p, word)
          [] word = "def" -> parse_function(p)
          [] word \in {"class", "struct", "enum", "union"} ->
               parse_type_declaration(p, word)
          [] OTHER -> error(p)

Rule(p, rule, with) ==
    CASE rule = "expression" -> parse_expression(p)
      [] rule = "type" -> parse_type(p)
      [] rule = "pattern" -> parse_binding_pattern(p)
      [] rule = "level" -> parse_level(p, with)
      [] rule = "unary" -> parse_unary_expression(p)
      [] rule = "body" -> parse_body(p, with)
      [] rule = "statement" -> parse_statement(p)
      [] rule = "member" -> parse_member(p, with)
      [] rule = "declaration" -> parse_declaration(p)

\* declaration*: the other place that recovers.
RECURSIVE parse_module(_, _)
ModuleAfter(p, line, kids) ==
    IF p.panic THEN parse_module(Resume(p, line, FALSE), kids)
    ELSE parse_module(p, Append(kids, p.node))
parse_module(p, kids) ==
    IF at_end(p) THEN Give(p, Node("module", <<>>, kids))
    ELSE ModuleAfter(Rule(begin_statement(p), "declaration", 0), p, kids)

parse(tokens) == parse_module(Reset(tokens), <<>>)
=============================================================================
