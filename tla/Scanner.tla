------------------------------ MODULE Scanner ------------------------------
(***************************************************************************)
(* The scanner: characters to tokens (src/src/haard/scanner/scanner.cpp).  *)
(*                                                                         *)
(* A source is a sequence of marks.  A mark is a sign, one character of an *)
(* operator, a quote or a backslash; a space, a tab or the end of a line;  *)
(* or a word, which stands for the letters or the digits of one name or    *)
(* number.  Two words with nothing between them are one longer word, as    *)
(* two runs of letters are.                                                *)
(* What the parser asks of a token is its kind, the marks it was written   *)
(* with, whether a line ends before it, the indentation of its line and    *)
(* whether it is written against the token before it.                      *)
(*                                                                         *)
(* A string, a char and a symbol are literals like any other for the       *)
(* parser; a template string is a row of tokens with code between them.    *)
(***************************************************************************)
EXTENDS Naturals, Sequences, SequencesExt, FiniteSetsExt, TLC

\* The bits 'ws' has in a token (scanner.cpp:602): seven.
CONSTANT WsBits

BuiltinTypes == {"u8", "i32", "bool", "void"}
Literals == {"1", "2", "true", "null"}
Digits == {"0", "1", "2"}
HexDigits == Digits \union {"a", "b"}
Quotes == {"\"", "'"}
Keywords ==
    {"import", "def", "class", "enum", "struct", "union", "if", "elif",
     "else", "for", "while", "switch", "case", "default", "let", "const",
     "as", "in", "not", "and", "or", "return", "continue", "break", "yield",
     "this", "super", "new", "delete", "sizeof", "pass", "operator"}

\* The operators of the token table that the modelled grammar reads, each
\* with the signs it is written with.
Twice(sign) == <<sign, sign>>
Signs ==
    [o \in {"=", "+", "-", "*", "/", "<", ">", ".", ":", "@", "(", ")", "[",
            "]", "{", "}", ",", ";", "!", "&", "|", "~", "^", "%", "$", "?"}
       |-> <<o>>]
    @@ ("++" :> Twice("+")) @@ ("--" :> Twice("-")) @@ ("**" :> Twice("*"))
    @@ ("//" :> Twice("/")) @@ ("==" :> Twice("=")) @@ ("<<" :> Twice("<"))
    @@ (">>" :> Twice(">")) @@ (".." :> Twice(".")) @@ ("::" :> Twice(":"))
    @@ ("&&" :> Twice("&")) @@ ("||" :> Twice("|"))
    @@ ("->" :> <<"-", ">">>) @@ ("!=" :> <<"!", "=">>)
    @@ ("<=" :> <<"<", "=">>) @@ (">=" :> <<">", "=">>)
    @@ ("+=" :> <<"+", "=">>) @@ ("-=" :> <<"-", "=">>)
    @@ ("*=" :> <<"*", "=">>) @@ ("/=" :> <<"/", "=">>)
    @@ ("%=" :> <<"%", "=">>) @@ ("&=" :> <<"&", "=">>)
    @@ ("|=" :> <<"|", "=">>) @@ ("^=" :> <<"^", "=">>)
    @@ ("//=" :> <<"/", "/", "=">>) @@ ("<<=" :> <<"<", "<", "=">>)
    @@ (">>=" :> <<">", ">", "=">>) @@ (">>>=" :> <<">", ">", ">", "=">>)
    @@ ("..." :> <<".", ".", ".">>) @@ (">>>" :> <<">", ">", ">">>)

OperatorOf == [s \in {Signs[o] : o \in DOMAIN Signs} |->
                 CHOOSE o \in DOMAIN Signs : Signs[o] = s]

Blank == {" ", "\t", "\n"}
Strange == {"stray"}  \* a character that can start no token
IsWord(mark) ==
    /\ mark \notin Blank \union Quotes \union Strange \union {"\\", "#"}
    /\ <<mark>> \notin DOMAIN OperatorOf

\* What get_token_kind answers for the letters of a word.
word_kind(text) ==
    IF Len(text) > 1 THEN "id"
    ELSE CASE text[1] \in Keywords -> text[1]
           [] text[1] \in BuiltinTypes -> "builtin"
           [] text[1] \in Literals -> "literal"
           [] OTHER -> "id"

\* Where the run of these marks that starts at i ends.
RECURSIVE RunEnd(_, _, _)
RunEnd(text, i, marks) ==
    IF i < Len(text) /\ text[i + 1] \in marks
    THEN RunEnd(text, i + 1, marks) ELSE i

At(text, i) == IF i \in 1 .. Len(text) THEN text[i] ELSE "\n"
Letters(text) == {mark \in Range(text) : IsWord(mark)}

\* Where the longest operator that starts at i ends.
LongestOperator(text, i) ==
    i - 1 + Max({n \in 1 .. 4 : /\ i + n - 1 <= Len(text)
                               /\ SubSeq(text, i, i + n - 1)
                                    \in DOMAIN OperatorOf})

\* The last mark of the name, the number or the operator that starts at i, and
\* the token's kind: a number has a fraction only when a digit follows the dot,
\* and a symbol is one only when a name follows the colon.
Lexeme(text, i) ==
    LET word == RunEnd(text, i, Letters(text))
        digits == RunEnd(text, i, Digits)
        operator == LongestOperator(text, i)
    IN  CASE /\ text[i] \in Digits
             /\ At(text, digits + 1) = "." /\ At(text, digits + 2) \in Digits ->
               <<RunEnd(text, digits + 2, Digits), "literal">>
          [] text[i] \in Digits -> <<digits, "literal">>
          [] IsWord(text[i]) -> <<word, word_kind(SubSeq(text, i, word))>>
          [] /\ text[i] = ":" /\ IsWord(At(text, i + 1))
             /\ At(text, i + 1) \notin Digits -> <<word, "literal">>
          [] OTHER -> <<operator, OperatorOf[SubSeq(text, i, operator)]>>

-----------------------------------------------------------------------------
\* The scanner's state: where it is, the line and the line the last token
\* ended on, where that token ended, and the indentation of the line, which
\* grows until a character that is not blank closes it, in a string too.
\* ("opened" is the state at the start of a token, as start_token keeps it.)

Failed(s, error) == [s EXCEPT !.errors = @ \union {error}]

\* One character.
advance_mark(s, mark) ==
    LET on == [s EXCEPT !.at = @ + 1]
    IN  CASE mark = "\n" ->
               [on EXCEPT !.line = @ + 1, !.ws = 0, !.margin = TRUE, !.tab = FALSE]
          [] mark = " " /\ s.margin -> [on EXCEPT !.ws = @ + 1]
          [] mark = "\t" /\ s.margin -> [on EXCEPT !.tab = TRUE]
          [] OTHER -> [on EXCEPT !.margin = FALSE]

\* A run of characters none of which is blank.
advance_to(s, last) == [s EXCEPT !.at = last + 1, !.margin = FALSE]

\* (mutant: the indentation that does not fit is cut without a word)
only_tabs(opened) == IF opened.tab THEN {"tab"} ELSE {}

\* A tab in the indentation, and an indentation that does not fit.
margin_errors(opened) ==
    (IF opened.ws >= 2^WsBits THEN {"too deep"} ELSE {})
    \union (IF opened.tab THEN {"tab"} ELSE {})

\* One token, from where it was opened up to the state that ended it; it keeps
\* the low bits of its indentation whether they are all of it or not.
create_token(opened, s, text, kind) ==
    [s EXCEPT
       !.tokens = Append(@, [kind |-> kind,
                             text |-> SubSeq(text, opened.at, s.at - 1),
                             nl |-> opened.line # opened.ended,
                             ws |-> opened.ws % 2^WsBits,
                             glued |-> opened.at = opened.past]),
       !.errors = @ \union margin_errors(opened),
       !.ended = s.line, !.past = s.at]

-----------------------------------------------------------------------------
\* Strings.

is_interpolation(text, i) == At(text, i) = "$" /\ At(text, i + 1) = "{"

\* One escape, the backslash under the cursor.
get_escape(s, text) ==
    LET escaped == At(text, s.at + 1)
        after == advance_mark(s, "\\")
    IN  CASE escaped = "x" /\ {At(text, s.at + 2), At(text, s.at + 3)}
                                 \subseteq HexDigits ->
               advance_to(s, s.at + 3)
          [] escaped = "x" -> Failed(advance_mark(after, "x"), "escape")
          [] \/ escaped \in Digits \ {"0"}
             \/ escaped = "0" /\ At(text, s.at + 2) \in Digits ->
               Failed(advance_mark(after, escaped), "octal")
          [] s.at = Len(text) -> after
          [] OTHER -> advance_mark(after, escaped)

\* The characters up to the delimiter, or up to a '${' where that opens code.
RECURSIVE Characters(_, _, _, _)
Characters(s, text, delimiter, interpolates) ==
    IF \/ s.at > Len(text) \/ At(text, s.at) = delimiter
       \/ interpolates /\ is_interpolation(text, s.at)
    THEN s
    ELSE Characters(IF text[s.at] = "\\" THEN get_escape(s, text)
                    ELSE advance_mark(s, text[s.at]),
                    text, delimiter, interpolates)

\* A literal between two delimiters, from where it was opened; it is a token
\* even when the second is not there.
get_quoted(opened, s, text) ==
    LET body == Characters(advance_mark(s, text[s.at]), text, text[s.at], FALSE)
    IN  IF At(text, body.at) = text[s.at]
        THEN create_token(opened, advance_to(body, body.at), text, "literal")
        ELSE create_token(opened, Failed(body, "unterminated"), text, "literal")

\* Whether a '${' stands before the closing delimiter.
RECURSIVE is_template_string(_, _, _)
is_template_string(text, i, delimiter) ==
    CASE i > Len(text) \/ At(text, i) = delimiter -> FALSE
      [] text[i] = "\\" -> is_template_string(text, i + 2, delimiter)
      [] is_interpolation(text, i) -> TRUE
      [] OTHER -> is_template_string(text, i + 1, delimiter)

\* One token of so many signs.
Signed(s, text, signs, kind) ==
    create_token(s, advance_to(s, s.at + signs - 1), text, kind)

RECURSIVE get_token(_, _)

\* Code up to the '}' that no '{' in it opened.
RECURSIVE get_interpolation(_, _, _)
get_interpolation(s, text, depth) ==
    CASE s.at > Len(text) -> Failed(s, "unterminated")
      [] text[s.at] = "}" /\ depth = 0 -> Signed(s, text, 1, "interpolation end")
      [] OTHER ->
           get_interpolation(get_token(s, text), text,
                             CASE text[s.at] = "}" -> depth - 1
                               [] text[s.at] = "{" -> depth + 1
                               [] OTHER -> depth)

\* begin chunk ('${' code '}' chunk)* end, each chunk a token though it be empty.
RECURSIVE get_template_chunks(_, _, _)
get_template_chunks(s, text, delimiter) ==
    LET chunk == create_token(s, Characters(s, text, delimiter, TRUE), text,
                              "template chunk")
    IN  CASE is_interpolation(text, chunk.at) ->
               get_template_chunks(
                   get_interpolation(Signed(chunk, text, 2, "interpolation begin"),
                                     text, 0),
                   text, delimiter)
          [] At(text, chunk.at) = delimiter -> Signed(chunk, text, 1, "template end")
          [] OTHER -> Failed(chunk, "unterminated")
get_template_string(s, text) ==
    get_template_chunks(Signed(s, text, 1, "template begin"), text, text[s.at])

get_string(s, text) ==
    IF is_template_string(text, s.at + 1, text[s.at])
    THEN get_template_string(s, text) ELSE get_quoted(s, s, text)

-----------------------------------------------------------------------------
\* A comment goes up to the end of its line, which is left.
RECURSIVE skip_comment(_, _)
skip_comment(s, text) ==
    IF s.at > Len(text) \/ At(text, s.at) = "\n" THEN s
    ELSE skip_comment(advance_mark(s, text[s.at]), text)

get_lexeme(s, text) ==
    LET found == Lexeme(text, s.at)
    IN  create_token(s, advance_to(s, found[1]), text, found[2])

\* The quoted form of a symbol holds what a string does, and never code.
get_token(s, text) ==
    LET mark == text[s.at]
    IN  CASE mark \in Blank -> advance_mark(s, mark)
          [] mark = "#" -> skip_comment(s, text)
          [] mark \in Quotes -> get_string(s, text)
          [] mark = ":" /\ At(text, s.at + 1) \in Quotes ->
               get_quoted(s, advance_mark(s, ":"), text)
          [] mark \in Strange \union {"\\"} -> Failed(advance_mark(s, mark), "invalid")
          [] OTHER -> get_lexeme(s, text)

RECURSIVE ScanFrom(_, _)
ScanFrom(s, text) ==
    IF s.at > Len(text) THEN s ELSE ScanFrom(get_token(s, text), text)

\* The end of the file has no indentation, which closes every open block.
create_eof_token(s) ==
    Append(s.tokens, [kind |-> "eof", text |-> <<>>, nl |-> s.line # s.ended,
                      ws |-> 0, glued |-> FALSE])

\* No line is the line that a token before the first one ended on.
reset == [at |-> 1, line |-> 1, ws |-> 0, margin |-> TRUE, tab |-> FALSE,
          ended |-> 0, past |-> 0, tokens |-> <<>>, errors |-> {}]

get_tokens(text) ==
    LET s == ScanFrom(reset, text)
    IN  [tokens |-> create_eof_token(s), errors |-> s.errors]
=============================================================================
