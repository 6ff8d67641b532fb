------------------------------ MODULE MCSyntax ------------------------------
(***************************************************************************)
(* The sources that are read, printed and read again: short lines over      *)
(* sets of marks, layouts of a few lines, bodies with lines that fail, and *)
(* the forms of each statement.                                            *)
(***************************************************************************)
EXTENDS Syntax

Line(ws, marks) ==
    [ws |-> ws, marks |-> marks, name |-> <<>>, opens |-> FALSE]
Plainly(ws, name) ==
    [ws |-> ws, marks |-> <<name>>, name |-> <<name>>, opens |-> FALSE]
Opening(ws, before, name, after) ==
    [ws |-> ws, marks |-> before \o <<name>> \o after, name |-> <<name>>,
     opens |-> TRUE]

\* Words and operators with a space after each; an operator is its signs.
SignsOf(word) == IF word \in DOMAIN Signs THEN Signs[word] ELSE <<word>>
Words(words) ==
    FoldLeft(LAMBDA marks, word : marks \o Append(SignsOf(word), " "), <<>>, words)

Header == Opening(0, <<"def", " ">>, "f", <<" ", ":", " ", "void">>)
Of(units, layout) == [header |-> Header, units |-> units, layout |-> layout]
Single(marks) == Of(<<<<Line(1, marks)>>>>, FALSE)

\* Statements of one line: what can stand beside what, spaced and glued.
Glued(n, words) == {Single(marks) : marks \in [1 .. n -> words]}
Spaced(n, words) == {Single(Words(marks)) : marks \in [1 .. n -> words]}
Typed(n, words) ==
    {Single(<<"let", " ", "x", " ", ":", " ">> \o marks) : marks \in [1 .. n -> words]}
Called(n, words) ==
    {Single(<<"g", "(">> \o marks \o <<")">>) : marks \in [1 .. n -> words]}

\* Strings: of pieces that may end them early, of pieces that hold code and of
\* pieces that end a line, the last before a statement that is read alone.
String(n, pieces) ==
    {<<"\"">> \o Append(FlattenSeq(held), "\"") : held \in [1 .. n -> pieces]}
Opened == <<"$", "{">>
Quoted(n, pieces) == {Single(marks) : marks \in String(n, pieces)}
OverLines(n, pieces) ==
    {Of(<<<<Line(1, <<"g", "(">> \o marks \o <<")">>)>>, <<Line(1, <<"a">>)>>,
          <<Line(1, marks \o <<" ", "b">>)>>>>, FALSE) : marks \in String(n, pieces)}

\* Blocks by their indentation.
LayoutLine(i, name) ==
    {Opening(ws, <<"if", " ">>, name, <<":">>) : ws \in 0 .. 3}
    \union {Plainly(ws, name) : ws \in 0 .. 3}
Layouts ==
    {Of(<<<<a, b, c>>>>, TRUE) :
       a \in LayoutLine(1, "g"), b \in LayoutLine(2, "h"), c \in LayoutLine(3, "x")}

\* Bodies whose lines fail, between bodies that do not.
Simple(words) == <<Line(1, Words(words))>>
Holding(words, inside) == Simple(words) \o <<Line(2, Words(inside))>>
Sound ==
    {Simple(<<"a">>), Simple(<<"let", "x", "=", "b">>),
     Holding(<<"if", "a", ":">>, <<"b">>),
     Simple(<<"if", "a", ":">>) \o <<Line(0, <<"#", "x">>), Line(2, <<"b">>)>>,
     Holding(<<"g", "(">>, <<"a", ")">>)}
Failing ==
    {Simple(<<"a", "b">>), Simple(<<"a", "+">>), Simple(<<")">>),
     Simple(<<"g", "(", "a", "b", ")">>), Simple(<<"if", "a", ":">>),
     Holding(<<"if", "a">>, <<"b">>), Holding(<<"a", "b">>, <<"a">>),
     Holding(<<"switch", "a", ":">>, <<"b">>),
     Holding(<<"g", "(", "|", "x", "|", "{">>, <<"a", "b">>)
       \o <<Line(2, <<"a">>), Line(1, Words(<<"}", ")">>))>>}
Bodies ==
    {Of(<<a, b, c>>, FALSE) :
       a \in Failing, b \in Sound \union Failing, c \in Sound}

Members ==
    {Simple(<<"x", ":", "i32">>), Simple(<<"x">>), Simple(<<"def", ":", "void">>),
     Holding(<<"def", "g", ":", "void">>, <<"a">>),
     Holding(<<"def", "g", ":", "void">>, <<"a", "b">>),
     Holding(<<"def", "g", ":", "void">>, <<"@", "x">>)}
Class == Opening(0, <<"class", " ">>, "A", <<":">>)
Classes ==
    {[header |-> Class, units |-> <<a, b, c>>, layout |-> FALSE] :
       a \in Members, b \in Members, c \in Members}

\* Every form of a statement and of a declaration, once.
Lines3(a, b, c) == a \o <<Line(1, Words(b)), Line(2, Words(c))>>
Forms ==
    {Of(<<unit>>, FALSE) : unit \in
      {Lines3(Lines3(Holding(<<"if", "a", ":">>, <<"b">>),
                     <<"elif", "b", ":">>, <<"pass">>), <<"else", ":">>, <<"a">>),
       Holding(<<"while", "not", "a", ":">>, <<"break">>),
       Holding(<<"for", "a", ",", "b", "in", "x", ":">>, <<"continue">>),
       Holding(<<"for", "a", "=", "1", ";", ";", "a", "++", ",", "b", ":">>, <<"a">>),
       Holding(<<"for", ";", "a", ";", ":">>, <<"return", "a">>),
       Holding(<<"switch", "a", ":">>, <<"case", "b", ":">>)
         \o <<Line(2, Words(<<"case", "g", "(", "x", ")", ":">>)),
              Line(3, <<"yield">>), Line(2, Words(<<"default", ":">>)),
              Line(3, <<"pass">>)>>,
       Simple(<<"@", "x", ":", "i32", "=", "1">>)
         \o <<Line(1, Words(<<"@", "(", "a", ",", "b", ")", ":", "A", "&&">>)),
              Line(1, <<"return">>)>>,
       Simple(<<"const", "x", ":", "{", "i32", ":", "[", "A", "]", "}", "=",
                "{", "a", ":", "1", ",", "b", ":", "{", "}", ",", "}">>),
       Simple(<<"let", "(", "a", ",", "(", "b", ",", "x", ")", ")", "=", "a">>),
       Simple(<<"let", "x", ":", "(", "i32", ")", "->", "A", "[", "2", "]", "**">>),
       Simple(<<"a", "=", "b", "+=", "(", "x", "as", "A", "*", ")">>),
       Simple(<<"a", ".", "b", "->", "x", "[", "1", "]", "(", "2", ",", "a", ")", "--">>),
       Simple(<<"a", "<", "b", "not", "in", "[", "1", ",", "2", ",", "]">>),
       Simple(<<"-", "a", "**", "-", "b", "**", "2", "<<", "1", "//", "a">>),
       Simple(<<"delete", "[", "]", "x", "..", "sizeof", "(", "A", ")">>),
       Simple(<<"x", "=", "|", "a", ":", "i32", ",", "b", "|", "->", "A", "{",
                "if", "a", ":", "}">>),
       Simple(<<"x", "=", "|", "a", "|", "->", "A", "{">>)
         \o <<Line(3, Words(<<"if", "a", ":">>)), Line(4, <<"b">>),
              Line(1, <<"}">>)>>,
       Simple(<<"::", "a", "+", "A", "::", "b", "==", "this", "..", "super">>),
       Simple(<<"i32", "(", "a", ")", "!=", "true", "or", "::", "a">>),
       Simple(<<"a", "=", "b", "*=", "x", "/=", "a", "//=", "1", "%", "2">>),
       Simple(<<"a", "%=", "b", "&=", "x", "|=", "a", "^=", "1">>),
       Simple(<<"a", "<<=", "b", ">>=", "x", ">>>=", "1">>),
       <<Line(1, <<"x", "=", ":", "'", "a", " ", "\\", "'", "b", "'">>)>>,
       <<Line(1, <<"\"", "\\", "x", "2", "a", "$", "{", "|", "a", "|", "{", "a", "}",
                   "}", "\"">>)>>,
       <<Line(1, <<"'", "$", "{", "{", "a", ":", "'", "b", "'", "}", ".", "b", "}",
                   "a", "'", " ", "+", " ", "\"", "'", "\"">>)>>}}
Types ==
    {[header |-> Opening(0, <<word, " ">>, "A", <<"<", "x", ">", "(", "b", ")", ":">>),
      units |-> <<Simple(<<"a", ":", "x", "=", "1">>),
                  IF word = "enum" THEN Simple(<<"b">>)
                  ELSE Holding(<<"def", "g", ":", "x">>, <<"pass">>)>>,
      layout |-> FALSE] : word \in {"class", "struct", "enum", "union"}}

\* Operator names, whole and broken, and what a module imports.
Named(marks) ==
    [header |-> Class,
     units |-> <<<<Line(1, <<"def", " ", "operator">> \o marks
                           \o <<" ", ":", " ", "void">>),
                   Line(2, <<"pass">>)>>>>,
     layout |-> FALSE]
Overloads(n, words) == {Named(marks) : marks \in [1 .. n -> words]}
Imports(n, words) ==
    {[header |-> Line(0, <<"import", " ">> \o Words(path)),
      units |-> <<<<Line(0, <<"let", " ", "x">>)>>>>, layout |-> FALSE] :
       path \in [1 .. n -> words]}

\* A block deeper than the columns a token can count.
Deep(n) ==
    Of(<<[i \in 1 .. n + 1 |-> IF i > n THEN Line(i, <<"a">>)
                               ELSE Line(i, Words(<<"if", "a", ":">>))]>>, FALSE)

MCPrograms ==
    [signs |-> Spaced(5, {"a", "-", "&", "*"}),
     glued_signs |-> Glued(5, {"a", "-", "&", "*"}),
     doubled |-> Spaced(4, {"a", "+", "++", "**", "|"}),
     brackets |-> Glued(5, {"a", "(", ")", ","}),
     words |-> Spaced(5, {"a", "not", "in", "and"}),
     numbers |-> Glued(5, {"1", "a", "."}),
     allocations |-> Spaced(4, {"new", "A", "(", ")", "[", "]"}),
     types |-> Typed(4, {"i32", "A", "*", "&"}),
     generics |-> Typed(7, {"A", "<", ">"}),
     strings |-> Quoted(5, {<<"a">>, Opened, <<"}">>, <<"\"">>, <<"\\">>}),
     code |-> Quoted(6, {<<"-">>, Opened, <<"}">>, <<"{">>}),
     escapes |-> Quoted(4, {<<"\\">>, <<"x">>, <<"0">>, <<"b">>, <<"\t">>}),
     symbols |-> Glued(5, {":", "'", "a", "\\"}),
     spanning |-> OverLines(4, {<<"a">>, Opened, <<"}">>, <<"\n", " ">>}),
     operators |-> Overloads(3, {"[", "]", "=", "*", "<", " "}),
     imports |-> Imports(5, {"a", ".", "*", "as"}),
     comments |-> Glued(4, {"a", "#", " ", "stray"}),
     closures |-> Called(5, {"a", "|", "{", "}"}),
     layouts |-> Layouts,
     bodies |-> Bodies, classes |-> Classes,
     forms |-> Forms, declared |-> Types, deep |-> {Deep(2), Deep(3), Deep(5)}]

\* A pattern of one name, and a template string whose code is over two lines.
Disputed ==
    [patterns |-> {Single(Words(<<"let", "(", "a", ")", "=", "b">>)),
                   Single(Words(<<"let", "(", "a", ",", "b", ")", "=", "b">>))},
     templates |-> {Single(<<"\"", "a", "\n", "$", "{", "a", "}", "\"">>),
                    Single(<<"\"", "a", "$", "{", "\n", " ", "a", "}", "\"">>)}]

=============================================================================
