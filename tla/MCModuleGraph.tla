---------------------------- MODULE MCModuleGraph ----------------------------
(* A program of three roots, one inside another, and its files, one of them *)
(* a symbolic link, with every way they may import each other up to a       *)
(* bound.                                                                   *)
EXTENDS ModuleGraph, TLC

Main == <<"app", "main">>
Util == <<"app", "util">>
Link == <<"app", "zlink">>
Pack == <<"sys", "zip", "pack">>
Zip == <<"sys", "zip", "zip">>
Lost == <<"tmp", "lost">>       \* under no root
MCDisk == <<Main, Util, Link, Lost, Pack, Zip>>
\* a link of one root to a file of another
MCLinks == Link :> Pack

ARoot(name, path, sees) == [name |-> name, path |-> path, sees |-> sees]
\* the root of zip is inside the root of sys: its files have two names
MCRoots ==
    <<ARoot("app", <<"app">>,
            <<Sees("app", 1), Sees("zip", 2), Sees("sys", 3)>>),
      ARoot("zip", <<"sys", "zip">>, <<Sees("zip", 2), Sees("app", 1)>>),
      ARoot("sys", <<"sys">>, <<Sees("sys", 3)>>)>>
MCPrelude == <<[path |-> Zip, root |-> 2], [path |-> Util, root |-> 1]>>

Import(name, alias) == [name |-> name, alias |-> alias, star |-> FALSE]
Star(name, alias) == [name |-> name, alias |-> alias, star |-> TRUE]

Written1 ==
    {Import(<<"app", "main">>, INVALID_STRING), Import(<<"zip">>, "z"),
     Import(<<"zip", "pack">>, INVALID_STRING),
     Import(<<"sys", "zip", "pack">>, INVALID_STRING),
     Import(<<"nil">>, INVALID_STRING), Star(<<"app">>, INVALID_STRING),
     Star(<<"zip">>, "z"), Star(<<"app", "nil">>, INVALID_STRING)}
AtMost(n) == UNION {[1 .. i -> Written1] : i \in 0 .. n}

Program(a, b, c) ==
    Main :> a @@ Util :> b @@ Pack :> c
        @@ Link :> <<>> @@ Lost :> <<>> @@ Zip :> <<>>

\* the entry imports two, or every file imports one
MCTexts ==
    {Program(a, b, <<>>) : a \in AtMost(2), b \in AtMost(1)}
        \cup {Program(a, b, c) :
                  a \in AtMost(1), b \in AtMost(1), c \in AtMost(1)}

\* one file imported by both of its names
BothNames ==
    {Program(<<Import(<<"sys", "zip", "pack">>, INVALID_STRING),
               Import(<<"zip", "pack">>, INVALID_STRING)>>, <<>>, <<>>)}

MCAliases == {INVALID_STRING, "z"}
OneEntry == {Main}
TwoEntries == {Main, Lost}
=============================================================================
