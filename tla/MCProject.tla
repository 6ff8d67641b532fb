----------------------------- MODULE MCProject ------------------------------
(***************************************************************************)
(* A command line of up to three arguments, or of five where an option     *)
(* with a value is written twice, beside another or last; a roots table of *)
(* a few lines over three directories, one of them nested; the manifests   *)
(* of three directories, a program that needs up to two packages, which    *)
(* may need each other, the program, or a version nobody has.              *)
(***************************************************************************)
EXTENDS Project, TLC

AtMost(set, n) == UNION {[1 .. i -> set] : i \in 0 .. n}

Flags == {"--help", "--tokens", "--emit-cpp", "--emit-ir", "--emit-asm", "--pretty-print"}
Arguments == Flags \cup {"--pkg", "--roots", "", "x.hd", "y.hd", "--unknown"}
MCCommandLines ==
    AtMost(Arguments, 3) \cup
    [1 .. 5 -> {"--pkg", "--roots", "--emit-asm", "--pretty-print", "x.hd"}]

Sys == <<"sys">>
Zip == <<"sys", "zip">>
App == <<"app">>
ARoot(dir, name) == [kind |-> "root", name |-> <<name>>, path |-> dir]
ADependency(name, dir) == [kind |-> "dependency", name |-> <<name>>, path |-> dir]
AnImport(name) == [kind |-> "import", name |-> name, path |-> <<>>]
APrelude == [kind |-> "prelude", name |-> <<"prelude">>, path |-> <<>>]
Broken == [kind |-> "broken", name |-> <<"?">>, path |-> <<>>]
MCLines == {ARoot(Sys, "sys"), ARoot(Zip, "sys"), ARoot(App, "app"),
            ADependency("sys", Sys), ADependency("zip", Zip),
            APrelude, AnImport(<<"sys", "io">>), AnImport(<<"zip", "io">>), Broken}

Std == <<"std">>
Pack == <<"zip">>
\* one that does not scan, does not parse, or holds a key nobody knows
NoManifest == [reads |-> FALSE, name |-> "", needs |-> <<>>, prelude |-> <<>>]
Called(name, needs, preludes) ==
    [reads : {TRUE}, name : {name}, needs : needs, prelude : preludes]
MCNames == {"std", "app"}
Needs(n) == AtMost([name : MCNames, path : {App, Std, Pack, <<>>}], n)
\* the prelude of a library is never asked
Unasked == {<<<<"nothing">>>>}
MCManifests ==
    {App :> a @@ Std :> s @@ Pack :> z :
        a \in Called("app", Needs(2), {<<>>, <<<<"std", "io">>, <<"app", "main">>>>})
             \cup {NoManifest},
        s \in Called("std", Needs(1), Unasked) \cup {NoManifest},
        z \in Called("zip", Needs(1), Unasked) \cup {NoManifest}}

MCDisk == <<<<"app", "main">>, <<"std", "io">>, <<"sys", "io">>, <<"sys", "sys">>,
            <<"sys", "zip", "pack">>, <<"zip", "zip">>>>
NoLinks == [f \in {} |-> f]
=============================================================================
