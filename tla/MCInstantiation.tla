--------------------------- MODULE MCInstantiation ---------------------------
(* Two generics, one of them of two parameters, that write each other and   *)
(* themselves in every way up to a few words.                               *)
EXTENDS Instantiation

A(count) == Use(1, count)
B(count) == Use(2, count)
MCParameters == <<1, 2>>

\* the parameter, in one use or two, and no shape inside a use
Inner == {<<Parameter>>, <<Parameter, A(1)>>, <<Parameter, B(2)>>,
          <<Parameter, A(1), A(1)>>, <<Parameter, A(1), B(2)>>,
          <<Parameter, B(2), A(1)>>, <<Builtin, A(1)>>, <<Parameter, B(1)>>,
          <<Builtin, B(1), A(1)>>, <<A(0)>>, <<Unknown>>,
          <<Unknown, A(1)>>}
Bodies == {<<>>} \cup {<<t \o <<Shape>>>> : t \in Inner}
              \cup {<<t, <<Parameter>>>> : t \in Inner}
              \cup {<<<<Parameter>>, t>> : t \in Inner}
Texts == {<<<<Builtin, A(1)>>>>, <<<<Builtin, Shape, B(2)>>, <<Builtin, A(1)>>>>,
          <<<<Unknown, B(2)>>, <<Builtin, A(1)>>>>}

MCPrograms ==
    [bodies : {<<a, b>> : a \in Bodies, b \in Bodies}, text : Texts]

\* class A<T>: next : A<T*>*
Shaped == <<Parameter, Shape, A(1), Shape>>
ShapedPrograms == {[bodies |-> <<<<Shaped>>, <<>>>>,
                    text |-> <<<<Builtin, A(1)>>>>]}

=============================================================================
