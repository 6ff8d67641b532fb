---------------------------- MODULE MCOverloads ----------------------------
(***************************************************************************)
(* Calls of two and three candidates: by value, by reference, by '&&', by   *)
(* pointer, of a class, of its base, of one built from what is given, of    *)
(* one that cannot be copied; written numbers, 'null', tuples, closures;    *)
(* methods written over others; and generics.                              *)
(***************************************************************************)
EXTENDS Overloads

I32 == Builtin("i32")
Byte == Builtin("u8")
Long == Builtin("i64")
Real64 == Builtin("f64")
Text == Pointer(Builtin("char"))
TheLimits == [u8 |-> 2, i32 |-> 4, i64 |-> 6]

Shape == Class("Shape")
Circle == Class("Circle")
Ring == Class("Ring")
Name == Class("Name")     \* built from a 'char*'
Owner == Class("Owner")   \* only moved
Box(t) == Clone("Box", <<t>>)
A_class(base, inits, copied) == [base |-> base, inits |-> inits, copied |-> copied]
TheClasses ==
  [Shape |-> A_class(NoType, {}, TRUE),
   Circle |-> A_class(Class("Shape"), {}, TRUE),
   Ring |-> A_class(Class("Circle"), {I32}, TRUE),
   Name |-> A_class(NoType, {Pointer(Builtin("char"))}, TRUE),
   Owner |-> A_class(NoType, {MoveReference(Class("Owner"))}, FALSE),
   Box |-> A_class(NoType, {}, TRUE)]

Argument(is, t) == [is |-> is, type |-> t, value |-> 0, of |-> <<>>, takes |-> 0,
                    temporary |-> FALSE]
OfType(t) == Argument("typed", t)
Made(t) == [OfType(t) EXCEPT !.temporary = TRUE]
Whole(n) == [Argument("integer", NoType) EXCEPT !.value = n]
Real == Argument("real", NoType)
Null == Argument("null", NoType)
Closure(n, gives) == [Argument("closure", gives) EXCEPT !.takes = n]
Functions == Argument("functions", NoType)
Variant(name) == Argument("variant", Class(name))
Parts(of) == [Argument("tuple", NoType) EXCEPT !.of = of]

Declares(id, parameters) ==
    [id |-> id, is |-> "function", parameters |-> parameters,
     defaults |-> {}, generics |-> {}, holder |-> NoType, bound |-> Nothing]
Defaults(c, which) == [c EXCEPT !.defaults = which]
A_variant(c) == [c EXCEPT !.is = "variant"]
A_field(c) == [c EXCEPT !.is = "variable"]
Method(id, holder, parameters) == [Declares(id, parameters) EXCEPT !.holder = holder]
Makes(id, generics, parameters) == [Declares(id, parameters) EXCEPT !.generics = generics]

CallOf(candidates, arguments) == [candidates |-> candidates, arguments |-> arguments]
Twice(parameters, argument) ==
    {CallOf(<<Declares(1, <<p>>), Declares(2, <<q>>)>>, <<a>>) :
       p, q \in parameters, a \in argument}
Methods(holders, parameters) ==
    {CallOf([i \in 1 .. 3 |-> Method(i, h[i], p[i])], <<OfType(Ring)>>) :
       h \in [1 .. 3 -> holders], p \in [1 .. 3 -> parameters]}
Generics(candidates, arguments) ==
    {CallOf(<<c, Declares(2, p)>>, a) : c \in candidates, a \in arguments,
                                       p \in {<<I32>>, <<Reference(I32), I32>>}}
Around(t) == {t, Reference(t), MoveReference(t)}

T == Generic("T")
U == Generic("U")

AllCalls ==
  [values |-> Twice(UNION {Around(t) : t \in {Shape, Circle, Ring}},
                    UNION {{OfType(u) : u \in Around(t)} : t \in {Shape, Circle, Ring}}),
   pointers |-> Twice({Pointer(t) : t \in {Shape, Circle, Ring, I32}} \cup {Reference(Pointer(Shape)), I32},
                      {OfType(Pointer(t)) : t \in {Circle, Ring, Shape}} \cup {Null}
                      \cup {OfType(Array(I32)), OfType(Reference(Pointer(Shape)))}),
   built |-> Twice({Name, Reference(Name), Text, I32, Ring, Reference(Ring), Shape},
                   {OfType(Text), OfType(I32)}),
   read |-> Twice({Ring, I32, Name, Text}, {OfType(Reference(u)) : u \in {I32, Text, Ring}}),
   moved |-> Twice(Around(Name) \cup {Text}, {OfType(u) : u \in Around(Name)}),
   owned |-> Twice(Around(Owner), {OfType(u) : u \in Around(Owner)} \cup {Made(Owner)}),
   numbers |-> Twice({I32, Byte, Long, Real64, Shape}
                     \cup {Reference(t) : t \in {I32, Byte, Long, Real64}},
                     {Whole(n) : n \in {0, 2, 3, 4, 5, 6, 7}} \cup {Real}),
   two |-> {CallOf(<<Defaults(Declares(1, <<p, q>>), n), Declares(2, <<q, p>>)>>, a) :
              p, q \in {I32, Byte, Reference(I32), Shape, Reference(Circle)}, n \in {{}, {2}, {1, 2}},
              a \in {<<>>} \cup {<<x>> : x \in {OfType(I32), OfType(Circle)}}
                     \cup {<<x, y>> : x, y \in {OfType(I32), OfType(Reference(I32)),
                                            OfType(Ring), Whole(1), Whole(3)}}},
   variants |-> {CallOf(<<Defaults(A_variant(Declares(1, p)), n), other>>, a) :
                   p \in {<<I32>>, <<Reference(I32)>>}, n \in {{}, {1}},
                   other \in {Declares(2, <<I32>>), A_field(Declares(2, <<I32>>))},
                   a \in {<<>>, <<Whole(2)>>, <<OfType(NoType)>>, <<OfType(I32), Whole(1)>>}},
   methods |-> Methods({Shape, Circle, Ring, NoType},
                       {<<Reference(Shape)>>, <<Reference(Circle)>>, <<Ring>>}),
   others |-> Twice({Function(<<I32, I32>>), Function(<<I32, I32, I32>>),
                     Reference(Function(<<I32, I32>>)), Box(I32), Reference(Box(Byte)),
                     Tuple(<<I32, Byte>>), Tuple(<<Reference(I32), Real64>>),
                     Tuple(<<Name, Long>>), Pointer(I32)},
                    {Closure(1, NoType), Closure(2, I32), Functions, Variant("Box"), Null}
                    \cup {Parts(<<x, y>>) : x \in {OfType(I32), Whole(2), OfType(Text)},
                                           y \in {Whole(1), Whole(5), Real}}),
   laid |-> Generics(
      {Makes(1, {"T"}, p) : p \in {<<Reference(T)>>, <<Reference(Box(T))>>, <<MoveReference(T)>>,
                                  <<Reference(T), T>>,
                                  <<Reference(T), Function(<<T, T>>)>>}},
      {<<OfType(x)>> : x \in {Reference(I32), Reference(Box(I32)), Reference(Shape),
                              MoveReference(Shape), MoveReference(Box(I32))}}
      \cup {<<OfType(Reference(I32)), y>> : y \in {OfType(I32), Whole(2), Closure(1, NoType)}}),
   generics |-> Generics(
      {Makes(1, {"T"}, p) :
         p \in {<<T>>, <<Reference(T)>>, <<Pointer(T)>>, <<Box(T)>>,
                <<T, T>>, <<Reference(T), T>>, <<T, I32>>, <<T, Pointer(T)>>,
                <<Tuple(<<T, I32>>)>>, <<Tuple(<<T, T>>)>>, <<Array(T)>>,
                <<T, Function(<<T, T>>)>>, <<Function(<<T, I32>>), Reference(T)>>}}
      \cup {Makes(1, {"T", "U"}, p) :
              p \in {<<T, U>>, <<T, Function(<<T, U>>)>>, <<Box(T), U>>, <<T>>}},
      {<<x>> : x \in {OfType(t) : t \in {I32, Pointer(I32), Box(Byte), Array(Shape),
                                         Tuple(<<Byte, I32>>), Shape}}
                     \cup {Whole(2), Real, Null, OfType(T), Parts(<<Whole(1), Whole(1)>>),
                           Parts(<<OfType(Byte), Whole(1)>>)}}
      \cup {<<x, y>> : x \in {OfType(I32), OfType(Byte), OfType(Box(I32)), Whole(3), Whole(2),
                              Real, Closure(1, I32)},
                      y \in {OfType(I32), OfType(Byte), OfType(Pointer(Byte)), Whole(1),
                             Real, Closure(1, NoType), Closure(1, Byte), Closure(2, I32)}})]

\* What a class is built from, and a number, where a '&&' is asked for; a reference to
\* that where a reference to the class is asked for; a reference given to a generic that takes a value, a pointer or a
\* generic class; a number for an 'isize'; a parameter with no default before
\* which one is left out; some of what a variant with a default carries; and one
\* closure asked by two generic functions.
Disputed ==
  [moved |-> {CallOf(<<Declares(1, <<MoveReference(p)>>)>>, <<a>>) :
                p \in {Name, I32}, a \in {OfType(Text), Whole(2)}},
   built |-> {CallOf(<<Declares(1, <<Reference(Name)>>)>>, <<OfType(Reference(Text))>>)},
   bound |-> {CallOf(<<Makes(1, {"T"}, <<T>>)>>, <<OfType(Reference(I32))>>)},
   inside |-> {CallOf(<<Makes(1, {"T"}, <<p>>)>>, <<OfType(Reference(a))>>) :
                 p \in {Pointer(T), Box(T)}, a \in {Pointer(I32), Box(I32)}},
   sizes |-> {CallOf(<<Declares(1, <<Builtin("isize")>>)>>, <<Whole(2)>>)},
   omitted |-> {CallOf(<<Defaults(Declares(1, <<p, q>>), {1})>>, <<OfType(p)>>) : p, q \in {I32, Byte}},
   payload |-> {CallOf(<<Defaults(A_variant(Declares(1, <<I32, Byte>>)), {1, 2})>>, <<Whole(2)>>)},
   asked |-> {CallOf(<<Makes(1, {"T"}, <<T, T, Function(<<T, T>>)>>),
                      Makes(2, {"T"}, <<T, I32, Function(<<I32, T>>)>>)>>,
                    <<OfType(Byte), Whole(2), Closure(1, NoType)>>)}]
=============================================================================
