----------------------------- MODULE MCBackEnds -----------------------------
(***************************************************************************)
(* The two back ends beside each other, over one thing or the other: a      *)
(* statement over numbers, or the objects of one type.                      *)
(***************************************************************************)
EXTENDS Expressions

-----------------------------------------------------------------------------
(* Every operator over every pair of values of a type, among names, written *)
(* numbers and the two; casts, signs, floats, characters; assignments and   *)
(* steps; and an operator over another.                                    *)

Name(t, v) == Node("name", t, v, <<>>)
Number(v) == Node("number", "", v, <<>>)
Real(v) == Node("real", "", v, <<>>)
Of(op, x, y) == Node(op, "", 0, <<x, y>>)
Neg(x) == Node("neg", "", 0, <<x>>)
Flip(x) == Node("~", "", 0, <<x>>)
AsA(t, x) == Node("as", t, 0, <<x>>)
Call(t, gives, leaves) == Node("call", t, gives, <<>>)

Operators == Divisions \cup Bits \cup {"+", "-", "*", "**"} \cup Comparisons
\* All the values of a type, but of the widest those near a limit of any.
Sampled(t) ==
    {v \in Values(t) : bits_of(t) < WideBits \/ \E u \in Whole :
       v \in {Lowest(u), Lowest(u) + 1, -1, 0, 1, limit_of(u) - 1, limit_of(u)}}
Names(t) == {Name(t, v) : v \in Sampled(t)}
Numbers(t) == {Number(v) : v \in Sampled(t) \cap Nat}
Some(t) == {Name(t, v) : v \in {Lowest(t), -1, 0, 1, limit_of(t)} \cap Values(t)}
Singles == {InFloat(n, "f32") : n \in -8 .. 8}
Doubles == -8 .. 8
FloatNames(t) == {Name(t, v) : v \in IF t = "f32" THEN Singles ELSE Doubles}

Between(ops, xs, ys) == {Let("none", Of(o, x, y)) : o \in ops, x \in xs, y \in ys}
\* A number no larger than C++ reads as an int, where it would be unsigned.
Small(t) == IF t = "u32" THEN Numbers("i32") ELSE Numbers(t)
Families(types, operators, F(_, _)) ==
    [part \in types \X operators |-> F(part[1], part[2])]

AllStatements ==
  [names |-> Families(Whole, Operators, LAMBDA t, op : Between({op}, Names(t), Names(t))),
   right |-> Families(Whole, Operators, LAMBDA t, op : Between({op}, Names(t), Small(t))),
   left |-> Families(Whole, Operators, LAMBDA t, op : Between({op}, Small(t), Names(t))),
   alone |-> Families({"i8", "u8", "i32", "i64"}, Operators \ Comparisons, LAMBDA t, op :
       {Let(t, Of(op, Number(m), Number(n))) :
          m \in 0 .. limit_of(t),
          n \in 0 .. IF op = ">>" /\ t = "i64" THEN IntBits - 1 ELSE limit_of(t)}),
   signs |-> Families(Whole, {"neg", "~"}, LAMBDA t, op :
       {Let("none", Node(op, "", 0, <<x>>)) : x \in Names(t)}),
   minus |-> Families(Signed, Operators, LAMBDA t, op :
       Between({op}, Names(t), {Neg(n) : n \in Numbers(t)})),
   casts |-> Families(Type \ Floats, Type, LAMBDA t, u :
       {Let("none", AsA(u, x)) : x \in IF t = "bool" THEN {Name(t, 0), Name(t, 1)} ELSE Names(t)}),
   floats |-> Families(Floats, Type, LAMBDA t, u :
       {Let("none", AsA(u, x)) : x \in FloatNames(t)}),
   real |-> Families(Floats, {"+", "-"} \cup Comparisons, LAMBDA t, op :
       Between({op}, FloatNames(t), FloatNames(t))),
   halves |-> Families({"f64"}, {"+", "-"} \cup Comparisons, LAMBDA t, op :
       Between({op}, FloatNames(t), {Real(n) : n \in 0 .. 8})),
   characters |-> Families({"char"} \cup Whole, {"+", "-"} \cup Comparisons, LAMBDA t, op :
       Between({op}, Names("char"), Names(t))),
   compound |-> Families(Whole, Operators \ (Comparisons \cup {"**"}), LAMBDA t, op :
       {Compound(op, x, y) : x \in Names(t), y \in Names(t) \cup Small(t)}),
   moved |-> Families({"char"} \cup Whole, {"+", "-"}, LAMBDA t, op :
       {Compound(op, x, y) : x \in Names("char"), y \in Names(t)}),
   steps |-> Families(Whole, {"++x", "x++", "--x", "x--"}, LAMBDA t, op :
       {StepOf(op, x) : x \in Names(t)}),
   nested |-> Families(Whole, Operators \ {"**"}, LAMBDA t, op :
       {Let("none", Of(op, Of(inner, x, y), z)) :
          inner \in {"*", "<<"}, x, y, z \in Some(t)})]

\* Written numbers with no name beside them where C++ reads an int; one no int
\* holds beside a u32; a minus before a number of an unsigned; an f32 and what
\* is written beside it; a right side that changes the place; the lowest i64;
\* a number no i32 holds; operators no float has; a fraction that is a bool;
\* and a character divided.
Disputed ==
  LET one(family) == <<family>>
      high == limit_of("i32") + 1 .. limit_of("u32")
  IN
  [alone |-> one({Let("u64", Of("*", Number(m), Number(n))) : m, n \in 0 .. limit_of("i32")}),
   shifted |-> one({Let("i64", Of(">>", Number(m), Number(n))) :
                      m \in 0 .. limit_of("i32"), n \in 0 .. limit_of("i64")}),
   large |-> one(Between({"<"}, {Of("+", x, Number(n)) : x \in Names("u32"), n \in high},
                         Names("u32"))),
   minus |-> one(Between({"/", "<"}, Names("u8") \cup Names("u32"), {Neg(Number(1))})),
   single |-> one(Between({"==", "+"}, FloatNames("f32"), {Real(n) : n \in 0 .. 8})),
   order |-> one({Compound("+", Name("i32", 0), Call("i32", 1, 1))}),
   lowest |-> one({Let("none", AsA("i64", Name("f64", 2 * Lowest("i64"))))}),
   unfit |-> one({Let("none", Number(n)) : n \in high}
                 \cup {Let("none", AsA("u64", Number(n))) : n \in high}),
   classes |-> one(Between({"%"}, FloatNames("f64"), FloatNames("f64"))),
   bool |-> one({Let("bool", Real(n)) : n \in 2 .. 3}),
   divided |-> one(Between({"//"}, {Name("char", 3)}, {Name("char", 2)}))]

-----------------------------------------------------------------------------
(* Owners that can be copied, moved or both; what holds them, by a base, by *)
(* fields, in tuples, arrays and enums, with and without 'init's of its    *)
(* own; and two objects of each.                                            *)

TypeOf(kind, base, fields, inits, destroys) ==
    [kind |-> kind, base |-> base, fields |-> fields, inits |-> inits,
     destroy |-> destroys, variants |-> <<>>]
Field(t) == [type |-> t, given |-> FALSE]
Given(t) == [type |-> t, given |-> TRUE]
Plain == TypeOf("int", <<>>, <<>>, {}, FALSE)
Tuple(ts) == TypeOf("tuple", <<>>, [i \in DOMAIN ts |-> Field(ts[i])], {}, FALSE)
Array(t) == TypeOf("array", <<>>, <<Field(t), Field(t)>>, {}, FALSE)
Enum(vs) == [TypeOf("enum", <<>>, <<>>, {}, FALSE) EXCEPT !.variants = vs]
Owner(kind, inits) == TypeOf(kind, <<>>, <<>>, {"empty"} \cup inits, TRUE)

Copied == Owner("class", {"copy"})
Both   == Owner("struct", {"copy", "move"})
Moved  == Owner("class", {"move"})

Kinds == {"class", "struct"}

\* A class or a struct that writes nothing, its 'init' or its copy.
Holders(parts) ==
    {TypeOf(kind, <<>>, fields, inits, destroys) :
       kind \in Kinds, inits \in {{}, {"empty"}, {"empty", "copy"}},
       fields \in parts, destroys \in {FALSE}}
    \cup {TypeOf("class", <<>>, fields, {"empty", "copy"}, TRUE) : fields \in parts}

Pair(s, t) == <<Field(s), Field(t)>>

ObjectTypes ==
  [owners |-> {Owner(kind, inits) : kind \in Kinds,
                 inits \in SUBSET {"copy", "move"} \ {{}}},
   holders |-> Holders({Pair(Plain, Copied), Pair(Copied, Both), Pair(Both, Plain)}),
   given |-> {TypeOf(kind, <<>>, <<Given(Plain), Field(Both)>>, inits, FALSE) :
                kind \in Kinds, inits \in {{}, {"empty", "copy"}}},
   nested |-> {TypeOf(kind, <<>>, <<Field(Tuple(<<Both, Plain>>)), Field(inner)>>,
                    {}, FALSE) :
                 kind \in Kinds,
                 inner \in {TypeOf("class", <<>>, <<Field(Copied)>>, {}, FALSE)}},
   bases |-> {TypeOf("class", <<base>>, <<Field(t)>>, inits, FALSE) :
                base \in {Copied, Moved, TypeOf("class", <<>>, <<Field(Both)>>, {}, FALSE)},
                t \in {Plain, Copied}, inits \in {{}, {"empty"}}},
   tuples |-> {Tuple(<<s, t>>) : s \in {Plain, Copied, Both, Tuple(<<Both, Plain>>)},
                                 t \in {Plain, Copied, Both}},
   enums |-> {Enum(<<<<Plain, Copied>>, <<t>>, <<>>>>) : t \in {Plain, Both}},
   unions |-> {TypeOf("union", <<>>, <<Field(Plain), Given(Plain)>>, {}, FALSE),
               TypeOf("union", <<>>, <<Field(Copied)>>, {}, FALSE)}]

\* Owners in a fixed array, an owner that cannot be copied inside what can, two
\* owners in a variant, a derived class that copies itself, an array beside an
\* owner, an enum that was never given anything, a union that ends.
DisputedTypes ==
  [arrays |-> {TypeOf("struct", <<>>, <<Field(Array(Copied))>>, {}, FALSE)},
   held |-> {TypeOf("class", <<>>, <<Field(Moved)>>, {}, FALSE)},
   variants |-> {Enum(<<<<Copied, Copied>>, <<>>>>)},
   derived |-> {TypeOf("class", <<Copied>>, <<Field(Plain)>>, {"args", "copy"}, FALSE)},
   beside |-> {TypeOf("struct", <<>>, <<Field(Copied), Field(Array(Plain))>>, {}, FALSE)},
   unset |-> {TypeOf("class", <<>>, <<Field(Enum(<<<<Copied>>, <<>>>>))>>, {}, FALSE)},
   union |-> {TypeOf("union", <<>>, <<Field(Plain)>>, {"empty", "copy"}, TRUE)}]

-----------------------------------------------------------------------------
CONSTANTS Types, Objects, BackEnds

VARIABLES part,    \* "numbers" or "objects"
          type, by, alive, variant, held, owned, wrong

ofObjects == <<type, by, alive, variant, held, owned, wrong>>

L == INSTANCE Lifetimes

NoObjects == /\ type = 0 /\ by = 0 /\ alive = 0 /\ variant = 0
             /\ held = 0 /\ owned = 0 /\ wrong = 0
NoNumbers == statement = 0 /\ stands = "none" /\ emitted = None /\ interpreted = None

InitBoth == \/ part = "numbers" /\ Init /\ NoObjects
            \/ part = "objects" /\ L!Init /\ NoNumbers
NextOfBoth == \/ part = "numbers" /\ Next /\ UNCHANGED <<part, ofObjects>>
              \/ part = "objects" /\ L!Next /\ UNCHANGED <<part, vars>>
SpecOfBoth == InitBoth /\ [][NextOfBoth]_<<part, vars, ofObjects>>

\* Whatever a program does with its objects, nothing is shared, given back
\* twice or lost, by the C++ or by the IR.
OneHolder == part = "objects" => L!OneHolder

\* The two back ends call the same methods on the same places in one order.
BackEndsAgree == part = "objects" => L!BackEndsAgree
=============================================================================
