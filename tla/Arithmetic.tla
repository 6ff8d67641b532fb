----------------------------- MODULE Arithmetic -----------------------------
(***************************************************************************)
(* The numbers of a Haard program: what the front end makes of an           *)
(* expression over them (type_table/expression_typer.cpp, type_table.h and  *)
(* the compound assignments of statement_checker.cpp), and what it is worth *)
(* by the repository's own records, 0018, 0049, 0057 and 0083.              *)
(*                                                                         *)
(* "u8", "u32" and "u64" stand for the three sizes C++ tells apart: less    *)
(* than an int, an int, more than one.  A float is counted in halves, and   *)
(* an "f32" and an "f64" keep SingleBits and DoubleBits digits of it.       *)
(*                                                                         *)
(* A tree's node says what it is, its type once it is known, its parts, and *)
(* a value: of a "name" what the variable holds, of a "number" or a "real"  *)
(* what is written, of a "call" what it gives back and leaves in the place  *)
(* beside it.  Pointers, classes, enums and tuples are not here, and of what *)
(* a float does '+', '-', the comparisons and the casts.                     *)
(***************************************************************************)
EXTENDS Integers, Sequences, Bitwise

CONSTANTS NarrowBits, IntBits, WideBits, SingleBits, DoubleBits

ASSUME BitsAssumption ==
    /\ NarrowBits \in Nat \ {0} /\ IntBits \in Nat /\ WideBits \in Nat
    /\ NarrowBits + 1 < IntBits /\ IntBits < WideBits
    /\ SingleBits \in Nat \ {0} /\ DoubleBits \in Nat /\ SingleBits < DoubleBits

Signed == {"i8", "i32", "i64"}
Whole  == {"u8", "u32", "u64"} \cup Signed
Floats == {"f32", "f64"}
Type   == Whole \cup Floats \cup {"char", "bool"}

is_a_whole_number(t) == t \in Whole
is_signed(t) == t \in Signed
bits_of(t) == CASE t \in {"u8", "i8", "char"} -> NarrowBits
                [] t \in {"u32", "i32"} -> IntBits
                [] OTHER -> WideBits

Lowest(t)  == IF is_signed(t) THEN -(2 ^ (bits_of(t) - 1)) ELSE 0
limit_of(t) == 2 ^ (bits_of(t) - (IF is_signed(t) THEN 1 ELSE 0)) - 1
Values(t) == Lowest(t) .. limit_of(t)

\* A whole number as 't' holds it, its high bits gone, and a float to 'p'
\* digits, a tie to the even one.
Cut(n, t) == ((n - Lowest(t)) % 2 ^ bits_of(t)) + Lowest(t)
Unit(size, p) == 2 ^ (CHOOSE k \in 0 .. size :
                        /\ size < 2 ^ (p + k)
                        /\ \A j \in 0 .. k - 1 : size >= 2 ^ (p + j))
Nearer(low, rest, unit) ==
    IF rest > unit \/ (rest = unit /\ low % 2 = 1) THEN (low + 1) * unit ELSE low * unit
Nearest(size, unit) == Nearer(size \div unit, 2 * (size % unit), unit)
Rounded(n, p) == IF n < 0 THEN -Nearest(-n, Unit(-n, p)) ELSE Nearest(n, Unit(n, p))
InFloat(n, t) == Rounded(n, IF t = "f32" THEN SingleBits ELSE DoubleBits)

Towards0(n, d) == IF n < 0 THEN -((-n) \div d) ELSE n \div d
Quotient(m, n) == IF n < 0 THEN Towards0(-m, -n) ELSE Towards0(m, n)
Remainder(m, n) == m - n * Quotient(m, n)

-----------------------------------------------------------------------------
Node(is, type, value, of) == [is |-> is, type |-> type, value |-> value, of |-> of]
Literals == {"number", "real"}
Comparisons == {"==", "!=", "<", "<=", ">", ">="}
Bits == {"&", "|", "^", "<<", ">>", ">>>"}
Shifts == {"<<", ">>", ">>>"}
Divisions == {"/", "//", "%"}

is_untyped_literal(n) == n.is \in Literals

\* A literal takes the type it is asked to be, in its own family.
literal(n, expected) ==
    CASE expected = "none" -> IF n.is = "number" THEN "i32" ELSE "f64"
      [] n.is = "number" ->
           IF is_a_whole_number(expected) /\ n.value <= limit_of(expected)
             THEN expected ELSE "refused"
      [] OTHER ->
           IF expected = "char" \/ is_a_whole_number(expected)
             THEN "refused" ELSE expected

\* The casts between numbers, which are all there are here.
may_cast(from, to) == from \in Type /\ to \in Type

refuse_a_constant(op, right, type) ==
    /\ right.is = "number" /\ is_a_whole_number(type)
    /\ \/ op \in Divisions /\ right.value = 0
       \/ op \in Shifts /\ right.value >= bits_of(type)

\* What an operator between a 'left' and a 'right' gives.
binary_type(op, left, right) ==
    LET moves == op \in {"+", "-"} /\ left.type = "char"
    IN  CASE "refused" \in {left.type, right.type} -> "refused"
          [] moves /\ is_a_whole_number(right.type) -> "char"
          [] op = "-" /\ left.type = "char" /\ right.type = "char" -> "i32"
          [] left.type # right.type -> "refused"
          [] op \in Comparisons -> "bool"
          [] refuse_a_constant(op, right, left.type) -> "refused"
          [] OTHER -> left.type

RECURSIVE typed(_, _)
binary(n, expected) ==
    LET comparison == n.is \in Comparisons
        asked == IF comparison THEN "none" ELSE expected
        x == n.of[1]
        y == n.of[2]
        waits == is_untyped_literal(x) /\ ~is_untyped_literal(y)
        first == typed(IF waits THEN y ELSE x, asked)
        beside == IF ~waits /\ ~comparison /\ first.type = "char"
                     /\ is_untyped_literal(y) THEN "none" ELSE first.type
        second == typed(IF waits THEN x ELSE y, beside)
        left  == IF waits THEN second ELSE first
        right == IF waits THEN first ELSE second
    IN  [n EXCEPT !.of = <<left, right>>, !.type = binary_type(n.is, left, right)]

\* Bits are for a whole number.
bitwise(n, expected) ==
    LET b == binary(n, expected)
    IN  [b EXCEPT !.type = IF is_a_whole_number(@) THEN @ ELSE "refused"]

typed(n, expected) ==
    CASE expected = "refused" -> [n EXCEPT !.type = "refused"]
      [] is_untyped_literal(n) -> [n EXCEPT !.type = literal(n, expected)]
      [] n.is \in {"name", "call"} -> n
      [] n.is \in {"neg", "~"} ->
           LET a == typed(n.of[1], expected)
           IN  [n EXCEPT !.of = <<a>>, !.type = a.type]
      [] n.is = "as" ->
           LET a == typed(n.of[1], "none")
           IN  [n EXCEPT !.of = <<a>>,
                         !.type = IF may_cast(a.type, @) THEN @ ELSE "refused"]
      [] n.is \in Bits -> bitwise(n, expected)
      [] OTHER -> binary(n, expected)

-----------------------------------------------------------------------------
\* A statement: "let", of a type or of "none", and what it is given; a
\* compound assignment to a place, which is a name; or a step of one.
Let(type, tree) == [is |-> "let", op |-> "=", type |-> type, place |-> tree, by |-> tree]
Compound(op, place, by) ==
    [is |-> "compound", op |-> op, type |-> place.type, place |-> place, by |-> by]
StepOf(op, place) ==
    [is |-> "step", op |-> op, type |-> place.type, place |-> place, by |-> place]

\* What a binding and StatementChecker's check_assignment ask of the right
\* side, once it is typed.
check_assignment(s) ==
    LET left == s.place.type
        asked == IF s.op \in {"+", "-"} /\ left = "char" THEN "none" ELSE left
        by == typed(s.by, asked)
        moves == asked # left
                 /\ (by.type = "char" \/ is_a_whole_number(by.type))
        fits == by.type = left /\ ~refuse_a_constant(s.op, s.by, left)
    IN  [s EXCEPT !.by = IF moves \/ fits THEN by
                         ELSE [by EXCEPT !.type = "refused"]]

Checked(s) ==
    CASE s.is = "compound" -> check_assignment(s)
      [] s.is = "step" -> s
      [] OTHER ->
           LET by == typed(s.by, s.type)
               fits == s.type \in {"none", by.type}
           IN  [s EXCEPT !.by = IF fits THEN by ELSE [by EXCEPT !.type = "refused"],
                         !.type = IF s.type = "none" THEN by.type ELSE @]

Accepted(s) == s.by.type # "refused"

-----------------------------------------------------------------------------
\* How an expression ends: "" with a value, or without one.
Gives(value) == [ends |-> "", value |-> value]
Stops == [ends |-> "stops", value |-> 0]

\* The number an operator of 't' is worth, by records 0057 and 0083.
RECURSIVE Power(_, _, _)
Power(m, n, t) == IF n = 0 THEN 1 ELSE Cut(m * Power(m, n - 1, t), t)
Raised(m, n, t) ==
    CASE n >= 0 -> Power(m, n, t)
      [] m \in {1, -1} -> IF n % 2 = 0 THEN 1 ELSE m
      [] OTHER -> 0

TooLarge(n, t) == n < 0 \/ n >= bits_of(t)
NoSign(n, t) == n % 2 ^ bits_of(t)
WholeNumber(op, m, n, t) ==
    CASE op = "+" -> m + n
      [] op = "-" -> m - n
      [] op = "*" -> m * n
      [] op = "/" -> Quotient(m, n)
      [] op = "%" -> Remainder(m, n)
      [] op = "//" -> (IF n < 0 THEN (-m) \div (-n) ELSE m \div n)
      [] op = "**" -> Raised(m, n, t)
      [] op = "&" -> NoSign(m, t) & NoSign(n, t)
      [] op = "|" -> NoSign(m, t) | NoSign(n, t)
      [] op = "^" -> NoSign(m, t) ^^ NoSign(n, t)
      [] op = "<<" -> IF TooLarge(n, t) THEN 0 ELSE m * 2 ^ n
      [] op = ">>" -> IF TooLarge(n, t) THEN (IF m < 0 THEN -1 ELSE 0)
                      ELSE m \div 2 ^ n
      [] op = ">>>" -> IF TooLarge(n, t) THEN 0 ELSE NoSign(m, t) \div 2 ^ n

Compares(op, m, n) ==
    CASE op = "==" -> m = n
      [] op = "!=" -> m # n
      [] op = "<" -> m < n
      [] op = "<=" -> m <= n
      [] op = ">" -> m > n
      [] op = ">=" -> m >= n

\* What a value of one type is as another.
As(value, from, to) ==
    CASE to = "bool" -> Gives(IF value = 0 THEN 0 ELSE 1)
      [] to \in Floats ->
           Gives(InFloat(IF from \in Floats THEN value ELSE 2 * value, to))
      [] from \in Floats /\ Towards0(value, 2) \notin Values(to) -> Stops
      [] from \in Floats -> Gives(Towards0(value, 2))
      [] OTHER -> Gives(Cut(value, to))

MeantOf(op, m, n, type, operand) ==
    CASE op \in Divisions /\ n = 0 -> Stops
      [] op \in Comparisons -> Gives(IF Compares(op, m, n) THEN 1 ELSE 0)
      [] operand \in Floats -> Gives(InFloat(WholeNumber(op, m, n, "i64"), type))
      [] OTHER -> Gives(Cut(WholeNumber(op, m, n, operand), type))

RECURSIVE Meant(_)
Meant(n) ==
    IF n.of = <<>> THEN
        Gives(IF n.type \in Floats THEN InFloat(n.value, n.type) ELSE n.value)
    ELSE
        LET a == Meant(n.of[1])
            b == Meant(n.of[Len(n.of)])
        IN  CASE a.ends # "" -> a
              [] b.ends # "" -> b
              [] n.is = "neg" /\ n.type \in Floats -> Gives(-a.value)
              [] n.is = "neg" -> Gives(Cut(-a.value, n.type))
              [] n.is = "~" -> Gives(Cut(-a.value - 1, n.type))
              [] n.is = "as" -> As(a.value, n.of[1].type, n.type)
              [] OTHER -> MeantOf(n.is, a.value, b.value, n.type, n.of[1].type)

\* What the variable of a statement holds after it; of a step, also what the
\* step is read as.  The right side of an assignment is worked out first,
\* which is C++17's order.
MeantBy(s) ==
    LET old == IF s.by.is = "call" THEN s.by.value ELSE s.place.value
        by  == Meant(s.by)
        one == IF s.op \in {"++x", "x++"} THEN 1 ELSE -1
        new == Cut(old + one, s.type)
    IN  CASE s.is = "let" -> by
          [] s.is = "step" -> Gives(<<IF s.op \in {"++x", "--x"} THEN new ELSE old, new>>)
          [] by.ends # "" -> by
          [] OTHER -> MeantOf(s.op, old, by.value, s.type, s.type)
=============================================================================
