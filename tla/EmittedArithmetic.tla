------------------------- MODULE EmittedArithmetic -------------------------
(***************************************************************************)
(* What the C++ written for a statement over numbers computes               *)
(* (emitter/emitter.cpp).  The C++ types have the names of the Haard types   *)
(* they stand for, "i32" being C++'s int and "i64" its long; a C++ value     *)
(* has a type of its own, which need not be the one the Haard expression    *)
(* has.                                                                    *)
(***************************************************************************)
EXTENDS Arithmetic

Cpp(type, value) == [ends |-> "", type |-> type, value |-> value]
Ends(how) == [ends |-> how, type |-> "i32", value |-> 0]
Undefined == Ends("undefined")
NoSuchOperator == Ends("does not compile")
Refused == Ends("refused by the emitter")
\* '//' and '**' of floats are written as __floor_div_f and __power_f, which
\* are not modelled: no statement of a program here has one, and an answer
\* that is no value would disagree with every other were one to appear.
HelperOfFloats == Ends("a helper of floats")

\* The first of two values with none, or what F makes of them.
After2(x, y, F(_, _)) ==
    IF x.ends # "" THEN x ELSE IF y.ends # "" THEN y ELSE F(x, y)

-----------------------------------------------------------------------------
\* C++: a conversion, the promotions, and the operators on what they make.
Made(as, t) == IF as.ends # "" THEN Undefined ELSE Cpp(t, as.value)
To(x, t) == IF x.ends # "" THEN x ELSE Made(As(x.value, x.type, t), t)

Promoted(t) == IF t = "bool" \/ (t \notin Floats /\ bits_of(t) < IntBits) THEN "i32" ELSE t
CommonOf(a, b) ==
    CASE "f64" \in {a, b} -> "f64"
      [] "f32" \in {a, b} -> "f32"
      [] bits_of(a) > bits_of(b) -> a
      [] bits_of(b) > bits_of(a) -> b
      [] OTHER -> IF is_signed(a) THEN b ELSE a
Common(s, t) == CommonOf(Promoted(s), Promoted(t))

Fits(n, t) == IF is_signed(t) /\ n \notin Values(t) THEN Undefined ELSE Cpp(t, Cut(n, t))

\* An operator both of whose sides were made a 't'.
OfOneType(op, m, n, t) ==
    CASE t \in Floats /\ op \in Bits \cup {"%"} -> NoSuchOperator
      [] t \in Floats -> Cpp(t, InFloat(WholeNumber(op, m, n, "i64"), t))
      [] op \in {"/", "%"} /\ (n = 0 \/ Quotient(m, n) \notin Values(t)) -> Undefined
      [] OTHER -> Fits(IF op \in {"&", "|", "^"}
                         THEN Cut(WholeNumber(op, m, n, t), t)
                         ELSE WholeNumber(op, m, n, t), t)

MadeOf(op, t, a, b) ==
    CASE op \in Comparisons ->
           Cpp("bool", IF Compares(op, a.value, b.value) THEN 1 ELSE 0)
      [] op \in Shifts /\ TooLarge(b.value, t) -> Undefined
      [] OTHER -> OfOneType(op, a.value, b.value, t)
OperatorIn(op, t, x, y) ==
    CASE op \in Shifts /\ {x.type, y.type} \cap Floats # {} -> NoSuchOperator
      [] x.ends # "" -> x
      [] y.ends # "" -> y
      [] OTHER -> MadeOf(op, t, To(x, t), IF op \in Shifts THEN y ELSE To(y, t))
Operator(op, x, y) ==
    OperatorIn(op, IF op \in Shifts THEN Promoted(x.type) ELSE Common(x.type, y.type),
               x, y)

UnaryIn(op, t, x) ==
    CASE x.ends # "" -> x
      [] t \in Floats /\ op = "~" -> NoSuchOperator
      [] t \in Floats -> Cpp(t, -x.value)
      [] op = "~" -> Cpp(t, Cut(-x.value - 1, t))
      [] OTHER -> Fits(-x.value, t)
Unary(op, x) == UnaryIn(op, Promoted(x.type), To(x, Promoted(x.type)))

-----------------------------------------------------------------------------
\* What an operator is computed in.
unsigned_twin(t) ==
    CASE t = "i8" -> "u8" [] t = "i32" -> "u32" [] t = "i64" -> "u64" [] OTHER -> "none"
wrapping_type(t) ==
    CASE t \in {"u8", "i8", "char", "i32"} -> "u32" [] t = "i64" -> "u64" [] OTHER -> "none"
is_written_through_its_twin(t) == t \in {"i32", "i64"}
is_an_unsigned_whole_number(t) == is_a_whole_number(t) /\ ~is_signed(t)

\* The helpers, which work in the widest of their family.
Floored(m, n) == IF Remainder(m, n) # 0 /\ (m < 0) # (n < 0)
                   THEN Quotient(m, n) - 1 ELSE Quotient(m, n)
Helped(name, wide, m, n) ==
    LET past == n < 0 \/ n >= WideBits
    IN  CASE name \in {"__rem_i", "__rem_u"} -> IF n = -1 THEN 0 ELSE Remainder(m, n)
          [] name = "__shl" -> IF past THEN 0 ELSE Cut(m * 2 ^ n, wide)
          [] name \in {"__shr_i", "__shr_u"} /\ ~past -> m \div 2 ^ n
          [] name = "__shr_i" /\ past -> m \div 2 ^ (WideBits - 1)
          [] name = "__shr_u" /\ past -> 0
          [] n = -1 -> Cut(-m, wide)
          [] OTHER -> IF name = "__floor_div_i" THEN Floored(m, n) ELSE Quotient(m, n)
HelperIn(name, wide, x, y) ==
    CASE x.ends # "" -> x
      [] y.ends # "" -> y
      [] y.value = 0 /\ name \notin {"__shl", "__shr_i", "__shr_u"} -> Ends("stops")
      [] OTHER -> Cpp(wide, Helped(name, wide, x.value, y.value))
wide_of(name) == IF name \in {"__div_u", "__rem_u", "__shl", "__shr_u"} THEN "u64" ELSE "i64"
Helper(name, a, b) ==
    HelperIn(name, wide_of(name), To(a, wide_of(name)),
             To(b, IF name = "__shl" \/ name = "__shr_u" THEN "i64" ELSE wide_of(name)))

__power(t, a, b) ==
    LET made(x, y) == Cpp(t, Raised(x.value, y.value, t))
    IN  After2(To(a, t), To(b, t), made)

arithmetic_helper(t, op) ==
    LET sign == is_signed(t)
    IN  CASE op = "/" -> IF sign THEN "__div_i" ELSE "__div_u"
          [] op = "%" -> IF sign THEN "__rem_i" ELSE "__rem_u"
          [] op = "//" -> IF sign THEN "__floor_div_i" ELSE "__div_u"
          [] op = "<<" -> "__shl"
          [] op = ">>" -> IF sign THEN "__shr_i" ELSE "__shr_u"
          [] OTHER -> "__shr_u"

-----------------------------------------------------------------------------
\* The expressions.  A literal is written as it was read, and C++ gives it
\* the first of its types that holds it.
WrittenNumber(n) ==
    CASE n.is = "real" -> Cpp("f64", InFloat(n.value, "f64"))
      [] n.value <= limit_of("i32") -> Cpp("i32", n.value)
      [] n.value <= limit_of("i64") -> Cpp("i64", n.value)
      [] OTHER -> Cpp("u64", n.value)

\* What is written for a node, of what is written for its left and its right.
emit_binary(n, left, right) == Operator(n.is, left, right)

\* (mutant: a type narrower than an int left as C++ promotes it)
NotCutBack(n, left, right) ==
    LET twin == wrapping_type(n.type)
        done == Operator(n.is, To(left, twin), To(right, twin))
    IN  CASE twin = "none" -> emit_binary(n, left, right)
          [] bits_of(n.type) < IntBits -> done
          [] OTHER -> To(done, n.type)
WrappingIn(n, twin, left, right) ==
    IF twin = "none" THEN emit_binary(n, left, right)
    ELSE To(Operator(n.is, To(left, twin), To(right, twin)), n.type)
emit_wrapping(n, left, right) == WrappingIn(n, wrapping_type(n.type), left, right)

SignIn(n, twin, left) ==
    CASE n.is = "neg" /\ twin # "none" /\ n.of[1].is # "number" ->
           To(Unary("neg", To(left, twin)), n.type)
      [] n.is = "~" /\ twin # "none" /\ bits_of(n.type) < IntBits ->
           To(Unary("~", left), n.type)
      [] OTHER -> Unary(n.is, left)
emit_sign(n, left) == SignIn(n, wrapping_type(n.type), left)

emit_division(n, op, left, right) ==
    IF n.type \notin Whole \cup {"char"} \/ n.of[2].is = "number"
      THEN Operator(op, left, right)
      ELSE To(Helper(arithmetic_helper(n.type, op), left, right), n.type)

emit_floor_division(n, left, right) ==
    CASE is_an_unsigned_whole_number(n.type) -> emit_division(n, "/", left, right)
      [] n.type \in Floats -> HelperOfFloats
      [] n.type \in Whole -> To(Helper("__floor_div_i", left, right), n.type)
      [] OTHER -> Refused

Through(x, twin) == IF twin = "none" THEN x ELSE To(x, twin)
Back(t, twin, x) == IF twin = "none" THEN x ELSE To(x, t)
\* '>>>' of a signed number goes through its twin, and '<<' wraps.
ThroughOf(n) == IF n.is = "<<" THEN wrapping_type(n.type)
                ELSE IF n.is = ">>>" THEN unsigned_twin(n.type) ELSE "none"
ShiftIn(n, through, left, right) ==
    CASE n.of[2].is # "number" ->
           To(Helper(arithmetic_helper(n.type, n.is),
                     IF n.is = ">>>" THEN Through(left, through) ELSE left, right),
              n.type)
      [] OTHER ->
           Back(n.type, through,
                Operator(IF n.is = ">>>" THEN ">>" ELSE n.is,
                         Through(left, through), right))
emit_shift(n, left, right) == ShiftIn(n, ThroughOf(n), left, right)

emit_power(n, left, right) ==
    CASE n.type \in Floats -> HelperOfFloats
      [] n.type \notin Whole \cup Floats -> Refused
      [] OTHER ->
         To(__power(IF is_signed(n.type) THEN "i64" ELSE "u64", left, right), n.type)

\* A float that does not fit stops the program: both bounds are doubles.
emit_float_to_whole(t, x) ==
    LET low  == InFloat(2 * Lowest(t), "f64")
        high == InFloat(2 * (limit_of(t) + 1), "f64")
    IN  CASE x.ends # "" -> x
          [] x.value > InFloat(low - 2, "f64") /\ x.value < high -> To(x, t)
          [] OTHER -> Ends("stops")

emit_cast(n, left) ==
    IF n.of[1].type \in Floats /\ n.type \in Whole \cup {"char"}
    THEN emit_float_to_whole(n.type, To(left, "f64")) ELSE To(left, n.type)

emit_node(n, left, right) ==
    CASE n.is \in {"name", "call"} -> Cpp(n.type, n.value)
      [] n.is \in Literals -> WrittenNumber(n)
      [] n.is \in {"neg", "~"} -> emit_sign(n, left)
      [] n.is = "as" -> emit_cast(n, left)
      [] n.is \in {"+", "-", "*"} -> emit_wrapping(n, left, right)
      [] n.is \in {"/", "%"} -> emit_division(n, n.is, left, right)
      [] n.is = "//" -> emit_floor_division(n, left, right)
      [] n.is = "**" -> emit_power(n, left, right)
      [] n.is \in Shifts -> emit_shift(n, left, right)
      [] OTHER -> emit_binary(n, left, right)

RECURSIVE emit_expression(_)
emit_expression(n) ==
    emit_node(n, emit_expression(n.of[1]), emit_expression(n.of[Len(n.of)]))

-----------------------------------------------------------------------------
\* The assignments.  C++ works out the right side first, and then reads the
\* place.
Place(s) == Cpp(s.type, IF s.by.is = "call" THEN s.by.value ELSE s.place.value)

Seen(s, twin) == IF is_written_through_its_twin(s.type) THEN To(Place(s), twin) ELSE Place(s)

WrappingCompound(s, twin, by) ==
    IF twin = "none" THEN To(Operator(s.op, Place(s), by), s.type)
    ELSE To(Operator(s.op, Seen(s, twin), To(by, twin)), s.type)
emit_wrapping_compound(s, by) == WrappingCompound(s, wrapping_type(s.type), by)

emit_compound(s, by) ==
    LET t == s.type
        has_a_helper == \/ t \in Whole
                        \/ t = "char" /\ s.op \notin Shifts
                        \/ t \in Floats /\ s.op = "//"
        place == IF s.op = ">>>" /\ is_signed(t) THEN To(Place(s), unsigned_twin(t))
                 ELSE Place(s)
    IN  CASE ~has_a_helper /\ s.op \in {"//", ">>>"} -> Refused
          [] ~has_a_helper \/ (s.op \in {"/", "%"} /\ s.by.is = "number") ->
               To(Operator(s.op, Place(s), by), t)
          [] t \in Floats -> HelperOfFloats
          [] OTHER -> To(Helper(arithmetic_helper(t, s.op), place, To(by, t)), t)

\* '++x' and 'x++', and what each is read as.
ReadAs(s, x) ==
    IF x.ends # "" THEN x
    ELSE Cpp(s.type, <<IF s.op \in {"++x", "--x"} THEN x.value ELSE s.place.value, x.value>>)
emit_step(s) ==
    ReadAs(s, To(Operator(IF s.op \in {"++x", "x++"} THEN "+" ELSE "-",
                          Seen(s, wrapping_type(s.type)), Cpp("i32", 1)), s.type))

EmittedWith(s, by) ==
    CASE s.is = "let" -> To(by, s.type)
      [] s.op \in {"+", "-", "*"} -> emit_wrapping_compound(s, by)
      [] s.op \in {"&", "|", "^"} -> To(Operator(s.op, Place(s), by), s.type)
      [] OTHER -> emit_compound(s, by)
emitted(s) == IF s.is = "step" THEN emit_step(s)
              ELSE EmittedWith(s, emit_expression(s.by))
=============================================================================
