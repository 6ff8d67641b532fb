---------------------------- MODULE IrArithmetic ----------------------------
(***************************************************************************)
(* What the IR of a statement over numbers computes: the instructions       *)
(* FunctionLowerer writes for it (lowering/function_lowerer.cpp) and what    *)
(* each is worth in the interpreter (ir/ir_interpreter.cpp).                *)
(*                                                                         *)
(* A value of the IR is bits with no sign, as many as its type has; a       *)
(* written number may have more, since nothing masks a constant.  A float's *)
(* are the float, and of what a float does the module has what Arithmetic   *)
(* has: float_helper, and what FMUL and FDIV are worth, are not here.       *)
(***************************************************************************)
EXTENDS Arithmetic

Ir(value) == [ends |-> "", value |-> value]
NotYet == [ends |-> "not yet", value |-> 0]

First(x, F(_)) == IF x.ends # "" THEN x ELSE F(x.value)
First2(x, y, F(_, _)) ==
    IF x.ends # "" THEN x ELSE IF y.ends # "" THEN y ELSE F(x.value, y.value)

\* The types of the IR: a whole number's is its size.
is_float_type(t) == t \in Floats
ir_type(t) == IF t \in Floats \cup {"bool"} THEN <<t>> ELSE <<"whole", bits_of(t)>>
bits(t) == IF t = "bool" THEN 1 ELSE bits_of(t)

mask(v, width) == v % 2 ^ width
widen(v, width) == LET top == 2 ^ (width - 1)
                   IN  ((mask(v, width) + top) % (2 * top)) - top

-----------------------------------------------------------------------------
\* The interpreter's instructions.
IrInterpreter_arithmetic(opcode, t, left, right) ==
    LET width == bits(t)
        a == widen(left, width)
        b == widen(right, width)
        cut(v) == Ir(mask(v, width))
    IN  CASE opcode = "ADD" -> cut(left + right)
          [] opcode = "SUB" -> cut(left - right)
          [] opcode = "MUL" -> cut(left * right)
          [] opcode \in {"SDIV", "SREM", "UDIV", "UREM"} /\ right = 0 -> Stops
          [] opcode = "UMULHI" -> cut((left * right) \div 2 ^ width)
          [] opcode = "SMULHI" -> cut((a * b) \div 2 ^ width)
          [] opcode = "UDIV" -> Ir(left \div right)
          [] opcode = "UREM" -> Ir(left % right)
          [] opcode = "SDIV" -> cut(IF b = -1 THEN -left ELSE Quotient(a, b))
          [] opcode = "SREM" -> cut(IF b = -1 THEN 0 ELSE Remainder(a, b))
          [] opcode = "AND" -> Ir(left & right)
          [] opcode = "OR" -> Ir(left | right)
          [] opcode = "XOR" -> Ir(left ^^ right)
          [] opcode = "SHL" -> IF right >= width THEN Ir(0) ELSE cut(left * 2 ^ right)
          [] opcode = "LSHR" -> Ir(IF right >= width THEN 0 ELSE left \div 2 ^ right)
          [] opcode = "ASHR" /\ right >= width -> cut(IF a < 0 THEN -1 ELSE 0)
          [] opcode = "ASHR" -> cut(a \div 2 ^ right)
          [] opcode = "FADD" -> Ir(InFloat(left + right, t))
          [] opcode = "FSUB" -> Ir(InFloat(left - right, t))

IrInterpreter_compare(opcode, t, left, right) ==
    LET a == widen(left, bits(t))
        b == widen(right, bits(t))
        is == CASE opcode \in {"FEQ", "EQ"} -> left = right
                [] opcode \in {"FNE", "NE"} -> left # right
                [] opcode = "SLT" -> a < b
                [] opcode = "SLE" -> a <= b
                [] opcode = "SGT" -> a > b
                [] opcode = "SGE" -> a >= b
                [] opcode \in {"FLT", "ULT"} -> left < right
                [] opcode \in {"FLE", "ULE"} -> left <= right
                [] opcode \in {"FGT", "UGT"} -> left > right
                [] opcode \in {"FGE", "UGE"} -> left >= right
    IN  Ir(IF is THEN 1 ELSE 0)

IrInterpreter_convert(opcode, from, to, v) ==
    LET width == bits(to)
        s == opcode = "FPTOSI"
        low  == InFloat(IF s THEN -(2 ^ width) ELSE 0, "f64")
        high == InFloat(IF s THEN 2 ^ width ELSE 2 * 2 ^ width, "f64")
    IN  CASE opcode \in {"TRUNC", "ZEXT"} -> Ir(mask(v, width))
          [] opcode = "SEXT" -> Ir(mask(widen(v, bits(from)), width))
          [] opcode = "SITOFP" -> Ir(InFloat(2 * widen(v, bits(from)), to))
          [] opcode = "UITOFP" -> Ir(InFloat(2 * v, to))
          [] opcode \in {"FPTOSI", "FPTOUI"} ->
               IF v > InFloat(low - 2, "f64") /\ v < high
                 THEN Ir(mask(Towards0(v, 2), width)) ELSE Stops
          [] OTHER -> Ir(InFloat(v, to))

-----------------------------------------------------------------------------
\* The instructions written for an operator.
opcode_of(op, t) ==
    LET sign == is_signed(t)
    IN  CASE is_float_type(t) ->
               (CASE op = "+" -> "FADD" [] op = "-" -> "FSUB"
                  [] op = "*" -> "FMUL" [] op = "/" -> "FDIV"
                  [] OTHER -> "not yet")
          [] ~is_a_whole_number(t) /\ ~(t = "bool" /\ op \in {"&", "|", "^"}) ->
               "not yet"
          [] op = "+" -> "ADD"
          [] op = "-" -> "SUB"
          [] op = "*" -> "MUL"
          [] op = "/" -> IF sign THEN "SDIV" ELSE "UDIV"
          [] op = "//" -> "UDIV"
          [] op = "%" -> IF sign THEN "SREM" ELSE "UREM"
          [] op = "&" -> "AND"
          [] op = "|" -> "OR"
          [] op = "^" -> "XOR"
          [] op = "<<" -> "SHL"
          [] op = ">>" -> IF sign THEN "ASHR" ELSE "LSHR"
          [] op = ">>>" -> "LSHR"
          [] OTHER -> "not yet"

\* As many multiplications as the exponent says.
power(t, base, exponent) ==
    LET n == widen(exponent, bits(t))
        minus_one == mask(-1, bits(t))
        so_far[k \in 0 .. exponent] ==
            IF k = 0 THEN 1
            ELSE IrInterpreter_arithmetic("MUL", t, so_far[k - 1], base).value
    IN  CASE ~is_signed(t) \/ n >= 0 -> Ir(so_far[exponent])
          [] base = 1 -> Ir(1)
          [] base = minus_one -> Ir(IF n % 2 = 0 THEN 1 ELSE minus_one)
          [] OTHER -> Ir(0)

\* The quotient, and one less where it was not exact and the remainder and
\* the divisor have opposite signs.
floor_division(t, left, right) ==
    LET rest(quotient, remainder) ==
          LET apart == (widen(remainder, bits(t)) < 0) # (widen(right, bits(t)) < 0)
          IN  IF remainder # 0 /\ apart
                THEN IrInterpreter_arithmetic("SUB", t, quotient, 1) ELSE Ir(quotient)
    IN  First2(IrInterpreter_arithmetic("SDIV", t, left, right),
               IrInterpreter_arithmetic("SREM", t, left, right), rest)

apply(op, t, left, right) ==
    CASE op = "//" /\ is_signed(t) -> floor_division(t, left, right)
      [] op = "**" /\ is_a_whole_number(t) -> power(t, left, right)
      [] opcode_of(op, t) = "not yet" -> NotYet
      [] OTHER -> IrInterpreter_arithmetic(opcode_of(op, t), t, left, right)

\* A character moved by a whole number, cut to its bits.
move_char(op, character, by) ==
    IrInterpreter_arithmetic(IF op = "-" THEN "SUB" ELSE "ADD", "char", character,
                             mask(by, bits("char")))

-----------------------------------------------------------------------------
\* The expressions.
constant(n) == Ir(IF n.is = "real" THEN InFloat(n.value, n.type) ELSE n.value)

\* What a variable holds, or a call gave back.
held(v, t) == IF is_float_type(t) THEN v ELSE mask(v, bits(t))

RECURSIVE value_of(_)
arithmetic(n) ==
    LET s == n.of[1].type
        t == n.of[2].type
        made(x, y) ==
          CASE n.is = "-" /\ s = "char" /\ t = "char" ->
                 IrInterpreter_arithmetic("SUB", n.type, x, y)
            [] n.is \in {"+", "-"} /\ s = "char" /\ is_a_whole_number(t) ->
                 move_char(n.is, x, y)
            [] OTHER -> apply(n.is, n.type, x, y)
    IN  First2(value_of(n.of[1]), value_of(n.of[2]), made)

\* (mutant: every whole number compared as if it had a sign)
AllSigned(n) ==
    LET t == n.of[1].type
        word == CASE n.is = "==" -> "EQ" [] n.is = "!=" -> "NE" [] n.is = "<" -> "LT"
                  [] n.is = "<=" -> "LE" [] n.is = ">" -> "GT" [] OTHER -> "GE"
        opcode == IF word \in {"EQ", "NE"} THEN word ELSE "S" \o word
        made(x, y) == IrInterpreter_compare(opcode, t, x, y)
    IN  First2(value_of(n.of[1]), value_of(n.of[2]), made)
comparison(n) ==
    LET t == n.of[1].type
        word == CASE n.is = "==" -> "EQ" [] n.is = "!=" -> "NE" [] n.is = "<" -> "LT"
                  [] n.is = "<=" -> "LE" [] n.is = ">" -> "GT" [] OTHER -> "GE"
        opcode == CASE is_float_type(t) -> "F" \o word
                    [] word \in {"EQ", "NE"} -> word
                    [] is_signed(t) -> "S" \o word
                    [] OTHER -> "U" \o word
        made(x, y) == IrInterpreter_compare(opcode, t, x, y)
    IN  First2(value_of(n.of[1]), value_of(n.of[2]), made)

conversion(n) ==
    LET from == n.of[1].type
        to   == n.type
        whole_from == is_a_whole_number(from) \/ from \in {"bool", "char"}
        whole_to == is_a_whole_number(to) \/ to = "char"
        opcode ==
          CASE whole_from /\ whole_to ->
                 (CASE from = "bool" -> "ZEXT"
                    [] bits(to) < bits(from) -> "TRUNC"
                    [] is_signed(from) -> "SEXT"
                    [] OTHER -> "ZEXT")
            [] whole_from /\ is_float_type(to) ->
                 IF is_signed(from) THEN "SITOFP" ELSE "UITOFP"
            [] is_float_type(from) /\ whole_to ->
                 IF is_signed(to) THEN "FPTOSI" ELSE "FPTOUI"
            [] is_float_type(from) /\ is_float_type(to) ->
                 IF to = "f64" THEN "FPEXT" ELSE "FPTRUNC"
            [] OTHER -> "not yet"
        made(v) == CASE ir_type(from) = ir_type(to) -> Ir(v)
                     [] opcode = "not yet" -> NotYet
                     [] OTHER -> IrInterpreter_convert(opcode, from, to, v)
    IN  First(value_of(n.of[1]), made)

sign(n) ==
    LET made(v) ==
          CASE n.is = "neg" /\ is_float_type(n.type) -> Ir(-v)
            [] ~is_a_whole_number(n.type) -> NotYet
            [] n.is = "neg" -> Ir(mask(-v, bits(n.type)))
            [] OTHER -> Ir(mask(-v - 1, bits(n.type)))
    IN  First(value_of(n.of[1]), made)

value_of(n) ==
    CASE is_untyped_literal(n) -> constant(n)
      [] n.of = <<>> -> Ir(held(n.value, n.type))
      [] n.is \in {"neg", "~"} -> sign(n)
      [] n.is = "as" -> conversion(n)
      [] n.is \in Comparisons -> comparison(n)
      [] OTHER -> arithmetic(n)

-----------------------------------------------------------------------------
\* The statements: what is stored.  The place of a compound assignment is
\* read before the right side runs.
assignment(s) ==
    LET old == held(s.place.value, s.type)
        made(by) == CASE s.op = "=" -> Ir(by)
                      [] s.op \in {"+", "-"} /\ s.type = "char"
                         /\ is_a_whole_number(s.by.type) -> move_char(s.op, old, by)
                      [] OTHER -> apply(s.op, s.type, old, by)
    IN  First(value_of(s.by), made)

increment(s) ==
    LET old == held(s.place.value, s.type)
        made == IrInterpreter_arithmetic(IF s.op \in {"++x", "x++"} THEN "ADD" ELSE "SUB",
                                         s.type, old, 1).value
    IN  IF ~is_a_whole_number(s.type) THEN NotYet
        ELSE Ir(<<IF s.op \in {"++x", "--x"} THEN made ELSE old, made>>)

\* What is stored, and read again as the type it has.
ReadAs(v, t) == IF t \in Floats \cup {"bool"} THEN v ELSE Cut(v, t)
interpreted(s) ==
    LET seen(v) == IF s.is = "step" THEN Ir(<<ReadAs(v[1], s.type), ReadAs(v[2], s.type)>>)
                   ELSE Ir(ReadAs(v, s.type))
    IN  First(IF s.is = "step" THEN increment(s) ELSE assignment(s), seen)
=============================================================================
