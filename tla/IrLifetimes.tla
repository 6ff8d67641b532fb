----------------------------- MODULE IrLifetimes -----------------------------
(***************************************************************************)
(* What the IR of lowering/ir_lowerer.cpp and lowering/function_lowerer.cpp *)
(* runs for the same: the questions the lowerer asks of a type, and the    *)
(* functions it writes where a method is not enough (a 'structor').        *)
(***************************************************************************)
EXTENDS Ownership

destroy_of(type)    == type.destroy
copy_init_of(type)  == "copy" \in type.inits
move_init_of(type)  == "move" \in type.inits
empty_init_of(type) == "empty" \in type.inits
has_init(type)      == type.inits # {}
is_tagged(type)     == type.kind = "enum"
IsAggregate(type)   == type.kind \notin {"int", "array"}

\* What a question is asked of when it is not answered by the type itself.
PartsOf(type) ==
    (IF HasBase(type) THEN {Base(type)} ELSE {})
    \cup {Part(type, i) : i \in 1 .. Parts(type)}
VariantParts(type) == UNION {ToSet(type.variants[v]) : v \in DOMAIN type.variants}

RECURSIVE has_destructor(_), copies_by_init(_), constructs(_), declares_copy(_)
has_destructor(type) ==
    CASE is_tagged(type) -> (\E t \in VariantParts(type) : has_destructor(t))
      [] type.kind = "union" -> FALSE
      [] OTHER -> destroy_of(type) \/ (\E t \in PartsOf(type) : has_destructor(t))

\* A class always does: a copy of one writes its own table of methods.
copies_by_init(type) ==
    CASE is_tagged(type) -> (\E t \in VariantParts(type) : copies_by_init(t))
      [] type.kind \in {"struct", "tuple", "array"} ->
           copy_init_of(type) \/ (\E t \in PartsOf(type) : copies_by_init(t))
      [] OTHER -> type.kind = "class"
constructs(type) ==
    CASE type.kind = "class" -> TRUE
      [] type.kind \in {"struct", "tuple", "array"} ->
           \/ has_init(type) \/ (\E t \in PartsOf(type) : constructs(t))
           \/ \E i \in 1 .. Parts(type) : type.fields[i].given
      [] type.kind = "union" ->
           has_init(type) \/ \E i \in 1 .. Parts(type) : type.fields[i].given
      [] OTHER -> FALSE

assigns_by_field(type) ==
    /\ type.kind \in {"struct", "tuple", "class"} /\ ~copy_init_of(type)
    /\ \E t \in PartsOf(type) : declares_copy(t)
declares_copy(type) ==
    IF is_tagged(type)
    THEN \E t \in VariantParts(type) : has_destructor(t) \/ copies_by_init(t)
    ELSE /\ type.kind \in {"struct", "tuple", "class"}
         /\ copy_init_of(type) \/ assigns_by_field(type)

-----------------------------------------------------------------------------
\* The end: the 'destroy', the fields last to first, the base.
RECURSIVE destroy(_, _, _)
destroy_alive(type, at, was) ==
    LET carried == Carried(type, was)
        one(i) == destroy(carried[i], Sub(Sub(at, was), i), was)
    IN  IF was = 0 THEN <<>> ELSE Backwards([i \in 1 .. Len(carried) |-> one(i)])
destroy(type, at, was) ==
    LET one(i) == destroy(Part(type, i), Sub(at, i), was)
    IN  CASE ~has_destructor(type) -> <<>>
          [] is_tagged(type) -> destroy_alive(type, at, was)
          [] OTHER -> (IF destroy_of(type) THEN Call("destroy", at) ELSE <<>>)
                      \o Backwards([i \in 1 .. Parts(type) |-> one(i)])
                      \o (IF HasBase(type)
                            THEN destroy(Base(type), Sub(at, 0), was)
                            ELSE <<>>)

-----------------------------------------------------------------------------
RECURSIVE construct_by_default(_, _)
prepare(type, at) ==
    LET one(i) == IF type.fields[i].given
                  THEN Call("given", Sub(at, i))
                  ELSE construct_by_default(Part(type, i), Sub(at, i))
    IN  (IF HasBase(type)
           THEN construct_by_default(Base(type), Sub(at, 0)) ELSE <<>>)
        \o InOrder([i \in 1 .. Parts(type) |-> one(i)])
construct_by_default(type, at) ==
    IF ~constructs(type) THEN <<>>
    ELSE prepare(type, at)
         \o (IF empty_init_of(type) THEN Call("init", at) ELSE <<>>)

\* What is written for a part of a value, by what is done to it: "copy",
\* "assign" or "move assign".
RECURSIVE Written(_, _, _, _, _, _), CopyBody(_, _, _, _, _),
          assign_value(_, _, _, _)
CopyBody(type, to, from, was, is) ==
    LET one(i) == Written("assign", Part(type, i), Sub(to, i), Sub(from, i), was, is)
    IN  (IF HasBase(type) /\ copy_init_of(Base(type))
           THEN CopyBody(Base(type), Sub(to, 0), Sub(from, 0), was, is)
           ELSE <<>>)
        \o InOrder([i \in 1 .. Parts(type) |-> one(i)])
        \o Event("copy", to, from)

\* A class field by field, so that its table of methods stays; the rest by
\* their bytes.
copy_fields(type, to, from, is) ==
    LET one(i) == assign_value(Part(type, i), Sub(to, i), Sub(from, i), is)
    IN  (IF HasBase(type)
           THEN assign_value(Base(type), Sub(to, 0), Sub(from, 0), is)
           ELSE <<>>)
        \o InOrder([i \in 1 .. Parts(type) |-> one(i)])
        \o (IF destroy_of(type) THEN Event("bits", to, from) ELSE <<>>)
assign_value(type, to, from, is) ==
    IF type.kind = "class" THEN copy_fields(type, to, from, is)
    ELSE Bits(type, to, from, is)

copy_alive(type, to, from, is) ==
    LET carried == Carried(type, is)
        one(i) == Written("copy", carried[i], Sub(Sub(to, is), i),
                          Sub(Sub(from, is), i), 0, is)
    IN  IF is = 0 THEN <<>> ELSE InOrder([i \in 1 .. Len(carried) |-> one(i)])

\* The structor of a copy C++ would write itself.
lower_structor_copy(type, to, from, is) ==
    LET one(i) == Written("copy", Part(type, i), Sub(to, i), Sub(from, i), 0, is)
    IN  IF is_tagged(type) THEN copy_alive(type, to, from, is)
        ELSE (IF HasBase(type)
                THEN Written("copy", Base(type), Sub(to, 0), Sub(from, 0), 0, is)
                ELSE <<>>)
             \o InOrder([i \in 1 .. Parts(type) |-> one(i)])
             \o (IF destroy_of(type) THEN Event("bits", to, from) ELSE <<>>)
copy_construct(type, to, from, is) ==
    CASE ~copies_by_init(type) -> Bits(type, to, from, is)
      [] copy_init_of(type) ->
           prepare(type, to) \o CopyBody(type, to, from, 0, is)
      [] OTHER -> lower_structor_copy(type, to, from, is)

RECURSIVE move_tuple(_, _, _, _)
move_tuple(type, to, from, is) ==
    LET one(i) ==
          LET part == Part(type, i)
          IN  CASE part.kind = "tuple" ->
                     move_tuple(part, Sub(to, i), Sub(from, i), is)
                [] move_init_of(part) ->
                     prepare(part, Sub(to, i))
                     \o Event("move", Sub(to, i), Sub(from, i))
                [] OTHER -> Written("copy", part, Sub(to, i), Sub(from, i), 0, is)
    IN  InOrder([i \in 1 .. Parts(type) |-> one(i)])

\* A value built from '&&x'.
build_into(type, to, from, is) ==
    CASE type.kind = "tuple" -> move_tuple(type, to, from, is)
      [] move_init_of(type)  -> prepare(type, to) \o Event("move", to, from)
      [] OTHER -> Written("copy", type, to, from, 0, is)

-----------------------------------------------------------------------------
\* The structor of an assignment, by the 'init' named or part by part.
lower_structor_assign(type, to, from, was, is) ==
    LET one(i) == IF declares_copy(Part(type, i))
                  THEN Written("assign", Part(type, i), Sub(to, i), Sub(from, i),
                               was, is)
                  ELSE assign_value(Part(type, i), Sub(to, i), Sub(from, i), is)
    IN  CASE to = from -> <<>>
          [] is_tagged(type) ->
               destroy_alive(type, to, was) \o copy_alive(type, to, from, is)
          [] copy_init_of(type) ->
               (IF destroy_of(type) THEN Call("destroy", to) ELSE <<>>)
               \o CopyBody(type, to, from, was, is)
          [] OTHER ->
               (IF ~HasBase(type) THEN <<>>
                ELSE IF declares_copy(Base(type))
                THEN Written("assign", Base(type), Sub(to, 0), Sub(from, 0), was, is)
                ELSE copy_fields(Base(type), Sub(to, 0), Sub(from, 0), is))
               \o InOrder([i \in 1 .. Parts(type) |-> one(i)])
               \o (IF destroy_of(type) THEN Event("bits", to, from) ELSE <<>>)

\* 'moved' is whether '&&' was written before the right side.
assign_tuple(type, to, from, was, is, moved) ==
    LET how == IF moved THEN "move assign" ELSE "assign"
        one(i) == Written(how, Part(type, i), Sub(to, i), Sub(from, i), was, is)
    IN  InOrder([i \in 1 .. Parts(type) |-> one(i)])
Assign(type, to, from, was, is, moved) ==
    CASE type.kind = "tuple" -> assign_tuple(type, to, from, was, is, moved)
      [] moved /\ move_init_of(type) ->
           IF to = from THEN <<>>
           ELSE (IF destroy_of(type) THEN Call("destroy", to) ELSE <<>>)
                \o Event("move", to, from)
      [] declares_copy(type) -> lower_structor_assign(type, to, from, was, is)
      [] OTHER -> assign_value(type, to, from, is)
Written(how, type, to, from, was, is) ==
    IF how = "copy" THEN copy_construct(type, to, from, is)
    ELSE Assign(type, to, from, was, is, how = "move assign")
copies(type, to, from, is) == Written("copy", type, to, from, 0, is)
assignment(type, to, from, was, is) == Written("assign", type, to, from, was, is)
move_assignment(type, to, from, was, is) ==
    Written("move assign", type, to, from, was, is)
=============================================================================
