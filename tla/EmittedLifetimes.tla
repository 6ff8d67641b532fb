-------------------------- MODULE EmittedLifetimes --------------------------
(***************************************************************************)
(* What the C++ of emitter/emitter.cpp runs when a value is made, copied,  *)
(* moved, assigned or ended: the members the emitter writes into a class,  *)
(* an enum and a tuple, and what C++ does by itself where it writes none.  *)
(* A "refused" is text no C++ compiler takes.                              *)
(*                                                                         *)
(* 'to' and 'from' are places; 'was' and 'is' are the variants an enum in  *)
(* them is.                                                                *)
(***************************************************************************)
EXTENDS Ownership

copy_init_of(type) == "copy" \in type.inits
move_init_of(type) == "move" \in type.inits
declares_a_nullary_init(type) == "empty" \in type.inits

holds_a_class(type) ==
    \E v \in DOMAIN type.variants :
      \E i \in DOMAIN type.variants[v] : Named(type.variants[v][i])

RECURSIVE moves(_)
tuple_moves(type) == \E i \in 1 .. Parts(type) : moves(Part(type, i))
moves(type) ==
    \/ type.kind = "tuple" /\ tuple_moves(type)
    \/ Named(type) /\ type.kind # "enum" /\ move_init_of(type)

\* A fixed array never does: it is assigned by C++'s '='.
RECURSIVE declares_copy(_)
assigns_by_field(type) ==
    /\ type.kind # "enum" /\ ~copy_init_of(type)
    /\ \/ HasBase(type) /\ declares_copy(Base(type))
       \/ \E i \in 1 .. Parts(type) : declares_copy(Part(type, i))
declares_copy(type) ==
    CASE type.kind = "tuple" ->
           \E i \in 1 .. Parts(type) : declares_copy(Part(type, i))
      [] type.kind = "enum" -> holds_a_class(type)
      [] OTHER -> Named(type) /\ (copy_init_of(type) \/ assigns_by_field(type))

-----------------------------------------------------------------------------
\* The end: '~T' calls 'destroy', then C++ ends the fields, last to first, and
\* the base; an enum's '__clear' ends what the variant alive carries, if it is
\* a class.
RECURSIVE Ended(_, _, _)
__clear(type, at, was) ==
    LET carried == Carried(type, was)
        one(i) == IF Named(carried[i])
                  THEN Ended(carried[i], Sub(Sub(at, was), i), was) ELSE <<>>
    IN  IF was = 0 THEN <<>> ELSE InOrder([i \in 1 .. Len(carried) |-> one(i)])
Ended(type, at, was) ==
    IF type.kind = "enum" THEN __clear(type, at, was)
    ELSE LET one(i) == Ended(Part(type, i), Sub(at, i), was)
         IN  (IF type.destroy THEN Call("destroy", at) ELSE <<>>)
             \o Backwards([i \in 1 .. Parts(type) |-> one(i)])
             \o (IF HasBase(type)
                   THEN Ended(Base(type), Sub(at, 0), was) ELSE <<>>)

-----------------------------------------------------------------------------
\* The members made ready, which every constructor but the implicit copy does
\* before its body: the base by its constructor of no arguments, each field by
\* the value written on it or by its own.
RECURSIVE Constructed(_, _)
Ready(type, at) ==
    LET one(i) == IF type.fields[i].given
                  THEN Call("given", Sub(at, i))
                  ELSE Constructed(Part(type, i), Sub(at, i))
    IN  (IF HasBase(type) THEN Constructed(Base(type), Sub(at, 0)) ELSE <<>>)
        \o InOrder([i \in 1 .. Parts(type) |-> one(i)])

\* With no 'init' that answers to none the body of that constructor is empty.
Constructed(type, at) ==
    IF type.kind = "enum" THEN Call("first variant", at)
    ELSE Ready(type, at) \o (IF declares_a_nullary_init(type)
                             THEN Call("init", at) ELSE <<>>)

\* A class written by hand copies its base with 'super(other)', assigns each
\* field, and then gets what it owns itself.
\* A part is copied or assigned: Written.
RECURSIVE Written(_, _, _, _, _, _), CopyBody(_, _, _, _, _)
CopyBody(type, to, from, was, is) ==
    LET one(i) == Written("assign", Part(type, i), Sub(to, i), Sub(from, i), was, is)
    IN  (IF HasBase(type) /\ copy_init_of(Base(type))
           THEN CopyBody(Base(type), Sub(to, 0), Sub(from, 0), was, is)
           ELSE <<>>)
        \o InOrder([i \in 1 .. Parts(type) |-> one(i)])
        \o Event("copy", to, from)
MoveBody(to, from) == Event("move", to, from)

\* The enum's copy: the tag, then what the variant alive carries.
__copy(type, to, from, is) ==
    LET carried == Carried(type, is)
        one(i) == Written("copy", carried[i], Sub(Sub(to, is), i),
                          Sub(Sub(from, is), i), 0, is)
    IN  IF is = 0 THEN <<>> ELSE InOrder([i \in 1 .. Len(carried) |-> one(i)])

\* The copy constructor: the one the emitter writes around a copy 'init', or
\* C++'s own, member by member.
Copied(type, to, from, is) ==
    CASE type.kind = "enum" -> __copy(type, to, from, is)
      [] copy_init_of(type) ->
           Ready(type, to) \o CopyBody(type, to, from, 0, is)
      [] OTHER ->
           LET one(i) == Written("copy", Part(type, i), Sub(to, i), Sub(from, i), 0, is)
           IN  (IF HasBase(type)
                  THEN Written("copy", Base(type), Sub(to, 0), Sub(from, 0), 0, is)
                  ELSE <<>>)
               \o InOrder([i \in 1 .. Parts(type) |-> one(i)])
               \o (IF type.destroy THEN Event("bits", to, from) ELSE <<>>)

\* '&&x' where a value is built: the move 'init' by its tag, a tuple by its
\* '__move', anything else by its copy.
RECURSIVE emit_moved(_, _, _, _)
emit_moved(type, to, from, is) ==
    CASE type.kind = "tuple" /\ tuple_moves(type) ->
           LET one(i) == emit_moved(Part(type, i), Sub(to, i), Sub(from, i), is)
           IN  InOrder([i \in 1 .. Parts(type) |-> one(i)])
      [] Named(type) /\ moves(type) -> Ready(type, to) \o MoveBody(to, from)
      [] OTHER -> Written("copy", type, to, from, 0, is)

-----------------------------------------------------------------------------
\* (mutant: what was there is written over)
AssignedOver(type, to, from, was, is) == CopyBody(type, to, from, was, is)

\* The 'm_assign' around a copy 'init': ended, then copied into.
emit_structors_assign(type, to, from, was, is) ==
    (IF type.destroy THEN Call("destroy", to) ELSE <<>>)
    \o CopyBody(type, to, from, was, is)

\* (mutant: a base's assignment left out, its fields being none of the class's)
FieldsAlone(type, to, from, was, is) ==
    LET one(i) == Written("assign", Part(type, i), Sub(to, i), Sub(from, i), was, is)
    IN  InOrder([i \in 1 .. Parts(type) |-> one(i)])

\* The one written where a base or a field needs one: each by its own rule,
\* and by '=' what has none.
emit_assignment_by_field(type, to, from, was, is) ==
    LET one(i) ==
          IF ~declares_copy(Part(type, i)) /\ Part(type, i).kind = "array"
          THEN Call("refused", Sub(to, i))
          ELSE Written("assign", Part(type, i), Sub(to, i), Sub(from, i), was, is)
    IN  (IF HasBase(type)
           THEN Written("assign", Base(type), Sub(to, 0), Sub(from, 0), was, is)
           ELSE <<>>)
        \o InOrder([i \in 1 .. Parts(type) |-> one(i)])
        \o (IF type.destroy THEN Event("bits", to, from) ELSE <<>>)

\* An assignment.  An 'm_assign' of an object to itself does nothing.
Assigned(type, to, from, was, is) ==
    CASE ~declares_copy(type) -> Bits(type, to, from, is)
      [] to = from -> <<>>
      [] type.kind = "enum" ->
           __clear(type, to, was) \o __copy(type, to, from, is)
      [] Named(type) /\ copy_init_of(type) ->
           emit_structors_assign(type, to, from, was, is)
      [] OTHER -> emit_assignment_by_field(type, to, from, was, is)

Written(how, type, to, from, was, is) ==
    IF how = "copy" THEN Copied(type, to, from, is)
    ELSE Assigned(type, to, from, was, is)

RECURSIVE emit_move_assignment(_, _, _, _, _)
emit_move_assignment(type, to, from, was, is) ==
    CASE type.kind = "tuple" /\ tuple_moves(type) ->
           LET one(i) == emit_move_assignment(Part(type, i), Sub(to, i),
                                              Sub(from, i), was, is)
           IN  InOrder([i \in 1 .. Parts(type) |-> one(i)])
      [] Named(type) /\ moves(type) ->
           IF to = from THEN <<>>
           ELSE (IF type.destroy THEN Call("destroy", to) ELSE <<>>)
                \o MoveBody(to, from)
      [] OTHER -> Written("assign", type, to, from, was, is)

copies(type, to, from, is) == Written("copy", type, to, from, 0, is)
assignment(type, to, from, was, is) == Written("assign", type, to, from, was, is)
=============================================================================
