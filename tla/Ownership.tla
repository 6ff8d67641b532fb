----------------------------- MODULE Ownership -----------------------------
(***************************************************************************)
(* What a type says of the lives of its values, and what the front end lets *)
(* a program do with them (type_table/coercion.cpp and                     *)
(* override_checker/override_checker.cpp).                                  *)
(*                                                                         *)
(* A type is a record: its kind ("int", "class", "struct", "union", "enum", *)
(* "tuple" or "array"); its base, if any, in a sequence; its fields, each a *)
(* type that may be given a value; the 'init's it writes, "empty" for one   *)
(* that answers to no arguments, "args", "copy" and "move"; whether it      *)
(* writes a 'destroy'; and what each variant of an enum carries.  A type    *)
(* that writes a 'destroy' owns something, got by each of its 'init's.      *)
(*                                                                         *)
(* A place is an object and a path in it: 0 is the base, i the ith field or *)
(* element, v then i the ith thing variant v carries.  An event is a call of *)
(* a method somebody wrote, at a place, or "bits": what is at 'from' copied *)
(* byte by byte over what is at 'at'.                                      *)
(***************************************************************************)
EXTENDS Naturals, SequencesExt

Sub(place, i) == [place EXCEPT !.path = Append(@, i)]
Event(call, at, from) == <<[call |-> call, at |-> at, from |-> from]>>
Call(call, at) == Event(call, at, at)

\* What the parts of a value do, first to last or last to first.
InOrder(parts) == FlattenSeq(parts)
Backwards(parts) == FlattenSeq(Reverse(parts))

Named(type) == type.kind \in {"class", "struct", "union", "enum"}
HasBase(type) == type.base # <<>>
Base(type) == type.base[1]
Part(type, i) == type.fields[i].type
Parts(type) == Len(type.fields)
Carried(type, variant) == type.variants[variant]

-----------------------------------------------------------------------------
\* Coercion: what may be copied.

RECURSIVE declares(_, _)
declares(type, name) ==
    \/ IF name = "destroy" THEN type.destroy ELSE name \in type.inits
    \/ HasBase(type) /\ declares(Base(type), name)

declares_a_copy(type) == "copy" \in type.inits

\* Asked of the class itself and its bases, never of what it holds.
may_be_copied(type) ==
    ~Named(type) \/ ~declares(type, "destroy") \/ declares_a_copy(type)

is_moved(type) == Named(type) /\ "move" \in type.inits

-----------------------------------------------------------------------------
\* OverrideChecker: what a union may hold.

RECURSIVE has_no_lifetime(_)
is_plain(type) ==
    /\ HasBase(type) => has_no_lifetime(Base(type))
    /\ type.inits = {} /\ ~type.destroy
    /\ \A i \in 1 .. Parts(type) :
         ~type.fields[i].given /\ has_no_lifetime(Part(type, i))
has_no_lifetime(type) ==
    CASE type.kind = "int"   -> TRUE
      [] type.kind = "array" -> has_no_lifetime(Part(type, 1))
      [] type.kind = "enum"  ->
           \A v \in DOMAIN type.variants : type.variants[v] = <<>>
      [] type.kind \in {"struct", "union"} -> is_plain(type)
      [] OTHER -> FALSE

check_union_lifetime(type) ==
    \A i \in 1 .. Parts(type) : has_no_lifetime(Part(type, i))

\* A program's type: every union in it holds nothing with a life.
RECURSIVE Accepted(_)
Accepted(type) ==
    /\ type.kind = "union" => check_union_lifetime(type)
    /\ HasBase(type) => Accepted(Base(type))
    /\ \A i \in 1 .. Parts(type) : Accepted(Part(type, i))
    /\ \A v \in DOMAIN type.variants :
         \A i \in DOMAIN type.variants[v] : Accepted(type.variants[v][i])

-----------------------------------------------------------------------------
\* The owners in a value, as the bytes of it hold them: 'variant' is the one
\* an enum in it is.
RECURSIVE Owners(_, _, _)
Owners(type, place, variant) ==
    CASE type.kind \in {"int", "union"} -> <<>>
      [] type.kind = "enum" ->
           IF variant = 0 THEN <<>>
           ELSE LET inside == Sub(place, variant)
                    one(i) == Owners(Carried(type, variant)[i],
                                     Sub(inside, i), variant)
                IN  InOrder([i \in 1 .. Len(Carried(type, variant)) |-> one(i)])
      [] OTHER ->
           LET one(i) == Owners(Part(type, i), Sub(place, i), variant)
           IN  (IF HasBase(type)
                  THEN Owners(Base(type), Sub(place, 0), variant) ELSE <<>>)
               \o InOrder([i \in 1 .. Parts(type) |-> one(i)])
               \o (IF type.destroy THEN <<place>> ELSE <<>>)

BitsOf(into, out) ==
    [i \in DOMAIN into |-> [call |-> "bits", at |-> into[i], from |-> out[i]]]
Bits(type, to, from, variant) ==
    BitsOf(Owners(type, to, variant), Owners(type, from, variant))
=============================================================================
