----------------------------- MODULE Lifetimes -----------------------------
(***************************************************************************)
(* Objects of one type, made, copied, moved, assigned and ended by a        *)
(* program the front end takes, compiled by either back end.  What an owner *)
(* owns is a resource: its 'init' gets one, its copy another, its move      *)
(* takes the other's, and its 'destroy' gives back what it has, if any.     *)
(***************************************************************************)
EXTENDS Ownership, FiniteSetsExt

CONSTANTS Types,    \* families of types
          Objects,
          BackEnds

Cpp == INSTANCE EmittedLifetimes
Ir  == INSTANCE IrLifetimes

VARIABLES type,    \* what every object is of
          by,      \* the back end
          alive,   \* the objects there are
          variant, \* what the enum in each is, if there is one
          held,    \* the resource at each place that was made, 0 for none
          owned,   \* the resources nobody gave back
          wrong    \* what a call found: "again", "gone", "never made" or "ok"

vars == <<type, by, alive, variant, held, owned, wrong>>

Place(x) == [of |-> x, path |-> <<>>]
Heap == [held |-> held, owned |-> owned, wrong |-> wrong]

Empty == <<>>

Init ==
    /\ \E family \in DOMAIN Types : type \in Types[family]
    /\ Accepted(type)
    /\ by \in BackEnds
    /\ alive = {} /\ variant = [x \in Objects |-> 0]
    /\ held = Empty /\ owned = {} /\ wrong = "ok"

-----------------------------------------------------------------------------
\* What each method does, as the owners in 'std' write theirs.
Is(h, place) == IF place \in DOMAIN h.held THEN h.held[place] ELSE 0
Put(h, place, r) == [h EXCEPT !.held = (place :> r) @@ @]
Fresh(h) ==
    Min(1 .. Cardinality(DOMAIN h.held) + Cardinality(h.owned) + 1
        \ (h.owned \cup {h.held[p] : p \in DOMAIN h.held}))
Gets(h, place) ==
    LET r == Fresh(h) IN [Put(h, place, r) EXCEPT !.owned = @ \cup {r}]
Gives(h, place) ==
    LET r == Is(h, place)
        as == CASE place \notin DOMAIN h.held     -> "never made"
                [] r # 0 /\ r \notin h.owned      -> "again"
                [] OTHER                          -> h.wrong
    IN  [h EXCEPT !.owned = @ \ {r}, !.wrong = as]
Reads(h, place) ==
    IF Is(h, place) \in h.owned \cup {0} THEN h ELSE [h EXCEPT !.wrong = "gone"]

Does(h, e) ==
    CASE e.call = "init" -> Gets(h, e.at)
      [] e.call = "copy" -> Gets(Reads(h, e.from), e.at)
      [] e.call = "move" -> Put(Put(h, e.at, Is(h, e.from)), e.from, 0)
      [] e.call = "bits" -> Put(h, e.at, Is(h, e.from))
      [] e.call = "destroy" -> Gives(h, e.at)
      [] OTHER -> h

\* A call at a place that owns nothing changes nothing here.
Run(events, owners) ==
    FoldLeft(Does, Heap, SelectSeq(events, LAMBDA e : e.at \in owners))
OwnersIn(objects) ==
    UNION {UNION {ToSet(Owners(type, Place(x), v)) :
                    v \in 0 .. Len(type.variants)} : x \in objects}
Becomes(h) == held' = h.held /\ owned' = h.owned /\ wrong' = h.wrong

-----------------------------------------------------------------------------
\* What each operation runs, by one back end or the other.
Of(back, cpp, ir) == IF back = "C++" THEN cpp ELSE ir

MakingOne(back, t, at) ==
    Of(back, Cpp!Constructed(t, at), Ir!construct_by_default(t, at))
Copying(back, x, y) ==
    Of(back, Cpp!copies(type, Place(x), Place(y), variant[y]),
             Ir!copies(type, Place(x), Place(y), variant[y]))
Moving(back, x, y) ==
    Of(back, Cpp!emit_moved(type, Place(x), Place(y), variant[y]),
             Ir!build_into(type, Place(x), Place(y), variant[y]))
Assigning(back, x, y) ==
    Of(back, Cpp!assignment(type, Place(x), Place(y), variant[x], variant[y]),
             Ir!assignment(type, Place(x), Place(y), variant[x], variant[y]))
MoveAssigning(back, x, y) ==
    Of(back, Cpp!emit_move_assignment(type, Place(x), Place(y), variant[x], variant[y]),
             Ir!move_assignment(type, Place(x), Place(y), variant[x], variant[y]))
Ending(back, x) ==
    Of(back, Cpp!Ended(type, Place(x), variant[x]), Ir!destroy(type, Place(x), variant[x]))

\* An enum is made by what is written for the variant it is to be.
Making(back, x, v) ==
    LET carried == Carried(type, v)
    IN  IF type.kind = "enum" /\ v # 0
        THEN InOrder([i \in DOMAIN carried |->
                        MakingOne(back, carried[i], Sub(Sub(Place(x), v), i))])
        ELSE MakingOne(back, type, Place(x))

-----------------------------------------------------------------------------
Variants == IF type.kind = "enum" THEN 1 .. Len(type.variants) ELSE {0}

Make(x) ==
    /\ x \notin alive
    /\ \E v \in Variants :
         /\ variant' = [variant EXCEPT ![x] = v]
         /\ Becomes(Run(Making(by, x, v), OwnersIn({x})))
    /\ alive' = alive \cup {x}
    /\ UNCHANGED <<type, by>>

Binds(x, y, events) ==
    /\ x \notin alive /\ y \in alive
    /\ Becomes(Run(events, OwnersIn({x, y})))
    /\ variant' = [variant EXCEPT ![x] = variant[y]]
    /\ alive' = alive \cup {x}
    /\ UNCHANGED <<type, by>>

Copy(x, y) == may_be_copied(type) /\ Binds(x, y, Copying(by, x, y))
Move(x, y) ==
    /\ may_be_copied(type) \/ is_moved(type)
    /\ Binds(x, y, Moving(by, x, y))

Writes(x, y, events) ==
    /\ {x, y} \subseteq alive
    /\ Becomes(Run(events, OwnersIn({x, y})))
    /\ variant' = [variant EXCEPT ![x] = variant[y]]
    /\ UNCHANGED <<type, by, alive>>

AssignTo(x, y) == may_be_copied(type) /\ Writes(x, y, Assigning(by, x, y))
MoveTo(x, y) ==
    /\ may_be_copied(type) \/ is_moved(type)
    /\ Writes(x, y, MoveAssigning(by, x, y))

\* The end of a scope: what was at its places is gone.
Without(h, x) == [h EXCEPT !.held = [p \in {q \in DOMAIN @ : q.of # x} |-> @[p]]]
End(x) ==
    /\ x \in alive
    /\ alive' = alive \ {x}
    /\ Becomes(Without(Run(Ending(by, x), OwnersIn({x})), x))
    /\ variant' = [variant EXCEPT ![x] = 0]
    /\ UNCHANGED <<type, by>>

Next == \E x \in Objects :
    \/ Make(x) \/ End(x)
    \/ \E y \in Objects : \/ Copy(x, y) \/ Move(x, y)
                          \/ AssignTo(x, y) \/ MoveTo(x, y)

Spec == Init /\ [][Next]_vars

-----------------------------------------------------------------------------
\* The places that own something now.
Owning == UNION {ToSet(Owners(type, Place(x), variant[x])) : x \in alive}

\* Whatever the program does with its objects, each thing an owner got is held
\* by one object alone until it is given back, and is given back once: no copy
\* shares what it copied, no assignment writes over what was there, nothing is
\* ended that was never made, and the end of the last object leaves nothing
\* (docs/design/0031).
OneHolder ==
    /\ wrong = "ok"
    /\ \A r \in owned : Cardinality({p \in Owning \cap DOMAIN held : held[p] = r}) = 1
    /\ \A p \in Owning \cap DOMAIN held : held[p] # 0 => held[p] \in owned

\* The interpreter is checked against the C++, and what the C++ does is the
\* rule (lowering/function_lowerer.cpp:310-312): the two call the same methods
\* of the program, on the same places, in the same order, for what made each
\* object and for each thing the program may do next, and neither is text a
\* compiler refuses.
BackEndsAgree ==
    \A x \in Objects :
      /\ x \in alive =>
           /\ Making("C++", x, variant[x]) = Making("IR", x, variant[x])
           /\ Ending("C++", x) = Ending("IR", x)
      /\ \A y \in alive :
           /\ may_be_copied(type) =>
                IF x \in alive THEN Assigning("C++", x, y) = Assigning("IR", x, y)
                ELSE Copying("C++", x, y) = Copying("IR", x, y)
           /\ may_be_copied(type) \/ is_moved(type) =>
                IF x \in alive THEN MoveAssigning("C++", x, y) = MoveAssigning("IR", x, y)
                ELSE Moving("C++", x, y) = Moving("IR", x, y)

\* The two together, for the types on which one of them fails.
OnceAndAlike == OneHolder /\ BackEndsAgree
=============================================================================
