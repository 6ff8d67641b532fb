-------------------------------- MODULE StdMap --------------------------------
(***************************************************************************)
(* What the library's Hash<K, V> promises, with no word about slots: it    *)
(* holds pairs, no two of one key, and answers one call at a time.         *)
(***************************************************************************)
CONSTANTS Keys, Values

VARIABLES
    held,       \* the pairs of key and value
    asked,      \* the call that is not answered yet: its name, key and value
    answer      \* what the last has and the last h[k] gave back

map == <<held, asked, answer>>

Pair == [key : Keys, value : Values]
Others(k) == {p \in held : p.key # k}

Init ==
    /\ held = {}
    /\ asked.name = "none"
    /\ answer = [has |-> FALSE, values |-> {}]

\* somebody asks for something
Ask ==
    /\ asked.name = "none"
    /\ asked'.name # "none"
    /\ UNCHANGED <<held, answer>>

Answered == asked.name # "none" /\ asked'.name = "none"

Has ==
    /\ asked.name = "has"
    /\ Answered
    /\ answer' = [answer EXCEPT !.has = \E p \in held : p.key = asked.key]
    /\ UNCHANGED held

Add ==
    /\ asked.name = "add"
    /\ Answered
    /\ held' = Others(asked.key) \cup {[key |-> asked.key, value |-> asked.value]}
    /\ UNCHANGED answer

Remove ==
    /\ asked.name = "remove"
    /\ Answered
    /\ held' = Others(asked.key)
    /\ UNCHANGED answer

\* h[k] of a key it does not hold makes it hold one, of a value nobody wrote
Fill ==
    /\ asked.name = "index"
    /\ Others(asked.key) = held
    /\ \E v \in Values : held' = held \cup {[key |-> asked.key, value |-> v]}
    /\ UNCHANGED <<asked, answer>>

Index ==
    /\ asked.name = "index"
    /\ Answered
    /\ \E p \in held : /\ p.key = asked.key
                       /\ answer' = [answer EXCEPT !.values = {p.value}]
    /\ UNCHANGED held

\* a copy holds what is copied
Copy ==
    /\ asked.name = "copy"
    /\ Answered
    /\ UNCHANGED <<held, answer>>

Next == Ask \/ Has \/ Add \/ Remove \/ Fill \/ Index \/ Copy

Spec == Init /\ [][Next]_map
=============================================================================
