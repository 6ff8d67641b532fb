------------------------------- MODULE StdHash -------------------------------
(***************************************************************************)
(* The library's Hash<K, V> (src/std/hash.hd): open addressing in three    *)
(* parallel buffers, linear probing, tombstones, and a table twice the     *)
(* size when half is taken.                                                *)
(*                                                                         *)
(* Every turn of a loop is a step. The buffers are one function, `pairs`,  *)
(* whose domain is the slots of state 1; `gone` is the slots of state 2,   *)
(* whose key and value nothing reads. A call to add within grow and within *)
(* the copying init finds less than half taken, so the table is never      *)
(* grown while it is rebuilt: a state where it would be has no next step.  *)
(***************************************************************************)
EXTENDS Integers, FiniteSets

CONSTANTS
    Keys,
    Values,
    HashOf,             \* the overload of hash_of that the clone resolves to
    InitialCapacity     \* 8 in the code

ASSUME DataAssumption == Keys # {} /\ Values # {}
ASSUME HashAssumption == HashOf \in [Keys -> Nat]
ASSUME CapacityAssumption ==
    InitialCapacity \in Nat \ {0} /\ InitialCapacity % 2 = 0

VARIABLES
    capacity, pairs, gone, size,    \* the fields
    asked,      \* the call the program made of the object
    answer,     \* what has and operator[] gave back last
    step,       \* where the call is
    adding,     \* whether it is inside add
    item,       \* the arguments of that add
    at, walked, \* the locals of slot_of and of free_slot_for
    old,        \* what is rebuilt: the old buffers, and the add that waits
    moved       \* how much of it has been

table == <<capacity, pairs, gone, size>>
probe == <<at, walked>>
rebuild == <<old, moved>>
call == <<asked, answer>>
vars == <<table, call, step, adding, item, probe, rebuild>>

Pair == [key : Keys, value : Values]
Call == [name : {"none", "has", "remove", "index", "add", "copy"},
         key : Keys, value : Values]
Slots == 0 .. capacity - 1
Taken == DOMAIN pairs
Buffers == [s \in {} |-> s]         \* three buffers where nothing is taken

\* A local that is not in use holds anything; one value stands for all.
NoItem == [key |-> CHOOSE k \in Keys : TRUE, value |-> CHOOSE v \in Values : TRUE]
NoCall == [name |-> "none", key |-> NoItem.key, value |-> NoItem.value]
NotRebuilt == [capacity |-> 0, pairs |-> Buffers, item |-> NoItem]
Rebuilding == old.capacity > 0

-----------------------------------------------------------------------------
(* The table.                                                              *)

Home(k) == HashOf[k] % capacity
SlotAfter(s) == IF s + 1 = capacity THEN 0 ELSE s + 1

Holds(s, k) == s \in Taken /\ pairs[s].key = k

\* (mutant: a search stops at a tombstone)
EmptyOrGone(s) == s \notin Taken

Empty(s) == s \notin Taken \cup gone
Exhausted == walked = capacity

\* (mutant: more than half)
MoreThanHalfTaken == size * 2 > capacity

HalfTaken == size * 2 >= capacity

Put(s, p) == [t \in Taken \cup {s} |-> IF t = s THEN p ELSE pairs[t]]
Without(s) == [t \in Taken \ {s} |-> pairs[t]]

\* (mutant: a removed slot is as one never used)
TombstonesNone(s) == gone

Tombstones(s) == gone \cup {s}

-----------------------------------------------------------------------------
(* Calls and returns.                                                      *)

Init ==
    /\ capacity = InitialCapacity
    /\ pairs = Buffers
    /\ gone = {}
    /\ size = 0
    /\ asked = NoCall
    /\ answer = [has |-> FALSE, values |-> {}]
    /\ step = "idle"
    /\ adding = FALSE
    /\ item = NoItem
    /\ at = 0
    /\ walked = 0
    /\ old = NotRebuilt
    /\ moved = 0

\* slot_of(k) begins.
Search(k) ==
    /\ step' = "search"
    /\ at' = Home(k)
    /\ walked' = 0

\* The call the program made is over.
Return ==
    /\ step' = "idle"
    /\ asked' = NoCall
    /\ adding' = FALSE
    /\ item' = NoItem
    /\ at' = 0
    /\ walked' = 0

\* add(k, v) is over: in a rebuild the next slot is looked at, in operator[]
\* the slot is searched for again, and otherwise the program goes on.
ReturnFromAdd ==
    \/ /\ Rebuilding
       /\ step' = "move"
       /\ moved' = moved + 1
       /\ adding' = FALSE
       /\ item' = NoItem
       /\ at' = 0
       /\ walked' = 0
       /\ UNCHANGED <<old, asked>>
    \/ /\ ~Rebuilding
       /\ asked.name = "index"
       /\ Search(asked.key)
       /\ adding' = FALSE
       /\ item' = NoItem
       /\ UNCHANGED <<rebuild, asked>>
    \/ /\ ~Rebuilding
       /\ asked.name = "add"
       /\ Return
       /\ UNCHANGED rebuild

AskKey(name, k) ==
    /\ step = "idle"
    /\ asked' = [NoCall EXCEPT !.name = name, !.key = k]
    /\ Search(k)
    /\ UNCHANGED <<table, answer, adding, item, rebuild>>

AskAdd(k, v) ==
    /\ step = "idle"
    /\ asked' = [name |-> "add", key |-> k, value |-> v]
    /\ step' = "add"
    /\ adding' = TRUE
    /\ item' = [key |-> k, value |-> v]
    /\ UNCHANGED <<table, answer, probe, rebuild>>

\* The buffers are made anew, with c slots, and what was in them is moved.
Rebuild(c, waiting) ==
    /\ old' = [capacity |-> capacity, pairs |-> pairs, item |-> waiting]
    /\ capacity' = c
    /\ pairs' = Buffers
    /\ gone' = {}
    /\ size' = 0
    /\ moved' = 0
    /\ step' = "move"
    /\ adding' = FALSE
    /\ item' = NoItem

\* The program copies the object and goes on with the copy.
AskCopy ==
    /\ step = "idle"
    /\ asked' = [NoCall EXCEPT !.name = "copy"]
    /\ Rebuild(capacity, NoItem)
    /\ UNCHANGED <<answer, probe>>

-----------------------------------------------------------------------------
(* add and grow.                                                           *)

EnterAdd ==
    /\ step = "add"
    /\ ~HalfTaken
    /\ Search(item.key)
    /\ UNCHANGED <<table, call, adding, item, rebuild>>

Grow ==
    /\ step = "add"
    /\ HalfTaken
    /\ ~Rebuilding
    /\ Rebuild(2 * capacity, item)
    /\ UNCHANGED <<call, probe>>

MoveSlot ==
    /\ step = "move"
    /\ moved < old.capacity
    /\ moved \in DOMAIN old.pairs
    /\ step' = "add"
    /\ adding' = TRUE
    /\ item' = old.pairs[moved]
    /\ UNCHANGED <<table, call, probe, rebuild>>

SkipSlot ==
    /\ step = "move"
    /\ moved < old.capacity
    /\ moved \notin DOMAIN old.pairs
    /\ moved' = moved + 1
    /\ UNCHANGED <<table, call, step, adding, item, probe, old>>

\* The old buffers are deleted; the add that found half taken goes on.
Grown ==
    /\ step = "move"
    /\ moved = old.capacity
    /\ asked.name # "copy"
    /\ adding' = TRUE
    /\ item' = old.item
    /\ Search(old.item.key)
    /\ old' = NotRebuilt
    /\ moved' = 0
    /\ UNCHANGED <<table, call>>

Copied ==
    /\ step = "move"
    /\ moved = old.capacity
    /\ asked.name = "copy"
    /\ Return
    /\ old' = NotRebuilt
    /\ moved' = 0
    /\ UNCHANGED <<table, answer>>

-----------------------------------------------------------------------------
(* slot_of, and what each call does with it.                               *)

Sought == IF adding THEN item.key ELSE asked.key

IsFound == step = "search" /\ ~Exhausted /\ Holds(at, Sought)
IsMissing == step = "search" /\ (Exhausted \/ Empty(at))

\* (mutant: the turns are not counted)
WalkUncounted ==
    /\ step = "search"
    /\ ~IsFound
    /\ ~IsMissing
    /\ at' = SlotAfter(at)
    /\ UNCHANGED <<table, call, step, adding, item, walked, rebuild>>

Walk ==
    /\ step = "search"
    /\ ~IsFound
    /\ ~IsMissing
    /\ at' = SlotAfter(at)
    /\ walked' = walked + 1
    /\ UNCHANGED <<table, call, step, adding, item, rebuild>>

AnswerHas ==
    /\ ~adding
    /\ asked.name = "has"
    /\ IsFound \/ IsMissing
    /\ answer' = [answer EXCEPT !.has = IsFound]
    /\ Return
    /\ UNCHANGED <<table, rebuild>>

RemoveFound ==
    /\ ~adding
    /\ asked.name = "remove"
    /\ IsFound
    /\ pairs' = Without(at)
    /\ gone' = Tombstones(at)
    /\ size' = size - 1
    /\ Return
    /\ UNCHANGED <<capacity, answer, rebuild>>

RemoveMissing ==
    /\ ~adding
    /\ asked.name = "remove"
    /\ IsMissing
    /\ Return
    /\ UNCHANGED <<table, answer, rebuild>>

AnswerIndex ==
    /\ ~adding
    /\ asked.name = "index"
    /\ IsFound
    /\ answer' = [answer EXCEPT !.values = {pairs[at].value}]
    /\ Return
    /\ UNCHANGED <<table, rebuild>>

\* `let nothing : V` holds whatever its bytes held.
AddNothing ==
    /\ ~adding
    /\ asked.name = "index"
    /\ IsMissing
    /\ \E v \in Values : item' = [key |-> asked.key, value |-> v]
    /\ adding' = TRUE
    /\ step' = "add"
    /\ at' = 0
    /\ walked' = 0
    /\ UNCHANGED <<table, call, rebuild>>

Overwrite ==
    /\ adding
    /\ IsFound
    /\ pairs' = Put(at, [pairs[at] EXCEPT !.value = item.value])
    /\ ReturnFromAdd
    /\ UNCHANGED <<capacity, gone, size, answer>>

\* free_slot_for begins
FindFree ==
    /\ adding
    /\ IsMissing
    /\ step' = "place"
    /\ at' = Home(item.key)
    /\ walked' = 0
    /\ UNCHANGED <<table, call, adding, item, rebuild>>

WalkToFree ==
    /\ step = "place"
    /\ at \in Taken
    /\ at' = SlotAfter(at)
    /\ UNCHANGED <<table, call, step, adding, item, walked, rebuild>>

Place ==
    /\ step = "place"
    /\ at \notin Taken
    /\ pairs' = Put(at, item)
    /\ gone' = gone \ {at}
    /\ size' = size + 1
    /\ ReturnFromAdd
    /\ UNCHANGED <<capacity, answer>>

-----------------------------------------------------------------------------

Asked ==
    \/ \E k \in Keys, name \in {"has", "remove", "index"} : AskKey(name, k)
    \/ \E k \in Keys, v \in Values : AskAdd(k, v)
    \/ AskCopy

Run ==
    \/ EnterAdd \/ Grow
    \/ MoveSlot \/ SkipSlot \/ Grown \/ Copied
    \/ Walk \/ AnswerHas \/ RemoveFound \/ RemoveMissing
    \/ AnswerIndex \/ AddNothing \/ Overwrite
    \/ FindFree \/ WalkToFree \/ Place

Next == Asked \/ Run

\* A call that was made runs; whether the program makes another is its own.
Spec == Init /\ [][Next]_vars /\ WF_vars(Run)

-----------------------------------------------------------------------------
(* What must hold.                                                         *)

\* Steps of a search from one slot to another, round the table.
Distance(from, to) == IF from <= to THEN to - from ELSE to - from + capacity

\* No search stops short of a key that is in the table: from where the search
\* for it begins to where it is there is no empty slot, whatever was removed,
\* overwritten or moved since.
NothingIsHidden ==
    \A s \in Taken, t \in Slots :
        LET home == Home(pairs[s].key)
        IN  Distance(home, t) < Distance(home, s) => ~Empty(t)

\* No key is in two slots, where a removal would leave the older value behind.
OneSlotPerKey ==
    \A s, t \in Taken : pairs[s].key = pairs[t].key => s = t

\* `size` is how many slots are taken, and no more than half are: what keeps
\* free_slot_for, which counts nothing, from going round for ever.
HalfIsFree ==
    /\ size = Cardinality(Taken)
    /\ 2 * size <= capacity

\* Every call gives back what a map would, and between calls the object holds
\* what a map would: also while it is rebuilt, when the buffers are not whole.
HeldPairs == IF Rebuilding THEN {old.pairs[s] : s \in DOMAIN old.pairs}
                           ELSE {pairs[s] : s \in Taken}
Map == INSTANCE StdMap WITH held <- HeldPairs
KeepsTheMap == Map!Spec

\* Every call returns, with a table of nothing but tombstones too.
Ends == step # "idle" ~> step = "idle"

=============================================================================
