---------------------------- MODULE StdHashProofs ----------------------------
(***************************************************************************)
(* What is proved of Hash<K, V> for every set of keys and values, every    *)
(* hash and every even first capacity: no key is hidden from its search,   *)
(* half of the table is free, and each call answers what a map would.      *)
(***************************************************************************)
EXTENDS StdHash, FiniteSetTheorems, TLAPS

-----------------------------------------------------------------------------
(* The inductive invariant.                                                *)

Steps == {"idle", "add", "search", "place", "move"}

TypeOK ==
    /\ capacity \in Nat \ {0} /\ capacity % 2 = 0
    /\ pairs \in [Taken -> Pair] /\ Taken \subseteq Slots
    /\ gone \subseteq Slots
    /\ size \in Nat
    /\ asked \in Call
    /\ answer \in [has : BOOLEAN, values : SUBSET Values]
    /\ step \in Steps
    /\ adding \in BOOLEAN
    /\ item \in Pair
    /\ at \in Slots
    /\ walked \in 0 .. capacity
    /\ moved \in 0 .. old.capacity

\* what is rebuilt is a table, with each key once and half of it free
OldOK ==
    /\ old = [capacity |-> old.capacity, pairs |-> old.pairs, item |-> old.item]
    /\ old.capacity \in Nat
    /\ old.pairs \in [DOMAIN old.pairs -> Pair]
    /\ DOMAIN old.pairs \subseteq 0 .. old.capacity - 1
    /\ old.item \in Pair
    /\ \A s, t \in DOMAIN old.pairs : old.pairs[s].key = old.pairs[t].key => s = t
    /\ 2 * Cardinality(DOMAIN old.pairs) <= old.capacity

\* an add serves the call the program made
Serves(p) ==
    /\ asked.name \in {"add", "index"}
    /\ p.key = asked.key
    /\ asked.name = "add" => p.value = asked.value

\* which locals are in use at each step, and whose
Control ==
    /\ step = "idle" <=> asked.name = "none"
    /\ step = "idle" => ~adding /\ ~Rebuilding
    /\ step = "move" => ~adding /\ Rebuilding
    /\ step \in {"add", "place"} => adding
    /\ Rebuilding /\ step # "move" => adding
    /\ Rebuilding /\ asked.name # "copy" => Serves(old.item)
    /\ ~Rebuilding /\ adding => Serves(item)
    /\ ~Rebuilding /\ ~adding => asked.name \in {"none", "has", "remove", "index"}

\* the slots of the old buffers that were moved
MovedSlots == {s \in DOMAIN old.pairs : s < moved}

\* what is in the new buffers is what was moved, and one more fits in a half
Moving ==
    Rebuilding =>
        /\ {pairs[s] : s \in Taken} = {old.pairs[s] : s \in MovedSlots}
        /\ size = Cardinality(MovedSlots)
        /\ capacity = IF asked.name = "copy" THEN old.capacity ELSE 2 * old.capacity
        /\ step # "move" => moved \in DOMAIN old.pairs /\ item = old.pairs[moved]

\* h[k] adds a key the object does not hold
Filling ==
    asked.name = "index" /\ (adding \/ Rebuilding) =>
        \A p \in HeldPairs : p.key # asked.key

\* the slots a search has passed are not empty, and none holds the key
Searching ==
    step = "search" =>
        LET home == Home(Sought)
        IN  /\ at = IF home + walked < capacity THEN home + walked
                                                ELSE home + walked - capacity
            /\ \A t \in Slots : Distance(home, t) < walked =>
                                    ~Empty(t) /\ ~Holds(t, Sought)

\* what is to be placed is in no slot, and the slots passed are taken
Placing ==
    step = "place" =>
        LET home == Home(item.key)
        IN  /\ \A s \in Taken : pairs[s].key # item.key
            /\ \A t \in Slots : Distance(home, t) < Distance(home, at) => t \in Taken

\* an add that went past the test of half taken finds room
Roomy == adding /\ step \in {"search", "place"} => 2 * size < capacity

Inv ==
    /\ TypeOK
    /\ OldOK
    /\ Control
    /\ Moving
    /\ Filling
    /\ Searching
    /\ Placing
    /\ Roomy
    /\ NothingIsHidden
    /\ OneSlotPerKey
    /\ HalfIsFree

-----------------------------------------------------------------------------
(* Slots and distances.                                                    *)

\* The locals that are not in use have the types of those that are.
LEMMA NoItemType == NoItem \in Pair /\ NoCall \in Call /\ NoCall.name = "none"
<1>1. NoItem \in Pair
  BY DataAssumption DEF NoItem, Pair
<1>. QED
  BY <1>1 DEF NoCall, Call, Pair

\* A key's search begins in the table.
LEMMA HomeType ==
    ASSUME TypeOK, NEW k \in Keys
    PROVE  Home(k) \in Slots
<1>1. HashOf[k] \in Nat /\ capacity \in Nat \ {0}
  BY HashAssumption DEF TypeOK
<1>. QED
  BY <1>1 DEF Home, Slots

\* The slot after a slot is in the table, one further from wherever the walk
\* began, or back where it began.
LEMMA OneFurther ==
    ASSUME TypeOK, NEW home \in Slots, NEW s \in Slots
    PROVE  /\ SlotAfter(s) \in Slots
           /\ Distance(home, s) \in 0 .. capacity - 1
           /\ \/ SlotAfter(s) = home
              \/ Distance(home, SlotAfter(s)) = Distance(home, s) + 1
BY DEF TypeOK, Slots, SlotAfter, Distance

\* A slot is told by how far it is.
LEMMA SameDistance ==
    ASSUME TypeOK, NEW home \in Slots, NEW s \in Slots, NEW t \in Slots,
           Distance(home, s) = Distance(home, t)
    PROVE  s = t
BY DEF TypeOK, Slots, Distance

\* Where a search of some turns is, is that far from where it began.
LEMMA WalkedFar ==
    ASSUME TypeOK, NEW home \in Slots, walked < capacity,
           at = IF home + walked < capacity THEN home + walked
                                            ELSE home + walked - capacity
    PROVE  Distance(home, at) = walked
BY DEF TypeOK, Slots, Distance

\* What is sought is a key.
LEMMA SoughtType == TypeOK => Sought \in Keys
BY DEF TypeOK, Sought, Pair, Call

\* A search that finds nothing is right: no slot holds the key. It went past
\* every slot, or it met an empty one before which the key would have to be.
LEMMA MissingIsAbsent ==
    ASSUME Inv, IsMissing
    PROVE  \A s \in Taken : pairs[s].key # Sought
<1>. DEFINE home == Home(Sought)
<1>1. home \in Slots
  BY SoughtType, HomeType DEF Inv
<1>2. /\ at = IF home + walked < capacity THEN home + walked
                                          ELSE home + walked - capacity
      /\ \A t \in Slots : Distance(home, t) < walked => ~Holds(t, Sought)
  BY DEF Inv, Searching, IsMissing
<1>3. SUFFICES ASSUME NEW s \in Taken, pairs[s].key = Sought
               PROVE  FALSE
  OBVIOUS
<1>4. s \in Slots /\ Holds(s, Sought)
  BY <1>3 DEF Inv, TypeOK, Holds
<1>5. ~(Distance(home, s) < walked) /\ Distance(home, s) \in 0 .. capacity - 1
  BY <1>1, <1>2, <1>4, OneFurther DEF Inv
<1>6. walked < capacity /\ Empty(at)
  BY <1>5 DEF Inv, TypeOK, IsMissing, Exhausted
<1>7. Distance(home, at) = walked /\ at \in Slots
  BY <1>1, <1>2, <1>6, WalkedFar DEF Inv, TypeOK
<1>8. s # at
  BY <1>6 DEF Empty
<1>9. Distance(home, at) < Distance(home, s)
  BY <1>1, <1>4, <1>5, <1>7, <1>8, SameDistance DEF Inv, TypeOK
<1>. QED
  BY <1>3, <1>6, <1>7, <1>9 DEF Inv, NothingIsHidden

-----------------------------------------------------------------------------
(* The invariant holds at first, and each step keeps it.                   *)

\* The buffers say of the table all there is to say.
TableOK == NothingIsHidden /\ OneSlotPerKey /\ HalfIsFree

LEMMA SameTable ==
    ASSUME TableOK, UNCHANGED table
    PROVE  TableOK'
BY DEF TableOK, NothingIsHidden, OneSlotPerKey, HalfIsFree, table, Taken, Slots,
       Distance, Home, Empty

\* Empty buffers hide nothing.
LEMMA NewTable ==
    ASSUME pairs' = Buffers, size' = 0, capacity' \in Nat
    PROVE  TableOK'
<1>1. Taken' = {} /\ Cardinality({}) = 0
  BY FS_EmptySet DEF Buffers, Taken
<1>. QED
  BY <1>1 DEF TableOK, NothingIsHidden, OneSlotPerKey, HalfIsFree

\* Nothing is rebuilt where old is NotRebuilt.
LEMMA NothingRebuilt ==
    ASSUME old' = NotRebuilt
    PROVE  OldOK' /\ ~Rebuilding' /\ old.capacity' = 0
<1>1. DOMAIN Buffers = {} /\ Cardinality({}) = 0
  BY FS_EmptySet DEF Buffers
<1>2. Buffers \in [{} -> Pair]
  BY DEF Buffers
<1>. QED
  BY <1>1, <1>2, NoItemType DEF OldOK, NotRebuilt, Rebuilding

LEMMA InitInv == Init => Inv
<1>. SUFFICES ASSUME Init PROVE Inv
  OBVIOUS
<1>. USE DEF Init
<1>1. Taken = {} /\ Cardinality({}) = 0 /\ pairs \in [Taken -> Pair]
  BY FS_EmptySet DEF Buffers, Taken
<1>2. OldOK /\ ~Rebuilding /\ old.capacity = 0
  <2>1. DOMAIN Buffers = {} /\ Buffers \in [{} -> Pair]
    BY DEF Buffers
  <2>. QED
    BY <1>1, <2>1, NoItemType DEF OldOK, NotRebuilt, Rebuilding
<1>3. TypeOK
  <2>1. capacity \in Nat \ {0} /\ capacity % 2 = 0
    BY CapacityAssumption
  <2>2. Taken \subseteq Slots /\ gone \subseteq Slots /\ size \in Nat
    BY <1>1
  <2>3. answer \in [has : BOOLEAN, values : SUBSET Values]
    OBVIOUS
  <2>4. /\ at \in Slots
        /\ walked \in 0 .. capacity
        /\ moved \in 0 .. old.capacity
    BY <1>2, <2>1 DEF Slots
  <2>. QED
    BY <1>1, <2>1, <2>2, <2>3, <2>4, NoItemType DEF TypeOK, Steps
<1>4. TableOK
  BY <1>1, <1>3 DEF TypeOK, TableOK, NothingIsHidden, OneSlotPerKey, HalfIsFree
<1>5. Control
  BY <1>2, NoItemType DEF Control
<1>. QED
  BY <1>2, <1>3, <1>4, <1>5, NoItemType
  DEF Inv, TableOK, Moving, Filling, Searching, Placing, Roomy

\* A search that begins has passed no slot.
LEMMA SearchBegins ==
    ASSUME TypeOK, NEW k \in Keys, Search(k), capacity' = capacity, Sought' = k
    PROVE  /\ at' \in Slots' /\ walked' \in 0 .. capacity'
           /\ step' = "search" /\ Searching' /\ Placing'
<1>1. Home(k) \in Slots /\ at' = Home(k) /\ walked' = 0 /\ step' = "search"
  BY HomeType DEF Search
<1>2. Home(Sought)' = Home(k) /\ Slots' = Slots
  BY DEF Home, Slots
<1>3. \A t \in Slots' : ~(Distance(Home(Sought), t)' < walked')
  BY <1>1, <1>2 DEF TypeOK, Slots, Distance
<1>4. Searching'
  BY <1>1, <1>2, <1>3 DEF TypeOK, Searching, Slots
<1>. QED
  BY <1>1, <1>2, <1>4 DEF TypeOK, Slots, Placing

\* A step that changes neither the table nor what is rebuilt keeps what is said
\* of them alone, and the pairs the object holds.
LEMMA SameBuffers ==
    ASSUME Inv, UNCHANGED table, UNCHANGED rebuild
    PROVE  /\ TableOK' /\ OldOK'
           /\ Rebuilding' = Rebuilding
           /\ MovedSlots' = MovedSlots
           /\ HeldPairs' = HeldPairs
           /\ Slots' = Slots /\ Taken' = Taken
<1>1. TableOK'
  BY SameTable DEF Inv, TableOK
<1>2. OldOK'
  BY DEF Inv, OldOK, rebuild
<1>. QED
  BY <1>1, <1>2 DEF table, rebuild, Rebuilding, MovedSlots, HeldPairs, Slots, Taken

\* Between two places that are of no search and no placement.
LEMMA NoWalk ==
    ASSUME step' \notin {"search", "place"}
    PROVE  Searching' /\ Placing' /\ Roomy'
BY DEF Searching, Placing, Roomy

LEMMA AskKeyInv ==
    ASSUME Inv, NEW k \in Keys, NEW name \in {"has", "remove", "index"},
           AskKey(name, k)
    PROVE  Inv'
<1>. USE DEF Inv, AskKey
<1>1. /\ asked' \in Call /\ asked'.name = name /\ asked'.key = k
      /\ UNCHANGED table /\ UNCHANGED rebuild /\ UNCHANGED <<adding, item, answer>>
  BY NoItemType DEF Call
<1>2. ~adding /\ ~Rebuilding
  BY DEF Control
<1>3. Sought' = k
  BY <1>1, <1>2 DEF Sought
<1>4. /\ at' \in Slots' /\ walked' \in 0 .. capacity'
      /\ step' = "search" /\ Searching' /\ Placing'
  BY <1>1, <1>3, SearchBegins DEF table
<1>5. /\ TableOK' /\ OldOK' /\ ~Rebuilding' /\ Slots' = Slots /\ Taken' = Taken
  BY <1>1, <1>2, SameBuffers
<1>6. TypeOK'
  BY <1>1, <1>4, <1>5 DEF TypeOK, Steps, table, rebuild
<1>7. Control'
  BY <1>1, <1>2, <1>4, <1>5 DEF Control
<1>. QED
  BY <1>1, <1>2, <1>4, <1>5, <1>6, <1>7 DEF TableOK, Moving, Filling, Roomy

LEMMA AskAddInv ==
    ASSUME Inv, NEW k \in Keys, NEW v \in Values, AskAdd(k, v)
    PROVE  Inv'
<1>. USE DEF Inv, AskAdd
<1>1. /\ asked' \in Call /\ asked'.name = "add" /\ item' \in Pair
      /\ Serves(item)' /\ step' = "add" /\ adding' = TRUE
      /\ UNCHANGED table /\ UNCHANGED rebuild /\ UNCHANGED <<probe, answer>>
  BY DEF Call, Pair, Serves
<1>2. ~adding /\ ~Rebuilding
  BY DEF Control
<1>3. /\ TableOK' /\ OldOK' /\ ~Rebuilding' /\ Slots' = Slots /\ Taken' = Taken
  BY <1>1, <1>2, SameBuffers
<1>4. TypeOK'
  BY <1>1, <1>3 DEF TypeOK, Steps, table, rebuild, probe
<1>5. Control'
  BY <1>1, <1>2, <1>3 DEF Control
<1>. QED
  BY <1>1, <1>2, <1>3, <1>4, <1>5, NoWalk DEF TableOK, Moving, Filling

LEMMA EnterAddInv == ASSUME Inv, EnterAdd PROVE Inv'
<1>. USE DEF Inv, EnterAdd
<1>1. /\ step = "add" /\ 2 * size < capacity
      /\ UNCHANGED table /\ UNCHANGED rebuild /\ UNCHANGED <<call, adding, item>>
  BY DEF HalfTaken, TypeOK
<1>2. adding /\ item.key \in Keys
  BY <1>1 DEF Control, TypeOK, Pair
<1>3. Sought' = item.key
  BY <1>1, <1>2 DEF Sought
<1>4. /\ at' \in Slots' /\ walked' \in 0 .. capacity'
      /\ step' = "search" /\ Searching' /\ Placing'
  BY <1>1, <1>2, <1>3, SearchBegins DEF table
<1>5. /\ TableOK' /\ OldOK' /\ Rebuilding' = Rebuilding /\ Slots' = Slots
      /\ Taken' = Taken /\ MovedSlots' = MovedSlots /\ HeldPairs' = HeldPairs
  BY <1>1, SameBuffers
<1>6. TypeOK'
  BY <1>1, <1>4, <1>5 DEF TypeOK, Steps, table, rebuild, call
<1>7. Control'
  BY <1>1, <1>4, <1>5 DEF Control, Serves, rebuild, call
<1>8. Moving'
  BY <1>1, <1>4, <1>5, ZenonT(60) DEF Moving, table, rebuild, call
<1>9. Filling' /\ Roomy'
  BY <1>1, <1>4, <1>5 DEF Filling, Roomy, table, call
<1>. QED
  BY <1>4, <1>5, <1>6, <1>7, <1>8, <1>9 DEF TableOK

\* The types of the fields.
TableType ==
    /\ capacity \in Nat \ {0} /\ capacity % 2 = 0
    /\ pairs \in [Taken -> Pair] /\ Taken \subseteq Slots
    /\ gone \subseteq Slots
    /\ size \in Nat

AnswerType == answer \in [has : BOOLEAN, values : SUBSET Values]

\* A table of any capacity has a first slot.
LEMMA ZeroIn == \A c \in Nat \ {0} : 0 \in 0 .. c - 1 /\ 0 \in 0 .. c
OBVIOUS

\* A call that returns leaves its locals behind.
LEMMA ReturnInv ==
    ASSUME Return, ~Rebuilding', OldOK', TableOK', TableType', AnswerType',
           moved' \in 0 .. old.capacity'
    PROVE  Inv'
<1>1. /\ step' = "idle" /\ asked' = NoCall /\ adding' = FALSE /\ item' = NoItem
      /\ at' = 0 /\ walked' = 0
  BY DEF Return
<1>2. TypeOK'
  <2>1. at' \in Slots' /\ walked' \in 0 .. capacity'
    <3>1. capacity' \in Nat \ {0}
      BY DEF TableType
    <3>2. 0 \in 0 .. capacity' - 1 /\ 0 \in 0 .. capacity'
      BY <3>1, ZeroIn
    <3>. QED
      BY <1>1, <3>2 DEF Slots
  <2>. QED
    BY <1>1, <2>1, NoItemType DEF TypeOK, TableType, AnswerType, Steps
<1>3. Control'
  BY <1>1, NoItemType DEF Control
<1>. QED
  BY <1>1, <1>2, <1>3, NoWalk, NoItemType DEF Inv, TableOK, Moving, Filling

\* A call that returns from slot_of, with the table as it was.
LEMMA AnswerInv ==
    ASSUME Inv, Return, step = "search", ~adding, UNCHANGED table,
           UNCHANGED rebuild, AnswerType'
    PROVE  Inv'
<1>1. ~Rebuilding
  BY DEF Inv, Control
<1>2. /\ TableOK' /\ OldOK' /\ ~Rebuilding' /\ Slots' = Slots /\ Taken' = Taken
  BY <1>1, SameBuffers
<1>3. TableType' /\ moved' \in 0 .. old.capacity'
  BY <1>2 DEF Inv, TypeOK, TableType, table, rebuild
<1>. QED
  BY <1>2, <1>3, ReturnInv

LEMMA AnswerHasInv == ASSUME Inv, AnswerHas PROVE Inv'
<1>1. AnswerType'
  BY DEF AnswerHas, AnswerType, Inv, TypeOK, IsFound
<1>. QED
  BY <1>1, AnswerInv DEF AnswerHas, IsFound, IsMissing

LEMMA RemoveMissingInv == ASSUME Inv, RemoveMissing PROVE Inv'
<1>1. AnswerType'
  BY DEF RemoveMissing, AnswerType, Inv, TypeOK
<1>. QED
  BY <1>1, AnswerInv DEF RemoveMissing, IsMissing

LEMMA AnswerIndexInv == ASSUME Inv, AnswerIndex PROVE Inv'
<1>1. pairs[at].value \in Values
  BY DEF AnswerIndex, IsFound, Holds, Inv, TypeOK, Pair
<1>2. AnswerType'
  BY <1>1 DEF AnswerIndex, AnswerType, Inv, TypeOK
<1>. QED
  BY <1>2, AnswerInv DEF AnswerIndex, IsFound

LEMMA WalkInv == ASSUME Inv, Walk PROVE Inv'
<1>. USE DEF Inv, Walk
<1>. DEFINE home == Home(Sought)
<1>1. /\ step = "search" /\ ~IsFound /\ ~IsMissing
      /\ at' = SlotAfter(at) /\ walked' = walked + 1
      /\ UNCHANGED table /\ UNCHANGED rebuild
      /\ UNCHANGED <<call, step, adding, item>>
  OBVIOUS
<1>2. walked < capacity /\ ~Empty(at) /\ ~Holds(at, Sought)
  BY <1>1 DEF IsFound, IsMissing, Exhausted, TypeOK
<1>3. home \in Slots /\ at \in Slots
  BY SoughtType, HomeType DEF TypeOK
<1>4. Distance(home, at) = walked
  BY <1>1, <1>2, <1>3, WalkedFar DEF Searching
<1>5. /\ TableOK' /\ OldOK' /\ Rebuilding' = Rebuilding /\ Slots' = Slots
      /\ Taken' = Taken /\ MovedSlots' = MovedSlots /\ HeldPairs' = HeldPairs
  BY <1>1, SameBuffers
<1>6. TypeOK'
  <2>1. SlotAfter(at) \in Slots /\ walked + 1 \in 0 .. capacity
    BY <1>2, <1>3, OneFurther DEF TypeOK
  <2>. QED
    BY <1>1, <1>5, <2>1 DEF TypeOK, table, rebuild, call
<1>7. Control'
  BY <1>1, <1>5 DEF Control, Serves, rebuild, call
<1>8. Moving'
  BY <1>1, <1>5, ZenonT(60) DEF Moving, table, rebuild, call
<1>9. Filling' /\ Roomy'
  BY <1>1, <1>5 DEF Filling, Roomy, table, call
<1>10. Searching'
  <2>1. /\ home' = home /\ Sought' = Sought
        /\ \A t \in Slots : /\ Distance(home, t)' = Distance(home, t)
                            /\ Empty(t)' = Empty(t)
                            /\ Holds(t, Sought)' = Holds(t, Sought)
    BY <1>1 DEF Home, Sought, Distance, Empty, Holds, Taken, table, call
  <2>2. at' = IF home + walked' < capacity THEN home + walked'
                                           ELSE home + walked' - capacity
    BY <1>1, <1>2, <1>3 DEF Searching, SlotAfter, TypeOK, Slots
  <2>3. ASSUME NEW t \in Slots, Distance(home, t) < walked + 1
        PROVE  ~Empty(t) /\ ~Holds(t, Sought)
    <3>1. Distance(home, t) < walked \/ Distance(home, t) = Distance(home, at)
      BY <1>3, <1>4, <2>3, OneFurther DEF TypeOK
    <3>. QED
      BY <1>1, <1>2, <1>3, <3>1, SameDistance DEF Searching
  <2>. QED
    BY <1>1, <1>5, <2>1, <2>2, <2>3 DEF Searching, table
<1>11. Placing'
  BY <1>1 DEF Placing
<1>. QED
  BY <1>5, <1>6, <1>7, <1>8, <1>9, <1>10, <1>11 DEF TableOK

LEMMA AddNothingInv == ASSUME Inv, AddNothing PROVE Inv'
<1>. USE DEF Inv, AddNothing
<1>1. /\ step = "search" /\ step' = "add" /\ adding' = TRUE
      /\ asked.name = "index" /\ at' = 0 /\ walked' = 0
      /\ UNCHANGED table /\ UNCHANGED rebuild /\ UNCHANGED <<asked, answer>>
      /\ item' \in Pair /\ item'.key = asked.key
  BY DEF IsMissing, Pair, Call, TypeOK, call
<1>2. ~Rebuilding
  BY <1>1 DEF Control
<1>3. /\ TableOK' /\ OldOK' /\ ~Rebuilding' /\ Slots' = Slots
      /\ Taken' = Taken /\ HeldPairs' = HeldPairs
  BY <1>1, <1>2, SameBuffers
<1>4. TypeOK'
  <2>1. at' \in Slots' /\ walked' \in 0 .. capacity'
    BY <1>1, ZeroIn DEF TypeOK, Slots, table
  <2>. QED
    BY <1>1, <1>3, <2>1 DEF TypeOK, Steps, table, rebuild
<1>5. Serves(item)'
  BY <1>1 DEF Serves
<1>6. Control'
  BY <1>1, <1>3, <1>5 DEF Control
<1>7. Filling'
  <2>1. \A s \in Taken : pairs[s].key # asked.key
    BY MissingIsAbsent DEF Sought
  <2>. QED
    BY <1>1, <1>2, <1>3, <2>1 DEF Filling, HeldPairs
<1>. QED
  BY <1>1, <1>3, <1>4, <1>6, <1>7, NoWalk DEF TableOK, Moving

LEMMA FindFreeInv == ASSUME Inv, FindFree PROVE Inv'
<1>. USE DEF Inv, FindFree
<1>1. /\ adding /\ step = "search" /\ step' = "place"
      /\ at' = Home(item.key) /\ walked' = 0
      /\ UNCHANGED table /\ UNCHANGED rebuild /\ UNCHANGED <<call, adding, item>>
  BY DEF IsMissing
<1>2. item.key \in Keys /\ Home(item.key) \in Slots
  BY HomeType DEF TypeOK, Pair
<1>3. /\ TableOK' /\ OldOK' /\ Rebuilding' = Rebuilding /\ Slots' = Slots
      /\ Taken' = Taken /\ MovedSlots' = MovedSlots /\ HeldPairs' = HeldPairs
  BY <1>1, SameBuffers
<1>4. TypeOK'
  <2>1. at' \in Slots' /\ walked' \in 0 .. capacity'
    BY <1>1, <1>2, <1>3, ZeroIn DEF TypeOK, table
  <2>. QED
    BY <1>1, <1>3, <2>1 DEF TypeOK, Steps, table, rebuild, call
<1>5. Control'
  BY <1>1, <1>3 DEF Control, Serves, rebuild, call
<1>6. Moving'
  BY <1>1, <1>3, ZenonT(60) DEF Moving, table, rebuild, call
<1>7. Filling' /\ Roomy'
  BY <1>1, <1>3 DEF Filling, Roomy, table, call
<1>8. Searching'
  BY <1>1 DEF Searching
<1>9. Placing'
  <2>1. \A s \in Taken : pairs[s].key # item.key
    BY <1>1, MissingIsAbsent DEF Sought
  <2>2. \A t \in Slots : ~(Distance(at', t) < Distance(at', at'))
    BY <1>1, <1>2 DEF Distance, Slots, TypeOK
  <2>3. \A t \in Slots' : ~(Distance(Home(item.key), t)' < Distance(Home(item.key), at)')
    BY <1>1, <1>3, <2>2 DEF Home, Distance, table
  <2>. QED
    BY <1>1, <1>3, <2>1, <2>3 DEF Placing, table
<1>. QED
  BY <1>3, <1>4, <1>5, <1>6, <1>7, <1>8, <1>9 DEF TableOK

LEMMA WalkToFreeInv == ASSUME Inv, WalkToFree PROVE Inv'
<1>. USE DEF Inv, WalkToFree
<1>. DEFINE home == Home(item.key)
<1>1. /\ step = "place" /\ at \in Taken /\ at' = SlotAfter(at)
      /\ UNCHANGED table /\ UNCHANGED rebuild
      /\ UNCHANGED <<call, step, adding, item, walked>>
  OBVIOUS
<1>2. home \in Slots /\ at \in Slots
  BY HomeType DEF TypeOK, Pair
<1>3. /\ TableOK' /\ OldOK' /\ Rebuilding' = Rebuilding /\ Slots' = Slots
      /\ Taken' = Taken /\ MovedSlots' = MovedSlots /\ HeldPairs' = HeldPairs
  BY <1>1, SameBuffers
<1>4. TypeOK'
  <2>1. SlotAfter(at) \in Slots
    BY <1>2, OneFurther
  <2>. QED
    BY <1>1, <1>3, <2>1 DEF TypeOK, table, rebuild, call
<1>5. Control'
  BY <1>1, <1>3 DEF Control, Serves, rebuild, call
<1>6. Moving'
  BY <1>1, <1>3, ZenonT(60) DEF Moving, table, rebuild, call
<1>7. Filling' /\ Roomy'
  BY <1>1, <1>3 DEF Filling, Roomy, table, call
<1>8. Searching'
  BY <1>1 DEF Searching
<1>9. Placing'
  <2>1. ASSUME NEW t \in Slots, Distance(home, t) < Distance(home, SlotAfter(at))
        PROVE  t \in Taken
    <3>1. CASE SlotAfter(at) = home
      BY <1>2, <2>1, <3>1 DEF Distance, Slots, TypeOK
    <3>2. CASE Distance(home, SlotAfter(at)) = Distance(home, at) + 1
      <4>1. Distance(home, t) < Distance(home, at) \/ Distance(home, t) = Distance(home, at)
        BY <1>2, <2>1, <3>2, OneFurther
      <4>. QED
        BY <1>1, <1>2, <4>1, SameDistance DEF Placing
    <3>. QED
      BY <1>2, <3>1, <3>2, OneFurther
  <2>2. /\ home' = home
        /\ \A t \in Slots : Distance(home, t)' = Distance(home, t)
        /\ Distance(home, at)' = Distance(home, SlotAfter(at))
    BY <1>1 DEF Home, Distance, table
  <2>. QED
    BY <1>1, <1>3, <2>1, <2>2 DEF Placing, table
<1>. QED
  BY <1>3, <1>4, <1>5, <1>6, <1>7, <1>8, <1>9 DEF TableOK

LEMMA MoveSlotInv == ASSUME Inv, MoveSlot PROVE Inv'
<1>. USE DEF Inv, MoveSlot
<1>1. /\ step = "move" /\ step' = "add" /\ adding' = TRUE
      /\ moved \in DOMAIN old.pairs /\ item' = old.pairs[moved]
      /\ UNCHANGED table /\ UNCHANGED rebuild /\ UNCHANGED <<call, probe>>
  OBVIOUS
<1>2. Rebuilding /\ item' \in Pair
  BY <1>1 DEF Control, OldOK
<1>3. /\ TableOK' /\ OldOK' /\ Rebuilding' = Rebuilding /\ Slots' = Slots
      /\ Taken' = Taken /\ MovedSlots' = MovedSlots /\ HeldPairs' = HeldPairs
  BY <1>1, SameBuffers
<1>4. TypeOK'
  BY <1>1, <1>2, <1>3 DEF TypeOK, Steps, table, rebuild, call, probe
<1>5. Control'
  BY <1>1, <1>2, <1>3 DEF Control, Serves, rebuild, call
<1>6. Moving'
  BY <1>1, <1>2, <1>3, ZenonT(60) DEF Moving, table, rebuild, call
<1>7. Filling'
  BY <1>1, <1>2, <1>3 DEF Filling, call
<1>. QED
  BY <1>1, <1>3, <1>4, <1>5, <1>6, <1>7, NoWalk DEF TableOK

\* A step that only looks at the next slot of the old buffers leaves them.
LEMMA SameOld ==
    ASSUME Inv, UNCHANGED old
    PROVE  OldOK' /\ Rebuilding' = Rebuilding
BY DEF Inv, OldOK, Rebuilding

LEMMA SkipSlotInv == ASSUME Inv, SkipSlot PROVE Inv'
<1>. USE DEF Inv, SkipSlot
<1>1. /\ step = "move" /\ moved < old.capacity /\ moved \notin DOMAIN old.pairs
      /\ moved' = moved + 1 /\ UNCHANGED old /\ UNCHANGED table
      /\ UNCHANGED <<call, step, adding, item, probe>>
  OBVIOUS
<1>2. Rebuilding /\ OldOK' /\ Rebuilding' = Rebuilding
  BY <1>1, SameOld DEF Control
<1>3. TableOK' /\ Slots' = Slots /\ Taken' = Taken
  BY <1>1, SameTable DEF TableOK, Slots, Taken, table
<1>4. HeldPairs' = HeldPairs
  BY <1>1, <1>2, <1>3 DEF HeldPairs
<1>5. MovedSlots' = MovedSlots
  BY <1>1 DEF MovedSlots, OldOK, TypeOK
<1>6. TypeOK'
  <2>1. moved' \in 0 .. old.capacity'
    BY <1>1 DEF TypeOK, OldOK
  <2>. QED
    BY <1>1, <1>3, <2>1 DEF TypeOK, table, call, probe
<1>7. Control'
  BY <1>1, <1>2 DEF Control, Serves, call
<1>8. Moving'
  BY <1>1, <1>2, <1>3, <1>5 DEF Moving, table, call
<1>9. Filling'
  BY <1>1, <1>2, <1>4 DEF Filling, call
<1>. QED
  BY <1>1, <1>2, <1>3, <1>6, <1>7, <1>8, <1>9, NoWalk DEF TableOK

\* When every slot was moved, the new buffers hold what the old ones did.
LEMMA AllMoved ==
    ASSUME Inv, Rebuilding, moved = old.capacity
    PROVE  /\ MovedSlots = DOMAIN old.pairs
           /\ {pairs[s] : s \in Taken} = {old.pairs[s] : s \in DOMAIN old.pairs}
           /\ 2 * size <= old.capacity
<1>1. MovedSlots = DOMAIN old.pairs
  BY DEF MovedSlots, Inv, OldOK
<1>. QED
  BY <1>1 DEF Inv, OldOK, Moving

LEMMA CopiedInv == ASSUME Inv, Copied PROVE Inv'
<1>. USE DEF Inv, Copied
<1>1. Return /\ UNCHANGED table /\ UNCHANGED answer /\ old' = NotRebuilt /\ moved' = 0
  OBVIOUS
<1>2. OldOK' /\ ~Rebuilding' /\ moved' \in 0 .. old.capacity'
  BY <1>1, NothingRebuilt
<1>3. TableOK' /\ TableType' /\ AnswerType'
  BY <1>1, SameTable DEF TypeOK, TableOK, TableType, AnswerType, table, Slots, Taken
<1>. QED
  BY <1>1, <1>2, <1>3, ReturnInv

LEMMA GrownInv == ASSUME Inv, Grown PROVE Inv'
<1>. USE DEF Inv, Grown
<1>1. /\ step = "move" /\ moved = old.capacity /\ asked.name # "copy"
      /\ adding' = TRUE /\ item' = old.item /\ Search(old.item.key)
      /\ old' = NotRebuilt /\ moved' = 0 /\ UNCHANGED table /\ UNCHANGED call
  OBVIOUS
<1>2. Rebuilding /\ Serves(old.item) /\ item' \in Pair /\ old.item.key \in Keys
  BY <1>1 DEF Control, OldOK, Pair
<1>3. OldOK' /\ ~Rebuilding' /\ moved' \in 0 .. old.capacity'
  BY <1>1, NothingRebuilt
<1>4. TableOK' /\ Slots' = Slots /\ Taken' = Taken
  BY <1>1, SameTable DEF TableOK, Slots, Taken, table
<1>5. Sought' = old.item.key
  BY <1>1 DEF Sought
<1>6. /\ at' \in Slots' /\ walked' \in 0 .. capacity'
      /\ step' = "search" /\ Searching' /\ Placing'
  BY <1>1, <1>2, <1>5, SearchBegins DEF table
<1>7. HeldPairs' = HeldPairs
  BY <1>1, <1>2, <1>3, <1>4, AllMoved DEF HeldPairs, table
<1>8. TypeOK'
  BY <1>1, <1>2, <1>3, <1>4, <1>6 DEF TypeOK, Steps, table, call
<1>9. Control'
  BY <1>1, <1>2, <1>3, <1>6 DEF Control, Serves, call
<1>10. Roomy'
  <2>1. 2 * size <= old.capacity /\ capacity = 2 * old.capacity
    BY <1>1, <1>2, AllMoved DEF Moving
  <2>. QED
    BY <1>1, <1>2, <2>1 DEF Roomy, Rebuilding, TypeOK, OldOK, table
<1>11. Filling'
  BY <1>1, <1>2, <1>7 DEF Filling, call
<1>. QED
  BY <1>3, <1>4, <1>6, <1>8, <1>9, <1>10, <1>11 DEF TableOK, Moving

\* A rebuild begins with empty buffers and a table to move.
LEMMA RebuildInv ==
    ASSUME Inv, NEW c \in Nat, NEW w \in Pair, Rebuild(c, w), ~Rebuilding,
           c = (IF asked'.name = "copy" THEN capacity ELSE 2 * capacity),
           asked' \in Call, asked'.name # "none",
           asked'.name # "copy" => Serves(w)',
           asked'.name = "index" => \A p \in HeldPairs : p.key # asked'.key,
           UNCHANGED probe, UNCHANGED answer
    PROVE  Inv'
<1>. USE DEF Inv, Rebuild
<1>1. /\ old' = [capacity |-> capacity, pairs |-> pairs, item |-> w]
      /\ capacity' = c /\ pairs' = Buffers /\ gone' = {} /\ size' = 0
      /\ moved' = 0 /\ step' = "move" /\ adding' = FALSE /\ item' = NoItem
  OBVIOUS
<1>2. capacity \in Nat \ {0} /\ capacity % 2 = 0
  BY DEF TypeOK
<1>3. c \in Nat \ {0} /\ c % 2 = 0
  BY <1>2
<1>4. TableOK'
  BY <1>1, NewTable
<1>5. OldOK' /\ Rebuilding'
  <2>1. Taken \subseteq 0 .. capacity - 1 /\ pairs \in [Taken -> Pair]
    BY DEF TypeOK, Slots
  <2>2. 2 * Cardinality(Taken) <= capacity
    BY DEF HalfIsFree
  <2>. QED
    BY <1>1, <1>2, <2>1, <2>2 DEF OldOK, Rebuilding, OneSlotPerKey, Taken
<1>6. Taken' = {} /\ pairs' \in [Taken' -> Pair]
  BY <1>1 DEF Buffers, Taken
<1>7. MovedSlots' = {} /\ Cardinality({}) = 0
  <2>1. \A s \in DOMAIN pairs : ~(s < 0)
    BY DEF TypeOK, Slots, Taken
  <2>. QED
    BY <1>1, <2>1, FS_EmptySet DEF MovedSlots
<1>8. TypeOK'
  <2>1. at' \in Slots' /\ walked' \in 0 .. capacity'
    BY <1>1, <1>2, <1>3 DEF TypeOK, Slots, probe
  <2>2. moved' \in 0 .. old.capacity'
    BY <1>1, <1>2
  <2>3. capacity' \in Nat \ {0} /\ capacity' % 2 = 0 /\ size' \in Nat
    BY <1>1, <1>3
  <2>4. /\ pairs' \in [Taken' -> Pair] /\ Taken' \subseteq Slots'
        /\ gone' \subseteq Slots'
    BY <1>1, <1>6
  <2>5. answer' \in [has : BOOLEAN, values : SUBSET Values]
    BY DEF TypeOK
  <2>6. step' \in Steps /\ adding' \in BOOLEAN /\ item' \in Pair
    BY <1>1, NoItemType DEF Steps
  <2>. QED
    BY <2>1, <2>2, <2>3, <2>4, <2>5, <2>6 DEF TypeOK
<1>9. Control'
  BY <1>1, <1>5 DEF Control, Serves
<1>10. Moving'
  BY <1>1, <1>6, <1>7 DEF Moving
<1>11. Filling'
  <2>1. HeldPairs' = HeldPairs
    BY <1>1, <1>5 DEF HeldPairs, Taken
  <2>. QED
    BY <2>1 DEF Filling
<1>. QED
  BY <1>1, <1>4, <1>5, <1>8, <1>9, <1>10, <1>11, NoWalk DEF TableOK

LEMMA AskCopyInv == ASSUME Inv, AskCopy PROVE Inv'
<1>. USE DEF Inv, AskCopy
<1>1. /\ asked' \in Call /\ asked'.name = "copy"
      /\ Rebuild(capacity, NoItem) /\ UNCHANGED probe /\ UNCHANGED answer
  BY NoItemType DEF Call
<1>2. ~Rebuilding /\ capacity \in Nat
  BY DEF Control, TypeOK
<1>. QED
  BY <1>1, <1>2, NoItemType, RebuildInv

LEMMA GrowInv == ASSUME Inv, Grow PROVE Inv'
<1>. USE DEF Inv, Grow
<1>1. /\ step = "add" /\ ~Rebuilding /\ Rebuild(2 * capacity, item)
      /\ UNCHANGED asked /\ UNCHANGED answer /\ UNCHANGED probe
  BY DEF call
<1>2. adding /\ item \in Pair /\ 2 * capacity \in Nat
  BY <1>1 DEF Control, TypeOK
<1>3. Serves(item) /\ asked'.name \in {"add", "index"}
  BY <1>1, <1>2 DEF Control, Serves
<1>4. asked' \in Call /\ (asked'.name = "index" => \A p \in HeldPairs : p.key # asked'.key)
  BY <1>1, <1>2 DEF TypeOK, Filling
<1>. QED
  BY <1>1, <1>2, <1>3, <1>4, RebuildInv DEF Serves

\* The slots of a table are finitely many.
LEMMA FiniteSlots ==
    ASSUME NEW n \in Nat, NEW S \in SUBSET (0 .. n - 1)
    PROVE  IsFiniteSet(S) /\ Cardinality(S) \in Nat
BY FS_Interval, FS_Subset, FS_CardinalityType, 0 \in Int, n - 1 \in Int

\* An add that is over leaves what the table holds to whoever called it.
LEMMA ReturnFromAddInv ==
    ASSUME Inv, adding, ReturnFromAdd, TableOK', TableType', UNCHANGED answer,
           UNCHANGED capacity,
           Rebuilding => /\ {pairs'[s] : s \in Taken'} = {pairs[s] : s \in Taken} \cup {item}
                         /\ size' = size + 1
                         /\ step # "add"
    PROVE  Inv'
<1>. USE DEF Inv
<1>1. AnswerType' /\ capacity' \in Nat \ {0}
  BY DEF TypeOK, AnswerType
<1>2. CASE Rebuilding
  <2>1. /\ step' = "move" /\ moved' = moved + 1 /\ adding' = FALSE /\ item' = NoItem
        /\ at' = 0 /\ walked' = 0 /\ UNCHANGED old /\ UNCHANGED asked
    BY <1>2 DEF ReturnFromAdd
  <2>2. OldOK' /\ Rebuilding'
    BY <1>2, <2>1, SameOld
  <2>3. step # "move" /\ moved \in DOMAIN old.pairs /\ item = old.pairs[moved]
    BY <1>2 DEF Control, Moving
  <2>4. TypeOK'
    <3>1. at' \in Slots' /\ walked' \in 0 .. capacity'
      BY <1>1, <2>1, ZeroIn DEF Slots
    <3>2. moved' \in 0 .. old.capacity'
      BY <2>1, <2>3 DEF TypeOK, OldOK
    <3>3. step' \in Steps /\ adding' \in BOOLEAN /\ item' \in Pair /\ asked' \in Call
      BY <2>1, NoItemType DEF Steps, TypeOK
    <3>. QED
      BY <1>1, <3>1, <3>2, <3>3 DEF TypeOK, TableType, AnswerType
  <2>5. Control'
    BY <1>2, <2>1, <2>2 DEF Control, Serves
  <2>6. Moving'
    <3>1. MovedSlots' = MovedSlots \cup {moved} /\ moved \notin MovedSlots
      BY <2>1, <2>3 DEF MovedSlots, OldOK, TypeOK
    <3>2. IsFiniteSet(MovedSlots) /\ Cardinality(MovedSlots) \in Nat
      BY FiniteSlots DEF MovedSlots, OldOK
    <3>3. size' = Cardinality(MovedSlots')
      BY <1>2, <3>1, <3>2, FS_AddElement, SMTT(60) DEF Moving
    <3>4. {pairs'[s] : s \in Taken'} = {old'.pairs[s] : s \in MovedSlots'}
      BY <1>2, <2>1, <2>3, <3>1 DEF Moving
    <3>. QED
      BY <1>2, <2>1, <3>3, <3>4 DEF Moving
  <2>7. Filling'
    BY <1>2, <2>1, <2>2 DEF Filling, HeldPairs
  <2>. QED
    BY <2>1, <2>2, <2>4, <2>5, <2>6, <2>7, NoWalk DEF TableOK
<1>3. CASE ~Rebuilding /\ asked.name = "index"
  <2>1. /\ Search(asked.key) /\ adding' = FALSE /\ item' = NoItem
        /\ UNCHANGED rebuild /\ UNCHANGED asked
    BY <1>3 DEF ReturnFromAdd
  <2>2. OldOK' /\ ~Rebuilding'
    BY <1>3, <2>1, SameOld DEF rebuild
  <2>3. Sought' = asked.key /\ asked.key \in Keys
    BY <2>1 DEF Sought, TypeOK, Call
  <2>4. /\ at' \in Slots' /\ walked' \in 0 .. capacity'
        /\ step' = "search" /\ Searching' /\ Placing'
    BY <2>1, <2>3, SearchBegins
  <2>5. TypeOK'
    <3>1. step' \in Steps /\ adding' \in BOOLEAN /\ item' \in Pair /\ asked' \in Call
      BY <2>1, <2>4, NoItemType DEF Steps, TypeOK
    <3>2. moved' \in 0 .. old.capacity'
      BY <2>1 DEF TypeOK, rebuild
    <3>. QED
      BY <1>1, <2>4, <3>1, <3>2 DEF TypeOK, TableType, AnswerType
  <2>6. Control'
    BY <1>3, <2>1, <2>2, <2>4 DEF Control
  <2>. QED
    BY <1>3, <2>1, <2>2, <2>4, <2>5, <2>6 DEF Moving, Filling, Roomy, TableOK
<1>4. CASE ~Rebuilding /\ asked.name = "add"
  <2>1. Return /\ UNCHANGED rebuild
    BY <1>4 DEF ReturnFromAdd
  <2>2. OldOK' /\ ~Rebuilding' /\ moved' \in 0 .. old.capacity'
    BY <1>4, <2>1, SameOld DEF rebuild, TypeOK
  <2>. QED
    BY <1>1, <2>1, <2>2, ReturnInv
<1>. QED
  BY <1>2, <1>3, <1>4 DEF ReturnFromAdd

\* A rebuild adds each key once, and so never overwrites.
LEMMA OverwriteOutside == ASSUME Inv, Overwrite PROVE ~Rebuilding
<1>. USE DEF Inv
<1>. SUFFICES ASSUME Rebuilding PROVE FALSE
  OBVIOUS
<1>1. step = "search" /\ at \in Taken /\ pairs[at].key = item.key
  BY DEF Overwrite, IsFound, Holds, Sought
<1>2. moved \in DOMAIN old.pairs /\ item = old.pairs[moved]
  BY <1>1 DEF Moving
<1>3. PICK o \in MovedSlots : pairs[at] = old.pairs[o]
  BY <1>1 DEF Moving
<1>4. o \in DOMAIN old.pairs /\ o < moved
  BY <1>3 DEF MovedSlots
<1>5. o = moved
  BY <1>1, <1>2, <1>3, <1>4 DEF OldOK
<1>. QED
  BY <1>4, <1>5 DEF TypeOK, OldOK

LEMMA OverwriteInv == ASSUME Inv, Overwrite PROVE Inv'
<1>. USE DEF Inv
<1>1. /\ adding /\ step = "search" /\ at \in Taken /\ pairs[at].key = item.key
      /\ pairs' = Put(at, [pairs[at] EXCEPT !.value = item.value])
      /\ ReturnFromAdd
      /\ UNCHANGED capacity /\ UNCHANGED gone /\ UNCHANGED size /\ UNCHANGED answer
  BY DEF Overwrite, IsFound, Holds, Sought
<1>2. /\ Taken' = Taken /\ Slots' = Slots
      /\ \A s \in Taken : pairs'[s].key = pairs[s].key /\ pairs'[s] \in Pair
  BY <1>1 DEF Put, Taken, Slots, TypeOK, Pair
<1>3. TableType'
  BY <1>1, <1>2 DEF TableType, TypeOK, Put
<1>4. TableOK'
  <2>1. \A s, t \in Slots : /\ Distance(s, t)' = Distance(s, t)
                            /\ Empty(t)' = Empty(t)
    BY <1>1, <1>2 DEF Distance, Empty
  <2>2. \A k : Home(k)' = Home(k)
    BY <1>1 DEF Home
  <2>3. NothingIsHidden'
    <3>1. SUFFICES ASSUME NEW s \in Taken, NEW t \in Slots,
                          Distance(Home(pairs'[s].key), t)
                              < Distance(Home(pairs'[s].key), s)
                   PROVE  ~Empty(t)
      BY <1>1, <1>2, <2>2 DEF NothingIsHidden, Distance, Empty
    <3>. QED
      BY <1>2, <3>1 DEF NothingIsHidden
  <2>4. OneSlotPerKey' /\ HalfIsFree'
    BY <1>1, <1>2 DEF OneSlotPerKey, HalfIsFree
  <2>. QED
    BY <2>3, <2>4 DEF TableOK
<1>5. ~Rebuilding
  BY OverwriteOutside
<1>. QED
  BY <1>1, <1>3, <1>4, <1>5, ReturnFromAddInv

LEMMA PlaceInv == ASSUME Inv, Place PROVE Inv'
<1>. USE DEF Inv
<1>1. /\ adding /\ step = "place" /\ at \notin Taken /\ pairs' = Put(at, item)
      /\ gone' = gone \ {at} /\ size' = size + 1 /\ ReturnFromAdd
      /\ UNCHANGED capacity /\ UNCHANGED answer
  BY DEF Place, Control
<1>2. /\ Taken' = Taken \cup {at} /\ Slots' = Slots /\ at \in Slots /\ item \in Pair
      /\ pairs'[at] = item
      /\ \A s \in Taken : pairs'[s] = pairs[s]
  BY <1>1 DEF Put, Taken, Slots, TypeOK
<1>3. TableType'
  BY <1>1, <1>2 DEF TableType, TypeOK, Put
<1>4. NothingIsHidden'
  <2>1. \A t : Empty(t)' => Empty(t) /\ t # at
    BY <1>1, <1>2 DEF Empty
  <2>2. ASSUME NEW s \in Taken', NEW t \in Slots,
               Distance(Home(pairs'[s].key), t) < Distance(Home(pairs'[s].key), s)
        PROVE  ~Empty(t)'
    <3>1. CASE s = at
      BY <1>1, <1>2, <2>1, <2>2, <3>1 DEF Placing, Empty
    <3>2. CASE s \in Taken
      BY <1>1, <1>2, <2>1, <2>2, <3>2 DEF NothingIsHidden
    <3>. QED
      BY <1>2, <3>1, <3>2
  <2>. QED
    BY <1>1, <1>2, <2>2, ZenonT(60) DEF NothingIsHidden, Home, Distance
<1>5. OneSlotPerKey'
  BY <1>1, <1>2 DEF OneSlotPerKey, Placing
<1>6. HalfIsFree'
  <2>1. IsFiniteSet(Taken) /\ Cardinality(Taken) \in Nat
    BY FiniteSlots DEF TypeOK, Slots
  <2>2. Cardinality(Taken') = Cardinality(Taken) + 1
    BY <1>1, <1>2, <2>1, FS_AddElement
  <2>3. 2 * size < capacity /\ capacity % 2 = 0 /\ size \in Nat /\ capacity \in Nat
    BY <1>1 DEF Roomy, TypeOK
  <2>4. 2 * (size + 1) <= capacity
    BY <2>3
  <2>. QED
    BY <1>1, <2>2, <2>4 DEF HalfIsFree
<1>7. {pairs'[s] : s \in Taken'} = {pairs[s] : s \in Taken} \cup {item}
  BY <1>2
<1>. QED
  BY <1>1, <1>3, <1>4, <1>5, <1>6, <1>7, ReturnFromAddInv DEF TableOK

LEMMA RemoveFoundInv == ASSUME Inv, RemoveFound PROVE Inv'
<1>. USE DEF Inv
<1>1. /\ ~adding /\ step = "search" /\ at \in Taken /\ pairs' = Without(at)
      /\ gone' = gone \cup {at} /\ size' = size - 1 /\ Return
      /\ UNCHANGED capacity /\ UNCHANGED answer /\ UNCHANGED rebuild
  BY DEF RemoveFound, IsFound, Holds, Tombstones
<1>2. /\ Taken' = Taken \ {at} /\ Slots' = Slots /\ at \in Slots
      /\ \A s \in Taken' : pairs'[s] = pairs[s]
  BY <1>1 DEF Without, Taken, Slots, TypeOK
<1>3. IsFiniteSet(Taken) /\ Cardinality(Taken) \in Nat
  BY FiniteSlots DEF TypeOK, Slots
<1>4. Cardinality(Taken') = Cardinality(Taken) - 1 /\ Cardinality(Taken') \in Nat
  BY <1>1, <1>2, <1>3, FS_RemoveElement, FS_CardinalityType
<1>5. TableType'
  <2>1. size' \in Nat
    BY <1>1, <1>4 DEF HalfIsFree
  <2>. QED
    BY <1>1, <1>2, <2>1 DEF TableType, TypeOK, Without
<1>6. NothingIsHidden'
  <2>1. \A t : Empty(t)' => Empty(t)
    BY <1>1, <1>2 DEF Empty
  <2>. QED
    BY <1>1, <1>2, <2>1, SMTT(60) DEF NothingIsHidden, Home, Distance
<1>7. OneSlotPerKey' /\ HalfIsFree'
  BY <1>1, <1>2, <1>3, <1>4 DEF OneSlotPerKey, HalfIsFree, TypeOK
<1>8. OldOK' /\ ~Rebuilding' /\ moved' \in 0 .. old.capacity' /\ AnswerType'
  BY <1>1, SameOld DEF Control, rebuild, TypeOK, AnswerType
<1>. QED
  BY <1>1, <1>5, <1>6, <1>7, <1>8, ReturnInv DEF TableOK

LEMMA StutterInv == ASSUME Inv, UNCHANGED vars PROVE Inv'
<1>1. UNCHANGED table /\ UNCHANGED rebuild /\ UNCHANGED <<call, step, adding, item, probe>>
  BY DEF vars
<1>2. /\ TableOK' /\ OldOK' /\ Rebuilding' = Rebuilding /\ Slots' = Slots
      /\ Taken' = Taken /\ MovedSlots' = MovedSlots /\ HeldPairs' = HeldPairs
  BY <1>1, SameBuffers
<1>3. TypeOK' /\ Control'
  BY <1>1, <1>2 DEF Inv, TypeOK, Control, Serves, table, rebuild, call, probe
<1>4. Moving' /\ Filling' /\ Roomy'
  BY <1>1, <1>2, ZenonT(60) DEF Inv, Moving, Filling, Roomy, table, rebuild, call
<1>5. Searching' /\ Placing'
  BY <1>1, <1>2
  DEF Inv, Searching, Placing, Home, Sought, Distance, Empty, Holds, table, call, probe
<1>. QED
  BY <1>2, <1>3, <1>4, <1>5 DEF Inv, TableOK

\* The invariant of everything below: the types, what each local means at each
\* step, and what is known of a search, a placement and a rebuild half way.
THEOREM Invariance == Spec => []Inv
<1>1. Inv /\ [Next]_vars => Inv'
  <2>. SUFFICES ASSUME Inv, [Next]_vars PROVE Inv'
    OBVIOUS
  <2>1. CASE Asked
    BY <2>1, AskKeyInv, AskAddInv, AskCopyInv DEF Asked
  <2>2. CASE EnterAdd \/ Grow
    BY <2>2, EnterAddInv, GrowInv
  <2>3. CASE MoveSlot \/ SkipSlot \/ Grown \/ Copied
    BY <2>3, MoveSlotInv, SkipSlotInv, GrownInv, CopiedInv
  <2>4. CASE Walk \/ AnswerHas \/ RemoveFound \/ RemoveMissing
    BY <2>4, WalkInv, AnswerHasInv, RemoveFoundInv, RemoveMissingInv
  <2>5. CASE AnswerIndex \/ AddNothing \/ Overwrite
    BY <2>5, AnswerIndexInv, AddNothingInv, OverwriteInv
  <2>6. CASE FindFree \/ WalkToFree \/ Place
    BY <2>6, FindFreeInv, WalkToFreeInv, PlaceInv
  <2>7. CASE UNCHANGED vars
    BY <2>7, StutterInv
  <2>. QED
    BY <2>1, <2>2, <2>3, <2>4, <2>5, <2>6, <2>7 DEF Next, Run
<1>. QED
  BY <1>1, InitInv, PTL DEF Spec

-----------------------------------------------------------------------------
(* What the invariant says of the program.                                 *)

\* No search stops short of a key that is in the table.
THEOREM NeverHidden == Spec => []NothingIsHidden
<1>1. Inv => NothingIsHidden
  BY DEF Inv
<1>. QED
  BY <1>1, Invariance, PTL

\* `size` counts the taken slots, and half of the table is free.
THEOREM HalfFree == Spec => []HalfIsFree
<1>1. Inv => HalfIsFree
  BY DEF Inv
<1>. QED
  BY <1>1, Invariance, PTL

\* A table is not grown while it is rebuilt: an add within grow or within the
\* copying init finds less than half taken.
NoNestedGrowth == Rebuilding /\ step = "add" => ~HalfTaken

THEOREM GrowsOnce == Spec => []NoNestedGrowth
<1>1. Inv => NoNestedGrowth
  <2>. SUFFICES ASSUME Inv, Rebuilding, step = "add" PROVE ~HalfTaken
    BY DEF NoNestedGrowth
  <2>. USE DEF Inv
  <2>1. /\ moved \in DOMAIN old.pairs /\ size = Cardinality(MovedSlots)
        /\ capacity \in {old.capacity, 2 * old.capacity}
    BY DEF Moving
  <2>2. MovedSlots \cup {moved} \subseteq DOMAIN old.pairs /\ moved \notin MovedSlots
    BY <2>1 DEF MovedSlots, OldOK, TypeOK
  <2>3. /\ IsFiniteSet(DOMAIN old.pairs) /\ Cardinality(DOMAIN old.pairs) \in Nat
        /\ IsFiniteSet(MovedSlots) /\ Cardinality(MovedSlots) \in Nat
    BY FiniteSlots DEF OldOK, MovedSlots
  <2>4. Cardinality(MovedSlots \cup {moved}) = Cardinality(MovedSlots) + 1
    BY <2>2, <2>3, FS_AddElement
  <2>5. size + 1 <= Cardinality(DOMAIN old.pairs)
    BY <2>1, <2>2, <2>3, <2>4, FS_Subset
  <2>. QED
    BY <2>1, <2>3, <2>5 DEF OldOK, HalfTaken
<1>. QED
  BY <1>1, Invariance, PTL

-----------------------------------------------------------------------------
(* The object is a map.                                                    *)

\* A step that keeps the table, what is rebuilt, the call and its answer is
\* none of the map's.
LEMMA Stutters ==
    ASSUME Inv, UNCHANGED table, UNCHANGED rebuild, UNCHANGED call
    PROVE  UNCHANGED Map!map
BY SameBuffers DEF Map!map, call

\* What a search finds is held, and what it misses is not.
LEMMA SearchTells ==
    ASSUME Inv, ~Rebuilding
    PROVE  /\ HeldPairs = {pairs[s] : s \in Taken}
           /\ IsMissing => \A p \in HeldPairs : p.key # Sought
           /\ IsFound => /\ at \in Taken /\ pairs[at].key = Sought
                         /\ pairs[at] \in HeldPairs
                         /\ \A s \in Taken : pairs[s].key = Sought => s = at
<1>1. HeldPairs = {pairs[s] : s \in Taken}
  BY DEF HeldPairs
<1>2. IsMissing => \A p \in HeldPairs : p.key # Sought
  BY <1>1, MissingIsAbsent
<1>. QED
  BY <1>1, <1>2 DEF Inv, IsFound, Holds, OneSlotPerKey

LEMMA AskedMap == ASSUME Inv, Asked PROVE Map!Ask
<1>. USE DEF Inv
<1>1. /\ step = "idle" /\ asked.name = "none" /\ ~Rebuilding
      /\ UNCHANGED answer /\ asked'.name # "none"
  <2>1. step = "idle" /\ UNCHANGED answer
    BY Zenon DEF Asked, AskKey, AskAdd, AskCopy
  <2>2. asked'.name \in {"has", "remove", "index", "add", "copy"}
    <3>1. CASE \E k \in Keys, name \in {"has", "remove", "index"} : AskKey(name, k)
      BY <3>1 DEF AskKey, NoCall
    <3>2. CASE \E k \in Keys, v \in Values : AskAdd(k, v)
      BY <3>2 DEF AskAdd
    <3>3. CASE AskCopy
      BY <3>3 DEF AskCopy, NoCall
    <3>. QED
      BY <3>1, <3>2, <3>3 DEF Asked
  <2>. QED
    BY <2>1, <2>2 DEF Control
<1>2. HeldPairs' = HeldPairs
  <2>1. CASE AskCopy
    BY <1>1, <2>1 DEF AskCopy, Rebuild, HeldPairs, Rebuilding, Taken, TypeOK
  <2>2. CASE ~AskCopy
    <3>1. UNCHANGED table /\ UNCHANGED rebuild
      BY <2>2, Zenon DEF Asked, AskKey, AskAdd
    <3>. QED
      BY <3>1, SameBuffers
  <2>. QED
    BY <2>1, <2>2
<1>. QED
  BY <1>1, <1>2 DEF Map!Ask

LEMMA AnswerHasMap == ASSUME Inv, AnswerHas PROVE Map!Has
<1>1. /\ ~adding /\ step = "search" /\ asked.name = "has" /\ (IsFound \/ IsMissing)
      /\ answer' = [answer EXCEPT !.has = IsFound] /\ asked'.name = "none"
      /\ UNCHANGED table /\ UNCHANGED rebuild
  BY NoItemType DEF AnswerHas, IsFound, IsMissing, Return
<1>2. ~Rebuilding /\ Sought = asked.key
  BY <1>1 DEF Inv, Control, Sought
<1>3. IsFound <=> \E p \in HeldPairs : p.key = asked.key
  BY <1>1, <1>2, SearchTells
<1>4. HeldPairs' = HeldPairs
  BY <1>1, SameBuffers
<1>5. IsFound = (\E p \in HeldPairs : p.key = asked.key)
  BY <1>3, Zenon DEF IsFound
<1>. QED
  BY <1>1, <1>4, <1>5 DEF Map!Has, Map!Answered

LEMMA AnswerIndexMap == ASSUME Inv, AnswerIndex PROVE Map!Index
<1>1. /\ ~adding /\ step = "search" /\ asked.name = "index" /\ IsFound
      /\ answer' = [answer EXCEPT !.values = {pairs[at].value}]
      /\ asked'.name = "none" /\ UNCHANGED table /\ UNCHANGED rebuild
  BY NoItemType DEF AnswerIndex, IsFound, Return
<1>2. ~Rebuilding /\ Sought = asked.key
  BY <1>1 DEF Inv, Control, Sought
<1>3. pairs[at] \in HeldPairs /\ pairs[at].key = asked.key
  BY <1>1, <1>2, SearchTells
<1>4. HeldPairs' = HeldPairs
  BY <1>1, SameBuffers
<1>. QED
  BY <1>1, <1>3, <1>4 DEF Map!Index, Map!Answered

LEMMA RemoveMap == ASSUME Inv, RemoveFound \/ RemoveMissing PROVE Map!Remove
<1>1. /\ ~adding /\ step = "search" /\ asked.name = "remove" /\ asked'.name = "none"
      /\ UNCHANGED rebuild /\ UNCHANGED answer
  BY NoItemType DEF RemoveFound, RemoveMissing, IsFound, IsMissing, Return
<1>2. ~Rebuilding /\ Sought = asked.key
  BY <1>1 DEF Inv, Control, Sought
<1>3. HeldPairs' = {p \in HeldPairs : p.key # asked.key}
  <2>1. CASE RemoveMissing
    BY <1>2, <2>1, SearchTells, SameBuffers DEF RemoveMissing
  <2>2. CASE RemoveFound
    <3>1. /\ Taken' = Taken \ {at} /\ ~Rebuilding'
          /\ \A s \in Taken' : pairs'[s] = pairs[s]
      BY <1>1, <1>2, <2>2 DEF RemoveFound, Without, Taken, Rebuilding, rebuild
    <3>. QED
      BY <1>2, <2>2, <3>1, SearchTells DEF HeldPairs, RemoveFound
  <2>. QED
    BY <2>1, <2>2
<1>. QED
  BY <1>1, <1>3 DEF Map!Remove, Map!Answered, Map!Others

\* Nothing is overwritten in a rebuild, where each key comes once, or for h[k],
\* which adds only what it did not find.
LEMMA OverwriteMap == ASSUME Inv, Overwrite PROVE Map!Add
<1>. USE DEF Inv
<1>1. /\ adding /\ step = "search" /\ IsFound /\ ReturnFromAdd /\ UNCHANGED answer
      /\ pairs' = Put(at, [pairs[at] EXCEPT !.value = item.value])
  BY DEF Overwrite, IsFound
<1>2. ~Rebuilding
  BY OverwriteOutside
<1>3. Sought = item.key /\ Serves(item) /\ item.key = asked.key
  BY <1>1, <1>2 DEF Sought, Control, Serves
<1>4. /\ HeldPairs = {pairs[s] : s \in Taken} /\ at \in Taken
      /\ pairs[at] \in HeldPairs /\ pairs[at].key = asked.key
      /\ \A s \in Taken : pairs[s].key = asked.key => s = at
  BY <1>1, <1>2, <1>3, SearchTells
<1>5. asked.name = "add"
  BY <1>1, <1>3, <1>4 DEF Filling, Serves
<1>6. Return /\ UNCHANGED rebuild /\ ~Rebuilding'
  BY <1>1, <1>2, <1>5 DEF ReturnFromAdd, Rebuilding, rebuild
<1>7. [pairs[at] EXCEPT !.value = item.value]
        = [key |-> asked.key, value |-> asked.value]
  BY <1>3, <1>4, <1>5 DEF TypeOK, Pair, Serves
<1>8. /\ Taken' = Taken /\ pairs'[at] = [key |-> asked.key, value |-> asked.value]
      /\ \A s \in Taken \ {at} : pairs'[s] = pairs[s]
  BY <1>1, <1>4, <1>7 DEF Put, Taken
<1>9. HeldPairs' = {p \in HeldPairs : p.key # asked.key}
                       \cup {[key |-> asked.key, value |-> asked.value]}
  BY <1>4, <1>6, <1>8, SMTT(60) DEF HeldPairs
<1>. QED
  BY <1>1, <1>5, <1>6, <1>9, NoItemType DEF Map!Add, Map!Answered, Map!Others, Return

LEMMA PlaceMap == ASSUME Inv, Place PROVE Map!Next \/ UNCHANGED Map!map
<1>. USE DEF Inv
<1>1. /\ adding /\ step = "place" /\ at \notin Taken /\ pairs' = Put(at, item)
      /\ ReturnFromAdd /\ UNCHANGED answer /\ item \in Pair
  BY DEF Place, Control, TypeOK
<1>2. CASE Rebuilding
  <2>1. UNCHANGED old /\ UNCHANGED asked
    BY <1>1, <1>2 DEF ReturnFromAdd
  <2>. QED
    BY <1>1, <1>2, <2>1, SameOld DEF HeldPairs, Map!map
<1>3. CASE ~Rebuilding
  <2>1. UNCHANGED rebuild /\ ~Rebuilding' /\ Serves(item)
    BY <1>1, <1>3 DEF ReturnFromAdd, Control, rebuild, Rebuilding
  <2>2. /\ Taken' = Taken \cup {at} /\ pairs'[at] = item
        /\ \A s \in Taken : pairs'[s] = pairs[s]
    BY <1>1 DEF Put, Taken
  <2>3. HeldPairs' = HeldPairs \cup {item}
    BY <1>3, <2>1, <2>2 DEF HeldPairs
  <2>4. \A p \in HeldPairs : p.key # asked.key
    BY <1>1, <1>3, <2>1 DEF HeldPairs, Placing, Serves
  <2>5. item = [key |-> asked.key, value |-> item.value] /\ item.value \in Values
    BY <1>1, <2>1 DEF Serves, Pair
  <2>6. {p \in HeldPairs : p.key # asked.key} = HeldPairs
    BY <2>4
  <2>7. CASE asked.name = "add"
    <3>1. Return
      BY <1>1, <1>3, <2>7 DEF ReturnFromAdd
    <3>2. item = [key |-> asked.key, value |-> asked.value]
      BY <2>1, <2>5, <2>7 DEF Serves
    <3>3. Map!Add
      BY <1>1, <2>3, <2>6, <2>7, <3>1, <3>2, NoItemType
      DEF Map!Add, Map!Answered, Map!Others, Return
    <3>. QED
      BY <3>3 DEF Map!Next
  <2>8. CASE asked.name = "index"
    <3>1. UNCHANGED asked
      BY <1>1, <1>3, <2>8 DEF ReturnFromAdd
    <3>2. Map!Fill
      BY <1>1, <2>3, <2>5, <2>6, <2>8, <3>1 DEF Map!Fill, Map!Others
    <3>. QED
      BY <3>2 DEF Map!Next
  <2>. QED
    BY <2>1, <2>7, <2>8 DEF Serves
<1>. QED
  BY <1>2, <1>3

\* What is rebuilt holds what the object did, before, during and after.
LEMMA RebuildMap ==
    ASSUME Inv, Grow \/ MoveSlot \/ SkipSlot \/ Grown
    PROVE  UNCHANGED Map!map
<1>. USE DEF Inv
<1>1. CASE Grow
  BY <1>1 DEF Grow, Rebuild, HeldPairs, Rebuilding, Taken, TypeOK, Map!map, call
<1>2. CASE MoveSlot
  BY <1>2, Stutters DEF MoveSlot
<1>3. CASE SkipSlot
  <2>1. HeldPairs' = HeldPairs
    BY <1>3, SameOld DEF SkipSlot, HeldPairs, Control
  <2>. QED
    BY <1>3, <2>1 DEF SkipSlot, Map!map, call
<1>4. CASE Grown
  <2>1. Rebuilding /\ ~Rebuilding' /\ UNCHANGED table /\ UNCHANGED call
    BY <1>4, NothingRebuilt DEF Grown, Control
  <2>2. HeldPairs' = HeldPairs
    BY <1>4, <2>1, AllMoved DEF Grown, HeldPairs, table, Taken
  <2>. QED
    BY <2>1, <2>2 DEF Map!map, call
<1>. QED
  BY <1>1, <1>2, <1>3, <1>4

LEMMA CopiedMap == ASSUME Inv, Copied PROVE Map!Copy
<1>1. /\ asked.name = "copy" /\ Rebuilding /\ ~Rebuilding' /\ asked'.name = "none"
      /\ UNCHANGED table /\ UNCHANGED answer
  BY NothingRebuilt, NoItemType DEF Copied, Return, Inv, Control
<1>2. HeldPairs' = HeldPairs
  BY <1>1, AllMoved DEF Copied, HeldPairs, table, Taken
<1>. QED
  BY <1>1, <1>2 DEF Map!Copy, Map!Answered

\* Every behaviour of the table is one of a map: what has and h[k] give back is
\* what a map gives back, and growing and copying change nothing.
THEOREM Refinement == Spec => KeepsTheMap
<1>1. Init => Map!Init
  <2>. SUFFICES ASSUME Init PROVE Map!Init
    OBVIOUS
  <2>1. Taken = {} /\ ~Rebuilding
    BY DEF Init, Buffers, Taken, Rebuilding, NotRebuilt
  <2>. QED
    BY <2>1, NoItemType DEF Init, Map!Init, HeldPairs
<1>2. Inv /\ [Next]_vars => [Map!Next]_(Map!map)
  <2>. SUFFICES ASSUME Inv, [Next]_vars PROVE Map!Next \/ UNCHANGED Map!map
    OBVIOUS
  <2>1. CASE Asked
    BY <2>1, AskedMap DEF Map!Next
  <2>2. CASE AnswerHas \/ AnswerIndex \/ RemoveFound \/ RemoveMissing
    BY <2>2, AnswerHasMap, AnswerIndexMap, RemoveMap DEF Map!Next
  <2>3. CASE Overwrite \/ Copied
    BY <2>3, OverwriteMap, CopiedMap DEF Map!Next
  <2>4. CASE Place
    BY <2>4, PlaceMap
  <2>5. CASE Grow \/ MoveSlot \/ SkipSlot \/ Grown
    BY <2>5, RebuildMap
  <2>6. CASE EnterAdd \/ Walk \/ AddNothing \/ FindFree \/ WalkToFree
    BY <2>6, Stutters DEF EnterAdd, Walk, AddNothing, FindFree, WalkToFree
  <2>7. CASE UNCHANGED vars
    BY <2>7, Stutters DEF vars
  <2>. QED
    BY <2>1, <2>2, <2>3, <2>4, <2>5, <2>6, <2>7 DEF Next, Run
<1>. QED
  BY <1>1, <1>2, Invariance, PTL DEF Spec, KeepsTheMap, Map!Spec
=============================================================================
