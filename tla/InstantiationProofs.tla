------------------------- MODULE InstantiationProofs -------------------------
(***************************************************************************)
(* What is proved of instantiation for every set of generics, every        *)
(* program written with them and every limit: that one instantiation is    *)
(* one clone, that a field of a clone is what the declaration wrote with   *)
(* the argument put in, and that every written type that came to nothing,  *)
(* in the program or in a clone, was itself reported.                      *)
(***************************************************************************)
EXTENDS Instantiation, SequenceTheorems, FiniteSetTheorems,
        WellFoundedInduction, TLAPS

-----------------------------------------------------------------------------
(* The inductive invariant.                                                *)

Types == {INVALID_TYPE}
            \cup [kind : {"builtin", "generic", "own", "made"},
                  index : Nat, count : Nat, shapes : Nat]
CloneRecord == [generic : Generics, argument : Types, fields : Seq(Types)]
FrameRecord ==
    [clone : Nat, bound : Types, types : Seq(Seq(Words)), begun : Nat,
     words : Seq(Words), type : Types, started : BOOLEAN]

\* a type made of the first n clones, if of any
Among(n, type) == type.kind = "made" => type.index \in 1 .. n

\* a parameter that nothing was put in the place of
Bare(type) == type.kind = "generic" /\ type.shapes = 0

\* the argument of a clone is made of those before it, which is what the
\* recursion of SpelledClones goes down along
WellMade(made) ==
    /\ made \in Seq(CloneRecord)
    /\ \A i \in DOMAIN made :
          /\ made[i].argument # INVALID_TYPE
          /\ ~ Bare(made[i].argument)
          /\ Among(i - 1, made[i].argument)

TypesOK ==
    /\ program \in Programs
    /\ at \in 0 .. Len(Items)
    /\ WellMade(clones)
    /\ stack \in Seq(FrameRecord)
    /\ \A p \in DOMAIN stack :
          ~ stack[p].started => stack[p].words = <<>>

\* nothing speaks of a clone there is not yet
NothingAhead ==
    /\ \A i \in DOMAIN clones : \A f \in DOMAIN clones[i].fields :
          Among(Len(clones), clones[i].fields[f])
    /\ \A p \in DOMAIN stack :
          /\ stack[p].clone \in 0 .. Len(clones)
          /\ Among(Len(clones), stack[p].bound)
          /\ Among(Len(clones), stack[p].type)

\* what is left of a sequence when the first n of it were taken
Remains(rest, whole, n) ==
    /\ n + Len(rest) = Len(whole)
    /\ \A j \in 1 .. Len(rest) : rest[j] = whole[n + j]

Taken(frame) == IF frame.started THEN 1 ELSE 0

\* the frame of a clone is at the field after those its clone has
InPlace(bodies, made, frame) ==
    /\ frame.bound = made[frame.clone].argument
    /\ frame.types = bodies[made[frame.clone].generic]
    /\ frame.begun = Len(made[frame.clone].fields) + Taken(frame)
    /\ frame.begun <= Len(frame.types)

\* what the frame is in the middle of, and how many words of it were read
Written(bodies, made, frame) ==
    bodies[made[frame.clone].generic][Len(made[frame.clone].fields) + 1]
Read(written, frame) == Len(written) - Len(frame.words)

\* the type in hand is what was read so far, with the argument put in
Substituted(made, written, frame) ==
    /\ Read(written, frame) \in Nat
    /\ Remains(frame.words, written, Read(written, frame))
    /\ ~ Bare(frame.type)
    /\ Read(written, frame) = 0 => frame.type = INVALID_TYPE
    /\ frame.type # INVALID_TYPE =>
          SpelledAmong(made, frame.type)
              = ReplacedUpTo(written, SpelledAmong(made, frame.bound))
                    [Read(written, frame)]

Placed(bodies, made, frame) ==
    /\ InPlace(bodies, made, frame)
    /\ frame.started =>
          Substituted(made, Written(bodies, made, frame), frame)

FramesRead ==
    \A p \in DOMAIN stack :
        stack[p].clone # 0 => Placed(program.bodies, clones, stack[p])

\* a clone is typed by one body
OneBodyEach ==
    \A p, q \in DOMAIN stack :
        stack[p].clone # 0 /\ stack[p].clone = stack[q].clone => p = q

IInv ==
    /\ TypesOK /\ NothingAhead /\ FramesRead /\ OneBodyEach
    /\ OneClonePerInstantiation /\ FieldsAreSubstituted

-----------------------------------------------------------------------------
(* Induction, by sets: what is proved of zero and handed on is proved of   *)
(* every number.                                                           *)

\* A set of numbers that has one has a least one.
LEMMA LeastOf ==
    ASSUME NEW T \in SUBSET Nat, T # {}
    PROVE  \E x \in T : \A y \in T : x <= y
<1>. DEFINE R == {ss \in Nat \X Nat : ss[1] < ss[2]}
<1>1. IsWellFoundedOn(R, Nat)
  BY NatLessThanWellFounded DEF OpToRel
<1>2. \A x, y \in Nat : <<y, x>> \in R <=> y < x
  OBVIOUS
<1>. HIDE DEF R
<1>3. PICK x \in T : \A y \in T : ~ (<<y, x>> \in R)
  BY <1>1, WFMin
<1>4. ASSUME NEW y \in T PROVE x <= y
  <2>1. x \in Nat /\ y \in Nat
    OBVIOUS
  <2>2. <<y, x>> \in R <=> y < x
    BY <2>1, <1>2
  <2>3. ~ (y < x)
    BY <2>2, <1>3
  <2>. QED
    BY <2>1, <2>3
<1>. QED
  BY <1>4

\* A set that has zero and the successor of all it has is that of all numbers.
LEMMA SetInduction ==
    ASSUME NEW T \in SUBSET Nat, 0 \in T, \A n \in T : n + 1 \in T
    PROVE  T = Nat
<1>1. SUFFICES ASSUME Nat \ T # {} PROVE FALSE
  OBVIOUS
<1>2. PICK x \in Nat \ T : \A y \in Nat \ T : x <= y
  BY <1>1, LeastOf
<1>3. x # 0 /\ x - 1 \in Nat
  BY <1>2
<1>4. x - 1 \in T
  BY <1>2, <1>3
<1>. QED
  BY <1>2, <1>3, <1>4

-----------------------------------------------------------------------------
(* What a type spells.                                                     *)

\* The words of a clone, by the words of those before it.
SpelledFrom(made, clone, i) ==
    IF i = 0 THEN <<>>
    ELSE LET inner == made[i].argument
         IN Append(WithShapes(IF inner.kind = "made"
                          THEN clone[inner.index] ELSE Inside(inner),
                          inner),
                   Use(made[i].generic, Parameters[made[i].generic]))

\* There is a function that SpelledClones defines, since an argument is made
\* of earlier clones.
LEMMA SpelledExists ==
    ASSUME NEW made, WellMade(made), NEW n \in 0 .. Len(made)
    PROVE  \E h : h = [i \in 0 .. n |-> SpelledFrom(made, h, i)]
<1>. DEFINE T == {m \in Nat : m <= Len(made) =>
                     \E h : h = [i \in 0 .. m |-> SpelledFrom(made, h, i)]}
<1>1. 0 \in T
  <2>. DEFINE h == [i \in 0 .. 0 |-> <<>>]
  <2>1. \A i \in 0 .. 0 : SpelledFrom(made, h, i) = <<>>
    BY DEF SpelledFrom
  <2>2. h = [i \in 0 .. 0 |-> SpelledFrom(made, h, i)]
    BY <2>1
  <2>. HIDE DEF h
  <2>. QED
    BY <2>2
<1>2. ASSUME NEW m \in T PROVE m + 1 \in T
  <2>1. SUFFICES ASSUME m + 1 <= Len(made)
                 PROVE  \E h : h = [i \in 0 .. m + 1 |->
                                       SpelledFrom(made, h, i)]
    OBVIOUS
  <2>2. Len(made) \in Nat /\ m \in Nat
    BY DEF WellMade
  <2>3. PICK g : g = [i \in 0 .. m |-> SpelledFrom(made, g, i)]
    BY <2>1, <2>2
  <2>. DEFINE h == [i \in 0 .. m + 1 |->
                       IF i = m + 1 THEN SpelledFrom(made, g, i) ELSE g[i]]
  <2>4. \A i \in 0 .. m : h[i] = g[i]
    BY <2>2
  <2>5. ASSUME NEW i \in 0 .. m + 1
        PROVE  SpelledFrom(made, h, i) = SpelledFrom(made, g, i)
    <3>1. CASE i = 0
      BY <3>1 DEF SpelledFrom
    <3>2. CASE i # 0
      <4>1. i \in DOMAIN made
        BY <2>1, <2>2, <3>2 DEF WellMade
      <4>2. made[i].argument.kind = "made" =>
                made[i].argument.index \in 0 .. m
        BY <4>1, <2>2 DEF WellMade, Among
      <4>. HIDE DEF h
      <4>. QED
        BY <4>2, <2>4 DEF SpelledFrom
    <3>. QED
      BY <3>1, <3>2
  <2>6. ASSUME NEW i \in 0 .. m + 1
        PROVE  h[i] = SpelledFrom(made, h, i)
    <3>1. CASE i = m + 1
      BY <3>1, <2>5
    <3>2. CASE i # m + 1
      <4>1. i \in 0 .. m
        BY <3>2, <2>2
      <4>2. g[i] = SpelledFrom(made, g, i)
        BY <4>1, <2>3
      <4>. QED
        BY <4>1, <4>2, <2>4, <2>5
    <3>. QED
      BY <3>1, <3>2
  <2>7. h = [i \in 0 .. m + 1 |-> h[i]]
    OBVIOUS
  <2>. HIDE DEF h
  <2>8. h = [i \in 0 .. m + 1 |-> SpelledFrom(made, h, i)]
    BY <2>6, <2>7
  <2>. QED
    BY <2>8
<1>. HIDE DEF T
<1>3. T \in SUBSET Nat
  BY DEF T
<1>4. T = Nat
  BY <1>1, <1>2, <1>3, SetInduction
<1>5. n \in T /\ n <= Len(made)
  BY <1>4 DEF WellMade
<1>. QED
  BY <1>5 DEF T

\* SpelledClones is that function.
LEMMA SpelledUnfolds ==
    ASSUME NEW made, WellMade(made)
    PROVE  SpelledClones(made)
              = [i \in 0 .. Len(made) |->
                    SpelledFrom(made, SpelledClones(made), i)]
<1>1. Len(made) \in 0 .. Len(made)
  BY DEF WellMade
<1>2. \E h : h = [i \in 0 .. Len(made) |-> SpelledFrom(made, h, i)]
  BY <1>1, SpelledExists
<1>3. SpelledClones(made) =
          CHOOSE h : h = [i \in 0 .. Len(made) |-> SpelledFrom(made, h, i)]
  BY DEF SpelledClones, SpelledFrom
<1>. HIDE DEF SpelledClones
<1>. QED
  BY <1>2, <1>3

\* What one clone spells, and what none does.
LEMMA SpelledClone ==
    ASSUME NEW made, WellMade(made), NEW i \in 0 .. Len(made)
    PROVE  SpelledClones(made)[i] = SpelledFrom(made, SpelledClones(made), i)
<1>. DEFINE h == SpelledClones(made)
<1>. HIDE DEF h
<1>1. h = [j \in 0 .. Len(made) |-> SpelledFrom(made, h, j)]
  BY SpelledUnfolds DEF h
<1>2. h[i] = SpelledFrom(made, h, i)
  BY <1>1
<1>. QED
  BY <1>2 DEF h

\* Clones that are made later change nothing of what the earlier ones spell.
LEMMA SpelledStays ==
    ASSUME NEW made, WellMade(made), NEW more, WellMade(more),
           Len(made) <= Len(more),
           \A i \in DOMAIN made : /\ more[i].generic = made[i].generic
                                  /\ more[i].argument = made[i].argument
    PROVE  \A i \in 0 .. Len(made) :
              SpelledClones(more)[i] = SpelledClones(made)[i]
<1>. DEFINE T == {n \in Nat : \A i \in 0 .. n : i <= Len(made) =>
                     SpelledClones(more)[i] = SpelledClones(made)[i]}
<1>0. Len(made) \in Nat /\ Len(more) \in Nat
  BY DEF WellMade
<1>1. 0 \in T
  <2>1. SpelledClones(more)[0] = <<>> /\ SpelledClones(made)[0] = <<>>
    BY <1>0, SpelledClone DEF SpelledFrom
  <2>. QED
    BY <2>1
<1>2. ASSUME NEW n \in T PROVE n + 1 \in T
  <2>1. SUFFICES ASSUME n + 1 <= Len(made)
                 PROVE  SpelledClones(more)[n + 1] = SpelledClones(made)[n + 1]
    OBVIOUS
  <2>2. n + 1 \in DOMAIN made /\ n + 1 # 0
    BY <2>1, <1>0 DEF WellMade
  <2>3. SpelledClones(made)[n + 1]
            = SpelledFrom(made, SpelledClones(made), n + 1)
    BY <2>1, <1>0, SpelledClone
  <2>4. SpelledClones(more)[n + 1]
            = SpelledFrom(more, SpelledClones(more), n + 1)
    BY <2>1, <1>0, SpelledClone
  <2>5. made[n + 1].argument.kind = "made" =>
            made[n + 1].argument.index \in 0 .. n
    BY <2>2 DEF WellMade, Among
  <2>6. \A i \in 0 .. n : SpelledClones(more)[i] = SpelledClones(made)[i]
    BY <2>1, <1>0
  <2>. QED
    BY <2>2, <2>3, <2>4, <2>5, <2>6, Zenon DEF SpelledFrom
<1>. HIDE DEF T
<1>3. T \in SUBSET Nat
  BY DEF T
<1>4. T = Nat
  BY <1>1, <1>2, <1>3, SetInduction
<1>5. Len(made) \in T
  BY <1>0, <1>4
<1>. QED
  BY <1>5, <1>0 DEF T

\* So a type of the earlier clones goes on spelling the same.
LEMMA TypeStays ==
    ASSUME NEW made, WellMade(made), NEW more, WellMade(more),
           Len(made) <= Len(more),
           \A i \in DOMAIN made : /\ more[i].generic = made[i].generic
                                  /\ more[i].argument = made[i].argument,
           NEW type, Among(Len(made), type)
    PROVE  SpelledAmong(more, type) = SpelledAmong(made, type)
<1>1. type.kind = "made" =>
          SpelledClones(more)[type.index] = SpelledClones(made)[type.index]
  BY SpelledStays, SMTT(60) DEF Among, WellMade
<1>. QED
  BY <1>1 DEF SpelledAmong

\* the words a spelled type may have
Spelling == {Builtin, Parameter, Shape}
                \cup [word : {"use"}, generic : Nat, count : Nat]

\* Shapes around words are words.
LEMMA ShapesSpelled ==
    ASSUME NEW words \in Seq(Spelling), NEW type \in Types,
           type # INVALID_TYPE
    PROVE  WithShapes(words, type) \in Seq(Spelling)
<1>1. type.shapes \in Nat
  BY DEF Types
<1>2. [s \in 1 .. type.shapes |-> Shape] \in Seq(Spelling)
  BY <1>1 DEF Spelling
<1>. QED
  BY <1>2, ConcatProperties DEF WithShapes

LEMMA InsideSpelled ==
    ASSUME NEW type \in Types, type # INVALID_TYPE, type.kind # "made"
    PROVE  Inside(type) \in Seq(Spelling)
<1>1. type.kind \in {"builtin", "generic", "own"}
         /\ type.index \in Nat /\ type.count \in Nat
  BY DEF Types
<1>2. Use(type.index, type.count) \in Spelling
  BY <1>1 DEF Use, Spelling
<1>3. Builtin \in Spelling /\ Parameter \in Spelling
  BY DEF Spelling
<1>4. CASE type.kind = "builtin"
  <2>1. Inside(type) = <<Builtin>>
    BY <1>4 DEF Inside
  <2>. QED
    BY <2>1, <1>3
<1>5. CASE type.kind = "generic"
  <2>1. Inside(type) = <<Parameter>>
    BY <1>5 DEF Inside
  <2>. QED
    BY <2>1, <1>3
<1>6. CASE type.kind = "own"
  <2>1. Inside(type) = <<Parameter, Use(type.index, type.count)>>
    BY <1>6 DEF Inside
  <2>. QED
    BY <2>1, <1>2, <1>3
<1>. QED
  BY <1>1, <1>4, <1>5, <1>6

\* What the generics of clones are.
LEMMA GenericUse ==
    ASSUME NEW g \in Generics
    PROVE  /\ Use(g, Parameters[g]) \in Spelling
           /\ Parameters[g] \in Nat \ {0}
<1>1. g \in Nat /\ Parameters[g] \in Nat \ {0}
  BY ParametersAssumption DEF Generics
<1>. QED
  BY <1>1 DEF Use, Spelling

\* Every clone spells words.
LEMMA ClonesSpelled ==
    ASSUME NEW made, WellMade(made)
    PROVE  \A i \in 0 .. Len(made) : SpelledClones(made)[i] \in Seq(Spelling)
<1>. DEFINE T == {n \in Nat : \A i \in 0 .. n : i <= Len(made) =>
                     SpelledClones(made)[i] \in Seq(Spelling)}
<1>0. Len(made) \in Nat /\ DOMAIN made = 1 .. Len(made)
  BY DEF WellMade
<1>1. 0 \in T
  <2>1. SpelledClones(made)[0] = <<>>
    BY <1>0, SpelledClone DEF SpelledFrom
  <2>2. <<>> \in Seq(Spelling)
    OBVIOUS
  <2>3. \A i \in 0 .. 0 : i = 0
    OBVIOUS
  <2>. QED
    BY <2>1, <2>2, <2>3
<1>2. ASSUME NEW n \in T PROVE n + 1 \in T
  <2>1. SUFFICES ASSUME n + 1 <= Len(made)
                 PROVE  SpelledClones(made)[n + 1] \in Seq(Spelling)
    OBVIOUS
  <2>2. n + 1 \in DOMAIN made /\ n + 1 # 0
    BY <2>1, <1>0
  <2>3. PICK c : c = made[n + 1]
    OBVIOUS
  <2>4. /\ c.generic \in Generics /\ c.argument \in Types
        /\ c.argument # INVALID_TYPE
        /\ c.argument.kind = "made" => c.argument.index \in 0 .. n
    <3>1. c \in CloneRecord /\ c.argument # INVALID_TYPE
          /\ Among((n + 1) - 1, c.argument)
      BY <2>2, <2>3 DEF WellMade
    <3>2. (n + 1) - 1 = n /\ 1 .. n \subseteq 0 .. n
      OBVIOUS
    <3>. QED
      BY <3>1, <3>2 DEF Among, CloneRecord
  <2>5. PICK words : words = IF c.argument.kind = "made"
                             THEN SpelledClones(made)[c.argument.index]
                             ELSE Inside(c.argument)
    OBVIOUS
  <2>6. words \in Seq(Spelling)
    BY <2>1, <2>4, <2>5, <1>0, InsideSpelled
  <2>7. SpelledClones(made)[n + 1]
           = Append(WithShapes(words, c.argument),
                    Use(c.generic, Parameters[c.generic]))
    <3>1. SpelledClones(made)[n + 1]
             = SpelledFrom(made, SpelledClones(made), n + 1)
      BY <2>1, <1>0, SpelledClone
    <3>. QED
      BY <3>1, <2>2, <2>3, <2>5, SMTT(60) DEF SpelledFrom
  <2>. QED
    BY <2>4, <2>6, <2>7, ShapesSpelled, GenericUse, AppendProperties
<1>. HIDE DEF T
<1>3. T \in SUBSET Nat
  BY DEF T
<1>4. T = Nat
  BY <1>1, <1>2, <1>3, SetInduction
<1>5. Len(made) \in T
  BY <1>0, <1>4
<1>. QED
  BY <1>5, <1>0 DEF T

\* A type that may be a clone spells words.
LEMMA TypeSpelled ==
    ASSUME NEW made, WellMade(made), NEW type \in Types, type # INVALID_TYPE,
           Among(Len(made), type)
    PROVE  /\ SpelledAmong(made, type) \in Seq(Spelling)
           /\ (IF type.kind = "made" THEN SpelledClones(made)[type.index]
               ELSE Inside(type)) \in Seq(Spelling)
<1>1. type.kind = "made" => SpelledClones(made)[type.index] \in Seq(Spelling)
  BY ClonesSpelled DEF Among, WellMade
<1>2. (IF type.kind = "made" THEN SpelledClones(made)[type.index]
      ELSE Inside(type)) \in Seq(Spelling)
  BY <1>1, InsideSpelled
<1>. QED
  BY <1>2, ShapesSpelled DEF SpelledAmong

\* A shape around a type is one word more.
LEMMA AroundSpelled ==
    ASSUME NEW made, WellMade(made), NEW type \in Types, type # INVALID_TYPE,
           Among(Len(made), type)
    PROVE  /\ Around(type) \in Types /\ Around(type) # INVALID_TYPE
           /\ ~ Bare(Around(type)) /\ Among(Len(made), Around(type))
           /\ SpelledAmong(made, Around(type))
                 = SpelledAmong(made, type) \o <<Shape>>
<1>1. type \in [kind : {"builtin", "generic", "own", "made"},
                index : Nat, count : Nat, shapes : Nat]
  BY DEF Types
<1>2. PICK around : around = Around(type)
  OBVIOUS
<1>3. /\ around.kind = type.kind /\ around.index = type.index
      /\ around.count = type.count /\ around.shapes = type.shapes + 1
      /\ around \in [kind : {"builtin", "generic", "own", "made"},
                     index : Nat, count : Nat, shapes : Nat]
  BY <1>1, <1>2 DEF Around
<1>4. around # INVALID_TYPE
  BY <1>1, <1>3 DEF INVALID_TYPE
<1>5. PICK words : words = IF type.kind = "made"
                           THEN SpelledClones(made)[type.index]
                           ELSE Inside(type)
  OBVIOUS
<1>6. words \in Seq(Spelling)
  BY <1>5, TypeSpelled
<1>7. Inside(around) = Inside(type)
  BY <1>3 DEF Inside
<1>8. /\ SpelledAmong(made, around)
            = words \o [s \in 1 .. type.shapes + 1 |-> Shape]
      /\ SpelledAmong(made, type) = words \o [s \in 1 .. type.shapes |-> Shape]
  BY <1>3, <1>5, <1>7 DEF SpelledAmong, WithShapes
<1>9. words \o [s \in 1 .. type.shapes + 1 |-> Shape]
         = (words \o [s \in 1 .. type.shapes |-> Shape]) \o <<Shape>>
  <2>1. type.shapes \in Nat /\ Shape \in Spelling
    BY <1>1 DEF Spelling
  <2>2. [s \in 1 .. type.shapes |-> Shape] \in Seq(Spelling)
    BY <2>1
  <2>3. [s \in 1 .. type.shapes + 1 |-> Shape]
           = [s \in 1 .. type.shapes |-> Shape] \o <<Shape>>
    BY <2>1
  <2>4. <<Shape>> \in Seq(Spelling)
    BY <2>1
  <2>5. PICK some : some = [s \in 1 .. type.shapes |-> Shape]
    OBVIOUS
  <2>6. words \o (some \o <<Shape>>) = (words \o some) \o <<Shape>>
    <3>1. some \in Seq(Spelling)
      BY <2>2, <2>5
    <3>2. PICK one : one = <<Shape>>
      OBVIOUS
    <3>3. one \in Seq(Spelling)
      BY <2>4, <3>2
    <3>4. (words \o some) \o one = words \o (some \o one)
      BY <3>1, <3>3, <1>6, ConcatAssociative, SMTT(60)
    <3>. QED
      BY <3>2, <3>4
  <2>. QED
    BY <2>3, <2>5, <2>6
<1>10. ~ Bare(around) /\ Among(Len(made), around)
  BY <1>1, <1>3 DEF Bare, Among
<1>. QED
  BY <1>2, <1>3, <1>4, <1>8, <1>9, <1>10 DEF Types

\* A clone is its argument, used.
LEMMA MadeSpelled ==
    ASSUME NEW made, WellMade(made), NEW i \in DOMAIN made
    PROVE  SpelledAmong(made, TypeOf("made", i))
              = Append(SpelledAmong(made, made[i].argument),
                       Use(made[i].generic, Parameters[made[i].generic]))
<1>1. i \in 0 .. Len(made) /\ i # 0
  BY DEF WellMade
<1>2. SpelledAmong(made, TypeOf("made", i))
         = SpelledClones(made)[i] \o [s \in 1 .. 0 |-> Shape]
  BY DEF SpelledAmong, WithShapes, TypeOf
<1>3. SpelledClones(made)[i] \in Seq(Spelling)
  BY <1>1, ClonesSpelled
<1>4. [s \in 1 .. 0 |-> Shape] = <<>>
  OBVIOUS
<1>5. SpelledAmong(made, TypeOf("made", i)) = SpelledClones(made)[i]
  BY <1>2, <1>3, <1>4, ConcatEmptySeq
<1>6. SpelledClones(made)[i] = SpelledFrom(made, SpelledClones(made), i)
  BY <1>1, SpelledClone
<1>. QED
  BY <1>1, <1>5, <1>6, SMTT(60) DEF SpelledFrom, SpelledAmong

LEMMA BuiltinSpelled ==
    ASSUME NEW made
    PROVE  SpelledAmong(made, TypeOf("builtin", 0)) = <<Builtin>>
<1>1. SpelledAmong(made, TypeOf("builtin", 0))
         = <<Builtin>> \o [s \in 1 .. 0 |-> Shape]
  BY DEF SpelledAmong, WithShapes, TypeOf, Inside
<1>2. [s \in 1 .. 0 |-> Shape] = <<>>
  OBVIOUS
<1>. QED
  BY <1>1, <1>2

-----------------------------------------------------------------------------
(* The parameter replaced.                                                 *)

\* The words up to one of them, by those up to the one before.
ReplacedFrom(words, spelled, upTo, n) ==
    IF n = 0 THEN <<>>
    ELSE upTo[n - 1] \o IF words[n] = Parameter THEN spelled ELSE <<words[n]>>

LEMMA ReplacedExists ==
    ASSUME NEW words, NEW spelled, NEW n \in Nat
    PROVE  \E h : h = [i \in 0 .. n |-> ReplacedFrom(words, spelled, h, i)]
<1>. DEFINE T == {m \in Nat :
                     \E h : h = [i \in 0 .. m |->
                                    ReplacedFrom(words, spelled, h, i)]}
<1>1. 0 \in T
  <2>. DEFINE h == [i \in 0 .. 0 |-> <<>>]
  <2>1. \A i \in 0 .. 0 : ReplacedFrom(words, spelled, h, i) = <<>>
    BY DEF ReplacedFrom
  <2>2. h = [i \in 0 .. 0 |-> ReplacedFrom(words, spelled, h, i)]
    BY <2>1
  <2>. HIDE DEF h
  <2>. QED
    BY <2>2
<1>2. ASSUME NEW m \in T PROVE m + 1 \in T
  <2>1. m \in Nat
    OBVIOUS
  <2>2. PICK g : g = [i \in 0 .. m |-> ReplacedFrom(words, spelled, g, i)]
    OBVIOUS
  <2>. DEFINE h == [i \in 0 .. m + 1 |->
                       IF i = m + 1 THEN ReplacedFrom(words, spelled, g, i)
                                    ELSE g[i]]
  <2>3. \A i \in 0 .. m : h[i] = g[i]
    BY <2>1
  <2>4. ASSUME NEW i \in 0 .. m + 1
        PROVE  ReplacedFrom(words, spelled, h, i)
                  = ReplacedFrom(words, spelled, g, i)
    <3>1. i # 0 => i - 1 \in 0 .. m
      BY <2>1
    <3>. HIDE DEF h
    <3>. QED
      BY <3>1, <2>3 DEF ReplacedFrom
  <2>5. ASSUME NEW i \in 0 .. m + 1
        PROVE  h[i] = ReplacedFrom(words, spelled, h, i)
    <3>1. CASE i = m + 1
      BY <3>1, <2>4
    <3>2. CASE i # m + 1
      <4>1. i \in 0 .. m
        BY <3>2, <2>1
      <4>2. g[i] = ReplacedFrom(words, spelled, g, i)
        BY <4>1, <2>2
      <4>. QED
        BY <4>1, <4>2, <2>3, <2>4
    <3>. QED
      BY <3>1, <3>2
  <2>6. h = [i \in 0 .. m + 1 |-> h[i]]
    OBVIOUS
  <2>. HIDE DEF h
  <2>7. h = [i \in 0 .. m + 1 |-> ReplacedFrom(words, spelled, h, i)]
    BY <2>5, <2>6
  <2>. QED
    BY <2>7
<1>. HIDE DEF T
<1>3. T \in SUBSET Nat
  BY DEF T
<1>4. T = Nat
  BY <1>1, <1>2, <1>3, SetInduction
<1>. QED
  BY <1>4 DEF T

\* What is replaced up to a word, word by word.
LEMMA ReplacedWord ==
    ASSUME NEW words \in Seq(Words), NEW spelled, NEW n \in 0 .. Len(words)
    PROVE  ReplacedUpTo(words, spelled)[n]
              = ReplacedFrom(words, spelled, ReplacedUpTo(words, spelled), n)
<1>. DEFINE h == ReplacedUpTo(words, spelled)
<1>1. \E g : g = [i \in 0 .. Len(words) |->
                     ReplacedFrom(words, spelled, g, i)]
  BY ReplacedExists, SMTT(60)
<1>2. h = CHOOSE g : g = [i \in 0 .. Len(words) |->
                            ReplacedFrom(words, spelled, g, i)]
  BY DEF ReplacedUpTo, ReplacedFrom
<1>. HIDE DEF h
<1>3. h = [i \in 0 .. Len(words) |-> ReplacedFrom(words, spelled, h, i)]
  BY <1>1, <1>2
<1>4. h[n] = ReplacedFrom(words, spelled, h, n)
  BY <1>3
<1>. QED
  BY <1>4 DEF h

-----------------------------------------------------------------------------
(* The stack.                                                              *)

\* The innermost frame is one.
LEMMA TopAt ==
    ASSUME TypesOK, stack # <<>>
    PROVE  /\ Len(stack) \in DOMAIN stack /\ Len(stack) \in Nat \ {0}
           /\ DOMAIN stack = 1 .. Len(stack)
           /\ Top \in FrameRecord /\ Top = stack[Len(stack)]
<1>1. stack \in Seq(FrameRecord)
  BY DEF TypesOK
<1>2. Len(stack) \in DOMAIN stack /\ Len(stack) \in Nat \ {0}
        /\ DOMAIN stack = 1 .. Len(stack)
  BY <1>1
<1>3. Top \in FrameRecord
  BY <1>1, <1>2 DEF Top
<1>. QED
  BY <1>2, <1>3 DEF Top

\* A stack of which the innermost frame became another.
LEMMA SwapTop ==
    ASSUME NEW old \in Seq(FrameRecord), old # <<>>, NEW frame \in FrameRecord,
           NEW new, new = [old EXCEPT ![Len(old)] = frame]
    PROVE  /\ new \in Seq(FrameRecord) /\ new # <<>>
           /\ Len(new) = Len(old) /\ DOMAIN new = DOMAIN old
           /\ new[Len(old)] = frame
           /\ \A p \in DOMAIN old : p # Len(old) => new[p] = old[p]
  OBVIOUS

\* The first of what remains is the next, and the others remain.
LEMMA RemainsTail ==
    ASSUME NEW S, NEW whole \in Seq(S), NEW rest \in Seq(S), NEW n \in Nat,
           Remains(rest, whole, n), rest # <<>>
    PROVE  /\ n + 1 \in DOMAIN whole /\ Head(rest) = whole[n + 1]
           /\ Remains(Tail(rest), whole, n + 1)
<1>1. Len(rest) \in Nat \ {0} /\ Len(whole) \in Nat
  OBVIOUS
<1>2. Len(Tail(rest)) = Len(rest) - 1
      /\ \A j \in 1 .. Len(rest) - 1 : Tail(rest)[j] = rest[j + 1]
  BY <1>1
<1>3. \A j \in 1 .. Len(rest) - 1 : rest[j + 1] = whole[n + (j + 1)]
  BY <1>1 DEF Remains
<1>4. Head(rest) = whole[n + 1]
  BY <1>1 DEF Remains
<1>. QED
  BY <1>1, <1>2, <1>3, <1>4 DEF Remains

\* All of it remains at the beginning.
LEMMA RemainsAll ==
    ASSUME NEW S, NEW whole \in Seq(S)
    PROVE  Remains(whole, whole, 0)
  BY DEF Remains

\* What the bodies of a program are.
LEMMA BodiesWritten ==
    ASSUME TypesOK, NEW g \in Generics
    PROVE  /\ program.bodies[g] \in Seq(Seq(Words))
           /\ \A f \in DOMAIN program.bodies[g] :
                 /\ program.bodies[g][f] \in Seq(Words)
                 /\ WrittenType(program.bodies[g][f])
<1>1. program.bodies \in Seq(Seq(Seq(Words))) /\ g \in DOMAIN program.bodies
  BY ProgramsAssumption DEF TypesOK
<1>2. program.bodies[g] \in Seq(Seq(Words))
  BY <1>1
<1>. QED
  BY <1>2, ProgramsAssumption DEF TypesOK

\* Where a frame of a clone is: the type it is in the middle of is one that
\* the declaration wrote.
LEMMA InTheMiddle ==
    ASSUME TypesOK, NEW frame \in FrameRecord, frame.started,
           frame.clone \in DOMAIN clones, InPlace(program.bodies, clones, frame)
    PROVE  /\ Written(program.bodies, clones, frame) \in Seq(Words)
           /\ WrittenType(Written(program.bodies, clones, frame))
           /\ Len(clones[frame.clone].fields) + 1
                 \in DOMAIN program.bodies[clones[frame.clone].generic]
<1>1. clones[frame.clone] \in CloneRecord
  BY DEF TypesOK, WellMade
<1>. DEFINE body == program.bodies[clones[frame.clone].generic]
            n == Len(clones[frame.clone].fields)
<1>2. n \in Nat
  BY <1>1 DEF CloneRecord
<1>3. /\ body \in Seq(Seq(Words))
      /\ \A f \in DOMAIN body : body[f] \in Seq(Words) /\ WrittenType(body[f])
  BY <1>1, BodiesWritten DEF CloneRecord
<1>4. frame.begun = n + 1 /\ frame.begun <= Len(body)
  BY DEF InPlace, Taken
<1>5. Written(program.bodies, clones, frame) = body[n + 1]
  BY DEF Written
<1>. HIDE DEF body, n
<1>6. n + 1 \in DOMAIN body
  <2>1. Len(body) \in Nat /\ DOMAIN body = 1 .. Len(body)
    BY <1>3, LenProperties
  <2>2. \A l \in Nat : n + 1 <= l => n + 1 \in 1 .. l
    BY <1>2
  <2>. QED
    BY <2>1, <2>2, <1>4
<1>. QED
  BY <1>3, <1>5, <1>6 DEF body, n

\* A frame that a step leaves alone is where it was.
LEMMA FrameKept ==
    ASSUME NEW bodies, NEW made, WellMade(made), NEW more, WellMade(more),
           Len(made) <= Len(more),
           \A i \in DOMAIN made : /\ more[i].generic = made[i].generic
                                  /\ more[i].argument = made[i].argument,
           NEW frame, more[frame.clone] = made[frame.clone],
           Among(Len(made), frame.type), Among(Len(made), frame.bound),
           Placed(bodies, made, frame)
    PROVE  Placed(bodies, more, frame)
<1>1. /\ SpelledAmong(more, frame.type) = SpelledAmong(made, frame.type)
      /\ SpelledAmong(more, frame.bound) = SpelledAmong(made, frame.bound)
  BY TypeStays
<1>2. InPlace(bodies, more, frame)
  BY DEF Placed, InPlace
<1>. DEFINE written == Written(bodies, more, frame)
<1>3. written = Written(bodies, made, frame)
  BY DEF Written
<1>. HIDE DEF written
<1>4. ASSUME frame.started PROVE Substituted(more, written, frame)
  BY <1>1, <1>3, <1>4 DEF Substituted, Placed
<1>. QED
  BY <1>2, <1>4 DEF Placed, written

-----------------------------------------------------------------------------
(* The steps that end a word.                                              *)

\* The word at hand ends and the type in hand becomes another, no clone being
\* made: all is as it was if that type is what was read so far.
LEMMA BecomesStep ==
    ASSUME IInv, Building, NEW type \in Types, Becomes(type),
           Among(Len(clones), type),
           UNCHANGED <<program, at, clones>>,
           NEW written, written = Written(program.bodies, clones, Top),
           Top.clone # 0 /\ Substituted(clones, written, Top) =>
              /\ ~ Bare(type)
              /\ type # INVALID_TYPE =>
                    Spelled(type) = ReplacedUpTo(written, Spelled(Top.bound))
                                        [Read(written, Top) + 1]
    PROVE  IInv'
<1>. DEFINE n == Len(stack)
<1>0. PICK new : new = [Top EXCEPT !.words = Tail(@), !.type = type]
  OBVIOUS
<1>1. /\ TypesOK /\ stack # <<>>
      /\ n \in DOMAIN stack /\ n \in Nat \ {0} /\ DOMAIN stack = 1 .. n
      /\ Top \in FrameRecord /\ Top = stack[n] /\ stack \in Seq(FrameRecord)
  BY TopAt DEF IInv, Building, TypesOK
<1>2. Top.words # <<>> /\ Top.started
  BY <1>1 DEF Building, TypesOK
<1>3. /\ new.clone = Top.clone /\ new.bound = Top.bound /\ new.started
      /\ new.types = Top.types /\ new.begun = Top.begun
      /\ new.words = Tail(Top.words) /\ new.type = type
      /\ new = [clone |-> Top.clone, bound |-> Top.bound, types |-> Top.types,
                begun |-> Top.begun, words |-> Tail(Top.words), type |-> type,
                started |-> Top.started]
  BY <1>0, <1>1, <1>2 DEF FrameRecord
<1>4. new \in FrameRecord
  <2>1. Tail(Top.words) \in Seq(Words)
    BY <1>1, <1>2 DEF FrameRecord
  <2>. QED
    BY <2>1, <1>1, <1>3 DEF FrameRecord
<1>5. stack' = [stack EXCEPT ![n] = new]
  BY <1>0, <1>1 DEF Becomes
<1>. HIDE DEF n
<1>6. /\ stack' \in Seq(FrameRecord) /\ DOMAIN stack' = DOMAIN stack
      /\ stack'[n] = new
      /\ \A p \in DOMAIN stack : p # n => stack'[p] = stack[p]
  BY <1>1, <1>4, <1>5, SwapTop DEF n
<1>7. TypesOK'
  BY <1>1, <1>3, <1>6, ZenonT(60) DEF TypesOK, Items
<1>8. NothingAhead'
  BY <1>1, <1>3, <1>6, ZenonT(60) DEF IInv, NothingAhead
<1>9. WellMade(clones) /\ Len(clones) \in Nat /\ DOMAIN clones = 1 .. Len(clones)
  BY <1>1 DEF TypesOK, WellMade
<1>10. FramesRead'
  <2>1. SUFFICES ASSUME NEW p \in DOMAIN stack, stack'[p].clone # 0
                 PROVE  Placed(program.bodies, clones, stack'[p])
    BY <1>6 DEF FramesRead
  <2>2. stack[p] \in FrameRecord /\ stack[p].clone = stack'[p].clone
    BY <1>1, <1>3, <1>6, SMTT(60)
  <2>3. /\ stack[p].clone \in DOMAIN clones
        /\ Among(Len(clones), stack[p].type)
        /\ Among(Len(clones), stack[p].bound)
        /\ Placed(program.bodies, clones, stack[p])
    BY <2>1, <2>2, <1>9 DEF IInv, NothingAhead, FramesRead
  <2>4. CASE p # n
    <3>1. stack'[p] = stack[p]
      BY <2>4, <1>6
    <3>. QED
      BY <2>3, <3>1, <1>9, FrameKept
  <2>5. CASE p = n
    <3>1. /\ stack[p] = Top /\ stack'[p] = new
          /\ Top.clone # 0 /\ Top.clone \in DOMAIN clones
          /\ InPlace(program.bodies, clones, Top)
          /\ Substituted(clones, written, Top)
      BY <2>1, <2>2, <2>3, <2>5, <1>1, <1>2, <1>6 DEF Placed
    <3>2. InPlace(program.bodies, clones, new)
      BY <3>1, <1>2, <1>3 DEF InPlace, Taken
    <3>3. written \in Seq(Words)
      BY <3>1, <1>1, <1>2, InTheMiddle
    <3>4. Written(program.bodies, clones, new) = written
      BY <1>3, ZenonT(60) DEF Written
    <3>5. Top.words \in Seq(Words)
      BY <1>1 DEF FrameRecord
    <3>6. /\ Read(written, Top) \in Nat
          /\ Remains(Tail(Top.words), written, Read(written, Top) + 1)
      BY <3>1, <3>3, <3>5, <1>2, RemainsTail DEF Substituted
    <3>7. Read(written, new) = Read(written, Top) + 1
      <4>1. Len(Tail(Top.words)) = Len(Top.words) - 1 /\ Len(Top.words) \in Nat
        BY <3>5, <1>2
      <4>2. Len(written) \in Nat
        BY <3>3, LenProperties
      <4>3. \A k, l \in Nat : l - (k - 1) = (l - k) + 1
        OBVIOUS
      <4>4. Len(written) - (Len(Top.words) - 1)
                = (Len(written) - Len(Top.words)) + 1
        BY <4>1, <4>2, <4>3
      <4>. QED
        BY <4>1, <4>4, <1>3 DEF Read
    <3>8. Substituted(clones, written, new)
      BY <3>1, <3>6, <3>7, <1>3 DEF Substituted, Spelled
    <3>. QED
      BY <3>1, <3>2, <3>4, <3>8 DEF Placed
  <2>. QED
    BY <2>4, <2>5
<1>11. OneBodyEach'
  <2>1. \A p \in DOMAIN stack : stack'[p].clone = stack[p].clone
    BY <1>1, <1>3, <1>6
  <2>. QED
    BY <2>1, <1>6 DEF IInv, OneBodyEach
<1>12. OneClonePerInstantiation' /\ FieldsAreSubstituted'
  BY DEF IInv, OneClonePerInstantiation, FieldsAreSubstituted, Spelled
<1>. QED
  BY <1>7, <1>8, <1>10, <1>11, <1>12 DEF IInv

\* Where the innermost frame is when it is that of a clone.
LEMMA CloneFrame ==
    ASSUME IInv, Building, Top.clone # 0
    PROVE  /\ Top.clone \in DOMAIN clones
           /\ Top.bound = clones[Top.clone].argument
           /\ Top.bound \in Types /\ Top.bound # INVALID_TYPE
           /\ ~ Bare(Top.bound) /\ Among(Len(clones), Top.bound)
           /\ Written(program.bodies, clones, Top) \in Seq(Words)
           /\ WrittenType(Written(program.bodies, clones, Top))
           /\ Substituted(clones, Written(program.bodies, clones, Top), Top)
<1>1. TypesOK /\ stack # <<>>
  BY DEF IInv, Building
<1>2. /\ Len(stack) \in DOMAIN stack /\ Top = stack[Len(stack)]
      /\ Top \in FrameRecord
  BY <1>1, TopAt
<1>3. Top.words # <<>> /\ Top.started
  BY <1>1, <1>2 DEF Building, TypesOK
<1>4. Placed(program.bodies, clones, Top)
  BY <1>2 DEF IInv, FramesRead
<1>5. Top.clone \in DOMAIN clones /\ Among(Len(clones), Top.bound)
  BY <1>1, <1>2 DEF IInv, NothingAhead, TypesOK, WellMade
<1>6. /\ Top.bound = clones[Top.clone].argument
      /\ InPlace(program.bodies, clones, Top)
  BY <1>4 DEF Placed, InPlace
<1>7. Top.bound # INVALID_TYPE /\ ~ Bare(Top.bound)
  BY <1>1, <1>5, <1>6 DEF TypesOK, WellMade
<1>8. Top.bound \in Types
  BY <1>2 DEF FrameRecord
<1>9. /\ Written(program.bodies, clones, Top) \in Seq(Words)
      /\ WrittenType(Written(program.bodies, clones, Top))
  BY <1>1, <1>2, <1>3, <1>5, <1>6, InTheMiddle
<1>. QED
  BY <1>3, <1>4, <1>5, <1>6, <1>7, <1>8, <1>9 DEF Placed

\* The word at hand is the next of the written type, and what it adds.
LEMMA NextWord ==
    ASSUME IInv, Building, Top.clone # 0, NEW written, NEW k, NEW spelled,
           written = Written(program.bodies, clones, Top),
           k = Read(written, Top)
    PROVE  /\ k \in Nat /\ Word = written[k + 1]
           /\ ReplacedUpTo(written, spelled)[0] = <<>>
           /\ ReplacedUpTo(written, spelled)[k + 1]
                 = ReplacedUpTo(written, spelled)[k]
                      \o IF Word = Parameter THEN spelled ELSE <<Word>>
           /\ k = 0 => Word # Shape /\ (Word.word = "use" => Word.count = 0)
           /\ k # 0 => Word = Shape \/ (Word.word = "use" /\ Word.count > 0)
<1>1. /\ written \in Seq(Words) /\ WrittenType(written)
      /\ Substituted(clones, written, Top)
  BY CloneFrame
<1>2. Top.words \in Seq(Words) /\ Top.words # <<>>
  BY TopAt DEF IInv, Building, FrameRecord
<1>3. k \in Nat /\ Remains(Top.words, written, k)
  BY <1>1 DEF Substituted
<1>4. k + 1 \in DOMAIN written /\ Word = written[k + 1]
  BY <1>1, <1>2, <1>3, RemainsTail DEF Word
<1>5. DOMAIN written = 1 .. Len(written) /\ Len(written) \in Nat
  BY <1>1, LenProperties
<1>6. /\ k + 1 \in 0 .. Len(written) /\ 0 \in 0 .. Len(written)
      /\ (k + 1) - 1 = k /\ k + 1 # 0
      /\ k # 0 => k + 1 \in 2 .. Len(written)
  BY <1>3, <1>4, <1>5
<1>7. ReplacedUpTo(written, spelled)[0] = <<>>
  BY <1>1, <1>6, ReplacedWord DEF ReplacedFrom
<1>8. ReplacedUpTo(written, spelled)[k + 1]
         = ReplacedFrom(written, spelled, ReplacedUpTo(written, spelled), k + 1)
  BY <1>1, <1>6, ReplacedWord
<1>9. k = 0 => Word # Shape /\ (Word.word = "use" => Word.count = 0)
  BY <1>1, <1>4, <1>6 DEF WrittenType
<1>10. k # 0 => Word = Shape \/ (Word.word = "use" /\ Word.count > 0)
  BY <1>1, <1>4, <1>6 DEF WrittenType
<1>. QED
  BY <1>3, <1>4, <1>6, <1>7, <1>8, <1>9, <1>10, ZenonT(60) DEF ReplacedFrom

\* What a word can be, and what it is not then.
LEMMA WordKinds ==
    ASSUME IInv, Building
    PROVE  /\ Word \in Words
           /\ Word.word # "use" =>
                 \/ Word = Builtin /\ Word.word = "builtin"
                 \/ Word = Unknown /\ Word.word = "unknown"
                 \/ Word = Parameter /\ Word.word = "parameter"
                 \/ Word = Shape /\ Word.word = "shape"
           /\ Word.word = "use" =>
                 /\ Word \in [word : {"use"}, generic : Generics, count : Nat]
                 /\ Word # Parameter /\ Word # Shape /\ Word # Builtin
           /\ Builtin # Shape /\ Builtin # Parameter /\ Parameter # Shape
           /\ Builtin.word # "use" /\ Parameter.word # "use" /\ Shape.word # "use"
<1>1. Top.words \in Seq(Words) /\ Top.words # <<>>
  BY TopAt DEF IInv, Building, FrameRecord
<1>2. Word \in Words
  BY <1>1 DEF Word
<1>. QED
  BY <1>2 DEF Words, Builtin, Unknown, Parameter, Shape

\* A name or a shape.
LEMMA BuildStep ==
    ASSUME IInv, Build
    PROVE  IInv'
<1>. DEFINE type == CASE Word.word = "builtin" -> TypeOf("builtin", 0)
                      [] Word.word = "unknown" -> INVALID_TYPE
                      [] Word.word = "parameter" -> Top.bound
                      [] Word.word = "shape" -> Around(Top.type)
<1>1. /\ Building /\ Word.word # "use" /\ Becomes(type)
      /\ UNCHANGED <<program, at, clones>>
  BY DEF Build
<1>2. /\ Top \in FrameRecord /\ WellMade(clones)
      /\ Among(Len(clones), Top.type) /\ Among(Len(clones), Top.bound)
  BY <1>1, TopAt DEF IInv, Building, NothingAhead, TypesOK
<1>3. Top.type \in Types /\ Top.bound \in Types
  BY <1>2 DEF FrameRecord
<1>4. \/ Word = Builtin /\ Word.word = "builtin"
      \/ Word.word = "unknown"
      \/ Word = Parameter /\ Word.word = "parameter"
      \/ Word = Shape /\ Word.word = "shape"
  BY <1>1, WordKinds
<1>5. /\ TypeOf("builtin", 0) \in Types /\ ~ Bare(TypeOf("builtin", 0))
      /\ Among(Len(clones), TypeOf("builtin", 0))
      /\ TypeOf("builtin", 0) # INVALID_TYPE
  BY DEF TypeOf, Types, Bare, Among, INVALID_TYPE
<1>6. /\ Around(INVALID_TYPE) = INVALID_TYPE
      /\ INVALID_TYPE \in Types /\ ~ Bare(INVALID_TYPE)
      /\ Among(Len(clones), INVALID_TYPE)
  BY DEF Around, Types, Bare, Among, INVALID_TYPE
<1>7. PICK t : t = type
  OBVIOUS
<1>8. t \in Types /\ Among(Len(clones), t)
  <2>1. CASE Word.word = "builtin"
    BY <2>1, <1>5, <1>7
  <2>2. CASE Word.word = "parameter"
    BY <2>2, <1>2, <1>3, <1>7
  <2>3. CASE Word.word = "shape"
    <3>1. t = Around(Top.type)
      BY <2>3, <1>7
    <3>. QED
      BY <3>1, <1>2, <1>3, <1>6, AroundSpelled
  <2>4. CASE Word.word = "unknown"
    BY <2>4, <1>6, <1>7
  <2>. QED
    BY <2>1, <2>2, <2>3, <2>4, <1>4
<1>9. PICK written, k :
         written = Written(program.bodies, clones, Top) /\ k = Read(written, Top)
  OBVIOUS
<1>10. ASSUME Top.clone # 0, Substituted(clones, written, Top)
       PROVE  /\ ~ Bare(t)
              /\ t # INVALID_TYPE =>
                    Spelled(t) = ReplacedUpTo(written, Spelled(Top.bound))[k + 1]
  <2>. DEFINE s == Spelled(Top.bound)
              up == ReplacedUpTo(written, s)
  <2>1. /\ k \in Nat /\ up[0] = <<>>
        /\ up[k + 1] = up[k] \o IF Word = Parameter THEN s ELSE <<Word>>
        /\ k = 0 => Word # Shape
        /\ k # 0 => Word = Shape \/ Word.word = "use"
    BY <1>1, <1>9, <1>10, NextWord, Zenon
  <2>2. /\ Top.bound # INVALID_TYPE /\ ~ Bare(Top.bound)
        /\ s \in Seq(Spelling)
    BY <1>1, <1>2, <1>10, CloneFrame, TypeSpelled DEF Spelled
  <2>. HIDE DEF s, up
  <2>3. CASE Word = Builtin /\ Word.word = "builtin"
    <3>1. t = TypeOf("builtin", 0) /\ Spelled(t) = <<Builtin>>
      BY <2>3, <1>7, BuiltinSpelled DEF Spelled
    <3>2. k = 0 /\ Word # Parameter
      BY <2>1, <2>3, <1>1, WordKinds
    <3>3. up[k + 1] = <<>> \o <<Builtin>>
      BY <3>2, <2>1, <2>3
    <3>4. up[k + 1] = <<Builtin>>
      BY <3>3
    <3>. QED
      BY <3>1, <3>4, <1>5 DEF up, s
  <2>4. CASE Word = Parameter /\ Word.word = "parameter"
    <3>1. t = Top.bound
      BY <2>4, <1>7
    <3>2. k = 0
      BY <2>1, <2>4, <1>1, WordKinds
    <3>3. up[k + 1] = s
      BY <3>2, <2>1, <2>2, <2>4, ConcatEmptySeq
    <3>. QED
      BY <3>1, <3>3, <2>2 DEF up, s
  <2>5. CASE Word = Shape /\ Word.word = "shape"
    <3>1. t = Around(Top.type)
      BY <2>5, <1>7
    <3>2. k # 0 /\ Word # Parameter
      BY <2>1, <2>5, <1>1, WordKinds
    <3>3. up[k + 1] = up[k] \o <<Shape>>
      BY <3>2, <2>1, <2>5
    <3>4. CASE Top.type = INVALID_TYPE
      BY <3>1, <3>4, <1>6
    <3>5. CASE Top.type # INVALID_TYPE
      <4>1. Spelled(Top.type) = up[k]
        BY <3>5, <1>9, <1>10 DEF Substituted, Spelled, up, s
      <4>2. /\ t # INVALID_TYPE /\ ~ Bare(t)
            /\ Spelled(t) = Spelled(Top.type) \o <<Shape>>
        BY <3>1, <3>5, <1>2, <1>3, AroundSpelled DEF Spelled
      <4>. QED
        BY <4>1, <4>2, <3>3 DEF up, s
    <3>. QED
      BY <3>4, <3>5
  <2>6. CASE Word.word = "unknown"
    BY <2>6, <1>6, <1>7
  <2>. QED
    BY <2>3, <2>4, <2>5, <2>6, <1>4
<1>11. Becomes(t)
  BY <1>1, <1>7
<1>. HIDE DEF type
<1>. QED
  BY <1>1, <1>8, <1>9, <1>10, <1>11, BecomesStep

\* What is refused, and a use of what could not be built, has no type.
LEMMA NoTypeStep ==
    ASSUME IInv, Building, Becomes(INVALID_TYPE),
           UNCHANGED <<program, at, clones>>
    PROVE  IInv'
<1>1. /\ INVALID_TYPE \in Types /\ ~ Bare(INVALID_TYPE)
      /\ Among(Len(clones), INVALID_TYPE)
  BY DEF Types, Bare, Among, INVALID_TYPE
<1>2. PICK written : written = Written(program.bodies, clones, Top)
  OBVIOUS
<1>. QED
  BY <1>1, <1>2, BecomesStep

\* A declaration that names itself does so outside of every clone.
LEMMA NameOwnStep ==
    ASSUME IInv, NameOwn
    PROVE  IInv'
<1>1. /\ Building /\ Becomes(OwnOf(Word)) /\ Word.word = "use"
      /\ Bare(Top.type)
      /\ UNCHANGED <<program, at, clones>>
  BY DEF NameOwn, Asking, Unbound, Bare
<1>2. PICK written : written = Written(program.bodies, clones, Top)
  OBVIOUS
<1>3. ~ (Top.clone # 0 /\ Substituted(clones, written, Top))
  BY <1>1 DEF Substituted
<1>4. Word.generic \in Nat /\ Word.count \in Nat
  BY <1>1, WordKinds, ParametersAssumption DEF Generics
<1>5. OwnOf(Word) \in Types /\ Among(Len(clones), OwnOf(Word))
  BY <1>4 DEF OwnOf, TypeOf, Types, Among
<1>. QED
  BY <1>1, <1>2, <1>3, <1>5, BecomesStep

\* What is accepted is a use of a generic with as many arguments as it has
\* parameters, around a type.
LEMMA Asked ==
    ASSUME IInv, Accepted
    PROVE  /\ Building /\ Word \in Words
           /\ Word.generic \in Generics
           /\ Word = Use(Word.generic, Parameters[Word.generic])
           /\ Word # Parameter
           /\ Top.type \in Types /\ Top.type # INVALID_TYPE
           /\ ~ Bare(Top.type) /\ Among(Len(clones), Top.type)
<1>1. Building /\ Word.word = "use" /\ Word.count = Parameters[Word.generic]
  BY DEF Accepted, Instantiating, Asking, WrongArity
<1>2. /\ Word \in [word : {"use"}, generic : Generics, count : Nat]
      /\ Word # Parameter /\ Word \in Words
  BY <1>1, WordKinds
<1>3. Word = Use(Word.generic, Parameters[Word.generic])
  BY <1>1, <1>2 DEF Use
<1>4. Word.count > 0
  BY <1>1, <1>2, GenericUse
<1>5. Top.type # INVALID_TYPE /\ ~ Bare(Top.type)
  BY <1>4 DEF Accepted, Instantiating, Poisoned, Unbound, Bare
<1>6. /\ Top \in FrameRecord /\ Len(stack) \in DOMAIN stack
      /\ Top = stack[Len(stack)]
  BY <1>1, TopAt DEF IInv, Building
<1>7. Top.type \in Types /\ Among(Len(clones), Top.type)
  BY <1>6 DEF FrameRecord, IInv, NothingAhead
<1>. QED
  BY <1>1, <1>2, <1>3, <1>5, <1>7

\* The clone of what is asked for spells it.
LEMMA CloneSpells ==
    ASSUME IInv, Accepted, NEW made, WellMade(made), NEW i \in DOMAIN made,
           made[i].generic = Word.generic, made[i].argument = Top.type
    PROVE  /\ TypeOf("made", i) \in Types /\ TypeOf("made", i) # INVALID_TYPE
           /\ ~ Bare(TypeOf("made", i))
           /\ Among(Len(made), TypeOf("made", i))
           /\ Among(Len(made), Top.type)
           /\ SpelledAmong(made, TypeOf("made", i))
                 = SpelledAmong(made, Top.type) \o <<Word>>
<1>1. i \in Nat /\ i \in 1 .. Len(made) /\ Len(made) \in Nat
  BY DEF WellMade
<1>2. /\ TypeOf("made", i) \in Types /\ TypeOf("made", i) # INVALID_TYPE
      /\ ~ Bare(TypeOf("made", i))
      /\ Among(Len(made), TypeOf("made", i))
  BY <1>1 DEF TypeOf, Types, Bare, Among, INVALID_TYPE
<1>3. Among(i - 1, Top.type)
  BY DEF WellMade
<1>4. Among(Len(made), Top.type)
  BY <1>1, <1>3 DEF Among
<1>5. SpelledAmong(made, Top.type) \in Seq(Spelling)
  BY <1>4, Asked, TypeSpelled
<1>6. SpelledAmong(made, TypeOf("made", i))
         = Append(SpelledAmong(made, Top.type), Word)
  BY MadeSpelled, Asked
<1>7. Word \in Spelling
  BY Asked, GenericUse
<1>8. Append(SpelledAmong(made, Top.type), Word)
         = SpelledAmong(made, Top.type) \o <<Word>>
  BY <1>5, <1>7, AppendIsConcat
<1>. QED
  BY <1>2, <1>4, <1>6, <1>8

\* What was read, when it is a use that is accepted, ends with that use.
LEMMA UseAdds ==
    ASSUME IInv, Accepted, Top.clone # 0, NEW written, NEW k,
           written = Written(program.bodies, clones, Top),
           k = Read(written, Top),
           Substituted(clones, written, Top)
    PROVE  ReplacedUpTo(written, Spelled(Top.bound))[k + 1]
              = SpelledAmong(clones, Top.type) \o <<Word>>
<1>. DEFINE s == Spelled(Top.bound)
            up == ReplacedUpTo(written, s)
<1>1. Building /\ Word # Parameter /\ Top.type # INVALID_TYPE
  BY Asked
<1>2. /\ k \in Nat /\ up[0] = <<>>
      /\ up[k + 1] = up[k] \o IF Word = Parameter THEN s ELSE <<Word>>
  BY <1>1, NextWord
<1>3. SpelledAmong(clones, Top.type) = up[k]
  BY <1>1 DEF Substituted, Spelled
<1>. HIDE DEF up, s
<1>4. up[k + 1] = SpelledAmong(clones, Top.type) \o <<Word>>
  BY <1>1, <1>2, <1>3
<1>. QED
  BY <1>4 DEF up, s

\* An instantiation there is already is that one.
LEMMA FindCloneStep ==
    ASSUME IInv, FindClone
    PROVE  IInv'
<1>1. /\ Accepted /\ Building /\ UNCHANGED <<program, at, clones>>
  BY Asked DEF FindClone
<1>2. PICK i \in Made(Word.generic, Top.type) : Becomes(TypeOf("made", i))
  BY DEF FindClone
<1>3. /\ i \in DOMAIN clones /\ clones[i].generic = Word.generic
      /\ clones[i].argument = Top.type
  BY <1>2 DEF Made
<1>4. PICK type : type = TypeOf("made", i)
  OBVIOUS
<1>5. WellMade(clones)
  BY DEF IInv, TypesOK
<1>6. /\ type \in Types /\ type # INVALID_TYPE /\ ~ Bare(type)
      /\ Among(Len(clones), type)
      /\ SpelledAmong(clones, type) = SpelledAmong(clones, Top.type) \o <<Word>>
  BY <1>1, <1>3, <1>4, <1>5, CloneSpells
<1>7. PICK written, k :
         written = Written(program.bodies, clones, Top) /\ k = Read(written, Top)
  OBVIOUS
<1>8. ASSUME Top.clone # 0, Substituted(clones, written, Top)
      PROVE  Spelled(type) = ReplacedUpTo(written, Spelled(Top.bound))[k + 1]
  <2>1. ReplacedUpTo(written, Spelled(Top.bound))[k + 1]
           = SpelledAmong(clones, Top.type) \o <<Word>>
    BY <1>1, <1>7, <1>8, UseAdds
  <2>. QED
    BY <2>1, <1>6 DEF Spelled
<1>. QED
  BY <1>1, <1>2, <1>4, <1>6, <1>7, <1>8, BecomesStep

-----------------------------------------------------------------------------
(* The other steps.                                                        *)

LEMMA AmongMore ==
    ASSUME NEW m \in Nat, NEW n \in Nat, m <= n, NEW type, Among(m, type)
    PROVE  Among(n, type)
  BY DEF Among

\* What the instance variables of the invariant say of the clones, once they
\* are more: those there were are as they were.
LEMMA FieldsStay ==
    ASSUME IInv, WellMade(clones'), Len(clones) <= Len(clones'),
           program' = program,
           \A i \in DOMAIN clones : clones'[i] = clones[i],
           \A i \in DOMAIN clones' \ DOMAIN clones : clones'[i].fields = <<>>
    PROVE  FieldsAreSubstituted'
<1>1. WellMade(clones) /\ NothingAhead /\ FieldsAreSubstituted
  BY DEF IInv, TypesOK
<1>2. /\ DOMAIN clones = 1 .. Len(clones) /\ DOMAIN clones' = 1 .. Len(clones')
      /\ Len(clones) \in Nat /\ Len(clones') \in Nat
  BY <1>1 DEF WellMade
<1>3. ASSUME NEW i \in DOMAIN clones', NEW f \in DOMAIN clones'[i].fields
      PROVE  /\ i \in DOMAIN clones /\ clones'[i] = clones[i]
             /\ f \in DOMAIN clones[i].fields
             /\ Among(Len(clones), clones[i].fields[f])
             /\ Among(Len(clones), clones[i].argument)
  <2>1. i \in DOMAIN clones /\ clones'[i] = clones[i]
    BY <1>3
  <2>2. Among(i - 1, clones[i].argument)
    BY <2>1, <1>1 DEF WellMade
  <2>3. Among(Len(clones), clones[i].argument)
    BY <2>1, <2>2, <1>2 DEF Among
  <2>. QED
    BY <2>1, <2>3, <1>1, <1>3 DEF NothingAhead
<1>4. SUFFICES ASSUME NEW i \in DOMAIN clones',
                      NEW f \in DOMAIN clones'[i].fields,
                      clones'[i].fields[f] # INVALID_TYPE
               PROVE  SpelledAmong(clones', clones'[i].fields[f])
                         = Replaced(program.bodies[clones'[i].generic][f],
                               SpelledAmong(clones', clones'[i].argument))
  BY DEF FieldsAreSubstituted, Spelled
<1>5. /\ i \in DOMAIN clones /\ clones'[i] = clones[i]
      /\ f \in DOMAIN clones[i].fields
      /\ SpelledAmong(clones', clones[i].fields[f])
            = SpelledAmong(clones, clones[i].fields[f])
      /\ SpelledAmong(clones', clones[i].argument)
            = SpelledAmong(clones, clones[i].argument)
  BY <1>1, <1>3, TypeStays
<1>. QED
  BY <1>1, <1>4, <1>5 DEF FieldsAreSubstituted, Spelled

\* The frame that a declaration's body is typed in.
LEMMA NewFrame ==
    ASSUME NEW clone \in Nat, NEW bound \in Types, NEW types \in Seq(Seq(Words))
    PROVE  /\ Frame(clone, bound, types) \in FrameRecord
           /\ ~ Frame(clone, bound, types).started
           /\ Frame(clone, bound, types).words = <<>>
           /\ Frame(clone, bound, types).clone = clone
           /\ Frame(clone, bound, types).bound = bound
           /\ Frame(clone, bound, types).types = types
           /\ Frame(clone, bound, types).begun = 0
           /\ Frame(clone, bound, types).type = INVALID_TYPE
  BY DEF Frame, FrameRecord, Types

\* One more clone, one that there was none of, and its body is to be typed.
LEMMA MakeCloneStep ==
    ASSUME IInv, MakeClone
    PROVE  IInv'
<1>1. /\ Accepted /\ Made(Word.generic, Top.type) = {}
      /\ UNCHANGED <<program, at>>
  BY DEF MakeClone
<1>2. PICK i, c, new, body, n :
         /\ i = Len(clones) + 1 /\ n = Len(stack)
         /\ c = [generic |-> Word.generic, argument |-> Top.type,
                 fields |-> <<>>]
         /\ new = [Top EXCEPT !.words = Tail(@), !.type = TypeOf("made", i)]
         /\ body = Frame(i, Top.type, program.bodies[Word.generic])
  OBVIOUS
<1>3. /\ TypesOK /\ stack # <<>> /\ n \in DOMAIN stack /\ n \in Nat \ {0}
      /\ DOMAIN stack = 1 .. n /\ stack \in Seq(FrameRecord)
      /\ Top \in FrameRecord /\ Top = stack[n]
      /\ WellMade(clones) /\ clones \in Seq(CloneRecord)
      /\ Len(clones) \in Nat /\ DOMAIN clones = 1 .. Len(clones)
  BY <1>1, <1>2, Asked, TopAt DEF IInv, Building, TypesOK, WellMade
<1>4. /\ Building /\ Word.generic \in Generics /\ Word # Parameter
      /\ Top.type \in Types /\ Top.type # INVALID_TYPE
      /\ ~ Bare(Top.type) /\ Among(Len(clones), Top.type)
  BY <1>1, Asked
<1>5. Top.words # <<>> /\ Top.started
  BY <1>3, <1>4 DEF Building, TypesOK
<1>6. clones' = Append(clones, c) /\ c \in CloneRecord
  BY <1>2, <1>4 DEF MakeClone, CloneRecord
<1>7. /\ clones' \in Seq(CloneRecord) /\ Len(clones') = i
      /\ DOMAIN clones' = 1 .. i /\ clones'[i] = c
      /\ \A k \in DOMAIN clones : clones'[k] = clones[k]
  BY <1>2, <1>3, <1>6
<1>8. WellMade(clones')
  <2>1. SUFFICES ASSUME NEW k \in DOMAIN clones'
                 PROVE  /\ clones'[k].argument # INVALID_TYPE
                        /\ ~ Bare(clones'[k].argument)
                        /\ Among(k - 1, clones'[k].argument)
    BY <1>7 DEF WellMade
  <2>2. CASE k \in DOMAIN clones
    BY <2>2, <1>3, <1>7 DEF WellMade
  <2>3. CASE k = i
    <3>1. k - 1 = Len(clones) /\ clones'[k].argument = Top.type
      BY <2>3, <1>2, <1>3, <1>7
    <3>. QED
      BY <3>1, <1>4
  <2>. QED
    BY <2>2, <2>3, <1>2, <1>3, <1>7
<1>9. /\ i \in DOMAIN clones' /\ clones'[i].generic = Word.generic
      /\ clones'[i].argument = Top.type /\ clones'[i].fields = <<>>
      /\ i \in Nat /\ i # 0 /\ Len(clones) <= i /\ ~ (i \in DOMAIN clones)
  BY <1>2, <1>3, <1>7
<1>10. PICK t : t = TypeOf("made", i)
  OBVIOUS
<1>11. /\ t \in Types /\ t # INVALID_TYPE /\ ~ Bare(t)
       /\ Among(i, t) /\ Among(i, Top.type)
       /\ SpelledAmong(clones', t) = SpelledAmong(clones', Top.type) \o <<Word>>
  BY <1>1, <1>7, <1>8, <1>9, <1>10, CloneSpells
<1>12. /\ new.clone = Top.clone /\ new.bound = Top.bound /\ new.started
       /\ new.types = Top.types /\ new.begun = Top.begun
       /\ new.words = Tail(Top.words) /\ new.type = t
       /\ new = [clone |-> Top.clone, bound |-> Top.bound,
                 types |-> Top.types, begun |-> Top.begun,
                 words |-> Tail(Top.words), type |-> t,
                 started |-> Top.started]
  BY <1>2, <1>3, <1>5, <1>10 DEF FrameRecord
<1>13. new \in FrameRecord
  <2>1. Tail(Top.words) \in Seq(Words)
    BY <1>3, <1>5 DEF FrameRecord
  <2>. QED
    BY <2>1, <1>3, <1>11, <1>12 DEF FrameRecord
<1>14. program.bodies[Word.generic] \in Seq(Seq(Words))
  BY <1>3, <1>4, BodiesWritten
<1>15. /\ body \in FrameRecord /\ ~ body.started /\ body.words = <<>>
       /\ body.clone = i /\ body.bound = Top.type /\ body.type = INVALID_TYPE
       /\ body.types = program.bodies[Word.generic] /\ body.begun = 0
  BY <1>2, <1>4, <1>9, <1>14, NewFrame
<1>16. PICK under : under = [stack EXCEPT ![n] = new]
  OBVIOUS
<1>17. stack' = Append(under, body)
  BY <1>2, <1>3, <1>16 DEF MakeClone, BodyOf
<1>18. /\ under \in Seq(FrameRecord) /\ Len(under) = n
       /\ under[n] = new
       /\ \A p \in DOMAIN stack : p # n => under[p] = stack[p]
  <2>1. under = [stack EXCEPT ![Len(stack)] = new]
    BY <1>2, <1>16
  <2>. QED
    BY <2>1, <1>2, <1>3, <1>13, SwapTop, ZenonT(60)
<1>19. /\ stack' \in Seq(FrameRecord) /\ DOMAIN stack' = 1 .. n + 1
       /\ stack'[n + 1] = body /\ stack'[n] = new
       /\ \A p \in DOMAIN stack : p # n => stack'[p] = stack[p]
  BY <1>3, <1>15, <1>17, <1>18
<1>20. \A p \in DOMAIN stack' : p \in DOMAIN stack \/ p = n + 1
  BY <1>3, <1>19
<1>21. TypesOK'
  <2>1. at' \in 0 .. Len(Items)' /\ program' \in Programs
    BY <1>1, <1>3 DEF TypesOK, Items
  <2>2. \A p \in DOMAIN stack' : ~ stack'[p].started => stack'[p].words = <<>>
    BY <1>3, <1>12, <1>15, <1>19, <1>20, ZenonT(60) DEF TypesOK
  <2>. QED
    BY <2>1, <2>2, <1>8, <1>19 DEF TypesOK
<1>22. NothingAhead'
  <2>1. ASSUME NEW k \in DOMAIN clones', NEW f \in DOMAIN clones'[k].fields
        PROVE  Among(Len(clones'), clones'[k].fields[f])
    <3>1. k \in DOMAIN clones /\ clones'[k] = clones[k]
      BY <2>1, <1>2, <1>3, <1>7, <1>9
    <3>2. Among(Len(clones), clones[k].fields[f])
      BY <3>1, <2>1 DEF IInv, NothingAhead
    <3>. QED
      BY <3>1, <3>2, <1>3, <1>7, <1>9, AmongMore
  <2>2. ASSUME NEW p \in DOMAIN stack'
        PROVE  /\ stack'[p].clone \in 0 .. Len(clones')
               /\ Among(Len(clones'), stack'[p].bound)
               /\ Among(Len(clones'), stack'[p].type)
    <3>1. CASE p = n + 1
      <4>1. Among(i, INVALID_TYPE)
        BY DEF Among, INVALID_TYPE
      <4>. QED
        BY <4>1, <3>1, <1>7, <1>9, <1>11, <1>15, <1>19
    <3>2. CASE p \in DOMAIN stack
      <4>1. /\ stack[p].clone \in 0 .. Len(clones)
            /\ Among(Len(clones), stack[p].bound)
            /\ Among(Len(clones), stack[p].type)
        BY <3>2 DEF IInv, NothingAhead
      <4>2. /\ stack[p].clone \in 0 .. i /\ Among(i, stack[p].bound)
            /\ Among(i, stack[p].type)
        BY <4>1, <1>3, <1>9, AmongMore
      <4>. QED
        BY <4>2, <3>2, <1>3, <1>7, <1>11, <1>12, <1>19
    <3>. QED
      BY <3>1, <3>2, <1>20
  <2>. QED
    BY <2>1, <2>2 DEF NothingAhead
<1>23. FramesRead'
  <2>1. SUFFICES ASSUME NEW p \in DOMAIN stack', stack'[p].clone # 0
                 PROVE  Placed(program.bodies, clones', stack'[p])
    BY <1>1 DEF FramesRead
  <2>2. CASE p = n + 1
    <3>1. stack'[p] = body
      BY <2>2, <1>19
    <3>2. body.begun <= Len(body.types)
      <4>1. Len(body.types) \in Nat
        BY <1>14, <1>15, LenProperties
      <4>. QED
        BY <4>1, <1>15
    <3>3. Len(clones'[i].fields) + Taken(body) = 0
      BY <1>9, <1>15 DEF Taken
    <3>. QED
      BY <3>1, <3>2, <3>3, <1>9, <1>15 DEF Placed, InPlace
  <2>3. ASSUME p \in DOMAIN stack
        PROVE  /\ stack[p].clone # 0 /\ stack[p].clone \in DOMAIN clones
               /\ clones'[stack[p].clone] = clones[stack[p].clone]
               /\ Placed(program.bodies, clones', stack[p])
    <3>1. stack[p].clone # 0
      BY <2>1, <2>3, <1>3, <1>12, <1>19
    <3>2. /\ stack[p].clone \in DOMAIN clones
          /\ Among(Len(clones), stack[p].type)
          /\ Among(Len(clones), stack[p].bound)
          /\ Placed(program.bodies, clones, stack[p])
      BY <3>1, <2>3, <1>3 DEF IInv, NothingAhead, FramesRead
    <3>. QED
      BY <3>1, <3>2, <1>3, <1>7, <1>8, <1>9, FrameKept
  <2>4. CASE p \in DOMAIN stack /\ p # n
    BY <2>3, <2>4, <1>19
  <2>5. CASE p = n
    <3>1. PICK written, k : /\ written = Written(program.bodies, clones, Top)
                            /\ k = Read(written, Top)
      OBVIOUS
    <3>2. /\ Top.clone # 0 /\ Top.clone \in DOMAIN clones
          /\ clones'[Top.clone] = clones[Top.clone]
          /\ InPlace(program.bodies, clones', Top) /\ stack'[p] = new
      BY <2>3, <2>5, <1>3, <1>19 DEF Placed
    <3>3. /\ written \in Seq(Words)
          /\ Substituted(clones, written, Top)
          /\ Among(Len(clones), Top.bound)
      BY <3>1, <3>2, <1>4, CloneFrame
    <3>4. InPlace(program.bodies, clones', new)
      BY <3>2, <1>5, <1>12 DEF InPlace, Taken
    <3>5. Written(program.bodies, clones', new) = written
      BY <3>1, <3>2, <1>12, ZenonT(60) DEF Written
    <3>6. Top.words \in Seq(Words)
      BY <1>3 DEF FrameRecord
    <3>7. k \in Nat /\ Remains(Tail(Top.words), written, k + 1)
      BY <3>1, <3>3, <3>6, <1>5, RemainsTail DEF Substituted
    <3>8. Read(written, new) = k + 1
      <4>1. Len(Tail(Top.words)) = Len(Top.words) - 1 /\ Len(Top.words) \in Nat
        BY <3>6, <1>5
      <4>2. Len(written) \in Nat
        BY <3>3, LenProperties
      <4>3. \A l, m \in Nat : l - (m - 1) = (l - m) + 1
        OBVIOUS
      <4>4. Len(written) - (Len(Top.words) - 1)
                = (Len(written) - Len(Top.words)) + 1
        BY <4>1, <4>2, <4>3
      <4>. QED
        BY <4>1, <4>4, <3>1, <1>12 DEF Read
    <3>9. ReplacedUpTo(written, SpelledAmong(clones, Top.bound))[k + 1]
             = SpelledAmong(clones, Top.type) \o <<Word>>
      BY <3>1, <3>2, <3>3, <1>1, UseAdds DEF Spelled
    <3>10. /\ SpelledAmong(clones', Top.bound) = SpelledAmong(clones, Top.bound)
           /\ SpelledAmong(clones', Top.type) = SpelledAmong(clones, Top.type)
      <4>1. /\ Len(clones) <= Len(clones')
            /\ \A j \in DOMAIN clones :
                  /\ clones'[j].generic = clones[j].generic
                  /\ clones'[j].argument = clones[j].argument
        BY <1>7, <1>9
      <4>. QED
        BY <4>1, <3>3, <1>3, <1>4, <1>8, TypeStays, ZenonT(60)
    <3>11. Substituted(clones', written, new)
      BY <3>7, <3>8, <3>9, <3>10, <1>11, <1>12, SMTT(60) DEF Substituted
    <3>. QED
      BY <3>2, <3>4, <3>5, <3>11 DEF Placed
  <2>. QED
    BY <2>2, <2>4, <2>5, <1>20
<1>24. OneBodyEach'
  <2>1. \A p \in DOMAIN stack : stack'[p].clone = stack[p].clone
    BY <1>3, <1>12, <1>19
  <2>2. \A p \in DOMAIN stack : stack[p].clone # i
    BY <1>2, <1>3 DEF IInv, NothingAhead
  <2>. QED
    BY <2>1, <2>2, <1>15, <1>19, <1>20 DEF IInv, OneBodyEach
<1>25. OneClonePerInstantiation'
  <2>1. \A k \in DOMAIN clones : ~ (/\ clones[k].generic = Word.generic
                                    /\ clones[k].argument = Top.type)
    BY <1>1 DEF Made
  <2>2. \A k \in DOMAIN clones' : k \in DOMAIN clones \/ k = i
    BY <1>2, <1>3, <1>7
  <2>. QED
    BY <2>1, <2>2, <1>7, <1>9 DEF IInv, OneClonePerInstantiation
<1>26. FieldsAreSubstituted'
  <2>1. \A k \in DOMAIN clones' \ DOMAIN clones : clones'[k].fields = <<>>
    BY <1>2, <1>3, <1>7, <1>9
  <2>. QED
    BY <2>1, <1>1, <1>7, <1>8, <1>9, FieldsStay
<1>. QED
  BY <1>21, <1>22, <1>23, <1>24, <1>25, <1>26 DEF IInv

\* A written type is over: the clone has a field more, which is that type
\* with the argument put in.
LEMMA EndTypeStep ==
    ASSUME IInv, EndType
    PROVE  IInv'
<1>1. /\ stack # <<>> /\ Top.started /\ Top.words = <<>>
      /\ UNCHANGED <<program, at>>
  BY DEF EndType
<1>2. PICK new, n, c : /\ new = [Top EXCEPT !.started = FALSE]
                       /\ n = Len(stack) /\ c = Top.clone
  OBVIOUS
<1>3. /\ TypesOK /\ n \in DOMAIN stack /\ n \in Nat \ {0}
      /\ DOMAIN stack = 1 .. n /\ stack \in Seq(FrameRecord)
      /\ Top \in FrameRecord /\ Top = stack[n]
      /\ WellMade(clones) /\ clones \in Seq(CloneRecord)
      /\ Len(clones) \in Nat /\ DOMAIN clones = 1 .. Len(clones)
  BY <1>1, <1>2, TopAt DEF IInv, TypesOK, WellMade
<1>0. \A k \in DOMAIN clones :
         clones[k] \in CloneRecord /\ clones[k].fields \in Seq(Types) /\ k # 0
  <2>1. \A k \in DOMAIN clones : clones[k] \in CloneRecord /\ k # 0
    BY <1>3
  <2>. QED
    BY <2>1 DEF CloneRecord
<1>4. /\ new.clone = c /\ new.bound = Top.bound /\ ~ new.started
      /\ new.types = Top.types /\ new.begun = Top.begun
      /\ new.words = <<>> /\ new.type = Top.type
      /\ new \in FrameRecord
  BY <1>1, <1>2, <1>3 DEF FrameRecord
<1>5. stack' = [stack EXCEPT ![Len(stack)] = new]
  BY <1>2, <1>3 DEF EndType
<1>6. /\ stack' \in Seq(FrameRecord) /\ DOMAIN stack' = DOMAIN stack
      /\ stack'[n] = new
      /\ \A p \in DOMAIN stack : p # n => stack'[p] = stack[p]
  BY <1>1, <1>2, <1>3, <1>4, <1>5, SwapTop
<1>7. Top.type \in Types /\ Among(Len(clones), Top.type) /\ c \in 0 .. Len(clones)
  BY <1>2, <1>3 DEF FrameRecord, IInv, NothingAhead
<1>8. /\ clones' \in Seq(CloneRecord) /\ Len(clones') = Len(clones)
      /\ DOMAIN clones' = DOMAIN clones
      /\ \A k \in DOMAIN clones : /\ clones'[k].generic = clones[k].generic
                                  /\ clones'[k].argument = clones[k].argument
                                  /\ k # c => clones'[k] = clones[k]
      /\ c # 0 => clones'[c].fields = Append(clones[c].fields, Top.type)
  <2>1. CASE c = 0
    BY <2>1, <1>2, <1>3 DEF EndType
  <2>2. CASE c # 0
    <3>1. PICK d : d = [clones[c] EXCEPT !.fields = Append(@, Top.type)]
      OBVIOUS
    <3>2. c \in DOMAIN clones /\ clones[c] \in CloneRecord
      BY <2>2, <1>3, <1>7
    <3>3. /\ d.generic = clones[c].generic
          /\ d.argument = clones[c].argument
          /\ d.fields = Append(clones[c].fields, Top.type)
          /\ d \in CloneRecord
      <4>1. Append(clones[c].fields, Top.type) \in Seq(Types)
        BY <3>2, <1>7 DEF CloneRecord
      <4>. QED
        BY <4>1, <3>1, <3>2 DEF CloneRecord
    <3>4. clones' = [clones EXCEPT ![c] = d]
      BY <2>2, <3>1, <3>2, <1>2 DEF EndType
    <3>. QED
      BY <3>2, <3>3, <3>4, <1>3
  <2>. QED
    BY <2>1, <2>2
<1>9. WellMade(clones')
  BY <1>3, <1>8 DEF WellMade
<1>10. \A type : Among(Len(clones), type) =>
           SpelledAmong(clones', type) = SpelledAmong(clones, type)
  BY <1>3, <1>8, <1>9, TypeStays, SMTT(60)
<1>11. PICK written : written = Written(program.bodies, clones, Top)
  OBVIOUS
<1>12. ASSUME c # 0
       PROVE  /\ c \in DOMAIN clones
              /\ InPlace(program.bodies, clones, Top)
              /\ written = program.bodies[clones[c].generic]
                               [Len(clones[c].fields) + 1]
              /\ Top.type # INVALID_TYPE =>
                    SpelledAmong(clones, Top.type)
                       = Replaced(written,
                                  SpelledAmong(clones, clones[c].argument))
  <2>1. /\ c \in DOMAIN clones
        /\ InPlace(program.bodies, clones, Top)
        /\ Substituted(clones, written, Top)
    BY <1>1, <1>2, <1>3, <1>7, <1>11, <1>12 DEF IInv, FramesRead, Placed
  <2>2. written \in Seq(Words) /\ WrittenType(written)
    BY <2>1, <1>1, <1>2, <1>3, <1>11, InTheMiddle
  <2>3. Len(written) \in Nat /\ Len(written) # 0
    BY <2>2 DEF WrittenType
  <2>4. Read(written, Top) = Len(written)
    BY <2>3, <1>1 DEF Read
  <2>5. Top.bound = clones[c].argument
    BY <2>1, <1>2 DEF InPlace
  <2>6. written = program.bodies[clones[c].generic]
                      [Len(clones[c].fields) + 1]
    BY <1>2, <1>11 DEF Written
  <2>7. Top.type # INVALID_TYPE =>
            SpelledAmong(clones, Top.type)
                = Replaced(written, SpelledAmong(clones, clones[c].argument))
    BY <2>1, <2>4, <2>5 DEF Substituted, Replaced
  <2>. QED
    BY <2>1, <2>6, <2>7
<1>13. TypesOK'
  <2>1. at' \in 0 .. Len(Items)' /\ program' \in Programs
    BY <1>1, <1>3 DEF TypesOK, Items
  <2>2. \A p \in DOMAIN stack' : ~ stack'[p].started => stack'[p].words = <<>>
    BY <1>3, <1>4, <1>6 DEF TypesOK
  <2>. QED
    BY <2>1, <2>2, <1>6, <1>9 DEF TypesOK
<1>14. NothingAhead'
  <2>1. ASSUME NEW k \in DOMAIN clones', NEW f \in DOMAIN clones'[k].fields
        PROVE  Among(Len(clones'), clones'[k].fields[f])
    <3>1. \A g \in DOMAIN clones[k].fields :
             Among(Len(clones), clones[k].fields[g])
      BY <1>8 DEF IInv, NothingAhead
    <3>2. CASE k # c
      BY <3>1, <3>2, <2>1, <1>8
    <3>3. CASE k = c
      <4>1. clones[c].fields \in Seq(Types) /\ c # 0
        BY <3>3, <1>0, <1>8
      <4>2. \A s \in Seq(Types) : \A g \in DOMAIN Append(s, Top.type) :
               \/ g \in DOMAIN s /\ Append(s, Top.type)[g] = s[g]
               \/ g = Len(s) + 1 /\ Append(s, Top.type)[g] = Top.type
        OBVIOUS
      <4>3. \A g \in DOMAIN clones'[c].fields :
               \/ /\ g \in DOMAIN clones[c].fields
                  /\ clones'[c].fields[g] = clones[c].fields[g]
               \/ clones'[c].fields[g] = Top.type
        BY <4>1, <4>2, <1>8, ZenonT(60)
      <4>. QED
        BY <3>1, <3>3, <4>3, <2>1, <1>7, <1>8
    <3>. QED
      BY <3>2, <3>3
  <2>2. ASSUME NEW p \in DOMAIN stack'
        PROVE  /\ stack'[p].clone \in 0 .. Len(clones')
               /\ Among(Len(clones'), stack'[p].bound)
               /\ Among(Len(clones'), stack'[p].type)
    <3>1. /\ stack[p].clone \in 0 .. Len(clones)
          /\ Among(Len(clones), stack[p].bound)
          /\ Among(Len(clones), stack[p].type)
      BY <1>6 DEF IInv, NothingAhead
    <3>2. /\ stack'[p].clone = stack[p].clone
          /\ stack'[p].bound = stack[p].bound
          /\ stack'[p].type = stack[p].type
      BY <1>2, <1>3, <1>4, <1>6
    <3>. QED
      BY <3>1, <3>2, <1>8
  <2>. QED
    BY <2>1, <2>2 DEF NothingAhead
<1>15. FramesRead'
  <2>1. SUFFICES ASSUME NEW p \in DOMAIN stack, stack'[p].clone # 0
                 PROVE  Placed(program.bodies, clones', stack'[p])
    BY <1>1, <1>6 DEF FramesRead
  <2>2. stack[p].clone = stack'[p].clone
    BY <1>2, <1>3, <1>4, <1>6, ZenonT(60)
  <2>3. CASE p # n
    <3>1. /\ stack[p].clone \in DOMAIN clones
          /\ Among(Len(clones), stack[p].type)
          /\ Among(Len(clones), stack[p].bound)
          /\ Placed(program.bodies, clones, stack[p])
      BY <2>1, <2>2, <1>3 DEF IInv, NothingAhead, FramesRead
    <3>2. stack[p].clone # c
      BY <2>1, <2>2, <2>3, <1>2, <1>3 DEF IInv, OneBodyEach
    <3>3. clones'[stack[p].clone] = clones[stack[p].clone]
      BY <3>1, <3>2, <1>8
    <3>4. stack'[p] = stack[p] /\ Len(clones) <= Len(clones')
      BY <2>3, <1>3, <1>6, <1>8
    <3>5. \A k \in DOMAIN clones :
             /\ clones'[k].generic = clones[k].generic
             /\ clones'[k].argument = clones[k].argument
      BY <1>8
    <3>6. Placed(program.bodies, clones', stack[p])
      BY <3>1, <3>3, <3>4, <3>5, <1>3, <1>9, FrameKept
    <3>. QED
      BY <3>4, <3>6
  <2>4. CASE p = n
    <3>1. /\ stack'[p] = new /\ c # 0 /\ c \in DOMAIN clones
          /\ InPlace(program.bodies, clones, Top)
      BY <2>1, <2>4, <1>4, <1>6, <1>12
    <3>2. clones[c].fields \in Seq(Types)
      BY <3>1, <1>0
    <3>3. Len(clones'[c].fields) + Taken(new)
             = Len(clones[c].fields) + Taken(Top)
      BY <3>1, <3>2, <1>1, <1>4, <1>7, <1>8, SMTT(60) DEF Taken
    <3>4. InPlace(program.bodies, clones', new)
      BY <3>1, <3>3, <1>2, <1>4, <1>8, SMTT(60) DEF InPlace
    <3>. QED
      BY <3>1, <3>4, <1>4 DEF Placed
  <2>. QED
    BY <2>3, <2>4
<1>16. OneBodyEach'
  <2>1. \A p \in DOMAIN stack : stack'[p].clone = stack[p].clone
    BY <1>2, <1>3, <1>4, <1>6
  <2>. QED
    BY <2>1, <1>6 DEF IInv, OneBodyEach
<1>17. OneClonePerInstantiation'
  BY <1>8, SMTT(60) DEF IInv, OneClonePerInstantiation
<1>18. ASSUME NEW i \in DOMAIN clones, NEW f \in DOMAIN clones'[i].fields
       PROVE  \/ /\ f \in DOMAIN clones[i].fields
                 /\ clones'[i].fields[f] = clones[i].fields[f]
                 /\ Among(Len(clones), clones[i].fields[f])
              \/ /\ i = c /\ c # 0 /\ f = Len(clones[c].fields) + 1
                 /\ clones'[i].fields[f] = Top.type
  <2>1. CASE i # c
    BY <2>1, <1>8, <1>18 DEF IInv, NothingAhead
  <2>2. CASE i = c
    <3>1. clones[c].fields \in Seq(Types) /\ c # 0
      BY <2>2, <1>0
    <3>2. \A s \in Seq(Types) : \A g \in DOMAIN Append(s, Top.type) :
             \/ g \in DOMAIN s /\ Append(s, Top.type)[g] = s[g]
             \/ g = Len(s) + 1 /\ Append(s, Top.type)[g] = Top.type
      OBVIOUS
    <3>3. \/ /\ f \in DOMAIN clones[c].fields
             /\ clones'[c].fields[f] = clones[c].fields[f]
          \/ /\ f = Len(clones[c].fields) + 1
             /\ clones'[c].fields[f] = Top.type
      BY <2>2, <3>1, <3>2, <1>8, <1>18, ZenonT(60)
    <3>. QED
      BY <2>2, <3>1, <3>3 DEF IInv, NothingAhead
  <2>. QED
    BY <2>1, <2>2
<1>19. FieldsAreSubstituted'
  <2>1. SUFFICES ASSUME NEW i \in DOMAIN clones',
                        NEW f \in DOMAIN clones'[i].fields,
                        clones'[i].fields[f] # INVALID_TYPE
                 PROVE  SpelledAmong(clones', clones'[i].fields[f])
                           = Replaced(program.bodies[clones'[i].generic][f],
                                 SpelledAmong(clones', clones'[i].argument))
    BY <1>1 DEF FieldsAreSubstituted, Spelled
  <2>2. i \in DOMAIN clones /\ Among(Len(clones), clones[i].argument)
    <3>1. i \in DOMAIN clones /\ Among(i - 1, clones[i].argument)
      BY <1>3, <1>8 DEF WellMade
    <3>. QED
      BY <3>1, <1>3 DEF Among
  <2>3. /\ clones'[i].generic = clones[i].generic
        /\ SpelledAmong(clones', clones'[i].argument)
              = SpelledAmong(clones, clones[i].argument)
    BY <2>2, <1>8, <1>10
  <2>4. CASE /\ f \in DOMAIN clones[i].fields
             /\ clones'[i].fields[f] = clones[i].fields[f]
             /\ Among(Len(clones), clones[i].fields[f])
    <3>1. SpelledAmong(clones, clones[i].fields[f])
             = Replaced(program.bodies[clones[i].generic][f],
                        SpelledAmong(clones, clones[i].argument))
      BY <2>1, <2>2, <2>4 DEF IInv, FieldsAreSubstituted, Spelled
    <3>. QED
      BY <3>1, <2>3, <2>4, <1>10
  <2>5. CASE /\ i = c /\ c # 0 /\ f = Len(clones[c].fields) + 1
             /\ clones'[i].fields[f] = Top.type
    <3>1. SpelledAmong(clones, Top.type)
             = Replaced(program.bodies[clones[c].generic][f],
                        SpelledAmong(clones, clones[c].argument))
      BY <2>1, <2>5, <1>12
    <3>. QED
      BY <3>1, <2>3, <2>5, <1>7, <1>10
  <2>. QED
    BY <2>2, <2>4, <2>5, <1>18
<1>. QED
  BY <1>13, <1>14, <1>15, <1>16, <1>17, <1>19 DEF IInv

\* The next written type is begun, none of its words being read.
LEMMA NextTypeStep ==
    ASSUME IInv, NextType
    PROVE  IInv'
<1>1. /\ stack # <<>> /\ ~ Top.started /\ Top.begun < Len(Top.types)
      /\ UNCHANGED <<program, at, clones>>
  BY DEF NextType
<1>2. PICK new, n : /\ new = [Top EXCEPT !.words = Top.types[Top.begun + 1],
                                         !.begun = @ + 1,
                                         !.type = INVALID_TYPE,
                                         !.started = TRUE]
                    /\ n = Len(stack)
  OBVIOUS
<1>3. /\ TypesOK /\ n \in DOMAIN stack /\ n \in Nat \ {0}
      /\ DOMAIN stack = 1 .. n /\ stack \in Seq(FrameRecord)
      /\ Top \in FrameRecord /\ Top = stack[n]
      /\ WellMade(clones)
      /\ Len(clones) \in Nat /\ DOMAIN clones = 1 .. Len(clones)
  BY <1>1, <1>2, TopAt DEF IInv, TypesOK, WellMade
<1>4. /\ Top.types[Top.begun + 1] \in Seq(Words) /\ Top.begun \in Nat
      /\ Top.types \in Seq(Seq(Words)) /\ Top.begun + 1 <= Len(Top.types)
  <2>1. Top.types \in Seq(Seq(Words)) /\ Top.begun \in Nat
    BY <1>3 DEF FrameRecord
  <2>2. Len(Top.types) \in Nat /\ DOMAIN Top.types = 1 .. Len(Top.types)
    BY <2>1, LenProperties
  <2>3. Top.begun + 1 <= Len(Top.types) /\ Top.begun + 1 \in DOMAIN Top.types
    BY <2>1, <2>2, <1>1
  <2>. QED
    BY <2>1, <2>3
<1>5. /\ new.clone = Top.clone /\ new.bound = Top.bound /\ new.started
      /\ new.types = Top.types /\ new.begun = Top.begun + 1
      /\ new.words = Top.types[Top.begun + 1]
      /\ new.type = INVALID_TYPE
      /\ new \in FrameRecord
  <2>1. PICK w, b : w = Top.types[Top.begun + 1] /\ b = Top.begun + 1
    OBVIOUS
  <2>2. new = [clone |-> Top.clone, bound |-> Top.bound, types |-> Top.types,
               begun |-> b, words |-> w, type |-> INVALID_TYPE,
               started |-> TRUE]
    BY <2>1, <1>2, <1>3 DEF FrameRecord
  <2>3. w \in Seq(Words) /\ b \in Nat /\ INVALID_TYPE \in Types
    BY <2>1, <1>4 DEF Types
  <2>4. new \in FrameRecord
    BY <2>2, <2>3, <1>3 DEF FrameRecord
  <2>. QED
    BY <2>1, <2>2, <2>4
<1>6. stack' = [stack EXCEPT ![Len(stack)] = new]
  BY <1>2, <1>3 DEF NextType
<1>7. /\ stack' \in Seq(FrameRecord) /\ DOMAIN stack' = DOMAIN stack
      /\ stack'[n] = new
      /\ \A p \in DOMAIN stack : p # n => stack'[p] = stack[p]
  BY <1>1, <1>2, <1>3, <1>5, <1>6, SwapTop
<1>8. TypesOK'
  <2>1. at' \in 0 .. Len(Items)' /\ program' \in Programs
    BY <1>1, <1>3 DEF TypesOK, Items
  <2>2. \A p \in DOMAIN stack' : ~ stack'[p].started => stack'[p].words = <<>>
    BY <1>3, <1>5, <1>7 DEF TypesOK
  <2>. QED
    BY <2>1, <2>2, <1>1, <1>3, <1>7 DEF TypesOK
<1>9. NothingAhead'
  <2>1. Among(Len(clones), INVALID_TYPE)
    BY DEF Among, INVALID_TYPE
  <2>. QED
    BY <2>1, <1>1, <1>3, <1>5, <1>7, SMTT(60) DEF IInv, NothingAhead
<1>10. FramesRead'
  <2>1. SUFFICES ASSUME NEW p \in DOMAIN stack, stack'[p].clone # 0
                 PROVE  Placed(program.bodies, clones, stack'[p])
    BY <1>1, <1>7 DEF FramesRead
  <2>2. /\ stack[p].clone = stack'[p].clone
        /\ stack[p].clone \in DOMAIN clones
        /\ Placed(program.bodies, clones, stack[p])
    BY <2>1, <1>3, <1>5, <1>7 DEF IInv, FramesRead, NothingAhead
  <2>3. CASE p # n
    BY <2>2, <2>3, <1>3, <1>7
  <2>4. CASE p = n
    <3>1. PICK c : c = clones[Top.clone]
      OBVIOUS
    <3>2. /\ Top.clone \in DOMAIN clones
          /\ Top.bound = c.argument
          /\ Top.types = program.bodies[c.generic]
          /\ Top.begun = Len(c.fields) + Taken(Top)
      BY <2>2, <2>4, <3>1, <1>3 DEF Placed, InPlace
    <3>3. c \in CloneRecord
      BY <3>1, <3>2, <1>3 DEF WellMade
    <3>4. Len(c.fields) \in Nat
      BY <3>3 DEF CloneRecord
    <3>5. /\ Top.begun = Len(c.fields)
          /\ new.begun = Len(c.fields) + Taken(new)
      BY <3>2, <3>4, <1>1, <1>5 DEF Taken
    <3>6. new.words = program.bodies[c.generic][Len(c.fields) + 1]
      BY <3>2, <3>5, <1>5
    <3>7. InPlace(program.bodies, clones, new)
      BY <3>1, <3>2, <3>5, <1>4, <1>5 DEF InPlace
    <3>8. Written(program.bodies, clones, new) = new.words
      BY <3>1, <3>6, <1>5, ZenonT(60) DEF Written
    <3>9. /\ Read(new.words, new) = 0 /\ Remains(new.words, new.words, 0)
      <4>1. new.words \in Seq(Words)
        BY <1>4, <1>5
      <4>2. Len(new.words) \in Nat
        BY <4>1, LenProperties
      <4>. QED
        BY <4>1, <4>2, RemainsAll DEF Read
    <3>10. Substituted(clones, new.words, new)
      BY <3>9, <1>5 DEF Substituted, Bare, INVALID_TYPE
    <3>. QED
      BY <2>4, <3>7, <3>8, <3>10, <1>7 DEF Placed
  <2>. QED
    BY <2>3, <2>4
<1>11. OneBodyEach'
  <2>1. \A p \in DOMAIN stack : stack'[p].clone = stack[p].clone
    BY <1>3, <1>5, <1>7
  <2>. QED
    BY <2>1, <1>7 DEF IInv, OneBodyEach
<1>12. OneClonePerInstantiation' /\ FieldsAreSubstituted'
  BY <1>1 DEF IInv, OneClonePerInstantiation, FieldsAreSubstituted, Spelled
<1>. QED
  BY <1>8, <1>9, <1>10, <1>11, <1>12 DEF IInv

\* The stack changes and nothing else: its frames are the frames there were,
\* or are of no clone.
LEMMA StackStep ==
    ASSUME IInv, UNCHANGED <<program, clones>>,
           at' \in 0 .. Len(Items), stack' \in Seq(FrameRecord),
           \A p \in DOMAIN stack' :
              \/ p \in DOMAIN stack /\ stack'[p] = stack[p]
              \/ /\ stack'[p].clone = 0 /\ stack'[p].words = <<>>
                 /\ stack'[p].type = INVALID_TYPE
                 /\ Among(Len(clones), stack'[p].bound)
    PROVE  IInv'
<1>1. TypesOK'
  <2>1. Len(Items)' = Len(Items)
    BY DEF Items
  <2>. QED
    BY <2>1 DEF IInv, TypesOK
<1>2. Among(Len(clones), INVALID_TYPE) /\ Len(clones) \in Nat
  BY DEF Among, INVALID_TYPE, IInv, TypesOK, WellMade
<1>3. NothingAhead'
  BY <1>2 DEF IInv, NothingAhead
<1>4. FramesRead'
  BY DEF IInv, FramesRead
<1>5. OneBodyEach'
  BY DEF IInv, OneBodyEach
<1>6. OneClonePerInstantiation' /\ FieldsAreSubstituted'
  BY DEF IInv, OneClonePerInstantiation, FieldsAreSubstituted, Spelled
<1>. QED
  BY <1>1, <1>3, <1>4, <1>5, <1>6 DEF IInv

LEMMA EndBodyStep ==
    ASSUME IInv, EndBody
    PROVE  IInv'
<1>1. /\ stack # <<>> /\ stack' = SubSeq(stack, 1, Len(stack) - 1)
      /\ UNCHANGED <<program, at, clones>>
  BY DEF EndBody
<1>2. stack \in Seq(FrameRecord) /\ at \in 0 .. Len(Items)
  BY DEF IInv, TypesOK
<1>3. /\ stack' \in Seq(FrameRecord)
      /\ \A p \in DOMAIN stack' : p \in DOMAIN stack /\ stack'[p] = stack[p]
  BY <1>1, <1>2
<1>. QED
  BY <1>1, <1>2, <1>3, StackStep

\* What is walked: the generics' own bodies and then what is outside of them.
LEMMA ItemsAre ==
    ASSUME program \in Programs
    PROVE  /\ Len(Items) \in Nat \ {0}
           /\ DOMAIN Items = 1 .. Len(Items)
           /\ \A i \in DOMAIN Items :
                 /\ Items[i] \in FrameRecord
                 /\ Items[i].clone = 0 /\ Items[i].words = <<>>
                 /\ Items[i].type = INVALID_TYPE
                 /\ Items[i].begun = 0 /\ ~ Items[i].started
                 /\ Items[i].bound.kind # "made"
<1>1. Generics = 1 .. Len(Parameters) /\ Len(Parameters) \in Nat
  BY ParametersAssumption DEF Generics
<1>2. Cardinality(Generics) = Len(Parameters)
  <2>1. Cardinality(1 .. Len(Parameters))
           = IF 1 > Len(Parameters) THEN 0 ELSE Len(Parameters) - 1 + 1
    BY <1>1, FS_Interval, SMTT(60)
  <2>. QED
    BY <2>1, <1>1
<1>3. /\ program.text \in Seq(Seq(Words))
      /\ \A g \in Generics : program.bodies[g] \in Seq(Seq(Words))
  <2>1. /\ program.text \in Seq(Seq(Words))
        /\ program.bodies \in Seq(Seq(Seq(Words)))
        /\ DOMAIN program.bodies = Generics
    BY ProgramsAssumption
  <2>. QED
    BY <2>1
<1>4. /\ INVALID_TYPE \in Types /\ INVALID_TYPE.kind # "made"
      /\ \A i \in Generics : /\ TypeOf("generic", i) \in Types
                             /\ TypeOf("generic", i).kind # "made"
  BY <1>1 DEF INVALID_TYPE, TypeOf, Types
<1>. DEFINE item(i) == IF i \in Generics
                       THEN Frame(0, TypeOf("generic", i), program.bodies[i])
                       ELSE Frame(0, INVALID_TYPE, program.text)
<1>5. \A i : /\ item(i) \in FrameRecord
             /\ item(i).clone = 0 /\ item(i).words = <<>>
             /\ item(i).type = INVALID_TYPE
             /\ item(i).begun = 0 /\ ~ item(i).started
             /\ item(i).bound.kind # "made"
  <2>1. SUFFICES ASSUME NEW i
                 PROVE  /\ item(i) \in FrameRecord
                        /\ item(i).clone = 0 /\ item(i).words = <<>>
                        /\ item(i).type = INVALID_TYPE
                        /\ item(i).begun = 0 /\ ~ item(i).started
                        /\ item(i).bound.kind # "made"
    OBVIOUS
  <2>2. CASE i \in Generics
    BY <2>2, <1>3, <1>4, NewFrame
  <2>3. CASE i \notin Generics
    BY <2>3, <1>3, <1>4, NewFrame
  <2>. QED
    BY <2>2, <2>3
<1>6. Items = [i \in 1 .. Len(Parameters) + 1 |-> item(i)]
  BY <1>2 DEF Items
<1>. HIDE DEF item
<1>7. Items \in Seq(FrameRecord)
  BY <1>1, <1>5, <1>6
<1>8. Len(Items) = Len(Parameters) + 1 /\ DOMAIN Items = 1 .. Len(Parameters) + 1
  BY <1>1, <1>6, <1>7
<1>9. \A i \in DOMAIN Items : Items[i] = item(i)
  BY <1>6
<1>. QED
  BY <1>1, <1>5, <1>8, <1>9

\* What an item writes; outside of the generics no parameter is written.
LEMMA ItemsWritten ==
    ASSUME program \in Programs, NEW i \in DOMAIN Items,
           NEW f \in DOMAIN Items[i].types
    PROVE  /\ Items[i].types[f] \in Seq(Words)
           /\ WrittenType(Items[i].types[f])
           /\ Items[i].bound = INVALID_TYPE =>
                 \A n \in DOMAIN Items[i].types[f] :
                    Items[i].types[f][n] # Parameter
<1>1. CASE i \in Generics
  <2>1. /\ Items[i].types = program.bodies[i]
        /\ Items[i].bound = TypeOf("generic", i)
    BY <1>1 DEF Items, Frame
  <2>2. Items[i].bound # INVALID_TYPE
    BY <2>1 DEF TypeOf, INVALID_TYPE
  <2>3. /\ program.bodies \in Seq(Seq(Seq(Words)))
        /\ DOMAIN program.bodies = Generics
        /\ \A g \in Generics : \A h \in DOMAIN program.bodies[g] :
              WrittenType(program.bodies[g][h])
    BY ProgramsAssumption
  <2>4. program.bodies[i] \in Seq(Seq(Words))
    BY <1>1, <2>3
  <2>. QED
    BY <1>1, <2>1, <2>2, <2>3, <2>4
<1>2. CASE i \notin Generics
  <2>1. Items[i].types = program.text
    BY <1>2 DEF Items, Frame
  <2>2. /\ program.text \in Seq(Seq(Words))
        /\ \A h \in DOMAIN program.text :
              /\ WrittenType(program.text[h])
              /\ \A n \in DOMAIN program.text[h] :
                    program.text[h][n] # Parameter
    BY ProgramsAssumption
  <2>. QED
    BY <2>1, <2>2
<1>. QED
  BY <1>1, <1>2

LEMMA BeginStep ==
    ASSUME IInv, Begin
    PROVE  IInv'
<1>1. /\ at < Len(Items) /\ stack' = <<Items[at + 1]>> /\ at' = at + 1
      /\ UNCHANGED <<program, clones>>
  BY DEF Begin
<1>2. program \in Programs /\ at \in 0 .. Len(Items)
  BY DEF IInv, TypesOK
<1>3. at + 1 \in DOMAIN Items /\ at' \in 0 .. Len(Items)
  BY <1>1, <1>2, ItemsAre
<1>4. PICK item : item = Items[at + 1]
  OBVIOUS
<1>5. /\ item \in FrameRecord /\ item.clone = 0 /\ item.words = <<>>
      /\ item.type = INVALID_TYPE /\ Among(Len(clones), item.bound)
  BY <1>2, <1>3, <1>4, ItemsAre DEF Among
<1>6. stack' \in Seq(FrameRecord) /\ \A p \in DOMAIN stack' : stack'[p] = item
  BY <1>1, <1>4, <1>5
<1>. QED
  BY <1>1, <1>3, <1>5, <1>6, StackStep

-----------------------------------------------------------------------------
(* The theorems.                                                           *)

LEMMA InitInv ==
    ASSUME Init
    PROVE  IInv
<1>1. /\ program \in Programs /\ at = 0 /\ clones = <<>> /\ stack = <<>>
  BY DEF Init
<1>2. at \in 0 .. Len(Items)
  BY <1>1, ItemsAre
<1>3. TypesOK
  BY <1>1, <1>2 DEF TypesOK, WellMade
<1>. QED
  BY <1>1, <1>3 DEF IInv, NothingAhead, FramesRead, OneBodyEach,
        OneClonePerInstantiation, FieldsAreSubstituted

LEMMA StepInv ==
    ASSUME IInv, [Next]_vars
    PROVE  IInv'
<1>1. CASE Begin
  BY <1>1, BeginStep
<1>2. CASE NextType
  BY <1>2, NextTypeStep
<1>3. CASE Build
  BY <1>3, BuildStep
<1>4. CASE Poison
  BY <1>4, NoTypeStep DEF Poison, Asking
<1>5. CASE NameOwn
  BY <1>5, NameOwnStep
<1>6. CASE RefuseArity
  BY <1>6, NoTypeStep DEF RefuseArity, Refuse, Instantiating, Asking
<1>7. CASE RefuseNesting
  BY <1>7, NoTypeStep DEF RefuseNesting, Refuse, Instantiating, Asking
<1>8. CASE FindClone
  BY <1>8, FindCloneStep
<1>9. CASE MakeClone
  BY <1>9, MakeCloneStep
<1>10. CASE EndType
  BY <1>10, EndTypeStep
<1>11. CASE EndBody
  BY <1>11, EndBodyStep
<1>12. CASE ResolveUses \/ Done \/ UNCHANGED vars
  <2>1. UNCHANGED <<program, at, clones, stack>>
    BY <1>12 DEF ResolveUses, Done, vars
  <2>2. at' \in 0 .. Len(Items) /\ stack' \in Seq(FrameRecord)
    BY <2>1 DEF IInv, TypesOK
  <2>. QED
    BY <2>1, <2>2, StackStep
<1>. QED
  BY <1>1, <1>2, <1>3, <1>4, <1>5, <1>6, <1>7, <1>8, <1>9, <1>10, <1>11,
     <1>12 DEF Next

\* The inductive invariant holds of every behavior.
THEOREM Inductive == Spec => []IInv
BY InitInv, StepInv, PTL DEF Spec

\* An instantiation is one declaration and it is what was written with the
\* argument put in, whatever the generics are and however they use each other
\* (module.h:37, instantiator.cpp:118).
THEOREM OneSubstituted == Spec => []OneSubstitutedClone
<1>1. IInv => OneSubstitutedClone
  BY DEF IInv, OneSubstitutedClone
<1>. QED
  BY <1>1, Inductive, PTL

-----------------------------------------------------------------------------
(* What has no type was reported: a second invariant, of the reports, on   *)
(* top of the first.                                                       *)

\* the type a frame is in the middle of, and where it is written
TextIn(frame) == frame.types[frame.begun]
PlaceIn(frame, item) ==
    Place(frame.clone, IF frame.clone = 0 THEN item ELSE 0, frame.begun)

\* a written type may come to nothing: it was reported, or its name is one
\* the walk over the uses will report
Excused(reports, place, words) ==
    words[1] = Unknown \/ \E r \in reports : r.place = place

\* the words of a frame are those left of what it is in the middle of; if some
\* were read and there is no type in hand, there is an excuse
Accounted(reports, item, frame) ==
    frame.started =>
        /\ frame.begun \in DOMAIN frame.types
        /\ Read(TextIn(frame), frame) \in Nat
        /\ Remains(frame.words, TextIn(frame), Read(TextIn(frame), frame))
        /\ Read(TextIn(frame), frame) > 0 /\ frame.type = INVALID_TYPE =>
              Excused(reports, PlaceIn(frame, item), TextIn(frame))

\* the frame of an item is at the type after those the item has
InItem(items, item, came, frame) ==
    /\ frame.bound = items[item].bound
    /\ frame.types = items[item].types
    /\ frame.begun = Len(came[item]) + Taken(frame)
    /\ frame.begun <= Len(frame.types)

OwnOK ==
    /\ own \in Seq(Seq(Types)) /\ DOMAIN own = DOMAIN Items
    /\ stack # <<>> => at \in DOMAIN Items
    /\ \A i \in DOMAIN own : i > at => own[i] = <<>>

FramesAccounted ==
    \A p \in DOMAIN stack :
        /\ Accounted(reported, at, stack[p])
        /\ stack[p].clone = 0 => p = 1 /\ InItem(Items, at, own, stack[p])

FieldsExcused ==
    \A i \in DOMAIN clones : \A f \in DOMAIN clones[i].fields :
        /\ f \in DOMAIN program.bodies[clones[i].generic]
        /\ clones[i].fields[f] = INVALID_TYPE =>
              Excused(reported, Place(i, 0, f),
                      program.bodies[clones[i].generic][f])

OwnExcused ==
    \A i \in DOMAIN own : \A f \in DOMAIN own[i] :
        /\ f \in DOMAIN Items[i].types
        /\ own[i][f] = INVALID_TYPE =>
              Excused(reported, Place(0, i, f), Items[i].types[f])

UsesResolved ==
    resolved =>
        /\ Typed
        /\ \A place \in Places :
              IsUnknown(place) => \E r \in reported : r.place = place

SaidInv ==
    /\ OwnOK /\ FramesAccounted /\ FieldsExcused /\ OwnExcused
    /\ UsesResolved

\* What was said stays said.
LEMMA ExcusedMore ==
    ASSUME NEW reports, NEW now, reports \subseteq now,
           NEW place, NEW words, Excused(reports, place, words)
    PROVE  Excused(now, place, words)
  BY DEF Excused

LEMMA AccountedMore ==
    ASSUME NEW reports, NEW now, reports \subseteq now,
           NEW item, NEW frame, Accounted(reports, item, frame)
    PROVE  Accounted(now, item, frame)
  BY ExcusedMore DEF Accounted

\* What the innermost frame is in the middle of is a type that is written; and
\* where a parameter is written it stands for something.
LEMMA TopText ==
    ASSUME IInv, SaidInv, stack # <<>>, Top.started
    PROVE  /\ Top.begun \in DOMAIN Top.types /\ Top.begun \in Nat
           /\ Top.types \in Seq(Seq(Words))
           /\ TextIn(Top) \in Seq(Words) /\ WrittenType(TextIn(Top))
           /\ \A n \in DOMAIN TextIn(Top) :
                 TextIn(Top)[n] = Parameter => Top.bound # INVALID_TYPE
<1>1. /\ TypesOK /\ Len(stack) \in DOMAIN stack /\ Top \in FrameRecord
      /\ Top = stack[Len(stack)]
  BY TopAt DEF IInv
<1>2. Top.begun \in DOMAIN Top.types
  BY <1>1 DEF SaidInv, FramesAccounted, Accounted
<1>3. Top.types \in Seq(Seq(Words)) /\ Top.begun \in Nat
  BY <1>1 DEF FrameRecord
<1>4. CASE Top.clone = 0
  <2>1. /\ at \in DOMAIN Items /\ Top.types = Items[at].types
        /\ Top.bound = Items[at].bound
    BY <1>1, <1>4 DEF SaidInv, OwnOK, FramesAccounted, InItem
  <2>2. program \in Programs
    BY <1>1 DEF TypesOK
  <2>3. /\ TextIn(Top) \in Seq(Words) /\ WrittenType(TextIn(Top))
        /\ Top.bound = INVALID_TYPE =>
              \A n \in DOMAIN TextIn(Top) : TextIn(Top)[n] # Parameter
    BY <1>2, <2>1, <2>2, ItemsWritten DEF TextIn
  <2>. QED
    BY <1>2, <1>3, <2>3
<1>5. CASE Top.clone # 0
  <2>1. /\ Top.clone \in DOMAIN clones
        /\ InPlace(program.bodies, clones, Top)
    BY <1>1, <1>5 DEF IInv, FramesRead, Placed, NothingAhead, TypesOK, WellMade
  <2>2. /\ clones[Top.clone].generic \in Generics
        /\ clones[Top.clone].argument # INVALID_TYPE
    <3>1. /\ clones[Top.clone] \in CloneRecord
          /\ clones[Top.clone].argument # INVALID_TYPE
      BY <1>1, <2>1 DEF TypesOK, WellMade
    <3>. QED
      BY <3>1 DEF CloneRecord
  <2>3. /\ Top.types = program.bodies[clones[Top.clone].generic]
        /\ Top.bound # INVALID_TYPE
    BY <2>1, <2>2 DEF InPlace
  <2>4. TextIn(Top) \in Seq(Words) /\ WrittenType(TextIn(Top))
    BY <1>1, <1>2, <2>2, <2>3, BodiesWritten DEF TextIn
  <2>. QED
    BY <1>2, <1>3, <2>3, <2>4
<1>. QED
  BY <1>4, <1>5

\* Its next word, and where in it that is.
LEMMA TopWord ==
    ASSUME IInv, SaidInv, Building, NEW k, k = Read(TextIn(Top), Top)
    PROVE  /\ Top.started /\ k \in Nat
           /\ Remains(Tail(Top.words), TextIn(Top), k + 1)
           /\ Len(TextIn(Top)) - Len(Tail(Top.words)) = k + 1
           /\ k + 1 \in DOMAIN TextIn(Top) /\ Word = TextIn(Top)[k + 1]
           /\ Word = Unknown => k = 0
           /\ Word = Shape => k > 0
           /\ Word.word = "use" /\ Word.count > 0 => k > 0
<1>1. /\ TypesOK /\ stack # <<>> /\ Len(stack) \in DOMAIN stack
      /\ Top \in FrameRecord /\ Top = stack[Len(stack)]
  BY TopAt DEF IInv, Building
<1>2. Top.started
  BY <1>1 DEF Building, TypesOK
<1>3. TextIn(Top) \in Seq(Words) /\ WrittenType(TextIn(Top))
  BY <1>1, <1>2, TopText
<1>4. k \in Nat /\ Remains(Top.words, TextIn(Top), k)
  BY <1>1, <1>2 DEF SaidInv, FramesAccounted, Accounted
<1>5. Top.words \in Seq(Words) /\ Top.words # <<>>
  BY <1>1 DEF FrameRecord, Building
<1>6. /\ k + 1 \in DOMAIN TextIn(Top) /\ Word = TextIn(Top)[k + 1]
      /\ Remains(Tail(Top.words), TextIn(Top), k + 1)
  BY <1>3, <1>4, <1>5, RemainsTail DEF Word
<1>7. Len(TextIn(Top)) - Len(Tail(Top.words)) = k + 1
  <2>1. Len(Tail(Top.words)) \in Nat
    BY <1>5
  <2>2. (k + 1) + Len(Tail(Top.words)) = Len(TextIn(Top))
    BY <1>6 DEF Remains
  <2>3. \A l \in Nat : ((k + 1) + l) - l = k + 1
    BY <1>4
  <2>. QED
    BY <2>1, <2>2, <2>3
<1>8. k # 0 => k + 1 \in 2 .. Len(TextIn(Top))
  BY <1>3, <1>4, <1>6
<1>9. k # 0 => Word = Shape \/ (Word.word = "use" /\ Word.count > 0)
  BY <1>3, <1>6, <1>8 DEF WrittenType
<1>10. k = 0 => Word # Shape /\ (Word.word = "use" => Word.count = 0)
  BY <1>3, <1>6 DEF WrittenType
<1>11. Unknown # Shape /\ Unknown.word # "use"
  BY DEF Unknown, Shape
<1>. QED
  BY <1>2, <1>4, <1>6, <1>7, <1>9, <1>10, <1>11

\* The word is read: the frame that read it is accounted for, if there is a
\* type in hand or an excuse.
LEMMA WordRead ==
    ASSUME IInv, SaidInv, Building, NEW now, reported \subseteq now,
           NEW type,
           type = INVALID_TYPE => Excused(now, Here, TextIn(Top)),
           NEW new, new = [Top EXCEPT !.words = Tail(@), !.type = type]
    PROVE  /\ Accounted(now, at, new)
           /\ new.clone = Top.clone
           /\ Top.clone = 0 => InItem(Items, at, own, new)
<1>1. /\ TypesOK /\ stack # <<>> /\ Len(stack) \in DOMAIN stack
      /\ Top \in FrameRecord /\ Top = stack[Len(stack)]
  BY TopAt DEF IInv, Building
<1>2. PICK k : k = Read(TextIn(Top), Top)
  OBVIOUS
<1>3. /\ Top.started /\ k \in Nat
      /\ Remains(Tail(Top.words), TextIn(Top), k + 1)
      /\ Len(TextIn(Top)) - Len(Tail(Top.words)) = k + 1
  BY <1>2, TopWord
<1>4. /\ new.clone = Top.clone /\ new.bound = Top.bound
      /\ new.types = Top.types /\ new.begun = Top.begun
      /\ new.words = Tail(Top.words) /\ new.type = type
      /\ new.started = Top.started
  BY <1>1 DEF FrameRecord
<1>5. TextIn(new) = TextIn(Top) /\ PlaceIn(new, at) = Here
  BY <1>4 DEF TextIn, PlaceIn, Here
<1>6. Read(TextIn(new), new) = k + 1 /\ k + 1 \in Nat
  BY <1>3, <1>4, <1>5 DEF Read
<1>7. new.begun \in DOMAIN new.types
  BY <1>1, <1>3, <1>4, TopText
<1>8. Accounted(now, at, new)
  BY <1>3, <1>4, <1>5, <1>6, <1>7, Zenon DEF Accounted
<1>9. Top.clone = 0 => InItem(Items, at, own, Top)
  BY <1>1 DEF SaidInv, FramesAccounted
<1>10. Taken(new) = Taken(Top)
  BY <1>4 DEF Taken
<1>. QED
  BY <1>4, <1>8, <1>9, <1>10, Zenon DEF InItem

\* While something is being typed the uses are not walked.
LEMMA NotYetResolved ==
    ASSUME SaidInv, stack # <<>>, resolved' = resolved
    PROVE  UsesResolved'
  BY DEF SaidInv, UsesResolved, Typed

\* What is said of the types that are there stays so.
LEMMA ExcusesStay ==
    ASSUME SaidInv, UNCHANGED <<program, clones, own>>,
           reported \subseteq reported'
    PROVE  FieldsExcused' /\ OwnExcused'
<1>1. Items' = Items
  BY DEF Items
<1>2. FieldsExcused'
  BY ExcusedMore DEF SaidInv, FieldsExcused
<1>3. OwnExcused'
  BY <1>1, ExcusedMore DEF SaidInv, OwnExcused
<1>. QED
  BY <1>2, <1>3

\* The word at hand ends and the type in hand becomes another.
LEMMA BecomesSaid ==
    ASSUME IInv, SaidInv, Building, NEW type, Becomes(type),
           UNCHANGED <<program, at, clones, own, resolved>>,
           reported \subseteq reported',
           type = INVALID_TYPE => Excused(reported', Here, TextIn(Top))
    PROVE  SaidInv'
<1>1. /\ stack # <<>> /\ stack \in Seq(FrameRecord)
      /\ Len(stack) \in DOMAIN stack /\ Top = stack[Len(stack)]
  BY TopAt DEF IInv, TypesOK, Building
<1>2. PICK new : new = [Top EXCEPT !.words = Tail(@), !.type = type]
  OBVIOUS
<1>3. /\ Accounted(reported', at, new) /\ new.clone = Top.clone
      /\ Top.clone = 0 => InItem(Items, at, own, new)
  BY <1>2, WordRead
<1>4. stack' = [stack EXCEPT ![Len(stack)] = new]
  BY <1>1, <1>2 DEF Becomes
<1>5. /\ DOMAIN stack' = DOMAIN stack /\ stack'[Len(stack)] = new
      /\ \A p \in DOMAIN stack : p # Len(stack) => stack'[p] = stack[p]
  BY <1>1, <1>4
<1>6. Items' = Items
  BY DEF Items
<1>7. OwnOK'
  BY <1>1, <1>6 DEF SaidInv, OwnOK
<1>8. FramesAccounted'
  <2>1. SUFFICES ASSUME NEW p \in DOMAIN stack
                 PROVE  /\ Accounted(reported', at, stack'[p])
                        /\ stack'[p].clone = 0 =>
                              p = 1 /\ InItem(Items, at, own, stack'[p])
    BY <1>5, <1>6 DEF FramesAccounted
  <2>2. /\ Accounted(reported, at, stack[p])
        /\ stack[p].clone = 0 => p = 1 /\ InItem(Items, at, own, stack[p])
    BY DEF SaidInv, FramesAccounted
  <2>. QED
    BY <2>2, <1>1, <1>3, <1>5, AccountedMore
<1>. QED
  BY <1>1, <1>7, <1>8, ExcusesStay, NotYetResolved DEF SaidInv

LEMMA BuildSaid ==
    ASSUME IInv, SaidInv, Build
    PROVE  SaidInv'
<1>. DEFINE type == CASE Word.word = "builtin" -> TypeOf("builtin", 0)
                      [] Word.word = "unknown" -> INVALID_TYPE
                      [] Word.word = "parameter" -> Top.bound
                      [] Word.word = "shape" -> Around(Top.type)
<1>1. /\ Building /\ Word.word # "use" /\ Becomes(type)
      /\ UNCHANGED <<program, at, clones, own, reported, resolved>>
  BY DEF Build
<1>2. PICK t, k : t = type /\ k = Read(TextIn(Top), Top)
  OBVIOUS
<1>3. /\ stack # <<>> /\ Len(stack) \in DOMAIN stack
      /\ Top = stack[Len(stack)] /\ Top \in FrameRecord
  BY <1>1, TopAt DEF IInv, Building
<1>4. /\ Top.started /\ k \in Nat /\ k + 1 \in DOMAIN TextIn(Top)
      /\ Word = TextIn(Top)[k + 1]
      /\ Word = Unknown => k = 0
      /\ Word = Shape => k > 0
  BY <1>1, <1>2, TopWord
<1>5. ASSUME t = INVALID_TYPE PROVE Excused(reported, Here, TextIn(Top))
  <2>1. CASE Word = Builtin /\ Word.word = "builtin"
    <3>1. t = TypeOf("builtin", 0)
      BY <2>1, <1>2
    <3>. QED
      BY <3>1, <1>5 DEF TypeOf, INVALID_TYPE
  <2>2. CASE Word = Unknown /\ Word.word = "unknown"
    BY <2>2, <1>4 DEF Excused
  <2>3. CASE Word = Parameter /\ Word.word = "parameter"
    <3>1. t = Top.bound
      BY <2>3, <1>2
    <3>. QED
      BY <2>3, <3>1, <1>3, <1>4, <1>5, TopText
  <2>4. CASE Word = Shape /\ Word.word = "shape"
    <3>1. t = Around(Top.type)
      BY <2>4, <1>2
    <3>2. Top.type = INVALID_TYPE
      <4>1. SUFFICES ASSUME Top.type # INVALID_TYPE PROVE FALSE
        OBVIOUS
      <4>2. /\ Top.type \in Types /\ Among(Len(clones), Top.type)
            /\ WellMade(clones)
        BY <1>3 DEF FrameRecord, IInv, NothingAhead, TypesOK
      <4>. QED
        BY <3>1, <4>1, <4>2, <1>5, AroundSpelled
    <3>3. k > 0
      BY <2>4, <1>4
    <3>4. /\ Accounted(reported, at, Top) /\ PlaceIn(Top, at) = Here
      BY <1>3 DEF SaidInv, FramesAccounted, PlaceIn, Here
    <3>. QED
      BY <3>2, <3>3, <3>4, <1>2, <1>4 DEF Accounted
  <2>. QED
    BY <2>1, <2>2, <2>3, <2>4, <1>1, WordKinds
<1>6. Becomes(t)
  BY <1>1, <1>2
<1>. HIDE DEF type
<1>. QED
  BY <1>1, <1>5, <1>6, BecomesSaid

\* A use of what could not be built was accounted for before.
LEMMA PoisonSaid ==
    ASSUME IInv, SaidInv, Poison
    PROVE  SaidInv'
<1>1. /\ Building /\ Word.word = "use" /\ Word.count > 0
      /\ Top.type = INVALID_TYPE /\ Becomes(INVALID_TYPE)
      /\ UNCHANGED <<program, at, clones, own, reported, resolved>>
  BY DEF Poison, Asking, Poisoned
<1>2. PICK k : k = Read(TextIn(Top), Top)
  OBVIOUS
<1>3. Top.started /\ k > 0
  BY <1>1, <1>2, TopWord
<1>4. Accounted(reported, at, Top) /\ PlaceIn(Top, at) = Here
  BY <1>1, TopAt
     DEF IInv, Building, SaidInv, FramesAccounted, PlaceIn, Here
<1>5. Excused(reported, Here, TextIn(Top))
  BY <1>1, <1>2, <1>3, <1>4 DEF Accounted
<1>. QED
  BY <1>1, <1>5, BecomesSaid

\* What is refused is said, at the very place.
LEMMA RefuseSaid ==
    ASSUME IInv, SaidInv, Building, NEW what, Refuse(what)
    PROVE  SaidInv'
<1>1. /\ Becomes(INVALID_TYPE)
      /\ reported' = reported \cup {Report(Here, what)}
      /\ UNCHANGED <<program, at, clones, own, resolved>>
  BY DEF Refuse
<1>2. Report(Here, what).place = Here
  BY DEF Report
<1>3. Excused(reported', Here, TextIn(Top))
  BY <1>1, <1>2 DEF Excused
<1>. QED
  BY <1>1, <1>3, BecomesSaid

LEMMA NameOwnSaid ==
    ASSUME IInv, SaidInv, NameOwn
    PROVE  SaidInv'
<1>1. OwnOf(Word) # INVALID_TYPE
  BY DEF OwnOf, TypeOf, INVALID_TYPE
<1>. QED
  BY <1>1, BecomesSaid DEF NameOwn, Asking

LEMMA FindCloneSaid ==
    ASSUME IInv, SaidInv, FindClone
    PROVE  SaidInv'
<1>1. PICK i \in Made(Word.generic, Top.type) : Becomes(TypeOf("made", i))
  BY DEF FindClone
<1>2. TypeOf("made", i) # INVALID_TYPE
  BY DEF TypeOf, INVALID_TYPE
<1>3. /\ Building /\ reported' = reported
      /\ UNCHANGED <<program, at, clones, own, resolved>>
  BY DEF FindClone, Accepted, Instantiating, Asking
<1>. QED
  BY <1>1, <1>2, <1>3, BecomesSaid

\* A clone that is made has no field yet, and its body has begun none.
LEMMA MakeCloneSaid ==
    ASSUME IInv, SaidInv, MakeClone
    PROVE  SaidInv'
<1>1. /\ Building /\ UNCHANGED <<program, at, own, reported, resolved>>
  BY DEF MakeClone, Accepted, Instantiating, Asking
<1>2. PICK i, c, t, new, body, n :
         /\ i = Len(clones) + 1 /\ n = Len(stack)
         /\ c = [generic |-> Word.generic, argument |-> Top.type,
                 fields |-> <<>>]
         /\ t = TypeOf("made", i)
         /\ new = [Top EXCEPT !.words = Tail(@), !.type = t]
         /\ body = Frame(i, Top.type, program.bodies[Word.generic])
  OBVIOUS
<1>3. /\ stack # <<>> /\ n \in DOMAIN stack /\ n \in Nat \ {0}
      /\ DOMAIN stack = 1 .. n /\ stack \in Seq(FrameRecord)
      /\ Top = stack[n] /\ clones \in Seq(CloneRecord)
      /\ Len(clones) \in Nat /\ DOMAIN clones = 1 .. Len(clones)
  BY <1>1, <1>2, TopAt DEF IInv, Building, TypesOK, WellMade
<1>4. t # INVALID_TYPE
  BY <1>2 DEF TypeOf, INVALID_TYPE
<1>5. /\ Accounted(reported, at, new) /\ new.clone = Top.clone
      /\ Top.clone = 0 => InItem(Items, at, own, new)
  BY <1>1, <1>2, <1>4, WordRead
<1>6. i \in Nat \ {0} /\ ~ body.started /\ body.clone = i
  BY <1>2, <1>3 DEF Frame
<1>7. Accounted(reported, at, body)
  BY <1>6 DEF Accounted
<1>8. PICK under : under = [stack EXCEPT ![n] = new]
  OBVIOUS
<1>9. stack' = Append(under, body) /\ clones' = Append(clones, c)
  BY <1>2, <1>3, <1>8 DEF MakeClone, BodyOf
<1>10. /\ Len(under) = n /\ DOMAIN under = 1 .. n /\ under[n] = new
       /\ \A p \in DOMAIN stack : p # n => under[p] = stack[p]
  BY <1>3, <1>8
<1>11. /\ DOMAIN stack' = 1 .. n + 1 /\ stack' # <<>>
       /\ stack'[n + 1] = body /\ stack'[n] = new
       /\ \A p \in DOMAIN stack : p # n => stack'[p] = stack[p]
  BY <1>3, <1>9, <1>10
<1>12. Items' = Items
  BY <1>1 DEF Items
<1>13. OwnOK'
  BY <1>1, <1>3, <1>12 DEF SaidInv, OwnOK
<1>14. FramesAccounted'
  <2>1. SUFFICES ASSUME NEW p \in DOMAIN stack'
                 PROVE  /\ Accounted(reported, at, stack'[p])
                        /\ stack'[p].clone = 0 =>
                              p = 1 /\ InItem(Items, at, own, stack'[p])
    BY <1>1, <1>12 DEF FramesAccounted
  <2>2. CASE p = n + 1
    BY <2>2, <1>6, <1>7, <1>11
  <2>3. CASE p \in DOMAIN stack
    <3>1. /\ Accounted(reported, at, stack[p])
          /\ stack[p].clone = 0 => p = 1 /\ InItem(Items, at, own, stack[p])
      BY <2>3 DEF SaidInv, FramesAccounted
    <3>. QED
      BY <3>1, <2>3, <1>3, <1>5, <1>11
  <2>. QED
    BY <2>2, <2>3, <1>3, <1>11
<1>15. FieldsExcused'
  <2>1. /\ DOMAIN clones' = 1 .. Len(clones) + 1
        /\ clones'[i] = c
        /\ \A k \in DOMAIN clones : clones'[k] = clones[k]
    BY <1>2, <1>3, <1>9
  <2>2. SUFFICES ASSUME NEW k \in DOMAIN clones',
                        NEW f \in DOMAIN clones'[k].fields
                 PROVE  /\ f \in DOMAIN program.bodies[clones'[k].generic]
                        /\ clones'[k].fields[f] = INVALID_TYPE =>
                              Excused(reported, Place(k, 0, f),
                                  program.bodies[clones'[k].generic][f])
    BY <1>1 DEF FieldsExcused
  <2>3. k # i
    BY <2>1, <2>2, <1>2
  <2>4. k \in DOMAIN clones /\ clones'[k] = clones[k]
    BY <2>1, <2>3, <1>2, <1>3
  <2>. QED
    BY <2>2, <2>4 DEF SaidInv, FieldsExcused
<1>16. OwnExcused'
  BY <1>1, <1>12 DEF SaidInv, OwnExcused
<1>. QED
  BY <1>1, <1>3, <1>13, <1>14, <1>15, <1>16, NotYetResolved DEF SaidInv

\* All of a written type is read: what it came to is where it is written.
LEMMA EndTypeSaid ==
    ASSUME IInv, SaidInv, EndType
    PROVE  SaidInv'
<1>1. /\ stack # <<>> /\ Top.started /\ Top.words = <<>>
      /\ UNCHANGED <<program, at, reported, resolved>>
  BY DEF EndType
<1>2. PICK new, n, c, b : /\ new = [Top EXCEPT !.started = FALSE]
                          /\ n = Len(stack) /\ c = Top.clone
                          /\ b = Top.begun
  OBVIOUS
<1>3. /\ TypesOK /\ n \in DOMAIN stack /\ n \in Nat \ {0}
      /\ DOMAIN stack = 1 .. n /\ stack \in Seq(FrameRecord)
      /\ Top \in FrameRecord /\ Top = stack[n] /\ clones \in Seq(CloneRecord)
      /\ Len(clones) \in Nat /\ DOMAIN clones = 1 .. Len(clones)
  BY <1>1, <1>2, TopAt DEF IInv, TypesOK, WellMade
<1>4. /\ new.clone = c /\ new.bound = Top.bound /\ ~ new.started
      /\ new.types = Top.types /\ new.begun = b
  BY <1>2, <1>3 DEF FrameRecord
<1>5. stack' = [stack EXCEPT ![n] = new]
  BY <1>2, <1>3 DEF EndType
<1>6. /\ DOMAIN stack' = DOMAIN stack /\ stack'[n] = new /\ stack' # <<>>
      /\ \A p \in DOMAIN stack : p # n => stack'[p] = stack[p]
  BY <1>3, <1>5
<1>7. Top.type \in Types /\ c \in 0 .. Len(clones)
  BY <1>2, <1>3 DEF FrameRecord, IInv, NothingAhead
<1>8. /\ b \in DOMAIN Top.types
      /\ Top.type = INVALID_TYPE =>
            Excused(reported, PlaceIn(Top, at), Top.types[b])
  <2>1. Accounted(reported, at, Top)
    BY <1>3 DEF SaidInv, FramesAccounted
  <2>2. TextIn(Top) \in Seq(Words) /\ WrittenType(TextIn(Top))
    BY <1>1, TopText
  <2>3. Len(TextIn(Top)) \in Nat /\ Len(TextIn(Top)) # 0
    BY <2>2 DEF WrittenType
  <2>4. Read(TextIn(Top), Top) > 0
    BY <2>3, <1>1 DEF Read
  <2>5. TextIn(Top) = Top.types[b]
    BY <1>2 DEF TextIn
  <2>. QED
    BY <2>1, <2>4, <2>5, <1>1, <1>2 DEF Accounted
<1>9. Accounted(reported, at, new)
  BY <1>4 DEF Accounted
<1>10. Items' = Items
  BY <1>1 DEF Items
<1>11. \A s \in Seq(Types) :
          /\ Append(s, Top.type) \in Seq(Types)
          /\ Len(Append(s, Top.type)) = Len(s) + 1
          /\ \A g \in DOMAIN Append(s, Top.type) :
                \/ g \in DOMAIN s /\ Append(s, Top.type)[g] = s[g]
                \/ g = Len(s) + 1 /\ Append(s, Top.type)[g] = Top.type
  BY <1>7
<1>12. CASE c = 0
  <2>1. /\ n = 1 /\ at \in DOMAIN Items
        /\ InItem(Items, at, own, Top)
    BY <1>1, <1>2, <1>3, <1>12 DEF SaidInv, OwnOK, FramesAccounted
  <2>2. PICK a : a = own[at]
    OBVIOUS
  <2>3. /\ own \in Seq(Seq(Types)) /\ DOMAIN own = DOMAIN Items
        /\ a \in Seq(Types) /\ Len(a) \in Nat
        /\ \A k \in DOMAIN own : own[k] \in Seq(Types)
        /\ \A k \in DOMAIN own : k > at => own[k] = <<>>
    BY <2>1, <2>2 DEF SaidInv, OwnOK
  <2>4. /\ UNCHANGED clones
        /\ own' = [own EXCEPT ![at] = Append(a, Top.type)]
    BY <1>2, <1>12, <2>2 DEF EndType
  <2>5. /\ DOMAIN own' = DOMAIN own /\ own'[at] = Append(a, Top.type)
        /\ own' \in Seq(Seq(Types))
        /\ \A k \in DOMAIN own : k # at => own'[k] = own[k]
    BY <2>1, <2>3, <2>4, <1>11
  <2>6. b = Len(a) + 1
    BY <2>1, <2>2, <2>3, <1>1, <1>2 DEF InItem, Taken
  <2>7. OwnOK'
    <3>1. at \in Nat
      BY <1>3 DEF TypesOK
    <3>2. \A k \in DOMAIN own' : k > at => k # at
      BY <3>1
    <3>3. \A k \in DOMAIN own' : k > at => own'[k] = <<>>
      BY <3>2, <2>3, <2>5
    <3>. QED
      BY <3>3, <2>1, <2>3, <2>5, <1>1, <1>10 DEF OwnOK
  <2>8. InItem(Items, at, own', new)
    <3>1. Len(own'[at]) + Taken(new) = b
      BY <2>3, <2>5, <2>6, <1>4, <1>11 DEF Taken
    <3>. QED
      BY <3>1, <2>1, <1>2, <1>4, Zenon DEF InItem
  <2>9. FramesAccounted'
    <3>1. \A p \in DOMAIN stack' : p = 1 /\ stack'[p] = new
      BY <2>1, <1>3, <1>6
    <3>. QED
      BY <3>1, <2>8, <1>1, <1>9, <1>10 DEF FramesAccounted
  <2>10. FieldsExcused'
    BY <2>4, <1>1 DEF SaidInv, FieldsExcused
  <2>11. OwnExcused'
    <3>1. SUFFICES ASSUME NEW k \in DOMAIN own, NEW f \in DOMAIN own'[k]
                   PROVE  /\ f \in DOMAIN Items[k].types
                          /\ own'[k][f] = INVALID_TYPE =>
                                Excused(reported, Place(0, k, f),
                                        Items[k].types[f])
      BY <2>5, <1>1, <1>10 DEF OwnExcused
    <3>2. CASE f \in DOMAIN own[k] /\ own'[k][f] = own[k][f]
      BY <3>2 DEF SaidInv, OwnExcused
    <3>3. CASE k = at /\ f = b /\ own'[k][f] = Top.type
      <4>1. Top.types = Items[at].types
        BY <2>1 DEF InItem
      <4>2. PlaceIn(Top, at) = Place(0, at, b)
        BY <1>2, <1>12 DEF PlaceIn
      <4>. QED
        BY <4>1, <4>2, <3>3, <1>8
    <3>. QED
      BY <3>1, <3>2, <3>3, <2>2, <2>3, <2>5, <2>6, <1>11
  <2>. QED
    BY <2>7, <2>9, <2>10, <2>11, <1>1, NotYetResolved DEF SaidInv
<1>13. CASE c # 0
  <2>1. c \in DOMAIN clones /\ InPlace(program.bodies, clones, Top)
    BY <1>2, <1>3, <1>7, <1>13 DEF IInv, FramesRead, Placed
  <2>2. PICK a, g : a = clones[c].fields /\ g = clones[c].generic
    OBVIOUS
  <2>3. a \in Seq(Types) /\ Len(a) \in Nat
    <3>1. clones[c] \in CloneRecord
      BY <2>1, <1>3
    <3>. QED
      BY <3>1, <2>2 DEF CloneRecord
  <2>4. b = Len(a) + 1 /\ Top.types = program.bodies[g]
    BY <2>1, <2>2, <2>3, <1>1, <1>2 DEF InPlace, Taken
  <2>5. /\ UNCHANGED own
        /\ clones' = [clones EXCEPT ![c].fields = Append(@, Top.type)]
    BY <1>2, <1>13 DEF EndType
  <2>6. /\ DOMAIN clones' = DOMAIN clones
        /\ \A k \in DOMAIN clones : /\ clones'[k].generic = clones[k].generic
                                    /\ k # c => clones'[k] = clones[k]
        /\ clones'[c].fields = Append(a, Top.type)
    <3>1. PICK d : d = [clones[c] EXCEPT !.fields = Append(@, Top.type)]
      OBVIOUS
    <3>2. clones[c] \in CloneRecord
      BY <2>1, <1>3
    <3>3. d.generic = clones[c].generic /\ d.fields = Append(a, Top.type)
      BY <3>1, <3>2, <2>2 DEF CloneRecord
    <3>4. clones' = [clones EXCEPT ![c] = d]
      BY <3>1, <2>1, <2>5
    <3>. QED
      BY <3>3, <3>4, <2>1, <1>3
  <2>7. OwnOK'
    BY <2>5, <1>1, <1>6, <1>10 DEF SaidInv, OwnOK
  <2>8. FramesAccounted'
    <3>1. SUFFICES ASSUME NEW p \in DOMAIN stack
                   PROVE  /\ Accounted(reported, at, stack'[p])
                          /\ stack'[p].clone = 0 =>
                                p = 1 /\ InItem(Items, at, own, stack'[p])
      BY <2>5, <1>1, <1>6, <1>10 DEF FramesAccounted
    <3>2. /\ Accounted(reported, at, stack[p])
          /\ stack[p].clone = 0 => p = 1 /\ InItem(Items, at, own, stack[p])
      BY DEF SaidInv, FramesAccounted
    <3>3. CASE p = n
      BY <3>3, <1>4, <1>6, <1>9, <1>13
    <3>4. CASE p # n
      BY <3>2, <3>4, <1>6
    <3>. QED
      BY <3>3, <3>4
  <2>9. FieldsExcused'
    <3>1. SUFFICES ASSUME NEW k \in DOMAIN clones,
                          NEW f \in DOMAIN clones'[k].fields
                   PROVE  /\ f \in DOMAIN program.bodies[clones[k].generic]
                          /\ clones'[k].fields[f] = INVALID_TYPE =>
                                Excused(reported, Place(k, 0, f),
                                    program.bodies[clones[k].generic][f])
      BY <2>6, <1>1 DEF FieldsExcused
    <3>2. CASE /\ f \in DOMAIN clones[k].fields
               /\ clones'[k].fields[f] = clones[k].fields[f]
      BY <3>2 DEF SaidInv, FieldsExcused
    <3>3. CASE k = c /\ f = b /\ clones'[k].fields[f] = Top.type
      <4>1. PlaceIn(Top, at) = Place(c, 0, b)
        BY <1>2, <1>13 DEF PlaceIn
      <4>. QED
        BY <4>1, <3>3, <2>2, <2>4, <1>8
    <3>4. CASE k # c
      BY <3>1, <3>2, <3>4, <2>6
    <3>. QED
      BY <3>1, <3>2, <3>3, <3>4, <2>2, <2>3, <2>4, <2>6, <1>11
  <2>10. OwnExcused'
    BY <2>5, <1>1, <1>10 DEF SaidInv, OwnExcused
  <2>. QED
    BY <2>7, <2>8, <2>9, <2>10, <1>1, NotYetResolved DEF SaidInv
<1>. QED
  BY <1>12, <1>13

\* Of a written type that is begun nothing was read.
LEMMA NextTypeSaid ==
    ASSUME IInv, SaidInv, NextType
    PROVE  SaidInv'
<1>1. /\ stack # <<>> /\ ~ Top.started /\ Top.begun < Len(Top.types)
      /\ UNCHANGED <<program, at, clones, own, reported, resolved>>
  BY DEF NextType
<1>2. PICK new, n, b, w :
         /\ new = [Top EXCEPT !.words = w, !.begun = b,
                              !.type = INVALID_TYPE, !.started = TRUE]
         /\ n = Len(stack) /\ b = Top.begun + 1 /\ w = Top.types[b]
  OBVIOUS
<1>3. /\ n \in DOMAIN stack /\ n \in Nat \ {0}
      /\ DOMAIN stack = 1 .. n /\ stack \in Seq(FrameRecord)
      /\ Top \in FrameRecord /\ Top = stack[n]
  BY <1>1, <1>2, TopAt DEF IInv, TypesOK
<1>4. /\ Top.types \in Seq(Seq(Words)) /\ Top.begun \in Nat
      /\ Len(Top.types) \in Nat /\ DOMAIN Top.types = 1 .. Len(Top.types)
  BY <1>3 DEF FrameRecord
<1>5. b \in DOMAIN Top.types /\ b <= Len(Top.types) /\ w \in Seq(Words)
  <2>1. b \in DOMAIN Top.types /\ b <= Len(Top.types)
    BY <1>1, <1>2, <1>4
  <2>. QED
    BY <2>1, <1>2, <1>4
<1>6. /\ new.clone = Top.clone /\ new.bound = Top.bound /\ new.started
      /\ new.types = Top.types /\ new.begun = b
      /\ new.words = w /\ new.type = INVALID_TYPE
  BY <1>2, <1>3 DEF FrameRecord
<1>7. stack' = [stack EXCEPT ![n] = new]
  BY <1>2, <1>3 DEF NextType
<1>8. /\ DOMAIN stack' = DOMAIN stack /\ stack'[n] = new /\ stack' # <<>>
      /\ \A p \in DOMAIN stack : p # n => stack'[p] = stack[p]
  BY <1>3, <1>7
<1>9. Accounted(reported, at, new)
  <2>1. TextIn(new) = w
    BY <1>2, <1>6, Zenon DEF TextIn
  <2>2. Len(w) \in Nat
    BY <1>5, LenProperties
  <2>3. Read(TextIn(new), new) = 0
    BY <2>1, <2>2, <1>6 DEF Read
  <2>4. Remains(w, w, 0)
    BY <1>5, RemainsAll
  <2>5. ~ (0 > 0) /\ 0 \in Nat
    OBVIOUS
  <2>. QED
    BY <2>1, <2>3, <2>4, <2>5, <1>5, <1>6, Zenon DEF Accounted
<1>10. Top.clone = 0 => n = 1 /\ InItem(Items, at, own, new)
  <2>1. Top.clone = 0 => n = 1 /\ InItem(Items, at, own, Top)
    BY <1>3 DEF SaidInv, FramesAccounted
  <2>2. ASSUME InItem(Items, at, own, Top)
        PROVE  InItem(Items, at, own, new)
    <3>1. Top.begun = Len(own[at]) + 0
      BY <2>2, <1>1 DEF InItem, Taken
    <3>2. CASE at \in DOMAIN Items
      <4>1. Len(own[at]) \in Nat
        BY <3>2 DEF SaidInv, OwnOK
      <4>2. b = Len(own[at]) + 1 /\ Taken(new) = 1
        BY <3>1, <4>1, <1>2, <1>6 DEF Taken
      <4>. QED
        BY <4>2, <2>2, <1>5, <1>6, Zenon DEF InItem
    <3>. QED
      BY <3>2, <1>1 DEF SaidInv, OwnOK
  <2>. QED
    BY <2>1, <2>2
<1>11. Items' = Items
  BY <1>1 DEF Items
<1>12. OwnOK'
  BY <1>1, <1>8, <1>11 DEF SaidInv, OwnOK
<1>13. FramesAccounted'
  <2>1. SUFFICES ASSUME NEW p \in DOMAIN stack
                 PROVE  /\ Accounted(reported, at, stack'[p])
                        /\ stack'[p].clone = 0 =>
                              p = 1 /\ InItem(Items, at, own, stack'[p])
    BY <1>1, <1>8, <1>11 DEF FramesAccounted
  <2>2. /\ Accounted(reported, at, stack[p])
        /\ stack[p].clone = 0 => p = 1 /\ InItem(Items, at, own, stack[p])
    BY DEF SaidInv, FramesAccounted
  <2>. QED
    BY <2>2, <1>6, <1>8, <1>9, <1>10
<1>14. FieldsExcused' /\ OwnExcused'
  BY <1>1, ExcusesStay
<1>. QED
  BY <1>1, <1>12, <1>13, <1>14, NotYetResolved DEF SaidInv

LEMMA EndBodySaid ==
    ASSUME IInv, SaidInv, EndBody
    PROVE  SaidInv'
<1>1. /\ stack # <<>> /\ stack' = SubSeq(stack, 1, Len(stack) - 1)
      /\ UNCHANGED <<program, at, clones, own, reported, resolved>>
  BY DEF EndBody
<1>2. stack \in Seq(FrameRecord)
  BY DEF IInv, TypesOK
<1>3. \A p \in DOMAIN stack' : p \in DOMAIN stack /\ stack'[p] = stack[p]
  BY <1>1, <1>2
<1>4. Items' = Items
  BY <1>1 DEF Items
<1>5. OwnOK'
  BY <1>1, <1>4 DEF SaidInv, OwnOK
<1>6. FramesAccounted'
  BY <1>1, <1>3, <1>4 DEF SaidInv, FramesAccounted
<1>7. FieldsExcused' /\ OwnExcused'
  BY <1>1, ExcusesStay
<1>. QED
  BY <1>1, <1>5, <1>6, <1>7, NotYetResolved DEF SaidInv

\* The next item is at its first type, and has come to nothing yet.
LEMMA BeginSaid ==
    ASSUME IInv, SaidInv, Begin
    PROVE  SaidInv'
<1>1. /\ stack = <<>> /\ at < Len(Items) /\ stack' = <<Items[at + 1]>>
      /\ at' = at + 1
      /\ UNCHANGED <<program, clones, own, reported, resolved>>
  BY DEF Begin
<1>2. program \in Programs /\ at \in 0 .. Len(Items)
  BY DEF IInv, TypesOK
<1>3. at \in Nat /\ at + 1 \in DOMAIN Items
  BY <1>1, <1>2, ItemsAre
<1>4. PICK item, i : item = Items[at + 1] /\ i = at + 1
  OBVIOUS
<1>5. /\ item \in FrameRecord /\ item.begun = 0 /\ ~ item.started
      /\ item.clone = 0
  BY <1>2, <1>3, <1>4, ItemsAre
<1>6. DOMAIN stack' = {1} /\ stack'[1] = item /\ stack' # <<>>
  BY <1>1, <1>4
<1>7. Items' = Items
  BY <1>1 DEF Items
<1>8. /\ own \in Seq(Seq(Types)) /\ DOMAIN own = DOMAIN Items
      /\ own[i] = <<>> /\ i > at
  BY <1>3, <1>4 DEF SaidInv, OwnOK
<1>9. OwnOK'
  <2>1. \A k \in DOMAIN own : k > i => k > at
    BY <1>3, <1>4, <1>8
  <2>2. \A k \in DOMAIN own : k > i => own[k] = <<>>
    BY <2>1 DEF SaidInv, OwnOK
  <2>. QED
    BY <2>2, <1>1, <1>3, <1>4, <1>7, <1>8 DEF OwnOK
<1>10. FramesAccounted'
  <2>1. Accounted(reported, i, item)
    BY <1>5 DEF Accounted
  <2>2. Len(item.types) \in Nat
    BY <1>5 DEF FrameRecord
  <2>3. item.begun = Len(own[i]) + Taken(item)
    BY <1>5, <1>8 DEF Taken
  <2>4. InItem(Items, i, own, item)
    BY <2>2, <2>3, <1>4, <1>5 DEF InItem
  <2>. QED
    BY <2>1, <2>4, <1>1, <1>4, <1>6, <1>7 DEF FramesAccounted
<1>11. FieldsExcused' /\ OwnExcused'
  BY <1>1, ExcusesStay
<1>12. UsesResolved'
  BY <1>1, <1>2, <1>3 DEF SaidInv, UsesResolved, Typed
<1>. QED
  BY <1>9, <1>10, <1>11, <1>12 DEF SaidInv

\* The walk over the uses says of every unknown name that it is one.
LEMMA ResolveUsesSaid ==
    ASSUME IInv, SaidInv, ResolveUses
    PROVE  SaidInv'
<1>1. /\ Typed /\ resolved'
      /\ reported' = reported \cup {Report(place, "unknown") :
                                      place \in {q \in Places : IsUnknown(q)}}
      /\ UNCHANGED <<program, at, clones, stack, own>>
  BY DEF ResolveUses
<1>2. Items' = Items
  BY <1>1 DEF Items
<1>3. Places' = Places /\ \A q : IsUnknown(q)' <=> IsUnknown(q)
  BY <1>1, <1>2 DEF Places, ItemPlaces, ClonePlaces, IsUnknown, TextOf
<1>4. \A q \in Places : IsUnknown(q) => \E r \in reported' : r.place = q
  <2>1. SUFFICES ASSUME NEW q \in Places, IsUnknown(q)
                 PROVE  \E r \in reported' : r.place = q
    OBVIOUS
  <2>2. Report(q, "unknown") \in reported'
    BY <2>1, <1>1
  <2>3. Report(q, "unknown").place = q
    BY DEF Report
  <2>. QED
    BY <2>2, <2>3
<1>5. UsesResolved'
  BY <1>1, <1>2, <1>3, <1>4 DEF UsesResolved, Typed
<1>6. OwnOK'
  BY <1>1, <1>2 DEF SaidInv, OwnOK
<1>7. FramesAccounted'
  BY <1>1, <1>2 DEF Typed, FramesAccounted
<1>8. FieldsExcused' /\ OwnExcused'
  BY <1>1, ExcusesStay
<1>. QED
  BY <1>5, <1>6, <1>7, <1>8 DEF SaidInv

LEMMA InitSaid ==
    ASSUME Init
    PROVE  SaidInv
<1>1. /\ program \in Programs /\ at = 0 /\ clones = <<>> /\ stack = <<>>
      /\ own = [i \in DOMAIN Items |-> <<>>] /\ reported = {}
      /\ resolved = FALSE
  BY DEF Init
<1>2. Len(Items) \in Nat \ {0} /\ DOMAIN Items = 1 .. Len(Items)
  BY <1>1, ItemsAre
<1>3. OwnOK
  BY <1>1, <1>2 DEF OwnOK
<1>. QED
  BY <1>1, <1>2, <1>3 DEF SaidInv, FramesAccounted, FieldsExcused, OwnExcused,
                          UsesResolved

LEMMA StepSaid ==
    ASSUME IInv, SaidInv, [Next]_vars
    PROVE  SaidInv'
<1>1. CASE Begin
  BY <1>1, BeginSaid
<1>2. CASE NextType
  BY <1>2, NextTypeSaid
<1>3. CASE Build
  BY <1>3, BuildSaid
<1>4. CASE Poison
  BY <1>4, PoisonSaid
<1>5. CASE NameOwn
  BY <1>5, NameOwnSaid
<1>6. CASE RefuseArity
  BY <1>6, RefuseSaid DEF RefuseArity, Instantiating, Asking
<1>7. CASE RefuseNesting
  BY <1>7, RefuseSaid DEF RefuseNesting, Instantiating, Asking
<1>8. CASE FindClone
  BY <1>8, FindCloneSaid
<1>9. CASE MakeClone
  BY <1>9, MakeCloneSaid
<1>10. CASE EndType
  BY <1>10, EndTypeSaid
<1>11. CASE EndBody
  BY <1>11, EndBodySaid
<1>12. CASE ResolveUses
  BY <1>12, ResolveUsesSaid
<1>13. CASE Done \/ UNCHANGED vars
  <2>1. UNCHANGED <<program, at, clones, stack, own, reported, resolved>>
    BY <1>13 DEF Done, vars
  <2>2. Items' = Items
    BY <2>1 DEF Items
  <2>3. OwnOK' /\ FramesAccounted'
    BY <2>1, <2>2 DEF SaidInv, OwnOK, FramesAccounted
  <2>4. FieldsExcused' /\ OwnExcused'
    BY <2>1, ExcusesStay
  <2>5. UsesResolved'
    <3>1. Places' = Places /\ \A q : IsUnknown(q)' <=> IsUnknown(q)
      BY <2>1, <2>2 DEF Places, ItemPlaces, ClonePlaces, IsUnknown, TextOf
    <3>. QED
      BY <3>1, <2>1, <2>2 DEF SaidInv, UsesResolved, Typed
  <2>. QED
    BY <2>3, <2>4, <2>5 DEF SaidInv
<1>. QED
  BY <1>1, <1>2, <1>3, <1>4, <1>5, <1>6, <1>7, <1>8, <1>9, <1>10, <1>11,
     <1>12, <1>13 DEF Next

\* What is unknown was reported once the uses were walked; anything else that
\* is excused was reported at once.
LEMMA ExcusedExplained ==
    ASSUME SaidInv, NEW place \in Places,
           Excused(reported, place, TextOf(place))
    PROVE  Explained(place)
  BY DEF SaidInv, UsesResolved, Excused, Explained, IsUnknown

LEMMA SaidIsNothingLost ==
    ASSUME IInv, SaidInv
    PROVE  NothingIsLostUnsaid
<1>1. \A i \in DOMAIN clones : clones[i].argument # INVALID_TYPE /\ i # 0
  BY DEF IInv, TypesOK, WellMade
<1>2. ASSUME NEW i \in DOMAIN clones, NEW f \in DOMAIN clones[i].fields,
             clones[i].fields[f] = INVALID_TYPE
      PROVE  Explained(Place(i, 0, f))
  <2>1. /\ f \in DOMAIN program.bodies[clones[i].generic]
        /\ Excused(reported, Place(i, 0, f),
                   program.bodies[clones[i].generic][f])
    BY <1>2 DEF SaidInv, FieldsExcused
  <2>2. Place(i, 0, f) \in Places
    BY <2>1 DEF Places, ClonePlaces
  <2>3. TextOf(Place(i, 0, f)) = program.bodies[clones[i].generic][f]
    BY <1>1 DEF TextOf, Place
  <2>. QED
    BY <2>1, <2>2, <2>3, ExcusedExplained
<1>3. ASSUME NEW i \in DOMAIN own, NEW f \in DOMAIN own[i],
             own[i][f] = INVALID_TYPE
      PROVE  Explained(Place(0, i, f))
  <2>1. /\ f \in DOMAIN Items[i].types /\ i \in DOMAIN Items
        /\ Excused(reported, Place(0, i, f), Items[i].types[f])
    BY <1>3 DEF SaidInv, OwnExcused, OwnOK
  <2>2. Place(0, i, f) \in Places
    BY <2>1 DEF Places, ItemPlaces
  <2>3. TextOf(Place(0, i, f)) = Items[i].types[f]
    BY DEF TextOf, Place
  <2>. QED
    BY <2>1, <2>2, <2>3, ExcusedExplained
<1>. QED
  BY <1>1, <1>2, <1>3 DEF NothingIsLostUnsaid

\* Every written type that came to nothing, in the program or in a clone, was
\* itself reported, or is a name that the walk over the uses will report and,
\* once it was made, has reported (type_builder.cpp:293,319,
\* use_resolver.cpp:127); and no clone is made of what could not be built
\* (type_builder.cpp:69).
THEOREM NothingLost == Spec => []NothingIsLostUnsaid
<1>1. Spec => []SaidInv
  BY InitSaid, StepSaid, Inductive, PTL DEF Spec
<1>. QED
  BY <1>1, Inductive, SaidIsNothingLost, PTL

=============================================================================
