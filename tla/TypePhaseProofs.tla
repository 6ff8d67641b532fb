--------------------------- MODULE TypePhaseProofs ---------------------------
(***************************************************************************)
(* What is proved of the type phase for every number of modules and every  *)
(* set of instantiations: its type invariant; that no module is walked by  *)
(* two frames of the call stack at once; and, of the passes, that each     *)
(* goes once through every name, the written one first, and that what      *)
(* inference gave a name stays. The invariant of the passes relates the    *)
(* counts of a name to the walk that is in its module, to the marks of the *)
(* passes, and to what the loops of Compilation have begun.                *)
(***************************************************************************)
EXTENDS TypePhase, SequenceTheorems, TLAPS

-----------------------------------------------------------------------------
(* Sequences and names.                                                    *)

\* Writing one element of a sequence leaves a sequence, wherever it is written.
LEMMA SeqExcept ==
    ASSUME NEW S, NEW s \in Seq(S), NEW i, NEW x, i \in DOMAIN s => x \in S
    PROVE  /\ [s EXCEPT ![i] = x] \in Seq(S)
           /\ Len([s EXCEPT ![i] = x]) = Len(s)
<1>1. CASE i \in DOMAIN s
  <2>1. i \in 1 .. Len(s) /\ x \in S
    BY <1>1, LenProperties
  <2>. QED
    BY <2>1, ExceptSeq
<1>2. CASE i \notin DOMAIN s
  <2>1. s = [j \in 1 .. Len(s) |-> s[j]]
    BY LenProperties
  <2>2. [s EXCEPT ![i] = x] = s
    BY <1>2, <2>1
  <2>. QED
    BY <2>2
<1>. QED
  BY <1>1, <1>2

\* Pushing a frame and replacing the top one leave a sequence of frames.
LEMMA SeqPush ==
    ASSUME NEW S, NEW s \in Seq(S), NEW x \in S
    PROVE  /\ <<x>> \o s \in Seq(S)
           /\ s # <<>> => Tail(s) \in Seq(S) /\ s[1] \in S
           /\ s # <<>> => <<x>> \o Tail(s) \in Seq(S)
OBVIOUS

\* The passes keep a name a name.
LEMMA PassType ==
    ASSUME NEW n \in NameType
    PROVE  /\ Wrote(n) \in NameType
           /\ Gave(n) \in NameType
           /\ WroteAndAsked(n) \in NameType
<1>1. WrittenType(n) \in TypeStates /\ InferredType(n) \in TypeStates
  BY DEF NameType, WrittenType, InferredType, TypeStates
<1>2. /\ n.wrote + 1 \in Nat /\ n.gave + 1 \in Nat /\ n.built + 1 \in Nat
      /\ (n.sort = "class") \in BOOLEAN
  BY DEF NameType
<1>3. Gave(n) \in NameType
  BY <1>1, <1>2 DEF NameType, Gave
<1>. DEFINE As(w, b, o) == [n EXCEPT !.type = w, !.wrote = o, !.super = b]
<1>4. \A w \in TypeStates, b \in BOOLEAN, o \in Nat :
         As(w, b, o) \in NameType /\ As(w, b, o).built = n.built
  BY DEF NameType
<1>5. Wrote(n) \in NameType /\ Wrote(n).built = n.built
  <2>1. Wrote(n) = [n EXCEPT !.type = WrittenType(n), !.wrote = n.wrote + 1,
                             !.super = (n.sort = "class")]
    BY DEF Wrote
  <2>2. PICK w \in TypeStates, b \in BOOLEAN, o \in Nat :
           w = WrittenType(n) /\ b = (n.sort = "class") /\ o = n.wrote + 1
    BY <1>1, <1>2
  <2>3. Wrote(n) = As(w, b, o)
    BY <2>1, <2>2
  <2>. HIDE DEF As
  <2>. QED
    BY <1>4, <2>3
<1>6. WroteAndAsked(n) \in NameType
  BY <1>2, <1>5 DEF NameType, WroteAndAsked
<1>. QED
  BY <1>3, <1>5, <1>6

\* A candidate that is in the list is a name, and writing one back keeps the
\* lists lists of names.
LEMMA CandUpdate ==
    ASSUME cand \in [Modules -> Seq(NameType)], NEW m \in Modules, NEW c, NEW x,
           c \in DOMAIN cand[m] => x \in NameType
    PROVE  [cand EXCEPT ![m][c] = x] \in [Modules -> Seq(NameType)]
<1>1. [cand[m] EXCEPT ![c] = x] \in Seq(NameType)
  <2>1. cand[m] \in Seq(NameType)
    OBVIOUS
  <2>. QED
    BY <2>1, SeqExcept
<1>2. [cand EXCEPT ![m][c] = x] = [cand EXCEPT ![m] = [cand[m] EXCEPT ![c] = x]]
  OBVIOUS
<1>. QED
  BY <1>1, <1>2

\* What is at an index of a list of candidates is a candidate.
LEMMA CandName ==
    ASSUME cand \in [Modules -> Seq(NameType)], NEW m \in Modules,
           NEW c \in DOMAIN cand[m]
    PROVE  cand[m][c] \in NameType
<1>1. cand[m] \in Seq(NameType)
  OBVIOUS
<1>. QED
  BY <1>1, LenProperties

\* What the actions write into the frame on top keeps it a frame.
LEMMA FrameUpdates ==
    ASSUME NEW f \in FrameType, NEW c \in Nat, NEW st \in {"main", "late"},
           NEW t \in SUBSET Nat, NEW n \in Nat
    PROVE  /\ [f EXCEPT !.cand = c, !.todo = t, !.asked = FALSE, !.step = st]
                  \in FrameType
           /\ [f EXCEPT !.step = "main", !.asked = FALSE] \in FrameType
           /\ [f EXCEPT !.cand = NoCandidate, !.worked = TRUE] \in FrameType
           /\ [f EXCEPT !.todo = t, !.count = n] \in FrameType
           /\ [f EXCEPT !.asked = TRUE] \in FrameType
<1>1. [f EXCEPT !.cand = c, !.todo = t, !.asked = FALSE, !.step = st] \in FrameType
  BY DEF FrameType
<1>2. [f EXCEPT !.step = "main", !.asked = FALSE] \in FrameType
  BY DEF FrameType
<1>3. [f EXCEPT !.cand = NoCandidate, !.worked = TRUE] \in FrameType
  BY DEF FrameType, NoCandidate
<1>4. [f EXCEPT !.todo = t, !.count = n] \in FrameType
  BY DEF FrameType
<1>5. [f EXCEPT !.asked = TRUE] \in FrameType
  BY DEF FrameType
<1>. QED
  BY <1>1, <1>2, <1>3, <1>4, <1>5

\* Whatever is on top of the stack is a frame, and so is what replaces it.
LEMMA TopType ==
    ASSUME stack \in Seq(FrameType), stack # <<>>
    PROVE  /\ Top \in FrameType
           /\ Tail(stack) \in Seq(FrameType)
           /\ \A f \in FrameType : <<f>> \o Tail(stack) \in Seq(FrameType)
BY SeqPush DEF Top

\* The count of a module is one past the end of its list.
LEMMA CountType ==
    ASSUME cand \in [Modules -> Seq(NameType)], NEW m \in Modules
    PROVE  /\ Count(m) \in Nat /\ Len(cand[m]) \in Nat
           /\ DOMAIN cand[m] = 1 .. Len(cand[m])
<1>1. cand[m] \in Seq(NameType)
  OBVIOUS
<1>. QED
  BY <1>1, LenProperties DEF Count

\* The frames that point into the list of their module.
Frames == {f \in FrameType : /\ f.cand <= Len(cand[f.mod])
                             /\ f.todo \subseteq DOMAIN cand[f.mod]}

\* A walk that begins leaves the call stack a stack of frames.
LEMMA BeginWalkType ==
    ASSUME TypeOK, NEW below \in Seq(FrameType), NEW m \in Modules,
           NEW pass \in Passes, NEW nested \in BOOLEAN, NEW held \in SubjectType,
           below \in Seq(Frames), BeginWalk(below, m, pass, nested, held)
    PROVE  /\ stack' \in Seq(FrameType) /\ stack' \in Seq(Frames)
           /\ walking' \subseteq Modules
           /\ subject' \in SubjectType
<1>1. Count(m) \in Nat /\ DOMAIN cand[m] \subseteq Nat
  BY CountType DEF TypeOK
<1>2. WalkFrame(m, pass, nested, held) \in FrameType
  BY <1>1 DEF WalkFrame, FrameType, NoCandidate
<1>6. WalkFrame(m, pass, nested, held) \in Frames
  <2>1. Len(cand[m]) \in Nat
    BY CountType DEF TypeOK
  <2>2. /\ WalkFrame(m, pass, nested, held).mod = m
        /\ WalkFrame(m, pass, nested, held).cand = 0
        /\ WalkFrame(m, pass, nested, held).todo \subseteq DOMAIN cand[m]
    BY DEF WalkFrame, NoCandidate
  <2>. QED
    BY <1>2, <2>1, <2>2 DEF Frames
<1>3. stack' \in Seq(FrameType) /\ stack' \in Seq(Frames)
  BY <1>2, <1>6, SeqPush DEF BeginWalk
<1>4. walking' \subseteq Modules
  BY DEF BeginWalk, TypeOK
<1>5. subject' \in SubjectType
  BY <1>1 DEF BeginWalk, Subject, SubjectType
<1>. QED
  BY <1>3, <1>4, <1>5

\* catch_up steps aside or begins a walk: a stack of frames either way.
LEMMA CatchUpType ==
    ASSUME TypeOK, NEW below \in Seq(FrameType), NEW m \in Modules,
           NEW held \in SubjectType, below \in Seq(Frames), CatchUp(below, m, held)
    PROVE  /\ stack' \in Seq(FrameType) /\ stack' \in Seq(Frames)
           /\ walking' \subseteq Modules
           /\ subject' \in SubjectType
<1>1. CatchUpPass(m) \in Passes
  BY DEF CatchUpPass, Passes
<1>2. CASE m \in walking \/ ~Pending(m, CatchUpPass(m))
  BY <1>2 DEF CatchUp, TypeOK
<1>3. CASE ~(m \in walking \/ ~Pending(m, CatchUpPass(m)))
  BY <1>1, <1>3, BeginWalkType DEF CatchUp
<1>. QED
  BY <1>2, <1>3

-----------------------------------------------------------------------------
(* The type invariant.                                                     *)

\* What a phase declares is a name.
LEMMA DeclaredType ==
    ASSUME NEW sort \in HeadSorts \cup BodySorts, NEW owner \in Nat,
           NEW assigns \in BOOLEAN, NEW type \in TypeStates, NEW early \in BOOLEAN
    PROVE  Declared(sort, owner, assigns, type, early) \in NameType
BY DEF Declared, NameType

\* Appending names to a module's list keeps the lists lists of names.
LEMMA GrownType ==
    ASSUME cand \in [Modules -> Seq(NameType)], NEW m \in Modules,
           NEW names \in Seq(NameType)
    PROVE  /\ Grown(m, names) \in [Modules -> Seq(NameType)]
           /\ Grown(m, names)[m] = cand[m] \o names
<1>1. cand[m] \in Seq(NameType)
  OBVIOUS
<1>2. cand[m] \o names \in Seq(NameType)
  BY <1>1, ConcatProperties
<1>. QED
  BY <1>2 DEF Grown

\* The phase starts with what the text declares and nothing typed.
LEMMA InitTypeOK == Init => TypeOK
<1>. SUFFICES ASSUME Init
              PROVE  TypeOK
  OBVIOUS
<1>1. cand \in [Modules -> Seq(NameType)]
  <2>1. ASSUME NEW m \in Modules
        PROVE  [c \in DOMAIN Source[m] |->
                  Declared(Source[m][c].sort, Source[m][c].owner,
                           Source[m][c].assigns, "none", TRUE)] \in Seq(NameType)
    <3>. DEFINE Text == [sort : HeadSorts \cup BodySorts, owner : Nat,
                         assigns : BOOLEAN]
                name(c) == Declared(Source[m][c].sort, Source[m][c].owner,
                                    Source[m][c].assigns, "none", TRUE)
    <3>1. Source[m] \in Seq(Text)
      BY <2>1, SourceAssumption
    <3>2. Len(Source[m]) \in Nat /\ DOMAIN Source[m] = 1 .. Len(Source[m])
      BY <3>1, LenProperties
    <3>3. ASSUME NEW c \in 1 .. Len(Source[m])
          PROVE  name(c) \in NameType
      <4>1. Source[m][c] \in Text
        BY <3>1, <3>3, ElementOfSeq
      <4>2. "none" \in TypeStates
        BY DEF TypeStates
      <4>. QED
        BY <4>1, <4>2, DeclaredType
    <3>. HIDE DEF name
    <3>4. [c \in 1 .. Len(Source[m]) |-> name(c)] \in Seq(NameType)
      BY <3>2, <3>3, IsASeq
    <3>. QED
      BY <3>2, <3>4 DEF name
  <2>. QED
    BY <2>1 DEF Init
<1>2. subject \in SubjectType
  BY ModulesAssumption DEF Init, Subject, SubjectType, Modules
<1>3. stack \in Seq(FrameType)
  BY DEF Init
<1>. QED
  BY <1>1, <1>2, <1>3 DEF Init, TypeOK, Passes, Phases, EarlyPhases

\* The type invariant is not inductive: a frame must also point into the list
\* of its module, and a clone that is found into the list of its host.
Inv ==
    /\ TypeOK
    /\ stack \in Seq(Frames)
    /\ \A k \in Keys : memo[k] <= Len(cand[HostOf[k]])

\* Lists only grow, so a frame that pointed into one still does.
Grows == \A m \in Modules : Len(cand[m]) <= Len(cand'[m])

\* A frame that points into the lists still does when they have grown.
LEMMA FramesStay ==
    ASSUME cand \in [Modules -> Seq(NameType)], cand' \in [Modules -> Seq(NameType)],
           Grows
    PROVE  /\ Frames \subseteq Frames'
           /\ Seq(Frames) \subseteq Seq(Frames')
<1>1. ASSUME NEW f \in Frames
      PROVE  f \in Frames'
  <2>1. f \in FrameType /\ f.mod \in Modules /\ f.cand \in Nat
    BY DEF Frames, FrameType
  <2>2. /\ Len(cand[f.mod]) \in Nat /\ DOMAIN cand[f.mod] = 1 .. Len(cand[f.mod])
        /\ Len(cand'[f.mod]) \in Nat /\ DOMAIN cand'[f.mod] = 1 .. Len(cand'[f.mod])
    <3>1. cand[f.mod] \in Seq(NameType) /\ cand'[f.mod] \in Seq(NameType)
      BY <2>1
    <3>. QED
      BY <3>1, LenProperties
  <2>. QED
    BY <2>1, <2>2 DEF Frames, Grows
<1>. QED
  BY <1>1, SeqMonotonic

\* Keeping the lists' lengths keeps the frames where they were.
LEMMA CandUpdateGrows ==
    ASSUME cand \in [Modules -> Seq(NameType)], NEW m \in Modules, NEW c, NEW x,
           c \in DOMAIN cand[m] => x \in NameType,
           cand' = [cand EXCEPT ![m][c] = x]
    PROVE  /\ cand' \in [Modules -> Seq(NameType)]
           /\ Grows
<1>1. cand[m] \in Seq(NameType)
  OBVIOUS
<1>2. Len([cand[m] EXCEPT ![c] = x]) = Len(cand[m]) /\ Len(cand[m]) \in Nat
  BY <1>1, SeqExcept, LenProperties
<1>3. \A n \in Modules : cand'[n] = IF n = m THEN [cand[m] EXCEPT ![c] = x] ELSE cand[n]
  OBVIOUS
<1>4. \A n \in Modules : Len(cand[n]) \in Nat
  BY CountType
<1>5. ASSUME NEW n \in Modules
      PROVE  Len(cand[n]) <= Len(cand'[n])
  BY <1>2, <1>3, <1>4, <1>5
<1>6. cand' \in [Modules -> Seq(NameType)]
  BY CandUpdate
<1>. QED
  BY <1>5, <1>6 DEF Grows

\* Each action keeps the invariant: first the walk of one module.
LEMMA WalkInv ==
    Inv /\ (\/ TakeCandidate \/ FinishLate \/ FinishWritten \/ FinishInferred
            \/ LowerLoop \/ NextRound \/ FinishWalk) => Inv'
<1>. SUFFICES ASSUME Inv, Working("walk"),
                     \/ TakeCandidate \/ FinishLate \/ FinishWritten
                     \/ FinishInferred \/ LowerLoop \/ NextRound \/ FinishWalk
              PROVE  Inv'
  BY Zenon DEF TakeCandidate, FinishLate, FinishWritten, FinishInferred, LowerLoop,
         NextRound, FinishWalk, RoundIsOver, Typing
<1>1. /\ TypeOK
      /\ cand \in [Modules -> Seq(NameType)]
      /\ \A k \in Keys : memo[k] \in Nat /\ HostOf[k] \in Modules
                        /\ memo[k] <= Len(cand[HostOf[k]])
  BY KeysAssumption DEF Inv, TypeOK
<1>2. /\ Top \in Frames /\ Tail(stack) \in Seq(Frames)
      /\ Top \in FrameType /\ Tail(stack) \in Seq(FrameType)
  BY SeqPush DEF Inv, TypeOK, Working, Top
<1>3. /\ Top.mod \in Modules /\ Top.pass \in Passes /\ Top.cand \in Nat
      /\ Top.todo \in SUBSET Nat /\ Top.held \in SubjectType
      /\ Top.worked \in BOOLEAN /\ Top.count \in Nat
      /\ Top.todo \subseteq DOMAIN cand[Top.mod]
      /\ Top.cand <= Len(cand[Top.mod])
  BY <1>2 DEF FrameType, Frames
<1>4. \A m \in Modules : /\ Count(m) \in Nat /\ Len(cand[m]) \in Nat
                         /\ DOMAIN cand[m] = 1 .. Len(cand[m])
  BY <1>1, CountType
<1>5. Top.cand \in DOMAIN cand[Top.mod]
        => /\ cand[Top.mod][Top.cand] \in NameType
           /\ Wrote(cand[Top.mod][Top.cand]) \in NameType
           /\ Gave(cand[Top.mod][Top.cand]) \in NameType
           /\ WroteAndAsked(cand[Top.mod][Top.cand]) \in NameType
  BY <1>1, <1>3, CandName, PassType
<1>6. \* the stack and the memo, when the lists have grown
      ASSUME cand' \in [Modules -> Seq(NameType)], Grows, memo' = memo,
             \/ stack' = Tail(stack)
             \/ \E f \in FrameType : /\ stack' = <<f>> \o Tail(stack)
                                     /\ f.mod = Top.mod
                                     /\ f.cand <= Len(cand[Top.mod])
                                     /\ f.todo \subseteq DOMAIN cand[Top.mod]
      PROVE  /\ stack' \in Seq(FrameType)
             /\ stack' \in Seq(Frames')
             /\ \A k \in Keys : memo'[k] <= Len(cand'[HostOf[k]])
  <2>1. Seq(Frames) \subseteq Seq(Frames')
    BY <1>1, <1>6, FramesStay
  <2>2. \A m \in Modules : Len(cand'[m]) \in Nat
    BY <1>6, LenProperties
  <2>3. ASSUME NEW k \in Keys
        PROVE  memo'[k] <= Len(cand'[HostOf[k]])
    BY <1>1, <1>4, <1>6, <2>2, <2>3 DEF Grows
  <2>4. stack' \in Seq(Frames) /\ stack' \in Seq(FrameType)
    <3>1. CASE stack' = Tail(stack)
      BY <1>2, <3>1
    <3>2. ASSUME NEW f \in FrameType, stack' = <<f>> \o Tail(stack),
                 f.mod = Top.mod, f.cand <= Len(cand[Top.mod]),
                 f.todo \subseteq DOMAIN cand[Top.mod]
          PROVE  stack' \in Seq(Frames) /\ stack' \in Seq(FrameType)
      <4>1. f \in Frames
        BY <3>2 DEF Frames
      <4>. QED
        BY <1>2, <3>2, <4>1, SeqPush
    <3>. QED
      BY <1>6, <3>1, <3>2
  <2>. QED
    BY <2>1, <2>3, <2>4
<1>7. cand' = cand => cand' \in [Modules -> Seq(NameType)] /\ Grows
  BY <1>1, <1>4 DEF Grows
<1>8. [Top EXCEPT !.cand = NoCandidate, !.worked = TRUE] \in FrameType
  BY <1>2, <1>3, FrameUpdates, Zenon
<1>9. CASE TakeCandidate
  <2>1. PICK c \in Top.todo :
          SetTop([Top EXCEPT !.cand = c, !.todo = @ \ {c}, !.asked = FALSE,
                             !.step = IF IsLate(Top, c) THEN "late" ELSE "main"])
    BY <1>9, Zenon DEF TakeCandidate
  <2>2. c \in Nat /\ Top.todo \ {c} \in SUBSET Nat
    BY <1>3
  <2>3. (IF IsLate(Top, c) THEN "late" ELSE "main") \in {"main", "late"}
    OBVIOUS
  <2>. DEFINE f == [Top EXCEPT !.cand = c, !.todo = @ \ {c}, !.asked = FALSE,
                      !.step = IF IsLate(Top, c) THEN "late" ELSE "main"]
  <2>4. f \in FrameType
    BY <1>2, <2>2, <2>3, FrameUpdates, Zenon
  <2>5. f.mod = Top.mod /\ f.cand = c /\ f.todo \subseteq Top.todo
    BY <1>2 DEF FrameType
  <2>6. c <= Len(cand[Top.mod])
    BY <1>3, <1>4
  <2>. HIDE DEF f
  <2>7. stack' = <<f>> \o Tail(stack) /\ cand' = cand /\ memo' = memo
    BY <1>9, <2>1 DEF TakeCandidate, SetTop, f
  <2>8. \E g \in FrameType : /\ stack' = <<g>> \o Tail(stack)
                             /\ g.mod = Top.mod
                             /\ g.cand <= Len(cand[Top.mod])
                             /\ g.todo \subseteq DOMAIN cand[Top.mod]
    BY <1>3, <2>4, <2>5, <2>6, <2>7
  <2>. QED
    BY <1>1, <1>6, <1>7, <1>9, <2>7, <2>8, Zenon DEF Inv, TypeOK, TakeCandidate
<1>10. CASE FinishLate
  <2>1. cand' = [cand EXCEPT ![Top.mod][Top.cand] = Wrote(cand[Top.mod][Top.cand])]
    BY <1>10 DEF FinishLate
  <2>2. cand' \in [Modules -> Seq(NameType)] /\ Grows
    BY <1>1, <1>3, <1>5, <2>1, CandUpdateGrows
  <2>3. \E f \in FrameType : /\ stack' = <<f>> \o Tail(stack)
                             /\ f.mod = Top.mod
                             /\ f.cand <= Len(cand[Top.mod])
                             /\ f.todo \subseteq DOMAIN cand[Top.mod]
    <3>. DEFINE f == [Top EXCEPT !.step = "main", !.asked = FALSE]
    <3>1. f \in FrameType
      BY <1>2, FrameUpdates, Zenon
    <3>2. f.mod = Top.mod /\ f.cand <= Top.cand /\ f.todo = Top.todo
      BY <1>2, <1>3 DEF FrameType, NoCandidate
    <3>. HIDE DEF f
    <3>3. stack' = <<f>> \o Tail(stack)
      BY <1>10 DEF FinishLate, SetTop, f
    <3>4. f.cand <= Len(cand[Top.mod])
      BY <1>3, <1>4, <3>1, <3>2 DEF FrameType
    <3>. QED
      BY <1>3, <3>1, <3>2, <3>3, <3>4
  <2>4. memo' = memo
    BY <1>10 DEF FinishLate
  <2>. QED
    BY <1>1, <1>6, <1>10, <2>2, <2>3, <2>4 DEF Inv, TypeOK, FinishLate
<1>11. CASE FinishWritten
  <2>1. cand' = [cand EXCEPT ![Top.mod][Top.cand] = WroteAndAsked(cand[Top.mod][Top.cand])]
    BY <1>11 DEF FinishWritten
  <2>2. cand' \in [Modules -> Seq(NameType)] /\ Grows
    BY <1>1, <1>3, <1>5, <2>1, CandUpdateGrows
  <2>3. \E f \in FrameType : /\ stack' = <<f>> \o Tail(stack)
                             /\ f.mod = Top.mod
                             /\ f.cand <= Len(cand[Top.mod])
                             /\ f.todo \subseteq DOMAIN cand[Top.mod]
    <3>. DEFINE f == [Top EXCEPT !.cand = NoCandidate, !.worked = TRUE]
    <3>1. f \in FrameType
      BY <1>2, FrameUpdates, Zenon
    <3>2. f.mod = Top.mod /\ f.cand <= Top.cand /\ f.todo = Top.todo
      BY <1>2, <1>3 DEF FrameType, NoCandidate
    <3>. HIDE DEF f
    <3>3. stack' = <<f>> \o Tail(stack)
      BY <1>11 DEF FinishWritten, SetTop, f
    <3>4. f.cand <= Len(cand[Top.mod])
      BY <1>3, <1>4, <3>1, <3>2 DEF FrameType
    <3>. QED
      BY <1>3, <3>1, <3>2, <3>3, <3>4
  <2>4. memo' = memo
    BY <1>11 DEF FinishWritten
  <2>. QED
    BY <1>1, <1>6, <1>11, <2>2, <2>3, <2>4 DEF Inv, TypeOK, FinishWritten
<1>12. CASE FinishInferred
  <2>1. cand' = [cand EXCEPT ![Top.mod][Top.cand] = Gave(cand[Top.mod][Top.cand])]
    BY <1>12 DEF FinishInferred
  <2>2. cand' \in [Modules -> Seq(NameType)] /\ Grows
    BY <1>1, <1>3, <1>5, <2>1, CandUpdateGrows
  <2>3. \E f \in FrameType : /\ stack' = <<f>> \o Tail(stack)
                             /\ f.mod = Top.mod
                             /\ f.cand <= Len(cand[Top.mod])
                             /\ f.todo \subseteq DOMAIN cand[Top.mod]
    <3>. DEFINE f == [Top EXCEPT !.cand = NoCandidate, !.worked = TRUE]
    <3>1. f \in FrameType
      BY <1>2, FrameUpdates
    <3>2. f.mod = Top.mod /\ f.cand <= Top.cand /\ f.todo = Top.todo
      BY <1>2, <1>3 DEF FrameType, NoCandidate
    <3>. HIDE DEF f
    <3>3. stack' = <<f>> \o Tail(stack)
      BY <1>12 DEF FinishInferred, SetTop, f
    <3>4. f.cand <= Len(cand[Top.mod])
      BY <1>3, <1>4, <3>1, <3>2 DEF FrameType
    <3>. QED
      BY <1>3, <3>1, <3>2, <3>3, <3>4
  <2>4. memo' = memo
    BY <1>12 DEF FinishInferred
  <2>. QED
    BY <1>1, <1>6, <1>12, <2>2, <2>3, <2>4 DEF Inv, TypeOK, FinishInferred
<1>13. CASE LowerLoop
  <2>. DEFINE local == Declared("local", Subjected.owner, FALSE, "given", FALSE)
              bound == [Subjected EXCEPT !.sort = "local"]
              typed == [cand[Top.mod] EXCEPT ![Top.cand] = Gave(bound)]
              f == [Top EXCEPT !.cand = NoCandidate, !.worked = TRUE]
  <2>1. Top.cand \in DOMAIN cand[Top.mod]
    BY <1>3, <1>4, <1>13 DEF LowerLoop, Typing, NoCandidate
  <2>2. Subjected \in NameType
    BY <1>5, <2>1 DEF Subjected
  <2>3. bound \in NameType /\ Subjected.owner \in Nat
    BY <2>2 DEF NameType, BodySorts
  <2>4. Gave(bound) \in NameType
    BY <2>3, PassType
  <2>5. local \in NameType
    BY <2>3, DeclaredType DEF BodySorts, TypeStates
  <2>. HIDE DEF local, bound
  <2>6. cand[Top.mod] \in Seq(NameType)
    BY <1>1, <1>3
  <2>7. typed \in Seq(NameType) /\ Len(typed) = Len(cand[Top.mod])
    <3>1. ASSUME NEW s \in Seq(NameType), NEW i, NEW x \in NameType
          PROVE  /\ [s EXCEPT ![i] = x] \in Seq(NameType)
                 /\ Len([s EXCEPT ![i] = x]) = Len(s)
      BY <3>1, SeqExcept
    <3>. QED
      BY <2>4, <2>6, <3>1
  <2>8. <<local>> \in Seq(NameType) /\ Len(<<local>>) = 1
    BY <2>5
  <2>. HIDE DEF typed
  <2>9. /\ typed \o <<local>> \in Seq(NameType)
        /\ Len(typed \o <<local>>) = Len(cand[Top.mod]) + 1
    BY <2>7, <2>8, ConcatProperties
  <2>10. cand' = [cand EXCEPT ![Top.mod] = typed \o <<local>>]
    BY <1>13 DEF LowerLoop, typed, bound, local
  <2>11. cand' \in [Modules -> Seq(NameType)]
    BY <1>1, <1>3, <2>9, <2>10
  <2>12. Grows
    BY <1>1, <1>3, <1>4, <2>9, <2>10 DEF Grows
  <2>13. f \in FrameType /\ f.mod = Top.mod /\ f.cand = 0 /\ f.todo = Top.todo
    BY <1>2, <1>8 DEF FrameType, NoCandidate
  <2>. HIDE DEF f
  <2>14. stack' = <<f>> \o Tail(stack) /\ memo' = memo
    BY <1>13 DEF LowerLoop, SetTop, f
  <2>15. /\ f.cand <= Len(cand[Top.mod])
         /\ f.todo \subseteq DOMAIN cand[Top.mod]
    BY <1>3, <1>4, <2>13
  <2>16. \E g \in FrameType : /\ stack' = <<g>> \o Tail(stack)
                              /\ g.mod = Top.mod
                              /\ g.cand <= Len(cand[Top.mod])
                              /\ g.todo \subseteq DOMAIN cand[Top.mod]
    BY <2>13, <2>14, <2>15
  <2>. QED
    BY <1>1, <1>6, <1>13, <2>11, <2>12, <2>14, <2>16 DEF Inv, TypeOK, LowerLoop
<1>14. CASE NextRound
  <2>. DEFINE f == [Top EXCEPT !.todo = {c \in DOMAIN cand[Top.mod] : c >= Top.count},
                               !.count = Count(Top.mod)]
  <2>1. {c \in DOMAIN cand[Top.mod] : c >= Top.count} \subseteq DOMAIN cand[Top.mod]
    OBVIOUS
  <2>2. {c \in DOMAIN cand[Top.mod] : c >= Top.count} \in SUBSET Nat
    BY <1>3, <1>4
  <2>3. f \in FrameType
    BY <1>2, <1>3, <1>4, <2>2, FrameUpdates, Zenon
  <2>4. f.mod = Top.mod /\ f.cand = Top.cand /\ f.todo \subseteq DOMAIN cand[Top.mod]
    BY <1>2, <1>3, <1>4, <2>1 DEF FrameType
  <2>. HIDE DEF f
  <2>5. stack' = <<f>> \o Tail(stack) /\ memo' = memo /\ cand' = cand
    BY <1>14 DEF NextRound, SetTop, f
  <2>6. subject' \in SubjectType
    BY <1>1, <1>3, <1>4, <1>14 DEF NextRound, SubjectType, TypeOK
  <2>7. \E g \in FrameType : /\ stack' = <<g>> \o Tail(stack)
                             /\ g.mod = Top.mod
                             /\ g.cand <= Len(cand[Top.mod])
                             /\ g.todo \subseteq DOMAIN cand[Top.mod]
    BY <1>3, <2>3, <2>4, <2>5
  <2>. QED
    BY <1>1, <1>6, <1>7, <1>14, <2>5, <2>6, <2>7 DEF Inv, TypeOK, NextRound
<1>15. CASE FinishWalk
  <2>1. mark' \in [Passes -> [Modules -> Nat]]
    BY <1>1, <1>3, <1>15 DEF FinishWalk, TypeOK
  <2>2. subject' \in SubjectType /\ at' \in Nat /\ grew' \in BOOLEAN
    BY <1>1, <1>3, <1>15 DEF FinishWalk, TypeOK
  <2>3. stack' = Tail(stack) /\ memo' = memo /\ cand' = cand
    BY <1>15 DEF FinishWalk
  <2>. QED
    BY <1>1, <1>6, <1>7, <1>15, <2>1, <2>2, <2>3 DEF Inv, TypeOK, FinishWalk
<1>. QED
  BY <1>9, <1>10, <1>11, <1>12, <1>13, <1>14, <1>15

\* A clone is a list of two names.
LEMMA CloneType ==
    ASSUME NEW k \in Keys, NEW c \in Nat
    PROVE  Clone(k, c) \in Seq(NameType) /\ Len(Clone(k, c)) = 2
<1>1. SortOf[k] \in HeadSorts /\ (k \in Assigns) \in BOOLEAN
  BY KeysAssumption
<1>. DEFINE o == IF SortOf[k] = "method" THEN 1 ELSE c
            e == phase \in EarlyPhases
            inner == IF SortOf[k] = "class" THEN "field" ELSE "local"
            n1 == Declared(SortOf[k], o, k \in Assigns, "none", e)
            n2 == Declared(inner, c, FALSE, "none", e)
<1>2. /\ o \in Nat /\ e \in BOOLEAN /\ inner \in HeadSorts \cup BodySorts
      /\ "none" \in TypeStates
  BY DEF TypeStates, BodySorts
<1>3. Clone(k, c) = <<n1, n2>>
  BY DEF Clone
<1>. HIDE DEF o, e, inner
<1>4. n1 \in NameType /\ n2 \in NameType
  BY <1>1, <1>2, DeclaredType
<1>. HIDE DEF n1, n2
<1>. QED
  BY <1>3, <1>4

\* Asking for an instantiation finds a clone or declares one and signs it.
LEMMA InstantiateInv ==
    ASSUME Inv, NEW k \in Keys, Instantiate(k)
    PROVE  Inv'
<1>. DEFINE m == HostOf[k]
            c == IF Found(k) = 0 THEN Count(m) ELSE Found(k)
            list == IF Found(k) = 0 THEN Grown(m, Clone(k, c)) ELSE cand
            fresh == list[m][c].type = "none"
            class == list[m][c].sort = "class"
<1>1. /\ TypeOK
      /\ cand \in [Modules -> Seq(NameType)] /\ stack \in Seq(FrameType)
      /\ memo \in [Keys -> Nat] /\ subject \in SubjectType
      /\ stack \in Seq(Frames) /\ m \in Modules
      /\ \A j \in Keys : memo[j] <= Len(cand[HostOf[j]]) /\ HostOf[j] \in Modules
  BY KeysAssumption DEF Inv, TypeOK
<1>2. \A n \in Modules : /\ Count(n) = Len(cand[n]) + 1 /\ Len(cand[n]) \in Nat
                         /\ DOMAIN cand[n] = 1 .. Len(cand[n])
  BY <1>1, CountType DEF Count
<1>3. c \in Nat \ {0}
  BY <1>1, <1>2 DEF Found
<1>4. /\ list \in [Modules -> Seq(NameType)]
      /\ \A n \in Modules : Len(cand[n]) <= Len(list[n])
      /\ c <= Len(list[m])
  <2>1. CASE Found(k) = 0
    <3>. DEFINE q == Clone(k, c)
    <3>1. q \in Seq(NameType) /\ Len(q) = 2
      BY <1>3, CloneType
    <3>2. c = Len(cand[m]) + 1 /\ list = Grown(m, q)
      BY <1>1, <1>2, <2>1
    <3>. HIDE DEF q, m, c, list
    <3>3. cand[m] \in Seq(NameType)
      BY <1>1
    <3>4. Len(cand[m] \o q) = Len(cand[m]) + 2
      <4>1. ASSUME NEW s \in Seq(NameType), NEW t \in Seq(NameType)
            PROVE  Len(s \o t) = Len(s) + Len(t)
        BY ConcatProperties
      <4>. QED
        BY <3>1, <3>3, <4>1
    <3>5. /\ Grown(m, q) \in [Modules -> Seq(NameType)]
          /\ Grown(m, q)[m] = cand[m] \o q
      BY <1>1, <3>1, GrownType
    <3>6. \A n \in Modules : n # m => Grown(m, q)[n] = cand[n]
      BY <1>1 DEF Grown
    <3>7. ASSUME NEW n \in Modules
          PROVE  Len(cand[n]) <= Len(list[n])
      <4>1. Len(cand[n]) \in Nat
        BY <1>2
      <4>2. CASE n = m
        BY <3>2, <3>4, <3>5, <4>1, <4>2
      <4>3. CASE n # m
        BY <3>2, <3>6, <4>1, <4>3
      <4>. QED
        BY <4>2, <4>3
    <3>8. c <= Len(list[m])
      BY <1>1, <1>2, <3>2, <3>4, <3>5
    <3>. QED
      BY <3>2, <3>5, <3>7, <3>8
  <2>2. CASE Found(k) # 0
    BY <1>1, <1>2, <2>2 DEF Found
  <2>. QED
    BY <2>1, <2>2
<1>5. fresh \in BOOLEAN /\ class \in BOOLEAN
  OBVIOUS
<1>6. \A n \in Modules : Len(list[n]) \in Nat /\ DOMAIN list[n] = 1 .. Len(list[n])
  BY <1>4, LenProperties
<1>7. /\ memo' = [memo EXCEPT ![k] = c]
      /\ cand' = IF fresh /\ class
                 THEN [list EXCEPT ![m][c].type = "written"] ELSE list
      /\ stack' = <<SignFrame(m, c, fresh)>> \o Asked
      /\ subject' = IF ~fresh THEN subject
                    ELSE IF class THEN [subject EXCEPT !.mod = m]
                    ELSE Subject(m, m, Len(list[m]) + 1)
      /\ free' = FALSE
      /\ UNCHANGED <<mark, walking, phase, at, grew, named, lowered, checked, round>>
  BY SMTT(60) DEF Instantiate
<1>. HIDE DEF fresh, class, list, c, m
<1>8. /\ cand' \in [Modules -> Seq(NameType)]
      /\ \A n \in Modules : Len(list[n]) = Len(cand'[n])
  <2>1. CASE ~(fresh /\ class)
    BY <1>4, <1>7, <2>1
  <2>2. CASE fresh /\ class
    <3>. DEFINE x == [list[m][c] EXCEPT !.type = "written"]
    <3>1. list[m] \in Seq(NameType) /\ c \in DOMAIN list[m]
      BY <1>1, <1>3, <1>4, <1>6
    <3>2. list[m][c] \in NameType
      BY <3>1, ElementOfSeq, LenProperties
    <3>3. x \in NameType
      BY <3>2 DEF NameType, TypeStates
    <3>4. cand' = [list EXCEPT ![m] = [list[m] EXCEPT ![c] = x]]
      BY <1>7, <2>2
    <3>. HIDE DEF x
    <3>5. ASSUME NEW s \in Seq(NameType), NEW i, NEW y \in NameType
          PROVE  /\ [s EXCEPT ![i] = y] \in Seq(NameType)
                 /\ Len([s EXCEPT ![i] = y]) = Len(s)
      BY <3>5, SeqExcept
    <3>6. /\ [list[m] EXCEPT ![c] = x] \in Seq(NameType)
          /\ Len([list[m] EXCEPT ![c] = x]) = Len(list[m])
      BY <3>1, <3>3, <3>5
    <3>. QED
      BY <1>1, <1>4, <3>4, <3>6
  <2>. QED
    BY <2>1, <2>2
<1>9. Grows
  BY <1>2, <1>4, <1>6, <1>8 DEF Grows
<1>10. Seq(Frames) \subseteq Seq(Frames') /\ Frames \subseteq Frames'
  BY <1>1, <1>8, <1>9, FramesStay
<1>11. Asked \in Seq(FrameType) /\ Asked \in Seq(Frames)
  <2>1. CASE stack = <<>>
    BY <2>1 DEF Asked
  <2>2. CASE stack # <<>>
    <3>1. /\ Top \in FrameType /\ Top \in Frames
          /\ Tail(stack) \in Seq(FrameType) /\ Tail(stack) \in Seq(Frames)
      BY <1>1, <2>2, SeqPush DEF Top
    <3>. DEFINE f == [Top EXCEPT !.asked = TRUE]
    <3>2. f \in FrameType
      BY <3>1, FrameUpdates, Zenon
    <3>3. f.mod = Top.mod /\ f.cand = Top.cand /\ f.todo = Top.todo
      BY <3>1 DEF FrameType
    <3>. HIDE DEF f
    <3>4. f \in Frames
      BY <3>1, <3>2, <3>3 DEF Frames
    <3>5. Asked = <<f>> \o Tail(stack)
      BY <2>2 DEF Asked, f
    <3>. QED
      BY <3>1, <3>2, <3>4, <3>5, SeqPush
  <2>. QED
    BY <2>1, <2>2
<1>12. SignFrame(m, c, fresh) \in FrameType /\ SignFrame(m, c, fresh) \in Frames'
  <2>1. SignFrame(m, c, fresh) \in FrameType
    BY <1>1, <1>3, <1>5 DEF SignFrame, FrameType, Passes
  <2>2. /\ SignFrame(m, c, fresh).mod = m /\ SignFrame(m, c, fresh).cand = c
        /\ SignFrame(m, c, fresh).todo = {}
    BY DEF SignFrame
  <2>3. c <= Len(cand'[m])
    BY <1>1, <1>4, <1>8
  <2>. QED
    BY <2>1, <2>2, <2>3 DEF Frames
<1>13. stack' \in Seq(FrameType) /\ stack' \in Seq(Frames')
  BY <1>7, <1>10, <1>11, <1>12, SeqPush
<1>14. memo' \in [Keys -> Nat] /\ \A j \in Keys : memo'[j] <= Len(cand'[HostOf[j]])
  <2>1. memo' \in [Keys -> Nat]
    BY <1>1, <1>3, <1>7
  <2>2. c <= Len(cand'[m])
    BY <1>1, <1>4, <1>8
  <2>3. \A n \in Modules : Len(cand'[n]) \in Nat
    BY <1>6, <1>8
  <2>4. ASSUME NEW j \in Keys
        PROVE  memo'[j] <= Len(cand'[HostOf[j]])
    <3>1. CASE j = k
      BY <1>1, <1>7, <2>2, <3>1 DEF m
    <3>2. CASE j # k
      <4>1. memo'[j] = memo[j] /\ memo[j] \in Nat
        BY <1>1, <1>7, <3>2
      <4>2. HostOf[j] \in Modules /\ memo[j] <= Len(cand[HostOf[j]])
        BY <1>1
      <4>. QED
        BY <1>2, <1>9, <2>3, <4>1, <4>2 DEF Grows
    <3>. QED
      BY <3>1, <3>2
  <2>. QED
    BY <2>1, <2>4
<1>15. subject' \in SubjectType
  <2>1. Subject(m, m, Len(list[m]) + 1) \in SubjectType
    BY <1>1, <1>6 DEF Subject, SubjectType
  <2>2. [subject EXCEPT !.mod = m] \in SubjectType
    BY <1>1 DEF SubjectType
  <2>. QED
    BY <1>1, <1>7, <2>1, <2>2
<1>. QED
  BY <1>1, <1>7, <1>8, <1>13, <1>14, <1>15 DEF Inv, TypeOK

\* A signature that ends types the head and the fields of its clone.
LEMMA FinishSignatureInv == Inv /\ FinishSignature => Inv'
<1>. SUFFICES ASSUME Inv, FinishSignature
              PROVE  Inv'
  OBVIOUS
<1>1. /\ TypeOK
      /\ cand \in [Modules -> Seq(NameType)] /\ stack \in Seq(FrameType)
      /\ stack \in Seq(Frames) /\ stack # <<>>
      /\ \A j \in Keys : memo[j] <= Len(cand[HostOf[j]]) /\ HostOf[j] \in Modules
  BY KeysAssumption DEF Inv, TypeOK, FinishSignature, Working
<1>2. /\ Top \in FrameType
      /\ Tail(stack) \in Seq(FrameType) /\ Tail(stack) \in Seq(Frames)
  BY <1>1, SeqPush DEF Top
<1>3. Top.mod \in Modules /\ Top.held \in SubjectType
  BY <1>2 DEF FrameType
<1>4. CatchUp(Tail(stack), Top.mod, Top.held)
  BY DEF FinishSignature
<1>5. /\ stack' \in Seq(FrameType) /\ stack' \in Seq(Frames)
      /\ walking' \subseteq Modules /\ subject' \in SubjectType
  BY <1>1, <1>2, <1>3, <1>4, CatchUpType
<1>6. \A n \in Modules : Len(cand[n]) \in Nat /\ DOMAIN cand[n] = 1 .. Len(cand[n])
  BY <1>1, CountType
<1>7. cand' \in [Modules -> Seq(NameType)] /\ Grows
  <2>1. CASE Top.step = "known"
    <3>1. cand' = cand
      BY <2>1 DEF FinishSignature
    <3>. QED
      BY <1>1, <1>6, <3>1 DEF Grows
  <2>2. CASE Top.step # "known"
    <3>. DEFINE old == cand[Top.mod]
                now(c) == IF /\ old[c].type = "none"
                             /\ \/ c = Top.cand
                                \/ old[c].owner = Top.cand /\ old[c].sort = "field"
                          THEN [old[c] EXCEPT !.type = "written"] ELSE old[c]
                new == [c \in DOMAIN old |-> now(c)]
    <3>1. cand' = [cand EXCEPT ![Top.mod] = new]
      BY <2>2 DEF FinishSignature
    <3>2. DOMAIN old = 1 .. Len(old) /\ Len(old) \in Nat
      BY <1>3, <1>6
    <3>3. ASSUME NEW c \in DOMAIN old
          PROVE  now(c) \in NameType
      <4>1. old[c] \in NameType
        BY <1>1, <1>3, <3>3, CandName
      <4>2. [old[c] EXCEPT !.type = "written"] \in NameType
        <5>1. ASSUME NEW x \in NameType
              PROVE  [x EXCEPT !.type = "written"] \in NameType
          BY <5>1 DEF NameType, TypeStates
        <5>. QED
          BY <4>1, <5>1
      <4>. QED
        BY <4>1, <4>2
    <3>. HIDE DEF now
    <3>4. [c \in 1 .. Len(old) |-> now(c)] \in Seq(NameType)
      BY <3>2, <3>3, IsASeq
    <3>5. new \in Seq(NameType)
      BY <3>2, <3>4
    <3>6. Len(new) = Len(old)
      <4>1. ASSUME NEW s, NEW n \in Nat, s = [c \in 1 .. n |-> now(c)]
            PROVE  Len(s) = n
        BY <4>1
      <4>2. new = [c \in 1 .. Len(old) |-> now(c)]
        BY <3>2
      <4>. HIDE DEF new, old
      <4>. QED
        BY <3>2, <4>1, <4>2
    <3>. HIDE DEF new
    <3>7. cand' \in [Modules -> Seq(NameType)]
      BY <1>1, <1>3, <3>1, <3>5
    <3>8. ASSUME NEW n \in Modules
          PROVE  Len(cand[n]) <= Len(cand'[n])
      <4>1. Len(cand'[n]) = Len(cand[n])
        BY <1>1, <1>3, <3>1, <3>6
      <4>. QED
        BY <1>6, <4>1
    <3>. QED
      BY <3>7, <3>8 DEF Grows
  <2>. QED
    BY <2>1, <2>2
<1>8. stack' \in Seq(Frames')
  BY <1>1, <1>5, <1>7, FramesStay
<1>9. memo' = memo /\ \A j \in Keys : memo'[j] <= Len(cand'[HostOf[j]])
  <2>1. memo' = memo
    BY DEF FinishSignature
  <2>2. ASSUME NEW j \in Keys
        PROVE  memo[j] <= Len(cand'[HostOf[j]])
    <3>1. /\ memo[j] \in Nat /\ HostOf[j] \in Modules
          /\ memo[j] <= Len(cand[HostOf[j]])
      BY <1>1 DEF TypeOK
    <3>2. Len(cand'[HostOf[j]]) \in Nat
      BY <1>7, <3>1, LenProperties
    <3>. QED
      BY <1>6, <1>7, <3>1, <3>2 DEF Grows
  <2>. QED
    BY <2>1, <2>2
<1>. QED
  BY <1>1, <1>5, <1>7, <1>8, <1>9, ZenonT(60) DEF Inv, TypeOK, FinishSignature

\* What the loops of Compilation do when no walk runs keeps the stack and the
\* memo, so only the lists can disturb the invariant.
LEMMA IdleInv ==
    ASSUME Inv, memo' = memo, stack' = stack,
           cand' \in [Modules -> Seq(NameType)], Grows
    PROVE  /\ stack' \in Seq(Frames')
           /\ \A k \in Keys : memo'[k] <= Len(cand'[HostOf[k]])
<1>1. cand \in [Modules -> Seq(NameType)] /\ stack \in Seq(Frames)
  BY DEF Inv, TypeOK
<1>2. stack' \in Seq(Frames')
  BY <1>1, FramesStay
<1>3. ASSUME NEW j \in Keys
      PROVE  memo[j] <= Len(cand'[HostOf[j]])
  <2>1. /\ memo[j] \in Nat /\ HostOf[j] \in Modules
        /\ memo[j] <= Len(cand[HostOf[j]])
    BY KeysAssumption DEF Inv, TypeOK
  <2>2. Len(cand'[HostOf[j]]) \in Nat /\ Len(cand[HostOf[j]]) \in Nat
    BY <1>1, <2>1, LenProperties
  <2>. QED
    BY <2>1, <2>2 DEF Grows
<1>. QED
  BY <1>2, <1>3

\* Lists nothing was declared in have grown by nothing.
LEMMA SameLists ==
    ASSUME cand \in [Modules -> Seq(NameType)], cand' = cand
    PROVE  cand' \in [Modules -> Seq(NameType)] /\ Grows
BY CountType DEF Grows

\* The loops of Compilation, and the checker, work on an empty call stack.
LEMMA LoopInv ==
    Inv /\ (\/ WalkModule \/ NothingToWalk \/ ScanDeclaration \/ LeaveScanned
            \/ LowerSwitch \/ LeaveSwitches \/ CheckDeclaration \/ LeaveChecked
            \/ NextLoop \/ UNCHANGED vars) => Inv'
<1>. SUFFICES ASSUME Inv,
                     \/ WalkModule \/ NothingToWalk \/ ScanDeclaration \/ LeaveScanned
                     \/ LowerSwitch \/ LeaveSwitches \/ CheckDeclaration
                     \/ LeaveChecked \/ NextLoop \/ UNCHANGED vars
              PROVE  Inv'
  OBVIOUS
<1>1. /\ TypeOK /\ cand \in [Modules -> Seq(NameType)] /\ stack \in Seq(FrameType)
      /\ stack \in Seq(Frames)
  BY DEF Inv, TypeOK
<1>2. \A m \in Modules : /\ Len(cand[m]) \in Nat /\ DOMAIN cand[m] = 1 .. Len(cand[m])
                         /\ Heads(m) \subseteq Nat /\ Unchecked(m) \subseteq Nat
                         /\ \A d \in Nat : Methods(m, d) \subseteq Nat
  BY <1>1, CountType DEF Heads, Unchecked, Methods
<1>3. NumModules \in Nat \ {0} /\ \A n \in Nat : n + 1 \in Nat
  BY ModulesAssumption
<1>4. CASE WalkModule
  <2>1. PassOfLoop \in Passes /\ at \in Modules
    BY <1>4 DEF WalkModule, PassOfLoop, Passes
  <2>2. subject \in SubjectType /\ <<>> \in Seq(FrameType) /\ <<>> \in Seq(Frames)
    BY <1>1 DEF TypeOK
  <2>3. BeginWalk(<<>>, at, PassOfLoop, FALSE, subject)
    BY <1>4 DEF WalkModule
  <2>4. /\ stack' \in Seq(FrameType) /\ stack' \in Seq(Frames)
        /\ walking' \subseteq Modules /\ subject' \in SubjectType
    BY <1>1, <2>1, <2>2, <2>3, BeginWalkType
  <2>5. cand' = cand /\ memo' = memo
    BY <1>4 DEF WalkModule
  <2>6. stack' \in Seq(Frames')
    BY <1>1, <2>4, <2>5, SameLists, FramesStay
  <2>. QED
    BY <1>1, <1>4, <2>4, <2>5, <2>6 DEF Inv, TypeOK, WalkModule
<1>5. CASE NothingToWalk
  <2>1. subject' \in SubjectType
    BY <1>1, <1>5 DEF NothingToWalk, TypeOK, SubjectType
  <2>2. cand' = cand /\ memo' = memo /\ stack' = stack /\ at' \in Nat
    BY <1>1, <1>3, <1>5 DEF NothingToWalk, TypeOK
  <2>. QED
    BY <1>1, <1>5, <2>1, <2>2, SameLists, IdleInv DEF Inv, TypeOK, NothingToWalk
<1>6. CASE ScanDeclaration
  <2>1. PICK d \in Unscanned(at) :
          cand' = [cand EXCEPT ![at] =
                     [cand[at] EXCEPT ![d] = [cand[at][d] EXCEPT !.scanned = TRUE]]
                     \o (IF cand[at][d].assigns
                         THEN <<Declared("implicit", d, FALSE, "none", TRUE)>>
                         ELSE <<>>)]
    BY <1>6, ZenonT(60) DEF ScanDeclaration
  <2>. DEFINE assigned == IF cand[at][d].assigns
                          THEN <<Declared("implicit", d, FALSE, "none", TRUE)>>
                          ELSE <<>>
              asked == [cand[at][d] EXCEPT !.scanned = TRUE]
              old == cand[at]
  <2>2. at \in Modules
    BY <1>6 DEF ScanDeclaration, InLoop
  <2>3. old \in Seq(NameType) /\ Len(old) \in Nat /\ DOMAIN old = 1 .. Len(old)
    BY <1>1, <1>2, <2>2
  <2>4. d \in DOMAIN old /\ d \in Nat
    BY <1>2, <2>2 DEF Unscanned, RootHeads
  <2>5. asked \in NameType
    <3>1. ASSUME NEW x \in NameType
          PROVE  [x EXCEPT !.scanned = TRUE] \in NameType
      BY <3>1 DEF NameType
    <3>. QED
      BY <1>1, <2>2, <2>4, <3>1, CandName
  <2>6. assigned \in Seq(NameType)
    <3>. DEFINE x == Declared("implicit", d, FALSE, "none", TRUE)
    <3>1. x \in NameType
      BY <2>4, DeclaredType DEF BodySorts, TypeStates
    <3>. HIDE DEF x
    <3>2. <<x>> \in Seq(NameType) /\ <<>> \in Seq(NameType)
      BY <3>1
    <3>. QED
      BY <3>2 DEF x
  <2>7. cand' = [cand EXCEPT ![at] = [old EXCEPT ![d] = asked] \o assigned]
    BY <2>1
  <2>. HIDE DEF assigned, asked, old
  <2>8. /\ [old EXCEPT ![d] = asked] \o assigned \in Seq(NameType)
        /\ Len(old) <= Len([old EXCEPT ![d] = asked] \o assigned)
    <3>1. /\ [old EXCEPT ![d] = asked] \in Seq(NameType)
          /\ Len([old EXCEPT ![d] = asked]) = Len(old)
      BY <2>3, <2>5, SeqExcept
    <3>2. Len(assigned) \in Nat
      BY <2>6, LenProperties
    <3>. QED
      BY <2>3, <2>6, <3>1, <3>2, ConcatProperties
  <2>9. cand' \in [Modules -> Seq(NameType)]
    BY <1>1, <2>2, <2>7, <2>8
  <2>10. ASSUME NEW m \in Modules
         PROVE  Len(cand[m]) <= Len(cand'[m])
    BY <1>1, <1>2, <2>2, <2>7, <2>8 DEF old
  <2>11. memo' = memo /\ stack' = stack /\ named' \in [Modules -> Nat]
    BY <1>1, <1>3, <1>6, <2>2 DEF ScanDeclaration, TypeOK
  <2>. QED
    BY <1>1, <1>6, <2>9, <2>10, <2>11, IdleInv, ZenonT(60)
       DEF Inv, TypeOK, ScanDeclaration, Grows
<1>7. CASE LeaveScanned
  <2>1. cand' = cand /\ memo' = memo /\ stack' = stack /\ at' \in Nat
    BY <1>1, <1>3, <1>7 DEF LeaveScanned, TypeOK
  <2>. QED
    BY <1>1, <1>7, <2>1, SameLists, IdleInv DEF Inv, TypeOK, LeaveScanned
<1>8. CASE LowerSwitch
  <2>. DEFINE names == <<Declared("switch", 1, FALSE, "given", FALSE)>>
  <2>1. at \in Modules
    BY <1>8 DEF LowerSwitch, InLoop
  <2>2. names \in Seq(NameType) /\ Len(names) = 1
    <3>. DEFINE x == Declared("switch", 1, FALSE, "given", FALSE)
    <3>1. x \in NameType
      BY DeclaredType DEF BodySorts, TypeStates
    <3>. HIDE DEF x
    <3>2. <<x>> \in Seq(NameType) /\ Len(<<x>>) = 1
      BY <3>1
    <3>. QED
      BY <3>2 DEF x
  <2>3. cand' = Grown(at, names)
    BY <1>8 DEF LowerSwitch
  <2>. HIDE DEF names
  <2>4. /\ Grown(at, names) \in [Modules -> Seq(NameType)]
        /\ Grown(at, names)[at] = cand[at] \o names
    BY <1>1, <2>1, <2>2, GrownType
  <2>5. Len(cand[at] \o names) = Len(cand[at]) + 1
    <3>1. cand[at] \in Seq(NameType)
      BY <1>1, <2>1
    <3>2. ASSUME NEW s \in Seq(NameType), NEW t \in Seq(NameType)
          PROVE  Len(s \o t) = Len(s) + Len(t)
      BY ConcatProperties
    <3>. QED
      BY <2>2, <3>1, <3>2
  <2>6. ASSUME NEW m \in Modules
        PROVE  Len(cand[m]) <= Len(cand'[m])
    <3>1. CASE m = at
      BY <1>2, <2>3, <2>4, <2>5, <3>1
    <3>2. CASE m # at
      <4>1. cand'[m] = cand[m]
        BY <1>1, <2>3, <3>2 DEF Grown
      <4>. QED
        BY <1>2, <4>1
    <3>. QED
      BY <3>1, <3>2
  <2>7. memo' = memo /\ stack' = stack /\ lowered' \in [Modules -> Nat]
    BY <1>1, <1>3, <1>8, <2>1 DEF LowerSwitch, TypeOK
  <2>. QED
    BY <1>1, <1>8, <2>3, <2>4, <2>6, <2>7, IdleInv
       DEF Inv, TypeOK, LowerSwitch, Grows
<1>9. CASE LeaveSwitches
  <2>1. cand' = cand /\ memo' = memo /\ stack' = stack /\ at' \in Nat
    BY <1>1, <1>3, <1>9 DEF LeaveSwitches, TypeOK
  <2>. QED
    BY <1>1, <1>9, <2>1, SameLists, IdleInv DEF Inv, TypeOK, LeaveSwitches
<1>10. CASE CheckDeclaration
  <2>1. PICK d \in round :
          /\ round' = round \ {d}
          /\ checked' = [checked EXCEPT ![at] =
                            checked[at] \cup {d} \cup Methods(at, d)]
    BY <1>10 DEF CheckDeclaration
  <2>2. at \in Modules /\ d \in Nat
    BY <1>1, <1>10, <2>1 DEF CheckDeclaration, InLoop, TypeOK
  <2>3. checked[at] \cup {d} \cup Methods(at, d) \subseteq Nat
    BY <1>1, <1>2, <2>2 DEF TypeOK
  <2>4. checked' \in [Modules -> SUBSET Nat] /\ round' \subseteq Nat
    BY <1>1, <2>1, <2>2, <2>3 DEF TypeOK
  <2>5. cand' = cand /\ memo' = memo /\ stack' = stack
    BY <1>10 DEF CheckDeclaration
  <2>. QED
    BY <1>1, <1>10, <2>4, <2>5, SameLists, IdleInv
       DEF Inv, TypeOK, CheckDeclaration
<1>11. CASE LeaveChecked
  <2>1. round' \subseteq Nat
    <3>1. at \in Modules
      BY <1>11 DEF LeaveChecked, InLoop
    <3>2. at # NumModules => at + 1 \in Modules
      BY <1>3, <3>1 DEF Modules
    <3>. QED
      BY <1>2, <1>11, <3>2 DEF LeaveChecked
  <2>2. cand' = cand /\ memo' = memo /\ stack' = stack /\ at' \in Nat
    BY <1>1, <1>3, <1>11 DEF LeaveChecked, TypeOK
  <2>. QED
    BY <1>1, <1>11, <2>1, <2>2, SameLists, IdleInv DEF Inv, TypeOK, LeaveChecked
<1>12. CASE NextLoop
  <2>1. /\ cand' = cand /\ memo' = memo /\ stack' = stack
        /\ UNCHANGED <<mark, walking, subject, named, lowered, checked>>
    BY <1>12 DEF NextLoop
  <2>2. 1 \in Modules
    BY <1>3 DEF Modules
  <2>3. ASSUME NEW p \in Phases, Begin(p)
        PROVE  /\ phase' \in Phases /\ at' \in Nat /\ grew' \in BOOLEAN
               /\ free' \in BOOLEAN /\ round' \subseteq Nat
    BY <1>2, <2>2, <2>3 DEF Begin
  <2>4. /\ "collect" \in Phases /\ "implicit" \in Phases /\ "infer" \in Phases
        /\ "switch" \in Phases /\ "check" \in Phases /\ "recheck" \in Phases
        /\ "done" \in Phases
    BY DEF Phases, EarlyPhases
  <2>5. /\ phase' \in Phases /\ at' \in Nat /\ grew' \in BOOLEAN
        /\ free' \in BOOLEAN /\ round' \subseteq Nat
    <3>1. CASE phase = "collect"
      <4>1. phase' = "implicit" /\ at' = 1 /\ UNCHANGED <<grew, free, round>>
        BY <1>12, <3>1 DEF NextLoop
      <4>. QED
        BY <1>1, <2>4, <4>1 DEF TypeOK
    <3>2. CASE phase = "infer"
      <4>1. phase' = "switch" /\ at' = 1 /\ free' = TRUE /\ UNCHANGED <<grew, round>>
        BY <1>12, <3>2 DEF NextLoop
      <4>. QED
        BY <1>1, <2>4, <4>1 DEF TypeOK
    <3>3. CASE phase \notin {"collect", "infer"}
      <4>1. \E p \in {"collect", "infer", "check", "recheck", "done"} : Begin(p)
        BY <1>12, <3>3 DEF NextLoop
      <4>. QED
        BY <2>3, <2>4, <4>1
    <3>. QED
      BY <3>1, <3>2, <3>3
  <2>. QED
    BY <1>1, <2>1, <2>5, SameLists, IdleInv DEF Inv, TypeOK
<1>13. CASE UNCHANGED vars
  <2>1. cand' = cand /\ memo' = memo /\ stack' = stack
    BY <1>13 DEF vars
  <2>. QED
    BY <1>1, <1>13, <2>1, SameLists, IdleInv DEF Inv, TypeOK, vars
<1>. QED
  BY <1>4, <1>5, <1>6, <1>7, <1>8, <1>9, <1>10, <1>11, <1>12, <1>13

\* The invariant holds when the phase starts.
LEMMA InitInv == Init => Inv
<1>. SUFFICES ASSUME Init
              PROVE  Inv
  OBVIOUS
<1>1. TypeOK
  BY InitTypeOK
<1>2. stack \in Seq(Frames)
  BY DEF Init
<1>3. ASSUME NEW k \in Keys
      PROVE  memo[k] <= Len(cand[HostOf[k]])
  <2>1. memo[k] = 0 /\ HostOf[k] \in Modules
    BY KeysAssumption DEF Init
  <2>2. Len(cand[HostOf[k]]) \in Nat
    BY <1>1, <2>1, CountType DEF TypeOK
  <2>. QED
    BY <2>1, <2>2
<1>. QED
  BY <1>1, <1>2, <1>3 DEF Inv

\* And every step of the phase keeps it.
LEMMA NextInv == Inv /\ [Next]_vars => Inv'
BY WalkInv, InstantiateInv, FinishSignatureInv, LoopInv DEF Next, Finished

\* The type invariant, for any number of modules and any instantiations: every
\* list TypeCollector keeps holds what it should, whatever is cloned meanwhile.
THEOREM TypeCorrect == Spec => []TypeOK
<1>1. Inv => TypeOK
  BY DEF Inv
<1>. QED
  BY <1>1, InitInv, NextInv, PTL DEF Spec

-----------------------------------------------------------------------------
(* One walk per module.                                                    *)

\* The walks among the frames of a stack, and what OneWalkPerModule says of a
\* stack and the set of modules that are walked.
WalksOf(s) == {i \in DOMAIN s : s[i].op = "walk"}
OneWalk(s, w) ==
    /\ \A i, j \in WalksOf(s) : s[i].mod = s[j].mod => i = j
    /\ w = {s[i].mod : i \in WalksOf(s)}

\* Pushing a frame shifts the ones below it.
LEMMA PushIndex ==
    ASSUME NEW s \in Seq(FrameType), NEW f \in FrameType
    PROVE  /\ DOMAIN (<<f>> \o s) = 1 .. Len(s) + 1
           /\ DOMAIN s = 1 .. Len(s) /\ Len(s) \in Nat
           /\ (<<f>> \o s)[1] = f
           /\ \A i \in 1 .. Len(s) : (<<f>> \o s)[i + 1] = s[i]
OBVIOUS

\* A call stack is its top frame and the ones below.
LEMMA StackTop ==
    ASSUME stack \in Seq(FrameType), stack # <<>>
    PROVE  /\ Top \in FrameType /\ Tail(stack) \in Seq(FrameType)
           /\ stack = <<Top>> \o Tail(stack)
BY DEF Top

\* A signature on top of the stack walks nothing.
LEMMA PushSign ==
    ASSUME NEW s \in Seq(FrameType), NEW f \in FrameType, NEW w, f.op # "walk"
    PROVE  OneWalk(<<f>> \o s, w) <=> OneWalk(s, w)
<1>. DEFINE t == <<f>> \o s
<1>1. /\ DOMAIN t = 1 .. Len(s) + 1 /\ DOMAIN s = 1 .. Len(s) /\ Len(s) \in Nat
      /\ t[1] = f /\ \A i \in 1 .. Len(s) : t[i + 1] = s[i]
  BY PushIndex
<1>. HIDE DEF t
<1>2. WalksOf(t) = {i + 1 : i \in WalksOf(s)}
  <2>1. ASSUME NEW i \in WalksOf(t)
        PROVE  i - 1 \in WalksOf(s) /\ i = (i - 1) + 1
    <3>1. i \in 1 .. Len(s) + 1 /\ t[i].op = "walk" /\ i # 1
      BY <1>1 DEF WalksOf
    <3>2. i - 1 \in 1 .. Len(s) /\ i = (i - 1) + 1
      BY <1>1, <3>1
    <3>. QED
      BY <1>1, <3>1, <3>2 DEF WalksOf
  <2>2. ASSUME NEW i \in WalksOf(s)
        PROVE  i + 1 \in WalksOf(t)
    BY <1>1 DEF WalksOf
  <2>. QED
    BY <2>1, <2>2
<1>3. \A i \in WalksOf(s) : i \in Nat /\ t[i + 1] = s[i]
  BY <1>1 DEF WalksOf
<1>4. {t[i].mod : i \in WalksOf(t)} = {s[i].mod : i \in WalksOf(s)}
  BY <1>2, <1>3
<1>5. (\A i, j \in WalksOf(t) : t[i].mod = t[j].mod => i = j)
        <=> (\A i, j \in WalksOf(s) : s[i].mod = s[j].mod => i = j)
  <2>1. ASSUME \A i, j \in WalksOf(t) : t[i].mod = t[j].mod => i = j,
               NEW i \in WalksOf(s), NEW j \in WalksOf(s), s[i].mod = s[j].mod
        PROVE  i = j
    <3>1. i + 1 \in WalksOf(t) /\ j + 1 \in WalksOf(t)
      BY <1>2
    <3>2. i + 1 = j + 1
      BY <1>3, <2>1, <3>1
    <3>. QED
      BY <1>3, <3>2
  <2>2. ASSUME \A i, j \in WalksOf(s) : s[i].mod = s[j].mod => i = j,
               NEW i \in WalksOf(t), NEW j \in WalksOf(t), t[i].mod = t[j].mod
        PROVE  i = j
    <3>1. PICK a \in WalksOf(s), b \in WalksOf(s) : i = a + 1 /\ j = b + 1
      BY <1>2
    <3>. QED
      BY <1>3, <2>2, <3>1
  <2>. QED
    BY <2>1, <2>2
<1>. QED
  BY <1>4, <1>5 DEF OneWalk, t

\* A walk on top of the stack walks one module more, which none below walks.
LEMMA PushWalk ==
    ASSUME NEW s \in Seq(FrameType), NEW f \in FrameType, NEW w, f.op = "walk"
    PROVE  /\ OneWalk(s, w) /\ f.mod \notin w
                => OneWalk(<<f>> \o s, w \cup {f.mod})
           /\ OneWalk(<<f>> \o s, w) => f.mod \in w /\ OneWalk(s, w \ {f.mod})
<1>. DEFINE t == <<f>> \o s
<1>1. /\ DOMAIN t = 1 .. Len(s) + 1 /\ DOMAIN s = 1 .. Len(s) /\ Len(s) \in Nat
      /\ t[1] = f /\ \A i \in 1 .. Len(s) : t[i + 1] = s[i]
  BY PushIndex
<1>. HIDE DEF t
<1>2. WalksOf(t) = {1} \cup {i + 1 : i \in WalksOf(s)}
  <2>1. ASSUME NEW i \in WalksOf(t), i # 1
        PROVE  i - 1 \in WalksOf(s) /\ i = (i - 1) + 1
    <3>1. i \in 1 .. Len(s) + 1 /\ t[i].op = "walk"
      BY <1>1 DEF WalksOf
    <3>2. i - 1 \in 1 .. Len(s) /\ i = (i - 1) + 1
      BY <1>1, <2>1, <3>1
    <3>. QED
      BY <1>1, <3>1, <3>2 DEF WalksOf
  <2>2. ASSUME NEW i \in WalksOf(s)
        PROVE  i + 1 \in WalksOf(t)
    BY <1>1 DEF WalksOf
  <2>3. 1 \in WalksOf(t)
    BY <1>1 DEF WalksOf
  <2>. QED
    BY <2>1, <2>2, <2>3
<1>3. \A i \in WalksOf(s) : i \in Nat /\ i > 0 /\ t[i + 1] = s[i]
  BY <1>1 DEF WalksOf
<1>4. {t[i].mod : i \in WalksOf(t)} = {f.mod} \cup {s[i].mod : i \in WalksOf(s)}
  BY <1>1, <1>2, <1>3
<1>5. ASSUME OneWalk(s, w), f.mod \notin w
      PROVE  OneWalk(t, w \cup {f.mod})
  <2>1. ASSUME NEW i \in WalksOf(t), NEW j \in WalksOf(t), t[i].mod = t[j].mod
        PROVE  i = j
    <3>1. \A a \in WalksOf(s) : t[a + 1].mod \in w /\ t[1].mod \notin w
      BY <1>1, <1>3, <1>5 DEF OneWalk
    <3>2. \A a, b \in WalksOf(s) : t[a + 1].mod = t[b + 1].mod => a = b
      BY <1>3, <1>5 DEF OneWalk
    <3>. QED
      BY <1>2, <2>1, <3>1, <3>2
  <2>. QED
    BY <1>4, <1>5, <2>1 DEF OneWalk
<1>6. ASSUME OneWalk(t, w)
      PROVE  f.mod \in w /\ OneWalk(s, w \ {f.mod})
  <2>1. \A i \in WalksOf(s) : i + 1 \in WalksOf(t) /\ i + 1 # 1
    BY <1>2, <1>3
  <2>2. \A i \in WalksOf(s) : s[i].mod # f.mod
    BY <1>1, <1>2, <1>3, <1>6, <2>1 DEF OneWalk
  <2>3. ASSUME NEW i \in WalksOf(s), NEW j \in WalksOf(s), s[i].mod = s[j].mod
        PROVE  i = j
    <3>1. i + 1 = j + 1
      BY <1>3, <1>6, <2>1, <2>3 DEF OneWalk
    <3>. QED
      BY <1>3, <3>1
  <2>4. w = {f.mod} \cup {s[i].mod : i \in WalksOf(s)}
    BY <1>4, <1>6 DEF OneWalk
  <2>5. w \ {f.mod} = {s[i].mod : i \in WalksOf(s)}
    BY <2>2, <2>4
  <2>6. OneWalk(s, w \ {f.mod})
    <3>. DEFINE v == w \ {f.mod}
    <3>1. v = {s[i].mod : i \in WalksOf(s)}
      BY <2>5
    <3>. HIDE DEF v
    <3>2. OneWalk(s, v)
      BY <2>3, <3>1 DEF OneWalk
    <3>. QED
      BY <3>2 DEF v
  <2>. QED
    BY <2>4, <2>6
<1>. QED
  BY <1>5, <1>6 DEF t

\* Replacing the frame on top by one of the same kind and module walks the same
\* modules.
LEMMA SwapTop ==
    ASSUME stack \in Seq(FrameType), stack # <<>>, NEW f \in FrameType, NEW w,
           f.op = Top.op, f.mod = Top.mod, OneWalk(stack, w)
    PROVE  OneWalk(<<f>> \o Tail(stack), w)
<1>1. /\ Top \in FrameType /\ Tail(stack) \in Seq(FrameType)
      /\ stack = <<Top>> \o Tail(stack)
  BY StackTop
<1>. DEFINE s == Tail(stack)
<1>2. OneWalk(<<Top>> \o s, w) /\ s \in Seq(FrameType)
  BY <1>1
<1>. HIDE DEF s
<1>3. CASE Top.op = "walk"
  <2>1. Top.mod \in w /\ OneWalk(s, w \ {Top.mod})
    BY <1>1, <1>2, <1>3, PushWalk
  <2>2. OneWalk(<<f>> \o s, (w \ {Top.mod}) \cup {Top.mod})
    BY <1>2, <1>3, <2>1, PushWalk
  <2>3. (w \ {Top.mod}) \cup {Top.mod} = w
    BY <2>1
  <2>. QED
    BY <2>2, <2>3 DEF s
<1>4. CASE Top.op # "walk"
  <2>1. OneWalk(s, w)
    BY <1>1, <1>2, <1>4, PushSign
  <2>2. OneWalk(<<f>> \o s, w)
    BY <1>2, <1>4, <2>1, PushSign
  <2>. QED
    BY <2>2 DEF s
<1>. QED
  BY <1>3, <1>4

\* A walk begins in a module nobody walks.
LEMMA BeginOneWalk ==
    ASSUME TypeOK, NEW below \in Seq(FrameType), NEW m \in Modules,
           NEW pass \in Passes, NEW nested \in BOOLEAN, NEW held \in SubjectType,
           OneWalk(below, walking), m \notin walking,
           BeginWalk(below, m, pass, nested, held)
    PROVE  OneWalk(stack', walking')
<1>. DEFINE f == WalkFrame(m, pass, nested, held)
<1>1. f \in FrameType
  <2>1. Count(m) \in Nat /\ DOMAIN cand[m] \subseteq Nat
    BY CountType DEF TypeOK
  <2>. QED
    BY <2>1 DEF WalkFrame, FrameType, NoCandidate
<1>2. f.op = "walk" /\ f.mod = m
  BY DEF WalkFrame
<1>3. stack' = <<f>> \o below /\ walking' = walking \cup {m}
  BY DEF BeginWalk
<1>. HIDE DEF f
<1>. QED
  BY <1>1, <1>2, <1>3, PushWalk

\* Every step keeps one walk per module, whichever frame it pushes or pops.
LEMMA WalkingStep ==
    Inv /\ OneWalk(stack, walking) /\ [Next]_vars => OneWalk(stack', walking')
<1>. SUFFICES ASSUME Inv, OneWalk(stack, walking), [Next]_vars
              PROVE  OneWalk(stack', walking')
  OBVIOUS
<1>1. TypeOK /\ stack \in Seq(FrameType)
  BY DEF Inv, TypeOK
<1>2. stack # <<>> => /\ Top \in FrameType /\ Tail(stack) \in Seq(FrameType)
                      /\ Top.mod \in Modules /\ Top.held \in SubjectType
                      /\ stack = <<Top>> \o Tail(stack)
  BY <1>1, StackTop DEF FrameType
<1>3. ASSUME stack # <<>>, walking' = walking,
             \E f \in FrameType : /\ f.op = Top.op /\ f.mod = Top.mod
                                 /\ stack' = <<f>> \o Tail(stack)
      PROVE  OneWalk(stack', walking')
  BY <1>1, <1>3, SwapTop
<1>4. CASE TakeCandidate \/ FinishLate \/ FinishWritten \/ FinishInferred
           \/ LowerLoop \/ NextRound
  <2>1. stack # <<>> /\ walking' = walking
    BY <1>4, Zenon DEF TakeCandidate, FinishLate, FinishWritten, FinishInferred,
                LowerLoop, NextRound, RoundIsOver, Typing, Working
  <2>2. stack' \in Seq(FrameType)
    <3>1. Inv'
      BY NextInv
    <3>. QED
      BY <3>1 DEF Inv, TypeOK
  <2>3. \E f : /\ f.op = Top.op /\ f.mod = Top.mod
               /\ stack' = <<f>> \o Tail(stack)
    <3>1. CASE TakeCandidate
      <4>1. PICK c \in Top.todo :
              SetTop([Top EXCEPT !.cand = c, !.todo = @ \ {c}, !.asked = FALSE,
                                 !.step = IF IsLate(Top, c) THEN "late" ELSE "main"])
        BY <3>1 DEF TakeCandidate
      <4>. DEFINE f == [Top EXCEPT !.cand = c, !.todo = @ \ {c}, !.asked = FALSE,
                          !.step = IF IsLate(Top, c) THEN "late" ELSE "main"]
      <4>2. f.op = Top.op /\ f.mod = Top.mod
        BY <1>2, <2>1 DEF FrameType
      <4>3. stack' = <<f>> \o Tail(stack)
        BY <4>1 DEF SetTop
      <4>. HIDE DEF f
      <4>. QED
        BY <4>2, <4>3
    <3>2. CASE FinishLate
      <4>. DEFINE f == [Top EXCEPT !.step = "main", !.asked = FALSE]
      <4>1. f.op = Top.op /\ f.mod = Top.mod
        BY <1>2, <2>1 DEF FrameType
      <4>2. stack' = <<f>> \o Tail(stack)
        BY <3>2 DEF FinishLate, SetTop
      <4>. HIDE DEF f
      <4>. QED
        BY <4>1, <4>2
    <3>3. CASE FinishWritten \/ FinishInferred \/ LowerLoop
      <4>. DEFINE f == [Top EXCEPT !.cand = NoCandidate, !.worked = TRUE]
      <4>1. f.op = Top.op /\ f.mod = Top.mod
        BY <1>2, <2>1 DEF FrameType
      <4>2. stack' = <<f>> \o Tail(stack)
        BY <3>3 DEF FinishWritten, FinishInferred, LowerLoop, SetTop
      <4>. HIDE DEF f
      <4>. QED
        BY <4>1, <4>2
    <3>4. CASE NextRound
      <4>. DEFINE f == [Top EXCEPT !.todo = {c \in DOMAIN cand[Top.mod] : c >= Top.count},
                               !.count = Count(Top.mod)]
      <4>1. f.op = Top.op /\ f.mod = Top.mod
        BY <1>2, <2>1 DEF FrameType
      <4>2. stack' = <<f>> \o Tail(stack)
        BY <3>4 DEF NextRound, SetTop
      <4>. HIDE DEF f
      <4>. QED
        BY <4>1, <4>2
    <3>. QED
      BY <1>4, <3>1, <3>2, <3>3, <3>4
  <2>4. ASSUME NEW f, f.op = Top.op, f.mod = Top.mod, stack' = <<f>> \o Tail(stack)
        PROVE  f \in FrameType
    <3>1. stack' # <<>> /\ stack'[1] = f
      BY <1>2, <2>1, <2>4
    <3>. QED
      BY <2>2, <3>1
  <2>. QED
    BY <1>3, <2>1, <2>3, <2>4
<1>5. CASE FinishWalk
  <2>1. /\ stack # <<>> /\ Top.op = "walk"
        /\ stack' = Tail(stack) /\ walking' = walking \ {Top.mod}
    BY <1>5 DEF FinishWalk, RoundIsOver, Working
  <2>. DEFINE s == Tail(stack)
  <2>2. s \in Seq(FrameType) /\ Top \in FrameType /\ OneWalk(<<Top>> \o s, walking)
    BY <1>2, <2>1
  <2>. HIDE DEF s
  <2>3. OneWalk(s, walking \ {Top.mod})
    BY <2>1, <2>2, PushWalk
  <2>. QED
    BY <2>1, <2>3 DEF s
<1>6. ASSUME NEW k \in Keys, Instantiate(k)
      PROVE  OneWalk(stack', walking')
  <2>1. OneWalk(Asked, walking)
    <3>1. CASE stack = <<>>
      BY <3>1 DEF Asked
    <3>2. CASE stack # <<>>
      <4>. DEFINE f == [Top EXCEPT !.asked = TRUE]
      <4>1. f \in FrameType /\ f.op = Top.op /\ f.mod = Top.mod
        BY <1>2, <3>2 DEF FrameType
      <4>2. Asked = <<f>> \o Tail(stack)
        BY <3>2 DEF Asked
      <4>. HIDE DEF f
      <4>. QED
        BY <1>1, <3>2, <4>1, <4>2, SwapTop
    <3>. QED
      BY <3>1, <3>2
  <2>2. PICK m, c, fresh : stack' = <<SignFrame(m, c, fresh)>> \o Asked
    BY <1>6, ZenonT(60) DEF Instantiate
  <2>. DEFINE f == SignFrame(m, c, fresh)
  <2>3. f.op = "sign"
    BY DEF SignFrame
  <2>. HIDE DEF f
  <2>4. stack' = <<f>> \o Asked /\ walking' = walking
    BY <1>6, <2>2, ZenonT(60) DEF Instantiate, f
  <2>5. Asked \in Seq(FrameType)
    <3>1. CASE stack = <<>>
      BY <3>1 DEF Asked
    <3>2. CASE stack # <<>>
      <4>. DEFINE g == [Top EXCEPT !.asked = TRUE]
      <4>1. g \in FrameType
        BY <1>2, <3>2, FrameUpdates, Zenon
      <4>2. Asked = <<g>> \o Tail(stack)
        BY <3>2 DEF Asked
      <4>. HIDE DEF g
      <4>. QED
        BY <1>2, <3>2, <4>1, <4>2, SeqPush
    <3>. QED
      BY <3>1, <3>2
  <2>6. f \in FrameType
    <3>1. stack' \in Seq(FrameType)
      <4>1. Inv'
        BY NextInv
      <4>. QED
        BY <4>1 DEF Inv, TypeOK
    <3>2. stack' # <<>> /\ stack'[1] = f
      BY <2>4, <2>5
    <3>. QED
      BY <3>1, <3>2
  <2>. QED
    BY <2>1, <2>3, <2>4, <2>5, <2>6, PushSign
<1>7. CASE FinishSignature
  <2>1. stack # <<>> /\ Top.op = "sign" /\ CatchUp(Tail(stack), Top.mod, Top.held)
    BY <1>7 DEF FinishSignature, Working
  <2>. DEFINE s == Tail(stack)
  <2>2. /\ s \in Seq(FrameType) /\ Top \in FrameType /\ OneWalk(<<Top>> \o s, walking)
        /\ CatchUp(s, Top.mod, Top.held)
    BY <1>2, <2>1
  <2>. HIDE DEF s
  <2>3. OneWalk(s, walking)
    BY <2>1, <2>2, PushSign
  <2>4. CASE Top.mod \in walking \/ ~Pending(Top.mod, CatchUpPass(Top.mod))
    BY <2>2, <2>3, <2>4 DEF CatchUp
  <2>5. CASE ~(Top.mod \in walking \/ ~Pending(Top.mod, CatchUpPass(Top.mod)))
    <3>1. BeginWalk(s, Top.mod, CatchUpPass(Top.mod), TRUE, Top.held)
      BY <2>2, <2>5 DEF CatchUp
    <3>2. CatchUpPass(Top.mod) \in Passes
      BY DEF CatchUpPass, Passes
    <3>. QED
      BY <1>1, <1>2, <2>1, <2>2, <2>3, <2>5, <3>1, <3>2, BeginOneWalk
  <2>. QED
    BY <2>4, <2>5
<1>8. CASE WalkModule
  <2>1. /\ stack = <<>> /\ at \in Modules /\ PassOfLoop \in Passes
        /\ BeginWalk(<<>>, at, PassOfLoop, FALSE, subject)
    BY <1>8 DEF WalkModule, Idle, PassOfLoop, Passes
  <2>2. walking = {} /\ subject \in SubjectType /\ <<>> \in Seq(FrameType)
    BY <1>1, <2>1 DEF OneWalk, WalksOf, TypeOK
  <2>. QED
    BY <1>1, <2>1, <2>2, BeginOneWalk
<1>9. CASE NothingToWalk \/ ScanDeclaration \/ LeaveScanned \/ LowerSwitch
           \/ LeaveSwitches \/ CheckDeclaration \/ LeaveChecked \/ NextLoop
           \/ UNCHANGED vars
  <2>1. stack' = stack /\ walking' = walking
    BY <1>9 DEF NothingToWalk, ScanDeclaration, LeaveScanned, LowerSwitch,
                LeaveSwitches, CheckDeclaration, LeaveChecked, NextLoop, vars
  <2>. QED
    BY <2>1
<1>. QED
  BY <1>4, <1>5, <1>6, <1>7, <1>8, <1>9 DEF Next, Finished

\* However deep instantiations nest, and whatever modules they come from, no
\* module is walked by two frames of the call stack: catch_up steps aside.
THEOREM WalksOnce == Spec => []OneWalkPerModule
<1>1. OneWalkPerModule <=> OneWalk(stack, walking)
  BY DEF OneWalkPerModule, OneWalk, Walks, WalksOf
<1>2. Init => OneWalkPerModule
  BY <1>1 DEF Init, OneWalk, WalksOf
<1>3. Inv /\ OneWalkPerModule /\ [Next]_vars => OneWalkPerModule'
  <2>1. OneWalkPerModule' <=> OneWalk(stack', walking')
    BY DEF OneWalkPerModule, OneWalk, Walks, WalksOf
  <2>. QED
    BY <1>1, <2>1, WalkingStep
<1>. QED
  BY <1>2, <1>3, InitInv, NextInv, PTL DEF Spec

-----------------------------------------------------------------------------
(* The passes: which names each has been through.                          *)

\* the frames of a stack, whatever their order
FramesOf(s) == {s[i] : i \in DOMAIN s}
WalksIn(s) == {f \in FramesOf(s) : f.op = "walk"}

\* the names a walk has been through
Through(f, c) == c < f.count /\ c \notin f.todo /\ c # f.cand

Once(done) == IF done THEN 1 ELSE 0

\* What a walk has done to the list of its module, w and i being the marks of
\* the written and of the inferred pass: it has been once through the names it
\* is past, and the written pass is never in a module that inference was in.
Reading(list, w, i, f) ==
    /\ f.count <= Len(list) + 1 /\ w <= f.count /\ i <= f.count
    /\ f.step \in {"main", "late"}
    /\ f.pass = "written" => i = 0 /\ f.step = "main"
    /\ f.cand # NoCandidate /\ f.step = "late" => f.cand > w
    /\ \A c \in f.todo \cup {f.cand} :
          c # NoCandidate =>
              /\ c < f.count
              /\ c >= (IF f.pass = "written" THEN w ELSE i)
    /\ f.cand \notin f.todo /\ NoCandidate \notin f.todo
    /\ \A c \in DOMAIN list :
          /\ list[c].gave = Once(f.pass = "inferred" /\ Through(f, c))
          /\ list[c].wrote =
                Once(IF f.pass = "written" THEN Through(f, c)
                     ELSE \/ c < w
                          \/ /\ c > w
                             /\ \/ Through(f, c)
                                \/ c = f.cand /\ f.step = "main")
          /\ list[c].built <= list[c].wrote

\* What the passes have done to a list that no walk is in.
AtRest(list, w, i) ==
    /\ w <= Len(list) + 1 /\ i <= Len(list) + 1
    /\ \A c \in DOMAIN list :
          /\ list[c].gave = Once(c < i)
          /\ list[c].wrote = Once(c < w \/ (c > w /\ c < i))
          /\ list[c].built <= list[c].wrote

\* Every walk of the stack S has done to the list of its module what it should,
\* and the passes have to the lists of the modules that K does not walk.
PassingIn(C, M, S, K) ==
    /\ \A f \in WalksIn(S) :
          Reading(C[f.mod], M["written"][f.mod], M["inferred"][f.mod], f)
    /\ \A m \in Modules \ K : AtRest(C[m], M["written"][m], M["inferred"][m])
Passing == PassingIn(cand, mark, stack, walking)

\* Nothing is inferred before the names are there that assigning declares.
AllWritten(S) == \A f \in WalksIn(S) : f.pass = "written"
NotYetInferred ==
    phase \in EarlyPhases =>
        (\A m \in Modules : mark["inferred"][m] = 0) /\ AllWritten(stack)

\* The subject a walk needs, and the one that is there when it is on top: the
\* collector's, or what the frame above it holds.
Suits(s, f) ==
    f.op = "walk" => s.mod = f.mod /\ s.scopes = f.mod /\ f.count <= s.upto
SuitsStack(s, S) ==
    /\ S # <<>> => Suits(s, S[1])
    /\ \A i \in 1 .. Len(S) - 1 : Suits(S[i].held, S[i + 1]) /\ S[i].nested
SubjectsSuit == SuitsStack(subject, stack)

\* A type that inference gave was given by the inferred pass, and a name that
\* pass has been through has a type.
Given(n) == /\ n.type = "inferred" => n.gave > 0
            /\ n.gave > 0 => n.type # "none"
            /\ n.wrote > 0 /\ n.sort = "class" => n.super
TypesGiven == \A m \in Modules : \A c \in DOMAIN cand[m] : Given(cand[m][c])

-----------------------------------------------------------------------------
(* Lists: what a step on a list does to what the passes have done to it.   *)

\* No pass has moved: the names that were there are where they were, and what
\* is new has been through none.
Quiet(list, new) ==
    /\ Len(list) <= Len(new)
    /\ \A c \in DOMAIN list : /\ new[c].wrote = list[c].wrote
                              /\ new[c].gave = list[c].gave
                              /\ new[c].built = list[c].built
    /\ \A c \in DOMAIN new \ DOMAIN list :
          new[c].wrote = 0 /\ new[c].gave = 0 /\ new[c].built = 0

\* A list is indexed by naturals from one.
LEMMA ListIndex ==
    ASSUME NEW list \in Seq(NameType)
    PROVE  /\ Len(list) \in Nat /\ DOMAIN list = 1 .. Len(list)
           /\ \A c \in DOMAIN list : /\ c \in Nat /\ c # 0 /\ c < Len(list) + 1
                                     /\ list[c] \in NameType
                                     /\ list[c].wrote \in Nat
                                     /\ list[c].gave \in Nat
                                     /\ list[c].built \in Nat
<1>1. Len(list) \in Nat /\ DOMAIN list = 1 .. Len(list)
  BY LenProperties
<1>2. ASSUME NEW c \in DOMAIN list
      PROVE  list[c] \in NameType
  BY <1>1
<1>3. \A n \in NameType : n.wrote \in Nat /\ n.gave \in Nat /\ n.built \in Nat
  BY DEF NameType
<1>. QED
  BY <1>1, <1>2, <1>3, SMTT(60)

\* What grew or was typed without a pass changes nothing for the walk in it.
LEMMA QuietReads ==
    ASSUME NEW list \in Seq(NameType), NEW new \in Seq(NameType),
           NEW w \in Nat, NEW i \in Nat, NEW f \in FrameType,
           Quiet(list, new), Reading(list, w, i, f)
    PROVE  Reading(new, w, i, f)
<1>1. /\ Len(list) \in Nat /\ DOMAIN list = 1 .. Len(list)
      /\ Len(new) \in Nat /\ DOMAIN new = 1 .. Len(new)
      /\ Len(list) <= Len(new) /\ f.count \in Nat /\ f.cand \in Nat
  BY ListIndex DEF Quiet, FrameType
<1>2. /\ f.count <= Len(list) + 1 /\ w <= f.count /\ i <= f.count
      /\ f.cand # 0 => f.cand < f.count
  BY DEF Reading, NoCandidate
<1>3. f.count <= Len(new) + 1
  BY <1>1, <1>2
<1>4. ASSUME NEW c \in DOMAIN new
      PROVE  /\ new[c].gave = Once(f.pass = "inferred" /\ Through(f, c))
             /\ new[c].wrote =
                   Once(IF f.pass = "written" THEN Through(f, c)
                        ELSE \/ c < w
                             \/ /\ c > w
                                /\ \/ Through(f, c)
                                   \/ c = f.cand /\ f.step = "main")
             /\ new[c].built <= new[c].wrote
  <2>1. CASE c \in DOMAIN list
    BY <2>1 DEF Quiet, Reading
  <2>2. CASE c \notin DOMAIN list
    <3>1. new[c].wrote = 0 /\ new[c].gave = 0 /\ new[c].built = 0
      BY <2>2 DEF Quiet
    <3>2. c \in Nat /\ c > Len(list)
      BY <1>1, <2>2
    <3>3. ~Through(f, c) /\ ~(c < w) /\ c # f.cand
      BY <1>1, <1>2, <3>2 DEF Through
    <3>. QED
      BY <3>1, <3>3 DEF Once
  <2>. QED
    BY <2>1, <2>2
<1>. QED
  BY <1>3, <1>4 DEF Reading

\* Nor for a list that no walk is in.
LEMMA QuietRests ==
    ASSUME NEW list \in Seq(NameType), NEW new \in Seq(NameType),
           NEW w \in Nat, NEW i \in Nat, Quiet(list, new), AtRest(list, w, i)
    PROVE  AtRest(new, w, i)
<1>1. /\ Len(list) \in Nat /\ DOMAIN list = 1 .. Len(list)
      /\ Len(new) \in Nat /\ DOMAIN new = 1 .. Len(new)
      /\ Len(list) <= Len(new)
  BY ListIndex DEF Quiet
<1>2. w <= Len(list) + 1 /\ i <= Len(list) + 1
  BY DEF AtRest
<1>4. ASSUME NEW c \in DOMAIN new
      PROVE  /\ new[c].gave = Once(c < i)
             /\ new[c].wrote = Once(c < w \/ (c > w /\ c < i))
             /\ new[c].built <= new[c].wrote
  <2>1. CASE c \in DOMAIN list
    BY <2>1 DEF Quiet, AtRest
  <2>2. CASE c \notin DOMAIN list
    <3>1. new[c].wrote = 0 /\ new[c].gave = 0 /\ new[c].built = 0
      BY <2>2 DEF Quiet
    <3>2. ~(c < w) /\ ~(c < i)
      BY <1>1, <1>2, <2>2
    <3>. QED
      BY <3>1, <3>2 DEF Once
  <2>. QED
    BY <2>1, <2>2
<1>5. w <= Len(new) + 1 /\ i <= Len(new) + 1
  BY <1>1, <1>2
<1>. QED
  BY <1>4, <1>5 DEF AtRest

\* A name in hand: the walk is past no more names than before.
LEMMA TakeReads ==
    ASSUME NEW list \in Seq(NameType), NEW w \in Nat, NEW i \in Nat,
           NEW f \in FrameType, NEW c \in f.todo, NEW g \in FrameType,
           f.cand = NoCandidate, Reading(list, w, i, f), c # 0,
           g.count = f.count, g.pass = f.pass, g.cand = c, g.todo = f.todo \ {c},
           g.step = IF f.pass = "inferred" /\ c > w THEN "late" ELSE "main"
    PROVE  Reading(list, w, i, g)
<1>1. /\ g.count = f.count /\ g.pass = f.pass /\ g.cand = c /\ g.todo = f.todo \ {c}
      /\ g.step = IF f.pass = "inferred" /\ c > w THEN "late" ELSE "main"
  OBVIOUS
<1>2. /\ f.count \in Nat /\ c \in Nat /\ f.todo \subseteq Nat
  BY DEF FrameType
<1>3. \A d \in DOMAIN list : Through(g, d) <=> Through(f, d)
  <2>1. \A d \in DOMAIN list : d # 0
    BY ListIndex
  <2>. QED
    BY <1>1, <2>1 DEF Through, NoCandidate
<1>4. ASSUME NEW d \in DOMAIN list
      PROVE  /\ list[d].gave = Once(g.pass = "inferred" /\ Through(g, d))
             /\ list[d].wrote =
                   Once(IF g.pass = "written" THEN Through(g, d)
                        ELSE \/ d < w
                             \/ /\ d > w
                                /\ \/ Through(g, d)
                                   \/ d = g.cand /\ g.step = "main")
             /\ list[d].built <= list[d].wrote
  <2>1. d \in Nat /\ d # 0
    BY ListIndex
  <2>2. /\ list[d].gave = Once(f.pass = "inferred" /\ Through(f, d))
        /\ list[d].wrote =
                   Once(IF f.pass = "written" THEN Through(f, d)
                        ELSE d < w \/ (d > w /\ Through(f, d)))
        /\ list[d].built <= list[d].wrote
    BY <2>1 DEF Reading, NoCandidate
  <2>3. g.pass # "written" /\ d > w /\ d = g.cand => g.step # "main"
    <3>1. f.pass \in {"written", "inferred"}
      BY DEF FrameType, Passes
    <3>. QED
      BY <1>1, <3>1
  <2>. QED
    <3>1. Through(g, d) <=> Through(f, d)
      BY <1>3
    <3>2. g.pass # "written" =>
             ((d > w /\ (Through(g, d) \/ (d = g.cand /\ g.step = "main")))
                <=> (d > w /\ Through(f, d)))
      BY <2>3, <3>1
    <3>3. CASE f.pass = "written"
      BY <1>1, <2>2, <3>1, <3>3 DEF Once
    <3>4. CASE f.pass # "written"
      BY <1>1, <2>2, <3>1, <3>2, <3>4 DEF Once
    <3>. QED
      BY <3>3, <3>4
<1>5. /\ g.step \in {"main", "late"}
      /\ g.pass = "written" => i = 0 /\ g.step = "main"
      /\ g.step = "late" => g.cand > w
      /\ g.cand \notin g.todo /\ NoCandidate \notin g.todo
      /\ \A d \in g.todo \cup {g.cand} : d \in f.todo
  BY <1>1 DEF Reading
<1>6. \A d \in g.todo \cup {g.cand} : d # NoCandidate =>
              /\ d < g.count
              /\ d >= (IF g.pass = "written" THEN w ELSE i)
  BY <1>1, <1>5 DEF Reading
<1>7. g.count <= Len(list) + 1 /\ w <= g.count /\ i <= g.count
  BY <1>1 DEF Reading
<1>. QED
  BY <1>4, <1>5, <1>6, <1>7 DEF Reading

\* A late name gets its written type, and then its inferred one.
LEMMA LateReads ==
    ASSUME NEW list \in Seq(NameType), NEW w \in Nat, NEW i \in Nat,
           NEW f \in FrameType, NEW g \in FrameType,
           f.cand # NoCandidate, f.step = "late", Reading(list, w, i, f),
           g.count = f.count, g.pass = f.pass, g.cand = f.cand, g.todo = f.todo,
           g.step = "main"
    PROVE  Reading([list EXCEPT ![f.cand] = Wrote(@)], w, i, g)
<1>. DEFINE new == [list EXCEPT ![f.cand] = Wrote(@)]
<1>1. /\ g.count = f.count /\ g.pass = f.pass /\ g.cand = f.cand
      /\ g.todo = f.todo /\ g.step = "main"
  OBVIOUS
<1>2. /\ Len(new) = Len(list) /\ DOMAIN new = DOMAIN list
      /\ \A d \in DOMAIN list :
            new[d] = IF d = f.cand THEN Wrote(list[d]) ELSE list[d]
  <2>1. f.cand \in DOMAIN list => Wrote(list[f.cand]) \in NameType
    BY ListIndex, PassType
  <2>2. /\ Len(list) \in Nat /\ DOMAIN list = 1 .. Len(list) /\ DOMAIN new = DOMAIN list
        /\ Len(new) = Len(list)
    BY <2>1, ListIndex, SeqExcept
  <2>. QED
    BY <2>2
<1>3. f.pass = "inferred" /\ f.cand > w /\ w \in Nat /\ f.cand \in Nat
  BY DEF Reading, FrameType, Passes
<1>4. \A d \in DOMAIN list : Through(g, d) <=> Through(f, d)
  BY <1>1 DEF Through
<1>. HIDE DEF new
<1>5. ASSUME NEW d \in DOMAIN new
      PROVE  /\ new[d].gave = Once(Through(g, d))
             /\ new[d].wrote = Once(d < w \/ (d > w /\ (Through(g, d) \/ d = g.cand)))
             /\ new[d].built <= new[d].wrote
  <2>1. /\ d \in Nat /\ d # 0 /\ list[d] \in NameType /\ list[d].built \in Nat
        /\ d \in DOMAIN list
    BY <1>2, ListIndex
  <2>2. /\ list[d].gave = Once(Through(f, d))
        /\ list[d].wrote = Once(d < w \/ (d > w /\ Through(f, d)))
        /\ list[d].built <= list[d].wrote
    <3>1. f.pass # "written" /\ ~(d = f.cand /\ f.step = "main")
      BY <1>3
    <3>2. /\ list[d].gave = Once(f.pass = "inferred" /\ Through(f, d))
          /\ list[d].wrote =
                Once(IF f.pass = "written" THEN Through(f, d)
                     ELSE \/ d < w
                          \/ /\ d > w
                             /\ \/ Through(f, d)
                                \/ d = f.cand /\ f.step = "main")
          /\ list[d].built <= list[d].wrote
      BY <2>1 DEF Reading
    <3>3. CASE Through(f, d)
      BY <1>3, <3>1, <3>2, <3>3 DEF Once
    <3>4. CASE ~Through(f, d)
      BY <1>3, <3>1, <3>2, <3>4 DEF Once
    <3>. QED
      BY <3>3, <3>4
  <2>3. CASE d = f.cand
    <3>1. ~Through(f, d) /\ list[d].wrote = 0
      BY <1>3, <2>2, <2>3 DEF Through, Once
    <3>2. new[d] = Wrote(list[d])
      BY <1>2, <2>1, <2>3
    <3>3. /\ new[d].gave = list[d].gave /\ new[d].wrote = 1
          /\ new[d].built = list[d].built
      BY <2>1, <3>1, <3>2 DEF Wrote, NameType
    <3>. QED
      BY <1>1, <1>3, <1>4, <2>1, <2>2, <2>3, <3>1, <3>3 DEF Once
  <2>4. CASE d # f.cand
    BY <1>1, <1>2, <1>4, <2>1, <2>2, <2>4 DEF Once
  <2>. QED
    BY <2>3, <2>4
<1>. QED
  <2>1. /\ g.count <= Len(new) + 1 /\ w <= g.count /\ i <= g.count
    BY <1>1, <1>2 DEF Reading
  <2>2. /\ g.step \in {"main", "late"} /\ g.pass # "written" /\ g.step # "late"
        /\ g.cand \notin g.todo /\ NoCandidate \notin g.todo
    BY <1>1, <1>3 DEF Reading
  <2>3. \A c \in g.todo \cup {g.cand} : c # NoCandidate => c < g.count /\ c >= i
    BY <1>1, <1>3 DEF Reading
  <2>4. g.pass = "inferred"
    BY <1>1, <1>3
  <2>5. \A d \in DOMAIN new :
          /\ new[d].gave = Once(g.pass = "inferred" /\ Through(g, d))
          /\ new[d].wrote =
                Once(IF g.pass = "written" THEN Through(g, d)
                     ELSE \/ d < w
                          \/ /\ d > w
                             /\ \/ Through(g, d)
                                \/ d = g.cand /\ g.step = "main")
          /\ new[d].built <= new[d].wrote
    BY <1>1, <1>5, <2>2, <2>4 DEF Once
  <2>6. Reading(new, w, i, g)
    BY <2>1, <2>2, <2>3, <2>4, <2>5 DEF Reading
  <2>. QED
    BY <2>6 DEF new

\* The name in hand is done with: the walk has been through it.
LEMMA DoneReads ==
    ASSUME NEW list \in Seq(NameType), NEW w \in Nat, NEW i \in Nat,
           NEW f \in FrameType, NEW g \in FrameType, NEW new \in Seq(NameType),
           f.cand # NoCandidate, f.step = "main", Reading(list, w, i, f),
           g.count = f.count, g.pass = f.pass, g.cand = NoCandidate,
           g.todo = f.todo, g.step = f.step,
           Len(new) = Len(list),
           \A d \in DOMAIN list \ {f.cand} : new[d] = list[d],
           f.cand \in DOMAIN list =>
              /\ new[f.cand].gave = list[f.cand].gave + Once(f.pass = "inferred")
              /\ new[f.cand].wrote = list[f.cand].wrote + Once(f.pass = "written")
              /\ new[f.cand].built <= list[f.cand].built + Once(f.pass = "written")
    PROVE  Reading(new, w, i, g)
<1>1. /\ g.count = f.count /\ g.pass = f.pass /\ g.cand = 0
      /\ g.todo = f.todo /\ g.step = "main"
  BY DEF NoCandidate
<1>2. DOMAIN new = DOMAIN list /\ f.cand \in Nat /\ f.cand < f.count /\ f.cand \notin f.todo
  <2>1. f.cand \in Nat
    BY DEF FrameType
  <2>. QED
    BY <2>1, ListIndex DEF Reading
<1>3. \A d \in DOMAIN list : Through(g, d) <=> Through(f, d) \/ d = f.cand
  <2>1. \A d \in DOMAIN list : d # 0
    BY ListIndex
  <2>. QED
    BY <1>1, <1>2, <2>1 DEF Through
<1>5. ASSUME NEW d \in DOMAIN new
      PROVE  /\ new[d].gave = Once(g.pass = "inferred" /\ Through(g, d))
             /\ new[d].wrote =
                   Once(IF g.pass = "written" THEN Through(g, d)
                        ELSE \/ d < w
                             \/ /\ d > w
                                /\ \/ Through(g, d)
                                   \/ d = g.cand /\ g.step = "main")
             /\ new[d].built <= new[d].wrote
  <2>1. /\ d \in Nat /\ d # 0 /\ d \in DOMAIN list
        /\ list[d].gave \in Nat /\ list[d].wrote \in Nat /\ list[d].built \in Nat
        /\ new[d].gave \in Nat /\ new[d].wrote \in Nat /\ new[d].built \in Nat
    BY <1>2, ListIndex
  <2>2. /\ list[d].gave = Once(f.pass = "inferred" /\ Through(f, d))
        /\ list[d].wrote =
                   Once(IF f.pass = "written" THEN Through(f, d)
                        ELSE \/ d < w
                             \/ /\ d > w
                                /\ \/ Through(f, d)
                                   \/ d = f.cand /\ f.step = "main")
        /\ list[d].built <= list[d].wrote
    BY <2>1 DEF Reading
  <2>3. CASE d = f.cand
    <3>1. ~Through(f, d) /\ Through(g, d) /\ d # g.cand
      BY <1>1, <1>2, <1>3, <2>1, <2>3 DEF Through
    <3>2. CASE f.pass = "written"
      <4>1. list[d].gave = 0 /\ list[d].wrote = 0 /\ list[d].built <= 0
        BY <2>2, <3>1, <3>2 DEF Once
      <4>2. new[d].gave = 0 /\ new[d].wrote = 1 /\ new[d].built <= list[d].built + 1
        BY <2>1, <2>3, <3>2, <4>1 DEF Once
      <4>3. new[d].built <= 1
        BY <2>1, <4>1, <4>2
      <4>. QED
        BY <1>1, <3>1, <3>2, <4>2, <4>3 DEF Once
    <3>3. CASE f.pass # "written"
      <4>1. f.pass = "inferred"
        BY <3>3 DEF FrameType, Passes
      <4>. QED
        BY <1>1, <2>1, <2>2, <2>3, <3>1, <4>1, SMTT(60) DEF Once
    <3>. QED
      BY <3>2, <3>3
  <2>4. CASE d # f.cand
    <3>1. (Through(g, d) <=> Through(f, d)) /\ new[d] = list[d] /\ d # g.cand
      BY <1>1, <1>3, <2>1, <2>4
    <3>. QED
      BY <1>1, <2>1, <2>2, <2>4, <3>1 DEF Once
  <2>. QED
    BY <2>3, <2>4
<1>6. /\ g.count <= Len(new) + 1 /\ w <= g.count /\ i <= g.count
  BY <1>1 DEF Reading
<1>7. /\ g.step \in {"main", "late"} /\ g.step # "late"
      /\ g.pass = "written" => i = 0
  BY <1>1 DEF Reading
<1>8. g.cand \notin g.todo /\ NoCandidate \notin g.todo
  BY <1>1 DEF Reading, NoCandidate
<1>9. \A c \in g.todo \cup {g.cand} : c # NoCandidate =>
              /\ c < g.count
              /\ c >= (IF g.pass = "written" THEN w ELSE i)
  BY <1>1 DEF Reading, NoCandidate
<1>. QED
  BY <1>1, <1>5, <1>6, <1>7, <1>8, <1>9 DEF Reading

\* A round begins where the last one ended, with what was declared meanwhile.
LEMMA RoundReads ==
    ASSUME NEW list \in Seq(NameType), NEW w \in Nat, NEW i \in Nat,
           NEW f \in FrameType, NEW g \in FrameType,
           f.cand = NoCandidate, f.todo = {}, Reading(list, w, i, f),
           g.todo = {c \in DOMAIN list : c >= f.count}, g.count = Len(list) + 1,
           g.pass = f.pass, g.cand = f.cand, g.step = f.step
    PROVE  Reading(list, w, i, g)
<1>1. /\ g.count = Len(list) + 1 /\ g.pass = f.pass /\ g.cand = 0 /\ f.cand = 0
      /\ g.todo = {c \in DOMAIN list : c >= f.count} /\ g.step = f.step
  BY DEF NoCandidate
<1>2. /\ Len(list) \in Nat /\ DOMAIN list = 1 .. Len(list) /\ f.count \in Nat
      /\ f.count <= Len(list) + 1 /\ w <= f.count /\ i <= f.count
  BY ListIndex DEF Reading, FrameType
<1>3. \A d \in DOMAIN list : Through(g, d) <=> Through(f, d)
  BY <1>1, <1>2 DEF Through
<1>4. /\ g.count <= Len(list) + 1 /\ w <= g.count /\ i <= g.count
  BY <1>1, <1>2
<1>5. /\ g.step \in {"main", "late"}
      /\ g.pass = "written" => i = 0 /\ g.step = "main"
      /\ g.cand \notin g.todo /\ NoCandidate \notin g.todo
  BY <1>1, <1>2 DEF Reading, NoCandidate
<1>6. \A c \in g.todo \cup {g.cand} : c # NoCandidate =>
              /\ c < g.count
              /\ c >= (IF g.pass = "written" THEN w ELSE i)
  BY <1>1, <1>2 DEF NoCandidate
<1>7. ASSUME NEW d \in DOMAIN list
      PROVE  /\ list[d].gave = Once(g.pass = "inferred" /\ Through(g, d))
             /\ list[d].wrote =
                   Once(IF g.pass = "written" THEN Through(g, d)
                        ELSE \/ d < w
                             \/ /\ d > w
                                /\ \/ Through(g, d)
                                   \/ d = g.cand /\ g.step = "main")
             /\ list[d].built <= list[d].wrote
  <2>1. /\ list[d].gave = Once(f.pass = "inferred" /\ Through(f, d))
        /\ list[d].wrote =
                   Once(IF f.pass = "written" THEN Through(f, d)
                        ELSE \/ d < w
                             \/ /\ d > w
                                /\ \/ Through(f, d)
                                   \/ d = f.cand /\ f.step = "main")
        /\ list[d].built <= list[d].wrote
    BY DEF Reading
  <2>2. CASE Through(f, d)
    BY <1>1, <1>3, <2>1, <2>2 DEF Once
  <2>3. CASE ~Through(f, d)
    BY <1>1, <1>3, <2>1, <2>3 DEF Once
  <2>. QED
    BY <2>2, <2>3
<1>. QED
  BY <1>1, <1>4, <1>5, <1>6, <1>7 DEF Reading, NoCandidate

\* A walk with nothing left writes its mark and leaves the list at rest.
LEMMA EndRests ==
    ASSUME NEW list \in Seq(NameType), NEW w \in Nat, NEW i \in Nat,
           NEW f \in FrameType, f.cand = NoCandidate, f.todo = {},
           f.count = Len(list) + 1, Reading(list, w, i, f)
    PROVE  /\ f.pass = "written" => AtRest(list, f.count, i)
           /\ f.pass = "inferred" => AtRest(list, w, f.count)
<1>1. /\ Len(list) \in Nat /\ DOMAIN list = 1 .. Len(list)
      /\ f.count <= Len(list) + 1 /\ w <= f.count /\ i <= f.count
  BY ListIndex DEF Reading
<1>2. \A d \in DOMAIN list : Through(f, d) <=> d < f.count
  BY <1>1 DEF Through, NoCandidate
<1>3. \A d \in DOMAIN list :
          /\ list[d].gave = Once(f.pass = "inferred" /\ Through(f, d))
          /\ list[d].wrote =
                Once(IF f.pass = "written" THEN Through(f, d)
                     ELSE \/ d < w
                          \/ /\ d > w
                             /\ \/ Through(f, d)
                                \/ d = f.cand /\ f.step = "main")
          /\ list[d].built <= list[d].wrote
  BY DEF Reading
<1>4. \A d \in DOMAIN list : d # f.cand
  BY <1>1 DEF NoCandidate
<1>5. ASSUME f.pass = "written"
      PROVE  AtRest(list, f.count, i)
  <2>1. i = 0
    BY <1>5 DEF Reading
  <2>2. ASSUME NEW d \in DOMAIN list
        PROVE  /\ list[d].gave = Once(d < i)
               /\ list[d].wrote = Once(d < f.count \/ (d > f.count /\ d < i))
               /\ list[d].built <= list[d].wrote
    <3>1. ~(d < i) /\ d < f.count /\ Through(f, d)
      BY <1>1, <1>2, <2>1
    <3>. QED
      BY <1>3, <1>5, <3>1 DEF Once
  <2>. QED
    BY <1>1, <2>2 DEF AtRest
<1>6. ASSUME f.pass = "inferred"
      PROVE  AtRest(list, w, f.count)
  <2>2. ASSUME NEW d \in DOMAIN list
        PROVE  /\ list[d].gave = Once(d < f.count)
               /\ list[d].wrote = Once(d < w \/ (d > w /\ d < f.count))
               /\ list[d].built <= list[d].wrote
    <3>1. d < f.count /\ Through(f, d)
      BY <1>1, <1>2
    <3>. QED
      BY <1>3, <1>6, <3>1 DEF Once
  <2>. QED
    BY <1>1, <2>2 DEF AtRest
<1>. QED
  BY <1>5, <1>6

\* A walk begins on a list at rest, and is past what its mark says.
LEMMA BeginReads ==
    ASSUME NEW list \in Seq(NameType), NEW w \in Nat, NEW i \in Nat,
           NEW f \in FrameType, AtRest(list, w, i),
           f.cand = NoCandidate, f.count = Len(list) + 1, f.step = "main",
           f.pass = "written" => i = 0,
           f.todo = {c \in DOMAIN list : c >= (IF f.pass = "written" THEN w ELSE i)}
    PROVE  Reading(list, w, i, f)
<1>1. /\ Len(list) \in Nat /\ DOMAIN list = 1 .. Len(list)
      /\ w <= Len(list) + 1 /\ i <= Len(list) + 1
  BY ListIndex DEF AtRest
<1>2. f.pass = "written" \/ f.pass = "inferred"
  BY DEF FrameType, Passes
<1>3. \A d \in DOMAIN list :
         Through(f, d) <=> d < (IF f.pass = "written" THEN w ELSE i)
  BY <1>1 DEF Through, NoCandidate
<1>4. ASSUME NEW d \in DOMAIN list
      PROVE  /\ list[d].gave = Once(f.pass = "inferred" /\ Through(f, d))
             /\ list[d].wrote =
                   Once(IF f.pass = "written" THEN Through(f, d)
                        ELSE \/ d < w
                             \/ /\ d > w
                                /\ \/ Through(f, d)
                                   \/ d = f.cand /\ f.step = "main")
             /\ list[d].built <= list[d].wrote
  <2>1. /\ list[d].gave = Once(d < i)
        /\ list[d].wrote = Once(d < w \/ (d > w /\ d < i))
        /\ list[d].built <= list[d].wrote
    BY DEF AtRest
  <2>2. d # f.cand /\ d \in Nat
    BY <1>1 DEF NoCandidate
  <2>3. CASE f.pass = "written"
    <3>1. ~(d < i) /\ (Through(f, d) <=> d < w)
      BY <1>3, <2>2, <2>3
    <3>. QED
      BY <2>1, <2>3, <3>1 DEF Once
  <2>4. CASE f.pass = "inferred"
    <3>1. Through(f, d) <=> d < i
      BY <1>3, <2>4
    <3>. QED
      BY <2>1, <2>2, <2>4, <3>1 DEF Once
  <2>. QED
    BY <1>2, <2>3, <2>4
<1>5. /\ f.count <= Len(list) + 1 /\ w <= f.count /\ i <= f.count
      /\ f.step \in {"main", "late"} /\ f.step # "late"
      /\ f.cand \notin f.todo /\ NoCandidate \notin f.todo
  BY <1>1 DEF NoCandidate
<1>6. \A c \in f.todo \cup {f.cand} : c # NoCandidate =>
              /\ c < f.count
              /\ c >= (IF f.pass = "written" THEN w ELSE i)
  BY <1>1 DEF NoCandidate
<1>. QED
  BY <1>4, <1>5, <1>6 DEF Reading

-----------------------------------------------------------------------------
(* The call stack as the set of its frames.                                *)

\* The frames of a stack are the one on top and those below.
LEMMA FramesPush ==
    ASSUME NEW s \in Seq(FrameType), NEW f \in FrameType
    PROVE  /\ FramesOf(<<f>> \o s) = {f} \cup FramesOf(s)
           /\ f.op = "walk" => WalksIn(<<f>> \o s) = {f} \cup WalksIn(s)
           /\ f.op # "walk" => WalksIn(<<f>> \o s) = WalksIn(s)
           /\ FramesOf(s) \subseteq FrameType
<1>. DEFINE t == <<f>> \o s
<1>1. /\ DOMAIN t = 1 .. Len(s) + 1 /\ DOMAIN s = 1 .. Len(s) /\ Len(s) \in Nat
      /\ t[1] = f /\ \A i \in 1 .. Len(s) : t[i + 1] = s[i]
  BY PushIndex
<1>2. \A i \in 1 .. Len(s) : s[i] \in FrameType
  BY <1>1
<1>. HIDE DEF t
<1>3. ASSUME NEW x \in FramesOf(t)
      PROVE  x \in {f} \cup FramesOf(s)
  <2>1. PICK i \in 1 .. Len(s) + 1 : x = t[i]
    BY <1>1 DEF FramesOf
  <2>2. CASE i = 1
    BY <1>1, <2>1, <2>2
  <2>3. CASE i # 1
    <3>1. i - 1 \in 1 .. Len(s) /\ (i - 1) + 1 = i
      BY <1>1, <2>3
    <3>2. x = s[i - 1]
      BY <1>1, <2>1, <3>1
    <3>. QED
      BY <1>1, <3>1, <3>2 DEF FramesOf
  <2>. QED
    BY <2>2, <2>3
<1>4. ASSUME NEW x \in {f} \cup FramesOf(s)
      PROVE  x \in FramesOf(t)
  <2>1. CASE x = f
    BY <1>1, <2>1 DEF FramesOf
  <2>2. CASE x \in FramesOf(s)
    <3>1. PICK i \in 1 .. Len(s) : x = s[i]
      BY <1>1, <2>2 DEF FramesOf
    <3>2. i + 1 \in DOMAIN t /\ x = t[i + 1]
      BY <1>1, <3>1
    <3>. QED
      BY <3>2 DEF FramesOf
  <2>. QED
    BY <2>1, <2>2
<1>5. FramesOf(t) = {f} \cup FramesOf(s)
  BY <1>3, <1>4
<1>6. FramesOf(s) \subseteq FrameType
  BY <1>1, <1>2 DEF FramesOf
<1>7. /\ f.op = "walk" => WalksIn(t) = {f} \cup WalksIn(s)
      /\ f.op # "walk" => WalksIn(t) = WalksIn(s)
  BY <1>5 DEF WalksIn
<1>. QED
  BY <1>5, <1>6, <1>7 DEF t

\* One walk per module: a module that is walked is in one frame.
LEMMA WalkMods ==
    ASSUME NEW s, NEW w, OneWalk(s, w)
    PROVE  /\ \A f \in WalksIn(s) : f.mod \in w
           /\ \A m \in w : \E f \in WalksIn(s) : f.mod = m
           /\ \A f, g \in WalksIn(s) : f.mod = g.mod => f = g
BY DEF OneWalk, WalksOf, WalksIn, FramesOf

\* The walk on top is in a module that no walk below it is in.
LEMMA TopAlone ==
    ASSUME NEW s \in Seq(FrameType), NEW f \in FrameType, NEW w,
           OneWalk(<<f>> \o s, w), f.op = "walk"
    PROVE  /\ f.mod \in w
           /\ \A g \in WalksIn(s) : g.mod # f.mod
<1>1. f.mod \in w /\ OneWalk(s, w \ {f.mod})
  BY PushWalk
<1>2. \A g \in WalksIn(s) : g.mod \in w \ {f.mod}
  BY <1>1, WalkMods
<1>. QED
  BY <1>1, <1>2

-----------------------------------------------------------------------------
(* Stacks: what a step does to what every walk has done.                   *)

Lists == [Modules -> Seq(NameType)]
Marks == [Passes -> [Modules -> Nat]]

\* A mark is a number.
LEMMA MarkType ==
    ASSUME NEW M \in Marks, NEW m \in Modules
    PROVE  M["written"][m] \in Nat /\ M["inferred"][m] \in Nat
<1>1. "written" \in Passes /\ "inferred" \in Passes
  BY DEF Passes
<1>2. M["written"] \in [Modules -> Nat] /\ M["inferred"] \in [Modules -> Nat]
  BY <1>1 DEF Marks
<1>. QED
  BY <1>2

\* No pass has moved in any module.
LEMMA PassQuiet ==
    ASSUME NEW C \in Lists, NEW D \in Lists, NEW M \in Marks,
           NEW S \in Seq(FrameType), NEW T, NEW K,
           PassingIn(C, M, S, K), \A m \in Modules : Quiet(C[m], D[m]),
           WalksIn(T) = WalksIn(S)
    PROVE  PassingIn(D, M, T, K)
<1>1. \A f \in WalksIn(S) : f \in FrameType /\ f.mod \in Modules
  <2>1. FramesOf(S) \subseteq FrameType
    BY LenProperties DEF FramesOf
  <2>. QED
    BY <2>1 DEF WalksIn, FrameType
<1>2. ASSUME NEW f \in WalksIn(T)
      PROVE  Reading(D[f.mod], M["written"][f.mod], M["inferred"][f.mod], f)
  <2>1. /\ f \in FrameType /\ f.mod \in Modules
        /\ Reading(C[f.mod], M["written"][f.mod], M["inferred"][f.mod], f)
    BY <1>1 DEF PassingIn
  <2>2. C[f.mod] \in Seq(NameType) /\ D[f.mod] \in Seq(NameType)
    BY <2>1 DEF Lists
  <2>3. M["written"][f.mod] \in Nat /\ M["inferred"][f.mod] \in Nat
    BY <2>1, MarkType
  <2>. QED
    BY <2>1, <2>2, <2>3, QuietReads
<1>3. ASSUME NEW m \in Modules \ K
      PROVE  AtRest(D[m], M["written"][m], M["inferred"][m])
  <2>1. AtRest(C[m], M["written"][m], M["inferred"][m])
    BY DEF PassingIn
  <2>2. C[m] \in Seq(NameType) /\ D[m] \in Seq(NameType)
    BY DEF Lists
  <2>3. M["written"][m] \in Nat /\ M["inferred"][m] \in Nat
    BY MarkType
  <2>. QED
    BY <2>1, <2>2, <2>3, QuietRests
<1>. QED
  BY <1>2, <1>3 DEF PassingIn

\* The walk on top has gone on in its module.
LEMMA PassTop ==
    ASSUME NEW C, NEW D, NEW M, NEW s \in Seq(FrameType),
           NEW f \in FrameType, NEW g \in FrameType, NEW K,
           PassingIn(C, M, <<f>> \o s, K), OneWalk(<<f>> \o s, K),
           f.op = "walk", g.op = "walk", g.mod = f.mod,
           \A m \in Modules \ {f.mod} : D[m] = C[m],
           Reading(D[f.mod], M["written"][f.mod], M["inferred"][f.mod], g)
    PROVE  PassingIn(D, M, <<g>> \o s, K)
<1>1. /\ WalksIn(<<f>> \o s) = {f} \cup WalksIn(s)
      /\ WalksIn(<<g>> \o s) = {g} \cup WalksIn(s)
      /\ FramesOf(s) \subseteq FrameType
  BY FramesPush
<1>2. f.mod \in K /\ \A h \in WalksIn(s) : h.mod # f.mod /\ h.mod \in Modules
  BY <1>1, TopAlone, ZenonT(60) DEF WalksIn, FrameType
<1>. QED
  BY <1>1, <1>2 DEF PassingIn

\* A walk begins in a module that no walk is in.
LEMMA PassBegin ==
    ASSUME NEW C, NEW M, NEW s \in Seq(FrameType), NEW f \in FrameType, NEW K,
           PassingIn(C, M, s, K), f.op = "walk",
           Reading(C[f.mod], M["written"][f.mod], M["inferred"][f.mod], f)
    PROVE  PassingIn(C, M, <<f>> \o s, K \cup {f.mod})
<1>1. WalksIn(<<f>> \o s) = {f} \cup WalksIn(s)
  BY FramesPush
<1>. QED
  BY <1>1 DEF PassingIn

\* A walk ends and writes its mark.
LEMMA PassEnd ==
    ASSUME NEW C, NEW M, NEW N, NEW s \in Seq(FrameType), NEW f \in FrameType, NEW K,
           PassingIn(C, M, <<f>> \o s, K), OneWalk(<<f>> \o s, K), f.op = "walk",
           \A m \in Modules \ {f.mod} : /\ N["written"][m] = M["written"][m]
                                        /\ N["inferred"][m] = M["inferred"][m],
           AtRest(C[f.mod], N["written"][f.mod], N["inferred"][f.mod])
    PROVE  PassingIn(C, N, s, K \ {f.mod})
<1>1. /\ WalksIn(<<f>> \o s) = {f} \cup WalksIn(s)
      /\ FramesOf(s) \subseteq FrameType
  BY FramesPush
<1>2. f.mod \in K /\ \A h \in WalksIn(s) : h.mod # f.mod /\ h.mod \in Modules
  BY <1>1, TopAlone, ZenonT(60) DEF WalksIn, FrameType
<1>3. ASSUME NEW h \in WalksIn(s)
      PROVE  Reading(C[h.mod], N["written"][h.mod], N["inferred"][h.mod], h)
  BY <1>1, <1>2 DEF PassingIn
<1>4. ASSUME NEW m \in Modules \ (K \ {f.mod})
      PROVE  AtRest(C[m], N["written"][m], N["inferred"][m])
  BY DEF PassingIn
<1>. QED
  BY <1>3, <1>4 DEF PassingIn

-----------------------------------------------------------------------------
(* Steps: what every walk has done stays true.                             *)

Written(m) == mark["written"][m]
Inferred(m) == mark["inferred"][m]

\* What is known of the walk on top.
LEMMA TopWalks ==
    ASSUME Inv, OneWalk(stack, walking), Passing, Working("walk")
    PROVE  /\ Top \in FrameType /\ Tail(stack) \in Seq(FrameType)
           /\ stack = <<Top>> \o Tail(stack) /\ stack # <<>>
           /\ Top.op = "walk" /\ Top.mod \in Modules
           /\ cand \in Lists /\ mark \in Marks
           /\ cand[Top.mod] \in Seq(NameType)
           /\ Written(Top.mod) \in Nat /\ Inferred(Top.mod) \in Nat
           /\ Reading(cand[Top.mod], Written(Top.mod), Inferred(Top.mod), Top)
           /\ Top.todo \subseteq DOMAIN cand[Top.mod]
           /\ Top.cand \in Nat /\ Top.cand <= Len(cand[Top.mod])
           /\ Top.cand # NoCandidate => Top.cand \in DOMAIN cand[Top.mod]
<1>1. /\ stack \in Seq(FrameType) /\ stack # <<>> /\ stack \in Seq(Frames)
      /\ cand \in Lists /\ mark \in Marks
  BY DEF Inv, TypeOK, Working, Lists, Marks
<1>2. /\ Top \in FrameType /\ Tail(stack) \in Seq(FrameType)
      /\ stack = <<Top>> \o Tail(stack)
  BY <1>1, StackTop
<1>3. Top.op = "walk" /\ Top.mod \in Modules /\ Top.cand \in Nat
  BY <1>2 DEF Working, FrameType
<1>4. Top \in Frames
  BY <1>1, SeqPush DEF Top
<1>5. /\ cand[Top.mod] \in Seq(NameType)
      /\ Written(Top.mod) \in Nat /\ Inferred(Top.mod) \in Nat
  BY <1>1, <1>3, MarkType DEF Lists, Written, Inferred
<1>6. Top \in WalksIn(<<Top>> \o Tail(stack))
  BY <1>2, <1>3, FramesPush
<1>7. Top \in WalksIn(stack)
  BY <1>2, <1>6
<1>8. Reading(cand[Top.mod], Written(Top.mod), Inferred(Top.mod), Top)
  BY <1>7 DEF Passing, PassingIn, Written, Inferred
<1>9. Top.todo \subseteq DOMAIN cand[Top.mod] /\ Top.cand <= Len(cand[Top.mod])
  BY <1>4 DEF Frames
<1>10. Top.cand # NoCandidate => Top.cand \in DOMAIN cand[Top.mod]
  BY <1>3, <1>5, <1>9, ListIndex DEF NoCandidate
<1>. QED
  BY <1>1, <1>2, <1>3, <1>5, <1>8, <1>9, <1>10

\* The walk on top goes on, and in its list at most.
LEMMA TopPasses ==
    ASSUME Inv, OneWalk(stack, walking), Passing, Working("walk"),
           NEW g \in FrameType, g.op = "walk", g.mod = Top.mod,
           stack' = <<g>> \o Tail(stack), mark' = mark, walking' = walking,
           NEW new, cand' = [cand EXCEPT ![Top.mod] = new],
           Reading(new, Written(Top.mod), Inferred(Top.mod), g)
    PROVE  Passing'
<1>1. /\ Top \in FrameType /\ Tail(stack) \in Seq(FrameType) /\ Top.op = "walk"
      /\ stack = <<Top>> \o Tail(stack) /\ Top.mod \in Modules /\ cand \in Lists
  BY TopWalks
<1>2. cand'[Top.mod] = new /\ \A m \in Modules \ {Top.mod} : cand'[m] = cand[m]
  BY <1>1 DEF Lists
<1>3. PICK s \in Seq(FrameType) : s = Tail(stack)
  BY <1>1
<1>4. PassingIn(cand, mark, <<Top>> \o s, walking) /\ OneWalk(<<Top>> \o s, walking)
  BY <1>1, <1>3 DEF Passing
<1>5. Reading(cand'[Top.mod], mark["written"][Top.mod], mark["inferred"][Top.mod], g)
  BY <1>2 DEF Written, Inferred
<1>6. PICK f \in FrameType : f = Top
  BY <1>1
<1>7. PICK C, D, M, K : C = cand /\ D = cand' /\ M = mark /\ K = walking
  OBVIOUS
<1>8. /\ PassingIn(C, M, <<f>> \o s, K) /\ OneWalk(<<f>> \o s, K)
      /\ f.op = "walk" /\ g.op = "walk" /\ g.mod = f.mod
      /\ \A m \in Modules \ {f.mod} : D[m] = C[m]
      /\ Reading(D[f.mod], M["written"][f.mod], M["inferred"][f.mod], g)
  BY <1>1, <1>2, <1>4, <1>5, <1>6, <1>7
<1>9. PassingIn(D, M, <<g>> \o s, K)
  BY <1>8, PassTop
<1>. QED
  BY <1>3, <1>7, <1>9 DEF Passing

LEMMA TakePasses ==
    ASSUME Inv, OneWalk(stack, walking), Passing, TakeCandidate
    PROVE  Passing'
<1>1. Working("walk") /\ Top.cand = NoCandidate /\ UNCHANGED <<cand, mark, walking>>
  BY DEF TakeCandidate
<1>2. PICK c \in Top.todo :
         SetTop([Top EXCEPT !.cand = c, !.todo = @ \ {c}, !.asked = FALSE,
                            !.step = IF IsLate(Top, c) THEN "late" ELSE "main"])
  BY DEF TakeCandidate
<1>. DEFINE g == [Top EXCEPT !.cand = c, !.todo = @ \ {c}, !.asked = FALSE,
                             !.step = IF IsLate(Top, c) THEN "late" ELSE "main"]
            m == Top.mod
<1>3. /\ Top \in FrameType /\ m \in Modules /\ cand \in Lists /\ Top.op = "walk"
      /\ cand[m] \in Seq(NameType) /\ Written(m) \in Nat /\ Inferred(m) \in Nat
      /\ Reading(cand[m], Written(m), Inferred(m), Top)
      /\ Top.todo \subseteq DOMAIN cand[m]
  BY <1>1, TopWalks
<1>4. c \in Nat /\ c # 0
  BY <1>3, ListIndex
<1>5. g \in FrameType /\ g.op = "walk" /\ g.mod = m
  <2>1. Top.todo \ {c} \in SUBSET Nat
    BY <1>3 DEF FrameType
  <2>. QED
    BY <1>3, <1>4, <2>1 DEF FrameType
<1>6. /\ g.count = Top.count /\ g.pass = Top.pass /\ g.cand = c
      /\ g.todo = Top.todo \ {c}
      /\ g.step = IF Top.pass = "inferred" /\ c > Written(m) THEN "late" ELSE "main"
  BY <1>3 DEF IsLate, Written, FrameType
<1>7. stack' = <<g>> \o Tail(stack)
  BY <1>2 DEF SetTop
<1>. HIDE DEF g
<1>8. PICK f \in FrameType : f = Top
  BY <1>3
<1>9. Reading(cand[m], Written(m), Inferred(m), g)
  <2>1. PICK list \in Seq(NameType) : list = cand[m]
    BY <1>3
  <2>2. PICK w \in Nat, i \in Nat : w = Written(m) /\ i = Inferred(m)
    BY <1>3
  <2>3. /\ f.cand = NoCandidate /\ Reading(list, w, i, f) /\ c \in f.todo
        /\ g.count = f.count /\ g.pass = f.pass /\ g.cand = c
        /\ g.todo = f.todo \ {c}
        /\ g.step = IF f.pass = "inferred" /\ c > w THEN "late" ELSE "main"
    BY <1>1, <1>3, <1>6, <1>8, <2>1, <2>2
  <2>4. Reading(list, w, i, g)
    BY <1>4, <1>5, <2>3, TakeReads
  <2>. QED
    BY <2>1, <2>2, <2>4
<1>10. cand' = [cand EXCEPT ![m] = cand[m]]
  BY <1>1, <1>3 DEF Lists
<1>. QED
  BY <1>1, <1>5, <1>7, <1>9, <1>10, TopPasses

LEMMA LatePasses ==
    ASSUME Inv, OneWalk(stack, walking), Passing, FinishLate
    PROVE  Passing'
<1>1. Working("walk") /\ Top.cand # NoCandidate /\ Top.step = "late"
      /\ mark' = mark /\ walking' = walking
  BY DEF FinishLate, Typing
<1>. DEFINE g == [Top EXCEPT !.step = "main", !.asked = FALSE]
            m == Top.mod
            new == [cand[m] EXCEPT ![Top.cand] = Wrote(@)]
<1>3. /\ Top \in FrameType /\ m \in Modules /\ cand \in Lists /\ Top.op = "walk"
      /\ cand[m] \in Seq(NameType) /\ Written(m) \in Nat /\ Inferred(m) \in Nat
      /\ Reading(cand[m], Written(m), Inferred(m), Top)
  BY <1>1, TopWalks
<1>5. g \in FrameType /\ g.op = "walk" /\ g.mod = m
  BY <1>3 DEF FrameType
<1>6. /\ g.count = Top.count /\ g.pass = Top.pass /\ g.cand = Top.cand
      /\ g.todo = Top.todo /\ g.step = "main"
  BY <1>3 DEF FrameType
<1>7. stack' = <<g>> \o Tail(stack)
  BY DEF FinishLate, SetTop
<1>. HIDE DEF g
<1>8. PICK f \in FrameType, list \in Seq(NameType), w \in Nat, i \in Nat :
         f = Top /\ list = cand[m] /\ w = Written(m) /\ i = Inferred(m)
  BY <1>3
<1>9. Reading([list EXCEPT ![f.cand] = Wrote(@)], w, i, g)
  <2>1. /\ f.cand # NoCandidate /\ f.step = "late" /\ Reading(list, w, i, f)
        /\ g.count = f.count /\ g.pass = f.pass /\ g.cand = f.cand
        /\ g.todo = f.todo /\ g.step = "main"
    BY <1>1, <1>3, <1>6, <1>8
  <2>. QED
    BY <1>5, <2>1, LateReads
<1>10. Reading(new, Written(m), Inferred(m), g)
  BY <1>8, <1>9
<1>11. cand' = [cand EXCEPT ![m] = new]
  BY DEF FinishLate
<1>. HIDE DEF new
<1>. QED
  BY <1>1, <1>5, <1>7, <1>10, <1>11, TopPasses

\* The name in hand is written, or inferred, and put down.
LEMMA DonePasses ==
    ASSUME Inv, OneWalk(stack, walking), Passing, Working("walk"),
           Top.cand # NoCandidate, Top.step = "main",
           SetTop([Top EXCEPT !.cand = NoCandidate, !.worked = TRUE]),
           mark' = mark, walking' = walking,
           NEW new \in Seq(NameType), Len(new) = Len(cand[Top.mod]),
           \A d \in DOMAIN cand[Top.mod] \ {Top.cand} : new[d] = cand[Top.mod][d],
           /\ new[Top.cand].gave = Subjected.gave + Once(Top.pass = "inferred")
           /\ new[Top.cand].wrote = Subjected.wrote + Once(Top.pass = "written")
           /\ new[Top.cand].built <= Subjected.built + Once(Top.pass = "written"),
           NEW grown \in Seq(NameType), Quiet(new, grown),
           cand' = [cand EXCEPT ![Top.mod] = grown]
    PROVE  Passing'
<1>. DEFINE g == [Top EXCEPT !.cand = NoCandidate, !.worked = TRUE]
            m == Top.mod
<1>3. /\ Top \in FrameType /\ m \in Modules /\ cand \in Lists /\ Top.op = "walk"
      /\ cand[m] \in Seq(NameType) /\ Written(m) \in Nat /\ Inferred(m) \in Nat
      /\ Reading(cand[m], Written(m), Inferred(m), Top)
  BY TopWalks
<1>5. g \in FrameType /\ g.op = "walk" /\ g.mod = m
  BY <1>3 DEF FrameType, NoCandidate
<1>6. /\ g.count = Top.count /\ g.pass = Top.pass /\ g.cand = NoCandidate
      /\ g.todo = Top.todo /\ g.step = Top.step
  BY <1>3 DEF FrameType
<1>7. stack' = <<g>> \o Tail(stack)
  BY DEF SetTop
<1>. HIDE DEF g
<1>8. PICK f \in FrameType, list \in Seq(NameType), w \in Nat, i \in Nat :
         f = Top /\ list = cand[m] /\ w = Written(m) /\ i = Inferred(m)
  BY <1>3
<1>9. Reading(new, w, i, g)
  <2>1. /\ f.cand # NoCandidate /\ f.step = "main" /\ Reading(list, w, i, f)
        /\ g.count = f.count /\ g.pass = f.pass /\ g.cand = NoCandidate
        /\ g.todo = f.todo /\ g.step = f.step /\ Len(new) = Len(list)
    BY <1>3, <1>6, <1>8
  <2>2. /\ \A d \in DOMAIN list \ {f.cand} : new[d] = list[d]
        /\ new[f.cand].gave = list[f.cand].gave + Once(f.pass = "inferred")
        /\ new[f.cand].wrote = list[f.cand].wrote + Once(f.pass = "written")
        /\ new[f.cand].built <= list[f.cand].built + Once(f.pass = "written")
    BY <1>8 DEF Subjected
  <2>. QED
    BY <1>5, <2>1, <2>2, DoneReads
<1>10. Reading(grown, Written(m), Inferred(m), g)
  BY <1>5, <1>8, <1>9, QuietReads
<1>. QED
  BY <1>5, <1>7, <1>10, TopPasses

\* A list is quiet beside itself.
LEMMA QuietSelf == ASSUME NEW list \in Seq(NameType) PROVE Quiet(list, list)
BY ListIndex DEF Quiet

\* What is written back at the index in hand.
LEMMA OneElement ==
    ASSUME NEW list \in Seq(NameType), NEW c \in DOMAIN list, NEW n \in NameType
    PROVE  /\ [list EXCEPT ![c] = n] \in Seq(NameType)
           /\ Len([list EXCEPT ![c] = n]) = Len(list)
           /\ DOMAIN [list EXCEPT ![c] = n] = DOMAIN list
           /\ [list EXCEPT ![c] = n][c] = n
           /\ \A d \in DOMAIN list \ {c} : [list EXCEPT ![c] = n][d] = list[d]
BY SeqExcept

\* What the passes write into a name.
LEMMA PassCounts ==
    ASSUME NEW n \in NameType
    PROVE  /\ Wrote(n).gave = n.gave /\ Wrote(n).wrote = n.wrote + 1
           /\ Wrote(n).built = n.built
           /\ WroteAndAsked(n).gave = n.gave /\ WroteAndAsked(n).wrote = n.wrote + 1
           /\ WroteAndAsked(n).built = n.built + 1
           /\ Gave(n).gave = n.gave + 1 /\ Gave(n).wrote = n.wrote
           /\ Gave(n).built = n.built
<1>1. /\ Wrote(n).gave = n.gave /\ Wrote(n).wrote = n.wrote + 1
      /\ Wrote(n).built = n.built /\ Wrote(n) \in NameType
  BY PassType DEF Wrote, NameType
<1>2. /\ WroteAndAsked(n).gave = n.gave /\ WroteAndAsked(n).wrote = n.wrote + 1
      /\ WroteAndAsked(n).built = n.built + 1
  BY <1>1 DEF WroteAndAsked, NameType
<1>3. Gave(n).gave = n.gave + 1 /\ Gave(n).wrote = n.wrote /\ Gave(n).built = n.built
  BY DEF Gave, NameType
<1>. QED
  BY <1>1, <1>2, <1>3

LEMMA WrittenPasses ==
    ASSUME Inv, OneWalk(stack, walking), Passing, FinishWritten
    PROVE  Passing'
<1>1. /\ Working("walk") /\ Top.cand # NoCandidate /\ Top.pass = "written"
      /\ SetTop([Top EXCEPT !.cand = NoCandidate, !.worked = TRUE])
      /\ mark' = mark /\ walking' = walking
      /\ cand' = [cand EXCEPT ![Top.mod][Top.cand] = WroteAndAsked(@)]
  BY DEF FinishWritten, Typing
<1>2. /\ Top.step = "main" /\ cand[Top.mod] \in Seq(NameType)
      /\ Top.cand \in DOMAIN cand[Top.mod]
  BY <1>1, TopWalks DEF Reading
<1>3. Subjected \in NameType
  BY <1>2, ListIndex DEF Subjected
<1>4. PICK n \in NameType : n = WroteAndAsked(Subjected)
  BY <1>3, PassType
<1>5. /\ n.gave = Subjected.gave /\ n.wrote = Subjected.wrote + 1
      /\ n.built = Subjected.built + 1 /\ Subjected.built \in Nat
      /\ Subjected.gave \in Nat
  BY <1>2, <1>3, <1>4, PassCounts, ListIndex DEF Subjected
<1>6. PICK new : new = [cand[Top.mod] EXCEPT ![Top.cand] = n]
  OBVIOUS
<1>7. /\ new \in Seq(NameType) /\ Len(new) = Len(cand[Top.mod]) /\ new[Top.cand] = n
      /\ \A d \in DOMAIN cand[Top.mod] \ {Top.cand} : new[d] = cand[Top.mod][d]
      /\ Quiet(new, new)
  <2>1. /\ new \in Seq(NameType) /\ Len(new) = Len(cand[Top.mod]) /\ new[Top.cand] = n
        /\ \A d \in DOMAIN cand[Top.mod] \ {Top.cand} : new[d] = cand[Top.mod][d]
    BY <1>2, <1>6, OneElement
  <2>. QED
    BY <2>1, QuietSelf
<1>8. cand' = [cand EXCEPT ![Top.mod] = new]
  BY <1>1, <1>4, <1>6 DEF Subjected
<1>9. /\ new[Top.cand].gave = Subjected.gave + Once(Top.pass = "inferred")
      /\ new[Top.cand].wrote = Subjected.wrote + Once(Top.pass = "written")
      /\ new[Top.cand].built <= Subjected.built + Once(Top.pass = "written")
  BY <1>1, <1>5, <1>7 DEF Once
<1>. QED
  BY <1>1, <1>2, <1>7, <1>8, <1>9, DonePasses

LEMMA InferredPasses ==
    ASSUME Inv, OneWalk(stack, walking), Passing, FinishInferred
    PROVE  Passing'
<1>1. /\ Working("walk") /\ Top.cand # NoCandidate /\ Top.pass = "inferred"
      /\ SetTop([Top EXCEPT !.cand = NoCandidate, !.worked = TRUE])
      /\ mark' = mark /\ walking' = walking /\ Top.step = "main"
      /\ cand' = [cand EXCEPT ![Top.mod][Top.cand] = Gave(@)]
  BY DEF FinishInferred, Typing
<1>2. /\ cand[Top.mod] \in Seq(NameType) /\ Top.cand \in DOMAIN cand[Top.mod]
  BY <1>1, TopWalks
<1>3. Subjected \in NameType
  BY <1>2, ListIndex DEF Subjected
<1>4. PICK n \in NameType : n = Gave(Subjected)
  BY <1>3, PassType
<1>5. /\ n.gave = Subjected.gave + 1 /\ n.wrote = Subjected.wrote
      /\ n.built = Subjected.built /\ Subjected.built \in Nat
      /\ Subjected.wrote \in Nat
  BY <1>2, <1>3, <1>4, PassCounts, ListIndex DEF Subjected
<1>6. PICK new : new = [cand[Top.mod] EXCEPT ![Top.cand] = n]
  OBVIOUS
<1>7. /\ new \in Seq(NameType) /\ Len(new) = Len(cand[Top.mod]) /\ new[Top.cand] = n
      /\ \A d \in DOMAIN cand[Top.mod] \ {Top.cand} : new[d] = cand[Top.mod][d]
      /\ Quiet(new, new)
  <2>1. /\ new \in Seq(NameType) /\ Len(new) = Len(cand[Top.mod]) /\ new[Top.cand] = n
        /\ \A d \in DOMAIN cand[Top.mod] \ {Top.cand} : new[d] = cand[Top.mod][d]
    BY <1>2, <1>6, OneElement
  <2>. QED
    BY <2>1, QuietSelf
<1>8. cand' = [cand EXCEPT ![Top.mod] = new]
  BY <1>1, <1>4, <1>6 DEF Subjected
<1>9. /\ new[Top.cand].gave = Subjected.gave + Once(Top.pass = "inferred")
      /\ new[Top.cand].wrote = Subjected.wrote + Once(Top.pass = "written")
      /\ new[Top.cand].built <= Subjected.built + Once(Top.pass = "written")
  BY <1>1, <1>5, <1>7 DEF Once
<1>. QED
  BY <1>1, <1>7, <1>8, <1>9, DonePasses

\* New names are names no pass has been through.
Fresh == {n \in NameType : /\ n.wrote = 0 /\ n.gave = 0 /\ n.built = 0
                           /\ n.type \in {"none", "given"} /\ ~n.scanned}

LEMMA QuietGrows ==
    ASSUME NEW list \in Seq(NameType), NEW names \in Seq(Fresh)
    PROVE  /\ list \o names \in Seq(NameType)
           /\ Quiet(list, list \o names)
<1>. DEFINE t == list \o names
<1>1. names \in Seq(NameType)
  BY DEF Fresh
<1>2. /\ Len(list) \in Nat /\ DOMAIN list = 1 .. Len(list)
      /\ Len(names) \in Nat /\ DOMAIN names = 1 .. Len(names)
  BY <1>1, LenProperties
<1>3. /\ t \in Seq(NameType) /\ Len(t) = Len(list) + Len(names)
      /\ \A c \in 1 .. Len(t) :
            t[c] = IF c <= Len(list) THEN list[c] ELSE names[c - Len(list)]
  BY <1>1, ConcatProperties
<1>4. DOMAIN t = 1 .. Len(t)
  BY <1>3, LenProperties
<1>. HIDE DEF t
<1>5. Len(list) <= Len(t)
  BY <1>2, <1>3
<1>6. ASSUME NEW c \in DOMAIN list
      PROVE  t[c] = list[c]
  BY <1>2, <1>3, <1>4
<1>7. ASSUME NEW c \in DOMAIN t \ DOMAIN list
      PROVE  t[c].wrote = 0 /\ t[c].gave = 0 /\ t[c].built = 0
  <2>1. c \in 1 .. Len(t) /\ ~(c <= Len(list)) /\ c - Len(list) \in 1 .. Len(names)
    BY <1>2, <1>3, <1>4
  <2>2. t[c] = names[c - Len(list)] /\ names[c - Len(list)] \in Fresh
    BY <1>2, <1>3, <2>1
  <2>. QED
    BY <2>2 DEF Fresh
<1>8. Quiet(list, t)
  BY <1>5, <1>6, <1>7 DEF Quiet
<1>. QED
  BY <1>3, <1>8 DEF t

\* What a declaration makes is fresh.
LEMMA DeclaredFresh ==
    ASSUME NEW sort \in HeadSorts \cup BodySorts, NEW owner \in Nat,
           NEW assigns \in BOOLEAN, NEW type \in {"none", "given"},
           NEW early \in BOOLEAN
    PROVE  Declared(sort, owner, assigns, type, early) \in Fresh
BY DeclaredType DEF Declared, Fresh, TypeStates

LEMMA LoopPasses ==
    ASSUME Inv, OneWalk(stack, walking), Passing, LowerLoop
    PROVE  Passing'
<1>. DEFINE local == Declared("local", Subjected.owner, FALSE, "given", FALSE)
            bound == [Subjected EXCEPT !.sort = "local"]
<1>1. /\ Working("walk") /\ Top.cand # NoCandidate /\ Top.pass = "inferred"
      /\ SetTop([Top EXCEPT !.cand = NoCandidate, !.worked = TRUE])
      /\ mark' = mark /\ walking' = walking /\ Top.step = "main"
      /\ cand' = [cand EXCEPT ![Top.mod] =
                    [cand[Top.mod] EXCEPT ![Top.cand] = Gave(bound)] \o <<local>>]
  BY DEF LowerLoop, Typing
<1>2. /\ cand[Top.mod] \in Seq(NameType) /\ Top.cand \in DOMAIN cand[Top.mod]
  BY <1>1, TopWalks
<1>3. Subjected \in NameType
  BY <1>2, ListIndex DEF Subjected
<1>4. /\ bound \in NameType /\ bound.gave = Subjected.gave
      /\ bound.wrote = Subjected.wrote /\ bound.built = Subjected.built
  BY <1>3 DEF NameType, BodySorts
<1>5. local \in Fresh
  <2>1. "local" \in HeadSorts \cup BodySorts /\ "given" \in TypeStates
    BY DEF BodySorts, TypeStates
  <2>2. Subjected.owner \in Nat
    BY <1>3 DEF NameType
  <2>. QED
    BY <2>1, <2>2, DeclaredFresh
<1>6. PICK n \in NameType : n = Gave(bound)
  BY <1>4, PassType
<1>7. /\ n.gave = Subjected.gave + 1 /\ n.wrote = Subjected.wrote
      /\ n.built = Subjected.built /\ Subjected.built \in Nat
      /\ Subjected.wrote \in Nat
  BY <1>2, <1>4, <1>6, PassCounts, ListIndex DEF Subjected
<1>8. PICK new : new = [cand[Top.mod] EXCEPT ![Top.cand] = n]
  OBVIOUS
<1>9. PICK last \in Fresh : last = local
  BY <1>5
<1>10. /\ new \in Seq(NameType) /\ Len(new) = Len(cand[Top.mod]) /\ new[Top.cand] = n
       /\ \A d \in DOMAIN cand[Top.mod] \ {Top.cand} : new[d] = cand[Top.mod][d]
  BY <1>2, <1>8, OneElement
<1>11. <<last>> \in Seq(Fresh)
  OBVIOUS
<1>12. new \o <<last>> \in Seq(NameType) /\ Quiet(new, new \o <<last>>)
  BY <1>10, <1>11, QuietGrows
<1>13. cand' = [cand EXCEPT ![Top.mod] = new \o <<last>>]
  BY <1>1, <1>6, <1>8, <1>9
<1>14. PICK grown \in Seq(NameType) : grown = new \o <<last>>
  BY <1>12
<1>15. /\ new[Top.cand].gave = Subjected.gave + Once(Top.pass = "inferred")
       /\ new[Top.cand].wrote = Subjected.wrote + Once(Top.pass = "written")
       /\ new[Top.cand].built <= Subjected.built + Once(Top.pass = "written")
  BY <1>1, <1>7, <1>10 DEF Once
<1>. QED
  BY <1>1, <1>10, <1>12, <1>13, <1>14, <1>15, DonePasses

LEMMA RoundPasses ==
    ASSUME Inv, OneWalk(stack, walking), Passing, NextRound
    PROVE  Passing'
<1>. DEFINE m == Top.mod
            g == [Top EXCEPT !.todo = {c \in DOMAIN cand[m] : c >= Top.count},
                             !.count = Count(m)]
<1>1. /\ Working("walk") /\ Top.cand = NoCandidate /\ Top.todo = {}
      /\ mark' = mark /\ walking' = walking /\ cand' = cand
      /\ stack' = <<g>> \o Tail(stack)
  BY DEF NextRound, RoundIsOver, SetTop
<1>3. /\ Top \in FrameType /\ m \in Modules /\ cand \in Lists /\ Top.op = "walk"
      /\ cand[m] \in Seq(NameType) /\ Written(m) \in Nat /\ Inferred(m) \in Nat
      /\ Reading(cand[m], Written(m), Inferred(m), Top)
  BY <1>1, TopWalks
<1>4. Count(m) \in Nat /\ Count(m) = Len(cand[m]) + 1 /\ DOMAIN cand[m] \subseteq Nat
  BY <1>3, ListIndex DEF Count
<1>5. g \in FrameType /\ g.op = "walk" /\ g.mod = m
  <2>1. {c \in DOMAIN cand[m] : c >= Top.count} \in SUBSET Nat
    BY <1>4
  <2>. QED
    BY <1>3, <1>4, <2>1 DEF FrameType
<1>6. /\ g.count = Len(cand[m]) + 1 /\ g.pass = Top.pass /\ g.cand = Top.cand
      /\ g.todo = {c \in DOMAIN cand[m] : c >= Top.count} /\ g.step = Top.step
  BY <1>3, <1>4 DEF FrameType
<1>. HIDE DEF g
<1>8. PICK f \in FrameType, list \in Seq(NameType), w \in Nat, i \in Nat :
         f = Top /\ list = cand[m] /\ w = Written(m) /\ i = Inferred(m)
  BY <1>3
<1>9. /\ f.cand = NoCandidate /\ f.todo = {} /\ Reading(list, w, i, f)
      /\ g.count = Len(list) + 1 /\ g.pass = f.pass /\ g.cand = f.cand
      /\ g.todo = {c \in DOMAIN list : c >= f.count} /\ g.step = f.step
  BY <1>1, <1>3, <1>6, <1>8
<1>10. Reading(list, w, i, g)
  BY <1>5, <1>9, RoundReads
<1>11. cand' = [cand EXCEPT ![m] = list]
  BY <1>1, <1>3, <1>8 DEF Lists
<1>. QED
  BY <1>1, <1>5, <1>8, <1>10, <1>11, TopPasses

LEMMA EndPasses ==
    ASSUME Inv, OneWalk(stack, walking), Passing, FinishWalk
    PROVE  Passing'
<1>. DEFINE m == Top.mod
<1>1. /\ Working("walk") /\ Top.cand = NoCandidate /\ Top.todo = {}
      /\ Top.count = Count(m) /\ mark' = [mark EXCEPT ![Top.pass][m] = Top.count]
      /\ walking' = walking \ {m} /\ cand' = cand /\ stack' = Tail(stack)
  BY DEF FinishWalk, RoundIsOver
<1>3. /\ Top \in FrameType /\ m \in Modules /\ cand \in Lists /\ Top.op = "walk"
      /\ cand[m] \in Seq(NameType) /\ Written(m) \in Nat /\ Inferred(m) \in Nat
      /\ Reading(cand[m], Written(m), Inferred(m), Top) /\ mark \in Marks
      /\ Tail(stack) \in Seq(FrameType) /\ stack = <<Top>> \o Tail(stack)
  BY <1>1, TopWalks
<1>8. PICK f \in FrameType, s \in Seq(FrameType), list \in Seq(NameType),
           w \in Nat, i \in Nat :
         /\ f = Top /\ list = cand[m] /\ w = Written(m) /\ i = Inferred(m)
         /\ s = Tail(stack)
  BY <1>3
<1>9. /\ f.pass = "written" => AtRest(list, f.count, i)
      /\ f.pass = "inferred" => AtRest(list, w, f.count)
  <2>1. f.cand = NoCandidate /\ f.todo = {} /\ f.count = Len(list) + 1
        /\ Reading(list, w, i, f)
    BY <1>1, <1>3, <1>8 DEF Count
  <2>. QED
    BY <2>1, EndRests
<1>10. /\ \A n \in Modules \ {m} : /\ mark'["written"][n] = mark["written"][n]
                                  /\ mark'["inferred"][n] = mark["inferred"][n]
       /\ f.pass = "written" => /\ mark'["written"][m] = f.count
                                /\ mark'["inferred"][m] = i
       /\ f.pass = "inferred" => /\ mark'["written"][m] = w
                                 /\ mark'["inferred"][m] = f.count
  BY <1>1, <1>3, <1>8 DEF Written, Inferred, Marks, Passes
<1>11. AtRest(cand[m], mark'["written"][m], mark'["inferred"][m])
  <2>1. f.pass = "written" \/ f.pass = "inferred"
    BY DEF FrameType, Passes
  <2>. QED
    BY <1>8, <1>9, <1>10, <2>1
<1>12. /\ PassingIn(cand, mark, <<f>> \o s, walking) /\ OneWalk(<<f>> \o s, walking)
       /\ f.op = "walk" /\ f.mod = m
       /\ AtRest(cand[f.mod], mark'["written"][f.mod], mark'["inferred"][f.mod])
       /\ \A n \in Modules \ {f.mod} : /\ mark'["written"][n] = mark["written"][n]
                                      /\ mark'["inferred"][n] = mark["inferred"][n]
  BY <1>3, <1>8, <1>10, <1>11 DEF Passing
<1>13. PassingIn(cand, mark', s, walking \ {f.mod})
  BY <1>12, PassEnd
<1>. QED
  BY <1>1, <1>8, <1>12, <1>13 DEF Passing

\* What is quiet step by step is quiet.
LEMMA QuietTwice ==
    ASSUME NEW a \in Seq(NameType), NEW b \in Seq(NameType), NEW c \in Seq(NameType),
           Quiet(a, b), Quiet(b, c)
    PROVE  Quiet(a, c)
<1>1. /\ Len(a) \in Nat /\ DOMAIN a = 1 .. Len(a)
      /\ Len(b) \in Nat /\ DOMAIN b = 1 .. Len(b)
      /\ Len(c) \in Nat /\ DOMAIN c = 1 .. Len(c)
  BY ListIndex
<1>2. Len(a) <= Len(c) /\ DOMAIN a \subseteq DOMAIN b
  BY <1>1 DEF Quiet
<1>3. \A d \in DOMAIN a : /\ c[d].wrote = a[d].wrote
                          /\ c[d].gave = a[d].gave
                          /\ c[d].built = a[d].built
  BY <1>2 DEF Quiet
<1>4. \A d \in DOMAIN c \ DOMAIN a :
          c[d].wrote = 0 /\ c[d].gave = 0 /\ c[d].built = 0
  <2>1. ASSUME NEW d \in DOMAIN c \ DOMAIN a
        PROVE  c[d].wrote = 0 /\ c[d].gave = 0 /\ c[d].built = 0
    <3>1. CASE d \in DOMAIN b
      BY <2>1, <3>1 DEF Quiet
    <3>2. CASE d \notin DOMAIN b
      BY <2>1, <3>2 DEF Quiet
    <3>. QED
      BY <3>1, <3>2
  <2>. QED
    BY <2>1
<1>. QED
  BY <1>2, <1>3, <1>4 DEF Quiet

\* A name that is written back with the passes it had.
LEMMA QuietUpdate ==
    ASSUME NEW list \in Seq(NameType), NEW c \in DOMAIN list, NEW n \in NameType,
           n.wrote = list[c].wrote, n.gave = list[c].gave, n.built = list[c].built
    PROVE  Quiet(list, [list EXCEPT ![c] = n])
<1>1. PICK t : t = [list EXCEPT ![c] = n]
  OBVIOUS
<1>2. /\ Len(t) = Len(list) /\ DOMAIN t = DOMAIN list /\ t[c] = n
      /\ \A d \in DOMAIN list \ {c} : t[d] = list[d]
  BY <1>1, OneElement
<1>3. Len(list) \in Nat
  BY ListIndex
<1>4. Quiet(list, t)
  BY <1>2, <1>3 DEF Quiet
<1>. QED
  BY <1>1, <1>4

\* One list changed quietly, and the others not.
LEMMA QuietOne ==
    ASSUME NEW C \in Lists, NEW m \in Modules, NEW new \in Seq(NameType),
           Quiet(C[m], new)
    PROVE  /\ [C EXCEPT ![m] = new] \in Lists
           /\ \A n \in Modules : Quiet(C[n], [C EXCEPT ![m] = new][n])
<1>1. \A n \in Modules : C[n] \in Seq(NameType)
  BY DEF Lists
<1>2. \A n \in Modules : Quiet(C[n], C[n])
  BY <1>1, QuietSelf
<1>3. \A n \in Modules : [C EXCEPT ![m] = new][n] = IF n = m THEN new ELSE C[n]
  BY DEF Lists
<1>. QED
  BY <1>2, <1>3 DEF Lists

\* The name is there for as long as the list is.
QuietStep == \A m \in Modules : Quiet(cand[m], cand'[m])

\* A step on an empty call stack leaves every pass where it was.
LEMMA IdlePasses ==
    ASSUME Inv, Inv', Passing, QuietStep, stack' = stack, mark' = mark,
           walking' = walking
    PROVE  Passing'
<1>1. cand \in Lists /\ cand' \in Lists /\ mark \in Marks /\ stack \in Seq(FrameType)
  BY DEF Inv, TypeOK, Lists, Marks
<1>2. PassingIn(cand, mark, stack, walking)
  BY DEF Passing
<1>3. PassingIn(cand', mark, stack, walking)
  BY <1>1, <1>2, PassQuiet DEF QuietStep
<1>. QED
  BY <1>3 DEF Passing

\* The frame of a walk that begins.
LEMMA WalkFrameType ==
    ASSUME Inv, NEW m \in Modules, NEW pass \in Passes, NEW nested \in BOOLEAN,
           NEW held \in SubjectType
    PROVE  WalkFrame(m, pass, nested, held) \in FrameType
<1>1. cand[m] \in Seq(NameType)
  BY DEF Inv, TypeOK
<1>2. Count(m) \in Nat /\ DOMAIN cand[m] \subseteq Nat
  BY <1>1, ListIndex DEF Count
<1>3. {c \in DOMAIN cand[m] : c >= mark[pass][m]} \in SUBSET Nat
  BY <1>2
<1>. QED
  BY <1>2, <1>3 DEF WalkFrame, FrameType, NoCandidate

\* A walk that begins has been through what its mark says.
LEMMA BeginPasses ==
    ASSUME Inv, NEW below \in Seq(FrameType), NEW m \in Modules \ walking,
           NEW pass \in Passes, NEW nested \in BOOLEAN, NEW held \in SubjectType,
           PassingIn(cand, mark, below, walking),
           pass = "written" => Inferred(m) = 0,
           BeginWalk(below, m, pass, nested, held)
    PROVE  PassingIn(cand, mark, stack', walking')
<1>1. /\ cand[m] \in Seq(NameType) /\ cand \in Lists /\ mark \in Marks
      /\ Written(m) \in Nat /\ Inferred(m) \in Nat
  <2>1. cand \in Lists /\ mark \in Marks
    BY DEF Inv, TypeOK, Lists, Marks
  <2>. QED
    BY <2>1, MarkType DEF Lists, Written, Inferred
<1>2. Count(m) \in Nat /\ Count(m) = Len(cand[m]) + 1 /\ DOMAIN cand[m] \subseteq Nat
  BY <1>1, ListIndex DEF Count
<1>3. PICK f \in FrameType : f = WalkFrame(m, pass, nested, held)
  BY WalkFrameType
<1>4. /\ f.op = "walk" /\ f.mod = m /\ f.pass = pass /\ f.count = Len(cand[m]) + 1
      /\ f.cand = NoCandidate /\ f.step = "main"
      /\ f.todo = {c \in DOMAIN cand[m] : c >= mark[pass][m]}
  BY <1>2, <1>3 DEF WalkFrame
<1>5. mark[pass][m] = IF f.pass = "written" THEN Written(m) ELSE Inferred(m)
  BY <1>4 DEF Passes, Written, Inferred
<1>6. PICK list \in Seq(NameType), w \in Nat, i \in Nat :
         list = cand[m] /\ w = Written(m) /\ i = Inferred(m)
  BY <1>1
<1>7. AtRest(list, w, i)
  BY <1>6 DEF PassingIn, Written, Inferred
<1>8. Reading(list, w, i, f)
  <2>1. /\ f.cand = NoCandidate /\ f.count = Len(list) + 1 /\ f.step = "main"
        /\ f.pass = "written" => i = 0
        /\ f.todo = {c \in DOMAIN list : c >= (IF f.pass = "written" THEN w ELSE i)}
    BY <1>4, <1>5, <1>6
  <2>. QED
    BY <1>7, <2>1, BeginReads
<1>9. Reading(cand[f.mod], mark["written"][f.mod], mark["inferred"][f.mod], f)
  BY <1>4, <1>6, <1>8 DEF Written, Inferred
<1>10. PassingIn(cand, mark, <<f>> \o below, walking \cup {f.mod})
  BY <1>4, <1>9, PassBegin
<1>. QED
  BY <1>3, <1>4, <1>10 DEF BeginWalk

\* The clone of a key is names that no pass has been through.
LEMMA CloneFresh ==
    ASSUME NEW k \in Keys, NEW c \in Nat
    PROVE  Clone(k, c) \in Seq(Fresh)
<1>1. SortOf[k] \in HeadSorts /\ (k \in Assigns) \in BOOLEAN
  BY KeysAssumption
<1>. DEFINE o == IF SortOf[k] = "method" THEN 1 ELSE c
            e == phase \in EarlyPhases
            inner == IF SortOf[k] = "class" THEN "field" ELSE "local"
            n1 == Declared(SortOf[k], o, k \in Assigns, "none", e)
            n2 == Declared(inner, c, FALSE, "none", e)
<1>2. /\ o \in Nat /\ e \in BOOLEAN /\ inner \in HeadSorts \cup BodySorts
      /\ "none" \in TypeStates
  BY DEF TypeStates, BodySorts
<1>3. Clone(k, c) = <<n1, n2>>
  BY DEF Clone
<1>4. n1 \in Fresh /\ n2 \in Fresh
  BY <1>1, <1>2, DeclaredFresh
<1>. HIDE DEF n1, n2
<1>. QED
  BY <1>3, <1>4

\* What Instantiate does to the list of the module that declares the generic.
LEMMA CloneStep ==
    ASSUME Inv, NEW k \in Keys, Instantiate(k)
    PROVE  \E list \in Seq(NameType), c \in Nat, n \in NameType :
              /\ c \in DOMAIN list
              /\ Quiet(cand[HostOf[k]], list)
              /\ \/ /\ memo[k] = 0 /\ c = Len(cand[HostOf[k]]) + 1
                    /\ list = cand[HostOf[k]] \o Clone(k, c)
                 \/ memo[k] # 0 /\ c = memo[k] /\ list = cand[HostOf[k]]
              /\ n = IF list[c].type = "none" /\ list[c].sort = "class"
                     THEN [list[c] EXCEPT !.type = "written"] ELSE list[c]
              /\ cand' = [cand EXCEPT ![HostOf[k]] = [list EXCEPT ![c] = n]]
              /\ memo' = [memo EXCEPT ![k] = c]
              /\ stack' = <<SignFrame(HostOf[k], c, list[c].type = "none")>> \o Asked
<1>. DEFINE m == HostOf[k]
            c == IF Found(k) = 0 THEN Count(m) ELSE Found(k)
            lists == IF Found(k) = 0 THEN Grown(m, Clone(k, c)) ELSE cand
            list == lists[m]
            fresh == list[c].type = "none"
            class == list[c].sort = "class"
            n == IF fresh /\ class THEN [list[c] EXCEPT !.type = "written"] ELSE list[c]
<1>1. m \in Modules /\ memo[k] \in Nat /\ cand \in Lists /\ memo[k] <= Len(cand[m])
  BY KeysAssumption DEF Inv, TypeOK, Lists
<1>2. cand[m] \in Seq(NameType)
  BY <1>1 DEF Lists
<1>3. Len(cand[m]) \in Nat /\ DOMAIN cand[m] = 1 .. Len(cand[m])
  BY <1>2, ListIndex
<1>4. /\ list \in Seq(NameType) /\ c \in DOMAIN list /\ Quiet(cand[m], list) /\ c \in Nat
      /\ lists = [cand EXCEPT ![m] = list]
      /\ \/ memo[k] = 0 /\ c = Len(cand[m]) + 1 /\ list = cand[m] \o Clone(k, c)
         \/ memo[k] # 0 /\ c = memo[k] /\ list = cand[m]
  <2>1. CASE memo[k] = 0
    <3>1. c = Len(cand[m]) + 1 /\ c \in Nat /\ lists = Grown(m, Clone(k, c))
      BY <1>3, <2>1 DEF Found, Count
    <3>2. Clone(k, c) \in Seq(NameType) /\ Len(Clone(k, c)) = 2 /\ Clone(k, c) \in Seq(Fresh)
      BY <3>1, CloneType, CloneFresh
    <3>3. PICK q \in Seq(Fresh) : q = Clone(k, c)
      BY <3>2
    <3>4. list = cand[m] \o q /\ lists = [cand EXCEPT ![m] = list]
      BY <1>1, <3>1, <3>3 DEF Grown, Lists
    <3>5. cand[m] \o q \in Seq(NameType) /\ Quiet(cand[m], cand[m] \o q)
      BY <1>2, QuietGrows
    <3>6. Len(cand[m] \o q) = Len(cand[m]) + 2
      <4>1. q \in Seq(NameType) /\ Len(q) = 2
        BY <3>2, <3>3
      <4>2. Len(cand[m] \o q) = Len(cand[m]) + Len(q)
        BY <1>2, <4>1, ConcatProperties
      <4>. QED
        BY <4>1, <4>2
    <3>7. c \in DOMAIN (cand[m] \o q)
      <4>1. DOMAIN (cand[m] \o q) = 1 .. Len(cand[m] \o q)
        BY <3>5, LenProperties
      <4>. QED
        BY <1>3, <3>1, <3>6, <4>1
    <3>. QED
      BY <2>1, <3>1, <3>3, <3>4, <3>5, <3>7, ZenonT(60)
  <2>2. CASE memo[k] # 0
    <3>1. c = memo[k] /\ lists = cand /\ list = cand[m]
      BY <2>2 DEF Found
    <3>2. c \in DOMAIN cand[m] /\ c \in Nat
      BY <1>1, <1>3, <2>2, <3>1
    <3>3. Quiet(cand[m], cand[m])
      BY <1>2, QuietSelf
    <3>4. cand = [cand EXCEPT ![m] = cand[m]]
      BY <1>1 DEF Lists
    <3>. QED
      BY <1>2, <2>2, <3>1, <3>2, <3>3, <3>4
  <2>. QED
    BY <2>1, <2>2
<1>5. /\ memo' = [memo EXCEPT ![k] = c]
      /\ cand' = IF fresh /\ class
                 THEN [lists EXCEPT ![m][c].type = "written"] ELSE lists
      /\ stack' = <<SignFrame(m, c, fresh)>> \o Asked
  BY SMTT(60) DEF Instantiate
<1>. HIDE DEF lists, c
<1>6. list[c] \in NameType
  BY <1>4, ListIndex
<1>7. n \in NameType
  <2>1. "written" \in TypeStates
    BY DEF TypeStates
  <2>. QED
    BY <1>6, <2>1 DEF NameType
<1>8. cand' = [cand EXCEPT ![m] = [list EXCEPT ![c] = n]]
  <2>1. PICK l \in Seq(NameType) : l = list
    BY <1>4
  <2>2. lists = [cand EXCEPT ![m] = l] /\ c \in DOMAIN l
    BY <1>4, <2>1
  <2>3. CASE fresh /\ class
    <3>1. cand' = [lists EXCEPT ![m][c].type = "written"] /\ n = [l[c] EXCEPT !.type = "written"]
      BY <1>5, <2>1, <2>3
    <3>. QED
      BY <1>1, <2>1, <2>2, <3>1 DEF Lists
  <2>4. CASE ~(fresh /\ class)
    <3>1. cand' = lists /\ n = l[c]
      BY <1>5, <2>1, <2>4
    <3>2. l = [l EXCEPT ![c] = l[c]]
      BY <2>2
    <3>. QED
      BY <2>1, <2>2, <3>1, <3>2
  <2>. QED
    BY <2>3, <2>4
<1>. HIDE DEF n, fresh, class
<1>9. n = IF list[c].type = "none" /\ list[c].sort = "class"
          THEN [list[c] EXCEPT !.type = "written"] ELSE list[c]
  BY DEF n, fresh, class
<1>10. stack' = <<SignFrame(m, c, list[c].type = "none")>> \o Asked
  BY <1>5 DEF fresh
<1>11. PICK l \in Seq(NameType), x \in NameType : l = list /\ x = n
  BY <1>4, <1>7
<1>. WITNESS l \in Seq(NameType), c \in Nat, x \in NameType
<1>. QED
  BY <1>4, <1>5, <1>8, <1>9, <1>10, <1>11, ZenonT(60)

\* Whoever instantiates waits below the signature of the clone.
LEMMA SignPushed ==
    ASSUME Inv, NEW k \in Keys, Instantiate(k)
    PROVE  \E c \in Nat, fresh \in BOOLEAN :
              stack' = <<SignFrame(HostOf[k], c, fresh)>> \o Asked
<1>1. PICK list \in Seq(NameType), c \in Nat, n \in NameType :
              /\ c \in DOMAIN list
              /\ Quiet(cand[HostOf[k]], list)
              /\ \/ /\ memo[k] = 0 /\ c = Len(cand[HostOf[k]]) + 1
                    /\ list = cand[HostOf[k]] \o Clone(k, c)
                 \/ memo[k] # 0 /\ c = memo[k] /\ list = cand[HostOf[k]]
              /\ n = IF list[c].type = "none" /\ list[c].sort = "class"
                     THEN [list[c] EXCEPT !.type = "written"] ELSE list[c]
              /\ cand' = [cand EXCEPT ![HostOf[k]] = [list EXCEPT ![c] = n]]
              /\ memo' = [memo EXCEPT ![k] = c]
              /\ stack' = <<SignFrame(HostOf[k], c, list[c].type = "none")>> \o Asked
  BY CloneStep
<1>. QED
  BY <1>1

LEMMA CloneQuiet ==
    ASSUME Inv, NEW k \in Keys, Instantiate(k)
    PROVE  QuietStep
<1>1. PICK list \in Seq(NameType), c \in Nat, n \in NameType :
              /\ c \in DOMAIN list
              /\ Quiet(cand[HostOf[k]], list)
              /\ \/ /\ memo[k] = 0 /\ c = Len(cand[HostOf[k]]) + 1
                    /\ list = cand[HostOf[k]] \o Clone(k, c)
                 \/ memo[k] # 0 /\ c = memo[k] /\ list = cand[HostOf[k]]
              /\ n = IF list[c].type = "none" /\ list[c].sort = "class"
                     THEN [list[c] EXCEPT !.type = "written"] ELSE list[c]
              /\ cand' = [cand EXCEPT ![HostOf[k]] = [list EXCEPT ![c] = n]]
              /\ memo' = [memo EXCEPT ![k] = c]
              /\ stack' = <<SignFrame(HostOf[k], c, list[c].type = "none")>> \o Asked
  BY CloneStep
<1>2. HostOf[k] \in Modules /\ cand \in Lists
  BY KeysAssumption DEF Inv, TypeOK, Lists
<1>3. list[c] \in NameType
  BY <1>1, ListIndex
<1>4. n.wrote = list[c].wrote /\ n.gave = list[c].gave /\ n.built = list[c].built
  BY <1>1, <1>3 DEF NameType
<1>5. PICK new \in Seq(NameType) : new = [list EXCEPT ![c] = n]
  BY <1>1, OneElement
<1>6. Quiet(list, new)
  BY <1>1, <1>4, <1>5, QuietUpdate
<1>7. cand[HostOf[k]] \in Seq(NameType)
  BY <1>2 DEF Lists
<1>8. Quiet(cand[HostOf[k]], new)
  BY <1>1, <1>6, <1>7, QuietTwice
<1>9. \A m \in Modules : Quiet(cand[m], [cand EXCEPT ![HostOf[k]] = new][m])
  BY <1>2, <1>8, QuietOne
<1>. QED
  BY <1>1, <1>5, <1>9 DEF QuietStep

\* What is still without a type when the signature of c is done, and gets one.
SignedBy(list, c, d) ==
    /\ list[d].type = "none"
    /\ d = c \/ (list[d].owner = c /\ list[d].sort = "field")

\* What FinishSignature does to the list of the clone's module.
LEMMA SignStep ==
    ASSUME Inv, FinishSignature
    PROVE  \E new \in Seq(NameType) :
              /\ cand' = [cand EXCEPT ![Top.mod] = new]
              /\ Quiet(cand[Top.mod], new)
              /\ DOMAIN new = DOMAIN cand[Top.mod]
              /\ \A d \in DOMAIN new :
                    new[d] = IF Top.step # "known" /\ SignedBy(cand[Top.mod], Top.cand, d)
                             THEN [cand[Top.mod][d] EXCEPT !.type = "written"]
                             ELSE cand[Top.mod][d]
<1>1. /\ Top \in FrameType /\ Top.mod \in Modules /\ cand \in Lists
  <2>1. stack \in Seq(FrameType) /\ stack # <<>> /\ cand \in Lists
    BY DEF Inv, TypeOK, Lists, FinishSignature, Working
  <2>. QED
    BY <2>1, StackTop DEF FrameType
<1>2. PICK list \in Seq(NameType) : list = cand[Top.mod]
  BY <1>1 DEF Lists
<1>3. Len(list) \in Nat /\ DOMAIN list = 1 .. Len(list)
      /\ \A d \in DOMAIN list : list[d] \in NameType
  BY ListIndex
<1>. DEFINE now(d) == IF Top.step # "known" /\ SignedBy(list, Top.cand, d)
                      THEN [list[d] EXCEPT !.type = "written"] ELSE list[d]
<1>4. ASSUME NEW d \in DOMAIN list
      PROVE  /\ now(d) \in NameType /\ now(d).wrote = list[d].wrote
             /\ now(d).gave = list[d].gave /\ now(d).built = list[d].built
  BY <1>3, ZenonT(60) DEF NameType, TypeStates
<1>5. PICK new : new = [d \in DOMAIN list |-> now(d)]
  OBVIOUS
<1>. HIDE DEF now
<1>6. new \in Seq(NameType) /\ DOMAIN new = DOMAIN list
  <2>1. new \in [1 .. Len(list) -> NameType]
    BY <1>3, <1>4, <1>5
  <2>. QED
    BY <1>3, <1>5, <2>1
<1>7. Len(new) = Len(list)
  <2>1. Len(new) \in Nat /\ DOMAIN new = 1 .. Len(new)
    BY <1>6, LenProperties
  <2>2. \A a, b \in Nat : 1 .. a = 1 .. b => a = b
    <3>1. ASSUME NEW a \in Nat, NEW b \in Nat, 1 .. a = 1 .. b, a < b
          PROVE  FALSE
      <4>1. b \in 1 .. b /\ b \notin 1 .. a
        BY <3>1
      <4>. QED
        BY <3>1, <4>1
    <3>2. ASSUME NEW a \in Nat, NEW b \in Nat, 1 .. a = 1 .. b
          PROVE  a = b
      <4>1. ~(a < b) /\ ~(b < a)
        BY <3>1, <3>2
      <4>. QED
        BY <4>1
    <3>. QED
      BY <3>2
  <2>. QED
    BY <1>3, <1>6, <2>1, <2>2
<1>8. Quiet(list, new)
  BY <1>3, <1>4, <1>5, <1>6, <1>7 DEF Quiet
<1>9. cand' = [cand EXCEPT ![Top.mod] = new]
  <2>1. CASE Top.step = "known"
    <3>1. \A d \in DOMAIN list : now(d) = list[d]
      BY <2>1 DEF now
    <3>2. list = [d \in DOMAIN list |-> list[d]]
      BY <1>3
    <3>3. new = list
      BY <1>5, <3>1, <3>2
    <3>4. cand' = cand
      BY <2>1 DEF FinishSignature
    <3>. QED
      BY <1>1, <1>2, <3>3, <3>4 DEF Lists
  <2>2. CASE Top.step # "known"
    <3>1. cand' = [cand EXCEPT ![Top.mod] =
                     [c \in DOMAIN list |->
                        IF /\ list[c].type = "none"
                           /\ \/ c = Top.cand
                              \/ list[c].owner = Top.cand /\ list[c].sort = "field"
                        THEN [list[c] EXCEPT !.type = "written"] ELSE list[c]]]
      BY <1>2, <2>2 DEF FinishSignature
    <3>2. new = [c \in DOMAIN list |->
                        IF /\ list[c].type = "none"
                           /\ \/ c = Top.cand
                              \/ list[c].owner = Top.cand /\ list[c].sort = "field"
                        THEN [list[c] EXCEPT !.type = "written"] ELSE list[c]]
      BY <1>5, <2>2 DEF now, SignedBy
    <3>. QED
      BY <3>1, <3>2
  <2>. QED
    BY <2>1, <2>2
<1>10. \A d \in DOMAIN new :
          new[d] = IF Top.step # "known" /\ SignedBy(list, Top.cand, d)
                   THEN [list[d] EXCEPT !.type = "written"] ELSE list[d]
  BY <1>5, <1>6 DEF now
<1>. QED
  BY <1>2, <1>6, <1>8, <1>9, <1>10, ZenonT(60)

LEMMA SignQuiet == ASSUME Inv, FinishSignature PROVE QuietStep
<1>1. PICK new \in Seq(NameType) : /\ cand' = [cand EXCEPT ![Top.mod] = new]
                                   /\ Quiet(cand[Top.mod], new)
  BY SignStep
<1>2. Top.mod \in Modules /\ cand \in Lists
  <2>1. stack \in Seq(FrameType) /\ stack # <<>> /\ cand \in Lists
    BY DEF Inv, TypeOK, Lists, FinishSignature, Working
  <2>. QED
    BY <2>1, StackTop DEF FrameType
<1>3. \A n \in Modules : Quiet(cand[n], [cand EXCEPT ![Top.mod] = new][n])
  BY <1>1, <1>2, QuietOne
<1>. QED
  BY <1>1, <1>3 DEF QuietStep

\* What is declared after a name that is written back.
LEMMA UpdateGrows ==
    ASSUME NEW list \in Seq(NameType), NEW c \in DOMAIN list, NEW n \in NameType,
           n.wrote = list[c].wrote, n.gave = list[c].gave, n.built = list[c].built,
           NEW names \in Seq(Fresh)
    PROVE  /\ [list EXCEPT ![c] = n] \o names \in Seq(NameType)
           /\ Quiet(list, [list EXCEPT ![c] = n] \o names)
<1>1. PICK t \in Seq(NameType) : t = [list EXCEPT ![c] = n]
  BY OneElement
<1>2. Quiet(list, t)
  BY <1>1, QuietUpdate
<1>3. t \o names \in Seq(NameType) /\ Quiet(t, t \o names)
  BY QuietGrows
<1>4. Quiet(list, t \o names)
  BY <1>2, <1>3, QuietTwice
<1>. QED
  BY <1>1, <1>3, <1>4

LEMMA ScanQuiet == ASSUME Inv, ScanDeclaration PROVE QuietStep
<1>1. at \in Modules /\ cand \in Lists
  BY DEF ScanDeclaration, InLoop, Inv, TypeOK, Lists
<1>2. PICK d \in Unscanned(at) :
         cand' = [cand EXCEPT ![at] =
                    [cand[at] EXCEPT ![d] = [cand[at][d] EXCEPT !.scanned = TRUE]]
                      \o (IF cand[at][d].assigns
                          THEN <<Declared("implicit", d, FALSE, "none", TRUE)>>
                          ELSE <<>>)]
  BY DEF ScanDeclaration
<1>3. PICK list \in Seq(NameType) : list = cand[at]
  BY <1>1 DEF Lists
<1>4. d \in DOMAIN list /\ list[d] \in NameType /\ d \in Nat
  BY <1>3, ListIndex DEF Unscanned, RootHeads
<1>5. PICK n \in NameType : n = [list[d] EXCEPT !.scanned = TRUE]
  BY <1>4 DEF NameType
<1>6. n.wrote = list[d].wrote /\ n.gave = list[d].gave /\ n.built = list[d].built
  BY <1>4, <1>5 DEF NameType
<1>7. PICK names \in Seq(Fresh) :
         names = IF list[d].assigns
                 THEN <<Declared("implicit", d, FALSE, "none", TRUE)>> ELSE <<>>
  <2>1. "implicit" \in HeadSorts \cup BodySorts /\ "none" \in TypeStates
    BY DEF BodySorts, TypeStates
  <2>2. PICK x \in Fresh : x = Declared("implicit", d, FALSE, "none", TRUE)
    BY <1>4, <2>1, DeclaredFresh
  <2>3. <<x>> \in Seq(Fresh)
    OBVIOUS
  <2>4. <<>> \in Seq(Fresh)
    OBVIOUS
  <2>. QED
    BY <2>2, <2>3, <2>4
<1>8. PICK new \in Seq(NameType) : /\ new = [list EXCEPT ![d] = n] \o names
                                   /\ Quiet(list, new)
  BY <1>4, <1>6, UpdateGrows
<1>9. cand' = [cand EXCEPT ![at] = new]
  BY <1>2, <1>3, <1>5, <1>7, <1>8
<1>10. \A m \in Modules : Quiet(cand[m], [cand EXCEPT ![at] = new][m])
  BY <1>1, <1>3, <1>8, QuietOne
<1>. QED
  BY <1>9, <1>10 DEF QuietStep

LEMMA SwitchQuiet == ASSUME Inv, LowerSwitch PROVE QuietStep
<1>1. at \in Modules /\ cand \in Lists
  BY DEF LowerSwitch, InLoop, Inv, TypeOK, Lists
<1>2. PICK names \in Seq(Fresh) : names = <<Declared("switch", 1, FALSE, "given", FALSE)>>
  <2>1. "switch" \in HeadSorts \cup BodySorts /\ "given" \in TypeStates
    BY DEF BodySorts, TypeStates
  <2>2. PICK x \in Fresh : x = Declared("switch", 1, FALSE, "given", FALSE)
    BY <2>1, DeclaredFresh
  <2>3. <<x>> \in Seq(Fresh)
    OBVIOUS
  <2>. QED
    BY <2>2, <2>3
<1>3. PICK list \in Seq(NameType) : list = cand[at]
  BY <1>1 DEF Lists
<1>4. PICK new \in Seq(NameType) : new = list \o names /\ Quiet(list, new)
  BY QuietGrows
<1>5. cand' = [cand EXCEPT ![at] = new]
  BY <1>1, <1>2, <1>3, <1>4 DEF LowerSwitch, Grown, Lists
<1>6. \A m \in Modules : Quiet(cand[m], [cand EXCEPT ![at] = new][m])
  BY <1>1, <1>3, <1>4, QuietOne
<1>. QED
  BY <1>5, <1>6 DEF QuietStep

\* The steps that leave every list as it was.
LEMMA SameQuiet == ASSUME Inv, cand' = cand PROVE QuietStep
<1>1. \A m \in Modules : cand[m] \in Seq(NameType)
  BY DEF Inv, TypeOK
<1>. QED
  BY <1>1, QuietSelf DEF QuietStep

\* Whoever asks is the same walk.
LEMMA AskedPasses ==
    ASSUME Inv, OneWalk(stack, walking), Passing
    PROVE  /\ Asked \in Seq(FrameType)
           /\ PassingIn(cand, mark, Asked, walking)
           /\ OneWalk(Asked, walking)
<1>1. stack \in Seq(FrameType)
  BY DEF Inv, TypeOK
<1>2. CASE stack = <<>>
  BY <1>1, <1>2 DEF Asked, Passing
<1>3. CASE stack # <<>>
  <2>1. /\ Top \in FrameType /\ Tail(stack) \in Seq(FrameType)
        /\ stack = <<Top>> \o Tail(stack)
    BY <1>1, <1>3, StackTop
  <2>2. PICK f \in FrameType, s \in Seq(FrameType) : f = Top /\ s = Tail(stack)
    BY <2>1
  <2>3. PICK g \in FrameType : g = [f EXCEPT !.asked = TRUE]
    BY DEF FrameType
  <2>4. /\ g.op = f.op /\ g.mod = f.mod /\ g.count = f.count /\ g.pass = f.pass
        /\ g.todo = f.todo /\ g.cand = f.cand /\ g.step = f.step
    BY <2>3 DEF FrameType
  <2>5. Asked = <<g>> \o s
    BY <1>3, <2>2, <2>3 DEF Asked
  <2>6. Asked \in Seq(FrameType)
    BY <2>5, SeqPush
  <2>7. OneWalk(Asked, walking)
    BY <1>1, <1>3, <2>2, <2>4, <2>5, SwapTop
  <2>8. PassingIn(cand, mark, <<f>> \o s, walking) /\ OneWalk(<<f>> \o s, walking)
    BY <2>1, <2>2 DEF Passing
  <2>9. CASE f.op = "walk"
    <3>1. f \in WalksIn(<<f>> \o s)
      BY <2>9, FramesPush
    <3>2. Reading(cand[f.mod], mark["written"][f.mod], mark["inferred"][f.mod], f)
      BY <2>8, <3>1 DEF PassingIn
    <3>3. Reading(cand[f.mod], mark["written"][f.mod], mark["inferred"][f.mod], g)
      BY <2>4, <3>2, ZenonT(60) DEF Reading, Through
    <3>4. PassingIn(cand, mark, <<g>> \o s, walking)
      BY <2>4, <2>8, <2>9, <3>3, PassTop
    <3>. QED
      BY <2>5, <2>6, <2>7, <3>4
  <2>10. CASE f.op # "walk"
    <3>1. WalksIn(<<f>> \o s) = WalksIn(s) /\ WalksIn(<<g>> \o s) = WalksIn(s)
      BY <2>4, <2>10, FramesPush
    <3>2. PassingIn(cand, mark, <<g>> \o s, walking)
      BY <2>8, <3>1 DEF PassingIn
    <3>. QED
      BY <2>5, <2>6, <2>7, <3>2
  <2>. QED
    BY <2>9, <2>10
<1>. QED
  BY <1>2, <1>3

\* A signature is a frame, and no walk.
LEMMA SignFrameType ==
    ASSUME Inv, NEW m \in Modules, NEW c \in Nat, NEW fresh \in BOOLEAN
    PROVE  SignFrame(m, c, fresh) \in FrameType /\ SignFrame(m, c, fresh).op = "sign"
<1>1. subject \in SubjectType /\ "written" \in Passes
  BY DEF Inv, TypeOK, Passes
<1>2. (IF fresh THEN "main" ELSE "known") \in {"main", "late", "known"}
  OBVIOUS
<1>3. (~fresh) \in BOOLEAN /\ {} \in SUBSET Nat /\ 0 \in Nat
  OBVIOUS
<1>. QED
  BY <1>1, <1>2, <1>3 DEF SignFrame, FrameType

LEMMA ClonePasses ==
    ASSUME Inv, Inv', OneWalk(stack, walking), Passing, NEW k \in Keys, Instantiate(k)
    PROVE  Passing'
<1>1. PICK c \in Nat, fresh \in BOOLEAN :
         stack' = <<SignFrame(HostOf[k], c, fresh)>> \o Asked
  BY SignPushed
<1>2. PICK f \in FrameType : f = SignFrame(HostOf[k], c, fresh) /\ f.op = "sign"
  BY KeysAssumption, SignFrameType
<1>3. PICK s \in Seq(FrameType) : s = Asked /\ PassingIn(cand, mark, s, walking)
  BY AskedPasses
<1>4. stack' = <<f>> \o s /\ WalksIn(<<f>> \o s) = WalksIn(s)
  BY <1>1, <1>2, <1>3, FramesPush
<1>5. cand \in Lists /\ cand' \in Lists /\ mark \in Marks
  BY DEF Inv, TypeOK, Lists, Marks
<1>6. \A m \in Modules : Quiet(cand[m], cand'[m])
  BY CloneQuiet DEF QuietStep
<1>7. PassingIn(cand', mark, stack', walking)
  BY <1>3, <1>4, <1>5, <1>6, PassQuiet
<1>. QED
  BY <1>7, Zenon DEF Passing, Instantiate

\* catch_up begins a walk in a module no walk is in, or leaves the stack.
LEMMA CatchUpPasses ==
    ASSUME Inv, NEW below \in Seq(FrameType), NEW m \in Modules,
           NEW held \in SubjectType, PassingIn(cand, mark, below, walking),
           CatchUp(below, m, held)
    PROVE  PassingIn(cand, mark, stack', walking')
<1>1. CASE m \in walking \/ ~Pending(m, CatchUpPass(m))
  BY <1>1 DEF CatchUp
<1>2. CASE ~(m \in walking \/ ~Pending(m, CatchUpPass(m)))
  <2>1. BeginWalk(below, m, CatchUpPass(m), TRUE, held)
    BY <1>2 DEF CatchUp
  <2>2. CatchUpPass(m) \in Passes /\ m \in Modules \ walking
    BY <1>2 DEF CatchUpPass, Passes
  <2>3. Inferred(m) \in Nat
    <3>1. mark \in Marks
      BY DEF Inv, TypeOK, Marks
    <3>. QED
      BY <3>1, MarkType DEF Inferred
  <2>4. CatchUpPass(m) = "written" => Inferred(m) = 0
    BY <2>3 DEF CatchUpPass, Inferred
  <2>5. PICK pass \in Passes : pass = CatchUpPass(m)
    BY <2>2
  <2>. QED
    BY <2>1, <2>2, <2>4, <2>5, BeginPasses
<1>. QED
  BY <1>1, <1>2

LEMMA SignPasses ==
    ASSUME Inv, Inv', OneWalk(stack, walking), Passing, FinishSignature
    PROVE  Passing'
<1>1. stack \in Seq(FrameType) /\ stack # <<>> /\ Top.op = "sign"
  BY DEF Inv, TypeOK, FinishSignature, Working
<1>2. PICK f \in FrameType, s \in Seq(FrameType) :
         f = Top /\ s = Tail(stack) /\ stack = <<f>> \o s
  BY <1>1, StackTop, Zenon
<1>3. WalksIn(<<f>> \o s) = WalksIn(s)
  BY <1>1, <1>2, FramesPush
<1>4. PassingIn(cand, mark, s, walking)
  BY <1>2, <1>3 DEF Passing, PassingIn
<1>5. CatchUp(s, f.mod, f.held) /\ f.mod \in Modules /\ f.held \in SubjectType
  BY <1>2 DEF FinishSignature, FrameType
<1>6. PassingIn(cand, mark, stack', walking')
  BY <1>4, <1>5, CatchUpPasses
<1>7. /\ cand \in Lists /\ cand' \in Lists /\ mark \in Marks
      /\ stack' \in Seq(FrameType)
  BY DEF Inv, TypeOK, Lists, Marks
<1>8. \A m \in Modules : Quiet(cand[m], cand'[m])
  BY SignQuiet DEF QuietStep
<1>9. PassingIn(cand', mark, stack', walking')
  BY <1>6, <1>7, <1>8, PassQuiet
<1>. QED
  BY <1>9 DEF Passing, FinishSignature

\* Compilation begins its own walks on an empty call stack.
LEMMA ModulePasses ==
    ASSUME Inv, OneWalk(stack, walking), Passing, NotYetInferred, WalkModule
    PROVE  Passing'
<1>1. /\ stack = <<>> /\ at \in Modules /\ mark' = mark /\ cand' = cand
      /\ BeginWalk(<<>>, at, PassOfLoop, FALSE, subject)
      /\ phase \in {"collect", "infer", "recheck"}
  BY DEF WalkModule, Idle
<1>2. walking = {}
  <2>1. WalksOf(<<>>) = {}
    BY DEF WalksOf
  <2>. QED
    BY <1>1, <2>1 DEF OneWalk
<1>3. PICK pass \in Passes, held \in SubjectType : pass = PassOfLoop /\ held = subject
  BY DEF PassOfLoop, Passes, Inv, TypeOK
<1>4. pass = "written" => Inferred(at) = 0
  BY <1>1, <1>3 DEF PassOfLoop, NotYetInferred, EarlyPhases, Inferred
<1>5. PassingIn(cand, mark, <<>>, walking)
  BY <1>1 DEF Passing
<1>6. /\ at \in Modules \ walking /\ <<>> \in Seq(FrameType) /\ FALSE \in BOOLEAN
      /\ BeginWalk(<<>>, at, pass, FALSE, held)
  <2>1. BeginWalk(<<>>, at, pass, FALSE, held)
    BY <1>1, <1>3
  <2>2. at \in Modules \ walking
    BY <1>1, <1>2
  <2>3. <<>> \in Seq(FrameType) /\ FALSE \in BOOLEAN
    OBVIOUS
  <2>. QED
    BY <2>1, <2>2, <2>3
<1>7. PassingIn(cand, mark, stack', walking')
  BY <1>4, <1>5, <1>6, BeginPasses
<1>. QED
  BY <1>1, <1>7 DEF Passing

LEMMA PassingStep ==
    Inv /\ Inv' /\ OneWalk(stack, walking) /\ NotYetInferred /\ Passing /\ [Next]_vars
       => Passing'
<1>. SUFFICES ASSUME Inv, Inv', OneWalk(stack, walking), NotYetInferred, Passing,
                     [Next]_vars
              PROVE  Passing'
  OBVIOUS
<1>1. CASE TakeCandidate \/ FinishLate \/ FinishWritten \/ FinishInferred
           \/ LowerLoop \/ NextRound \/ FinishWalk
  BY <1>1, TakePasses, LatePasses, WrittenPasses, InferredPasses, LoopPasses,
     RoundPasses, EndPasses
<1>2. CASE \E k \in Keys : Instantiate(k)
  BY <1>2, ClonePasses
<1>3. CASE FinishSignature
  BY <1>3, SignPasses
<1>4. CASE WalkModule
  BY <1>4, ModulePasses
<1>5. CASE ScanDeclaration
  <2>1. stack' = stack /\ mark' = mark /\ walking' = walking
    BY <1>5 DEF ScanDeclaration
  <2>. QED
    BY <1>5, <2>1, ScanQuiet, IdlePasses
<1>6. CASE LowerSwitch
  <2>1. stack' = stack /\ mark' = mark /\ walking' = walking
    BY <1>6 DEF LowerSwitch
  <2>. QED
    BY <1>6, <2>1, SwitchQuiet, IdlePasses
<1>7. CASE NothingToWalk \/ LeaveScanned \/ LeaveSwitches \/ CheckDeclaration
           \/ LeaveChecked \/ NextLoop \/ Finished \/ UNCHANGED vars
  <2>1. cand' = cand /\ stack' = stack /\ mark' = mark /\ walking' = walking
    BY <1>7 DEF NothingToWalk, LeaveScanned, LeaveSwitches, CheckDeclaration,
                LeaveChecked, NextLoop, Finished, vars
  <2>. QED
    BY <2>1, SameQuiet, IdlePasses
<1>. QED
  BY <1>1, <1>2, <1>3, <1>4, <1>5, <1>6, <1>7 DEF Next

-----------------------------------------------------------------------------
(* Nothing is inferred before its time.                                    *)

\* The steps of a walk, but for its last, swap the frame on top for one that
\* differs in what it has in hand.
LEMMA WalkSwaps ==
    ASSUME Inv, \/ TakeCandidate \/ FinishLate \/ FinishWritten \/ FinishInferred
                \/ LowerLoop \/ NextRound
    PROVE  /\ stack # <<>> /\ Top.op = "walk"
           /\ \E g \in FrameType :
                 /\ stack' = <<g>> \o Tail(stack)
                 /\ g.op = Top.op /\ g.mod = Top.mod /\ g.pass = Top.pass
                 /\ g.nested = Top.nested /\ g.held = Top.held
                 /\ g.count = IF NextRound THEN Count(Top.mod) ELSE Top.count
<1>1. Working("walk")
  BY Zenon DEF TakeCandidate, FinishLate, FinishWritten, FinishInferred, LowerLoop,
         NextRound, RoundIsOver, Typing
<1>2. stack \in Seq(FrameType) /\ stack # <<>> /\ cand \in Lists
  BY <1>1 DEF Inv, TypeOK, Working, Lists
<1>3. PICK f \in FrameType : f = Top
  BY <1>2, StackTop
<1>4. ~NextRound => Top.todo # {} \/ Top.cand # NoCandidate
  BY <1>1, Zenon DEF TakeCandidate, FinishLate, FinishWritten, FinishInferred, LowerLoop,
              Typing
<1>5. NextRound => Top.todo = {} /\ Top.cand = NoCandidate
  BY DEF NextRound, RoundIsOver
<1>6. CASE TakeCandidate
  <2>1. PICK c \in f.todo : stack' = <<[f EXCEPT !.cand = c, !.todo = @ \ {c},
                     !.asked = FALSE,
                     !.step = IF IsLate(f, c) THEN "late" ELSE "main"]>> \o Tail(stack)
    BY <1>3, <1>6 DEF TakeCandidate, SetTop
  <2>2. c \in Nat /\ f.todo \ {c} \in SUBSET Nat
    BY DEF FrameType
  <2>3. PICK st \in {"main", "late"} : st = IF IsLate(f, c) THEN "late" ELSE "main"
    OBVIOUS
  <2>4. PICK g : g = [f EXCEPT !.cand = c, !.todo = f.todo \ {c}, !.asked = FALSE,
                               !.step = st]
    OBVIOUS
  <2>5. /\ g \in FrameType /\ g.op = f.op /\ g.mod = f.mod /\ g.pass = f.pass
        /\ g.nested = f.nested /\ g.held = f.held /\ g.count = f.count
    BY <2>2, <2>4 DEF FrameType
  <2>6. stack' = <<g>> \o Tail(stack)
    BY <2>1, <2>3, <2>4
  <2>7. ~NextRound
    BY <1>3, <1>5, <2>1
  <2>. QED
    BY <1>1, <1>3, <2>5, <2>6, <2>7 DEF Working
<1>7. CASE FinishLate
  <2>4. PICK g : g = [f EXCEPT !.step = "main", !.asked = FALSE]
    OBVIOUS
  <2>5. /\ g \in FrameType /\ g.op = f.op /\ g.mod = f.mod /\ g.pass = f.pass
        /\ g.nested = f.nested /\ g.held = f.held /\ g.count = f.count
    BY <2>4 DEF FrameType
  <2>6. stack' = <<g>> \o Tail(stack)
    BY <1>3, <1>7, <2>4 DEF FinishLate, SetTop
  <2>7. ~NextRound
    BY <1>5, <1>7 DEF FinishLate, Typing
  <2>. QED
    BY <1>1, <1>3, <2>5, <2>6, <2>7 DEF Working
<1>8. CASE FinishWritten \/ FinishInferred \/ LowerLoop
  <2>4. PICK g : g = [f EXCEPT !.cand = NoCandidate, !.worked = TRUE]
    OBVIOUS
  <2>5. /\ g \in FrameType /\ g.op = f.op /\ g.mod = f.mod /\ g.pass = f.pass
        /\ g.nested = f.nested /\ g.held = f.held /\ g.count = f.count
    BY <2>4 DEF FrameType, NoCandidate
  <2>6. stack' = <<g>> \o Tail(stack)
    BY <1>3, <1>8, <2>4, SMTT(60) DEF FinishWritten, FinishInferred, LowerLoop, SetTop
  <2>7. ~NextRound
    BY <1>5, <1>8, SMTT(60) DEF FinishWritten, FinishInferred, LowerLoop, Typing
  <2>. QED
    BY <1>1, <1>3, <2>5, <2>6, <2>7 DEF Working
<1>9. CASE NextRound
  <2>1. f.mod \in Modules
    BY DEF FrameType
  <2>2. cand[f.mod] \in Seq(NameType)
    BY <1>2, <2>1 DEF Lists
  <2>3. Count(f.mod) \in Nat /\ DOMAIN cand[f.mod] \subseteq Nat
    BY <2>2, ListIndex DEF Count
  <2>4. PICK t \in SUBSET Nat : t = {c \in DOMAIN cand[f.mod] : c >= f.count}
    BY <2>3
  <2>5. PICK g : g = [f EXCEPT !.todo = t, !.count = Count(f.mod)]
    OBVIOUS
  <2>6. /\ g \in FrameType /\ g.op = f.op /\ g.mod = f.mod /\ g.pass = f.pass
        /\ g.nested = f.nested /\ g.held = f.held /\ g.count = Count(f.mod)
    BY <2>3, <2>5 DEF FrameType
  <2>7. stack' = <<g>> \o Tail(stack)
    BY <1>3, <1>9, <2>4, <2>5 DEF NextRound, SetTop
  <2>. QED
    BY <1>1, <1>3, <1>9, <2>6, <2>7 DEF Working
<1>. QED
  BY <1>6, <1>7, <1>8, <1>9

LEMMA WrittenPush ==
    ASSUME NEW s \in Seq(FrameType), NEW f \in FrameType
    PROVE  AllWritten(<<f>> \o s)
              <=> (f.op = "walk" => f.pass = "written") /\ AllWritten(s)
<1>1. CASE f.op = "walk"
  <2>1. WalksIn(<<f>> \o s) = {f} \cup WalksIn(s)
    BY <1>1, FramesPush
  <2>. QED
    BY <1>1, <2>1 DEF AllWritten
<1>2. CASE f.op # "walk"
  <2>1. WalksIn(<<f>> \o s) = WalksIn(s)
    BY <1>2, FramesPush
  <2>. QED
    BY <1>2, <2>1 DEF AllWritten
<1>. QED
  BY <1>1, <1>2

\* The frame on top swapped for one of the same pass.
LEMMA WrittenSwap ==
    ASSUME Inv, stack # <<>>, AllWritten(stack), NEW g \in FrameType,
           g.op = Top.op, g.pass = Top.pass
    PROVE  AllWritten(<<g>> \o Tail(stack))
<1>1. PICK f \in FrameType, s \in Seq(FrameType) :
         f = Top /\ s = Tail(stack) /\ stack = <<f>> \o s
  BY StackTop, Zenon DEF Inv, TypeOK
<1>. QED
  BY <1>1, WrittenPush, ZenonT(60)

\* A walk of the written pass that begins.
LEMMA WrittenBegin ==
    ASSUME Inv, NEW below \in Seq(FrameType), NEW m \in Modules, AllWritten(below),
           NEW nested \in BOOLEAN, NEW held \in SubjectType,
           BeginWalk(below, m, "written", nested, held)
    PROVE  AllWritten(stack')
<1>1. cand[m] \in Seq(NameType)
  BY DEF Inv, TypeOK
<1>2. Count(m) \in Nat /\ DOMAIN cand[m] \subseteq Nat
  BY <1>1, ListIndex DEF Count
<1>3. PICK f \in FrameType : f = WalkFrame(m, "written", nested, held)
  <2>1. {c \in DOMAIN cand[m] : c >= mark["written"][m]} \in SUBSET Nat
    BY <1>2
  <2>. QED
    BY <1>2, <2>1 DEF WalkFrame, FrameType, NoCandidate, Passes
<1>4. f.pass = "written" /\ stack' = <<f>> \o below
  BY <1>3 DEF BeginWalk, WalkFrame
<1>. QED
  BY <1>4, WrittenPush

LEMMA NotYetStep ==
    Inv /\ NotYetInferred /\ [Next]_vars => NotYetInferred'
<1>. SUFFICES ASSUME Inv, NotYetInferred, [Next]_vars, phase' \in EarlyPhases
              PROVE  /\ \A m \in Modules : mark'["inferred"][m] = 0
                     /\ AllWritten(stack')
  BY DEF NotYetInferred
<1>1. phase \in EarlyPhases
  <2>1. phase' = phase \/ NextLoop
    BY Zenon DEF Next, TakeCandidate, FinishLate, FinishWritten, FinishInferred, LowerLoop,
           NextRound, FinishWalk, Instantiate, FinishSignature, WalkModule,
           NothingToWalk, ScanDeclaration, LeaveScanned, LowerSwitch, LeaveSwitches,
           CheckDeclaration, LeaveChecked, Finished, vars
  <2>. QED
    BY <2>1 DEF NextLoop, Begin, EarlyPhases
<1>2. (\A m \in Modules : mark["inferred"][m] = 0) /\ AllWritten(stack)
  BY <1>1 DEF NotYetInferred
<1>3. stack \in Seq(FrameType) /\ mark \in Marks /\ cand \in Lists
  BY DEF Inv, TypeOK, Marks, Lists
<1>4. ASSUME stack # <<>>
      PROVE  \E f \in FrameType, s \in Seq(FrameType) :
                /\ f = Top /\ s = Tail(stack) /\ stack = <<f>> \o s /\ AllWritten(s)
                /\ f.op = "walk" => f.pass = "written"
  <2>1. PICK f \in FrameType, s \in Seq(FrameType) :
           f = Top /\ s = Tail(stack) /\ stack = <<f>> \o s
    BY <1>3, <1>4, StackTop, Zenon
  <2>2. AllWritten(<<f>> \o s)
    BY <1>2, <2>1
  <2>3. AllWritten(s) /\ (f.op = "walk" => f.pass = "written")
    BY <2>2, WrittenPush
  <2>. QED
    BY <2>1, <2>3
<1>5. CASE stack' = stack /\ mark' = mark
  BY <1>2, <1>5
<1>6. ASSUME mark' = mark, stack # <<>>, NEW g, stack' = <<g>> \o Tail(stack),
             Top \in FrameType => g \in FrameType /\ g.op = Top.op /\ g.pass = Top.pass
      PROVE  AllWritten(stack')
  BY <1>2, <1>3, <1>6, StackTop, WrittenSwap
<1>7. CASE TakeCandidate \/ FinishLate \/ FinishWritten \/ FinishInferred
           \/ LowerLoop \/ NextRound
  <2>1. stack # <<>> /\ mark' = mark
    BY <1>7, Zenon DEF TakeCandidate, FinishLate, FinishWritten, FinishInferred, LowerLoop,
                NextRound, RoundIsOver, Typing, Working
  <2>3. \E g \in FrameType : /\ stack' = <<g>> \o Tail(stack)
                             /\ g.op = Top.op /\ g.pass = Top.pass
    BY <1>7, WalkSwaps
  <2>. QED
    BY <1>2, <1>6, <2>1, <2>3
<1>8. CASE FinishWalk
  <2>1. /\ stack # <<>> /\ Top.op = "walk" /\ stack' = Tail(stack)
        /\ mark' = [mark EXCEPT ![Top.pass][Top.mod] = Top.count]
    BY <1>8 DEF FinishWalk, RoundIsOver, Working
  <2>2. Top.pass = "written" /\ AllWritten(Tail(stack))
    BY <1>4, <2>1
  <2>3. mark'["inferred"] = mark["inferred"]
    BY <1>3, <2>1, <2>2 DEF Marks, Passes
  <2>. QED
    BY <1>2, <2>1, <2>2, <2>3
<1>9. CASE \E k \in Keys : Instantiate(k)
  <2>1. PICK k \in Keys : Instantiate(k)
    BY <1>9
  <2>2. PICK c \in Nat, fresh \in BOOLEAN :
           stack' = <<SignFrame(HostOf[k], c, fresh)>> \o Asked
    BY <2>1, SignPushed
  <2>3. PICK f \in FrameType : f = SignFrame(HostOf[k], c, fresh) /\ f.op = "sign"
    BY KeysAssumption, SignFrameType
  <2>4. Asked \in Seq(FrameType) /\ AllWritten(Asked)
    <3>1. CASE stack = <<>>
      BY <1>2, <1>3, <3>1 DEF Asked
    <3>2. CASE stack # <<>>
      <4>1. PICK h \in FrameType, s \in Seq(FrameType) :
               h = Top /\ s = Tail(stack) /\ stack = <<h>> \o s /\ AllWritten(s)
               /\ (h.op = "walk" => h.pass = "written")
        BY <1>4, <3>2
      <4>2. PICK g \in FrameType : g = [h EXCEPT !.asked = TRUE]
        BY DEF FrameType
      <4>3. g.op = h.op /\ g.pass = h.pass
        BY <4>2 DEF FrameType
      <4>4. Asked = <<g>> \o s
        BY <3>2, <4>1, <4>2 DEF Asked
      <4>5. AllWritten(<<g>> \o s)
        BY <4>1, <4>3, WrittenPush
      <4>. QED
        BY <4>4, <4>5, SeqPush
    <3>. QED
      BY <3>1, <3>2
  <2>5. AllWritten(<<f>> \o Asked)
    BY <2>3, <2>4, WrittenPush
  <2>. QED
    BY <1>2, <2>1, <2>2, <2>3, <2>5, SMTT(60) DEF Instantiate
<1>10. CASE FinishSignature
  <2>1. stack # <<>> /\ mark' = mark /\ CatchUp(Tail(stack), Top.mod, Top.held)
    BY <1>10 DEF FinishSignature, Working
  <2>2. PICK f \in FrameType, s \in Seq(FrameType) :
           f = Top /\ s = Tail(stack) /\ stack = <<f>> \o s /\ AllWritten(s)
    BY <1>4, <2>1
  <2>3. f.mod \in Modules /\ f.held \in SubjectType
    BY DEF FrameType
  <2>4. CatchUpPass(f.mod) = "written"
    BY <1>2, <2>3 DEF CatchUpPass
  <2>5. stack' = s \/ BeginWalk(s, f.mod, "written", TRUE, f.held)
    BY <2>1, <2>2, <2>4 DEF CatchUp
  <2>6. AllWritten(stack')
    BY <2>2, <2>3, <2>5, WrittenBegin
  <2>. QED
    BY <1>2, <2>1, <2>6
<1>11. CASE WalkModule
  <2>1. /\ stack = <<>> /\ at \in Modules /\ mark' = mark
        /\ BeginWalk(<<>>, at, PassOfLoop, FALSE, subject)
        /\ phase \in {"collect", "infer", "recheck"}
    BY <1>11 DEF WalkModule, Idle
  <2>2. PassOfLoop = "written"
    BY <1>1, <2>1 DEF PassOfLoop, EarlyPhases
  <2>3. subject \in SubjectType /\ <<>> \in Seq(FrameType)
    BY DEF Inv, TypeOK
  <2>4. AllWritten(<<>>)
    BY <1>2, <2>1
  <2>5. BeginWalk(<<>>, at, "written", FALSE, subject)
    BY <2>1, <2>2
  <2>6. AllWritten(stack')
    BY <2>1, <2>3, <2>4, <2>5, WrittenBegin
  <2>. QED
    BY <1>2, <2>1, <2>6
<1>12. CASE NothingToWalk \/ ScanDeclaration \/ LeaveScanned \/ LowerSwitch
            \/ LeaveSwitches \/ CheckDeclaration \/ LeaveChecked \/ NextLoop
            \/ Finished \/ UNCHANGED vars
  <2>1. stack' = stack /\ mark' = mark
    BY <1>12 DEF NothingToWalk, ScanDeclaration, LeaveScanned, LowerSwitch,
                 LeaveSwitches, CheckDeclaration, LeaveChecked, NextLoop, Finished,
                 vars
  <2>. QED
    BY <1>5, <2>1
<1>. QED
  BY <1>7, <1>8, <1>9, <1>10, <1>11, <1>12 DEF Next

-----------------------------------------------------------------------------
(* The subject is the one the walk on top needs.                           *)

LEMMA SuitsPush ==
    ASSUME NEW s \in Seq(FrameType), NEW f \in FrameType, NEW x
    PROVE  SuitsStack(x, <<f>> \o s)
              <=> /\ Suits(x, f) /\ SuitsStack(f.held, s)
                  /\ s # <<>> => f.nested
<1>. DEFINE t == <<f>> \o s
<1>1. /\ DOMAIN t = 1 .. Len(s) + 1 /\ DOMAIN s = 1 .. Len(s) /\ Len(s) \in Nat
      /\ t[1] = f /\ \A i \in 1 .. Len(s) : t[i + 1] = s[i]
  BY PushIndex
<1>2. Len(t) = Len(s) + 1 /\ t # <<>>
  OBVIOUS
<1>3. s # <<>> <=> Len(s) >= 1
  OBVIOUS
<1>. HIDE DEF t
<1>4. ASSUME SuitsStack(x, t)
      PROVE  Suits(x, f) /\ SuitsStack(f.held, s) /\ (s # <<>> => f.nested)
  <2>1. Suits(x, f)
    BY <1>1, <1>2, <1>4 DEF SuitsStack
  <2>2. \A i \in 1 .. Len(s) : Suits(t[i].held, t[i + 1]) /\ t[i].nested
    BY <1>1, <1>2, <1>4 DEF SuitsStack
  <2>3. s # <<>> => f.nested /\ Suits(f.held, s[1])
    BY <1>1, <1>3, <2>2
  <2>4. ASSUME NEW i \in 1 .. Len(s) - 1
        PROVE  Suits(s[i].held, s[i + 1]) /\ s[i].nested
    <3>1. i \in 1 .. Len(s) /\ i + 1 \in 1 .. Len(s)
      BY <1>1
    <3>2. t[i + 1] = s[i] /\ t[(i + 1) + 1] = s[i + 1]
      BY <1>1, <3>1
    <3>. QED
      BY <2>2, <3>1, <3>2
  <2>. QED
    BY <2>1, <2>3, <2>4 DEF SuitsStack
<1>5. ASSUME Suits(x, f), SuitsStack(f.held, s), s # <<>> => f.nested
      PROVE  SuitsStack(x, t)
  <2>1. ASSUME NEW i \in 1 .. Len(t) - 1
        PROVE  Suits(t[i].held, t[i + 1]) /\ t[i].nested
    <3>1. i \in 1 .. Len(s)
      BY <1>1, <1>2
    <3>2. t[i + 1] = s[i]
      BY <1>1, <3>1
    <3>3. CASE i = 1
      BY <1>1, <1>3, <1>5, <3>1, <3>2, <3>3 DEF SuitsStack
    <3>4. CASE i # 1
      <4>1. i - 1 \in 1 .. Len(s) - 1 /\ (i - 1) + 1 = i /\ i - 1 \in 1 .. Len(s)
        BY <1>1, <3>1, <3>4
      <4>2. t[i] = s[i - 1]
        BY <1>1, <4>1
      <4>3. Suits(s[i - 1].held, s[(i - 1) + 1]) /\ s[i - 1].nested
        BY <1>5, <4>1 DEF SuitsStack
      <4>. QED
        BY <3>2, <4>1, <4>2, <4>3
    <3>. QED
      BY <3>3, <3>4
  <2>. QED
    BY <1>1, <1>5, <2>1 DEF SuitsStack
<1>. QED
  BY <1>4, <1>5 DEF t

\* A walk that begins is given its subject.
LEMMA SuitsBegin ==
    ASSUME Inv, NEW below \in Seq(FrameType), NEW m \in Modules, NEW pass \in Passes,
           NEW nested \in BOOLEAN, NEW held \in SubjectType, SuitsStack(held, below),
           below # <<>> => nested, BeginWalk(below, m, pass, nested, held)
    PROVE  SuitsStack(subject', stack')
<1>1. cand[m] \in Seq(NameType)
  BY DEF Inv, TypeOK
<1>2. Count(m) \in Nat /\ DOMAIN cand[m] \subseteq Nat
  BY <1>1, ListIndex DEF Count
<1>3. PICK f \in FrameType : f = WalkFrame(m, pass, nested, held)
  BY WalkFrameType
<1>4. /\ f.mod = m /\ f.count = Count(m) /\ f.nested = nested /\ f.held = held
      /\ stack' = <<f>> \o below
  BY <1>3 DEF BeginWalk, WalkFrame
<1>5. subject' = Subject(m, m, Count(m))
  BY DEF BeginWalk
<1>6. Suits(subject', f)
  BY <1>2, <1>4, <1>5 DEF Suits, Subject
<1>. QED
  BY <1>4, <1>6, SuitsPush

LEMMA SubjectsStep ==
    Inv /\ SubjectsSuit /\ [Next]_vars => SubjectsSuit'
<1>. SUFFICES ASSUME Inv, SuitsStack(subject, stack), [Next]_vars
              PROVE  SuitsStack(subject', stack')
  BY DEF SubjectsSuit
<1>1. stack \in Seq(FrameType) /\ cand \in Lists /\ subject \in SubjectType
  BY DEF Inv, TypeOK, Lists
<1>2. ASSUME stack # <<>>
      PROVE  \E f \in FrameType, s \in Seq(FrameType) :
                /\ f = Top /\ s = Tail(stack) /\ stack = <<f>> \o s
                /\ Suits(subject, f) /\ SuitsStack(f.held, s) /\ (s # <<>> => f.nested)
  <2>1. PICK f \in FrameType, s \in Seq(FrameType) :
           f = Top /\ s = Tail(stack) /\ stack = <<f>> \o s
    BY <1>1, <1>2, StackTop, Zenon
  <2>2. SuitsStack(subject, <<f>> \o s)
    BY <2>1
  <2>3. Suits(subject, f) /\ SuitsStack(f.held, s) /\ (s # <<>> => f.nested)
    BY <2>2, SuitsPush
  <2>. QED
    BY <2>1, <2>3
<1>3. ASSUME NEW x
      PROVE  SuitsStack(x, <<>>)
  BY DEF SuitsStack
<1>4. CASE TakeCandidate \/ FinishLate \/ FinishWritten \/ FinishInferred
           \/ LowerLoop \/ NextRound
  <2>1. /\ stack # <<>> /\ Top.op = "walk"
        /\ \E g \in FrameType :
                 /\ stack' = <<g>> \o Tail(stack)
                 /\ g.op = Top.op /\ g.mod = Top.mod /\ g.pass = Top.pass
                 /\ g.nested = Top.nested /\ g.held = Top.held
                 /\ g.count = IF NextRound THEN Count(Top.mod) ELSE Top.count
    BY <1>4, WalkSwaps
  <2>2. PICK g \in FrameType :
                 /\ stack' = <<g>> \o Tail(stack)
                 /\ g.op = Top.op /\ g.mod = Top.mod /\ g.pass = Top.pass
                 /\ g.nested = Top.nested /\ g.held = Top.held
                 /\ g.count = IF NextRound THEN Count(Top.mod) ELSE Top.count
    BY <2>1
  <2>3. PICK f \in FrameType, s \in Seq(FrameType) :
                /\ f = Top /\ s = Tail(stack) /\ stack = <<f>> \o s
                /\ Suits(subject, f) /\ SuitsStack(f.held, s) /\ (s # <<>> => f.nested)
    BY <1>2, <2>1
  <2>4. Suits(subject', g)
    <3>1. CASE NextRound
      <4>1. subject' = [subject EXCEPT !.scopes = Top.mod, !.upto = Count(Top.mod)]
        BY <3>1 DEF NextRound
      <4>2. subject'.mod = subject.mod /\ subject'.scopes = Top.mod
            /\ subject'.upto = Count(Top.mod)
        BY <1>1, <4>1 DEF SubjectType
      <4>3. Count(Top.mod) \in Nat
        <5>1. cand[f.mod] \in Seq(NameType)
          BY <1>1 DEF Lists, FrameType
        <5>. QED
          BY <2>3, <5>1, ListIndex DEF Count
      <4>. QED
        BY <2>1, <2>2, <2>3, <3>1, <4>2, <4>3 DEF Suits
    <3>2. CASE ~NextRound
      <4>1. subject' = subject
        BY <1>4, <3>2, Zenon DEF TakeCandidate, FinishLate, FinishWritten, FinishInferred,
                          LowerLoop
      <4>. QED
        BY <2>2, <2>3, <3>2, <4>1 DEF Suits
    <3>. QED
      BY <3>1, <3>2
  <2>5. SuitsStack(subject', <<g>> \o s)
    BY <2>2, <2>3, <2>4, SuitsPush
  <2>. QED
    BY <2>2, <2>3, <2>5
<1>5. CASE FinishWalk
  <2>1. /\ stack # <<>> /\ stack' = Tail(stack)
        /\ Top.nested => subject' = Top.held
    BY <1>5 DEF FinishWalk, RoundIsOver, Working
  <2>. QED
    BY <1>2, <1>3, <2>1
<1>6. CASE \E k \in Keys : Instantiate(k)
  <2>1. PICK k \in Keys : Instantiate(k)
    BY <1>6
  <2>2. PICK c \in Nat, fresh \in BOOLEAN :
           stack' = <<SignFrame(HostOf[k], c, fresh)>> \o Asked
    BY <2>1, SignPushed
  <2>3. PICK f \in FrameType : f = SignFrame(HostOf[k], c, fresh) /\ f.op = "sign"
    BY KeysAssumption, SignFrameType
  <2>4. f.held = subject /\ f.nested
    BY <2>3 DEF SignFrame
  <2>5. Asked \in Seq(FrameType) /\ SuitsStack(subject, Asked)
    <3>1. CASE stack = <<>>
      BY <1>1, <3>1 DEF Asked
    <3>2. CASE stack # <<>>
      <4>1. PICK h \in FrameType, s \in Seq(FrameType) :
               /\ h = Top /\ s = Tail(stack) /\ stack = <<h>> \o s
               /\ Suits(subject, h) /\ SuitsStack(h.held, s) /\ (s # <<>> => h.nested)
        BY <1>2, <3>2
      <4>2. PICK g \in FrameType : g = [h EXCEPT !.asked = TRUE]
        BY DEF FrameType
      <4>3. /\ g.op = h.op /\ g.mod = h.mod /\ g.count = h.count /\ g.held = h.held
            /\ g.nested = h.nested
        BY <4>2 DEF FrameType
      <4>4. Asked = <<g>> \o s
        BY <3>2, <4>1, <4>2 DEF Asked
      <4>5. Suits(subject, g)
        BY <4>1, <4>3 DEF Suits
      <4>6. SuitsStack(subject, <<g>> \o s)
        BY <4>1, <4>3, <4>5, SuitsPush
      <4>. QED
        BY <4>4, <4>6, SeqPush
    <3>. QED
      BY <3>1, <3>2
  <2>6. Suits(subject', f)
    BY <2>3 DEF Suits
  <2>7. SuitsStack(subject', <<f>> \o Asked)
    BY <2>4, <2>5, <2>6, SuitsPush
  <2>. QED
    BY <2>2, <2>3, <2>7
<1>7. CASE FinishSignature
  <2>1. stack # <<>> /\ CatchUp(Tail(stack), Top.mod, Top.held) /\ Top.op = "sign"
    BY <1>7 DEF FinishSignature, Working
  <2>2. PICK f \in FrameType, s \in Seq(FrameType) :
           f = Top /\ s = Tail(stack) /\ SuitsStack(f.held, s)
    BY <1>2, <2>1
  <2>3. f.mod \in Modules /\ f.held \in SubjectType
    BY DEF FrameType
  <2>4. \/ stack' = s /\ subject' = f.held
        \/ BeginWalk(s, f.mod, CatchUpPass(f.mod), TRUE, f.held)
    BY <2>1, <2>2 DEF CatchUp
  <2>5. PICK pass \in Passes : pass = CatchUpPass(f.mod)
    BY DEF CatchUpPass, Passes
  <2>. QED
    BY <2>2, <2>3, <2>4, <2>5, SuitsBegin
<1>8. CASE WalkModule
  <2>1. /\ stack = <<>> /\ at \in Modules
        /\ BeginWalk(<<>>, at, PassOfLoop, FALSE, subject)
    BY <1>8 DEF WalkModule, Idle
  <2>2. PICK pass \in Passes : pass = PassOfLoop
    BY DEF PassOfLoop, Passes
  <2>3. PICK s \in Seq(FrameType) : s = <<>>
    BY <1>1, <2>1
  <2>4. BeginWalk(s, at, pass, FALSE, subject) /\ SuitsStack(subject, s)
    BY <1>3, <2>1, <2>2, <2>3
  <2>. QED
    BY <1>1, <2>1, <2>3, <2>4, SuitsBegin
<1>9. CASE NothingToWalk \/ ScanDeclaration \/ LeaveScanned \/ LowerSwitch
           \/ LeaveSwitches \/ CheckDeclaration \/ LeaveChecked
  <2>1. stack' = <<>>
    BY <1>9 DEF NothingToWalk, ScanDeclaration, LeaveScanned, LowerSwitch,
                LeaveSwitches, CheckDeclaration, LeaveChecked, InLoop, Idle
  <2>. QED
    BY <1>3, <2>1
<1>10. CASE NextLoop \/ Finished \/ UNCHANGED vars
  <2>1. stack' = stack /\ subject' = subject
    BY <1>10 DEF NextLoop, Finished, vars
  <2>. QED
    BY <2>1
<1>. QED
  BY <1>4, <1>5, <1>6, <1>7, <1>8, <1>9, <1>10 DEF Next

-----------------------------------------------------------------------------
(* The passes are in order.                                                *)

PInv == /\ Inv /\ OneWalk(stack, walking) /\ NotYetInferred /\ Passing
        /\ SubjectsSuit

LEMMA InitPasses == Init => PInv
<1>. SUFFICES ASSUME Init
              PROVE  PInv
  OBVIOUS
<1>1. Inv
  BY InitInv
<1>2. stack = <<>> /\ walking = {} /\ phase = "collect"
  BY DEF Init
<1>3. OneWalk(stack, walking)
  BY <1>2 DEF OneWalk, WalksOf
<1>4. WalksIn(stack) = {}
  BY <1>2 DEF WalksIn, FramesOf
<1>5. NotYetInferred
  BY <1>4 DEF NotYetInferred, AllWritten, Init, Passes
<1>6. SubjectsSuit
  BY <1>2 DEF SubjectsSuit, SuitsStack
<1>7. ASSUME NEW m \in Modules
      PROVE  AtRest(cand[m], mark["written"][m], mark["inferred"][m])
  <2>1. mark["written"][m] = 0 /\ mark["inferred"][m] = 0
    BY DEF Init, Passes
  <2>2. PICK list \in Seq(NameType) : list = cand[m]
    BY <1>1 DEF Inv, TypeOK
  <2>3. \A c \in DOMAIN list : list[c].wrote = 0 /\ list[c].gave = 0 /\ list[c].built = 0
    BY <2>2 DEF Init, Declared
  <2>4. Len(list) \in Nat /\ DOMAIN list = 1 .. Len(list)
    BY ListIndex
  <2>5. AtRest(list, 0, 0)
    BY <2>3, <2>4 DEF AtRest, Once
  <2>. QED
    BY <2>1, <2>2, <2>5
<1>8. Passing
  BY <1>4, <1>7 DEF Passing, PassingIn
<1>. QED
  BY <1>1, <1>3, <1>5, <1>6, <1>8 DEF PInv

LEMMA NextPasses == PInv /\ [Next]_vars => PInv'
<1>1. Inv /\ [Next]_vars => Inv'
  BY NextInv
<1>2. Inv /\ OneWalk(stack, walking) /\ [Next]_vars => OneWalk(stack', walking')
  BY WalkingStep
<1>3. Inv /\ NotYetInferred /\ [Next]_vars => NotYetInferred'
  BY NotYetStep
<1>4. Inv /\ SubjectsSuit /\ [Next]_vars => SubjectsSuit'
  BY SubjectsStep
<1>. QED
  BY <1>1, <1>2, <1>3, <1>4, PassingStep DEF PInv

\* What the counts of a name in the list of a module are, walked or not.
LEMMA Counts ==
    ASSUME PInv, NEW m \in Modules, NEW c \in DOMAIN cand[m]
    PROVE  /\ cand[m][c].wrote \in {0, 1} /\ cand[m][c].gave \in {0, 1}
           /\ cand[m][c].built <= cand[m][c].wrote
           /\ cand[m][c].gave = 1 /\ cand[m][c].wrote = 0 => c = mark["written"][m]
<1>1. /\ c \in Nat /\ c # 0 /\ cand \in Lists /\ mark["written"][m] \in Nat
      /\ OneWalk(stack, walking)
  <2>1. cand \in Lists /\ mark \in Marks
    BY DEF PInv, Inv, TypeOK, Lists, Marks
  <2>2. cand[m] \in Seq(NameType)
    BY <2>1 DEF Lists
  <2>. QED
    BY <2>1, <2>2, MarkType, ListIndex DEF PInv
<1>2. CASE m \in walking
  <2>1. PICK f \in WalksIn(stack) : f.mod = m
    BY <1>1, <1>2, WalkMods
  <2>2. Reading(cand[m], mark["written"][m], mark["inferred"][m], f)
    BY <2>1 DEF PInv, Passing, PassingIn
  <2>3. /\ cand[m][c].gave = Once(f.pass = "inferred" /\ Through(f, c))
        /\ cand[m][c].wrote =
                Once(IF f.pass = "written" THEN Through(f, c)
                     ELSE \/ c < mark["written"][m]
                          \/ /\ c > mark["written"][m]
                             /\ \/ Through(f, c)
                                \/ c = f.cand /\ f.step = "main")
        /\ cand[m][c].built <= cand[m][c].wrote
    BY <2>2 DEF Reading
  <2>4. cand[m][c].gave = 1 => f.pass = "inferred" /\ Through(f, c)
    BY <2>3 DEF Once
  <2>5. cand[m][c].gave = 1 /\ cand[m][c].wrote = 0 => c = mark["written"][m]
    BY <1>1, <2>3, <2>4 DEF Once
  <2>. QED
    BY <2>3, <2>5 DEF Once
<1>3. CASE m \notin walking
  <2>1. AtRest(cand[m], mark["written"][m], mark["inferred"][m])
    BY <1>3 DEF PInv, Passing, PassingIn
  <2>2. /\ cand[m][c].gave = Once(c < mark["inferred"][m])
        /\ cand[m][c].wrote = Once(\/ c < mark["written"][m]
                                   \/ /\ c > mark["written"][m]
                                      /\ c < mark["inferred"][m])
        /\ cand[m][c].built <= cand[m][c].wrote
    BY <2>1 DEF AtRest
  <2>3. cand[m][c].gave = 1 /\ cand[m][c].wrote = 0 => c = mark["written"][m]
    BY <1>1, <2>2 DEF Once
  <2>. QED
    BY <2>2, <2>3 DEF Once
<1>. QED
  BY <1>2, <1>3

\* What PassesInOrder asks is of what the walks and the marks say.
LEMMA PassesFollow == PInv => PassesInOrder
<1>. SUFFICES ASSUME PInv
              PROVE  PassesInOrder
  OBVIOUS
<1>1. EachPassOnce
  <2>1. ASSUME NEW m \in Modules, NEW c \in DOMAIN cand[m]
        PROVE  cand[m][c].wrote <= 1 /\ cand[m][c].gave <= 1 /\ cand[m][c].built <= 1
    <3>1. cand[m] \in Seq(NameType)
      BY DEF PInv, Inv, TypeOK
    <3>2. cand[m][c].built \in Nat
      BY <3>1, ListIndex
    <3>. QED
      BY <3>2, Counts
  <2>. QED
    BY <2>1 DEF EachPassOnce
<1>2. WrittenBeforeInferred
  <2>1. ASSUME NEW m \in Modules, NEW c \in DOMAIN cand[m], NEW d \in DOMAIN cand[m],
               cand[m][c].gave > 0, cand[m][c].wrote = 0,
               cand[m][d].gave > 0, cand[m][d].wrote = 0
        PROVE  c = d
    <3>1. cand[m][c].gave = 1 /\ cand[m][d].gave = 1
      BY <2>1, Counts
    <3>. QED
      BY <2>1, <3>1, Counts
  <2>. QED
    BY <2>1 DEF WrittenBeforeInferred
<1>3. TypesItsOwnModule
  <2>1. SUFFICES ASSUME Typing
                 PROVE  /\ subject.mod = Top.mod /\ subject.scopes = Top.mod
                        /\ Top.cand < subject.upto
    BY DEF TypesItsOwnModule
  <2>2. Working("walk") /\ Top.cand # NoCandidate
    BY <2>1 DEF Typing
  <2>3. /\ Top \in FrameType /\ stack # <<>> /\ Top.op = "walk"
        /\ Reading(cand[Top.mod], Written(Top.mod), Inferred(Top.mod), Top)
    BY <2>2, TopWalks DEF PInv
  <2>4. Suits(subject, Top)
    BY <2>3 DEF PInv, SubjectsSuit, SuitsStack, Top
  <2>5. Top.cand < Top.count
    BY <2>2, <2>3 DEF Reading
  <2>6. /\ Top.cand \in Nat /\ Top.count \in Nat /\ subject.upto \in Nat
        /\ Top.count <= subject.upto
        /\ subject.mod = Top.mod /\ subject.scopes = Top.mod
    BY <2>3, <2>4 DEF Suits, FrameType, PInv, Inv, TypeOK, SubjectType
  <2>. QED
    BY <2>5, <2>6
<1>. QED
  BY <1>1, <1>2, <1>3 DEF PassesInOrder

\* Each pass goes once through a name, the written one first, and a walk types
\* the names of the module its subject is in, for every program and whatever
\* is cloned meanwhile (the comment on TypeCollector::walk).
THEOREM PassesOrdered == Spec => []PassesInOrder
<1>. QED
  BY InitPasses, NextPasses, PassesFollow, PTL DEF Spec

-----------------------------------------------------------------------------
(* What becomes of a name in one step.                                     *)

Newborn == {n \in NameType : /\ n.wrote = 0 /\ n.gave = 0 /\ n.built = 0
                             /\ n.type # "inferred"}

\* A name becomes what one of the actions makes of it; only a name that the
\* inferred pass has not been through is written or inferred.
Becomes(n, x) ==
    \/ x = n
    \/ n.type = "none" /\ x = [n EXCEPT !.type = "written"]
    \/ x = [n EXCEPT !.scanned = TRUE]
    \/ n.gave = 0 /\ x \in {Wrote(n), WroteAndAsked(n), Gave(n)}
    \/ n.gave = 0 /\ n.sort = "loop" /\ x = Gave([n EXCEPT !.sort = "local"])

Follows(list, new) ==
    /\ \A d \in DOMAIN list : d \in DOMAIN new /\ Becomes(list[d], new[d])
    /\ \A d \in DOMAIN new \ DOMAIN list : new[d] \in Newborn

\* What is in a list that grew.
LEMMA GrownNames ==
    ASSUME NEW list \in Seq(NameType), NEW names \in Seq(Fresh)
    PROVE  /\ list \o names \in Seq(NameType)
           /\ DOMAIN list \subseteq DOMAIN (list \o names)
           /\ \A d \in DOMAIN list : (list \o names)[d] = list[d]
           /\ \A d \in DOMAIN (list \o names) \ DOMAIN list : (list \o names)[d] \in Fresh
<1>. DEFINE t == list \o names
<1>1. names \in Seq(NameType)
  BY DEF Fresh
<1>2. /\ Len(list) \in Nat /\ DOMAIN list = 1 .. Len(list)
      /\ Len(names) \in Nat /\ DOMAIN names = 1 .. Len(names)
  BY <1>1, LenProperties
<1>3. /\ t \in Seq(NameType) /\ Len(t) = Len(list) + Len(names)
      /\ \A c \in 1 .. Len(t) :
            t[c] = IF c <= Len(list) THEN list[c] ELSE names[c - Len(list)]
  BY <1>1, ConcatProperties
<1>4. DOMAIN t = 1 .. Len(t)
  BY <1>3, LenProperties
<1>. HIDE DEF t
<1>5. DOMAIN list \subseteq DOMAIN t
  BY <1>2, <1>3, <1>4
<1>6. ASSUME NEW c \in DOMAIN list
      PROVE  t[c] = list[c]
  BY <1>2, <1>3, <1>4
<1>7. ASSUME NEW c \in DOMAIN t \ DOMAIN list
      PROVE  t[c] \in Fresh
  <2>1. c \in 1 .. Len(t) /\ ~(c <= Len(list)) /\ c - Len(list) \in 1 .. Len(names)
    BY <1>2, <1>3, <1>4
  <2>2. t[c] = names[c - Len(list)] /\ names[c - Len(list)] \in Fresh
    BY <1>2, <1>3, <2>1
  <2>. QED
    BY <2>2
<1>. QED
  BY <1>3, <1>5, <1>6, <1>7 DEF t

LEMMA FollowsGrown ==
    ASSUME NEW list \in Seq(NameType), NEW c \in DOMAIN list, NEW n \in NameType,
           Becomes(list[c], n), NEW names \in Seq(Fresh)
    PROVE  Follows(list, [list EXCEPT ![c] = n] \o names)
<1>1. PICK t \in Seq(NameType) :
         /\ t = [list EXCEPT ![c] = n] /\ DOMAIN t = DOMAIN list /\ t[c] = n
         /\ \A d \in DOMAIN list \ {c} : t[d] = list[d]
  <2>1. PICK t : t = [list EXCEPT ![c] = n]
    OBVIOUS
  <2>2. /\ t \in Seq(NameType) /\ DOMAIN t = DOMAIN list /\ t[c] = n
        /\ \A d \in DOMAIN list \ {c} : t[d] = list[d]
    BY <2>1, OneElement
  <2>. QED
    BY <2>1, <2>2
<1>2. /\ DOMAIN t \subseteq DOMAIN (t \o names)
      /\ \A d \in DOMAIN t : (t \o names)[d] = t[d]
      /\ \A d \in DOMAIN (t \o names) \ DOMAIN t : (t \o names)[d] \in Fresh
  BY GrownNames
<1>3. Fresh \subseteq Newborn
  BY DEF Fresh, Newborn
<1>4. Follows(list, t \o names)
  BY <1>1, <1>2, <1>3 DEF Follows, Becomes
<1>. QED
  BY <1>1, <1>4

LEMMA FollowsOne ==
    ASSUME NEW list \in Seq(NameType), NEW c \in DOMAIN list, NEW n \in NameType,
           Becomes(list[c], n)
    PROVE  Follows(list, [list EXCEPT ![c] = n])
<1>1. PICK t \in Seq(NameType) :
         /\ t = [list EXCEPT ![c] = n] /\ DOMAIN t = DOMAIN list /\ t[c] = n
         /\ \A d \in DOMAIN list \ {c} : t[d] = list[d]
  <2>1. PICK t : t = [list EXCEPT ![c] = n]
    OBVIOUS
  <2>2. /\ t \in Seq(NameType) /\ DOMAIN t = DOMAIN list /\ t[c] = n
        /\ \A d \in DOMAIN list \ {c} : t[d] = list[d]
    BY <2>1, OneElement
  <2>. QED
    BY <2>1, <2>2
<1>2. Follows(list, t)
  BY <1>1 DEF Follows, Becomes
<1>. QED
  BY <1>1, <1>2

LEMMA FollowsSelf == \A list : Follows(list, list)
BY DEF Follows, Becomes

FollowStep == \A m \in Modules : Follows(cand[m], cand'[m])

LEMMA FollowsOnly ==
    ASSUME Inv, NEW m \in Modules, NEW new, Follows(cand[m], new),
           cand' = [cand EXCEPT ![m] = new]
    PROVE  FollowStep
<1>1. \A n \in Modules : cand'[n] = IF n = m THEN new ELSE cand[n]
  BY DEF Inv, TypeOK
<1>. QED
  BY <1>1, FollowsSelf DEF FollowStep

\* The name in hand has not been inferred, nor written when it is to be.
LEMMA InHand ==
    ASSUME PInv, Typing
    PROVE  /\ Top.mod \in Modules /\ cand[Top.mod] \in Seq(NameType)
           /\ Top.cand \in DOMAIN cand[Top.mod] /\ Subjected \in NameType
           /\ Subjected = cand[Top.mod][Top.cand]
           /\ Subjected.gave = 0
<1>1. Working("walk") /\ Top.cand # NoCandidate
  BY DEF Typing
<1>2. /\ Top.mod \in Modules /\ cand[Top.mod] \in Seq(NameType)
      /\ Top.cand \in DOMAIN cand[Top.mod]
      /\ Reading(cand[Top.mod], Written(Top.mod), Inferred(Top.mod), Top)
  BY <1>1, TopWalks DEF PInv
<1>3. ~Through(Top, Top.cand)
  BY DEF Through
<1>4. cand[Top.mod][Top.cand].gave = 0
  BY <1>2, <1>3 DEF Reading, Once
<1>. QED
  BY <1>2, <1>4, ListIndex DEF Subjected

LEMMA NameStep == ASSUME PInv, [Next]_vars PROVE FollowStep
<1>1. CASE FinishLate \/ FinishWritten \/ FinishInferred
  <2>1. Typing
    BY <1>1 DEF FinishLate, FinishWritten, FinishInferred
  <2>2. /\ Top.mod \in Modules /\ cand[Top.mod] \in Seq(NameType)
        /\ Top.cand \in DOMAIN cand[Top.mod] /\ Subjected \in NameType
        /\ Subjected = cand[Top.mod][Top.cand] /\ Subjected.gave = 0
    BY <2>1, InHand
  <2>3. PICK n \in NameType :
           /\ n \in {Wrote(Subjected), WroteAndAsked(Subjected), Gave(Subjected)}
           /\ cand' = [cand EXCEPT ![Top.mod] = [cand[Top.mod] EXCEPT ![Top.cand] = n]]
    <3>1. /\ Wrote(Subjected) \in NameType /\ WroteAndAsked(Subjected) \in NameType
          /\ Gave(Subjected) \in NameType
      BY <2>2, PassType
    <3>2. CASE FinishLate
      <4>1. cand' = [cand EXCEPT ![Top.mod] =
                       [cand[Top.mod] EXCEPT ![Top.cand] = Wrote(Subjected)]]
        BY <3>2 DEF FinishLate, Subjected
      <4>. QED
        BY <3>1, <4>1
    <3>3. CASE FinishWritten
      <4>1. cand' = [cand EXCEPT ![Top.mod] =
                       [cand[Top.mod] EXCEPT ![Top.cand] = WroteAndAsked(Subjected)]]
        BY <3>3 DEF FinishWritten, Subjected
      <4>. QED
        BY <3>1, <4>1
    <3>4. CASE FinishInferred
      <4>1. cand' = [cand EXCEPT ![Top.mod] =
                       [cand[Top.mod] EXCEPT ![Top.cand] = Gave(Subjected)]]
        BY <3>4 DEF FinishInferred, Subjected
      <4>. QED
        BY <3>1, <4>1
    <3>. QED
      BY <1>1, <3>2, <3>3, <3>4
  <2>4. Becomes(cand[Top.mod][Top.cand], n)
    BY <2>2, <2>3 DEF Becomes
  <2>5. Follows(cand[Top.mod], [cand[Top.mod] EXCEPT ![Top.cand] = n])
    BY <2>2, <2>4, FollowsOne
  <2>. QED
    BY <2>2, <2>3, <2>5, FollowsOnly DEF PInv
<1>2. CASE LowerLoop
  <2>1. Typing /\ Subjected.sort = "loop"
    BY <1>2 DEF LowerLoop
  <2>2. /\ Top.mod \in Modules /\ cand[Top.mod] \in Seq(NameType)
        /\ Top.cand \in DOMAIN cand[Top.mod] /\ Subjected \in NameType
        /\ Subjected = cand[Top.mod][Top.cand] /\ Subjected.gave = 0
    BY <2>1, InHand
  <2>3. PICK last \in Fresh :
           last = Declared("local", Subjected.owner, FALSE, "given", FALSE)
    <3>1. "local" \in HeadSorts \cup BodySorts
      BY DEF BodySorts
    <3>2. Subjected.owner \in Nat
      BY <2>2 DEF NameType
    <3>. QED
      BY <3>1, <3>2, DeclaredFresh
  <2>4. PICK n \in NameType : n = Gave([Subjected EXCEPT !.sort = "local"])
    <3>1. [Subjected EXCEPT !.sort = "local"] \in NameType
      BY <2>2 DEF NameType, BodySorts
    <3>. QED
      BY <3>1, PassType
  <2>5. PICK names \in Seq(Fresh) : names = <<last>>
    <3>1. <<last>> \in Seq(Fresh)
      OBVIOUS
    <3>. QED
      BY <3>1
  <2>6. cand' = [cand EXCEPT ![Top.mod] =
                    [cand[Top.mod] EXCEPT ![Top.cand] = n] \o names]
    BY <1>2, <2>3, <2>4, <2>5 DEF LowerLoop
  <2>7. Becomes(cand[Top.mod][Top.cand], n)
    BY <2>1, <2>2, <2>4 DEF Becomes
  <2>8. Follows(cand[Top.mod], [cand[Top.mod] EXCEPT ![Top.cand] = n] \o names)
    BY <2>2, <2>7, FollowsGrown
  <2>. QED
    BY <2>2, <2>6, <2>8, FollowsOnly DEF PInv
<1>3. CASE \E k \in Keys : Instantiate(k)
  <2>1. PICK k \in Keys : Instantiate(k)
    BY <1>3
  <2>. DEFINE m == HostOf[k]
  <2>2. PICK list \in Seq(NameType), c \in Nat, n \in NameType :
              /\ c \in DOMAIN list
              /\ Quiet(cand[HostOf[k]], list)
              /\ \/ /\ memo[k] = 0 /\ c = Len(cand[HostOf[k]]) + 1
                    /\ list = cand[HostOf[k]] \o Clone(k, c)
                 \/ memo[k] # 0 /\ c = memo[k] /\ list = cand[HostOf[k]]
              /\ n = IF list[c].type = "none" /\ list[c].sort = "class"
                     THEN [list[c] EXCEPT !.type = "written"] ELSE list[c]
              /\ cand' = [cand EXCEPT ![HostOf[k]] = [list EXCEPT ![c] = n]]
              /\ memo' = [memo EXCEPT ![k] = c]
              /\ stack' = <<SignFrame(HostOf[k], c, list[c].type = "none")>> \o Asked
    BY <2>1, CloneStep DEF PInv
  <2>3. m \in Modules /\ cand[m] \in Seq(NameType)
    BY KeysAssumption DEF PInv, Inv, TypeOK
  <2>4. CASE memo[k] # 0
    <3>1. c \in DOMAIN cand[m] /\ list = cand[m]
      BY <2>2, <2>4
    <3>2. Becomes(cand[m][c], n)
      BY <2>2, <3>1, SMTT(60) DEF Becomes
    <3>3. Follows(cand[m], [cand[m] EXCEPT ![c] = n])
      BY <2>3, <3>1, <3>2, FollowsOne
    <3>. QED
      BY <2>2, <2>3, <3>1, <3>3, FollowsOnly, ZenonT(60) DEF PInv
  <2>5. CASE memo[k] = 0
    <3>1. PICK names \in Seq(Fresh) : names = Clone(k, c) /\ list = cand[m] \o names
      BY <2>2, <2>5, CloneFresh
    <3>2. /\ DOMAIN cand[m] \subseteq DOMAIN list
          /\ \A d \in DOMAIN cand[m] : list[d] = cand[m][d]
          /\ \A d \in DOMAIN list \ DOMAIN cand[m] : list[d] \in Fresh
      BY <2>3, <3>1, GrownNames, SMTT(60)
    <3>3. c \notin DOMAIN cand[m]
      BY <2>2, <2>3, <2>5, ListIndex
    <3>4. list[c] \in Fresh
      BY <2>2, <3>2, <3>3
    <3>5. n \in Newborn
      BY <2>2, <3>4 DEF Newborn, Fresh, NameType
    <3>12. PICK new : new = [list EXCEPT ![c] = n]
      OBVIOUS
    <3>6. /\ new = [list EXCEPT ![c] = n] /\ DOMAIN new = DOMAIN list
          /\ new[c] = n /\ \A d \in DOMAIN list \ {c} : new[d] = list[d]
      BY <2>2, <3>12, OneElement
    <3>7. Fresh \subseteq Newborn
      BY DEF Fresh, Newborn
    <3>8. \A d \in DOMAIN cand[m] : d \in DOMAIN new /\ new[d] = cand[m][d]
      BY <3>2, <3>3, <3>6
    <3>9. \A d \in DOMAIN new \ DOMAIN cand[m] : new[d] \in Newborn
      BY <3>2, <3>5, <3>6, <3>7
    <3>10. Follows(cand[m], new)
      BY <3>8, <3>9 DEF Follows, Becomes
    <3>. QED
      BY <2>2, <2>3, <3>6, <3>10, FollowsOnly DEF PInv
  <2>. QED
    BY <2>4, <2>5
<1>4. CASE FinishSignature
  <2>1. PICK new \in Seq(NameType) :
              /\ cand' = [cand EXCEPT ![Top.mod] = new]
              /\ Quiet(cand[Top.mod], new)
              /\ DOMAIN new = DOMAIN cand[Top.mod]
              /\ \A d \in DOMAIN new :
                    new[d] = IF Top.step # "known" /\ SignedBy(cand[Top.mod], Top.cand, d)
                             THEN [cand[Top.mod][d] EXCEPT !.type = "written"]
                             ELSE cand[Top.mod][d]
    BY <1>4, SignStep DEF PInv
  <2>2. Top.mod \in Modules
    <3>1. stack \in Seq(FrameType) /\ stack # <<>>
      BY <1>4 DEF PInv, Inv, TypeOK, FinishSignature, Working
    <3>. QED
      BY <3>1, StackTop DEF FrameType
  <2>3. Follows(cand[Top.mod], new)
    BY <2>1 DEF Follows, Becomes, SignedBy
  <2>. QED
    BY <2>1, <2>2, <2>3, FollowsOnly DEF PInv
<1>5. CASE ScanDeclaration
  <2>1. PICK d \in Unscanned(at) :
         cand' = [cand EXCEPT ![at] =
                    [cand[at] EXCEPT ![d] = [cand[at][d] EXCEPT !.scanned = TRUE]]
                      \o (IF cand[at][d].assigns
                          THEN <<Declared("implicit", d, FALSE, "none", TRUE)>>
                          ELSE <<>>)]
    BY <1>5 DEF ScanDeclaration
  <2>2. at \in Modules /\ cand[at] \in Seq(NameType)
    BY <1>5 DEF ScanDeclaration, InLoop, PInv, Inv, TypeOK
  <2>3. d \in DOMAIN cand[at] /\ cand[at][d] \in NameType /\ d \in Nat
    BY <2>2, ListIndex DEF Unscanned, RootHeads
  <2>4. PICK n \in NameType : n = [cand[at][d] EXCEPT !.scanned = TRUE]
    BY <2>3 DEF NameType
  <2>5. PICK names \in Seq(Fresh) :
         names = IF cand[at][d].assigns
                 THEN <<Declared("implicit", d, FALSE, "none", TRUE)>> ELSE <<>>
    <3>1. "implicit" \in HeadSorts \cup BodySorts
      BY DEF BodySorts
    <3>2. PICK x \in Fresh : x = Declared("implicit", d, FALSE, "none", TRUE)
      BY <2>3, <3>1, DeclaredFresh
    <3>3. <<x>> \in Seq(Fresh)
      OBVIOUS
    <3>4. <<>> \in Seq(Fresh)
      OBVIOUS
    <3>. QED
      BY <3>2, <3>3, <3>4
  <2>6. cand' = [cand EXCEPT ![at] = [cand[at] EXCEPT ![d] = n] \o names]
    BY <2>1, <2>4, <2>5
  <2>7. Becomes(cand[at][d], n)
    BY <2>4 DEF Becomes
  <2>8. Follows(cand[at], [cand[at] EXCEPT ![d] = n] \o names)
    BY <2>2, <2>3, <2>7, FollowsGrown
  <2>. QED
    BY <2>2, <2>6, <2>8, FollowsOnly DEF PInv
<1>6. CASE LowerSwitch
  <2>1. at \in Modules /\ cand[at] \in Seq(NameType)
    BY <1>6 DEF LowerSwitch, InLoop, PInv, Inv, TypeOK
  <2>2. PICK names \in Seq(Fresh) :
           names = <<Declared("switch", 1, FALSE, "given", FALSE)>>
    <3>1. "switch" \in HeadSorts \cup BodySorts
      BY DEF BodySorts
    <3>2. PICK x \in Fresh : x = Declared("switch", 1, FALSE, "given", FALSE)
      BY <3>1, DeclaredFresh
    <3>3. <<x>> \in Seq(Fresh)
      OBVIOUS
    <3>. QED
      BY <3>2, <3>3
  <2>3. cand' = [cand EXCEPT ![at] = cand[at] \o names]
    BY <1>6, <2>2 DEF LowerSwitch, Grown, PInv, Inv, TypeOK
  <2>4. /\ DOMAIN cand[at] \subseteq DOMAIN (cand[at] \o names)
        /\ \A d \in DOMAIN cand[at] : (cand[at] \o names)[d] = cand[at][d]
        /\ \A d \in DOMAIN (cand[at] \o names) \ DOMAIN cand[at] :
              (cand[at] \o names)[d] \in Fresh
    BY <2>1, GrownNames
  <2>5. Fresh \subseteq Newborn
    BY DEF Fresh, Newborn
  <2>6. Follows(cand[at], cand[at] \o names)
    BY <2>4, <2>5 DEF Follows, Becomes
  <2>. QED
    BY <2>1, <2>3, <2>6, FollowsOnly DEF PInv
<1>7. CASE TakeCandidate \/ NextRound \/ FinishWalk \/ WalkModule \/ NothingToWalk
           \/ LeaveScanned \/ LeaveSwitches \/ CheckDeclaration \/ LeaveChecked
           \/ NextLoop \/ Finished \/ UNCHANGED vars
  <2>1. cand' = cand
    BY <1>7 DEF TakeCandidate, NextRound, FinishWalk, WalkModule, NothingToWalk,
                LeaveScanned, LeaveSwitches, CheckDeclaration, LeaveChecked, NextLoop,
                Finished, vars
  <2>. QED
    BY <2>1, FollowsSelf DEF FollowStep
<1>. QED
  BY <1>1, <1>2, <1>3, <1>4, <1>5, <1>6, <1>7 DEF Next

-----------------------------------------------------------------------------
(* What a type was given by.                                               *)

LEMMA BecomesGiven ==
    ASSUME NEW n \in NameType, NEW x, Becomes(n, x), Given(n)
    PROVE  Given(x) /\ (n.type = "inferred" => x.type = "inferred")
<1>1. CASE n.gave = 0 /\ x \in {Wrote(n), WroteAndAsked(n), Gave(n)}
  <2>1. n.type # "inferred"
    BY <1>1 DEF Given
  <2>2. CASE x = Gave(n)
    <3>1. /\ x.type = InferredType(n) /\ x.gave = n.gave + 1 /\ x.wrote = n.wrote
          /\ x.super = n.super /\ x.sort = n.sort
      BY <2>2 DEF Gave, NameType
    <3>2. InferredType(n) # "none"
      BY DEF InferredType
    <3>. QED
      BY <1>1, <2>1, <3>1, <3>2 DEF Given
  <2>3. CASE x = Wrote(n) \/ x = WroteAndAsked(n)
    <3>1. /\ x.type = WrittenType(n) /\ x.gave = n.gave
          /\ x.sort = "class" => x.super
      <4>1. /\ Wrote(n).type = WrittenType(n) /\ Wrote(n).gave = n.gave
            /\ n.sort = "class" => Wrote(n).super
            /\ Wrote(n).sort = n.sort /\ Wrote(n) \in NameType
        BY PassType DEF Wrote, NameType
      <4>2. /\ WroteAndAsked(n).type = WrittenType(n) /\ WroteAndAsked(n).gave = n.gave
            /\ n.sort = "class" => WroteAndAsked(n).super
            /\ WroteAndAsked(n).sort = n.sort
        BY <4>1 DEF WroteAndAsked, NameType
      <4>. QED
        BY <2>3, <4>1, <4>2
    <3>2. WrittenType(n) # "inferred"
      BY DEF WrittenType
    <3>. QED
      BY <1>1, <2>1, <3>1, <3>2 DEF Given
  <2>4. x = Gave(n) \/ x = Wrote(n) \/ x = WroteAndAsked(n)
    BY <1>1
  <2>. QED
    BY <2>2, <2>3, <2>4
<1>2. CASE n.gave = 0 /\ n.sort = "loop" /\ x = Gave([n EXCEPT !.sort = "local"])
  <2>1. n.type # "inferred"
    BY <1>2 DEF Given
  <2>2. PICK b \in NameType : b = [n EXCEPT !.sort = "local"]
    BY DEF NameType, BodySorts
  <2>3. b.sort = "local" /\ b.gave = 0
    BY <1>2, <2>2 DEF NameType
  <2>4. x.type = InferredType(b) /\ x.gave = b.gave + 1 /\ x.sort = b.sort
    BY <1>2, <2>2 DEF Gave, NameType
  <2>5. InferredType(b) # "none"
    BY DEF InferredType
  <2>. QED
    BY <2>1, <2>3, <2>4, <2>5 DEF Given
<1>3. CASE n.type = "none" /\ x = [n EXCEPT !.type = "written"]
  BY <1>3 DEF Given, NameType
<1>4. CASE x = [n EXCEPT !.scanned = TRUE]
  BY <1>4 DEF Given, NameType
<1>5. CASE x = n
  BY <1>5
<1>6. \/ x = n
      \/ n.type = "none" /\ x = [n EXCEPT !.type = "written"]
      \/ x = [n EXCEPT !.scanned = TRUE]
      \/ n.gave = 0 /\ x \in {Wrote(n), WroteAndAsked(n), Gave(n)}
      \/ n.gave = 0 /\ n.sort = "loop" /\ x = Gave([n EXCEPT !.sort = "local"])
  BY DEF Becomes
<1>. QED
  BY <1>1, <1>2, <1>3, <1>4, <1>5, <1>6

LEMMA GivenStep == PInv /\ TypesGiven /\ [Next]_vars => TypesGiven'
<1>. SUFFICES ASSUME PInv, TypesGiven, [Next]_vars,
                     NEW m \in Modules, NEW c \in DOMAIN cand'[m]
              PROVE  Given(cand'[m][c])
  BY DEF TypesGiven
<1>1. Follows(cand[m], cand'[m])
  BY NameStep DEF FollowStep
<1>2. CASE c \in DOMAIN cand[m]
  <2>1. PICK n \in NameType : n = cand[m][c]
    <3>1. cand[m] \in Seq(NameType)
      BY DEF PInv, Inv, TypeOK
    <3>. QED
      BY <1>2, <3>1, ListIndex
  <2>2. Becomes(n, cand'[m][c]) /\ Given(n)
    BY <1>1, <1>2, <2>1 DEF Follows, TypesGiven
  <2>. QED
    BY <2>2, BecomesGiven
<1>3. CASE c \notin DOMAIN cand[m]
  BY <1>1, <1>3 DEF Follows, Newborn, Given
<1>. QED
  BY <1>2, <1>3

LEMMA InitGiven == Init => TypesGiven
BY DEF Init, TypesGiven, Given, Declared

\* A type that inference gave is never taken back (catch_up asks the inferred
\* pass once inference has been through the module).
THEOREM InferredForGood == Spec => InferredStays
<1>. DEFINE Stays == \A m \in Modules : \A c \in DOMAIN cand[m] :
                cand[m][c].type = "inferred" => cand'[m][c].type = "inferred"
<1>1. PInv /\ TypesGiven /\ [Next]_vars => [Stays]_vars
  <2>. SUFFICES ASSUME PInv, TypesGiven, [Next]_vars,
                       NEW m \in Modules, NEW c \in DOMAIN cand[m],
                       cand[m][c].type = "inferred"
                PROVE  cand'[m][c].type = "inferred"
    OBVIOUS
  <2>1. Follows(cand[m], cand'[m])
    BY NameStep DEF FollowStep
  <2>2. PICK n \in NameType : n = cand[m][c]
    <3>1. cand[m] \in Seq(NameType)
      BY DEF PInv, Inv, TypeOK
    <3>. QED
      BY <3>1, ListIndex
  <2>3. Becomes(n, cand'[m][c]) /\ Given(n) /\ n.type = "inferred"
    BY <2>1, <2>2 DEF Follows, TypesGiven
  <2>. QED
    BY <2>3, BecomesGiven
<1>2. Init => PInv /\ TypesGiven
  BY InitPasses, InitGiven
<1>3. PInv /\ TypesGiven /\ [Next]_vars => PInv' /\ TypesGiven'
  BY NextPasses, GivenStep
<1>. QED
  BY <1>1, <1>2, <1>3, PTL DEF Spec, InferredStays
=============================================================================
