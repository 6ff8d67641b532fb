-------------------------- MODULE TypeLedgerProofs --------------------------
(***************************************************************************)
(* What the loops of TypePhase have behind them stays done, so that whoever *)
(* reads a type finds it there, and the phase implements its ledger.        *)
(***************************************************************************)
EXTENDS TypePhaseProofs, FiniteSetTheorems
-----------------------------------------------------------------------------
(* What is settled, signed, asked for its names and left to the checker.    *)

SignsIn(s) == {f \in FramesOf(s) : f.op = "sign"}

\* The pass p has nothing left in the module m, or will have when the frames of
\* the stack S are popped: C and M being the lists and the marks.
SettledIn(C, M, S, p, m) ==
    \/ \E f \in WalksIn(S) : f.mod = m /\ f.pass = p
    \/ /\ p = "inferred" => M[p][m] > 0
       /\ \/ M[p][m] = Len(C[m]) + 1
          \/ \E f \in SignsIn(S) : f.mod = m

LatePhases == {"check", "recheck", "done"}

\* What the loop that runs has behind it.
Behind(p, m) ==
    \/ /\ p = "written"
       /\ \/ phase = "collect" /\ m < at
          \/ phase = "implicit" /\ ~grew
    \/ /\ p = "inferred"
       /\ \/ phase = "infer" /\ m < at
          \/ phase = "switch" /\ ~grew
          \/ phase \in LatePhases
AllSettled ==
    \A p \in Passes : \A m \in Modules :
        Behind(p, m) => SettledIn(cand, mark, stack, p, m)

\* The walk that Compilation began is the one at the bottom, in the module its
\* loop is at.
Outermost(f, a, p) ==
    /\ f.op = "walk" /\ f.mod = a
    /\ f.pass = (IF p = "collect" THEN "written" ELSE "inferred")
    /\ p \in {"collect", "infer", "recheck"}
BottomIn(S, a, p) == \A f \in FramesOf(S) : ~f.nested => Outermost(f, a, p)
BottomFrame == BottomIn(stack, at, phase)

\* What is not inferred when the checker is at work is a clone it made itself.
CheckedThere == \A m \in Modules : checked[m] \subseteq DOMAIN cand[m]
RoundThere == phase = "check" /\ at \in Modules => round \subseteq DOMAIN cand[at]
NoneChecked == phase \notin LatePhases => \A m \in Modules : checked[m] = {}
LeftOut(n, done) == /\ n.sort # "loop"
                    /\ n.sort = "method" \/ n.owner \notin done
ClonesLeft ==
    phase \in LatePhases =>
        \A m \in Modules : \A c \in DOMAIN cand[m] :
            cand[m][c].gave = 0 => LeftOut(cand[m][c], checked[m])
OnlyClonesLeft == CheckedThere /\ RoundThere /\ NoneChecked /\ ClonesLeft

\* The declaration of a clone and its fields have types, or a signature is
\* being worked that will give them.
InSignature(list, c, d) ==
    d = c \/ (list[d].owner = c /\ list[d].sort = "field")
HasSignature(list, c) ==
    \A d \in DOMAIN list : InSignature(list, c, d) => list[d].type # "none"
Signs(f, k, c) ==
    f.op = "sign" /\ f.mod = HostOf[k] /\ f.cand = c /\ f.step = "main"
SignedIn(C, M, S, k) ==
    M[k] # 0 =>
        /\ M[k] \in DOMAIN C[HostOf[k]] /\ C[HostOf[k]][M[k]].sort \in HeadSorts
        /\ \/ \E f \in FramesOf(S) : Signs(f, k, M[k])
           \/ HasSignature(C[HostOf[k]], M[k])
Signed == \A k \in Keys : SignedIn(cand, memo, stack, k)

\* Who is past the watermark of the ImplicitCollector was asked.
RootsOf(list) == {c \in DOMAIN list : list[c].sort \in RootSorts}
Earlier(list, c) == {d \in RootsOf(list) : d < c}
AskedUpTo(list, n) ==
    /\ n <= Cardinality(RootsOf(list))
    /\ \A c \in RootsOf(list) : Cardinality(Earlier(list, c)) < n => list[c].scanned
NamesAsked ==
    /\ \A m \in Modules : AskedUpTo(cand[m], named[m])
    /\ phase \in EarlyPhases => ~free
    /\ phase = "implicit" =>
          stack = <<>> /\ \A m \in Modules : m < at => Unscanned(m) = {}

-----------------------------------------------------------------------------
(* What a loop has behind it stays done.                                   *)

\* What is asked of the frames of a stack is asked of those it is made of.
LEMMA SettledPush ==
    ASSUME NEW C, NEW M, NEW s \in Seq(FrameType), NEW f \in FrameType, NEW p, NEW m
    PROVE  SettledIn(C, M, <<f>> \o s, p, m)
              <=> \/ f.op = "walk" /\ f.mod = m /\ f.pass = p
                  \/ /\ f.op = "sign" /\ f.mod = m
                     /\ p = "inferred" => M[p][m] > 0
                  \/ SettledIn(C, M, s, p, m)
<1>1. FramesOf(<<f>> \o s) = {f} \cup FramesOf(s)
  BY FramesPush
<1>. QED
  BY <1>1, ZenonT(60) DEF SettledIn, WalksIn, SignsIn

\* Only the length of the list counts.
LEMMA SettledSame ==
    ASSUME NEW C, NEW D, NEW M, NEW N, NEW S, NEW p, NEW m,
           Len(C[m]) = Len(D[m]), M[p][m] = N[p][m],
           SettledIn(C, M, S, p, m)
    PROVE  SettledIn(D, N, S, p, m)
BY DEF SettledIn

\* The walk in a module where a pass is settled is a walk of that pass.
LEMMA WalkMatches ==
    ASSUME PInv, NEW p \in Passes, NEW m \in Modules,
           p = "written" => phase \in EarlyPhases,
           SettledIn(cand, mark, stack, p, m), NEW f \in WalksIn(stack), f.mod = m
    PROVE  f.pass = p
<1>1. stack \in Seq(FrameType) /\ mark \in Marks /\ OneWalk(stack, walking)
  BY DEF PInv, Inv, TypeOK, Marks
<1>2. f \in FrameType /\ f.pass \in {"written", "inferred"}
  <2>1. f \in FramesOf(stack)
    BY DEF WalksIn
  <2>2. f \in FrameType
    BY <1>1, <2>1, LenProperties DEF FramesOf
  <2>. QED
    BY <2>2 DEF FrameType, Passes
<1>3. CASE p = "written"
  BY <1>3 DEF PInv, NotYetInferred, AllWritten
<1>4. CASE p = "inferred"
  <2>1. CASE \E g \in WalksIn(stack) : g.mod = m /\ g.pass = p
    <3>1. PICK g \in WalksIn(stack) : g.mod = m /\ g.pass = p
      BY <2>1
    <3>2. g = f
      BY <1>1, <3>1, WalkMods
    <3>. QED
      BY <3>1, <3>2
  <2>2. CASE ~(\E g \in WalksIn(stack) : g.mod = m /\ g.pass = p)
    <3>1. mark["inferred"][m] > 0
      BY <1>4, <2>2 DEF SettledIn
    <3>2. Reading(cand[m], mark["written"][m], mark["inferred"][m], f)
      BY DEF PInv, Passing, PassingIn
    <3>3. f.pass = "written" => mark["inferred"][m] = 0
      BY <3>2 DEF Reading
    <3>. QED
      BY <1>2, <1>4, <3>1, <3>3
  <2>. QED
    BY <2>1, <2>2
<1>. QED
  BY <1>3, <1>4 DEF Passes

\* A walk in a module settles the pass it is of.
LEMMA WalkSettles ==
    ASSUME NEW C, NEW M, NEW S, NEW p, NEW m, NEW f \in WalksIn(S), f.mod = m, f.pass = p
    PROVE  SettledIn(C, M, S, p, m)
BY DEF SettledIn

LEMMA AskedType == ASSUME Inv PROVE Asked \in Seq(FrameType)
<1>1. stack \in Seq(FrameType)
  BY DEF Inv, TypeOK
<1>2. CASE stack = <<>>
  BY <1>1, <1>2 DEF Asked
<1>3. CASE stack # <<>>
  <2>1. PICK f \in FrameType, s \in Seq(FrameType) : f = Top /\ s = Tail(stack)
    BY <1>1, <1>3, StackTop
  <2>2. PICK g \in FrameType : g = [f EXCEPT !.asked = TRUE]
    BY DEF FrameType
  <2>3. Asked = <<g>> \o s
    BY <1>3, <2>1, <2>2 DEF Asked
  <2>. QED
    BY <2>3, SeqPush
<1>. QED
  BY <1>2, <1>3

\* The frames asked of are the frames that were there.
LEMMA AskedSettled ==
    ASSUME Inv, NEW C, NEW M, NEW p, NEW m, SettledIn(C, M, stack, p, m)
    PROVE  Asked \in Seq(FrameType) /\ SettledIn(C, M, Asked, p, m)
<1>1. stack \in Seq(FrameType)
  BY DEF Inv, TypeOK
<1>2. CASE stack = <<>>
  BY <1>1, <1>2 DEF Asked
<1>3. CASE stack # <<>>
  <2>1. PICK f \in FrameType, s \in Seq(FrameType) :
           f = Top /\ s = Tail(stack) /\ stack = <<f>> \o s
    BY <1>1, <1>3, StackTop, Zenon
  <2>2. PICK g \in FrameType : g = [f EXCEPT !.asked = TRUE]
    BY DEF FrameType
  <2>3. g.op = f.op /\ g.mod = f.mod /\ g.pass = f.pass
    BY <2>2 DEF FrameType
  <2>4. Asked = <<g>> \o s
    BY <1>3, <2>1, <2>2 DEF Asked
  <2>5. SettledIn(C, M, <<f>> \o s, p, m)
    BY <2>1
  <2>6. SettledIn(C, M, <<g>> \o s, p, m)
    BY <2>3, <2>5, SettledPush
  <2>. QED
    BY <2>4, <2>6, SeqPush
<1>. QED
  BY <1>2, <1>3

\* A walk that begins, of the pass that is settled or in another module.
LEMMA SettledBegin ==
    ASSUME Inv, NEW below \in Seq(FrameType), NEW n \in Modules, NEW pass \in Passes,
           NEW nested \in BOOLEAN, NEW held \in SubjectType,
           BeginWalk(below, n, pass, nested, held), NEW C, NEW M, NEW p, NEW m,
           SettledIn(C, M, below, p, m) \/ (n = m /\ pass = p)
    PROVE  SettledIn(C, M, stack', p, m)
<1>1. cand[n] \in Seq(NameType)
  BY DEF Inv, TypeOK
<1>2. Count(n) \in Nat /\ DOMAIN cand[n] \subseteq Nat
  BY <1>1, ListIndex DEF Count
<1>3. PICK f \in FrameType : f = WalkFrame(n, pass, nested, held)
  BY WalkFrameType
<1>4. f.op = "walk" /\ f.mod = n /\ f.pass = pass /\ stack' = <<f>> \o below
  BY <1>3 DEF BeginWalk, WalkFrame
<1>. QED
  BY <1>4, SettledPush

\* No step unsettles a pass, but for a declaration made between two walks.
LEMMA SettledStays ==
    ASSUME PInv, [Next]_vars, ~LowerSwitch, ~ScanDeclaration,
           NEW p \in Passes, NEW m \in Modules,
           p = "written" => phase \in EarlyPhases,
           SettledIn(cand, mark, stack, p, m)
    PROVE  SettledIn(cand', mark', stack', p, m)
<1>1. /\ Inv /\ stack \in Seq(FrameType) /\ cand \in Lists /\ mark \in Marks
      /\ OneWalk(stack, walking)
  BY DEF PInv, Inv, TypeOK, Lists, Marks
<1>2. CASE TakeCandidate \/ FinishLate \/ FinishWritten \/ FinishInferred
           \/ LowerLoop \/ NextRound
  <2>1. /\ stack # <<>> /\ Top.op = "walk"
        /\ \E g \in FrameType :
                 /\ stack' = <<g>> \o Tail(stack)
                 /\ g.op = Top.op /\ g.mod = Top.mod /\ g.pass = Top.pass
                 /\ g.nested = Top.nested /\ g.held = Top.held
                 /\ g.count = IF NextRound THEN Count(Top.mod) ELSE Top.count
    BY <1>1, <1>2, WalkSwaps
  <2>2. PICK g \in FrameType :
                 /\ stack' = <<g>> \o Tail(stack)
                 /\ g.op = Top.op /\ g.mod = Top.mod /\ g.pass = Top.pass
    BY <2>1
  <2>3. PICK f \in FrameType, s \in Seq(FrameType) :
           f = Top /\ s = Tail(stack) /\ stack = <<f>> \o s
    BY <1>1, <2>1, StackTop, Zenon
  <2>4. f \in WalksIn(stack)
    BY <2>1, <2>3, FramesPush, ZenonT(60)
  <2>5. CASE f.mod = m
    <3>1. f.pass = p
      BY <2>4, <2>5, WalkMatches
    <3>2. SettledIn(cand', mark', <<g>> \o s, p, m)
      BY <2>1, <2>2, <2>3, <2>5, <3>1, SettledPush
    <3>. QED
      BY <2>2, <2>3, <3>2
  <2>6. CASE f.mod # m
    <3>1. cand'[m] = cand[m] /\ mark' = mark
      BY <1>1, <1>2, <2>3, <2>6, Zenon
      DEF TakeCandidate, FinishLate, FinishWritten, FinishInferred, LowerLoop,
          NextRound, Lists
    <3>2. SettledIn(cand, mark, <<f>> \o s, p, m)
      BY <2>3
    <3>3. SettledIn(cand, mark, s, p, m)
      BY <2>1, <2>3, <2>6, <3>2, SettledPush
    <3>4. SettledIn(cand', mark', s, p, m)
      BY <3>1, <3>3, SettledSame
    <3>5. SettledIn(cand', mark', <<g>> \o s, p, m)
      BY <3>4, SettledPush
    <3>. QED
      BY <2>2, <2>3, <3>5
  <2>. QED
    BY <2>5, <2>6
<1>3. CASE FinishWalk
  <2>1. /\ stack # <<>> /\ Top.op = "walk" /\ stack' = Tail(stack)
        /\ Top.count = Count(Top.mod) /\ cand' = cand
        /\ mark' = [mark EXCEPT ![Top.pass][Top.mod] = Top.count]
    BY <1>3 DEF FinishWalk, RoundIsOver, Working
  <2>2. PICK f \in FrameType, s \in Seq(FrameType) :
           f = Top /\ s = Tail(stack) /\ stack = <<f>> \o s
    BY <1>1, <2>1, StackTop, Zenon
  <2>3. f \in WalksIn(stack) /\ f.pass \in Passes /\ f.mod \in Modules
    BY <2>1, <2>2, FramesPush, ZenonT(60) DEF FrameType
  <2>4. CASE f.mod = m
    <3>1. f.pass = p
      BY <2>3, <2>4, WalkMatches
    <3>2. mark'[p][m] = Len(cand[m]) + 1
      BY <1>1, <2>1, <2>2, <2>4, <3>1 DEF Marks, Count
    <3>3. cand[m] \in Seq(NameType)
      BY <1>1 DEF Lists
    <3>4. mark'[p][m] = Len(cand'[m]) + 1 /\ mark'[p][m] > 0
      BY <2>1, <3>2, <3>3, ListIndex
    <3>. QED
      BY <3>4 DEF SettledIn
  <2>5. CASE f.mod # m
    <3>1. mark'[p][m] = mark[p][m]
      BY <1>1, <2>1, <2>2, <2>3, <2>5 DEF Marks
    <3>2. SettledIn(cand, mark, <<f>> \o s, p, m)
      BY <2>2
    <3>3. SettledIn(cand, mark, s, p, m)
      BY <2>1, <2>2, <2>5, <3>2, SettledPush
    <3>4. SettledIn(cand', mark', s, p, m)
      <4>1. Len(cand[m]) = Len(cand'[m]) /\ mark[p][m] = mark'[p][m]
        BY <2>1, <3>1
      <4>. QED
        BY <3>3, <4>1, SettledSame
    <3>. QED
      BY <2>1, <2>2, <3>4
  <2>. QED
    BY <2>4, <2>5
<1>4. CASE \E k \in Keys : Instantiate(k)
  <2>1. PICK k \in Keys : Instantiate(k)
    BY <1>4
  <2>2. PICK c \in Nat, fresh \in BOOLEAN :
           stack' = <<SignFrame(HostOf[k], c, fresh)>> \o Asked
    BY <1>1, <2>1, SignPushed
  <2>3. PICK f \in FrameType : f = SignFrame(HostOf[k], c, fresh) /\ f.op = "sign"
    BY <1>1, KeysAssumption, SignFrameType
  <2>4. f.mod = HostOf[k] /\ mark' = mark
    BY <2>1, <2>3, ZenonT(60) DEF SignFrame, Instantiate
  <2>5. CASE \E g \in WalksIn(stack) : g.mod = m /\ g.pass = p
    <3>1. SettledIn(cand', mark', stack, p, m)
      BY <2>5 DEF SettledIn
    <3>2. Asked \in Seq(FrameType) /\ SettledIn(cand', mark', Asked, p, m)
      BY <1>1, <3>1, AskedSettled
    <3>3. SettledIn(cand', mark', <<f>> \o Asked, p, m)
      BY <3>2, SettledPush
    <3>. QED
      BY <2>2, <2>3, <3>3
  <2>6. CASE ~\E g \in WalksIn(stack) : g.mod = m /\ g.pass = p
    <3>1. p = "inferred" => mark'[p][m] > 0
      BY <2>4, <2>6 DEF SettledIn
    <3>2. Asked \in Seq(FrameType)
      BY <1>1, AskedSettled
    <3>3. CASE m = HostOf[k]
      <4>1. SettledIn(cand', mark', <<f>> \o Asked, p, m)
        BY <2>3, <2>4, <3>1, <3>2, <3>3, SettledPush
      <4>. QED
        BY <2>2, <2>3, <4>1
    <3>4. CASE m # HostOf[k]
      <4>1. cand'[m] = cand[m]
        BY <1>1, <2>1, <3>4, ZenonT(60) DEF Instantiate, Grown, Lists
      <4>2. SettledIn(cand', mark', stack, p, m)
        BY <2>4, <4>1, SettledSame
      <4>3. SettledIn(cand', mark', Asked, p, m)
        BY <1>1, <4>2, AskedSettled
      <4>4. SettledIn(cand', mark', <<f>> \o Asked, p, m)
        BY <3>2, <4>3, SettledPush
      <4>. QED
        BY <2>2, <2>3, <4>4
    <3>. QED
      BY <3>3, <3>4
  <2>. QED
    BY <2>5, <2>6
<1>5. CASE FinishSignature
  <2>1. /\ stack # <<>> /\ CatchUp(Tail(stack), Top.mod, Top.held) /\ Top.op = "sign"
        /\ mark' = mark
    BY <1>5 DEF FinishSignature, Working
  <2>2. PICK f \in FrameType, s \in Seq(FrameType) :
           f = Top /\ s = Tail(stack) /\ stack = <<f>> \o s
    BY <1>1, <2>1, StackTop, Zenon
  <2>3. f.mod \in Modules /\ f.held \in SubjectType
    BY DEF FrameType
  <2>4. Len(cand'[m]) = Len(cand[m])
    <3>1. PICK new \in Seq(NameType) :
              /\ cand' = [cand EXCEPT ![Top.mod] = new]
              /\ DOMAIN new = DOMAIN cand[Top.mod]
      BY <1>1, <1>5, SignStep
    <3>2. PICK list \in Seq(NameType) : list = cand[Top.mod]
      BY <1>1, <2>2, <2>3 DEF Lists
    <3>3. Len(new) = Len(list)
      BY <3>1, <3>2, ListIndex
    <3>. QED
      BY <1>1, <3>1, <3>2, <3>3 DEF Lists
  <2>5. PICK pass \in Passes : pass = CatchUpPass(f.mod)
    BY DEF CatchUpPass, Passes
  <2>6. \/ stack' = s
        \/ BeginWalk(s, f.mod, pass, TRUE, f.held)
    BY <2>1, <2>2, <2>5 DEF CatchUp
  <2>7. CASE SettledIn(cand, mark, s, p, m)
    <3>1. SettledIn(cand', mark', s, p, m)
      BY <2>1, <2>4, <2>7, SettledSame
    <3>2. CASE stack' = s
      BY <3>1, <3>2
    <3>3. CASE BeginWalk(s, f.mod, pass, TRUE, f.held)
      BY <1>1, <2>3, <3>1, <3>3, SettledBegin
    <3>. QED
      BY <2>6, <3>2, <3>3
  <2>8. CASE ~SettledIn(cand, mark, s, p, m)
    <3>1. SettledIn(cand, mark, <<f>> \o s, p, m)
      BY <2>2
    <3>2. f.mod = m /\ (p = "inferred" => mark[p][m] > 0)
      BY <2>1, <2>2, <2>8, <3>1, SettledPush
    <3>3. m \notin walking
      <4>1. SUFFICES ASSUME m \in walking
                     PROVE  FALSE
        OBVIOUS
      <4>2. PICK g \in WalksIn(stack) : g.mod = m
        BY <1>1, <4>1, WalkMods
      <4>3. g.pass = p
        BY <4>2, WalkMatches
      <4>4. g \in WalksIn(s)
        <5>1. f.op # "walk"
          BY <2>1, <2>2
        <5>2. WalksIn(<<f>> \o s) = WalksIn(s)
          BY <5>1, FramesPush
        <5>. QED
          BY <2>2, <4>2, <5>2
      <4>. QED
        BY <2>8, <4>2, <4>3, <4>4, WalkSettles
    <3>4. pass = p
      <4>1. CASE p = "inferred"
        BY <2>5, <3>2, <4>1 DEF CatchUpPass
      <4>2. CASE p = "written"
        <5>1. mark["inferred"][m] = 0
          BY <4>2 DEF PInv, NotYetInferred
        <5>. QED
          BY <2>5, <3>2, <4>2, <5>1 DEF CatchUpPass
      <4>. QED
        BY <4>1, <4>2 DEF Passes
    <3>5. CASE Pending(m, p)
      <4>1. BeginWalk(s, f.mod, pass, TRUE, f.held)
        BY <2>1, <2>2, <2>5, <3>2, <3>3, <3>4, <3>5 DEF CatchUp
      <4>. QED
        BY <1>1, <2>3, <3>2, <3>4, <4>1, SettledBegin
    <3>6. CASE ~Pending(m, p)
      <4>1. stack' = s
        BY <2>1, <2>2, <2>5, <3>2, <3>4, <3>6 DEF CatchUp
      <4>2. AtRest(cand[m], mark["written"][m], mark["inferred"][m])
        BY <3>3 DEF PInv, Passing, PassingIn
      <4>3. mark["written"][m] <= Count(m) /\ mark["inferred"][m] <= Count(m)
        BY <4>2 DEF AtRest, Count
      <4>4. cand[m] \in Seq(NameType) /\ mark[p][m] \in Nat
        BY <1>1 DEF Lists, Marks
      <4>5. mark[p][m] = Len(cand[m]) + 1
        BY <3>6, <4>3, <4>4, ListIndex DEF Pending, Count, Passes
      <4>. QED
        BY <2>1, <2>4, <3>2, <4>5 DEF SettledIn
    <3>. QED
      BY <3>5, <3>6
  <2>. QED
    BY <2>7, <2>8
<1>6. CASE WalkModule
  <2>1. /\ stack = <<>> /\ at \in Modules /\ cand' = cand /\ mark' = mark
        /\ BeginWalk(<<>>, at, PassOfLoop, FALSE, subject)
    BY <1>6 DEF WalkModule, Idle
  <2>2. PICK pass \in Passes : pass = PassOfLoop
    BY DEF PassOfLoop, Passes
  <2>3. PICK s \in Seq(FrameType) : s = <<>>
    BY <1>1, <2>1
  <2>4. subject \in SubjectType
    BY <1>1 DEF Inv, TypeOK
  <2>5. BeginWalk(s, at, pass, FALSE, subject) /\ SettledIn(cand, mark, s, p, m)
    BY <2>1, <2>2, <2>3
  <2>6. SettledIn(cand, mark, stack', p, m)
    BY <1>1, <2>1, <2>4, <2>5, SettledBegin
  <2>. QED
    BY <2>1, <2>6
<1>7. CASE NothingToWalk \/ LeaveScanned \/ LeaveSwitches \/ CheckDeclaration
           \/ LeaveChecked \/ NextLoop \/ Finished \/ UNCHANGED vars
  <2>1. cand' = cand /\ mark' = mark /\ stack' = stack
    BY <1>7 DEF NothingToWalk, LeaveScanned, LeaveSwitches, CheckDeclaration,
                LeaveChecked, NextLoop, Finished, vars
  <2>. QED
    BY <2>1
<1>. QED
  BY <1>2, <1>3, <1>4, <1>5, <1>6, <1>7 DEF Next

\* What is asked of the frames of a stack is asked of those it is made of.
LEMMA BottomPush ==
    ASSUME NEW s \in Seq(FrameType), NEW f \in FrameType, NEW a, NEW p
    PROVE  BottomIn(<<f>> \o s, a, p)
              <=> (~f.nested => Outermost(f, a, p)) /\ BottomIn(s, a, p)
<1>1. FramesOf(<<f>> \o s) = {f} \cup FramesOf(s)
  BY FramesPush
<1>. QED
  BY <1>1 DEF BottomIn

\* The walk at the bottom is the one the loop began, until it is over.
LEMMA BottomStep ==
    Inv /\ SubjectsSuit /\ BottomFrame /\ [Next]_vars => BottomFrame'
<1>. SUFFICES ASSUME Inv, SuitsStack(subject, stack), BottomIn(stack, at, phase),
                     [Next]_vars
              PROVE  BottomIn(stack', at', phase')
  BY DEF SubjectsSuit, BottomFrame
<1>1. stack \in Seq(FrameType) /\ subject \in SubjectType
  BY DEF Inv, TypeOK
<1>2. ASSUME NEW a, NEW p
      PROVE  BottomIn(<<>>, a, p)
  BY DEF BottomIn, FramesOf
<1>3. ASSUME stack # <<>>
      PROVE  \E f \in FrameType, s \in Seq(FrameType) :
                /\ f = Top /\ s = Tail(stack) /\ stack = <<f>> \o s
                /\ ~f.nested => Outermost(f, at, phase)
                /\ BottomIn(s, at, phase)
                /\ s # <<>> => f.nested
  <2>1. PICK f \in FrameType, s \in Seq(FrameType) :
           f = Top /\ s = Tail(stack) /\ stack = <<f>> \o s
    BY <1>1, <1>3, StackTop, Zenon
  <2>2. SuitsStack(subject, <<f>> \o s) /\ BottomIn(<<f>> \o s, at, phase)
    BY <2>1
  <2>3. s # <<>> => f.nested
    BY <2>2, SuitsPush
  <2>4. (~f.nested => Outermost(f, at, phase)) /\ BottomIn(s, at, phase)
    BY <2>2, BottomPush
  <2>. QED
    BY <2>1, <2>3, <2>4
<1>4. CASE TakeCandidate \/ FinishLate \/ FinishWritten \/ FinishInferred
           \/ LowerLoop \/ NextRound
  <2>1. /\ stack # <<>> /\ Top.op = "walk"
        /\ \E g \in FrameType :
                 /\ stack' = <<g>> \o Tail(stack)
                 /\ g.op = Top.op /\ g.mod = Top.mod /\ g.pass = Top.pass
                 /\ g.nested = Top.nested /\ g.held = Top.held
                 /\ g.count = IF NextRound THEN Count(Top.mod) ELSE Top.count
    BY <1>4, WalkSwaps
  <2>2. PICK g \in FrameType :
                 /\ stack' = <<g>> \o Tail(stack)
                 /\ g.op = Top.op /\ g.mod = Top.mod /\ g.pass = Top.pass
                 /\ g.nested = Top.nested
    BY <2>1
  <2>3. PICK f \in FrameType, s \in Seq(FrameType) :
                /\ f = Top /\ s = Tail(stack)
                /\ ~f.nested => Outermost(f, at, phase)
                /\ BottomIn(s, at, phase)
    BY <1>3, <2>1
  <2>4. ~g.nested => Outermost(g, at, phase)
    BY <2>2, <2>3 DEF Outermost
  <2>5. BottomIn(<<g>> \o s, at, phase)
    BY <2>3, <2>4, BottomPush
  <2>6. at' = at /\ phase' = phase
    BY <1>4, Zenon DEF TakeCandidate, FinishLate, FinishWritten, FinishInferred, LowerLoop,
                NextRound
  <2>. QED
    BY <2>2, <2>3, <2>5, <2>6
<1>5. CASE FinishWalk
  <2>1. /\ stack # <<>> /\ stack' = Tail(stack) /\ phase' = phase
        /\ Top.nested => at' = at
    BY <1>5 DEF FinishWalk, RoundIsOver, Working
  <2>2. PICK f \in FrameType, s \in Seq(FrameType) :
                /\ f = Top /\ s = Tail(stack) /\ BottomIn(s, at, phase)
                /\ s # <<>> => f.nested
    BY <1>3, <2>1
  <2>3. CASE s = <<>>
    BY <1>2, <2>1, <2>2, <2>3
  <2>4. CASE s # <<>>
    BY <2>1, <2>2, <2>4
  <2>. QED
    BY <2>3, <2>4
<1>6. CASE \E k \in Keys : Instantiate(k)
  <2>1. PICK k \in Keys : Instantiate(k)
    BY <1>6
  <2>2. PICK c \in Nat, fresh \in BOOLEAN :
           stack' = <<SignFrame(HostOf[k], c, fresh)>> \o Asked
    BY <2>1, SignPushed
  <2>3. PICK f \in FrameType : f = SignFrame(HostOf[k], c, fresh) /\ f.op = "sign"
    BY KeysAssumption, SignFrameType
  <2>4. f.nested /\ at' = at /\ phase' = phase
    BY <2>1, <2>3, ZenonT(60) DEF SignFrame, Instantiate
  <2>5. Asked \in Seq(FrameType) /\ BottomIn(Asked, at, phase)
    <3>1. CASE stack = <<>>
      BY <1>1, <3>1 DEF Asked
    <3>2. CASE stack # <<>>
      <4>1. PICK h \in FrameType, s \in Seq(FrameType) :
                /\ h = Top /\ s = Tail(stack)
                /\ ~h.nested => Outermost(h, at, phase)
                /\ BottomIn(s, at, phase)
        BY <1>3, <3>2
      <4>2. PICK g \in FrameType : g = [h EXCEPT !.asked = TRUE]
        BY DEF FrameType
      <4>3. g.op = h.op /\ g.mod = h.mod /\ g.pass = h.pass /\ g.nested = h.nested
        BY <4>2 DEF FrameType
      <4>4. Asked = <<g>> \o s
        BY <3>2, <4>1, <4>2 DEF Asked
      <4>5. ~g.nested => Outermost(g, at, phase)
        BY <4>1, <4>3 DEF Outermost
      <4>6. BottomIn(<<g>> \o s, at, phase)
        BY <4>1, <4>5, BottomPush
      <4>. QED
        BY <4>4, <4>6, SeqPush
    <3>. QED
      BY <3>1, <3>2
  <2>6. BottomIn(<<f>> \o Asked, at, phase)
    BY <2>4, <2>5, BottomPush
  <2>. QED
    BY <2>2, <2>3, <2>4, <2>6
<1>7. CASE FinishSignature
  <2>1. /\ stack # <<>> /\ CatchUp(Tail(stack), Top.mod, Top.held)
        /\ at' = at /\ phase' = phase
    BY <1>7 DEF FinishSignature, Working
  <2>2. PICK f \in FrameType, s \in Seq(FrameType) :
           f = Top /\ s = Tail(stack) /\ BottomIn(s, at, phase)
    BY <1>3, <2>1
  <2>3. f.mod \in Modules /\ f.held \in SubjectType
    BY DEF FrameType
  <2>4. PICK pass \in Passes : pass = CatchUpPass(f.mod)
    BY DEF CatchUpPass, Passes
  <2>5. stack' = s \/ BeginWalk(s, f.mod, pass, TRUE, f.held)
    BY <2>1, <2>2, <2>4 DEF CatchUp
  <2>6. CASE BeginWalk(s, f.mod, pass, TRUE, f.held)
    <3>1. PICK g \in FrameType : g = WalkFrame(f.mod, pass, TRUE, f.held)
      BY <2>3, WalkFrameType
    <3>2. g.nested /\ stack' = <<g>> \o s
      BY <2>6, <3>1 DEF BeginWalk, WalkFrame
    <3>3. BottomIn(<<g>> \o s, at, phase)
      BY <2>2, <3>2, BottomPush
    <3>. QED
      BY <2>1, <3>2, <3>3
  <2>. QED
    BY <2>1, <2>2, <2>5, <2>6
<1>8. CASE WalkModule
  <2>1. /\ stack = <<>> /\ at \in Modules /\ at' = at /\ phase' = phase
        /\ phase \in {"collect", "infer", "recheck"}
        /\ BeginWalk(<<>>, at, PassOfLoop, FALSE, subject)
    BY <1>8 DEF WalkModule, Idle
  <2>2. PICK pass \in Passes : pass = PassOfLoop
    BY DEF PassOfLoop, Passes
  <2>3. PICK s \in Seq(FrameType) : s = <<>>
    BY <1>1, <2>1
  <2>4. PICK g \in FrameType : g = WalkFrame(at, pass, FALSE, subject)
    BY <1>1, <2>1, WalkFrameType
  <2>5. g.op = "walk" /\ g.mod = at /\ g.pass = pass /\ stack' = <<g>> \o s
    BY <2>1, <2>2, <2>3, <2>4 DEF BeginWalk, WalkFrame
  <2>6. Outermost(g, at, phase)
    BY <2>1, <2>2, <2>5 DEF Outermost, PassOfLoop
  <2>7. BottomIn(s, at, phase)
    BY <1>2, <2>3
  <2>8. BottomIn(<<g>> \o s, at, phase)
    BY <2>6, <2>7, BottomPush
  <2>. QED
    BY <2>1, <2>5, <2>8
<1>9. CASE NothingToWalk \/ ScanDeclaration \/ LeaveScanned \/ LowerSwitch
           \/ LeaveSwitches \/ CheckDeclaration \/ LeaveChecked \/ NextLoop
  <2>1. stack' = <<>>
    BY <1>9 DEF NothingToWalk, ScanDeclaration, LeaveScanned, LowerSwitch,
                LeaveSwitches, CheckDeclaration, LeaveChecked, InLoop, Idle,
                NextLoop, LoopIsOver
  <2>. QED
    BY <1>2, <2>1
<1>10. CASE Finished \/ UNCHANGED vars
  <2>1. stack' = stack /\ at' = at /\ phase' = phase
    BY <1>10 DEF Finished, vars
  <2>. QED
    BY <2>1
<1>. QED
  BY <1>4, <1>5, <1>6, <1>7, <1>8, <1>9, <1>10 DEF Next

\* Between two walks every list is at rest.
LEMMA IdleRests ==
    ASSUME PInv, stack = <<>>, NEW m \in Modules
    PROVE  AtRest(cand[m], mark["written"][m], mark["inferred"][m])
<1>1. OneWalk(stack, walking)
  BY DEF PInv
<1>2. WalksIn(stack) = {}
  BY DEF WalksIn, FramesOf
<1>3. m \notin walking
  BY <1>1, <1>2, WalkMods
<1>. QED
  BY <1>3 DEF PInv, Passing, PassingIn

\* A pass with nothing pending in a module that no walk is in is settled there.
LEMMA NothingPends ==
    ASSUME PInv, stack = <<>>, NEW p \in Passes, NEW m \in Modules, ~Pending(m, p)
    PROVE  SettledIn(cand, mark, stack, p, m)
<1>1. AtRest(cand[m], mark["written"][m], mark["inferred"][m])
  BY IdleRests
<1>2. mark["written"][m] <= Count(m) /\ mark["inferred"][m] <= Count(m)
  BY <1>1 DEF AtRest, Count
<1>3. cand[m] \in Seq(NameType) /\ mark[p][m] \in Nat
  BY DEF PInv, Inv, TypeOK
<1>4. mark[p][m] = Len(cand[m]) + 1 /\ mark[p][m] > 0
  BY <1>2, <1>3, ListIndex DEF Pending, Count, Passes
<1>. QED
  BY <1>4 DEF SettledIn

\* The loops leave nothing behind: what a pass has been over stays settled, and
\* a loop goes on only where its pass is.
LEMMA AllSettledStep ==
    PInv /\ BottomFrame /\ AllSettled /\ [Next]_vars => AllSettled'
<1>. SUFFICES ASSUME PInv, BottomFrame, AllSettled, [Next]_vars,
                     NEW p \in Passes, NEW m \in Modules, Behind(p, m)'
              PROVE  SettledIn(cand', mark', stack', p, m)
  BY DEF AllSettled
<1>1. /\ Inv /\ stack \in Seq(FrameType) /\ cand \in Lists /\ mark \in Marks
      /\ at \in Nat /\ grew \in BOOLEAN /\ phase \in Phases
  BY DEF PInv, Inv, TypeOK, Lists, Marks
<1>2. ~LowerSwitch /\ ~ScanDeclaration
  BY DEF LowerSwitch, ScanDeclaration, InLoop, Behind, LatePhases
<1>10. m \in Nat /\ m >= 1
  BY ModulesAssumption DEF Modules
<1>11. \/ /\ p = "written"
          /\ (phase' = "collect" /\ m < at') \/ (phase' = "implicit" /\ ~grew')
       \/ /\ p = "inferred"
          /\ \/ phase' = "infer" /\ m < at'
             \/ phase' = "switch" /\ ~grew'
             \/ phase' \in {"check", "recheck", "done"}
  BY DEF Behind, LatePhases
<1>3. CASE Behind(p, m)
  <2>1. SettledIn(cand, mark, stack, p, m)
    BY <1>3 DEF AllSettled
  <2>2. p = "written" => phase \in EarlyPhases
    BY <1>3 DEF Behind, EarlyPhases
  <2>. QED
    BY <1>2, <2>1, <2>2, SettledStays
<1>4. ASSUME UNCHANGED <<phase, at, grew>>
      PROVE  Behind(p, m)
  BY <1>4 DEF Behind
<1>5. CASE FinishWalk /\ ~Behind(p, m)
  <2>1. /\ stack # <<>> /\ Top.op = "walk" /\ stack' = Tail(stack)
        /\ Top.count = Count(Top.mod) /\ cand' = cand /\ phase' = phase
        /\ mark' = [mark EXCEPT ![Top.pass][Top.mod] = Top.count]
        /\ IF Top.nested THEN UNCHANGED <<at, grew>>
           ELSE at' = at + 1 /\ grew' = (grew \/ Top.worked)
    BY <1>5 DEF FinishWalk, RoundIsOver, Working
  <2>2. PICK f \in FrameType, s \in Seq(FrameType) :
           f = Top /\ s = Tail(stack) /\ stack = <<f>> \o s
    BY <1>1, <2>1, StackTop, Zenon
  <2>3. ~Top.nested
    BY <1>4, <1>5, <2>1
  <2>4. BottomIn(<<f>> \o s, at, phase)
    BY <2>2 DEF BottomFrame
  <2>5. Outermost(f, at, phase)
    BY <2>2, <2>3, <2>4, BottomPush
  <2>6. p = f.pass /\ m = at
    BY <1>1, <1>5, <1>10, <1>11, <2>1, <2>3, <2>5 DEF Behind, Outermost, LatePhases
  <2>7. mark'[p][m] = Len(cand[m]) + 1
    BY <1>1, <2>1, <2>2, <2>5, <2>6 DEF Marks, Count, Outermost
  <2>8. cand[m] \in Seq(NameType)
    BY <1>1 DEF Lists
  <2>9. mark'[p][m] = Len(cand'[m]) + 1 /\ mark'[p][m] > 0
    BY <2>1, <2>7, <2>8, ListIndex
  <2>. QED
    BY <2>9 DEF SettledIn
<1>6. CASE NothingToWalk /\ ~Behind(p, m)
  <2>1. /\ stack = <<>> /\ ~Pending(at, PassOfLoop) /\ at' = at + 1
        /\ UNCHANGED <<phase, grew, cand, mark, stack>>
    BY <1>6 DEF NothingToWalk, Idle
  <2>2. m = at /\ p = PassOfLoop
    BY <1>1, <1>6, <1>10, <1>11, <2>1 DEF Behind, PassOfLoop, LatePhases
  <2>3. SettledIn(cand, mark, stack, p, m)
    BY <2>1, <2>2, NothingPends
  <2>. QED
    BY <2>1, <2>3
<1>7. CASE NextLoop
  <2>1. at = NumModules + 1 /\ m < at
    BY <1>7, ModulesAssumption DEF NextLoop, LoopIsOver, Modules
  <2>2. \/ phase = "collect" /\ phase' = "implicit" /\ grew' = grew
        \/ phase = "implicit" /\ phase' \in {"collect", "infer"} /\ at' = 1
        \/ phase = "infer" /\ phase' = "switch" /\ grew' = grew
        \/ phase = "switch" /\ grew /\ phase' = "infer" /\ at' = 1
        \/ phase = "switch" /\ ~grew /\ phase' = "check"
        \/ phase = "check" /\ phase' \in LatePhases
        \/ phase = "recheck" /\ phase' \in LatePhases
    BY <1>7 DEF NextLoop, Begin, LatePhases
  <2>4. Behind(p, m)
    BY <1>10, <1>11, <2>1, <2>2 DEF Behind, LatePhases
  <2>. QED
    BY <1>3, <2>4
<1>8. CASE \/ TakeCandidate \/ FinishLate \/ FinishWritten \/ FinishInferred
           \/ LowerLoop \/ NextRound \/ FinishSignature \/ WalkModule
           \/ (\E k \in Keys : Instantiate(k)) \/ CheckDeclaration
           \/ Finished \/ UNCHANGED vars
  <2>1. UNCHANGED <<phase, at, grew>>
    BY <1>8, Zenon DEF TakeCandidate, FinishLate, FinishWritten, FinishInferred, LowerLoop,
                NextRound, FinishSignature, WalkModule, Instantiate,
                CheckDeclaration, Finished, vars
  <2>. QED
    BY <1>3, <1>4, <2>1
<1>9. CASE LeaveScanned \/ LeaveSwitches \/ LeaveChecked
  <2>1. /\ phase' = phase /\ grew' = grew
        /\ phase \in {"implicit", "switch", "check"}
    BY <1>9 DEF LeaveScanned, LeaveSwitches, LeaveChecked, InLoop
  <2>2. Behind(p, m)
    BY <2>1 DEF Behind
  <2>. QED
    BY <1>3, <2>2
<1>. QED
  BY <1>2, <1>3, <1>5, <1>6, <1>7, <1>8, <1>9 DEF Next

\* When the loops have ended nothing is being typed, and nothing is asked for.
DoneIdle == phase = "done" => stack = <<>> /\ ~free

LEMMA DoneIdleStep == Inv /\ DoneIdle /\ [Next]_vars => DoneIdle'
<1>. SUFFICES ASSUME Inv, DoneIdle, [Next]_vars, phase' = "done"
              PROVE  stack' = <<>> /\ ~free'
  BY DEF DoneIdle
<1>1. CASE phase = "done"
  <2>1. stack = <<>> /\ ~free
    BY <1>1 DEF DoneIdle
  <2>2. ~\E k \in Keys : Instantiate(k)
    BY <2>1 DEF Instantiate, MayAsk
  <2>3. NextLoop \/ Finished \/ NothingToWalk \/ UNCHANGED vars
    BY <1>1, <2>1, <2>2 DEF Next, TakeCandidate, FinishLate, FinishWritten,
       FinishInferred, LowerLoop, NextRound, FinishWalk, FinishSignature, WalkModule,
       ScanDeclaration, LeaveScanned, LowerSwitch, LeaveSwitches, CheckDeclaration,
       LeaveChecked, RoundIsOver, Typing, Working, InLoop
  <2>. QED
    BY <1>1, <2>1, <2>3 DEF NextLoop, Finished, NothingToWalk, vars
<1>2. CASE phase # "done"
  <2>1. NextLoop
    BY <1>2, Zenon DEF Next, vars, TakeCandidate, FinishLate, FinishWritten,
       FinishInferred, LowerLoop, NextRound, FinishWalk, FinishSignature, WalkModule,
       ScanDeclaration, LeaveScanned, LowerSwitch, LeaveSwitches, CheckDeclaration,
       LeaveChecked, Instantiate, NothingToWalk, Finished
  <2>. QED
    BY <1>2, <2>1 DEF NextLoop, LoopIsOver, Idle, Begin
<1>. QED
  BY <1>1, <1>2

\* What a loop is about to rely on is there.
LInv == PInv /\ TypesGiven /\ BottomFrame /\ AllSettled /\ DoneIdle

LEMMA InitLInv == Init => LInv
<1>. SUFFICES ASSUME Init
              PROVE  LInv
  OBVIOUS
<1>1. PInv /\ TypesGiven
  BY InitPasses, InitGiven
<1>2. stack = <<>> /\ phase = "collect" /\ at = 1
  BY DEF Init
<1>3. \A m \in Modules : m >= 1
  BY DEF Modules
<1>4. BottomFrame /\ DoneIdle
  BY <1>2 DEF BottomFrame, BottomIn, FramesOf, DoneIdle
<1>5. AllSettled
  BY <1>2, <1>3 DEF AllSettled, Behind, LatePhases, Modules
<1>. QED
  BY <1>1, <1>4, <1>5 DEF LInv

LEMMA NextLInv == LInv /\ [Next]_vars => LInv'
<1>1. PInv /\ [Next]_vars => PInv'
  BY NextPasses
<1>2. PInv /\ TypesGiven /\ [Next]_vars => TypesGiven'
  BY GivenStep
<1>3. PInv => Inv /\ SubjectsSuit
  BY DEF PInv
<1>. QED
  BY <1>1, <1>2, <1>3, BottomStep, AllSettledStep, DoneIdleStep DEF LInv

\* Once the loops that type have been over every module, a name of any module
\* is typed whenever no walk is running.
LEMMA TypedThen == LInv => TypedWhenIdle
<1>. SUFFICES ASSUME LInv, phase \in LatePhases, stack = <<>>,
                     NEW m \in Modules, NEW c \in DOMAIN cand[m]
              PROVE  cand[m][c].type # "none" /\ cand[m][c].gave = 1
  BY DEF TypedWhenIdle, LatePhases, Idle
<1>1. PInv /\ "inferred" \in Passes
  BY DEF LInv, Passes
<1>2. SettledIn(cand, mark, stack, "inferred", m)
  BY <1>1 DEF LInv, AllSettled, Behind
<1>3. mark["inferred"][m] = Len(cand[m]) + 1
  BY <1>2 DEF SettledIn, WalksIn, SignsIn, FramesOf
<1>4. AtRest(cand[m], mark["written"][m], mark["inferred"][m])
  BY <1>1, IdleRests
<1>5. cand[m] \in Seq(NameType)
  BY <1>1 DEF PInv, Inv, TypeOK
<1>6. c < mark["inferred"][m]
  BY <1>3, <1>5, ListIndex
<1>7. cand[m][c].gave = 1
  BY <1>4, <1>6 DEF AtRest, Once
<1>. QED
  BY <1>7 DEF LInv, TypesGiven, Given

-----------------------------------------------------------------------------
(* The phase keeps its ledger.                                             *)

\* The names in the lists C, and those the inferred pass has been through.
NamesOf(C) == UNION {{m} \X DOMAIN C[m] : m \in Modules}
TypedOf(C) == {n \in NamesOf(C) : C[n[1]][n[2]].gave > 0}

LEMMA NamesAre ==
    ASSUME NEW C, NEW n
    PROVE  /\ n \in NamesOf(C) <=> \E m \in Modules : \E c \in DOMAIN C[m] : n = <<m, c>>
           /\ n \in TypedOf(C) <=> \E m \in Modules : \E c \in DOMAIN C[m] :
                                      n = <<m, c>> /\ C[m][c].gave > 0
<1>1. n \in NamesOf(C) <=> \E m \in Modules : \E c \in DOMAIN C[m] : n = <<m, c>>
  BY DEF NamesOf
<1>2. \A m, c : n = <<m, c>> => n[1] = m /\ n[2] = c
  OBVIOUS
<1>. QED
  BY <1>1, <1>2 DEF TypedOf

\* Only what gives a name its inferred type counts a name as through the pass.
LEMMA GaveStep ==
    ASSUME PInv, [Next]_vars, ~FinishInferred, ~LowerLoop,
           NEW m \in Modules, NEW c \in DOMAIN cand[m]
    PROVE  cand'[m][c].gave = cand[m][c].gave
<1>1. Inv
  BY DEF PInv
<1>2. QuietStep => cand'[m][c].gave = cand[m][c].gave
  BY DEF QuietStep, Quiet
<1>3. CASE FinishLate \/ FinishWritten
  <2>1. Typing
    BY <1>3 DEF FinishLate, FinishWritten
  <2>2. PICK n : n = IF FinishLate THEN Wrote(Subjected) ELSE WroteAndAsked(Subjected)
    OBVIOUS
  <2>3. cand' = [cand EXCEPT ![Top.mod][Top.cand] = n]
    <3>1. CASE FinishLate
      BY <2>2, <3>1 DEF FinishLate, Subjected
    <3>2. CASE ~FinishLate
      BY <1>3, <2>2, <3>2 DEF FinishWritten, Subjected
    <3>. QED
      BY <3>1, <3>2
  <2>4. n.gave = Subjected.gave
    BY <2>1, <2>2, InHand DEF Wrote, WroteAndAsked, NameType
  <2>5. cand \in Lists /\ cand[m] \in Seq(NameType)
    BY <1>1 DEF Inv, TypeOK, Lists
  <2>6. CASE m = Top.mod /\ c = Top.cand
    BY <2>3, <2>4, <2>5, <2>6 DEF Lists, Subjected
  <2>7. CASE m = Top.mod /\ c # Top.cand
    BY <2>3, <2>5, <2>7 DEF Lists
  <2>8. CASE m # Top.mod
    BY <2>3, <2>5, <2>8 DEF Lists
  <2>. QED
    BY <2>6, <2>7, <2>8
<1>4. CASE \E k \in Keys : Instantiate(k)
  BY <1>1, <1>2, <1>4, CloneQuiet
<1>5. CASE FinishSignature
  BY <1>1, <1>2, <1>5, SignQuiet
<1>6. CASE ScanDeclaration
  BY <1>1, <1>2, <1>6, ScanQuiet
<1>7. CASE LowerSwitch
  BY <1>1, <1>2, <1>7, SwitchQuiet
<1>8. CASE \/ TakeCandidate \/ NextRound \/ FinishWalk \/ WalkModule \/ NothingToWalk
           \/ LeaveScanned \/ LeaveSwitches \/ CheckDeclaration \/ LeaveChecked
           \/ NextLoop \/ Finished \/ UNCHANGED vars
  <2>1. cand' = cand
    BY <1>8, Zenon DEF TakeCandidate, NextRound, FinishWalk, WalkModule, NothingToWalk,
                LeaveScanned, LeaveSwitches, CheckDeclaration, LeaveChecked,
                NextLoop, Finished, vars
  <2>. QED
    BY <2>1
<1>. QED
  BY <1>3, <1>4, <1>5, <1>6, <1>7, <1>8 DEF Next

\* and it counts the one name in hand.
LEMMA GaveOne ==
    ASSUME PInv, FinishInferred \/ LowerLoop
    PROVE  /\ Top.mod \in Modules /\ Top.cand \in DOMAIN cand[Top.mod]
           /\ cand[Top.mod][Top.cand].gave = 0 /\ cand'[Top.mod][Top.cand].gave = 1
           /\ \A m \in Modules : \A c \in DOMAIN cand[m] :
                 m # Top.mod \/ c # Top.cand => cand'[m][c].gave = cand[m][c].gave
<1>1. Typing
  BY DEF FinishInferred, LowerLoop
<1>2. /\ Top.mod \in Modules /\ cand[Top.mod] \in Seq(NameType)
      /\ Top.cand \in DOMAIN cand[Top.mod] /\ Subjected \in NameType
      /\ Subjected = cand[Top.mod][Top.cand] /\ Subjected.gave = 0
  BY <1>1, InHand
<1>3. cand \in Lists
  BY DEF PInv, Inv, TypeOK, Lists
<1>4. CASE FinishInferred
  <2>1. PICK n : n = Gave(Subjected)
    OBVIOUS
  <2>2. cand' = [cand EXCEPT ![Top.mod][Top.cand] = n]
    BY <1>4, <2>1 DEF FinishInferred, Subjected
  <2>3. n.gave = 1
    BY <1>2, <2>1 DEF Gave, NameType
  <2>. QED
    BY <1>2, <1>3, <2>2, <2>3 DEF Lists
<1>5. CASE LowerLoop
  <2>1. PICK n : n = Gave([Subjected EXCEPT !.sort = "local"])
    OBVIOUS
  <2>2. n \in NameType /\ n.gave = 1
    <3>1. PICK b \in NameType : b = [Subjected EXCEPT !.sort = "local"]
      BY <1>2 DEF NameType, BodySorts
    <3>2. b.gave = 0 /\ InferredType(b) \in TypeStates
      BY <1>2, <3>1 DEF NameType, InferredType, TypeStates
    <3>3. n = [b EXCEPT !.type = InferredType(b), !.gave = b.gave + 1]
      BY <2>1, <3>1 DEF Gave
    <3>4. PICK y \in TypeStates : y = InferredType(b)
      BY <3>2
    <3>5. n = [b EXCEPT !.type = y, !.gave = 1]
      BY <3>2, <3>3, <3>4
    <3>6. 1 \in Nat
      OBVIOUS
    <3>. QED
      BY <3>1, <3>5, <3>6 DEF NameType
  <2>3. PICK t \in Seq(NameType) :
           /\ t = [cand[Top.mod] EXCEPT ![Top.cand] = n]
           /\ DOMAIN t = DOMAIN cand[Top.mod] /\ t[Top.cand] = n
           /\ \A d \in DOMAIN cand[Top.mod] \ {Top.cand} : t[d] = cand[Top.mod][d]
    <3>1. PICK t : t = [cand[Top.mod] EXCEPT ![Top.cand] = n]
      OBVIOUS
    <3>2. PICK list \in Seq(NameType) : list = cand[Top.mod]
      BY <1>2
    <3>3. PICK c \in DOMAIN list : c = Top.cand
      BY <1>2, <3>2
    <3>4. t = [list EXCEPT ![c] = n]
      BY <3>1, <3>2, <3>3
    <3>5. /\ t \in Seq(NameType) /\ DOMAIN t = DOMAIN list /\ t[c] = n
          /\ \A d \in DOMAIN list \ {c} : t[d] = list[d]
      BY <2>2, <3>4, OneElement
    <3>. QED
      BY <3>1, <3>2, <3>3, <3>5
  <2>4. PICK l : l = Declared("local", Subjected.owner, FALSE, "given", FALSE)
    OBVIOUS
  <2>5. <<l>> \in Seq(Fresh)
    <3>1. Subjected.owner \in Nat
      BY <1>2 DEF NameType
    <3>2. l \in Fresh
      BY <2>4, <3>1, DeclaredFresh DEF BodySorts, TypeStates
    <3>. QED
      BY <3>2
  <2>6. cand' = [cand EXCEPT ![Top.mod] = t \o <<l>>]
    <3>1. cand' = [cand EXCEPT ![Top.mod] =
              [cand[Top.mod] EXCEPT ![Top.cand] =
                  Gave([Subjected EXCEPT !.sort = "local"])]
              \o <<Declared("local", Subjected.owner, FALSE, "given", FALSE)>>]
      BY <1>5, ZenonT(60) DEF LowerLoop
    <3>. QED
      BY <2>1, <2>3, <2>4, <3>1, ZenonT(60)
  <2>7. \A d \in DOMAIN t : (t \o <<l>>)[d] = t[d]
    BY <2>5, GrownNames
  <2>8. cand'[Top.mod] = t \o <<l>>
        /\ \A m \in Modules \ {Top.mod} : cand'[m] = cand[m]
    BY <1>2, <1>3, <2>6 DEF Lists
  <2>9. \A d \in DOMAIN cand[Top.mod] : cand'[Top.mod][d] = t[d]
    BY <2>3, <2>7, <2>8
  <2>10. cand'[Top.mod][Top.cand].gave = 1
    BY <1>2, <2>2, <2>3, <2>9
  <2>11. ASSUME NEW m \in Modules, NEW c \in DOMAIN cand[m],
                m # Top.mod \/ c # Top.cand
         PROVE  cand'[m][c].gave = cand[m][c].gave
    <3>1. CASE m = Top.mod
      BY <2>3, <2>9, <2>11, <3>1
    <3>2. CASE m # Top.mod
      BY <2>8, <3>2
    <3>. QED
      BY <3>1, <3>2
  <2>. QED
    BY <1>2, <2>10, <2>11
<1>. QED
  BY <1>4, <1>5

LEMMA LedgerStep == LInv /\ [Next]_vars => [Ledger!Next]_(Ledger!ledger)
<1>. SUFFICES ASSUME LInv, [Next]_vars
              PROVE  \/ Ledger!Next
                     \/ /\ NamesOf(cand') = NamesOf(cand)
                        /\ TypedOf(cand') = TypedOf(cand)
                        /\ (phase' = "done") = (phase = "done")
  BY DEF Ledger!ledger, NamesOf, TypedOf, Names
<1>1. PInv /\ DoneIdle
  BY DEF LInv
<1>2. NamesOf(cand) \subseteq NamesOf(cand')
  <2>1. \A m \in Modules : DOMAIN cand[m] \subseteq DOMAIN cand'[m]
    BY <1>1, NameStep DEF FollowStep, Follows
  <2>. QED
    BY <2>1, NamesAre
<1>3. /\ Names = NamesOf(cand) /\ Names' = NamesOf(cand')
      /\ {n \in Names : cand[n[1]][n[2]].gave > 0} = TypedOf(cand)
      /\ {n \in Names' : cand'[n[1]][n[2]].gave > 0} = TypedOf(cand')
  BY DEF Names, NamesOf, TypedOf
<1>4. ASSUME NEW m \in Modules, NEW c \in DOMAIN cand'[m], c \notin DOMAIN cand[m]
      PROVE  cand'[m][c].gave = 0
  BY <1>1, <1>4, NameStep DEF FollowStep, Follows, Newborn
<1>5. CASE phase = "done"
  <2>1. stack = <<>> /\ ~free
    BY <1>1, <1>5 DEF DoneIdle
  <2>2. ~\E k \in Keys : Instantiate(k)
    BY <2>1, ZenonT(60) DEF Instantiate, MayAsk
  <2>3. NextLoop \/ Finished \/ NothingToWalk \/ UNCHANGED vars
    BY <1>5, <2>1, <2>2 DEF Next, TakeCandidate, FinishLate, FinishWritten,
       FinishInferred, LowerLoop, NextRound, FinishWalk, FinishSignature, WalkModule,
       ScanDeclaration, LeaveScanned, LowerSwitch, LeaveSwitches, CheckDeclaration,
       LeaveChecked, RoundIsOver, Typing, Working, InLoop
  <2>4. phase' = phase /\ cand' = cand
    BY <1>5, <2>3 DEF NextLoop, Finished, NothingToWalk, vars
  <2>. QED
    BY <2>4
<1>6. CASE phase # "done" /\ phase' # "done" /\ ~FinishInferred /\ ~LowerLoop
  <2>1. TypedOf(cand') = TypedOf(cand)
    <3>1. \A m \in Modules : \A c \in DOMAIN cand[m] :
             c \in DOMAIN cand'[m] /\ cand'[m][c].gave = cand[m][c].gave
      BY <1>1, <1>6, GaveStep, NameStep DEF FollowStep, Follows
    <3>2. ASSUME NEW n
          PROVE  n \in TypedOf(cand') <=> n \in TypedOf(cand)
      BY <1>4, <3>1, NamesAre
    <3>. QED
      BY <3>2 DEF TypedOf
  <2>2. Ledger!Declare
    BY <1>2, <1>3, <1>6, <2>1 DEF Ledger!Declare
  <2>. QED
    BY <2>2 DEF Ledger!Next
<1>7. CASE phase # "done" /\ (FinishInferred \/ LowerLoop)
  <2>1. /\ Top.mod \in Modules /\ Top.cand \in DOMAIN cand[Top.mod]
        /\ cand[Top.mod][Top.cand].gave = 0 /\ cand'[Top.mod][Top.cand].gave = 1
        /\ \A m \in Modules : \A c \in DOMAIN cand[m] :
                 m # Top.mod \/ c # Top.cand => cand'[m][c].gave = cand[m][c].gave
    BY <1>1, <1>7, GaveOne
  <2>2. PICK m \in Modules : m = Top.mod
    BY <2>1
  <2>9. PICK c \in DOMAIN cand[m] : c = Top.cand
    BY <2>1, <2>2
  <2>3. \A i \in Modules : DOMAIN cand[i] \subseteq DOMAIN cand'[i]
    BY <1>1, NameStep DEF FollowStep, Follows
  <2>4. <<m, c>> \in NamesOf(cand) /\ <<m, c>> \notin TypedOf(cand)
    BY <2>1, <2>2, <2>9, NamesAre
  <2>5. TypedOf(cand') = TypedOf(cand) \cup {<<m, c>>}
    <3>1. ASSUME NEW n
          PROVE  n \in TypedOf(cand') <=> n \in TypedOf(cand) \cup {<<m, c>>}
      <4>1. ASSUME n \in TypedOf(cand')
            PROVE  n \in TypedOf(cand) \cup {<<m, c>>}
        <5>0. PICK i \in Modules : \E d \in DOMAIN cand'[i] :
                 n = <<i, d>> /\ cand'[i][d].gave > 0
          BY <4>1, NamesAre
        <5>1. PICK d \in DOMAIN cand'[i] : n = <<i, d>> /\ cand'[i][d].gave > 0
          BY <5>0
        <5>2. d \in DOMAIN cand[i]
          BY <1>4, <5>1
        <5>3. CASE i = m /\ d = c
          BY <5>1, <5>3
        <5>4. CASE i # m \/ d # c
          <6>1. cand[i][d].gave > 0
            BY <2>1, <2>2, <2>9, <5>1, <5>2, <5>4
          <6>. QED
            BY <5>1, <5>2, <6>1, NamesAre
        <5>. QED
          BY <5>3, <5>4
      <4>2. ASSUME n \in TypedOf(cand)
            PROVE  n \in TypedOf(cand')
        <5>0. PICK i \in Modules : \E d \in DOMAIN cand[i] :
                 n = <<i, d>> /\ cand[i][d].gave > 0
          BY <4>2, NamesAre
        <5>1. PICK d \in DOMAIN cand[i] : n = <<i, d>> /\ cand[i][d].gave > 0
          BY <5>0
        <5>2. cand'[i][d].gave > 0 /\ d \in DOMAIN cand'[i]
          BY <2>1, <2>3, <5>1
        <5>. QED
          BY <5>1, <5>2, NamesAre
      <4>3. <<m, c>> \in TypedOf(cand')
        BY <2>1, <2>2, <2>9, <2>3, NamesAre
      <4>. QED
        BY <4>1, <4>2, <4>3
    <3>. QED
      BY <3>1 DEF TypedOf
  <2>6. phase' = phase
    BY <1>7 DEF FinishInferred, LowerLoop
  <2>7. PICK n : n = <<m, c>>
    OBVIOUS
  <2>8. Ledger!Type(n)
    BY <1>2, <1>3, <1>7, <2>4, <2>5, <2>6, <2>7 DEF Ledger!Type
  <2>. QED
    BY <1>3, <2>4, <2>7, <2>8 DEF Ledger!Next
<1>8. CASE phase # "done" /\ phase' = "done"
  <2>1. NextLoop
    BY <1>8, Zenon DEF Next, vars, TakeCandidate, FinishLate, FinishWritten,
       FinishInferred, LowerLoop, NextRound, FinishWalk, FinishSignature, WalkModule,
       ScanDeclaration, LeaveScanned, LowerSwitch, LeaveSwitches, CheckDeclaration,
       LeaveChecked, Instantiate, NothingToWalk, Finished
  <2>2. phase = "check" /\ stack = <<>> /\ cand' = cand
    BY <1>8, <2>1 DEF NextLoop, LoopIsOver, Idle, Begin
  <2>3. \A m \in Modules : \A c \in DOMAIN cand[m] : cand[m][c].gave = 1
    BY <2>2, TypedThen DEF TypedWhenIdle, Idle
  <2>4. TypedOf(cand) = NamesOf(cand)
    <3>1. ASSUME NEW n
          PROVE  n \in TypedOf(cand) <=> n \in NamesOf(cand)
      BY <2>3, NamesAre
    <3>. QED
      BY <3>1 DEF TypedOf
  <2>5. Ledger!Close
    BY <1>3, <1>8, <2>2, <2>4 DEF Ledger!Close
  <2>. QED
    BY <2>5 DEF Ledger!Next
<1>. QED
  BY <1>5, <1>6, <1>7, <1>8

LEMMA LedgerInit == Init => Ledger!Init
<1>. SUFFICES ASSUME Init
              PROVE  {n \in Names : cand[n[1]][n[2]].gave > 0} = {} /\ phase # "done"
  BY DEF Ledger!Init
<1>1. \A m \in Modules : \A c \in DOMAIN cand[m] : cand[m][c].gave = 0
  BY DEF Init, Declared
<1>2. TypedOf(cand) = {}
  BY <1>1, NamesAre
<1>3. phase = "collect"
  BY DEF Init
<1>. QED
  BY <1>2, <1>3 DEF TypedOf, NamesOf, Names

\* The type phase implements its ledger for every program: names are typed one
\* at a time and once, and the phase is over when no name is left untyped.
THEOREM LedgerKept == Spec => KeepsTheLedger
<1>. QED
  BY InitLInv, NextLInv, LedgerInit, LedgerStep, PTL
  DEF Spec, KeepsTheLedger, Ledger!Spec

-----------------------------------------------------------------------------
(* What a step leaves of a name, and what it adds to a list.               *)

\* What no step takes from a name: its place in the program, and what it has.
Keeps(n, x) ==
    /\ x.owner = n.owner /\ x.early = n.early
    /\ x.sort = n.sort \/ (n.sort = "loop" /\ x.sort = "local" /\ x.gave > 0)
    /\ x.gave = 0 => n.gave = 0
    /\ n.scanned => x.scanned
    /\ n.sort = "class" /\ n.super => x.super
    /\ n.sort \in HeadSorts \cup {"field"} /\ n.type # "none" => x.type # "none"

LEMMA BecomesKeeps ==
    ASSUME NEW n \in NameType, NEW x, Becomes(n, x)
    PROVE  Keeps(n, x)
<1>1. CASE x = n
  BY <1>1 DEF Keeps
<1>2. CASE n.type = "none" /\ x = [n EXCEPT !.type = "written"]
  BY <1>2 DEF Keeps, NameType
<1>3. CASE x = [n EXCEPT !.scanned = TRUE]
  BY <1>3 DEF Keeps, NameType
<1>4. Wrote(n) \in NameType /\ Keeps(n, Wrote(n))
  <2>1. Wrote(n) \in NameType
    BY PassType
  <2>2. /\ Wrote(n).owner = n.owner /\ Wrote(n).early = n.early
        /\ Wrote(n).sort = n.sort /\ Wrote(n).gave = n.gave
        /\ Wrote(n).scanned = n.scanned /\ Wrote(n).type = WrittenType(n)
        /\ n.sort = "class" => Wrote(n).super
    BY DEF Wrote, NameType
  <2>3. n.sort \in HeadSorts \cup {"field"} => WrittenType(n) # "none"
    BY DEF WrittenType
  <2>. QED
    BY <2>1, <2>2, <2>3 DEF Keeps
<1>5. Keeps(n, WroteAndAsked(n))
  <2>1. PICK w \in NameType : w = Wrote(n) /\ Keeps(n, w)
    BY <1>4
  <2>2. WroteAndAsked(n) = [w EXCEPT !.built = n.built + 1]
    BY <2>1 DEF WroteAndAsked
  <2>. QED
    BY <2>1, <2>2 DEF Keeps, NameType
<1>6. ASSUME NEW b \in NameType
      PROVE  /\ Gave(b).owner = b.owner /\ Gave(b).early = b.early
             /\ Gave(b).sort = b.sort /\ Gave(b).gave = b.gave + 1
             /\ Gave(b).scanned = b.scanned /\ Gave(b).type # "none"
             /\ Gave(b).super = b.super
  <2>1. InferredType(b) # "none"
    BY DEF InferredType
  <2>. QED
    BY <2>1 DEF Gave, NameType
<1>7. Keeps(n, Gave(n))
  <2>1. n.gave \in Nat
    BY DEF NameType
  <2>. QED
    BY <1>6, <2>1 DEF Keeps
<1>8. CASE n.sort = "loop" /\ x = Gave([n EXCEPT !.sort = "local"])
  <2>1. PICK b \in NameType : b = [n EXCEPT !.sort = "local"]
    BY DEF NameType, BodySorts
  <2>2. /\ b.owner = n.owner /\ b.early = n.early /\ b.sort = "local"
        /\ b.scanned = n.scanned /\ b.gave \in Nat
    BY <2>1 DEF NameType
  <2>3. x = Gave(b)
    BY <1>8, <2>1
  <2>. QED
    BY <1>6, <1>8, <2>2, <2>3 DEF Keeps
<1>9. \/ x = n
      \/ n.type = "none" /\ x = [n EXCEPT !.type = "written"]
      \/ x = [n EXCEPT !.scanned = TRUE]
      \/ x = Wrote(n) \/ x = WroteAndAsked(n) \/ x = Gave(n)
      \/ n.sort = "loop" /\ x = Gave([n EXCEPT !.sort = "local"])
  BY DEF Becomes
<1>. QED
  BY <1>1, <1>2, <1>3, <1>4, <1>5, <1>7, <1>8, <1>9

\* A name that is there is there after any step, and keeps what it has.
LEMMA NamesKeep ==
    ASSUME PInv, [Next]_vars, NEW m \in Modules, NEW c \in DOMAIN cand[m]
    PROVE  c \in DOMAIN cand'[m] /\ Keeps(cand[m][c], cand'[m][c])
<1>1. PICK n \in NameType : n = cand[m][c]
  <2>1. cand[m] \in Seq(NameType)
    BY DEF PInv, Inv, TypeOK
  <2>. QED
    BY <2>1, ListIndex
<1>2. c \in DOMAIN cand'[m] /\ Becomes(n, cand'[m][c])
  BY <1>1, NameStep DEF FollowStep, Follows
<1>. QED
  BY <1>1, <1>2, BecomesKeeps

\* What the lowerings and the ImplicitCollector declare heads nothing.
OwnSorts == {"implicit", "switch", "local"}

Own == {n \in NameType : n.sort \in OwnSorts}

\* What is in a list that grew by names of a set.
LEMMA GrownOf ==
    ASSUME NEW S \in SUBSET NameType, NEW list \in Seq(NameType), NEW names \in Seq(S)
    PROVE  /\ DOMAIN list \subseteq DOMAIN (list \o names)
           /\ \A d \in DOMAIN list : (list \o names)[d] = list[d]
           /\ \A d \in DOMAIN (list \o names) \ DOMAIN list : (list \o names)[d] \in S
<1>. DEFINE t == list \o names
<1>1. names \in Seq(NameType)
  OBVIOUS
<1>2. /\ Len(list) \in Nat /\ DOMAIN list = 1 .. Len(list)
      /\ Len(names) \in Nat /\ DOMAIN names = 1 .. Len(names)
  BY <1>1, LenProperties
<1>3. /\ t \in Seq(NameType) /\ Len(t) = Len(list) + Len(names)
      /\ \A c \in 1 .. Len(t) :
            t[c] = IF c <= Len(list) THEN list[c] ELSE names[c - Len(list)]
  BY <1>1, ConcatProperties
<1>4. DOMAIN t = 1 .. Len(t)
  BY <1>3, LenProperties
<1>. HIDE DEF t
<1>5. DOMAIN list \subseteq DOMAIN t
  BY <1>2, <1>3, <1>4
<1>6. ASSUME NEW c \in DOMAIN list
      PROVE  t[c] = list[c]
  BY <1>2, <1>3, <1>4
<1>7. ASSUME NEW c \in DOMAIN t \ DOMAIN list
      PROVE  t[c] \in S
  <2>1. c \in 1 .. Len(t) /\ ~(c <= Len(list)) /\ c - Len(list) \in 1 .. Len(names)
    BY <1>2, <1>3, <1>4
  <2>2. t[c] = names[c - Len(list)] /\ names[c - Len(list)] \in S
    BY <1>2, <1>3, <2>1
  <2>. QED
    BY <2>2
<1>. QED
  BY <1>5, <1>6, <1>7 DEF t

LEMMA OwnNames ==
    ASSUME PInv, [Next]_vars, ~\E k \in Keys : Instantiate(k),
           NEW m \in Modules, NEW c \in DOMAIN cand'[m], c \notin DOMAIN cand[m]
    PROVE  /\ cand'[m][c].sort \in OwnSorts
           /\ LowerLoop \/ ScanDeclaration \/ LowerSwitch
<1>1. cand \in Lists /\ cand[m] \in Seq(NameType)
  BY DEF PInv, Inv, TypeOK, Lists
<1>2. ASSUME NEW n \in Modules, NEW t \in Seq(NameType), NEW names \in Seq(Own),
             DOMAIN t = DOMAIN cand[n], cand' = [cand EXCEPT ![n] = t \o names]
      PROVE  cand'[m][c].sort \in OwnSorts
  <2>1. n = m /\ cand'[m] = t \o names
    BY <1>1, <1>2 DEF Lists
  <2>2. Own \in SUBSET NameType
    BY DEF Own
  <2>3. (t \o names)[c] \in Own
    <3>1. \A d \in DOMAIN (t \o names) \ DOMAIN t : (t \o names)[d] \in Own
      BY <2>2, GrownOf
    <3>. QED
      BY <1>2, <2>1, <3>1
  <2>. QED
    BY <2>1, <2>3 DEF Own
<1>3. ASSUME NEW sort \in OwnSorts, NEW owner \in Nat, NEW type \in TypeStates,
             NEW early \in BOOLEAN
      PROVE  <<Declared(sort, owner, FALSE, type, early)>> \in Seq(Own)
  <2>1. sort \in HeadSorts \cup BodySorts
    BY DEF OwnSorts, BodySorts
  <2>2. PICK x : x = Declared(sort, owner, FALSE, type, early)
    OBVIOUS
  <2>3. x \in NameType
    BY <2>1, <2>2, DeclaredType
  <2>4. x.sort = sort
    BY <2>2 DEF Declared
  <2>5. x \in Own
    BY <2>3, <2>4 DEF Own
  <2>6. <<x>> \in Seq(Own)
    BY <2>5
  <2>. QED
    BY <2>2, <2>6
<1>4. CASE LowerLoop
  <2>1. Typing
    BY <1>4 DEF LowerLoop
  <2>2. /\ Top.mod \in Modules /\ cand[Top.mod] \in Seq(NameType)
        /\ Top.cand \in DOMAIN cand[Top.mod] /\ Subjected \in NameType
    BY <2>1, InHand
  <2>3. PICK names \in Seq(Own) :
           names = <<Declared("local", Subjected.owner, FALSE, "given", FALSE)>>
    <3>1. Subjected.owner \in Nat
      BY <2>2 DEF NameType
    <3>. QED
      BY <1>3, <3>1 DEF OwnSorts, TypeStates
  <2>4. PICK n \in NameType : n = Gave([Subjected EXCEPT !.sort = "local"])
    <3>1. [Subjected EXCEPT !.sort = "local"] \in NameType
      BY <2>2 DEF NameType, BodySorts
    <3>. QED
      BY <3>1, PassType
  <2>5. PICK t \in Seq(NameType) :
           t = [cand[Top.mod] EXCEPT ![Top.cand] = n] /\ DOMAIN t = DOMAIN cand[Top.mod]
    <3>1. PICK list \in Seq(NameType) : list = cand[Top.mod]
      BY <2>2
    <3>2. PICK d \in DOMAIN list : d = Top.cand
      BY <2>2, <3>1
    <3>3. PICK t : t = [list EXCEPT ![d] = n]
      OBVIOUS
    <3>4. t \in Seq(NameType) /\ DOMAIN t = DOMAIN list
      BY <3>3, OneElement
    <3>. QED
      BY <3>1, <3>2, <3>3, <3>4
  <2>6. cand' = [cand EXCEPT ![Top.mod] = t \o names]
    BY <1>4, <2>3, <2>4, <2>5 DEF LowerLoop
  <2>. QED
    BY <1>2, <1>4, <2>2, <2>5, <2>6
<1>5. CASE ScanDeclaration
  <2>1. PICK d \in Unscanned(at) :
         cand' = [cand EXCEPT ![at] =
                    [cand[at] EXCEPT ![d] = [cand[at][d] EXCEPT !.scanned = TRUE]]
                      \o (IF cand[at][d].assigns
                          THEN <<Declared("implicit", d, FALSE, "none", TRUE)>>
                          ELSE <<>>)]
    BY <1>5 DEF ScanDeclaration
  <2>2. at \in Modules /\ cand[at] \in Seq(NameType)
    BY <1>5 DEF ScanDeclaration, InLoop, PInv, Inv, TypeOK
  <2>3. d \in DOMAIN cand[at] /\ cand[at][d] \in NameType /\ d \in Nat
    BY <2>2, ListIndex DEF Unscanned, RootHeads
  <2>4. PICK n \in NameType : n = [cand[at][d] EXCEPT !.scanned = TRUE]
    BY <2>3 DEF NameType
  <2>5. PICK names \in Seq(Own) :
         names = IF cand[at][d].assigns
                 THEN <<Declared("implicit", d, FALSE, "none", TRUE)>> ELSE <<>>
    <3>1. <<Declared("implicit", d, FALSE, "none", TRUE)>> \in Seq(Own)
      BY <1>3, <2>3 DEF OwnSorts, TypeStates
    <3>2. <<>> \in Seq(Own)
      OBVIOUS
    <3>. QED
      BY <3>1, <3>2
  <2>6. PICK t \in Seq(NameType) :
           t = [cand[at] EXCEPT ![d] = n] /\ DOMAIN t = DOMAIN cand[at]
    <3>1. PICK list \in Seq(NameType) : list = cand[at]
      BY <2>2
    <3>2. d \in DOMAIN list
      BY <2>3, <3>1
    <3>3. PICK t : t = [list EXCEPT ![d] = n]
      OBVIOUS
    <3>4. t \in Seq(NameType) /\ DOMAIN t = DOMAIN list
      BY <3>2, <3>3, OneElement
    <3>. QED
      BY <3>1, <3>3, <3>4
  <2>7. cand' = [cand EXCEPT ![at] = t \o names]
    BY <2>1, <2>4, <2>5, <2>6
  <2>. QED
    BY <1>2, <1>5, <2>2, <2>6, <2>7
<1>6. CASE LowerSwitch
  <2>1. at \in Modules
    BY <1>6 DEF LowerSwitch, InLoop
  <2>2. PICK names \in Seq(Own) :
           names = <<Declared("switch", 1, FALSE, "given", FALSE)>>
    BY <1>3 DEF OwnSorts, TypeStates
  <2>3. PICK t \in Seq(NameType) : t = cand[at]
    BY <1>1, <2>1 DEF Lists
  <2>4. cand' = [cand EXCEPT ![at] = t \o names]
    BY <1>6, <2>1, <1>1, <2>2, <2>3 DEF LowerSwitch, Grown, Lists
  <2>. QED
    BY <1>2, <1>6, <2>1, <2>3, <2>4
<1>7. CASE FinishLate \/ FinishWritten \/ FinishInferred
  <2>1. DOMAIN cand'[m] = DOMAIN cand[m]
    BY <1>1, <1>7, SMTT(60) DEF FinishLate, FinishWritten, FinishInferred, Lists
  <2>. QED
    BY <2>1
<1>8. CASE FinishSignature
  <2>1. PICK new \in Seq(NameType) :
              /\ cand' = [cand EXCEPT ![Top.mod] = new]
              /\ DOMAIN new = DOMAIN cand[Top.mod]
    BY <1>8, SignStep DEF PInv
  <2>2. DOMAIN cand'[m] = DOMAIN cand[m]
    BY <1>1, <2>1 DEF Lists
  <2>. QED
    BY <2>2
<1>9. CASE \/ TakeCandidate \/ NextRound \/ FinishWalk \/ WalkModule \/ NothingToWalk
           \/ LeaveScanned \/ LeaveSwitches \/ CheckDeclaration \/ LeaveChecked
           \/ NextLoop \/ Finished \/ UNCHANGED vars
  <2>1. cand' = cand
    BY <1>9, Zenon DEF TakeCandidate, NextRound, FinishWalk, WalkModule, NothingToWalk,
                LeaveScanned, LeaveSwitches, CheckDeclaration, LeaveChecked, NextLoop,
                Finished, vars
  <2>. QED
    BY <2>1
<1>. QED
  BY <1>4, <1>5, <1>6, <1>7, <1>8, <1>9 DEF Next

\* The two names of a clone, at the end of the list of the module that
\* declares the generic.
Cloned(sort, early, list, new) ==
    /\ DOMAIN new = 1 .. Len(list) + 2
    /\ new[Len(list) + 1].sort = sort
    /\ new[Len(list) + 1].owner = IF sort = "method" THEN 1 ELSE Len(list) + 1
    /\ new[Len(list) + 1].early => early
    /\ new[Len(list) + 2].sort \in {"field", "local"}
    /\ new[Len(list) + 2].owner = Len(list) + 1

\* What a use of a key adds: nothing when its clone is there, or the clone.
LEMMA CloneNames ==
    ASSUME Inv, NEW k \in Keys, Instantiate(k), NEW m \in Modules
    PROVE  /\ memo' = [memo EXCEPT ![k] = memo'[k]]
           /\ memo[k] # 0 => memo'[k] = memo[k] /\ DOMAIN cand'[m] = DOMAIN cand[m]
           /\ m # HostOf[k] => cand'[m] = cand[m]
           /\ memo[k] = 0 =>
                 /\ memo'[k] = Len(cand[HostOf[k]]) + 1
                 /\ stack' = <<SignFrame(HostOf[k], memo'[k], TRUE)>> \o Asked
                 /\ Cloned(SortOf[k], phase \in EarlyPhases, cand[HostOf[k]],
                           cand'[HostOf[k]])
<1>0. PICK list \in Seq(NameType) : list = cand[HostOf[k]]
  BY KeysAssumption DEF Inv, TypeOK
<1>14. PICK new : new = cand'[HostOf[k]]
  OBVIOUS
<1>1. /\ HostOf[k] \in Modules /\ cand \in Lists /\ list \in Seq(NameType)
      /\ memo \in [Keys -> Nat]
  BY <1>0, KeysAssumption DEF Inv, TypeOK, Lists
<1>2. PICK l \in Seq(NameType), c \in Nat, n \in NameType :
              /\ c \in DOMAIN l
              /\ Quiet(cand[HostOf[k]], l)
              /\ \/ /\ memo[k] = 0 /\ c = Len(cand[HostOf[k]]) + 1
                    /\ l = cand[HostOf[k]] \o Clone(k, c)
                 \/ memo[k] # 0 /\ c = memo[k] /\ l = cand[HostOf[k]]
              /\ n = IF l[c].type = "none" /\ l[c].sort = "class"
                     THEN [l[c] EXCEPT !.type = "written"] ELSE l[c]
              /\ cand' = [cand EXCEPT ![HostOf[k]] = [l EXCEPT ![c] = n]]
              /\ memo' = [memo EXCEPT ![k] = c]
              /\ stack' = <<SignFrame(HostOf[k], c, l[c].type = "none")>> \o Asked
  BY CloneStep
<1>3. PICK t \in Seq(NameType) :
         /\ t = [l EXCEPT ![c] = n] /\ DOMAIN t = DOMAIN l /\ t[c] = n
         /\ \A d \in DOMAIN l \ {c} : t[d] = l[d]
  <2>1. PICK t : t = [l EXCEPT ![c] = n]
    OBVIOUS
  <2>2. /\ t \in Seq(NameType) /\ DOMAIN t = DOMAIN l /\ t[c] = n
        /\ \A d \in DOMAIN l \ {c} : t[d] = l[d]
    BY <1>2, <2>1, OneElement
  <2>. QED
    BY <2>1, <2>2
<1>4. new = t /\ (m # HostOf[k] => cand'[m] = cand[m])
  BY <1>1, <1>2, <1>3, <1>14 DEF Lists
<1>5. memo'[k] = c /\ memo' = [memo EXCEPT ![k] = memo'[k]]
  BY <1>1, <1>2
<1>6. ASSUME memo[k] # 0
      PROVE  memo'[k] = memo[k] /\ DOMAIN cand'[m] = DOMAIN cand[m]
  <2>1. l = list /\ DOMAIN new = DOMAIN list /\ c = memo[k]
    BY <1>0, <1>2, <1>3, <1>4, <1>6
  <2>. QED
    BY <1>0, <1>4, <1>5, <1>14, <2>1
<1>7. ASSUME memo[k] = 0
      PROVE  /\ memo'[k] = Len(list) + 1
             /\ stack' = <<SignFrame(HostOf[k], memo'[k], TRUE)>> \o Asked
             /\ Cloned(SortOf[k], phase \in EarlyPhases, list, new)
  <2>1. c = Len(list) + 1 /\ l = list \o Clone(k, c)
    BY <1>0, <1>2, <1>7
  <2>2. PICK names \in Seq(Fresh) : names = Clone(k, c)
    BY CloneFresh
  <2>3. names \in Seq(NameType)
    BY <2>2 DEF Fresh
  <2>4. Len(names) = 2 /\ DOMAIN names = {1, 2}
    BY <2>2 DEF Clone
  <2>5. /\ Len(list) \in Nat /\ Len(l) = Len(list) + 2
        /\ \A d \in 1 .. Len(l) :
             l[d] = IF d <= Len(list) THEN list[d] ELSE names[d - Len(list)]
    <3>1. l = list \o names
      BY <2>1, <2>2
    <3>2. /\ Len(list \o names) = Len(list) + Len(names)
          /\ \A d \in 1 .. Len(list \o names) :
               (list \o names)[d] = IF d <= Len(list) THEN list[d]
                                    ELSE names[d - Len(list)]
      BY <1>1, <2>3, ConcatProperties
    <3>3. Len(list) \in Nat
      BY <1>1, LenProperties
    <3>. QED
      BY <2>4, <3>1, <3>2, <3>3
  <2>6. l[c] = names[1] /\ l[c + 1] = names[2] /\ c + 1 \in DOMAIN l /\ c + 1 # c
        /\ DOMAIN l = 1 .. Len(list) + 2
    <3>1. DOMAIN l = 1 .. Len(l)
      BY LenProperties
    <3>2. c - Len(list) = 1 /\ (c + 1) - Len(list) = 2
      BY <2>1, <2>5
    <3>3. /\ c \in 1 .. Len(l) /\ ~(c <= Len(list))
          /\ c + 1 \in 1 .. Len(l) /\ ~(c + 1 <= Len(list)) /\ c + 1 # c
      <4>1. PICK z \in Nat : z = Len(list)
        BY <2>5
      <4>2. c = z + 1 /\ Len(l) = z + 2
        BY <2>1, <2>5, <4>1
      <4>. QED
        BY <4>1, <4>2
    <3>4. l[c] = names[c - Len(list)] /\ l[c + 1] = names[(c + 1) - Len(list)]
      BY <2>5, <3>3
    <3>. QED
      BY <2>5, <3>1, <3>2, <3>3, <3>4
  <2>7. /\ names[1].sort = SortOf[k] /\ names[1].type = "none"
        /\ names[1].owner = IF SortOf[k] = "method" THEN 1 ELSE c
        /\ names[1].early => phase \in EarlyPhases
        /\ names[2].sort \in {"field", "local"}
        /\ names[2].owner = c
    BY <2>2 DEF Clone, Declared
  <2>8. n.sort = l[c].sort /\ n.owner = l[c].owner /\ n.early = l[c].early
    <3>1. PICK x \in NameType : x = l[c]
      BY <2>6, <1>2, SMTT(60)
    <3>2. n = IF x.type = "none" /\ x.sort = "class"
              THEN [x EXCEPT !.type = "written"] ELSE x
      BY <1>2, <3>1
    <3>. QED
      BY <3>1, <3>2 DEF NameType
  <2>9. new[c] = n /\ new[c + 1] = names[2] /\ DOMAIN new = 1 .. Len(list) + 2
    BY <1>3, <1>4, <2>6
  <2>10. c + 1 = Len(list) + 2
    BY <2>1, <2>5
  <2>11. l[c].type = "none"
    BY <2>6, <2>7
  <2>12. stack' = <<SignFrame(HostOf[k], memo'[k], TRUE)>> \o Asked
    BY <1>2, <1>5, <2>11
  <2>13. /\ new[Len(list) + 1].sort = SortOf[k]
         /\ new[Len(list) + 1].owner =
                IF SortOf[k] = "method" THEN 1 ELSE Len(list) + 1
         /\ new[Len(list) + 1].early => phase \in EarlyPhases
    BY <2>1, <2>6, <2>7, <2>8, <2>9
  <2>14. new[Len(list) + 2].sort \in {"field", "local"}
         /\ new[Len(list) + 2].owner = Len(list) + 1
    BY <2>1, <2>7, <2>9, <2>10
  <2>15. Cloned(SortOf[k], phase \in EarlyPhases, list, new)
    BY <2>9, <2>13, <2>14 DEF Cloned
  <2>. QED
    BY <1>5, <2>1, <2>12, <2>15
<1>. QED
  BY <1>0, <1>4, <1>5, <1>6, <1>7, <1>14

-----------------------------------------------------------------------------
(* What the statement checker walks is typed.                              *)

LEMMA TypedNext == LInv' => TypedWhenIdle'
BY TypedThen, PTL

LEMMA CheckedStays ==
    ASSUME LInv, CheckedThere, RoundThere, [Next]_vars
    PROVE  CheckedThere' /\ RoundThere'
<1>1. PInv /\ BottomFrame /\ checked \in [Modules -> SUBSET Nat]
  BY DEF LInv, PInv, Inv, TypeOK
<1>2. \A m \in Modules : DOMAIN cand[m] \subseteq DOMAIN cand'[m]
  BY <1>1, NamesKeep
<1>3. CASE CheckDeclaration
  <2>1. /\ phase = "check" /\ at \in Modules /\ phase' = phase /\ at' = at
        /\ cand' = cand
    BY <1>3 DEF CheckDeclaration, InLoop
  <2>2. PICK d \in round :
           /\ round' = round \ {d}
           /\ checked' = [checked EXCEPT ![at] = @ \cup {d} \cup Methods(at, d)]
    BY <1>3 DEF CheckDeclaration
  <2>3. round \subseteq DOMAIN cand[at] /\ Methods(at, d) \subseteq DOMAIN cand[at]
    BY <2>1 DEF RoundThere, Methods
  <2>4. \A m \in Modules : checked'[m] = IF m = at
            THEN checked[at] \cup {d} \cup Methods(at, d) ELSE checked[m]
    BY <1>1, <2>2
  <2>5. CheckedThere'
    BY <2>1, <2>3, <2>4 DEF CheckedThere
  <2>6. RoundThere'
    BY <2>1, <2>2, <2>3 DEF RoundThere
  <2>. QED
    BY <2>5, <2>6
<1>4. CASE ~CheckDeclaration
  <2>1. checked' = checked
    BY <1>4, Zenon DEF Next, vars, TakeCandidate, FinishLate, FinishWritten,
       FinishInferred, LowerLoop, NextRound, FinishWalk, FinishSignature, WalkModule,
       ScanDeclaration, LeaveScanned, LowerSwitch, LeaveSwitches,
       LeaveChecked, Instantiate, NothingToWalk, Finished, NextLoop
  <2>2. CheckedThere'
    BY <1>2, <2>1 DEF CheckedThere
  <2>3. ASSUME phase' = "check", at' \in Modules
        PROVE  round' \subseteq DOMAIN cand'[at']
    <3>1. CASE NextLoop
      <4>1. round' = Unchecked(1) /\ at' = 1 /\ cand' = cand
        BY <2>3, <3>1 DEF NextLoop, Begin
      <4>. QED
        BY <4>1 DEF Unchecked, Heads
    <3>2. CASE LeaveChecked
      <4>1. round' = (IF at = NumModules THEN {} ELSE Unchecked(at + 1))
            /\ at' = at + 1 /\ cand' = cand
        BY <3>2 DEF LeaveChecked
      <4>. QED
        BY <4>1 DEF Unchecked, Heads
    <3>3. CASE FinishWalk
      <4>1. /\ stack # <<>> /\ phase' = phase /\ round' = round
            /\ Top.nested => at' = at
        BY <3>3 DEF FinishWalk, RoundIsOver, Working
      <4>2. PICK f \in FrameType, s \in Seq(FrameType) :
               f = Top /\ s = Tail(stack) /\ stack = <<f>> \o s
        BY <1>1, <4>1, StackTop, Zenon DEF PInv, Inv, TypeOK
      <4>3. BottomIn(<<f>> \o s, at, phase)
        BY <1>1, <4>2 DEF BottomFrame
      <4>4. ~f.nested => Outermost(f, at, phase)
        BY <4>3, BottomPush
      <4>5. f.nested
        BY <2>3, <4>1, <4>4 DEF Outermost
      <4>. QED
        BY <1>2, <2>3, <4>1, <4>2, <4>5 DEF RoundThere
    <3>4. CASE ~NextLoop /\ ~LeaveChecked /\ ~FinishWalk
      <4>1. round' = round /\ phase = "check" /\ at' = at
        BY <1>4, <2>3, <3>4, Zenon DEF Next, vars, TakeCandidate, FinishLate, FinishWritten,
           FinishInferred, LowerLoop, NextRound, FinishSignature, WalkModule,
           ScanDeclaration, LeaveScanned, LowerSwitch, LeaveSwitches,
           Instantiate, NothingToWalk, Finished, InLoop
      <4>. QED
        BY <1>2, <2>3, <4>1 DEF RoundThere
    <3>. QED
      BY <3>1, <3>2, <3>3, <3>4
  <2>. QED
    BY <2>2, <2>3 DEF RoundThere
<1>. QED
  BY <1>3, <1>4

LEMMA ClonesLeftStep ==
    LInv /\ LInv' /\ OnlyClonesLeft /\ [Next]_vars => OnlyClonesLeft'
<1>. SUFFICES ASSUME LInv, LInv', OnlyClonesLeft, [Next]_vars
              PROVE  OnlyClonesLeft'
  OBVIOUS
<1>1. PInv /\ cand \in Lists
  BY DEF LInv, PInv, Inv, TypeOK, Lists
<1>2. CheckedThere' /\ RoundThere'
  BY CheckedStays DEF OnlyClonesLeft
<1>3. CASE NextLoop \/ CheckDeclaration
  <2>1. stack' = <<>>
    BY <1>3 DEF NextLoop, LoopIsOver, CheckDeclaration, InLoop, Idle
  <2>2. phase' \in LatePhases => \A m \in Modules : \A c \in DOMAIN cand'[m] :
                                    cand'[m][c].gave = 1
    BY <2>1, TypedNext DEF TypedWhenIdle, Idle, LatePhases
  <2>3. phase' \notin LatePhases => phase \notin LatePhases /\ checked' = checked
    BY <1>3 DEF NextLoop, Begin, CheckDeclaration, InLoop, LatePhases
  <2>4. NoneChecked'
    BY <2>3 DEF OnlyClonesLeft, NoneChecked
  <2>5. ClonesLeft'
    BY <2>2 DEF ClonesLeft
  <2>. QED
    BY <1>2, <2>4, <2>5 DEF OnlyClonesLeft
<1>4. CASE ~NextLoop /\ ~CheckDeclaration
  <2>1. phase' = phase /\ checked' = checked
    BY <1>4, Zenon DEF Next, vars, TakeCandidate, FinishLate, FinishWritten,
       FinishInferred, LowerLoop, NextRound, FinishWalk, FinishSignature, WalkModule,
       ScanDeclaration, LeaveScanned, LowerSwitch, LeaveSwitches,
       LeaveChecked, Instantiate, NothingToWalk, Finished
  <2>2. NoneChecked'
    BY <2>1 DEF OnlyClonesLeft, NoneChecked
  <2>3. ASSUME phase \in LatePhases, NEW m \in Modules, NEW c \in DOMAIN cand'[m],
               cand'[m][c].gave = 0
        PROVE  LeftOut(cand'[m][c], checked[m])
    <3>1. CASE c \in DOMAIN cand[m]
      <4>1. Keeps(cand[m][c], cand'[m][c])
        BY <1>1, <3>1, NamesKeep
      <4>2. /\ cand[m][c].gave = 0 /\ cand'[m][c].owner = cand[m][c].owner
            /\ cand'[m][c].sort = cand[m][c].sort
        BY <2>3, <4>1 DEF Keeps
      <4>3. LeftOut(cand[m][c], checked[m])
        BY <2>3, <3>1, <4>2 DEF OnlyClonesLeft, ClonesLeft
      <4>. QED
        BY <4>2, <4>3 DEF LeftOut
    <3>2. CASE c \notin DOMAIN cand[m] /\ ~\E k \in Keys : Instantiate(k)
      <4>1. LowerLoop
        <5>1. LowerLoop \/ ScanDeclaration \/ LowerSwitch
          BY <1>1, <3>2, OwnNames
        <5>. QED
          BY <2>3, <5>1 DEF ScanDeclaration, LowerSwitch, InLoop, LatePhases
      <4>2. Typing /\ Subjected.sort = "loop"
        BY <4>1 DEF LowerLoop
      <4>3. /\ Top.mod \in Modules /\ Top.cand \in DOMAIN cand[Top.mod]
            /\ Subjected = cand[Top.mod][Top.cand] /\ Subjected.gave = 0
        BY <1>1, <4>2, InHand
      <4>4. LeftOut(Subjected, checked[Top.mod])
        BY <2>3, <4>3 DEF OnlyClonesLeft, ClonesLeft
      <4>. QED
        BY <4>2, <4>4 DEF LeftOut
    <3>3. CASE c \notin DOMAIN cand[m] /\ \E k \in Keys : Instantiate(k)
      <4>1. PICK k \in Keys : Instantiate(k)
        BY <3>3
      <4>0. PICK list \in Seq(NameType) : list = cand[HostOf[k]]
        BY <1>1, KeysAssumption DEF Lists
      <4>2. PICK new : list = cand[HostOf[k]] /\ new = cand'[HostOf[k]]
        BY <4>0
      <4>11. /\ memo[k] # 0 => DOMAIN cand'[m] = DOMAIN cand[m]
             /\ m # HostOf[k] => cand'[m] = cand[m]
             /\ memo[k] = 0 => Cloned(SortOf[k], phase \in EarlyPhases,
                                      cand[HostOf[k]], cand'[HostOf[k]])
        BY <1>1, <4>1, CloneNames DEF PInv
      <4>3. memo[k] = 0 => Cloned(SortOf[k], phase \in EarlyPhases, list, new)
        BY <4>2, <4>11
      <4>4. memo[k] = 0 /\ m = HostOf[k]
        BY <3>3, <4>11
      <4>5. Len(list) \in Nat /\ DOMAIN list = 1 .. Len(list)
        BY ListIndex
      <4>6. Len(list) + 1 \notin checked[m]
        BY <4>2, <4>4, <4>5 DEF OnlyClonesLeft, CheckedThere
      <4>7. c = Len(list) + 1 \/ c = Len(list) + 2
        BY <3>3, <4>2, <4>3, <4>4, <4>5, SMTT(60) DEF Cloned
      <4>8. SortOf[k] # "loop"
        BY KeysAssumption DEF HeadSorts, RootSorts
      <4>9. CASE c = Len(list) + 1
        <5>1. LeftOut(new[Len(list) + 1], checked[m])
          BY <4>3, <4>4, <4>6, <4>8 DEF LeftOut, Cloned
        <5>. QED
          BY <4>2, <4>4, <4>9, <5>1
      <4>10. CASE c = Len(list) + 2
        <5>1. LeftOut(new[Len(list) + 2], checked[m])
          BY <4>3, <4>4, <4>6 DEF LeftOut, Cloned
        <5>. QED
          BY <4>2, <4>4, <4>10, <5>1
      <4>. QED
        BY <4>7, <4>9, <4>10
    <3>. QED
      BY <3>1, <3>2, <3>3
  <2>4. ClonesLeft'
    BY <2>1, <2>3 DEF ClonesLeft
  <2>. QED
    BY <1>2, <2>2, <2>4 DEF OnlyClonesLeft
<1>. QED
  BY <1>3, <1>4

LEMMA InitClonesLeft == Init => OnlyClonesLeft
BY DEF Init, OnlyClonesLeft, CheckedThere, RoundThere, NoneChecked, ClonesLeft, LatePhases

LEMMA CheckedTyped == LInv /\ OnlyClonesLeft => CheckedIsTyped
<1>. SUFFICES ASSUME LInv, OnlyClonesLeft, NEW m \in Modules, NEW d \in checked[m],
                     NEW c \in DOMAIN cand[m], cand[m][c].owner = d,
                     cand[m][c].sort # "method"
              PROVE  cand[m][c].type # "none"
  BY DEF CheckedIsTyped
<1>1. phase \in LatePhases
  BY DEF OnlyClonesLeft, NoneChecked
<1>2. cand[m][c].gave # 0
  BY <1>1 DEF OnlyClonesLeft, ClonesLeft, LeftOut
<1>3. cand[m][c].gave \in {0, 1}
  BY Counts DEF LInv
<1>. QED
  BY <1>2, <1>3 DEF LInv, TypesGiven, Given

-----------------------------------------------------------------------------
(* Who instantiated goes on with a clone that has its signature.           *)

\* A signature that is there is not taken away, and nothing joins it.
LEMMA SignatureStays ==
    ASSUME PInv, [Next]_vars, NEW m \in Modules, NEW c \in DOMAIN cand[m],
           cand[m][c].sort \in HeadSorts, HasSignature(cand[m], c)
    PROVE  HasSignature(cand'[m], c)
<1>1. cand \in Lists
  BY DEF PInv, Inv, TypeOK, Lists
<1>2. SUFFICES ASSUME NEW d \in DOMAIN cand'[m], InSignature(cand'[m], c, d)
               PROVE  cand'[m][d].type # "none"
  BY DEF HasSignature
<1>3. CASE d \in DOMAIN cand[m]
  <2>1. Keeps(cand[m][d], cand'[m][d])
    BY <1>3, NamesKeep
  <2>2. InSignature(cand[m], c, d)
    BY <1>2, <2>1 DEF InSignature, Keeps
  <2>3. cand[m][d].type # "none" /\ cand[m][d].sort \in HeadSorts \cup {"field"}
    BY <1>3, <2>2 DEF HasSignature, InSignature
  <2>. QED
    BY <2>1, <2>3 DEF Keeps
<1>4. CASE d \notin DOMAIN cand[m]
  <2>1. cand'[m][d].owner = c /\ cand'[m][d].sort = "field"
    BY <1>2, <1>4 DEF InSignature
  <2>2. \E k \in Keys : Instantiate(k)
    BY <1>4, <2>1, OwnNames DEF OwnSorts
  <2>3. PICK k \in Keys : Instantiate(k)
    BY <2>2
  <2>4. PICK list \in Seq(NameType) : list = cand[HostOf[k]]
    BY <1>1, KeysAssumption DEF Lists
  <2>5. PICK new : list = cand[HostOf[k]] /\ new = cand'[HostOf[k]]
    BY <2>4
  <2>12. /\ memo[k] # 0 => DOMAIN cand'[m] = DOMAIN cand[m]
         /\ m # HostOf[k] => cand'[m] = cand[m]
         /\ memo[k] = 0 => Cloned(SortOf[k], phase \in EarlyPhases,
                                  cand[HostOf[k]], cand'[HostOf[k]])
    BY <2>3, CloneNames DEF PInv
  <2>7. memo[k] = 0 /\ m = HostOf[k]
    BY <1>4, <2>12
  <2>6. Cloned(SortOf[k], phase \in EarlyPhases, list, new)
    BY <2>5, <2>7, <2>12
  <2>8. Len(list) \in Nat /\ DOMAIN list = 1 .. Len(list)
    BY ListIndex
  <2>9. d = Len(list) + 1 \/ d = Len(list) + 2
    <3>1. d \in DOMAIN new /\ d \notin DOMAIN list
      BY <1>2, <1>4, <2>5, <2>7
    <3>2. d \in 1 .. Len(list) + 2 /\ d \notin 1 .. Len(list)
      BY <2>6, <2>8, <3>1 DEF Cloned
    <3>. QED
      BY <2>8, <3>2
  <2>10. SortOf[k] # "field"
    BY KeysAssumption DEF HeadSorts, RootSorts
  <2>11. c # Len(list) + 1
    BY <2>5, <2>7, <2>8
  <2>. QED
    BY <2>1, <2>5, <2>6, <2>7, <2>9, <2>10, <2>11 DEF Cloned
<1>. QED
  BY <1>3, <1>4

\* The head a key was cloned into stays the head it is.
LEMMA HeadStays ==
    ASSUME PInv, [Next]_vars, NEW m \in Modules, NEW c \in DOMAIN cand[m],
           cand[m][c].sort \in HeadSorts
    PROVE  c \in DOMAIN cand'[m] /\ cand'[m][c].sort \in HeadSorts
<1>1. c \in DOMAIN cand'[m] /\ Keeps(cand[m][c], cand'[m][c])
  BY NamesKeep
<1>2. "loop" \notin HeadSorts
  BY DEF HeadSorts, RootSorts
<1>. QED
  BY <1>1, <1>2 DEF Keeps

\* A signature being worked is still, or it is done.
LEMMA SigningStays ==
    ASSUME PInv, [Next]_vars, NEW k \in Keys, NEW c \in DOMAIN cand[HostOf[k]],
           NEW x \in FramesOf(stack), Signs(x, k, c)
    PROVE  \/ \E f \in FramesOf(stack') : Signs(f, k, c)
           \/ HasSignature(cand'[HostOf[k]], c)
<1>1. Inv /\ stack \in Seq(FrameType) /\ cand \in Lists
  BY DEF PInv, Inv, TypeOK, Lists
<1>2. stack # <<>>
  BY DEF FramesOf
<1>3. PICK f \in FrameType, s \in Seq(FrameType) :
         f = Top /\ s = Tail(stack) /\ stack = <<f>> \o s
  BY <1>1, <1>2, StackTop, Zenon
<1>4. x = f \/ x \in FramesOf(s)
  <2>1. FramesOf(<<f>> \o s) = {f} \cup FramesOf(s)
    BY FramesPush
  <2>. QED
    BY <1>3, <2>1
<1>5. ASSUME x \in FramesOf(s), NEW g \in FrameType, stack' = <<g>> \o s
      PROVE  \E y \in FramesOf(stack') : Signs(y, k, c)
  <2>1. FramesOf(<<g>> \o s) = {g} \cup FramesOf(s)
    BY FramesPush
  <2>. QED
    BY <1>5, <2>1
<1>6. CASE TakeCandidate \/ FinishLate \/ FinishWritten \/ FinishInferred
           \/ LowerLoop \/ NextRound
  <2>1. /\ stack # <<>> /\ Top.op = "walk"
        /\ \E g \in FrameType :
                 /\ stack' = <<g>> \o Tail(stack)
                 /\ g.op = Top.op /\ g.mod = Top.mod /\ g.pass = Top.pass
                 /\ g.nested = Top.nested /\ g.held = Top.held
                 /\ g.count = IF NextRound THEN Count(Top.mod) ELSE Top.count
    BY <1>1, <1>6, WalkSwaps
  <2>2. PICK g \in FrameType : stack' = <<g>> \o Tail(stack)
    BY <2>1
  <2>3. x \in FramesOf(s)
    BY <1>3, <1>4, <2>1 DEF Signs
  <2>. QED
    BY <1>3, <1>5, <2>2, <2>3
<1>7. CASE FinishWalk
  <2>1. Top.op = "walk" /\ stack' = Tail(stack)
    BY <1>7 DEF FinishWalk, RoundIsOver, Working
  <2>2. x \in FramesOf(s)
    BY <1>3, <1>4, <2>1 DEF Signs
  <2>. QED
    BY <1>3, <2>1, <2>2
<1>8. CASE \E j \in Keys : Instantiate(j)
  <2>1. PICK j \in Keys : Instantiate(j)
    BY <1>8
  <2>2. PICK i \in Nat, fresh \in BOOLEAN :
           stack' = <<SignFrame(HostOf[j], i, fresh)>> \o Asked
    BY <1>1, <2>1, SignPushed
  <2>3. PICK h \in FrameType : h = SignFrame(HostOf[j], i, fresh)
    BY <1>1, KeysAssumption, SignFrameType
  <2>4. PICK g \in FrameType : g = [f EXCEPT !.asked = TRUE]
    BY DEF FrameType
  <2>5. g.op = f.op /\ g.mod = f.mod /\ g.cand = f.cand /\ g.step = f.step
    BY <2>4 DEF FrameType
  <2>6. PICK t \in Seq(FrameType) : t = <<g>> \o s
    BY SeqPush
  <2>7. stack' = <<h>> \o t
    BY <1>2, <1>3, <2>2, <2>3, <2>4, <2>6 DEF Asked
  <2>8. FramesOf(t) = {g} \cup FramesOf(s)
    BY <2>6, FramesPush
  <2>9. FramesOf(<<h>> \o t) = {h} \cup FramesOf(t)
    BY FramesPush
  <2>10. \E y \in FramesOf(t) : Signs(y, k, c)
    BY <1>4, <2>5, <2>8 DEF Signs
  <2>. QED
    BY <2>7, <2>9, <2>10
<1>9. CASE FinishSignature
  <2>1. CatchUp(Tail(stack), Top.mod, Top.held)
    BY <1>9 DEF FinishSignature
  <2>2. f.mod \in Modules /\ f.held \in SubjectType
    BY DEF FrameType
  <2>3. PICK pass \in Passes : pass = CatchUpPass(f.mod)
    BY DEF CatchUpPass, Passes
  <2>4. stack' = s \/ BeginWalk(s, f.mod, pass, TRUE, f.held)
    BY <1>3, <2>1, <2>3 DEF CatchUp
  <2>5. CASE x \in FramesOf(s)
    <3>1. CASE stack' = s
      BY <2>5, <3>1
    <3>2. CASE BeginWalk(s, f.mod, pass, TRUE, f.held)
      <4>1. PICK g \in FrameType : g = WalkFrame(f.mod, pass, TRUE, f.held)
        BY <1>1, <2>2, WalkFrameType
      <4>2. stack' = <<g>> \o s
        BY <3>2, <4>1 DEF BeginWalk
      <4>. QED
        BY <1>5, <2>5, <4>2
    <3>. QED
      BY <2>4, <3>1, <3>2
  <2>6. CASE x = f
    <3>1. f.mod = HostOf[k] /\ f.cand = c /\ f.step = "main"
      BY <2>6 DEF Signs
    <3>2. PICK new \in Seq(NameType) :
              /\ cand' = [cand EXCEPT ![Top.mod] = new]
              /\ DOMAIN new = DOMAIN cand[Top.mod]
              /\ \A d \in DOMAIN new :
                    new[d] = IF Top.step # "known" /\ SignedBy(cand[Top.mod], Top.cand, d)
                             THEN [cand[Top.mod][d] EXCEPT !.type = "written"]
                             ELSE cand[Top.mod][d]
      BY <1>1, <1>9, SignStep
    <3>3. PICK list \in Seq(NameType) : list = cand[f.mod]
      BY <1>1, <2>2 DEF Lists
    <3>4. cand'[f.mod] = new
      BY <1>1, <1>3, <2>2, <3>2 DEF Lists
    <3>5. ASSUME NEW d \in DOMAIN new, InSignature(new, c, d)
          PROVE  new[d].type # "none"
      <4>1. PICK n \in NameType : n = list[d]
        BY <1>3, <3>2, <3>3, ListIndex
      <4>2. new[d] = IF SignedBy(list, c, d) THEN [n EXCEPT !.type = "written"] ELSE n
        BY <1>3, <3>1, <3>2, <3>3, <3>5, <4>1
      <4>3. new[d].owner = n.owner /\ new[d].sort = n.sort
        BY <4>2 DEF NameType
      <4>4. SignedBy(list, c, d) <=> n.type = "none"
        BY <3>5, <4>1, <4>3 DEF SignedBy, InSignature
      <4>. QED
        BY <4>2, <4>4 DEF NameType
    <3>6. HasSignature(new, c)
      BY <3>5 DEF HasSignature
    <3>. QED
      BY <3>1, <3>4, <3>6
  <2>. QED
    BY <1>4, <2>5, <2>6
<1>10. CASE WalkModule \/ NothingToWalk \/ ScanDeclaration \/ LeaveScanned
            \/ LowerSwitch \/ LeaveSwitches \/ CheckDeclaration \/ LeaveChecked
            \/ NextLoop
  BY <1>2, <1>10 DEF WalkModule, NothingToWalk, ScanDeclaration, LeaveScanned,
      LowerSwitch, LeaveSwitches, CheckDeclaration, LeaveChecked, NextLoop,
      LoopIsOver, InLoop, Idle
<1>11. CASE Finished \/ UNCHANGED vars
  BY <1>11 DEF Finished, vars
<1>. QED
  BY <1>6, <1>7, <1>8, <1>9, <1>10, <1>11 DEF Next

LEMMA SignedStep == PInv /\ Signed /\ [Next]_vars => Signed'
<1>. SUFFICES ASSUME PInv, Signed, [Next]_vars, NEW k \in Keys, memo'[k] # 0
              PROVE  /\ memo'[k] \in DOMAIN cand'[HostOf[k]]
                     /\ cand'[HostOf[k]][memo'[k]].sort \in HeadSorts
                     /\ \/ \E f \in FramesOf(stack') : Signs(f, k, memo'[k])
                        \/ HasSignature(cand'[HostOf[k]], memo'[k])
  BY DEF Signed, SignedIn
<1>1. /\ Inv /\ cand \in Lists /\ HostOf[k] \in Modules /\ memo \in [Keys -> Nat]
      /\ stack \in Seq(FrameType)
  BY KeysAssumption DEF PInv, Inv, TypeOK, Lists
<1>2. CASE memo'[k] = memo[k]
  <2>1. PICK m \in Modules : m = HostOf[k]
    BY <1>1
  <2>2. /\ memo[k] \in DOMAIN cand[m] /\ cand[m][memo[k]].sort \in HeadSorts
        /\ \/ \E f \in FramesOf(stack) : Signs(f, k, memo[k])
           \/ HasSignature(cand[m], memo[k])
    BY <1>2, <2>1 DEF Signed, SignedIn
  <2>3. PICK c \in DOMAIN cand[m] : c = memo[k]
    BY <2>2
  <2>4. c \in DOMAIN cand'[m] /\ cand'[m][c].sort \in HeadSorts
    BY <2>2, <2>3, HeadStays
  <2>5. CASE \E f \in FramesOf(stack) : Signs(f, k, memo[k])
    <3>1. PICK f \in FramesOf(stack) : Signs(f, k, c)
      BY <2>3, <2>5
    <3>2. c \in DOMAIN cand[HostOf[k]]
      BY <2>1, <2>3
    <3>3. \/ \E g \in FramesOf(stack') : Signs(g, k, c)
          \/ HasSignature(cand'[HostOf[k]], c)
      BY <3>1, <3>2, SigningStays
    <3>. QED
      BY <1>2, <2>1, <2>3, <2>4, <3>3
  <2>6. CASE HasSignature(cand[m], memo[k])
    <3>1. HasSignature(cand'[m], c)
      BY <2>2, <2>3, <2>6, SignatureStays
    <3>. QED
      BY <1>2, <2>1, <2>3, <2>4, <3>1
  <2>. QED
    BY <2>2, <2>5, <2>6
<1>3. CASE memo'[k] # memo[k]
  <2>1. \E j \in Keys : Instantiate(j)
    BY <1>3, Zenon DEF Next, vars, TakeCandidate, FinishLate, FinishWritten,
       FinishInferred, LowerLoop, NextRound, FinishWalk, FinishSignature, WalkModule,
       ScanDeclaration, LeaveScanned, LowerSwitch, LeaveSwitches, CheckDeclaration,
       LeaveChecked, NothingToWalk, Finished, NextLoop
  <2>2. PICK j \in Keys : Instantiate(j)
    BY <2>1
  <2>3. j = k
    <3>1. memo' = [memo EXCEPT ![j] = memo'[j]]
      BY <1>1, <2>2, SMTT(60) DEF Instantiate
    <3>. QED
      BY <1>1, <1>3, <3>1
  <2>4. PICK list \in Seq(NameType) : list = cand[HostOf[k]]
    BY <1>1 DEF Lists
  <2>5. PICK new : list = cand[HostOf[k]] /\ new = cand'[HostOf[k]]
    BY <2>4
  <2>16. /\ memo[k] # 0 => memo'[k] = memo[k]
         /\ memo[k] = 0 =>
               /\ memo'[k] = Len(cand[HostOf[k]]) + 1
               /\ stack' = <<SignFrame(HostOf[k], memo'[k], TRUE)>> \o Asked
               /\ Cloned(SortOf[k], phase \in EarlyPhases, cand[HostOf[k]],
                         cand'[HostOf[k]])
    BY <1>1, <2>2, <2>3, CloneNames
  <2>7. memo[k] = 0
    BY <1>3, <2>16
  <2>6. /\ memo'[k] = Len(list) + 1
        /\ stack' = <<SignFrame(HostOf[k], memo'[k], TRUE)>> \o Asked
        /\ Cloned(SortOf[k], phase \in EarlyPhases, list, new)
    BY <2>5, <2>7, <2>16
  <2>8. Len(list) \in Nat
    BY ListIndex
  <2>9. PICK c \in Nat : c = memo'[k] /\ c = Len(list) + 1
    BY <2>6, <2>7, <2>8
  <2>10. c \in 1 .. Len(list) + 2
    BY <2>8, <2>9
  <2>11. c \in DOMAIN cand'[HostOf[k]] /\ cand'[HostOf[k]][c].sort \in HeadSorts
    BY <2>5, <2>6, <2>9, <2>10, KeysAssumption DEF Cloned
  <2>12. PICK f \in FrameType : f = SignFrame(HostOf[k], c, TRUE)
    BY <1>1, SignFrameType
  <2>13. Signs(f, k, c)
    BY <2>12 DEF Signs, SignFrame
  <2>14. Asked \in Seq(FrameType)
    BY <1>1, AskedType
  <2>15. f \in FramesOf(stack')
    <3>1. FramesOf(<<f>> \o Asked) = {f} \cup FramesOf(Asked)
      BY <2>14, FramesPush
    <3>. QED
      BY <2>6, <2>7, <2>9, <2>12, <3>1
  <2>. QED
    BY <2>9, <2>11, <2>13, <2>15
<1>. QED
  BY <1>2, <1>3

LEMMA SignedThen == Signed => CloneHasSignature
BY DEF Signed, SignedIn, CloneHasSignature, FramesOf, Signs, HasSignature, InSignature

-----------------------------------------------------------------------------
(* The names that assigning declares are there before anything is inferred. *)

LEMMA RootsFinite ==
    ASSUME NEW list \in Seq(NameType)
    PROVE  /\ IsFiniteSet(RootsOf(list)) /\ Cardinality(RootsOf(list)) \in Nat
           /\ \A c : /\ IsFiniteSet(Earlier(list, c))
                     /\ Cardinality(Earlier(list, c)) \in Nat
                     /\ c \in RootsOf(list) =>
                           Cardinality(Earlier(list, c)) + 1 <= Cardinality(RootsOf(list))
<1>1. IsFiniteSet(DOMAIN list)
  <2>1. DOMAIN list = 1 .. Len(list) /\ Len(list) \in Nat
    BY ListIndex
  <2>. QED
    BY <2>1, FS_Interval
<1>2. IsFiniteSet(RootsOf(list)) /\ RootsOf(list) \subseteq DOMAIN list
  BY <1>1, FS_Subset DEF RootsOf
<1>3. ASSUME NEW c
      PROVE  /\ IsFiniteSet(Earlier(list, c)) /\ Cardinality(Earlier(list, c)) \in Nat
             /\ c \in RootsOf(list) =>
                   Cardinality(Earlier(list, c)) + 1 <= Cardinality(RootsOf(list))
  <2>1. IsFiniteSet(Earlier(list, c)) /\ Cardinality(Earlier(list, c)) \in Nat
    BY <1>2, FS_Subset, FS_CardinalityType DEF Earlier
  <2>2. ASSUME c \in RootsOf(list)
        PROVE  Cardinality(Earlier(list, c)) + 1 <= Cardinality(RootsOf(list))
    <3>1. c \in Nat
      BY <1>2, <2>2, ListIndex
    <3>2. c \notin Earlier(list, c)
      BY <3>1 DEF Earlier
    <3>3. Cardinality(Earlier(list, c) \cup {c}) = Cardinality(Earlier(list, c)) + 1
      BY <2>1, <3>2, FS_AddElement
    <3>4. Earlier(list, c) \cup {c} \subseteq RootsOf(list)
      BY <2>2 DEF Earlier
    <3>. QED
      BY <1>2, <3>3, <3>4, FS_Subset
  <2>. QED
    BY <2>1, <2>2
<1>. QED
  BY <1>2, <1>3, FS_CardinalityType

\* What a declaration does to the list: roots stay roots, and new ones are last.
RootsGrow(list, new) ==
    /\ RootsOf(list) \subseteq RootsOf(new)
    /\ \A c \in RootsOf(new) \ RootsOf(list) : \A d \in DOMAIN list : d < c
    /\ \A c \in RootsOf(list) : list[c].scanned => new[c].scanned

LEMMA RootsBefore ==
    ASSUME NEW list \in Seq(NameType), NEW new \in Seq(NameType), RootsGrow(list, new)
    PROVE  /\ \A c \in RootsOf(list) : Earlier(new, c) = Earlier(list, c)
           /\ \A c \in RootsOf(new) \ RootsOf(list) :
                 Cardinality(RootsOf(list)) <= Cardinality(Earlier(new, c))
           /\ Cardinality(RootsOf(list)) <= Cardinality(RootsOf(new))
<1>1. RootsOf(list) \subseteq DOMAIN list /\ RootsOf(new) \subseteq DOMAIN new
      /\ DOMAIN list \subseteq Nat /\ DOMAIN new \subseteq Nat
  <2>1. /\ Len(list) \in Nat /\ DOMAIN list = 1 .. Len(list)
        /\ Len(new) \in Nat /\ DOMAIN new = 1 .. Len(new)
    BY ListIndex
  <2>. QED
    BY <2>1 DEF RootsOf
<1>2. ASSUME NEW c \in RootsOf(list)
      PROVE  Earlier(new, c) = Earlier(list, c)
  <2>1. ASSUME NEW d \in RootsOf(new), d < c
        PROVE  d \in RootsOf(list)
    BY <1>1, <2>1 DEF RootsGrow
  <2>. QED
    BY <2>1 DEF Earlier, RootsGrow
<1>3. ASSUME NEW c \in RootsOf(new) \ RootsOf(list)
      PROVE  Cardinality(RootsOf(list)) <= Cardinality(Earlier(new, c))
  <2>1. RootsOf(list) \subseteq Earlier(new, c)
    BY <1>1 DEF Earlier, RootsGrow
  <2>. QED
    BY <2>1, RootsFinite, FS_Subset
<1>4. Cardinality(RootsOf(list)) <= Cardinality(RootsOf(new))
  BY RootsFinite, FS_Subset DEF RootsGrow
<1>. QED
  BY <1>2, <1>3, <1>4

LEMMA AskedGrows ==
    ASSUME NEW list \in Seq(NameType), NEW new \in Seq(NameType), NEW n \in Nat,
           RootsGrow(list, new), AskedUpTo(list, n)
    PROVE  AskedUpTo(new, n)
<1>1. /\ Cardinality(RootsOf(list)) \in Nat /\ Cardinality(RootsOf(new)) \in Nat
      /\ \A c : Cardinality(Earlier(new, c)) \in Nat
  BY RootsFinite
<1>2. n <= Cardinality(RootsOf(new))
  BY <1>1, RootsBefore DEF AskedUpTo
<1>3. ASSUME NEW c \in RootsOf(new), Cardinality(Earlier(new, c)) < n
      PROVE  new[c].scanned
  <2>1. c \in RootsOf(list)
    BY <1>1, <1>3, RootsBefore DEF AskedUpTo
  <2>2. list[c].scanned
    BY <1>3, <2>1, RootsBefore DEF AskedUpTo
  <2>. QED
    BY <2>1, <2>2 DEF RootsGrow
<1>. QED
  BY <1>2, <1>3 DEF AskedUpTo

\* The watermark passes the first declaration past it when that was asked.
LEMMA AskedNext ==
    ASSUME NEW list \in Seq(NameType), NEW new \in Seq(NameType), NEW n \in Nat,
           RootsGrow(list, new), AskedUpTo(list, n), NEW d \in RootsOf(list),
           Cardinality(Earlier(list, d)) >= n,
           \A o \in RootsOf(list) : Cardinality(Earlier(list, o)) >= n => d <= o,
           new[d].scanned
    PROVE  AskedUpTo(new, n + 1)
<1>1. /\ Cardinality(RootsOf(list)) \in Nat /\ Cardinality(RootsOf(new)) \in Nat
      /\ \A c : Cardinality(Earlier(new, c)) \in Nat
      /\ \A c : Cardinality(Earlier(list, c)) \in Nat /\ IsFiniteSet(Earlier(list, c))
  BY RootsFinite
<1>2. n + 1 <= Cardinality(RootsOf(list))
  BY <1>1, RootsFinite
<1>3. n + 1 <= Cardinality(RootsOf(new))
  BY <1>1, <1>2, RootsBefore
<1>4. d \in Nat /\ \A c \in RootsOf(list) : c \in Nat
  BY ListIndex DEF RootsOf
<1>5. ASSUME NEW c \in RootsOf(new), Cardinality(Earlier(new, c)) < n + 1
      PROVE  new[c].scanned
  <2>1. c \in RootsOf(list)
    BY <1>1, <1>2, <1>5, RootsBefore
  <2>2. Cardinality(Earlier(list, c)) < n + 1
    BY <1>5, <2>1, RootsBefore
  <2>3. CASE Cardinality(Earlier(list, c)) < n
    BY <2>1, <2>3 DEF AskedUpTo, RootsGrow
  <2>4. CASE Cardinality(Earlier(list, c)) >= n
    <3>1. d <= c
      BY <2>1, <2>4
    <3>2. ~(d < c)
      <4>1. SUFFICES ASSUME d < c
                     PROVE  FALSE
        OBVIOUS
      <4>2. Earlier(list, d) \cup {d} \subseteq Earlier(list, c)
        <5>1. SUFFICES ASSUME NEW e \in Earlier(list, d) \cup {d}
                       PROVE  e \in RootsOf(list) /\ e < c
          BY DEF Earlier
        <5>2. c \in Nat
          BY <1>4, <2>1
        <5>3. CASE e = d
          BY <4>1, <5>3
        <5>4. CASE e \in RootsOf(list) /\ e < d
          <6>1. e \in Nat
            BY <1>4, <5>4
          <6>. QED
            BY <1>4, <4>1, <5>2, <5>4, <6>1
        <5>. QED
          BY <5>1, <5>3, <5>4 DEF Earlier
      <4>3. d \notin Earlier(list, d)
        BY <1>4 DEF Earlier
      <4>4. Cardinality(Earlier(list, d) \cup {d}) = Cardinality(Earlier(list, d)) + 1
        BY <1>1, <4>3, FS_AddElement
      <4>5. Cardinality(Earlier(list, d) \cup {d}) <= Cardinality(Earlier(list, c))
        BY <1>1, <4>2, FS_Subset
      <4>. QED
        BY <1>1, <2>2, <4>4, <4>5
    <3>3. c = d
      BY <1>4, <2>1, <3>1, <3>2
    <3>. QED
      BY <3>3
  <2>. QED
    BY <1>1, <2>3, <2>4
<1>. QED
  BY <1>3, <1>5 DEF AskedUpTo

\* No step takes a root away or puts one before another.
LEMMA RootsStay ==
    ASSUME PInv, [Next]_vars, NEW m \in Modules
    PROVE  RootsGrow(cand[m], cand'[m])
<1>1. cand[m] \in Seq(NameType) /\ cand'[m] \in Seq(NameType)
  <2>1. PInv'
    BY NextPasses
  <2>. QED
    BY <2>1 DEF PInv, Inv, TypeOK
<1>2. "loop" \notin RootSorts /\ "local" \notin RootSorts
  BY DEF RootSorts
<1>3. /\ Len(cand[m]) \in Nat /\ DOMAIN cand[m] = 1 .. Len(cand[m])
      /\ Len(cand'[m]) \in Nat /\ DOMAIN cand'[m] = 1 .. Len(cand'[m])
  BY <1>1, ListIndex
<1>4. ASSUME NEW c \in RootsOf(cand[m])
      PROVE  c \in RootsOf(cand'[m]) /\ (cand[m][c].scanned => cand'[m][c].scanned)
  <2>1. c \in DOMAIN cand[m] /\ cand[m][c].sort \in RootSorts
    BY DEF RootsOf
  <2>2. c \in DOMAIN cand'[m] /\ Keeps(cand[m][c], cand'[m][c])
    BY <2>1, NamesKeep
  <2>. QED
    BY <1>2, <2>1, <2>2 DEF Keeps, RootsOf
<1>5. ASSUME NEW c \in RootsOf(cand'[m]) \ RootsOf(cand[m]), NEW d \in DOMAIN cand[m]
      PROVE  d < c
  <2>1. c \notin DOMAIN cand[m]
    <3>1. SUFFICES ASSUME c \in DOMAIN cand[m]
                   PROVE  FALSE
      OBVIOUS
    <3>2. Keeps(cand[m][c], cand'[m][c])
      BY <3>1, NamesKeep
    <3>. QED
      BY <1>2, <1>5, <3>1, <3>2 DEF Keeps, RootsOf
  <2>2. c \in DOMAIN cand'[m]
    BY <1>5 DEF RootsOf
  <2>. QED
    BY <1>3, <2>1, <2>2
<1>. QED
  BY <1>4, <1>5 DEF RootsGrow

LEMMA UnscannedIs ==
    ASSUME NEW m \in Modules, NEW c
    PROVE  c \in Unscanned(m)
              <=> c \in RootsOf(cand[m]) /\ Cardinality(Earlier(cand[m], c)) >= named[m]
BY DEF Unscanned, RootHeads, RootsOf, Earlier

LEMMA AskedStep == PInv /\ NamesAsked /\ [Next]_vars => NamesAsked'
<1>. SUFFICES ASSUME PInv, NamesAsked, [Next]_vars
              PROVE  NamesAsked'
  OBVIOUS
<1>1. /\ cand \in Lists /\ cand' \in Lists /\ named \in [Modules -> Nat] /\ at \in Nat
      /\ phase \in Phases /\ free \in BOOLEAN
  <2>1. PInv'
    BY NextPasses
  <2>. QED
    BY <2>1 DEF PInv, Inv, TypeOK, Lists
<1>2. ASSUME NEW m \in Modules
      PROVE  AskedUpTo(cand'[m], named'[m])
  <2>1. PICK list \in Seq(NameType) : list = cand[m]
    BY <1>1 DEF Lists
  <2>2. PICK new \in Seq(NameType) : new = cand'[m]
    BY <1>1 DEF Lists
  <2>3. RootsGrow(list, new) /\ AskedUpTo(list, named[m]) /\ named[m] \in Nat
    BY <1>1, <2>1, <2>2, RootsStay DEF NamesAsked
  <2>4. CASE ScanDeclaration /\ m = at
    <3>1. PICK d \in Unscanned(at) :
             /\ \A o \in Unscanned(at) : d <= o
             /\ cand' = [cand EXCEPT ![at] =
                    [cand[at] EXCEPT ![d] = [cand[at][d] EXCEPT !.scanned = TRUE]]
                      \o (IF cand[at][d].assigns
                          THEN <<Declared("implicit", d, FALSE, "none", TRUE)>>
                          ELSE <<>>)]
      BY <2>4 DEF ScanDeclaration
    <3>2. d \in RootsOf(list) /\ Cardinality(Earlier(list, d)) >= named[m]
      BY <2>1, <2>4, <3>1, UnscannedIs
    <3>3. \A o \in RootsOf(list) : Cardinality(Earlier(list, o)) >= named[m] => d <= o
      BY <2>1, <2>4, <3>1, UnscannedIs
    <3>4. new[d].scanned
      <4>1. d \in DOMAIN list
        BY <3>2 DEF RootsOf
      <4>2. PICK n \in NameType : n = [list[d] EXCEPT !.scanned = TRUE]
        <5>1. list[d] \in NameType
          BY <4>1, ListIndex
        <5>. QED
          BY <5>1 DEF NameType
      <4>3. n.scanned
        <5>1. PICK x \in NameType : x = list[d]
          BY <4>1, ListIndex
        <5>. QED
          BY <4>2, <5>1 DEF NameType
      <4>4. PICK t \in Seq(NameType) :
               t = [list EXCEPT ![d] = n] /\ DOMAIN t = DOMAIN list /\ t[d] = n
        <5>1. PICK t : t = [list EXCEPT ![d] = n]
          OBVIOUS
        <5>. QED
          BY <4>1, <5>1, OneElement, SMTT(60)
      <4>5. PICK names \in Seq(Own) :
               names = IF list[d].assigns
                       THEN <<Declared("implicit", d, FALSE, "none", TRUE)>> ELSE <<>>
        <5>1. PICK x : x = Declared("implicit", d, FALSE, "none", TRUE)
          OBVIOUS
        <5>2. d \in Nat
          BY <4>1, ListIndex
        <5>3. x \in NameType
          BY <5>1, <5>2, DeclaredType DEF BodySorts, TypeStates
        <5>4. x.sort = "implicit"
          BY <5>1 DEF Declared
        <5>5. x \in Own
          BY <5>3, <5>4 DEF Own, OwnSorts
        <5>6. <<x>> \in Seq(Own) /\ <<>> \in Seq(Own)
          BY <5>5
        <5>. QED
          BY <5>1, <5>6
      <4>6. new = t \o names
        BY <1>1, <2>1, <2>2, <2>4, <3>1, <4>2, <4>4, <4>5 DEF Lists
      <4>7. Own \in SUBSET NameType
        BY DEF Own
      <4>8. (t \o names)[d] = t[d]
        BY <4>1, <4>4, <4>7, GrownOf
      <4>. QED
        BY <4>3, <4>4, <4>6, <4>8
    <3>5. AskedUpTo(new, named[m] + 1)
      BY <2>3, <3>2, <3>3, <3>4, AskedNext
    <3>6. named'[m] = named[m] + 1
      BY <1>1, <2>4 DEF ScanDeclaration
    <3>. QED
      BY <2>2, <3>5, <3>6
  <2>5. CASE ~(ScanDeclaration /\ m = at)
    <3>1. named'[m] = named[m]
      <4>1. CASE ScanDeclaration
        BY <1>1, <2>5, <4>1, ZenonT(60) DEF ScanDeclaration
      <4>2. CASE ~ScanDeclaration
        BY <4>2, Zenon DEF Next, vars, TakeCandidate, FinishLate, FinishWritten,
           FinishInferred, LowerLoop, NextRound, FinishWalk, FinishSignature, WalkModule,
           LeaveScanned, LowerSwitch, LeaveSwitches, CheckDeclaration,
           LeaveChecked, Instantiate, NothingToWalk, Finished, NextLoop
      <4>. QED
        BY <4>1, <4>2
    <3>2. AskedUpTo(new, named[m])
      BY <2>3, AskedGrows
    <3>. QED
      BY <2>2, <3>1, <3>2
  <2>. QED
    BY <2>4, <2>5
<1>3. ASSUME phase' \in EarlyPhases
      PROVE  ~free'
  <2>1. CASE NextLoop
    BY <1>3, <2>1 DEF NextLoop, Begin, EarlyPhases, NamesAsked
  <2>2. CASE ~NextLoop
    <3>1. phase' = phase
      BY <2>2, Zenon DEF Next, vars, TakeCandidate, FinishLate, FinishWritten,
       FinishInferred, LowerLoop, NextRound, FinishWalk, FinishSignature, WalkModule,
       ScanDeclaration, LeaveScanned, LowerSwitch, LeaveSwitches, CheckDeclaration,
       LeaveChecked, Instantiate, NothingToWalk, Finished
    <3>2. ~free
      BY <1>3, <3>1 DEF NamesAsked
    <3>3. free' = free \/ ~free'
      BY <1>3, <2>2, <3>1, Zenon DEF Next, vars, TakeCandidate, FinishLate, FinishWritten,
       FinishInferred, LowerLoop, NextRound, FinishWalk, FinishSignature, WalkModule,
       ScanDeclaration, LeaveScanned, LowerSwitch, LeaveSwitches, CheckDeclaration,
       LeaveChecked, Instantiate, NothingToWalk, Finished, InLoop, EarlyPhases
    <3>. QED
      BY <3>2, <3>3
  <2>. QED
    BY <2>1, <2>2
<1>4. ASSUME phase' = "implicit"
      PROVE  stack' = <<>> /\ \A m \in Modules : m < at' => Unscanned(m)' = {}
  <2>1. CASE NextLoop
    <3>1. stack' = <<>> /\ at' = 1
      BY <1>4, <2>1 DEF NextLoop, LoopIsOver, Idle, Begin
    <3>. QED
      BY <3>1, ModulesAssumption DEF Modules
  <2>2. CASE ~NextLoop
    <3>1. phase = "implicit"
      BY <1>4, <2>2, Zenon DEF Next, vars, TakeCandidate, FinishLate, FinishWritten,
       FinishInferred, LowerLoop, NextRound, FinishWalk, FinishSignature, WalkModule,
       ScanDeclaration, LeaveScanned, LowerSwitch, LeaveSwitches, CheckDeclaration,
       LeaveChecked, Instantiate, NothingToWalk, Finished
    <3>2. stack = <<>> /\ ~free /\ \A m \in Modules : m < at => Unscanned(m) = {}
      BY <3>1 DEF NamesAsked, EarlyPhases
    <3>3. ~\E k \in Keys : Instantiate(k)
      BY <3>2, ZenonT(60) DEF Instantiate, MayAsk
    <3>4. ScanDeclaration \/ LeaveScanned \/ UNCHANGED vars
      BY <2>2, <3>1, <3>2, <3>3 DEF Next, TakeCandidate, FinishLate, FinishWritten,
       FinishInferred, LowerLoop, NextRound, FinishWalk, FinishSignature, WalkModule,
       NothingToWalk, LowerSwitch, LeaveSwitches, CheckDeclaration, Finished,
       LeaveChecked, RoundIsOver, Typing, Working, InLoop
    <3>5. CASE ScanDeclaration
      <4>1. stack' = stack /\ at' = at
        BY <3>5 DEF ScanDeclaration
      <4>2. ASSUME NEW m \in Modules, m < at
            PROVE  Unscanned(m)' = {}
        <5>1. cand'[m] = cand[m] /\ named'[m] = named[m]
          BY <1>1, <3>5, <4>2 DEF ScanDeclaration, Lists
        <5>2. Unscanned(m)' = Unscanned(m)
          BY <5>1 DEF Unscanned, RootHeads
        <5>. QED
          BY <3>2, <4>2, <5>2
      <4>. QED
        BY <3>2, <4>1, <4>2
    <3>6. CASE LeaveScanned
      <4>1. /\ stack' = stack /\ at' = at + 1 /\ Unscanned(at) = {}
            /\ cand' = cand /\ named' = named /\ at \in Modules
        BY <3>6 DEF LeaveScanned, InLoop
      <4>2. \A m \in Modules : Unscanned(m)' = Unscanned(m)
        BY <4>1 DEF Unscanned, RootHeads
      <4>3. ASSUME NEW m \in Modules, m < at + 1
            PROVE  m < at \/ m = at
        BY <1>1, <4>3, ModulesAssumption DEF Modules
      <4>. QED
        BY <3>2, <4>1, <4>2, <4>3
    <3>7. CASE UNCHANGED vars
      <4>1. stack' = stack /\ at' = at /\ cand' = cand /\ named' = named
        BY <3>7 DEF vars
      <4>2. \A m \in Modules : Unscanned(m)' = Unscanned(m)
        BY <4>1 DEF Unscanned, RootHeads
      <4>. QED
        BY <3>2, <4>1, <4>2
    <3>. QED
      BY <3>4, <3>5, <3>6, <3>7
  <2>. QED
    BY <2>1, <2>2
<1>. QED
  BY <1>2, <1>3, <1>4 DEF NamesAsked

LEMMA InitAsked == Init => NamesAsked
<1>. SUFFICES ASSUME Init
              PROVE  NamesAsked
  OBVIOUS
<1>1. PInv /\ phase = "collect" /\ ~free
  BY InitPasses DEF Init
<1>2. ASSUME NEW m \in Modules
      PROVE  AskedUpTo(cand[m], named[m])
  <2>1. PICK list \in Seq(NameType) : list = cand[m]
    BY <1>1 DEF PInv, Inv, TypeOK
  <2>2. named[m] = 0
    BY DEF Init
  <2>3. /\ Cardinality(RootsOf(list)) \in Nat
        /\ \A c : Cardinality(Earlier(list, c)) \in Nat
    BY RootsFinite
  <2>4. AskedUpTo(list, 0)
    BY <2>3 DEF AskedUpTo
  <2>. QED
    BY <2>1, <2>2, <2>4
<1>. QED
  BY <1>1, <1>2 DEF NamesAsked

LEMMA NamedStep ==
    LInv /\ NamesAsked /\ NamedBeforeInference /\ [Next]_vars => NamedBeforeInference'
<1>. SUFFICES ASSUME LInv, NamesAsked, NamedBeforeInference, [Next]_vars,
                     phase' \notin EarlyPhases,
                     NEW m \in Modules, NEW c \in RootsOf(cand'[m]), cand'[m][c].early
              PROVE  /\ cand'[m][c].scanned
                     /\ cand'[m][c].sort = "class" => cand'[m][c].super
  BY DEF NamedBeforeInference, RootHeads, RootsOf
<1>1. /\ PInv /\ cand \in Lists /\ named[m] \in Nat
      /\ c \in DOMAIN cand'[m] /\ cand'[m][c].sort \in RootSorts
  BY DEF LInv, PInv, Inv, TypeOK, Lists, RootsOf
<1>2. CASE phase \notin EarlyPhases /\ c \in DOMAIN cand[m]
  <2>1. Keeps(cand[m][c], cand'[m][c])
    BY <1>1, <1>2, NamesKeep
  <2>2. cand[m][c].sort = cand'[m][c].sort /\ cand[m][c].early
    BY <1>1, <2>1 DEF Keeps, RootSorts
  <2>3. c \in RootHeads(m)
    BY <1>1, <1>2, <2>2 DEF RootHeads
  <2>4. cand[m][c].scanned /\ (cand[m][c].sort = "class" => cand[m][c].super)
    BY <1>2, <2>2, <2>3 DEF NamedBeforeInference
  <2>. QED
    BY <2>1, <2>2, <2>4 DEF Keeps
<1>3. CASE phase \notin EarlyPhases /\ c \notin DOMAIN cand[m]
  <2>1. \E k \in Keys : Instantiate(k)
    BY <1>1, <1>3, OwnNames DEF OwnSorts, RootSorts
  <2>2. PICK k \in Keys : Instantiate(k)
    BY <2>1
  <2>3. PICK list \in Seq(NameType) : list = cand[HostOf[k]]
    BY <1>1, KeysAssumption DEF Lists
  <2>4. PICK new : new = cand'[HostOf[k]]
    OBVIOUS
  <2>5. /\ memo[k] # 0 => DOMAIN cand'[m] = DOMAIN cand[m]
        /\ m # HostOf[k] => cand'[m] = cand[m]
        /\ memo[k] = 0 => Cloned(SortOf[k], phase \in EarlyPhases,
                                 cand[HostOf[k]], cand'[HostOf[k]])
    BY <1>1, <2>2, CloneNames DEF PInv
  <2>6. memo[k] = 0 /\ m = HostOf[k]
    BY <1>1, <1>3, <2>5
  <2>7. Cloned(SortOf[k], FALSE, list, new)
    <3>1. Cloned(SortOf[k], phase \in EarlyPhases, list, new)
      BY <2>3, <2>4, <2>5, <2>6
    <3>. QED
      BY <1>3, <3>1 DEF Cloned
  <2>8. Len(list) \in Nat /\ DOMAIN list = 1 .. Len(list)
    BY ListIndex
  <2>9. c = Len(list) + 1 \/ c = Len(list) + 2
    <3>1. c \in DOMAIN new /\ c \notin DOMAIN list
      BY <1>1, <1>3, <2>3, <2>4, <2>6
    <3>2. c \in 1 .. Len(list) + 2 /\ c \notin 1 .. Len(list)
      BY <2>7, <2>8, <3>1 DEF Cloned
    <3>. QED
      BY <2>8, <3>2
  <2>10. new[c].early /\ new[c].sort \in RootSorts
    BY <1>1, <2>4, <2>6
  <2>. QED
    BY <2>7, <2>9, <2>10 DEF Cloned, RootSorts
<1>4. CASE phase \in EarlyPhases
  <2>1. NextLoop
    BY <1>4, Zenon DEF Next, vars, TakeCandidate, FinishLate, FinishWritten,
       FinishInferred, LowerLoop, NextRound, FinishWalk, FinishSignature, WalkModule,
       ScanDeclaration, LeaveScanned, LowerSwitch, LeaveSwitches, CheckDeclaration,
       LeaveChecked, Instantiate, NothingToWalk, Finished
  <2>2. /\ phase = "implicit" /\ ~grew /\ at = NumModules + 1 /\ stack = <<>>
        /\ cand' = cand
    BY <1>4, <2>1 DEF NextLoop, LoopIsOver, Idle, Begin, EarlyPhases
  <2>3. m < at
    BY <2>2, ModulesAssumption DEF Modules
  <2>4. c \notin Unscanned(m)
    BY <2>2, <2>3 DEF NamesAsked
  <2>5. PICK list \in Seq(NameType) : list = cand[m]
    BY <1>1 DEF Lists
  <2>6. Cardinality(Earlier(list, c)) < named[m]
    <3>1. Cardinality(Earlier(list, c)) \in Nat
      BY RootsFinite
    <3>2. ~(Cardinality(Earlier(list, c)) >= named[m])
      BY <2>2, <2>4, <2>5, UnscannedIs
    <3>. QED
      BY <1>1, <3>1, <3>2
  <2>7. cand[m][c].scanned
    BY <2>2, <2>5, <2>6 DEF NamesAsked, AskedUpTo
  <2>8. SettledIn(cand, mark, stack, "written", m)
    <3>1. "written" \in Passes /\ Behind("written", m)
      BY <2>2 DEF Behind, Passes
    <3>. QED
      BY <3>1 DEF LInv, AllSettled
  <2>9. mark["written"][m] = Len(list) + 1
    BY <2>2, <2>5, <2>8 DEF SettledIn, WalksIn, SignsIn, FramesOf
  <2>10. AtRest(cand[m], mark["written"][m], mark["inferred"][m])
    BY <1>1, <2>2, IdleRests
  <2>11. c \in DOMAIN list /\ c < Len(list) + 1
    BY <1>1, <2>2, <2>5, ListIndex
  <2>12. list[c].wrote = 1
    BY <2>5, <2>9, <2>10, <2>11 DEF AtRest, Once
  <2>13. cand[m][c].sort = "class" => cand[m][c].super
    BY <2>5, <2>11, <2>12 DEF LInv, TypesGiven, Given
  <2>. QED
    BY <2>2, <2>7, <2>13
<1>. QED
  BY <1>2, <1>3, <1>4

\* Whatever reads a type finds it there, for every program: who instantiated a
\* clone, the inference, the statement checker, and what comes after the loops.
THEOREM NothingUntyped == Spec => []NothingIsReadUntyped
<1>. DEFINE All == LInv /\ OnlyClonesLeft /\ Signed /\ NamesAsked /\ NamedBeforeInference
<1>1. Init => All
  <2>1. Init => Signed
    BY DEF Init, Signed, SignedIn
  <2>2. Init => NamedBeforeInference
    BY DEF Init, NamedBeforeInference, EarlyPhases
  <2>. QED
    BY <2>1, <2>2, InitLInv, InitClonesLeft, InitAsked
<1>2. All /\ [Next]_vars => All'
  <2>1. LInv => PInv
    BY DEF LInv
  <2>. QED
    BY <2>1, NextLInv, ClonesLeftStep, SignedStep, AskedStep, NamedStep
<1>3. All => NothingIsReadUntyped
  BY SignedThen, CheckedTyped, TypedThen DEF NothingIsReadUntyped
<1>. QED
  BY <1>1, <1>2, <1>3, PTL DEF Spec
=============================================================================
