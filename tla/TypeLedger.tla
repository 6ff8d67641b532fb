------------------------------ MODULE TypeLedger ------------------------------
(***************************************************************************)
(* What the type phase promises the phases after it, with no word about    *)
(* modules, passes or walks: names are declared as the work goes on, each  *)
(* is typed once and after it was declared, one name at a time, and the    *)
(* phase is over only when nothing declared is left untyped.               *)
(***************************************************************************)
EXTENDS FiniteSets

VARIABLES
    born,       \* the names declared so far
    typed,      \* the names that have the type they end with
    over        \* whether the phase has ended

ledger == <<born, typed, over>>

Init ==
    /\ typed = {}
    /\ over = FALSE

\* typing a name may declare others: a clone, or a local of a lowering
Type(n) ==
    /\ ~over
    /\ n \in born \ typed
    /\ typed' = typed \cup {n}
    /\ born \subseteq born'
    /\ UNCHANGED over

Declare ==
    /\ ~over
    /\ born \subseteq born'
    /\ UNCHANGED <<typed, over>>

Close ==
    /\ ~over
    /\ typed = born
    /\ over' = TRUE
    /\ UNCHANGED <<born, typed>>

Next == Declare \/ Close \/ \E n \in born : Type(n)

Spec == Init /\ [][Next]_ledger
=============================================================================
