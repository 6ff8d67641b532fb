---------------------------- MODULE Expressions ----------------------------
(***************************************************************************)
(* A statement over numbers, from the front end to what either back end     *)
(* makes of it.                                                            *)
(***************************************************************************)
EXTENDS Arithmetic

CONSTANT Statements   \* families of statements, each in parts

Cpp == INSTANCE EmittedArithmetic
Ir  == INSTANCE IrArithmetic

VARIABLES statement,   \* as it was read, then as it was typed
          stands,      \* "read", "typed" or "refused"
          emitted,     \* what the C++ of it computes, once it is written
          interpreted  \* what its IR computes, once it was lowered and run

vars == <<statement, stands, emitted, interpreted>>

None == [ends |-> "none", value |-> 0]

Init ==
    /\ \E family \in DOMAIN Statements : \E part \in DOMAIN Statements[family] :
         statement \in Statements[family][part]
    /\ stands = "read" /\ emitted = None /\ interpreted = None

Check ==
    /\ stands = "read"
    /\ statement' = Checked(statement)
    /\ stands' = IF Accepted(statement') THEN "typed" ELSE "refused"
    /\ UNCHANGED <<emitted, interpreted>>

Told(x) == [ends |-> x.ends, value |-> x.value]
Emit ==
    /\ stands = "typed" /\ emitted = None
    /\ emitted' = Told(Cpp!emitted(statement))
    /\ UNCHANGED <<statement, stands, interpreted>>

Interpret ==
    /\ stands = "typed" /\ interpreted = None
    /\ interpreted' = Ir!interpreted(statement)
    /\ UNCHANGED <<statement, stands, emitted>>

Next == Check \/ Emit \/ Interpret
Spec == Init /\ [][Next]_vars

-----------------------------------------------------------------------------
\* Whatever its operators and its types, a statement the front end takes is
\* C++ that compiles, whose value no promotion of C++, no order of its
\* conversions and nothing C++ leaves undefined can move: a whole number
\* wraps at its own width, a division by zero stops, a shift past the width
\* empties, '//' rounds down, a cast that does not fit stops (records 0057, 0083).
EmittedAsRecorded == emitted # None => emitted = MeantBy(statement)

\* And its IR, when it has one, is worth the same.
InterpretedAsRecorded ==
    interpreted.ends \notin {"none", "not yet"} => interpreted = MeantBy(statement)

\* The two of them, for the statements one of them gets wrong.
AsRecorded == EmittedAsRecorded /\ InterpretedAsRecorded
=============================================================================
