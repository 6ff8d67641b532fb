----------------------------- MODULE MCTypePhase -----------------------------
(* Small programs for the type phase: what the modules declare, what they    *)
(* may instantiate, and in which module the clone goes.                      *)
EXTENDS TypePhase, TLC

CONSTANTS k1, k2

Class(assigns) == [sort |-> "class", owner |-> 1, assigns |-> assigns]
Function == [sort |-> "function", owner |-> 2, assigns |-> TRUE]
Inside(sort, owner) == [sort |-> sort, owner |-> owner, assigns |-> FALSE]

\* Two modules that instantiate each other's generics: a method of the first
\* and a class of the second, with bodies that assign. The first has a loop
\* over a container and a switch, the second a function with a local.
MixedSource == <<<<Class(TRUE), Inside("loop", 1)>>,
                 <<Class(FALSE), Function, Inside("local", 2)>>>>
MixedHost == k1 :> 1 @@ k2 :> 2
MixedSort == k1 :> "method" @@ k2 :> "class"
SomeSwitches == [m \in Modules |-> IF m = 1 THEN 1 ELSE 0]
=============================================================================
