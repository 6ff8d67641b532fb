----------------------------- MODULE ModuleReach -----------------------------
(***************************************************************************)
(* What the build loop promises: it visits every file that can be reached  *)
(* from the entry through what the files it could read import, no other,   *)
(* each once, and it stops. In which order, and from which list, is the    *)
(* loop's own affair.                                                      *)
(***************************************************************************)
EXTENDS FiniteSets

VARIABLES
    edges,      \* what each visit leads to: a set of visits
    reached,    \* the visits known; a visit names a file and its root
    left,       \* those that are over
    read,       \* those that are over and whose file was read
    over        \* whether the loop has stopped

reachVars == <<edges, reached, left, read, over>>

FilesOf(visits) == {v.file : v \in visits}

Init == reached = {} /\ left = {} /\ read = {} /\ over = FALSE

Enter ==
    /\ reached = {} /\ ~over
    /\ \E v \in DOMAIN edges : reached' = {v}
    /\ UNCHANGED <<edges, left, read, over>>

\* a file no visit named yet, from one that is not over
Discover ==
    /\ ~over
    /\ \E v \in reached \ left : \E w \in edges[v] :
          /\ w.file \notin FilesOf(reached)
          /\ reached' = reached \cup {w}
    /\ UNCHANGED <<edges, left, read, over>>

\* a visit that read its file ends with everything it leads to known
Leave ==
    /\ ~over
    /\ \E v \in reached \ left :
          /\ left' = left \cup {v}
          /\ \/ UNCHANGED read
             \/ /\ FilesOf(edges[v]) \subseteq FilesOf(reached)
                /\ read' = read \cup {v}
    /\ UNCHANGED <<edges, reached, over>>

Stop ==
    /\ ~over
    /\ left = reached
    /\ over' = TRUE
    /\ UNCHANGED <<edges, reached, left, read>>

Next == Enter \/ Discover \/ Leave \/ Stop

Spec == Init /\ [][Next]_reachVars /\ WF_reachVars(Next)
=============================================================================
