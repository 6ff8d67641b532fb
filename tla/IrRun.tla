------------------------------- MODULE IrRun -------------------------------
(***************************************************************************)
(* A lowered function running.  The graph runs as IrInterpreter::call runs *)
(* one (ir/ir_interpreter.cpp); beside it the structured form the graph    *)
(* was made from runs by what its regions say, and the two do the same     *)
(* instructions, one by one.  What a call answers and which variant a      *)
(* union holds is anything; a slot holds what was stored in it, and the    *)
(* objects that are built and not ended are counted.                       *)
(***************************************************************************)
EXTENDS FunctionLowerer

CONSTANT Programs      \* the functions run: a set of shapes and bodies

ASSUME ProgramsAreBodies ==
  \A program \in Programs : LeavesALoop(program.body, 0)

\* The two forms of a function, with the scope each of its objects ends with.
Analysed(l, graph, known) ==
  [structured |-> l.b, graph |-> graph, homes |-> l.homes,
   seen |-> [k \in ToSet(graph.order) |-> IsVisibleCfg(graph, known, k)],
   verifies |-> LET gives == l.shape = "value"
                IN  /\ verify_structured(l.b, gives)
                    /\ verify_cfg(graph, known, gives)]
Flattened(l, graph) == Analysed(l, graph, compute_dominators(graph))
Lowered(l) == Flattened(l, flatten(l.b))
Compiled(program) == Lowered(lower(program.shape, program.body))

VARIABLES
  prog,      \* the function that runs
  code,      \* what it was lowered to
  at,        \* the graph: the block it is in, and the instruction of it
  inside,    \* the structured form: the same, for each region it is inside
  values,    \* what each instruction gave
  memory,    \* what each slot holds
  alive,     \* the objects built and not ended, the first built first
  left       \* whether it gave back
vars == <<prog, code, at, inside, values, memory, alive, left>>

Unset == -1            \* what a slot holds before anything is stored

Graph == code.graph
Text  == code.structured
Ids   == 1 .. Graph.next

Init ==
  /\ prog \in Programs
  /\ code = Compiled(prog)
  /\ at = <<Graph.order[1], 1>>
  /\ inside = <<<<1, 1>>>>
  /\ values = [id \in Ids |-> Unset]
  /\ memory = [id \in Ids |-> Unset]
  /\ alive = <<>>
  /\ left = FALSE

\* The instruction the graph is at.
There == Graph.blocks[at[1]].insts[at[2]]

\* The instruction the structured form is at; a region at the end of its
\* block has none.
AtEnd == Last(inside)[2] > Len(Text.blocks[Last(inside)[1]].insts)
Here  == Text.blocks[Last(inside)[1]].insts[Last(inside)[2]]
RegionOf(block) == Text.blocks[block].region

Jumps   == {"br", "cond_br"}
Moves   == Regions \cup {"break", "continue"}
AtJump  == There.op \in Jumps
AtMove  == ~AtEnd => Here.op \in Moves

----------------------------------------------------------------------------
\* The jumps of the graph.  What the block jumped to may not read is
\* forgotten.

Target == IF There.op = "cond_br" /\ values[There.a] = 0 THEN There.b
          ELSE There.extra

Jump ==
  /\ ~left /\ AtJump /\ ~AtMove
  /\ at' = <<Target, 1>>
  /\ values' = [id \in Ids |-> IF id \in code.seen[Target] THEN values[id]
                               ELSE Unset]
  /\ UNCHANGED <<prog, code, inside, memory, alive, left>>

----------------------------------------------------------------------------
\* The regions of the structured form.

\* What is open around a region, with the region done.
Past(frames) == [frames EXCEPT ![Len(frames)][2] = @ + 1]

Enter ==
  /\ ~AtEnd /\ Here.op \in Regions
  /\ inside' =
       CASE Here.op = "if" /\ values[Here.a] = 0 ->
              IF Here.c = 0 THEN Past(inside)
              ELSE Append(inside, <<Here.c, 1>>)
         [] OTHER -> Append(inside, <<Here.extra, 1>>)

\* A loop goes round, every other region is over.
Leave ==
  /\ AtEnd /\ Len(inside) > 1
  /\ inside' = IF InstOf(Text.blocks, RegionOf(Last(inside)[1])).op = "loop"
               THEN [inside EXCEPT ![Len(inside)][2] = 1]
               ELSE Past(Front(inside))

\* The frames down to the one that is inside the region named.
DownTo(region) ==
  SubSeq(inside, 1, CHOOSE i \in DOMAIN inside :
                      RegionOf(inside[i][1]) = region)

Break ==
  /\ ~AtEnd /\ Here.op = "break"
  /\ inside' = Past(Front(DownTo(Here.a)))

Continue ==
  /\ ~AtEnd /\ Here.op = "continue"
  /\ LET kept == DownTo(Here.a)
     IN  inside' = [kept EXCEPT ![Len(kept)][2] = 1]

Move ==
  /\ ~left /\ AtMove
  /\ Enter \/ Leave \/ Break \/ Continue
  /\ UNCHANGED <<prog, code, at, values, memory, alive, left>>

----------------------------------------------------------------------------
\* The instructions both do.

Together == ~left /\ ~AtJump /\ ~AtMove /\ There.id = Here.id

\* The next instruction of both.
Onward ==
  /\ at' = [at EXCEPT ![2] = @ + 1]
  /\ inside' = Past(inside)

Gives(value) == values' = [values EXCEPT ![There.id] = value]

\* A call that answers, and a match that finds a variant.
Ask ==
  /\ Together /\ There.op \in {"ask", "pick"}
  /\ \E answer \in IF There.op = "ask" THEN {0, 1} ELSE 1 .. There.a :
       Gives(answer)
  /\ Onward
  /\ UNCHANGED <<prog, code, memory, alive, left>>

Truth(p) == IF p THEN 1 ELSE 0

Compute ==
  /\ Together /\ There.op \in {"const", "not", "is", "or", "load", "slot"}
  /\ Gives(CASE There.op = "const" -> There.a
             [] There.op = "not"   -> Truth(values[There.a] = 0)
             [] There.op = "is"    -> Truth(values[There.a] = There.b)
             [] There.op = "or"    -> Truth(values[There.a] = 1
                                            \/ values[There.b] = 1)
             [] There.op = "load"  -> memory[There.a]
             [] OTHER              -> Unset)
  /\ Onward
  /\ UNCHANGED <<prog, code, memory, alive, left>>

Store ==
  /\ Together /\ There.op = "store"
  /\ memory' = [memory EXCEPT ![There.b] = values[There.a]]
  /\ Onward
  /\ UNCHANGED <<prog, code, values, alive, left>>

\* An object is built in a place, anew or as a copy of another.
Build ==
  /\ Together /\ There.op \in {"make", "copy"}
  /\ alive' = Append(alive, There.a)
  /\ Onward
  /\ UNCHANGED <<prog, code, values, memory, left>>

End ==
  /\ Together /\ There.op = "drop"
  /\ alive' = SelectSeq(alive, LAMBDA built : built # There.a)
  /\ Onward
  /\ UNCHANGED <<prog, code, values, memory, left>>

Return ==
  /\ Together /\ There.op = "ret"
  /\ left' = TRUE
  /\ UNCHANGED <<prog, code, at, inside, values, memory, alive>>

Returned == left /\ UNCHANGED vars

Next == Jump \/ Move \/ Ask \/ Compute \/ Store \/ Build \/ End \/ Return
        \/ Returned

Spec == Init /\ [][Next]_vars

----------------------------------------------------------------------------
\* Properties.

HomeOfPlace(built) ==
  LET homes == code.homes
  IN  homes[CHOOSE i \in DOMAIN homes : homes[i][1] = built][2]

\* What is lowered verifies, before it is flattened and after, whatever was
\* written (ir_lowerer.cpp: the verifier always runs, and a failure is a
\* bug of the compiler).
Verifies == code.verifies

\* The graph does what the structured form does: the next instruction of
\* one is the next of the other (ir_flattener.cpp).
FlatRunsTheSame == ~left /\ ~AtJump /\ ~AtMove => There.id = Here.id

\* An object is ended, or copied from, while it is built; and a slot is read
\* after something was stored in it, on every path and every turn of a loop
\* (run_cleanups, the flags of add_cleanup).
NothingEndsTwice ==
  ~left /\ ~AtJump =>
    /\ There.op = "drop" => There.a \in ToSet(alive)
    /\ There.op = "copy" => There.b \in ToSet(alive)
    /\ There.op = "load" => memory[There.a] # Unset

\* Nothing is built over what was not ended, and what is built when the
\* function gives back is what it gives back, alone (close_scope, lower_break,
\* lower_continue, give_back).
NothingLeftBehind ==
  /\ ~left /\ ~AtJump /\ There.op \in {"make", "copy"} =>
       There.a \notin ToSet(alive)
  /\ left => alive = IF prog.shape = "struct"
                     THEN <<Destination>> ELSE <<>>

\* What was built last is ended first, among what ends with the same scope or
\* with one inside it (run_cleanups).
LastMadeFirstEnded ==
  ~left /\ ~AtJump /\ There.op = "drop" =>
    \A i, j \in DOMAIN alive :
      alive[i] = There.a /\ i < j =>
        HomeOfPlace(alive[j]) < HomeOfPlace(There.a)

\* Whatever is ended was built, once, and in the order opposite to it.
EndedOnceInOrder == NothingEndsTwice /\ LastMadeFirstEnded
=============================================================================
