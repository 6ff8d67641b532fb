------------------------------ MODULE IrGraph -------------------------------
(***************************************************************************)
(* The IR of one function (ir/ir_function.h) and what writes it            *)
(* (ir/ir_builder.cpp).  A function is a sequence of blocks, a block the   *)
(* sequence of its instructions; in the structured form the regions        *)
(* 'block', 'if' and 'loop' are instructions that hold blocks, and a       *)
(* 'break' or a 'continue' names the region it is about.  A value is named *)
(* by the instruction that gives it.                                       *)
(*                                                                         *)
(* With it, what makes the regions jumps between blocks                    *)
(* (ir/ir_flattener.cpp) and what says that a function of either form is   *)
(* well made (ir/ir_verifier.cpp).                                         *)
(*                                                                         *)
(* Types, positions and the operand pool are left out: what is kept is     *)
(* where an instruction goes, what it reads and where it may jump.         *)
(***************************************************************************)
EXTENDS Integers, Sequences, SequencesExt, FiniteSets

\* An instruction: its number, what it does, and its operands as the code
\* keeps them: 'a' and 'b' are values, slots or regions, 'extra' and 'c' the
\* blocks a region holds or a jump goes to.
Inst(id, op, a, b, c, extra) ==
  [id |-> id, op |-> op, a |-> a, b |-> b, c |-> c, extra |-> extra]

Terminators == {"break", "continue", "ret", "br", "cond_br"}
Regions     == {"block", "if", "loop"}

Block(region) == [insts |-> <<>>, region |-> region]

\* What the builder keeps: the blocks, the one being written, the regions it
\* is inside of with the block each was written in, the number of the next
\* instruction, and the last slot moved to the entry.
begin_function ==
  [blocks |-> <<Block(0)>>, block |-> 1, open |-> <<>>, next |-> 1,
   last_entry_slot |-> 0]

Ended(insts) == insts # <<>> /\ Last(insts).op \in Terminators

ended(b) == Ended(b.blocks[b.block].insts)

emit(b, op, a, x, c, extra) ==
  [b EXCEPT !.blocks[b.block].insts =
              Append(@, Inst(b.next, op, a, x, c, extra)),
            !.next = @ + 1]

\* The value the instruction just written gives.
result_of(b) == b.next - 1

\* A region is written where the builder is, and the builder goes inside it.
\* begin_if, begin_loop and begin_block differ in the opcode and the
\* condition alone.
Begin(b, op, condition) ==
  LET made == Len(b.blocks) + 1
      in   == emit(b, op, condition, 0, 0, made)
  IN  [in EXCEPT !.blocks = Append(@, Block(b.next)),
                 !.open = Append(@, <<b.next, b.block>>),
                 !.block = made]

begin_if(b, condition) == Begin(b, "if", condition)
begin_loop(b)  == Begin(b, "loop", 0)
begin_block(b) == Begin(b, "block", 0)

\* The instruction of that number, wherever it is.
BlockOf(blocks, id) ==
  CHOOSE k \in DOMAIN blocks : \E i \in DOMAIN blocks[k].insts :
                                  blocks[k].insts[i].id = id
PlaceOf(blocks, id) ==
  CHOOSE i \in DOMAIN blocks[BlockOf(blocks, id)].insts :
            blocks[BlockOf(blocks, id)].insts[i].id = id
InstOf(blocks, id) == blocks[BlockOf(blocks, id)].insts[PlaceOf(blocks, id)]

\* The 'if' that is open gets its other block, and the builder goes there.
begin_else(b) ==
  LET region == Last(b.open)[1]
      made == Len(b.blocks) + 1
  IN  [b EXCEPT
        !.blocks = Append(
          [@ EXCEPT ![BlockOf(@, region)].insts[PlaceOf(@, region)].c = made],
          Block(region)),
        !.block = made]

end(b) == [b EXCEPT !.block = Last(b.open)[2], !.open = Front(@)]

\* A slot, and the two instructions that write zero in one, go to the entry
\* of the function, wherever they were asked for: a slot after the last one,
\* the zero after the slot it is for.
move_after(b, op, a, x, after) ==
  LET at == IF after = 0 THEN 1 ELSE PlaceOf(b.blocks, after) + 1
  IN  [b EXCEPT
        !.blocks[1].insts = InsertAt(@, at, Inst(b.next, op, a, x, 0, 0)),
        !.next = @ + 1]

entry_slot(b) ==
  [move_after(b, "slot", 0, 0, b.last_entry_slot)
     EXCEPT !.last_entry_slot = b.next]

entry_flag(b) ==
  LET slot == b.next
      zero == slot + 1
      held == move_after(entry_slot(b), "const", 0, 0, slot)
  IN  move_after(held, "store", zero, slot, zero)

-----------------------------------------------------------------------------
(***************************************************************************)
(* A structured function made a graph of blocks                            *)
(* (ir/ir_flattener.cpp): every region becomes blocks, a 'break' a jump to *)
(* the block after its region and a 'continue' one to the block its loop   *)
(* starts with.  A block nothing reaches and nothing was written in leaves *)
(* the order; every other instruction is copied where it was.              *)
(***************************************************************************)

\* What flatten keeps: the blocks it wrote, the order they are read in, the
\* regions it is inside of, how many jumps name each block, the loop it is
\* in and the block being written.
NoFlat == [blocks |-> <<>>, order |-> <<>>, frames |-> <<>>,
           jumps_to |-> <<>>, loop |-> 0, current |-> 0, next |-> 0]

Frame(region, after, top) == [region |-> region, after |-> after, top |-> top]

make_block(s) ==
  [s EXCEPT
    !.blocks = Append(@, [insts |-> <<>>, header |-> FALSE, loop |-> s.loop,
                          outer |-> 0]),
    !.jumps_to = Append(@, 0)]
Made(s) == Len(s.blocks)

Current(s) == s.blocks[s.current]
Unreached(s) == /\ Current(s).insts = <<>>
                /\ s.jumps_to[s.current] = 0

\* The block being written is closed: out of the order when it is empty and
\* no jump names it, the first one aside.
close(s) ==
  IF s.current # 0 /\ Len(s.order) > 1 /\ Unreached(s)
  THEN [s EXCEPT !.order = Front(@)]
  ELSE s

place(s, block) ==
  LET c == close(s)
  IN  [c EXCEPT
        !.blocks[block].loop = IF c.blocks[block].header THEN block
                               ELSE c.loop,
        !.order = Append(@, block),
        !.current = block]

append(s, inst) == [s EXCEPT !.blocks[s.current].insts = Append(@, inst)]

\* A jump is an instruction of the graph alone: it has a number of its own.
jump(s, target) ==
  [append(s, Inst(s.next, "br", 0, 0, 0, target))
     EXCEPT !.jumps_to[target] = @ + 1, !.next = @ + 1]

branch(s, condition, chosen, otherwise) ==
  LET jumps == [s.jumps_to EXCEPT ![chosen] = @ + 1]
  IN  [append(s, Inst(s.next, "cond_br", condition, otherwise, 0, chosen))
         EXCEPT !.jumps_to = [jumps EXCEPT ![otherwise] = @ + 1],
                !.next = @ + 1]

\* Whether the block being written goes on to what follows it.
falls(s) ==
  /\ ~Ended(Current(s).insts)
  /\ ~(Unreached(s) /\ s.current # 1)

JumpIfFalls(s, target) == IF falls(s) THEN jump(s, target) ELSE s

\* (mutant: the innermost region, whichever one was named)
InnermostFrame(s, region) == Last(s.frames)

frame_of(s, region) ==
  s.frames[CHOOSE i \in DOMAIN s.frames : s.frames[i].region = region]

push(s, frame) == [s EXCEPT !.frames = Append(@, frame)]
pop(s) == [s EXCEPT !.frames = Front(@)]

RECURSIVE flatten_block(_, _, _), FlattenInsts(_, _, _)

flatten_block(s, in, block) == FlattenInsts(s, in, in[block].insts)

FlattenBlockRegion(s, in, inst) ==
  LET made  == make_block(s)
      frame == Frame(inst.id, Made(made), 0)
      body  == flatten_block(push(made, frame), in, inst.extra)
  IN  place(pop(JumpIfFalls(body, frame.after)), frame.after)

FlattenIf(s, in, inst) ==
  LET chosen    == Len(s.blocks) + 1
      otherwise == IF inst.c # 0 THEN chosen + 1 ELSE 0
      after     == IF inst.c # 0 THEN chosen + 2 ELSE chosen + 1
      made  == IF inst.c # 0 THEN make_block(make_block(make_block(s)))
               ELSE make_block(make_block(s))
      into  == push(branch(made, inst.a, chosen,
                           IF otherwise # 0 THEN otherwise ELSE after),
                    Frame(inst.id, after, 0))
      one   == JumpIfFalls(flatten_block(place(into, chosen), in, inst.extra),
                           after)
      both  == IF otherwise = 0 THEN one
               ELSE JumpIfFalls(
                      flatten_block(place(one, otherwise), in, inst.c), after)
  IN  place(pop(both), after)

FlattenLoop(s, in, inst) ==
  LET top   == Len(s.blocks) + 1
      frame == Frame(inst.id, top + 1, top)
      made  == make_block(make_block(s))
      head  == jump([made EXCEPT !.blocks[top].header = TRUE,
                                 !.blocks[top].loop = top,
                                 !.blocks[top].outer = s.loop], top)
      body  == flatten_block(
                 place([push(head, frame) EXCEPT !.loop = top], top),
                 in, inst.extra)
      round == JumpIfFalls(body, frame.top)
  IN  place([pop(round) EXCEPT !.loop = s.loop], frame.after)

FlattenInst(s, in, inst) ==
  CASE inst.op = "block"    -> FlattenBlockRegion(s, in, inst)
    [] inst.op = "if"       -> FlattenIf(s, in, inst)
    [] inst.op = "loop"     -> FlattenLoop(s, in, inst)
    [] inst.op = "break"    -> jump(s, frame_of(s, inst.a).after)
    [] inst.op = "continue" -> jump(s, frame_of(s, inst.a).top)
    [] OTHER                -> append(s, inst)

\* One instruction after another, in the block being written.
FlattenInsts(s, in, insts) ==
  IF s.current = 0 \/ insts = <<>> THEN s
  ELSE FlattenInsts(FlattenInst(s, in, Head(insts)), in, Tail(insts))

flatten(b) ==
  LET s == place(make_block([NoFlat EXCEPT !.next = b.next]), 1)
  IN  close(flatten_block(s, b.blocks, 1))

-----------------------------------------------------------------------------
(***************************************************************************)
(* What a function has to be before and after it is flattened              *)
(* (ir/ir_verifier.cpp): where a terminator may be, which regions a jump   *)
(* may name, and which values an instruction may read.  The types of the   *)
(* operands are left out with the types.                                   *)
(***************************************************************************)

\* The values an instruction reads, its function's parameters aside.
Reads(inst) ==
  (CASE inst.op \in {"load", "not", "is", "make", "drop", "if", "cond_br",
                     "ret"}                   -> {inst.a}
     [] inst.op \in {"store", "or", "copy"}   -> {inst.a, inst.b}
     [] OTHER                                 -> {}) \ {0}

\* What the instructions of a block before one of them give.
comes_before(blocks, k, i) == {blocks[k].insts[j].id : j \in 1 .. i - 1}
AllOf(blocks, k) == comes_before(blocks, k, Len(blocks[k].insts) + 1)

\* The regions a block is inside of, from the inside out.
RECURSIVE Around(_, _)
Around(blocks, k) ==
  LET region == blocks[k].region
  IN  IF region = 0 THEN <<>>
      ELSE <<region>> \o Around(blocks, BlockOf(blocks, region))

\* The structured form's scope rule: a value is seen after its definition,
\* in its block and in every region inside it.
IsVisibleStructured(blocks, k) ==
  UNION {comes_before(blocks, BlockOf(blocks, region), PlaceOf(blocks, region)) :
           region \in ToSet(Around(blocks, k))}

\* A 'break' leaves a region around it, a 'continue' a loop around it.
verify_jump(blocks, k, inst) ==
  /\ inst.a \in ToSet(Around(blocks, k))
  /\ inst.op = "continue" => InstOf(blocks, inst.a).op = "loop"

\* A return gives a value back when its function gives one, and only then.
verify_ret(inst, gives) == inst.op = "ret" => (inst.a # 0 <=> gives)

verify_structured(b, gives) ==
  \A k \in DOMAIN b.blocks :
    LET insts == b.blocks[k].insts
        seen  == IsVisibleStructured(b.blocks, k)
    IN  \A i \in DOMAIN insts :
          /\ insts[i].op \notin {"br", "cond_br"}
          /\ insts[i].op \in Terminators => i = Len(insts)
          /\ insts[i].op \in {"break", "continue"} =>
               verify_jump(b.blocks, k, insts[i])
          /\ verify_ret(insts[i], gives)
          /\ Reads(insts[i]) \subseteq seen \cup comes_before(b.blocks, k, i)

----------------------------------------------------------------------------
\* The graph.

successors(f, k) ==
  LET insts == f.blocks[k].insts
  IN  IF insts = <<>> THEN {}
      ELSE CASE Last(insts).op = "br"      -> {Last(insts).extra}
             [] Last(insts).op = "cond_br" -> {Last(insts).extra,
                                               Last(insts).b}
             [] OTHER                      -> {}

\* What is known of each block: where it is come to from, and what dominates
\* it.
Known(f) ==
  [k \in ToSet(f.order) |->
     [predecessors |-> {p \in ToSet(f.order) : k \in successors(f, p)},
      dominators   |-> IF k = f.order[1] THEN {k} ELSE ToSet(f.order)]]

\* The textbook iteration, to its fixpoint: the entry is dominated by
\* itself, every other block by itself and what dominates all of its
\* predecessors.
RECURSIVE Dominators(_, _)
Dominators(entry, known) ==
  LET above(k) == {d \in DOMAIN known :
                     \A p \in known[k].predecessors :
                        d \in known[p].dominators}
      next == [k \in DOMAIN known |->
                 [known[k] EXCEPT
                    !.dominators = IF k = entry THEN {k}
                                   ELSE {k} \cup above(k)]]
  IN  IF next = known THEN known ELSE Dominators(entry, next)

compute_dominators(f) == Dominators(f.order[1], Known(f))

\* In the graph a value is seen after its definition in its block, and in
\* every block its own dominates.
IsVisibleCfg(f, known, k) ==
  UNION {AllOf(f.blocks, d) : d \in known[k].dominators \ {k}}

verify_cfg(f, known, gives) ==
  \A k \in ToSet(f.order) :
    LET insts == f.blocks[k].insts
        seen  == IsVisibleCfg(f, known, k)
    IN  /\ insts # <<>>
        /\ Last(insts).op \in Terminators
        /\ successors(f, k) \subseteq ToSet(f.order) \ {f.order[1]}
        /\ \A i \in DOMAIN insts :
             /\ insts[i].op \notin Regions \cup {"break", "continue"}
             /\ insts[i].op \in Terminators => i = Len(insts)
             /\ verify_ret(insts[i], gives)
             /\ Reads(insts[i]) \subseteq seen \cup comes_before(f.blocks, k, i)
=============================================================================
