------------------------------- MODULE Assembler -------------------------------
(***************************************************************************)
(* From basic blocks to bytecode (src/src/compiler/lstf-ir-program.c).     *)
(* First every function is analyzed: its empty blocks go, and each block   *)
(* learns how many variables die with it.  Then its blocks are written one *)
(* after the other, in the order of a walk from the first one, and each    *)
(* instruction gets the place on the stack where its value will be.        *)
(*                                                                         *)
(* The bytecode of a program is one sequence; a function is known by where *)
(* it starts.  The assembler adds to the value of the code generator       *)
(*   code    the bytecode instructions;                                    *)
(*   start   where each function starts;                                   *)
(*   offset  the place in the frame that each instruction was given;       *)
(*   label   the bytecode that a jump to each block leads to;              *)
(*   done    the blocks that were written.                                 *)
(* A bytecode instruction keeps the height that the assembler believed the *)
(* frame to have before it (Unknown at what frees variables): no bytecode  *)
(* holds it, and the properties compare it with the machine.               *)
(***************************************************************************)
EXTENDS CodeGenerator

LOCAL SX == INSTANCE SequencesExt
LOCAL FX == INSTANCE FiniteSetsExt

Unknown == -1
Bytecode(op, n, height) ==
    [op |-> op, n |-> n, value |-> Null, captures |-> <<>>, height |-> height]

---------------------------------------------------------------------------
(***************************************************************************)
(* The analysis of the control flow.                                       *)
(***************************************************************************)
Blocks(fn) == <<fn.entry, fn.exit>> \o fn.blocks
BlocksOf(fn) == SX!ToSet(Blocks(fn))
Successors(g, b) == SX!ToSet(g.bbs[b].succ) \ {0}
Predecessors(g, fn, b) == {p \in BlocksOf(fn) : b \in Successors(g, p)}

\* An empty block is bypassed: whatever led to it leads to what follows it.
Bypass(g, fn, empty) ==
    LET next == FX!Min(Successors(g, empty))
        Redirect(pair) == [i \in 1..2 |-> IF pair[i] = empty THEN next ELSE pair[i]]
        preds == Predecessors(g, fn, empty)
        branches == {SX!Last(g.bbs[p].insts) : p \in {q \in preds : g.bbs[q].insts # <<>>}}
    IN  IF Successors(g, empty) = {} THEN g
        ELSE [g EXCEPT !.bbs = [b \in DOMAIN @ |->
                            CASE b \in preds -> [@[b] EXCEPT !.succ = Redirect(@)]
                              [] b = empty   -> [@[b] EXCEPT !.succ = <<0, 0>>]
                              [] OTHER       -> @[b]],
                       !.insts = [i \in DOMAIN @ |->
                            IF i \in branches THEN [@[i] EXCEPT !.targets = Redirect(@)] ELSE @[i]]]

IsEmpty(g, fn, b) == g.bbs[b].insts = <<>> /\ b \notin {fn.entry, fn.exit}

\* lstf_ir_program_analysis_simplify_cfg()
SimplifyCfg(g, f) ==
    LET fn == g.fns[f]
        Dropped(h, b) == IF IsEmpty(h, fn, b) THEN Bypass(h, fn, b) ELSE h
        simple == SX!FoldLeft(Dropped, g, fn.blocks)
    IN  [simple EXCEPT !.fns[f].blocks = SelectSeq(@, LAMBDA b : ~IsEmpty(g, fn, b))]

\* The variables with an initializer that a block sets up.
Allocations(g, b) ==
    {i \in SX!ToSet(g.bbs[b].insts) : g.insts[i].op = "alloc" /\ g.insts[i].args # <<>>}

\* Which of them are there on every way to a block, and after it.
AliveBefore(g, fn, out, b) ==
    LET preds == Predecessors(g, fn, b)
    IN  IF preds = {} THEN {} ELSE {i \in UNION {out[p] : p \in preds} : \A p \in preds : i \in out[p]}

RECURSIVE AliveAfter(_, _, _)
AliveAfter(g, fn, out) ==
    LET next == [b \in DOMAIN out |-> AliveBefore(g, fn, out, b) \cup Allocations(g, b)]
    IN  IF next = out THEN out ELSE AliveAfter(g, fn, next)

\* lstf_ir_program_analysis_stack_pop_points(): a variable dies at the end of
\* a block when it is not alive before any block that may follow.
StackPopPoints(g, f) ==
    LET fn == g.fns[f]
        blocks == BlocksOf(fn) \ {fn.exit}
        out == AliveAfter(g, fn, [b \in blocks |-> {}])
        follow(b) == Successors(g, b) \ {fn.exit}
        killed(b) == Cardinality(out[b] \ UNION {AliveBefore(g, fn, out, n) : n \in follow(b)})
    IN  IF \E b \in blocks : follow(b) \ blocks # {} THEN Stopped(g, "null pointer")
        ELSE [g EXCEPT !.bbs = [b \in DOMAIN @ |->
                  IF b \in blocks THEN [@[b] EXCEPT !.killed = killed(b)] ELSE @[b]]]

\* lstf_ir_program_analyze()
AnalyzeFlow(g) ==
    LET One(h, f) == IF h.stopped # "" \/ h.fns[f].vm # "" THEN h ELSE StackPopPoints(SimplifyCfg(h, f), f)
    IN  SX!FoldLeft(One, g, [f \in DOMAIN g.fns |-> f])

---------------------------------------------------------------------------
(***************************************************************************)
(* What an instruction takes off the stack and leaves on it.               *)
(***************************************************************************)
Takes(inst) ==
    CASE inst.op \in {"binary", "getelement", "append"} -> 2
      [] inst.op = "setelement" -> 3
      [] inst.op \in {"unary", "store", "setupvalue", "assert"} -> 1
      [] inst.op \in {"call", "calli", "schedule", "schedulei", "branch"} -> Len(inst.args)
      [] OTHER -> 0

\* Mutant: every call is taken to yield a result.
LeavesAlways(g, inst) ==
    CASE inst.op \in {"load", "load function", "constant", "closure", "getupvalue", "getelement",
                      "binary", "unary", "call", "calli", "schedule", "schedulei"} -> 1
      [] inst.op = "alloc" /\ inst.args = <<>> -> 1
      [] OTHER -> 0

Leaves(g, inst) ==
    CASE inst.op \in {"load", "load function", "constant", "closure", "getupvalue", "getelement",
                      "binary", "unary"} -> 1
      [] inst.op = "alloc" -> IF inst.args = <<>> THEN 1 ELSE 0
      [] inst.op \in {"call", "schedule"} -> IF g.fns[inst.n].result THEN 1 ELSE 0
      [] inst.op \in {"calli", "schedulei"} -> inst.n
      [] OTHER -> 0

\* Where the value of each instruction is; 0 of one that was not written yet.
OffsetOf(g, i) == IF i \in DOMAIN g.offset THEN g.offset[i] ELSE 0

OffsetAfter(g, inst, height) ==
    IF inst.op = "alloc" /\ inst.args # <<>> THEN OffsetOf(g, inst.args[1])
    ELSE height - Takes(inst)

\* What the assembler asserts before it writes an instruction.
Consistent(g, inst, height) ==
    CASE inst.op = "phi"   -> \A i \in DOMAIN inst.args : OffsetOf(g, inst.args[i]) = height
      [] inst.op = "alloc" -> inst.args # <<>> => OffsetOf(g, inst.args[1]) + 1 = height
      [] inst.op = "store" -> OffsetOf(g, inst.args[1]) = height - 1
      [] inst.op = "load function" -> g.fns[inst.n].vm = ""
      [] OTHER -> TRUE

\* The bytecode of an instruction: none for those that only name a value.
Encoded(g, inst, height) ==
    LET B(op, n) == <<Bytecode(op, n, height)>>
        captured == [i \in DOMAIN inst.captures |->
                        IF inst.captures[i].local
                        THEN [inst.captures[i] EXCEPT !.index = OffsetOf(g, @)] ELSE inst.captures[i]]
    IN  CASE inst.op \in {"phi", "alloc"} -> <<>>
          [] inst.op = "load"       -> B("load", OffsetOf(g, inst.args[1]))
          [] inst.op = "store"      -> B("store", OffsetOf(g, inst.args[2]))
          [] inst.op = "constant"   -> <<[Bytecode("constant", 0, height) EXCEPT !.value = inst.value]>>
          [] inst.op \in {"binary", "unary"} -> B(inst.s, 0)
          [] inst.op = "call" -> IF g.fns[inst.n].vm # "" THEN B(g.fns[inst.n].vm, 0)
                                 ELSE B("call", inst.n)
          [] inst.op = "branch"     -> IF inst.args = <<>> THEN B("jump", inst.targets[1])
                                       ELSE B("else", inst.targets[2])
          [] inst.op = "closure"    -> <<[Bytecode("closure", inst.n, height) EXCEPT
                                              !.captures = captured]>>
          [] inst.op = "getelement" -> B("get", 0)
          [] inst.op = "setelement" -> B("set", 0)
          [] inst.op = "setupvalue" -> B("upset", inst.n)
          [] inst.op = "return" -> <<Bytecode("return", 0, IF inst.args = <<>> THEN Unknown ELSE height)>>
          [] inst.op = "getupvalue" -> B("upget", inst.n)
          [] OTHER -> B(inst.op, inst.n)

---------------------------------------------------------------------------
(***************************************************************************)
(* Writing the blocks.                                                     *)
(***************************************************************************)
\* Variables that die are popped before the block is left.  The pops are no
\* instructions of the block, so they get no label, and the height stays.
Deallocate(g, b) ==
    [g EXCEPT !.code = @ \o [i \in 1..g.bbs[b].killed |-> Bytecode("pop", 0, Unknown)],
              !.bbs[b].killed = 0]

LeavesBlock(inst) == inst.op = "branch" \/ (inst.op = "return" /\ inst.args = <<>>)

\* One instruction of a block: the first bytecode it gives is its label.
Serialize(before, b, i, height) ==
    LET inst == before.insts[i]
        g == IF LeavesBlock(inst) THEN Deallocate(before, b) ELSE before
        written == Encoded(g, inst, height)
    IN  CASE ~Consistent(g, inst, height) -> Stopped(g, "assertion")
          [] inst.op = "schedule" /\ g.fns[inst.n].vm # "" -> Stopped(g, "null pointer")
          [] OTHER -> [g EXCEPT !.code = @ \o written,
                       !.offset = (i :> OffsetAfter(g, inst, height)) @@ @,
                       !.label = IF written # <<>> /\ b \notin DOMAIN @
                                 THEN (b :> Len(g.code) + 1) @@ @ ELSE @]

RECURSIVE SerializeAll(_, _, _, _), SerializeBlock(_, _, _, _)
\* The instructions of a block, and then what follows it.
SerializeAll(g, b, insts, place) ==
    LET i == Head(insts)
        inst == g.insts[i]
    IN  CASE g.stopped # "" -> g
          [] g.stopped = "" /\ insts # <<>> ->
                SerializeAll(Serialize(g, b, i, place.height), b, Tail(insts),
                             [place EXCEPT !.height = @ - Takes(inst) + Leaves(g, inst)])
          [] OTHER ->
                LET freed == Deallocate(g, b)
                    next == g.bbs[b].succ[1]
                    falls == next \in g.done /\ g.insts[SX!Last(g.bbs[b].insts)].op # "branch"
                    left == IF ~falls THEN freed
                            ELSE [freed EXCEPT !.code = Append(@, Bytecode("jump", next, place.height))]
                    first == SerializeBlock([left EXCEPT !.done = @ \cup {b}], place.fn, next, place.height)
                IN  SerializeBlock(first, place.fn, g.bbs[b].succ[2], place.height)

\* lstf_ir_program_serialize_basic_block()
SerializeBlock(g, f, b, height) ==
    CASE g.stopped # "" \/ b = 0 \/ b \in g.done \/ b = g.fns[f].exit -> g
      [] g.stopped = "" /\ b # 0 /\ b \notin g.done /\ b # g.fns[f].exit /\ g.bbs[b].insts = <<>> ->
            Stopped(g, "assertion")
      [] OTHER -> SerializeAll(g, b, g.bbs[b].insts, [fn |-> f, height |-> height])

\* lstf_ir_program_serialize_function()
SerializeFunction(g, f) ==
    LET params == [g EXCEPT !.code = Append(@, Bytecode("params", g.fns[f].params, Unknown)),
                            !.start = (f :> Len(g.code) + 1) @@ @]
    IN  IF g.stopped # "" \/ g.fns[f].vm # "" THEN g
        ELSE SerializeBlock(params, f, g.bbs[g.fns[f].entry].succ[1], 0)

\* Jumps to blocks that come later are resolved when these are written.
ResolveJumps(g) ==
    LET jumps == {i \in DOMAIN g.code : g.code[i].op \in {"else", "jump"}}
    IN  IF \E i \in jumps : g.code[i].n \notin DOMAIN g.label THEN Stopped(g, "null pointer")
        ELSE [g EXCEPT !.code = [i \in DOMAIN @ |->
                  IF i \in jumps THEN [@[i] EXCEPT !.n = g.label[@]] ELSE @[i]]]

\* lstf_ir_program_assemble()
Assemble(generated) ==
    LET extra == {"code", "start", "offset", "label", "done"}
        g == AnalyzeFlow([n \in DOMAIN generated \cup extra |->
                             CASE n \in DOMAIN generated -> generated[n]
                               [] n = "done" -> {}
                               [] n \in extra \ {"done"} -> <<>>])
        all == SX!FoldLeft(SerializeFunction, g, [f \in DOMAIN g.fns |-> f])
    IN  IF all.stopped # "" THEN all ELSE ResolveJumps(all)
==============================================================================
