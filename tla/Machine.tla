-------------------------------- MODULE Machine --------------------------------
(***************************************************************************)
(* The instructions of the virtual machine                                 *)
(* (src/src/vm/lstf-virtualmachine.c) on one stack of frames               *)
(* (src/src/vm/lstf-vm-stack.c), for programs of one coroutine: what is    *)
(* scheduled or awaits an answer is the matter of module VMScheduler, and  *)
(* who keeps an up-value alive that of module Closures.                    *)
(*                                                                         *)
(* A machine is a record:                                                  *)
(*   stack     slots [value, captured];                                    *)
(*   frames    [base, params, ret, closure, tracked]: the number of slots  *)
(*             below the frame, the parameters it copied, where to go on   *)
(*             (0: nowhere), the closure it runs (0: none), and the        *)
(*             up-value made for each slot of it that was captured;        *)
(*   upvalues  [open, at, value]: in its slot, or on its own;              *)
(*   closures  [fn, upvalues];                                             *)
(*   heap      the arrays and objects: a value refers to one by n;         *)
(*   out       what was printed;                                           *)
(*   pc        the next instruction;                                       *)
(*   status    "continue", "exited", or why it stopped.                    *)
(* Integers do not wrap around and doubles are carried, not computed with; *)
(* shifts and bitwise operations are not performed ("not modelled").       *)
(***************************************************************************)
EXTENDS Assembler

LOCAL SX == INSTANCE SequencesExt

Frame(base, ret, closure) ==
    [base |-> base, params |-> 0, ret |-> ret, closure |-> closure, tracked |-> <<>>]
Slot(v) == [value |-> v, captured |-> FALSE]

StartMachine(entry) ==
    [stack |-> <<>>, frames |-> <<Frame(0, 0, 0)>>, upvalues |-> <<>>, closures |-> <<>>,
     heap |-> <<>>, out |-> <<>>, pc |-> entry, status |-> "continue"]

Fail(m, status) == [m EXCEPT !.status = status]
Going(m)     == m.status = "continue"
TopFrame(m)  == SX!Last(m.frames)
Height(m)    == Len(m.stack) - TopFrame(m).base
TopValue(m)  == IF m.stack = <<>> THEN Null ELSE SX!Last(m.stack).value
Push(m, v)   == [m EXCEPT !.stack = Append(@, Slot(v))]

\* The slot at an offset from the start of the frame; arguments are below it.
SlotAt(m, offset) == TopFrame(m).base + offset + 1
InStack(m, offset) == SlotAt(m, offset) \in DOMAIN m.stack

\* Mutant: the variable stays in its slot although the slot goes.
UpliftKeepsOpen(m) == m

\* lstf_vm_stack_pop_value(): a variable that a closure captured moves into
\* its up-value.  The value that is popped is the one on top before.
Uplift(m) ==
    LET at == Len(m.stack)
        tracked == TopFrame(m).tracked
    IN  CASE ~SX!Last(m.stack).captured -> m
          [] SX!Last(m.stack).captured /\ at \notin DOMAIN tracked -> Fail(m, "assertion")
          [] OTHER -> [m EXCEPT !.upvalues[tracked[at]] = [open |-> FALSE, at |-> 0, value |-> TopValue(m)]]

Pop(m) ==
    CASE ~Going(m) -> m
      [] Going(m) /\ m.stack = <<>> -> Fail(m, "invalid stack offset")
      [] Going(m) /\ m.stack # <<>> /\ Height(m) < 1 -> Fail(m, "frame underflow")
      [] OTHER -> [Uplift(m) EXCEPT !.stack = SX!Front(@)]

RECURSIVE PopMany(_, _)
PopMany(m, n) == IF n = 0 THEN m ELSE PopMany(Pop(m), n - 1)

\* lstf_vm_stack_pop_typed_value(): a value of another class stays.
PopTyped(m, kinds) ==
    IF Going(m) /\ m.stack # <<>> /\ Height(m) >= 1 /\ TopValue(m).k \notin kinds
    THEN Fail(m, "invalid operand type") ELSE Pop(m)

---------------------------------------------------------------------------
(***************************************************************************)
(* The instructions.  Each is given the machine with pc already past it.   *)
(***************************************************************************)
Load(m, offset) ==
    IF InStack(m, offset) THEN Push(m, m.stack[SlotAt(m, offset)].value)
    ELSE Fail(m, "invalid stack offset")

\* The scanner of JSON has no buffer before the first character of a token:
\* the text of an empty string that comes first is a null pointer.
LoadConstant(m, v) ==
    LET a == Allocate(m.heap, v)
    IN  IF v = Text("") THEN Fail(m, "assertion") ELSE Push([m EXCEPT !.heap = a.heap], a.value)

\* A slot that is captured cannot be overwritten.
SetSlot(m, at, v) ==
    CASE ~Going(m) -> m
      [] Going(m) /\ at \notin DOMAIN m.stack -> Fail(m, "invalid stack offset")
      [] Going(m) /\ at \in DOMAIN m.stack /\ m.stack[at].captured -> Fail(m, "assertion")
      [] OTHER -> [m EXCEPT !.stack[at] = Slot(v)]
Store(m, offset) == LET p == Pop(m) IN SetSlot(p, SlotAt(p, offset), TopValue(m))

Get(m) ==
    LET p == Pop(m)
        index == TopValue(m)
        q == PopTyped(p, Aggregates)
        held == m.heap[TopValue(p).n]
    IN  IF ~Going(q) THEN q
        ELSE CASE TopValue(p).k = "object" /\ index.k = "string" ->
                    IF Member(held, index.s) = 0 THEN Fail(q, "invalid member access")
                    ELSE Push(q, held.kids[Member(held, index.s)].kids[1])
               [] TopValue(p).k = "array" /\ index.k = "int" ->
                    IF index.n + 1 \notin DOMAIN held.kids THEN Fail(q, "invalid member access")
                    ELSE Push(q, held.kids[index.n + 1])
               [] OTHER -> Fail(q, "invalid operand type")

\* A pattern cannot be part of what is none.
Storable(v) == v.k \notin Functions /\ ~IsPattern(v)

Set(m) ==
    LET p == Pop(m)
        q == Pop(p)
        r == PopTyped(q, Aggregates)
        v == TopValue(m)
        index == TopValue(p)
        at == TopValue(q).n
    IN  IF ~Going(r) THEN r
        ELSE CASE v.k \in Functions -> Fail(r, "not modelled")
               [] IsPattern(v) -> Fail(r, "assertion")
               [] Storable(v) /\ TopValue(q).k = "object" /\ index.k = "string" ->
                    [r EXCEPT !.heap[at] = SetMember(@, index.s, v)]
               [] Storable(v) /\ TopValue(q).k = "array" /\ index.k = "int" ->
                    IF index.n + 1 \notin DOMAIN m.heap[at].kids THEN Fail(r, "index out of bounds")
                    ELSE [r EXCEPT !.heap[at].kids[index.n + 1] = v]
               [] OTHER -> Fail(r, "invalid operand type")

AppendTo(m) ==
    LET p == Pop(m)
        q == PopTyped(p, {"array"})
    IN  CASE ~Going(q) -> q
          [] Going(q) /\ TopValue(m).k \in Functions -> Fail(q, "not modelled")
          [] Going(q) /\ IsPattern(TopValue(m)) -> Fail(q, "assertion")
          [] OTHER -> [q EXCEPT !.heap[TopValue(p).n].kids = Append(@, TopValue(m))]

\* A function starts by copying its arguments; main is called by nobody.
Params(m, n) ==
    LET arguments == [i \in 1..n |-> Slot(m.stack[SlotAt(m, i - 1 - n)].value)]
        top == Len(m.frames)
    IN  CASE TopFrame(m).params > 0 -> Fail(m, "invalid params")
          [] TopFrame(m).params = 0 /\ TopFrame(m).ret = 0 -> [m EXCEPT !.frames[top].params = n]
          [] TopFrame(m).params = 0 /\ TopFrame(m).ret # 0 /\ TopFrame(m).base < n ->
                Fail(m, "invalid stack offset")
          [] OTHER -> [m EXCEPT !.stack = @ \o arguments, !.frames[top].params = n]

Call(m, entry, closure) ==
    [m EXCEPT !.frames = Append(@, Frame(Len(m.stack), m.pc, closure)), !.pc = entry]
Calli(m, start) ==
    LET v == TopValue(m)
        p == PopTyped(m, {"code", "closure"})
    IN  CASE ~Going(p) -> p
          [] Going(p) /\ v.k = "code" -> Call(p, start[v.n], 0)
          [] OTHER -> Call(p, start[m.closures[v.n].fn], v.n)

\* Mutant: only the copies of the arguments go.
ReturnKeepsArguments(m) ==
    LET result == Height(m) > TopFrame(m).params
        freed == PopMany(m, IF result THEN Height(m) ELSE TopFrame(m).params)
        left == [freed EXCEPT !.frames = SX!Front(@), !.pc = TopFrame(m).ret]
    IN  CASE ~Going(freed) -> freed
          [] Going(freed) /\ TopFrame(m).ret = 0 -> Fail(left, "exited")
          [] OTHER -> IF result THEN Push(left, TopValue(m)) ELSE left

\* lstf_vm_stack_teardown_frame(): what lies above the parameters is the
\* result if anything does.  The copies of the arguments go with the frame,
\* and the arguments themselves with the call.
Return(m) ==
    LET params == TopFrame(m).params
        result == Height(m) > params
        freed == PopMany(m, IF result THEN Height(m) ELSE params)
        left == [freed EXCEPT !.frames = SX!Front(@), !.pc = TopFrame(m).ret]
        popped == PopMany(left, params)
    IN  CASE ~Going(freed) -> freed
          [] Going(freed) /\ TopFrame(m).ret = 0 -> Fail(left, "exited")
          [] OTHER -> IF Going(popped) /\ result THEN Push(popped, TopValue(m)) ELSE popped

\* Only the first up-value of the instruction was copied into it.
Copied(captures) ==
    [i \in DOMAIN captures |-> IF i = 1 THEN captures[1] ELSE [local |-> FALSE, index |-> 0]]

\* A variable that another closure captured has an up-value already.
RECURSIVE CaptureAll(_, _)
CaptureAll(m, captures) ==
    LET c == Head(captures)
        at == SlotAt(m, c.index)
        top == TopFrame(m)
        known == at \in DOMAIN top.tracked
        id == IF known THEN top.tracked[at] ELSE Len(m.upvalues) + 1
        made == IF known THEN m
                ELSE [m EXCEPT !.upvalues = Append(@, [open |-> TRUE, at |-> at, value |-> Null])]
        inner == IF top.closure = 0 THEN <<>> ELSE m.closures[top.closure].upvalues
    IN  CASE captures = <<>> \/ ~Going(m) -> [m |-> m, ids |-> <<>>]
          [] captures # <<>> /\ Going(m) /\ c.local /\ InStack(m, c.index) ->
                LET rest == CaptureAll(made, Tail(captures))
                IN  [rest EXCEPT !.ids = <<id>> \o @]
          [] captures # <<>> /\ Going(m) /\ ~c.local /\ c.index + 1 \in DOMAIN inner ->
                LET rest == CaptureAll(m, Tail(captures))
                IN  [rest EXCEPT !.ids = <<inner[c.index + 1]>> \o @]
          [] OTHER -> [m |-> Fail(m, IF c.local THEN "invalid stack offset" ELSE "invalid up-value"),
                       ids |-> <<>>]

\* One that was made and not tracked yet cannot be given up.
Closure(m, fn, written) ==
    LET captures == Copied(written)
        done == CaptureAll(m, captures)
        c == Push([done.m EXCEPT !.closures = Append(@, [fn |-> fn, upvalues |-> done.ids])],
                  Datum("closure", Len(m.closures) + 1, "", <<>>))
        local == {i \in DOMAIN captures : captures[i].local}
        at == {SlotAt(m, captures[i].index) : i \in local}
        id(a) == done.ids[CHOOSE i \in local : SlotAt(m, captures[i].index) = a]
    IN  CASE ~Going(done.m) /\ Len(done.m.upvalues) > Len(m.upvalues) -> Fail(m, "assertion")
          [] ~Going(done.m) /\ Len(done.m.upvalues) = Len(m.upvalues) -> done.m
          [] OTHER -> [c EXCEPT !.stack = [s \in DOMAIN @ |-> IF s \in at THEN [@[s] EXCEPT !.captured = TRUE]
                                                     ELSE @[s]],
                       !.frames[Len(m.frames)].tracked = [a \in at |-> id(a)] @@ @]

\* An up-value of the closure that is running.
HasUpvalue(m, id) ==
    TopFrame(m).closure # 0 /\ id + 1 \in DOMAIN m.closures[TopFrame(m).closure].upvalues
UpvalueOf(m, id) == m.closures[TopFrame(m).closure].upvalues[id + 1]

Upget(m, id) ==
    LET u == m.upvalues[UpvalueOf(m, id)]
    IN  CASE ~HasUpvalue(m, id) -> Fail(m, "invalid up-value")
          [] HasUpvalue(m, id) /\ ~u.open -> Push(m, u.value)
          [] OTHER -> IF u.at \in DOMAIN m.stack THEN Push(m, m.stack[u.at].value)
                      ELSE Fail(m, "invalid stack offset")

Upset(m, id) ==
    LET p == Pop(m)
        u == m.upvalues[UpvalueOf(m, id)]
    IN  CASE ~HasUpvalue(m, id) -> Fail(m, "invalid up-value")
          [] HasUpvalue(m, id) /\ u.open -> SetSlot(p, u.at, TopValue(m))
          [] OTHER -> IF Going(p) THEN [p EXCEPT !.upvalues[UpvalueOf(m, id)].value = TopValue(m)] ELSE p

---------------------------------------------------------------------------
(***************************************************************************)
(* Operators.                                                              *)
(***************************************************************************)
Numbers == {"int", "double"}
ComparisonCodes == {"lessthan", "lessthan_equal", "greaterthan", "greaterthan_equal"}
ArithmeticCodes == {"add", "sub", "mul", "div", "mod", "pow"}

Compare(op, a, b) ==
    CASE op = "lessthan"    -> a < b [] op = "lessthan_equal"    -> a <= b
      [] op = "greaterthan" -> a > b [] op = "greaterthan_equal" -> a >= b

\* The quotient of two integers is rounded towards zero.
Magnitude(n) == IF n < 0 THEN -n ELSE n
Quotient(a, b) ==
    LET q == Magnitude(a) \div Magnitude(b) IN IF (a < 0) = (b < 0) THEN q ELSE -q

Compute(op, a, b) ==
    CASE op = "add" -> a + b [] op = "sub" -> a - b [] op = "mul" -> a * b [] op = "pow" -> a ^ b
      [] op = "div" -> Quotient(a, b) [] op = "mod" -> a - b * Quotient(a, b)

\* Values of different classes are compared only if both are numbers or JSON.
Comparable(a, b) == a.k = b.k \/ {a.k, b.k} \subseteq Numbers \/ {a.k, b.k} \subseteq JsonKinds

\* The remainder is refused only when neither operand is a number.
Refused(op, a, b) ==
    CASE op = "equal" -> ~Comparable(a, b)
      [] op = "mod"   -> {a.k, b.k} \cap Numbers = {}
      [] OTHER        -> ~({a.k, b.k} \subseteq Numbers)
Abstracted(op, a, b) ==
    IF op = "equal" THEN a.k # b.k /\ {a.k, b.k} \subseteq Numbers
    ELSE a.k # "int" \/ b.k # "int" \/ (op = "pow" /\ b.n < 0)

\* The effect is undefined.
ReadsOutside(heap, a, b) ==
    (IsPattern(a) \/ IsPattern(b)) /\ (HasEmptyArray(heap, a) \/ HasEmptyArray(heap, b))

Binary(m, op) ==
    LET p == Pop(m)
        q == Pop(p)
        b == TopValue(m)
        a == TopValue(p)
    IN  IF ~Going(q) THEN q
        ELSE CASE Refused(op, a, b) -> Fail(q, "invalid operand type")
               [] ~Refused(op, a, b) /\ Abstracted(op, a, b) -> Fail(q, "not modelled")
               [] op = "equal" /\ Comparable(a, b) /\ ~Abstracted(op, a, b) ->
                     IF ReadsOutside(m.heap, a, b) THEN Fail(q, "undefined")
                     ELSE Push(q, Truth(Equal(m.heap, a, b)))
               [] op \in {"div", "mod"} /\ ~Abstracted(op, a, b) /\ b.n = 0 -> Fail(q, "division by zero")
               [] op \in ComparisonCodes /\ ~Abstracted(op, a, b) -> Push(q, Truth(Compare(op, a.n, b.n)))
               [] OTHER -> Push(q, Integer(Compute(op, a.n, b.n)))

Logical(m, op) ==
    LET p == PopTyped(m, {"bool"})
        q == PopTyped(p, {"bool"})
        both == {TopValue(m), TopValue(p)}
    IN  IF ~Going(q) THEN q
        ELSE Push(q, Truth(IF op = "land" THEN Truth(FALSE) \notin both ELSE Truth(TRUE) \in both))

IsTrue(v) ==
    CASE v.k = "null"   -> FALSE
      [] v.k \in {"bool", "int"} -> v.n # 0
      [] v.k = "string" -> v.s # ""
      [] OTHER -> TRUE

Not(m) ==
    LET p == PopTyped(m, {"bool"}) IN IF Going(p) THEN Push(p, Truth(TopValue(m) = Truth(FALSE))) ELSE p
Bool(m) ==
    LET p == Pop(m) IN IF Going(p) THEN Push(p, Truth(IsTrue(TopValue(m)))) ELSE p

\* Control goes on when the value is true.
Else(m, target) ==
    LET p == PopTyped(m, {"bool"})
    IN  IF Going(p) /\ TopValue(m) = Truth(FALSE) THEN [p EXCEPT !.pc = target] ELSE p

PrintTop(m) ==
    LET p == Pop(m) IN IF Going(p) THEN [p EXCEPT !.out = Append(@, Deep(m.heap, TopValue(m)))] ELSE p

AssertTop(m) ==
    LET p == PopTyped(m, {"bool"})
    IN  IF Going(p) /\ TopValue(m) = Truth(FALSE) THEN Fail(p, "assertion failed") ELSE p

---------------------------------------------------------------------------
Execute(before, inst, start) ==
    LET m == [before EXCEPT !.pc = @ + 1]
        op == inst.op
    IN  CASE op = "load"     -> Load(m, inst.n)
          [] op = "constant" -> LoadConstant(m, inst.value)
          [] op = "load function" -> Push(m, Datum("code", inst.n, "", <<>>))
          [] op = "store"    -> Store(m, inst.n)
          [] op = "pop"      -> Pop(m)
          [] op = "get"      -> Get(m)
          [] op = "set"      -> Set(m)
          [] op = "append"   -> AppendTo(m)
          [] op = "params"   -> Params(m, inst.n)
          [] op = "call"     -> Call(m, start[inst.n], 0)
          [] op = "calli"    -> Calli(m, start)
          [] op = "return"   -> Return(m)
          [] op = "closure"  -> Closure(m, inst.n, inst.captures)
          [] op = "upget"    -> Upget(m, inst.n)
          [] op = "upset"    -> Upset(m, inst.n)
          [] op = "else"     -> Else(m, inst.n)
          [] op = "jump"     -> [m EXCEPT !.pc = inst.n]
          [] op = "bool"     -> Bool(m)
          [] op = "lnot"     -> Not(m)
          [] op \in {"land", "lor"} -> Logical(m, op)
          [] op \in {"equal"} \cup ComparisonCodes \cup ArithmeticCodes -> Binary(m, op)
          [] op = "print"    -> PrintTop(m)
          [] op = "assert"   -> AssertTop(m)
          [] op \in {"neg", "not", "in"} -> Fail(m, "invalid instruction")
          [] OTHER -> Fail(m, "not modelled")

\* lstf_virtualmachine_run(): fetching past the end of the code is an error.
Turn(m, code, start) ==
    IF m.pc \in DOMAIN code THEN Execute(m, code[m.pc], start) ELSE Fail(m, "invalid code offset")
==============================================================================
