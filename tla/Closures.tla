------------------------------ MODULE Closures -----------------------------
(***************************************************************************)
(* The stacks, closures and up-values of the virtual machine:              *)
(* lstf-vm-stack.c, lstf-vm-value.[ch], lstf-vm-coroutine.c and the        *)
(* instructions of lstf-virtualmachine.c that use them, all of them in     *)
(* src/src/vm.                                                             *)
(*                                                                         *)
(* A closure holds the up-values of the variables it captures.  While the  *)
(* frame of such a variable lives, its up-value is open: it aliases a      *)
(* place of the coroutine's stack.  When the place is popped the up-value  *)
(* is closed: it takes the value along.                                    *)
(*                                                                         *)
(* The program is any sequence of instructions that is well formed in the  *)
(* way compiled code is: it does not pop below its frame, names places     *)
(* that exist, starts a function with its params, and does not use one     *)
(* place for two captured variables.  Values that are no closures are      *)
(* members of Data: JSON values and plain functions.                       *)
(***************************************************************************)
EXTENDS Integers, Sequences, FiniteSets, SequencesExt, Lists

CONSTANTS
    Coroutines, Main,
    Closures, Upvalues,     \* what may be allocated at a time: integers
    Data, None,
    MaxValues, MaxFrames,   \* MAX_VALUES and MAX_FRAMES
    MaxParams, MaxCaptures  \* of a function

ASSUME CoroutinesAssumption == Main \in Coroutines
ASSUME ObjectsAssumption ==
    /\ IsFiniteSet(Coroutines) /\ IsFiniteSet(Closures) /\ IsFiniteSet(Upvalues)
    /\ Closures \cup Upvalues \cup Data \subseteq Nat
    /\ Closures \cap Upvalues = {}
    /\ Data \cap (Closures \cup Upvalues) = {}
    /\ None \notin Closures \cup Upvalues
ASSUME LimitsAssumption ==
    /\ {MaxValues, MaxFrames} \subseteq Nat \ {0, 1}
    /\ {MaxParams, MaxCaptures} \subseteq Nat

Value == Data \cup Closures

\* what is allocated: a closure, an up-value that aliases the place at of a stack, one that has its value
Closure     == [refs : Nat, upvalues : Seq(Upvalues)]
OpenUpvalue == [open : {TRUE}, refs : Nat, cr : Coroutines, at : Nat]
BoxedValue  == [open : {FALSE}, refs : Nat, v : Value]
ASSUME NoneAssumption == None \notin Closure \cup OpenUpvalue \cup BoxedValue

VARIABLES
    values,     \* the value stack of each coroutine
    frames,     \* its stack of frames
    upvalues, closures,     \* the heap: None where nothing is allocated
    status,     \* vm->last_status, or the assertion that aborted the program
    run_queue, created, freed,  \* coroutines
    variable,   \* the value of the variable that an up-value stands for
    kept        \* references to a closure that no one will drop

machineVars == <<values, frames, upvalues, closures, status, variable, kept>>
vars == <<machineVars, run_queue, created, freed>>

Init ==
    /\ values = [c \in Coroutines |-> <<>>]
    /\ frames = [c \in Coroutines |-> IF c = Main
                     THEN <<[offset |-> 0, parameters |-> 0, due |-> 0, returns |-> FALSE,
                             closure |-> None, tracked |-> <<>>]>>
                     ELSE <<>>]
    /\ upvalues = [u \in Upvalues |-> None]
    /\ closures = [x \in Closures |-> None]
    /\ status = "continue"
    /\ run_queue = <<Main>> /\ created = {Main} /\ freed = {}
    /\ variable = [u \in Upvalues |-> None]
    /\ kept = [x \in Closures |-> 0]

----------------------------------------------------------------------------
(* An instruction maps the machine to the next one.  An error status ends  *)
(* it, but its references are still dropped; a failed assertion ends all.  *)

Machine == [values |-> values, frames |-> frames, upvalues |-> upvalues, closures |-> closures,
            status |-> status, variable |-> variable, kept |-> kept,
            freed |-> freed]

Become(m) ==
    /\ values' = m.values /\ frames' = m.frames
    /\ upvalues' = m.upvalues /\ closures' = m.closures
    /\ status' = m.status
    /\ variable' = m.variable /\ kept' = m.kept

\* the assertions of lstf_vm_value_clear(), lstf_vm_value_uplift() and lstf_vm_upvalue_unref(),
\* and a use of the stack of a coroutine that was freed
Aborted == {"captured_value_cleared", "no_up_value_tracked", "up_value_of_no_place", "coroutine_is_gone"}

Ok(m) == m.status = "continue"
Fail(m, why) == IF m.status \in Aborted THEN m ELSE [m EXCEPT !.status = why]

Frame(m, c)  == Last(m.frames[c])
Height(m, c) == Len(m.values[c]) - Frame(m, c).offset

\* lstf_vm_closure_ref() or lstf_vm_upvalue_ref() of each of xs that is no other value
Referenced(heap, xs) ==
    [x \in DOMAIN heap |-> IF heap[x] = None THEN None
                           ELSE [heap[x] EXCEPT !.refs = @ + Occurrences(xs, x)]]
RefAll(m, xs) == [m EXCEPT !.closures = Referenced(@, xs), !.upvalues = Referenced(@, xs)]
Ref(m, x) == RefAll(m, <<x>>)

\* free(upvalue)
FreeUpvalue(m, u) == [m EXCEPT !.upvalues[u] = None, !.variable[u] = None]

\* an open up-value that nobody holds gives its place back
Release(m, u) ==
    LET up == m.upvalues[u]
    IN  IF up.cr \in m.freed THEN Fail(m, "coroutine_is_gone")
        ELSE IF ~(up.at \in DOMAIN m.values[up.cr] /\ m.values[up.cr][up.at].captured)
             THEN Fail(m, "up_value_of_no_place")
             ELSE FreeUpvalue([m EXCEPT !.values[up.cr][up.at].captured = FALSE], u)

\* drop one reference: the machine, and the references that have to be dropped with it
Unref(m, x) ==
    CASE x \in Closures /\ m.closures[x].refs > 1 -> <<[m EXCEPT !.closures[x].refs = @ - 1], <<>>>>
      [] x \in Closures /\ m.closures[x].refs <= 1 ->
            <<[m EXCEPT !.closures[x] = None], m.closures[x].upvalues>>
      [] x \in Upvalues /\ m.upvalues[x].refs > 1 -> <<[m EXCEPT !.upvalues[x].refs = @ - 1], <<>>>>
      [] x \in Upvalues /\ m.upvalues[x].refs <= 1 /\ m.upvalues[x].open -> <<Release(m, x), <<>>>>
      [] x \in Upvalues /\ m.upvalues[x].refs <= 1 /\ ~m.upvalues[x].open ->
            <<FreeUpvalue(m, x), <<m.upvalues[x].v>>>>
      [] OTHER -> <<m, <<>>>>

\* lstf_vm_closure_unref(), lstf_vm_upvalue_unref() and lstf_vm_value_clear() of all of xs; each object
\* is freed once, so the number of steps is bounded
DropFirst(p) ==
    IF p[2] = <<>> \/ p[1].status \in Aborted THEN p
    ELSE LET q == Unref(p[1], Head(p[2])) IN <<q[1], q[2] \o Tail(p[2])>>

UnrefAll(m, xs) ==
    LET steps == Len(xs) + Cardinality(Closures) * MaxCaptures + Cardinality(Upvalues)
        after[n \in Nat] == IF n = 0 THEN <<m, xs>> ELSE DropFirst(after[n - 1])
    IN  IF m.status \in Aborted \/ ToSet(xs) \cap (Closures \cup Upvalues) = {} THEN m ELSE after[steps][1]

\* values that the stack owns from now on
Lay(m, c, vs) ==
    [m EXCEPT !.values[c] = @ \o [i \in DOMAIN vs |-> [v |-> vs[i], captured |-> FALSE]]]

Room(m, c) == MaxValues - 1 - Len(m.values[c])

Push(m, c, v) ==
    IF ~Ok(m) THEN m
    ELSE IF Room(m, c) < 1 THEN Fail(m, "stack_overflow")
    ELSE Lay(m, c, <<v>>)

\* mutant of Uplift: the up-value goes on to alias the place
UpliftKeepsOpen(m, c) == [m EXCEPT !.values[c][Len(m.values[c])].captured = FALSE]

\* lstf_vm_value_uplift()
Uplift(m, c) ==
    LET place == Len(m.values[c])
        slot == m.values[c][place]
        tracked == Frame(m, c).tracked
    IN  IF ~slot.captured THEN m
        ELSE IF place \notin DOMAIN tracked THEN Fail(m, "no_up_value_tracked")
        ELSE LET u == tracked[place]
             IN  Ref([m EXCEPT !.upvalues[u] = [open |-> FALSE, refs |-> @.refs, v |-> slot.v],
                               !.values[c][place].captured = FALSE], slot.v)

\* lstf_vm_stack_pop_value(): the caller owns the value Top(m, c) afterwards
Top(m, c) == Last(m.values[c]).v
Pop(m, c) ==
    IF ~Ok(m) THEN m
    ELSE LET lifted == Uplift(m, c)
         IN  IF Ok(lifted) THEN [lifted EXCEPT !.values[c] = Front(@)] ELSE lifted

\* ... or it is cleared
Discard(m, c) == IF Ok(m) THEN UnrefAll(Pop(m, c), <<Top(m, c)>>) ELSE m
DiscardMany(m, c, n) ==
    LET after[i \in Nat] == IF i = 0 THEN m ELSE Discard(after[i - 1], c) IN after[n]

\* lstf_vm_stack_set_value() and lstf_vm_stack_set_frame_value(), of a value that the caller owns
Set(m, c, place, v) ==
    IF ~Ok(m) THEN m
    ELSE IF m.values[c][place].captured THEN Fail(m, "captured_value_cleared")
    ELSE UnrefAll([m EXCEPT !.values[c][place].v = v], <<m.values[c][place].v>>)

\* mutant of SetupFrame: the frame does not hold the closure that it runs
SetupFrameUnheld(m, c, returns, closure, due) ==
    IF ~Ok(m) THEN m
    ELSE IF Len(m.frames[c]) + 1 >= MaxFrames THEN Fail(m, "stack_overflow")
    ELSE [m EXCEPT !.frames[c] = Append(@, [offset |-> Len(m.values[c]), parameters |-> 0, due |-> due,
                                      returns |-> returns, closure |-> closure, tracked |-> <<>>])]

SetupFrame(m, c, returns, closure, due) ==
    IF ~Ok(m) THEN m
    ELSE IF Len(m.frames[c]) + 1 >= MaxFrames THEN Fail(m, "stack_overflow")
    ELSE Ref([m EXCEPT !.frames[c] = Append(@, [offset |-> Len(m.values[c]), parameters |-> 0, due |-> due,
                                      returns |-> returns, closure |-> closure, tracked |-> <<>>])],
             closure)

\* a reference goes out of scope and is not dropped
Lose(m, x) == IF x \in Closures /\ m.status \notin Aborted THEN [m EXCEPT !.kept[x] = @ + 1] ELSE m

\* what a frame holds: the closure that it runs, and an up-value for each place that it tracks
HeldAt(f, p) == IF p = 0 THEN f.closure ELSE f.tracked[p]
Holds(f) == {0} \cup DOMAIN f.tracked

\* the references of some frames of c, in an order that makes no difference
OfFrames(m, c, S) ==
    LET held == SetToSeq(UNION {{i} \X Holds(m.frames[c][i]) : i \in S})
    IN  [j \in DOMAIN held |-> HeldAt(m.frames[c][held[j][1]], held[j][2])]

\* lstf_vm_stack_teardown_frame(): the top value is the result, if there is more than parameters; the
\* result of a coroutine is forgotten, with the reference it holds
TeardownFrame(m, c) ==
    LET f == Frame(m, c)
        locals == Height(m, c)
        result == locals > f.parameters
        popped == IF result THEN DiscardMany(Pop(m, c), c, locals - 1) ELSE DiscardMany(m, c, locals)
        left == IF Ok(popped)
                THEN UnrefAll([popped EXCEPT !.frames[c] = Front(@)], OfFrames(popped, c, {Len(popped.frames[c])}))
                ELSE popped
    IN  IF f.returns
        THEN LET cleared == DiscardMany(left, c, f.parameters)
             IN  IF result THEN Push(cleared, c, Top(m, c)) ELSE cleared
        ELSE IF result THEN Lose(left, Top(m, c)) ELSE left

\* mutant of DestroyStack: the frames are freed without what they hold
DestroyStackValues(m, c) ==
    LET dropped == UnrefAll(m, [i \in DOMAIN m.values[c] |-> m.values[c][i].v])
    IN  IF dropped.status \in Aborted THEN dropped
        ELSE [dropped EXCEPT !.values[c] = <<>>, !.frames[c] = <<>>, !.freed = @ \cup {c}]

\* lstf_vm_stack_destroy(): the stack is there until all its references are dropped
DestroyStack(m, c) ==
    LET slots == [i \in DOMAIN m.values[c] |-> m.values[c][i].v]
        dropped == UnrefAll(m, slots \o OfFrames(m, c, DOMAIN m.frames[c]))
    IN  IF dropped.status \in Aborted THEN dropped
        ELSE [dropped EXCEPT !.values[c] = <<>>, !.frames[c] = <<>>, !.freed = @ \cup {c}]

DestroyMany(m, cs) ==
    LET after[i \in Nat] == IF i = 0 THEN m ELSE DestroyStack(after[i - 1], cs[i]) IN after[Len(cs)]

----------------------------------------------------------------------------
(* The run queue: the instruction of the coroutine at its head is executed;*)
(* it stays there, or goes to the end when its cycles are used up.         *)

Running(c) == status = "continue" /\ run_queue # <<>> /\ c = Head(run_queue)

\* the coroutine runs a function whose parameters are in place
Executes(c) == Running(c) /\ Frame(Machine, c).due = Frame(Machine, c).parameters

\* a coroutine that has returned from its first function is freed, except the main one
Requeue(c, spawned) ==
    /\ created' = created \cup ToSet(spawned)
    /\ \/ /\ frames'[c] = <<>>
          /\ run_queue' = Tail(run_queue) \o spawned
          /\ freed' = freed \cup ({c} \ {Main})
       \/ /\ frames'[c] # <<>>
          /\ run_queue' \in {<<c>> \o Tail(run_queue) \o spawned, Tail(run_queue) \o spawned \o <<c>>}
          /\ UNCHANGED freed

Execute(c, m) == Become(m) /\ Requeue(c, <<>>)

----------------------------------------------------------------------------
(* The instructions.                                                       *)

\* lstf_vm_op_load_dataoffset_exec(), _codeoffset and _expression
LoadImmediate(c) ==
    /\ Executes(c)
    /\ \E v \in Data : Execute(c, Push(Machine, c, v))

\* lstf_vm_op_load_frameoffset_exec()
LoadFrameOffset(c) ==
    /\ Executes(c)
    /\ \E i \in 1 .. Height(Machine, c) :
           LET v == values[c][Frame(Machine, c).offset + i].v
           IN  Execute(c, LET m == Push(Machine, c, v) IN IF Ok(m) THEN Ref(m, v) ELSE m)

\* lstf_vm_op_store_exec()
Store(c) ==
    /\ Executes(c)
    /\ \E i \in 1 .. Height(Machine, c) - 1 :
           Execute(c, Set(Pop(Machine, c), c, Frame(Machine, c).offset + i, Top(Machine, c)))

\* lstf_vm_op_pop_exec()
PopTop(c) ==
    /\ Executes(c)
    /\ Height(Machine, c) > Frame(Machine, c).parameters
    /\ Execute(c, Discard(Machine, c))

\* the places that may be captured: never one that tracks the up-value of another variable
Capturable(c) ==
    {p \in Frame(Machine, c).offset + 1 .. Len(values[c]) :
         p \in DOMAIN Frame(Machine, c).tracked => values[c][p].captured}

\* a local variable by its place, or an up-value of the closure that runs by its number
Captures(c) ==
    LET f == Frame(Machine, c)
        own == IF f.closure = None THEN {} ELSE 1 .. Len(closures[f.closure].upvalues)
    IN  {s \in UNION {[1 .. n -> [local : {TRUE}, at : Capturable(c)] \cup [local : {FALSE}, at : own]] :
                         n \in 1 .. MaxCaptures} : IsInjective(s)}

Free(heap) == {x \in DOMAIN heap : heap[x] = None}
New(heap) == CHOOSE x \in Free(heap) : \A y \in Free(heap) : x <= y

\* one up-value for each of the places, which the frame on top does not track yet; box says which one
Capture(m, c, box) ==
    LET At(u) == CHOOSE p \in DOMAIN box : box[p] = u
    IN  [m EXCEPT !.upvalues = [u \in Upvalues |-> IF u \in Range(box)
                                    THEN [open |-> TRUE, refs |-> 1, cr |-> c, at |-> At(u)] ELSE @[u]],
                  !.variable = [u \in Upvalues |-> IF u \in Range(box)
                                    THEN m.values[c][At(u)].v ELSE @[u]]]

\* box @@ tracked, as a definition
WithBox(box, tracked) ==
    [p \in DOMAIN box \cup DOMAIN tracked |-> IF p \in DOMAIN box THEN box[p] ELSE tracked[p]]

\* mutant of Track: the frame does not hold the up-values
TrackUncounted(m, c, box) ==
    [m EXCEPT !.frames[c][Len(m.frames[c])].tracked = WithBox(box, @),
              !.values[c] = [p \in DOMAIN @ |-> IF p \in DOMAIN box THEN [@[p] EXCEPT !.captured = TRUE] ELSE @[p]],
              !.upvalues = [u \in Upvalues |-> IF u \in Range(box) THEN [@[u] EXCEPT !.refs = @ - 1] ELSE @[u]]]

\* lstf_vm_stack_frame_track_upvalue() of each of them; the frame takes the reference that the instruction had
Track(m, c, box) ==
    [m EXCEPT !.frames[c][Len(m.frames[c])].tracked = WithBox(box, @),
              !.values[c] = [p \in DOMAIN @ |-> IF p \in DOMAIN box THEN [@[p] EXCEPT !.captured = TRUE] ELSE @[p]]]

\* lstf_vm_op_closure_exec(): without room for the closure the new up-values are dropped before their places
\* were marked
MakeClosure(c) ==
    /\ Executes(c)
    /\ Free(closures) # {}
    /\ \E ds \in Captures(c) :
           LET f == Frame(Machine, c)
               fresh == {ds[i].at : i \in {j \in DOMAIN ds : ds[j].local}} \ DOMAIN f.tracked
               box == CHOOSE b \in [fresh -> Free(upvalues)] : IsInjective(b)
               ups == [i \in DOMAIN ds |-> CASE ~ds[i].local -> closures[f.closure].upvalues[ds[i].at]
                                             [] ds[i].local /\ ds[i].at \in fresh -> box[ds[i].at]
                                             [] ds[i].local /\ ds[i].at \notin fresh -> f.tracked[ds[i].at]]
               x == New(closures)
               made == [RefAll(Capture(Machine, c, box), ups) EXCEPT !.closures[x] = [refs |-> 1, upvalues |-> ups]]
           IN  /\ Cardinality(fresh) <= Cardinality(Free(upvalues))
               /\ Execute(c, IF Room(Machine, c) >= 1 THEN Track(Lay(made, c, <<x>>), c, box)
                             ELSE Fail(Machine, IF fresh = {} THEN "stack_overflow" ELSE "up_value_of_no_place"))

Captured(c) == IF Frame(Machine, c).closure = None THEN <<>> ELSE closures[Frame(Machine, c).closure].upvalues

\* lstf_vm_op_upget_exec()
ValueOf(m, u) == IF m.upvalues[u].open THEN m.values[m.upvalues[u].cr][m.upvalues[u].at].v ELSE m.upvalues[u].v

UpGet(c) ==
    /\ Executes(c)
    /\ \E i \in DOMAIN Captured(c) :
           LET v == ValueOf(Machine, Captured(c)[i])
           IN  Execute(c, LET m == Push(Machine, c, v) IN IF Ok(m) THEN Ref(m, v) ELSE m)

\* mutant of UpSet: a closed up-value is not written
UpSetOpenOnly(c) ==
    /\ Executes(c)
    /\ Height(Machine, c) > Frame(Machine, c).parameters
    /\ \E i \in DOMAIN Captured(c) :
           LET u == Captured(c)[i]
               v == Top(Machine, c)
               m == [Pop(Machine, c) EXCEPT !.variable[u] = v]
           IN  Execute(c, IF m.upvalues[u].open THEN Set(m, m.upvalues[u].cr, m.upvalues[u].at, v)
                          ELSE UnrefAll(m, <<v>>))

\* lstf_vm_op_upset_exec()
UpSet(c) ==
    /\ Executes(c)
    /\ Height(Machine, c) > Frame(Machine, c).parameters
    /\ \E i \in DOMAIN Captured(c) :
           LET u == Captured(c)[i]
               v == Top(Machine, c)
               m == [Pop(Machine, c) EXCEPT !.variable[u] = v]
           IN  Execute(c, IF m.upvalues[u].open THEN Set(m, m.upvalues[u].cr, m.upvalues[u].at, v)
                          ELSE UnrefAll([m EXCEPT !.upvalues[u].v = v], <<m.upvalues[u].v>>))

----------------------------------------------------------------------------
(* Functions.  A caller has pushed the parameters that the function is due.*)

Arguments(c, n) == Height(Machine, c) >= n + Frame(Machine, c).parameters
                   /\ \A i \in 0 .. n - 1 : ~values[c][Len(values[c]) - i].captured

\* lstf_vm_op_call_exec()
Call(c) ==
    /\ Executes(c)
    /\ \E n \in 0 .. MaxParams :
           /\ Arguments(c, n)
           /\ Execute(c, SetupFrame(Machine, c, TRUE, None, n))

\* lstf_vm_op_calli_exec(): the top value is a closure or the address of a plain function; the reference
\* is lost if there is no room for a frame
CallIndirect(c) ==
    /\ Executes(c)
    /\ \E n \in 0 .. MaxParams :
           /\ Arguments(c, n + 1)
           /\ LET x == IF Top(Machine, c) \in Closures THEN Top(Machine, c) ELSE None
                  m == SetupFrame(Pop(Machine, c), c, TRUE, x, n)
              IN  Execute(c, IF Ok(m) THEN UnrefAll(m, <<x>>) ELSE Lose(m, x))

\* lstf_vm_op_params_exec(): the parameters are copied as far as there is room
Params(c) ==
    LET f == Frame(Machine, c)
        args == IF f.returns THEN [i \in 1 .. f.due |-> values[c][f.offset - f.due + i].v] ELSE <<>>
        room == Room(Machine, c)
        fit == IF room < Len(args) THEN SubSeq(args, 1, room) ELSE args
        copied == Lay(RefAll(Machine, fit), c, fit)
    IN  /\ Running(c) /\ ~Executes(c)
        /\ Execute(c, IF room < Len(args) THEN Fail(copied, "stack_overflow")
                      ELSE [copied EXCEPT !.frames[c][Len(frames[c])].parameters = f.due])

\* lstf_vm_op_return_exec()
Return(c) == Executes(c) /\ Execute(c, TeardownFrame(Machine, c))

\* lstf_vm_schedule_new_coroutine(): n parameters move from the stack of c to the empty one of the
\* coroutine k, which has room for them
Spawn(m, c, k, closure, n) ==
    LET new == SetupFrame(m, k, FALSE, closure, n)
        rest == Len(m.values[c]) - n
        args == [i \in 1 .. n |-> m.values[c][rest + i].v]
    IN  IF Ok(m) THEN Lay([new EXCEPT !.values[c] = SubSeq(@, 1, rest)], k, args) ELSE m

\* lstf_vm_op_schedule_exec()
Schedule(c) ==
    /\ Executes(c)
    /\ \E k \in Coroutines \ created, n \in 0 .. MaxParams :
           /\ Arguments(c, n)
           /\ Become(Spawn(Machine, c, k, None, n))
           /\ Requeue(c, <<k>>)

\* lstf_vm_op_schedulei_exec(): the reference of the popped closure is never dropped
ScheduleIndirect(c) ==
    /\ Executes(c)
    /\ \E k \in Coroutines \ created, n \in 0 .. MaxParams :
           /\ Arguments(c, n + 1)
           /\ LET x == IF Top(Machine, c) \in Closures THEN Top(Machine, c) ELSE None
                  m == Spawn(Pop(Machine, c), c, k, x, n)
              IN  Become(Lose(m, x))
           /\ Requeue(c, <<k>>)

\* an instruction that ends the program: exit, a failed assert, a type error
Stop(c) == Executes(c) /\ Execute(c, Fail(Machine, "error"))

\* the end of lstf_virtualmachine_run()
Finish ==
    /\ status = "continue" /\ run_queue = <<>>
    /\ status' = "exited"
    /\ UNCHANGED <<values, frames, upvalues, closures, variable, kept, run_queue, created, freed>>

\* lstf_virtualmachine_destroy(): the queue is cleared from its end; the main coroutine, which has a
\* reference of its own, is the last
Destroy ==
    /\ ~Ok(Machine) /\ status \notin Aborted
    /\ Main \notin freed
    /\ LET m == DestroyMany(Machine, Append(Only(Reverse(run_queue), Coroutines \ {Main}), Main))
       IN  Become(m) /\ freed' = m.freed
    /\ run_queue' = <<>>
    /\ UNCHANGED created

Next ==
    \/ \E c \in Coroutines :
           \/ LoadImmediate(c) \/ LoadFrameOffset(c) \/ Store(c) \/ PopTop(c)
           \/ MakeClosure(c) \/ UpGet(c) \/ UpSet(c)
           \/ Call(c) \/ CallIndirect(c) \/ Params(c) \/ Return(c)
           \/ Schedule(c) \/ ScheduleIndirect(c) \/ Stop(c)
    \/ Finish \/ Destroy

Spec == Init /\ [][Next]_vars

----------------------------------------------------------------------------
(* Properties.                                                             *)

Live(heap) == DOMAIN heap \ Free(heap)

Open(u) == upvalues[u] # None /\ upvalues[u].open

\* the frames of c that own the place p: the one with the greatest offset below it
Owner(c, p) == CHOOSE i \in DOMAIN frames[c] :
                   /\ frames[c][i].offset < p
                   /\ \A j \in DOMAIN frames[c] : j > i => frames[c][j].offset >= p

\* While the program runs, a place of a stack is marked as captured just when one up-value aliases it, and
\* the frame that owns the place tracks that up-value: is_captured, captured_locals and the weak reference
\* to the coroutine in an up-value (lstf-vm-value.h:147) agree, over calls, returns and coroutines that end.
CapturedIsTracked ==
    status = "continue" =>
        /\ \A u \in Upvalues : Open(u) =>
               LET up == upvalues[u]
               IN  /\ up.cr \in created \ freed
                   /\ up.at \in DOMAIN values[up.cr] /\ values[up.cr][up.at].captured
                   /\ up.at \in DOMAIN frames[up.cr][Owner(up.cr, up.at)].tracked
                   /\ frames[up.cr][Owner(up.cr, up.at)].tracked[up.at] = u
        /\ \A c \in Coroutines : \A p \in DOMAIN values[c] : values[c][p].captured =>
               Cardinality({u \in Upvalues : Open(u) /\ upvalues[u].cr = c /\ upvalues[u].at = p}) = 1

\* Closures that captured one variable see one value: what upget loads is what was last stored in the
\* variable, before and after the up-value was closed.
ReadsItsVariable ==
    status = "continue" => \A u \in Live(upvalues) : ValueOf(Machine, u) = variable[u]

\* who holds an object: places of stacks, closed up-values, frames (where HeldAt says) and closures
HeldByPlaces(m, o) ==
    {q \in Coroutines \X (1 .. MaxValues) : q[2] \in DOMAIN m.values[q[1]] /\ m.values[q[1]][q[2]].v = o}
HeldByBoxes(m, o) == {u \in Live(m.upvalues) : ~m.upvalues[u].open /\ m.upvalues[u].v = o}
HeldByFrames(m, o) ==
    {q \in Coroutines \X (1 .. MaxFrames) \X (0 .. MaxValues) :
        /\ q[2] \in DOMAIN m.frames[q[1]]
        /\ q[3] \in Holds(m.frames[q[1]][q[2]]) /\ HeldAt(m.frames[q[1]][q[2]], q[3]) = o}
HeldByClosures(m, o) ==
    {q \in Live(m.closures) \X (1 .. MaxCaptures) :
        q[2] \in DOMAIN m.closures[q[1]].upvalues /\ m.closures[q[1]].upvalues[q[2]] = o}

Holders(m, o) == Cardinality(HeldByPlaces(m, o)) + Cardinality(HeldByBoxes(m, o))
                 + Cardinality(HeldByFrames(m, o)) + Cardinality(HeldByClosures(m, o))

\* The counts of references are those of the references that there are, so that a closure or an up-value
\* is freed with its last holder and not before.  The references that schedulei and the result of a
\* coroutine lose (kept) are the only ones nobody holds.
CountsAreHolders ==
    status = "continue" => /\ \A x \in Live(closures) : closures[x].refs = Holders(Machine, x) + kept[x]
                           /\ \A u \in Live(upvalues) : upvalues[u].refs = Holders(Machine, u)

\* Nothing refers to a closure or an up-value that was freed.
NothingDangles ==
    status = "continue" =>
        /\ \A c \in Coroutines :
               /\ \A p \in DOMAIN values[c] : values[c][p].v \in Data \cup Live(closures)
               /\ \A i \in DOMAIN frames[c] : frames[c][i].closure \in {None} \cup Live(closures)
        /\ \A x \in Live(closures) : ToSet(closures[x].upvalues) \subseteq Live(upvalues)
        /\ \A u \in Live(upvalues) : Open(u) \/ upvalues[u].v \in Data \cup Live(closures)

\* When the virtual machine has been destroyed, a closure is left only if its reference was lost or if
\* another one that is left holds it, that is in a cycle or behind a lost one; no up-value is left alone.
LeftBehindIsHeld ==
    Main \in freed /\ status \notin Aborted =>
        /\ \A x \in Live(closures) :
               \/ kept[x] > 0
               \/ \E y \in Live(closures) : \E u \in ToSet(closures[y].upvalues) : ~Open(u) /\ upvalues[u].v = x
        /\ \A u \in Live(upvalues) : \E x \in Live(closures) : u \in ToSet(closures[x].upvalues)

============================================================================
