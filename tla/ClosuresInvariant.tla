------------------------- MODULE ClosuresInvariant -------------------------
(***************************************************************************)
(* The inductive invariant of module Closures: what is true of the stacks, *)
(* the heap and the run queue after each instruction.                      *)
(***************************************************************************)
EXTENDS Closures

Objects == Closures \cup Upvalues

Slot == [v : Value, captured : BOOLEAN]
FrameType == [offset : Nat, parameters : Nat, due : Nat, returns : BOOLEAN, closure : Closures \cup {None},
              tracked : UNION {[S -> Upvalues] : S \in SUBSET (1 .. MaxValues)}]
Statuses == {"continue", "exited", "error", "stack_overflow"} \cup Aborted

Stacks == [Coroutines -> Seq(Slot)]
CallStacks == [Coroutines -> Seq(FrameType)]
UpvalueHeap == [Upvalues -> OpenUpvalue \cup BoxedValue \cup {None}]
ClosureHeap == [Closures -> Closure \cup {None}]
Variables == [Upvalues -> Value \cup {None}]

MachineType ==
    [values : Stacks, frames : CallStacks, upvalues : UpvalueHeap, closures : ClosureHeap,
     status : Statuses, variable : Variables, kept : [Closures -> Nat], freed : SUBSET Coroutines]

\* no stack is full, and no closure has more than it may
Bounded(m) ==
    /\ \A c \in Coroutines : Len(m.values[c]) < MaxValues /\ Len(m.frames[c]) < MaxFrames
    /\ \A x \in Live(m.closures) : Len(m.closures[x].upvalues) <= MaxCaptures

Typed(m) == m \in MachineType /\ Bounded(m)

\* The heart of the invariant: h says how many references to each object are in
\* the hands of the instruction; it is negative while the instruction has still
\* to count a reference that it has put in its place.
Heap(m, o) == IF o \in Closures THEN m.closures ELSE m.upvalues
Refs(m, o) == IF Heap(m, o)[o] = None THEN 0 ELSE Heap(m, o)[o].refs
Keeps(m, o) == IF o \in Closures THEN m.kept[o] ELSE 0

Counted(m, h) ==
    \A o \in Objects :
        /\ Refs(m, o) = Holders(m, o) + Keeps(m, o) + h[o]
        /\ Heap(m, o)[o] # None => Refs(m, o) >= 1

Hands == [Objects -> Int]
Nothing == [o \in Objects |-> 0]

\* h with the references in xs
With(h, xs) == [o \in Objects |-> h[o] + Occurrences(xs, o)]

\* The frames of a stack lie one above the other; those of functions above the
\* arguments that they are due.
Stacked(m) ==
    \A c \in Coroutines :
        /\ m.frames[c] = <<>> => m.values[c] = <<>>
        /\ \A i \in DOMAIN m.frames[c] :
              LET f == m.frames[c][i]
              IN  /\ f.offset <= Len(m.values[c])
                  /\ f.parameters <= f.due
                  /\ i = 1 => f.offset = 0 /\ ~f.returns
                  /\ i > 1 => f.returns
                  /\ \A j \in DOMAIN m.frames[c] : j < i => m.frames[c][j].offset + f.due <= f.offset

\* An up-value is open just when a captured place has it, which its frame tracks.
Owns(m, c, i, p) ==
    /\ i \in DOMAIN m.frames[c] /\ m.frames[c][i].offset < p
    /\ \A j \in DOMAIN m.frames[c] : j > i => m.frames[c][j].offset >= p
Aliases(m, u, c, p) ==
    m.upvalues[u] # None /\ m.upvalues[u].open /\ m.upvalues[u].cr = c /\ m.upvalues[u].at = p
Tracks(m, c, p, u) ==
    \E i \in DOMAIN m.frames[c] :
        Owns(m, c, i, p) /\ p \in DOMAIN m.frames[c][i].tracked /\ m.frames[c][i].tracked[p] = u

Tracking(m) ==
    /\ \A u \in Upvalues, c \in Coroutines, p \in Nat : Aliases(m, u, c, p) =>
          p \in DOMAIN m.values[c] /\ m.values[c][p].captured /\ Tracks(m, c, p, u)
    /\ \A c \in Coroutines : \A p \in DOMAIN m.values[c] : m.values[c][p].captured =>
          \E u \in Upvalues : Tracks(m, c, p, u) /\ Aliases(m, u, c, p)

Valued(m) == \A u \in Live(m.upvalues) : ValueOf(m, u) = m.variable[u]

\* what an instruction finds and leaves
Sound(m, h) == Typed(m) /\ Stacked(m) /\ Counted(m, h) /\ Tracking(m) /\ Valued(m)
Outcome(m) ==
    m.status \notin Aborted =>
        Typed(m) /\ Stacked(m) /\ Counted(m, Nothing) /\ (m.status = "continue" => Tracking(m) /\ Valued(m))

\* The coroutines that have frames are queued once; until the virtual machine is
\* destroyed all that are queued have frames, and afterwards none has.
Queued ==
    /\ run_queue \in Seq(Coroutines)
    /\ IsInjective(run_queue)
    /\ created \subseteq Coroutines /\ Main \in created
    /\ freed \subseteq created
    /\ ToSet(run_queue) \subseteq created
    /\ \A c \in Coroutines : frames[c] # <<>> => c \in ToSet(run_queue)
    /\ Main \notin freed => \A c \in ToSet(run_queue) : frames[c] # <<>> /\ c \notin freed
    /\ Main \in freed => \A c \in Coroutines : frames[c] = <<>>

IInv ==
    /\ status = "continue" => Main \notin freed
    /\ Outcome(Machine)
    /\ status \notin Aborted => Queued
=============================================================================
