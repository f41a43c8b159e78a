----------------------------- MODULE EventQueue -----------------------------
(***************************************************************************)
(* What the event loop relies on when it keeps pending events in a list    *)
(* and moves them to a list of ready events during a walk                  *)
(* (src/src/io/event.c): the first is a queue, the second a stack, and no  *)
(* event is lost on the way.  The pointers of EventList implement it, and  *)
(* EventLoop does nothing else to its lists (Queue, in both modules).      *)
(***************************************************************************)
EXTENDS Naturals, Sequences, SequencesExt

CONSTANT Events

VARIABLES
    walking,    \* whether eventloop_process() is in a walk of the list
    kept,       \* events the walk has passed and left in the list
    pending,    \* the rest of the list
    ready       \* ready events, first callback first

vars == <<walking, kept, pending, ready>>

Held == ToSet(kept) \cup ToSet(pending) \cup ToSet(ready)

Init == walking = FALSE /\ kept = <<>> /\ pending = <<>> /\ ready = <<>>

Add(e) ==
    /\ ~walking
    /\ pending' = Append(pending, e)
    /\ UNCHANGED <<walking, kept, ready>>

Begin ==
    /\ ~walking /\ walking' = TRUE
    /\ UNCHANGED <<kept, pending, ready>>

Keep ==
    /\ walking /\ pending # <<>>
    /\ kept' = Append(kept, Head(pending)) /\ pending' = Tail(pending)
    /\ UNCHANGED <<walking, ready>>

Take ==
    /\ walking /\ pending # <<>>
    /\ ready' = <<Head(pending)>> \o ready /\ pending' = Tail(pending)
    /\ UNCHANGED <<walking, kept>>

End ==
    /\ walking /\ pending = <<>>
    /\ walking' = FALSE /\ pending' = kept /\ kept' = <<>>
    /\ UNCHANGED ready

Dispatch ==
    /\ ~walking /\ ready # <<>>
    /\ ready' = Tail(ready)
    /\ UNCHANGED <<walking, kept, pending>>

\* eventloop_destroy(): the first n events are freed
Clear ==
    /\ ~walking
    /\ \E n \in 1 .. Len(pending) : pending' = SubSeq(pending, n + 1, Len(pending))
    /\ UNCHANGED <<walking, kept, ready>>

Next ==
    \/ \E e \in Events : Add(e)
    \/ Begin \/ Keep \/ Take \/ End \/ Dispatch \/ Clear

Spec == Init /\ [][Next]_vars
=============================================================================
