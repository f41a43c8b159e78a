----------------------------- MODULE EventList ------------------------------
(***************************************************************************)
(* The linked lists of src/src/io/event.c: the pending list with its head  *)
(* and tail pointers, changed by eventloop_add_event() and, in the middle  *)
(* of a walk, by eventloop_remove(); and the list of ready events, linked  *)
(* through the same field of the events by event_list_prepend().           *)
(***************************************************************************)
EXTENDS Naturals, Sequences, FiniteSets, FiniteSetsExt

CONSTANTS Events, NULL

ASSUME NullAssumption == NULL \notin Events
ASSUME EventsAssumption == IsFiniteSet(Events)

VARIABLES
    list,           \* loop->pending_events, loop->pending_events_tail, next of each event
    ready_events,   \* head of the list of ready events
    walking, cur, prev,     \* of eventloop_pending_events_foreach
    allocated       \* events that were created and not freed

vars == <<list, ready_events, walking, cur, prev, allocated>>

Init ==
    /\ list = [head |-> NULL, tail |-> NULL, next |-> [e \in Events |-> NULL]]
    /\ ready_events = NULL
    /\ walking = FALSE /\ cur = NULL /\ prev = NULL
    /\ allocated = {}

\* eventloop_add_event()
AddEvent(l, e) ==
    IF l.head = NULL
      THEN [l EXCEPT !.head = e, !.tail = e]
      ELSE [l EXCEPT !.tail = e, !.next[l.tail] = e]

\* eventloop_remove(): the head, or the successor of p
Unlink(l, e, p) ==
    IF p # NULL THEN [l EXCEPT !.next[p] = l.next[e]]
    ELSE [l EXCEPT !.tail = IF l.head = l.tail THEN l.next[l.head] ELSE l.tail,
                   !.head = l.next[l.head]]

\* mutant of RemoveEvent: the tail pointer is left behind
RemoveNotTail(l, e, p) == [Unlink(l, e, p) EXCEPT !.next[e] = NULL]

RemoveEvent(l, e, p) ==
    LET m == Unlink(l, e, p)
    IN  [m EXCEPT !.tail = IF m.tail = e THEN p ELSE m.tail, !.next[e] = NULL]

----------------------------------------------------------------------------
\* calloc() gives an event a NULL next
Add(e) ==
    /\ ~walking
    /\ e \notin allocated
    /\ allocated' = allocated \cup {e}
    /\ list' = AddEvent([list EXCEPT !.next[e] = NULL], e)
    /\ UNCHANGED <<ready_events, walking, cur, prev>>

\* mutant of AddFails: the event is freed and stays linked
AddFailsLinked(e) ==
    /\ ~walking
    /\ e \notin allocated
    /\ list' = AddEvent([list EXCEPT !.next[e] = NULL], e)
    /\ UNCHANGED <<ready_events, walking, cur, prev, allocated>>

\* eventloop_add_bgtask() when thrd_create() fails: the event was appended
\* after the tail, and is removed and freed again
AddFails(e) ==
    /\ ~walking
    /\ e \notin allocated
    /\ list' = RemoveEvent(AddEvent([list EXCEPT !.next[e] = NULL], e), e, list.tail)
    /\ UNCHANGED <<ready_events, walking, cur, prev, allocated>>

BeginWalk ==
    /\ ~walking
    /\ walking' = TRUE
    /\ cur' = list.head /\ prev' = NULL
    /\ UNCHANGED <<list, ready_events, allocated>>

KeepEvent ==
    /\ walking /\ cur # NULL
    /\ prev' = cur
    /\ cur' = list.next[cur]
    /\ UNCHANGED <<list, ready_events, walking, allocated>>

\* eventloop_remove(), then event_list_prepend()
TakeEvent ==
    /\ walking /\ cur # NULL
    /\ cur' = list.next[cur]
    /\ list' = [RemoveEvent(list, cur, prev) EXCEPT !.next[cur] = ready_events]
    /\ ready_events' = cur
    /\ UNCHANGED <<walking, prev, allocated>>

EndWalk ==
    /\ walking /\ cur = NULL
    /\ walking' = FALSE /\ prev' = NULL
    /\ UNCHANGED <<list, ready_events, cur, allocated>>

\* the callback, then free()
Dispatch ==
    /\ ~walking /\ ready_events # NULL
    /\ ready_events' = list.next[ready_events]
    /\ list' = [list EXCEPT !.next[ready_events] = NULL]
    /\ allocated' = allocated \ {ready_events}
    /\ UNCHANGED <<walking, cur, prev>>

\* one iteration of eventloop_destroy()
DestroyFirst ==
    /\ ~walking /\ ready_events = NULL /\ list.head # NULL
    /\ list' = RemoveEvent(list, list.head, NULL)
    /\ allocated' = allocated \ {list.head}
    /\ UNCHANGED <<ready_events, walking, cur, prev>>

Next ==
    \/ \E e \in Events : Add(e) \/ AddFails(e)
    \/ BeginWalk \/ KeepEvent \/ TakeEvent \/ EndWalk
    \/ Dispatch \/ DestroyFirst

Spec == Init /\ [][Next]_vars

----------------------------------------------------------------------------
\* the events in a chain of pointers
Node(next, p) ==
    LET node[n \in Nat] ==
            IF n = 0 THEN p ELSE IF node[n - 1] = NULL THEN NULL ELSE next[node[n - 1]]
    IN  node

\* those from p on, up to q or the end of the chain (one without a cycle has
\* no more of them than there are events)
Chain(next, p, q) ==
    LET ends == {n \in 0 .. Cardinality(Events) : Node(next, p)[n] \in {q, NULL}}
        len  == IF ends = {} THEN Cardinality(Events) + 1 ELSE Min(ends)
    IN  [i \in 1 .. len |-> Node(next, p)[i - 1]]

\* The two lists are the queue and the stack of module EventQueue, whatever
\* the order of additions, failed additions, walks and removals.  A tail
\* pointer that is not kept right, or a next that is left over from the other
\* list, loses the events that are added afterwards.
kept    == IF walking THEN Chain(list.next, list.head, cur) ELSE <<>>
pending == Chain(list.next, IF walking THEN cur ELSE list.head, NULL)
ready   == Chain(list.next, ready_events, NULL)

Queue == INSTANCE EventQueue

ImplementsQueue == Queue!Spec

\* Every allocated event is linked, and nothing else is: no event leaks and no
\* freed event can be reached.
LinkedIsAllocated == Queue!Held = allocated
============================================================================
