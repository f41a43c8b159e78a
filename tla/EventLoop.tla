----------------------------- MODULE EventLoop -----------------------------
(***************************************************************************)
(* The event loop of src/src/io/event.c: one thread ("main") that calls    *)
(* eventloop_process(), the threads started by eventloop_add_bgtask(), the *)
(* monitor thread of eventloop_add_subprocess() as far as the loop sees    *)
(* it, and the kernel that makes file descriptors ready.                   *)
(*                                                                         *)
(* Every read and write of an event field that another thread may          *)
(* interleave with is a step of its own: the scan and the gather walk the  *)
(* list one event at a time, event_return() publishes is_ready, stores the *)
(* result and signals in three steps.                                      *)
(*                                                                         *)
(* The linked list of pending events is the sequence kept \o pending: kept *)
(* is the part that eventloop_pending_events_foreach has already passed    *)
(* and left in the list.  The loop does to them only what the queue of     *)
(* EventQueue allows, which the linked lists of EventList implement.       *)
(***************************************************************************)
EXTENDS Naturals, Sequences

CONSTANTS
    Events,         \* the events a program may ever create
    Kind,           \* their event_type
    NonblockModes,  \* the values callers pass as force_nonblocking
    PipeCapacity,   \* bytes that bg_signalfd takes before write() fails
    BufferSize,     \* BUFSIZ, the bytes that one read() takes from the pipe
    NoEvent

Kinds == {"default", "bg_task", "subprocess", "io"}

ASSUME KindAssumption == Kind \in [Events -> Kinds]
ASSUME ModesAssumption == NonblockModes \subseteq BOOLEAN
ASSUME CapacityAssumption == PipeCapacity \in Nat \ {0}
ASSUME BufferAssumption == BufferSize \in Nat \ {0}
ASSUME NoEventAssumption == NoEvent \notin Events

VARIABLES
    pc,             \* where the main thread is
    is_running,
    pending,        \* pending_events, the part the current walk has not reached
    kept,           \* the part the current walk has passed
    ready_list,     \* ready_events of eventloop_process(), first callback first
    current,        \* the event whose callback is running
    nonblocking,    \* force_nonblocking of the current call
    revents,        \* what poll() reported: descriptors of events, and bg_eventfd
    lock,           \* the holder of monitoring_lock
    is_ready, is_canceled, io_errno, result,    \* fields of struct _event
    thread,         \* program counter of the thread of a background task
    monitored,      \* the event the monitor thread is completing
    fd,             \* the state of an I/O event's descriptor
    pipe,           \* bytes in the pipe between bg_signalfd and bg_eventfd
    added, freed,   \* the events that were added, and those passed to free()
    got             \* what a callback read with event_get_result()/_errno()

mainVars  == <<pc, is_running, nonblocking, revents, current>>
listVars  == <<pending, kept, ready_list>>
eventVars == <<is_ready, is_canceled, io_errno, result>>
memVars   == <<added, freed, got>>
vars == <<mainVars, listVars, eventVars, memVars, lock, thread, monitored, fd, pipe>>

----------------------------------------------------------------------------
Elems(s) == {s[i] : i \in 1 .. Len(s)}

IsIo(e)    == Kind[e] = "io"
IsNonIo(e) == Kind[e] \in {"bg_task", "subprocess"}

Completed(e) == is_ready[e] \/ is_canceled[e]

\* the statuses of the thread of a background task: it has not been created,
\* runs thread_proc, is in event_return() after the exchange, after the store
\* of the result, is in event_cancel() after the first store, is back in
\* eventloop_bgtask_start(), has ended
ThreadStates ==
    {"none", "running", "publishing", "signalling", "canceling", "closing", "done"}

\* bg_eventfd is one of the polled descriptors; it stands for itself in revents
BgFd == "bg_eventfd"

Init ==
    /\ pc = "idle"
    /\ is_running = TRUE
    /\ pending = <<>> /\ kept = <<>> /\ ready_list = <<>>
    /\ current = NoEvent
    /\ nonblocking = FALSE
    /\ revents = {}
    /\ lock = "none"
    /\ is_ready = [e \in Events |-> FALSE]
    /\ is_canceled = [e \in Events |-> FALSE]
    /\ io_errno = [e \in Events |-> FALSE]
    /\ result = [e \in Events |-> "unset"]
    /\ thread = [e \in Events |-> "none"]
    /\ monitored = NoEvent
    /\ fd = [e \in Events |-> "busy"]
    /\ pipe = 0
    /\ added = {} /\ freed = {}
    /\ got = [e \in Events |-> "none"]

----------------------------------------------------------------------------
(* What the program does between two walks of the list: at top level, or   *)
(* in the callback of an event.                                            *)

InUserCode == pc \in {"idle", "callback"}

\* eventloop_add(), eventloop_add_fd(), eventloop_add_bgtask() and
\* eventloop_add_subprocess()
Add(e) ==
    /\ InUserCode
    /\ e \notin added
    /\ added' = added \cup {e}
    /\ pending' = Append(pending, e)
    /\ thread' = IF Kind[e] = "bg_task" THEN [thread EXCEPT ![e] = "running"] ELSE thread
    /\ UNCHANGED <<mainVars, kept, ready_list, eventVars, freed, got, lock, monitored, fd, pipe>>

\* event_return() of a default event: its owner is the main thread
Return(e) ==
    /\ InUserCode
    /\ e \in added /\ Kind[e] = "default" /\ ~Completed(e)
    /\ is_ready' = [is_ready EXCEPT ![e] = TRUE]
    /\ result' = [result EXCEPT ![e] = "value"]
    /\ UNCHANGED <<mainVars, listVars, is_canceled, io_errno, memVars, lock, thread, monitored, fd, pipe>>

\* event_cancel_with_errno() of a default event
Cancel(e) ==
    /\ InUserCode
    /\ e \in added /\ Kind[e] = "default" /\ ~Completed(e)
    /\ is_canceled' = [is_canceled EXCEPT ![e] = TRUE]
    /\ io_errno' = [io_errno EXCEPT ![e] = TRUE]
    /\ UNCHANGED <<mainVars, listVars, is_ready, result, memVars, lock, thread, monitored, fd, pipe>>

Quit ==
    /\ InUserCode
    /\ is_running
    /\ is_running' = FALSE
    /\ UNCHANGED <<pc, nonblocking, revents, current, listVars, eventVars, memVars, lock, thread,
                   monitored, fd, pipe>>

\* mutant of Destroy: the pointer to the freed events is not cleared
DestroyKeepsList ==
    /\ pc = "idle"
    /\ pc' = "destroyed"
    /\ is_running' = FALSE
    /\ freed' = freed \cup Elems(pending)
    /\ UNCHANGED <<nonblocking, revents, current, listVars, eventVars, added, got, lock, thread, monitored,
                   fd, pipe>>

\* eventloop_destroy(): cancels and frees what is pending, closes the pipe
Destroy ==
    /\ pc = "idle"
    /\ pc' = "destroyed"
    /\ is_running' = FALSE
    /\ is_canceled' = [e \in Events |-> is_canceled[e] \/ e \in Elems(pending)]
    /\ io_errno' = [e \in Events |-> io_errno[e] \/ e \in Elems(pending)]
    /\ freed' = freed \cup Elems(pending)
    /\ pending' = <<>>
    /\ UNCHANGED <<nonblocking, revents, current, kept, ready_list, is_ready, result, added, got, lock,
                   thread, monitored, fd, pipe>>

----------------------------------------------------------------------------
(* eventloop_process() and eventloop_poll(), POSIX build.                  *)

\* mutant of Process: the scan does not take the lock
ProcessUnlocked(nb) ==
    /\ pc = "idle"
    /\ pc' = "scan"
    /\ lock' = "main"
    /\ nonblocking' = nb
    /\ UNCHANGED <<is_running, revents, current, listVars, eventVars, memVars, thread, monitored, fd, pipe>>

Process(nb) ==
    /\ pc = "idle"
    /\ lock = "none"
    /\ lock' = "main"
    /\ pc' = "scan"
    /\ nonblocking' = nb
    /\ UNCHANGED <<is_running, revents, current, listVars, eventVars, memVars, thread, monitored, fd, pipe>>

\* mutant of TakeHead: the event is made ready and not removed
TakeHeadKept ==
    /\ ready_list' = <<Head(pending)>> \o ready_list
    /\ pending' = Tail(pending)
    /\ kept' = Append(kept, Head(pending))

\* event_list_prepend() of the event under the walk, after eventloop_remove()
TakeHead ==
    /\ ready_list' = <<Head(pending)>> \o ready_list
    /\ pending' = Tail(pending)
    /\ UNCHANGED kept

KeepHead ==
    /\ kept' = Append(kept, Head(pending))
    /\ pending' = Tail(pending)
    /\ UNCHANGED ready_list

ScanStep ==
    /\ pc = "scan"
    /\ pending # <<>>
    /\ IF Completed(Head(pending)) THEN TakeHead ELSE KeepHead
    /\ UNCHANGED <<mainVars, eventVars, memVars, lock, thread, monitored, fd, pipe>>

\* a walk ends: the list is what it kept
EndWalk ==
    /\ pending = <<>>
    /\ pending' = kept
    /\ kept' = <<>>
    /\ lock' = "none"

\* mutant of ScanDone: the scan has seen the completed tasks, and so it also
\* empties the pipe
ScanDoneDrains ==
    /\ pc = "scan"
    /\ EndWalk
    /\ pipe' = 0
    /\ pc' = IF \E e \in Elems(kept) : IsIo(e) \/ IsNonIo(e) THEN "setup" ELSE "dispatch"
    /\ UNCHANGED <<is_running, nonblocking, revents, current, ready_list, eventVars, memVars, thread,
                   monitored, fd>>

\* eventloop_poll() returns at once when there is nothing to wait for
ScanDone ==
    /\ pc = "scan"
    /\ EndWalk
    /\ pc' = IF \E e \in Elems(kept) : IsIo(e) \/ IsNonIo(e) THEN "setup" ELSE "dispatch"
    /\ UNCHANGED <<is_running, nonblocking, revents, current, ready_list, eventVars, memVars, thread,
                   monitored, fd, pipe>>

\* the pollfd array is built under the lock
SetupPoll ==
    /\ pc = "setup"
    /\ lock = "none"
    /\ pc' = "poll"
    /\ UNCHANGED <<is_running, nonblocking, revents, current, listVars, eventVars, memVars, lock,
                   thread, monitored, fd, pipe>>

\* int timeout_ms = (*ready_events && !force_nonblocking) ? 0 : -1
WaitsForever == ~(ready_list # <<>> /\ ~nonblocking)

\* the descriptors with something to report
Signalled ==
    {e \in Elems(pending) : IsIo(e) /\ fd[e] # "busy"}
        \cup {x \in {BgFd} : pipe > 0 /\ \E e \in Elems(pending) : IsNonIo(e)}

Poll ==
    /\ pc = "poll"
    /\ lock = "none"
    /\ WaitsForever => Signalled # {}
    /\ revents' = Signalled
    /\ lock' = "main"
    /\ pc' = "gather"
    /\ UNCHANGED <<is_running, nonblocking, current, listVars, eventVars, memVars, thread, monitored, fd, pipe>>

\* POLLIN or POLLOUT: event_return(pending, NULL)
GatherIo ==
    /\ pc = "gather" /\ pending # <<>>
    /\ LET e == Head(pending)
       IN  /\ IsIo(e) /\ e \in revents /\ fd[e] = "ready"
           /\ is_ready' = [is_ready EXCEPT ![e] = TRUE]
           /\ result' = [result EXCEPT ![e] = "value"]
    /\ TakeHead
    /\ UNCHANGED <<mainVars, is_canceled, io_errno, memVars, lock, thread, monitored, fd, pipe>>

\* POLLHUP or POLLERR alone: event_cancel_with_errno()
GatherHangup ==
    /\ pc = "gather" /\ pending # <<>>
    /\ LET e == Head(pending)
       IN  /\ IsIo(e) /\ e \in revents /\ fd[e] = "closed"
           /\ is_canceled' = [is_canceled EXCEPT ![e] = TRUE]
           /\ io_errno' = [io_errno EXCEPT ![e] = TRUE]
    /\ TakeHead
    /\ UNCHANGED <<mainVars, is_ready, result, memVars, lock, thread, monitored, fd, pipe>>

\* mutant of GatherOther: any task is taken when bg_eventfd is readable
GatherAnyTask ==
    /\ pc = "gather" /\ pending # <<>>
    /\ ~(IsIo(Head(pending)) /\ Head(pending) \in revents)
    /\ IF IsNonIo(Head(pending)) /\ BgFd \in revents THEN TakeHead ELSE KeepHead
    /\ UNCHANGED <<mainVars, eventVars, memVars, lock, thread, monitored, fd, pipe>>

\* tasks and subprocesses are looked at only when bg_eventfd was readable,
\* and then only is_ready is
GatherOther ==
    /\ pc = "gather" /\ pending # <<>>
    /\ ~(IsIo(Head(pending)) /\ Head(pending) \in revents)
    /\ IF IsNonIo(Head(pending)) /\ BgFd \in revents /\ is_ready[Head(pending)]
         THEN TakeHead
         ELSE KeepHead
    /\ UNCHANGED <<mainVars, eventVars, memVars, lock, thread, monitored, fd, pipe>>

\* the walk ends and one read() takes bytes out of the pipe, in this order;
\* what does not fit the buffer stays and makes the next poll() return
GatherDone ==
    /\ pc = "gather"
    /\ EndWalk
    /\ pipe' = IF BgFd \in revents /\ pipe > BufferSize THEN pipe - BufferSize
               ELSE IF BgFd \in revents THEN 0 ELSE pipe
    /\ revents' = {}
    /\ pc' = "dispatch"
    /\ UNCHANGED <<is_running, nonblocking, current, ready_list, eventVars, memVars, thread, monitored, fd>>

\* what event_get_result() and event_get_errno() tell a callback
Outcome(e) ==
    IF is_canceled[e] THEN IF io_errno[e] THEN "error" ELSE "no_errno"
                      ELSE result[e]

Dispatch ==
    /\ pc = "dispatch"
    /\ ready_list # <<>>
    /\ current' = Head(ready_list)
    /\ ready_list' = Tail(ready_list)
    /\ got' = [got EXCEPT ![Head(ready_list)] = Outcome(Head(ready_list))]
    /\ pc' = "callback"
    /\ UNCHANGED <<is_running, nonblocking, revents, pending, kept, eventVars, added, freed, lock, thread,
                   monitored, fd, pipe>>

\* the callback returns: free(ev), ++*num_processed
CallbackEnd ==
    /\ pc = "callback"
    /\ freed' = freed \cup {current}
    /\ current' = NoEvent
    /\ pc' = "dispatch"
    /\ UNCHANGED <<is_running, nonblocking, revents, listVars, eventVars, added, got, lock, thread,
                   monitored, fd, pipe>>

DispatchDone ==
    /\ pc = "dispatch"
    /\ ready_list = <<>>
    /\ pc' = "idle"
    /\ UNCHANGED <<is_running, nonblocking, revents, current, listVars, eventVars, memVars, lock, thread,
                   monitored, fd, pipe>>

----------------------------------------------------------------------------
\* abort() ends every thread
Alive == pc # "aborted"

(* The thread of background task e.  A write to an event that was freed    *)
(* changes nothing the program still reads.                                *)

\* mutants of Signal: eight bytes are written, as an eventfd takes them, and a
\* short write is not noticed; nothing is written
SignalUnbounded == pipe' = pipe + 8 /\ UNCHANGED pc
SignalNothing == UNCHANGED <<pipe, pc>>

\* eventloop_signal(): abort() when the pipe is full, or closed by
\* eventloop_destroy(), unless the freed loop still holds what it did
Signal ==
    \/ pipe < PipeCapacity /\ pipe' = pipe + 1 /\ UNCHANGED pc
    \/ (pipe = PipeCapacity \/ pc = "destroyed") /\ pc' = "aborted" /\ UNCHANGED pipe

otherVars == <<is_running, nonblocking, revents, current, listVars, memVars, lock, monitored, fd>>

BgPublish(e) ==
    /\ thread[e] = "running"
    /\ thread' = [thread EXCEPT ![e] = "publishing"]
    /\ is_ready' = IF e \in freed THEN is_ready ELSE [is_ready EXCEPT ![e] = TRUE]
    /\ UNCHANGED <<otherVars, pc, pipe, is_canceled, io_errno, result>>

BgStore(e) ==
    /\ thread[e] = "publishing"
    /\ thread' = [thread EXCEPT ![e] = "signalling"]
    /\ result' = IF e \in freed THEN result ELSE [result EXCEPT ![e] = "value"]
    /\ UNCHANGED <<otherVars, pc, pipe, is_ready, is_canceled, io_errno>>

\* ev->type and ev->loop of a freed event may or may not still be there
BgSignal(e) ==
    /\ thread[e] = "signalling"
    /\ thread' = [thread EXCEPT ![e] = "closing"]
    /\ \/ Signal
       \/ e \in freed /\ UNCHANGED <<pc, pipe>>
    /\ UNCHANGED <<otherVars, eventVars>>

BgCancel(e) ==
    /\ thread[e] = "running"
    /\ thread' = [thread EXCEPT ![e] = "canceling"]
    /\ is_canceled' = IF e \in freed THEN is_canceled ELSE [is_canceled EXCEPT ![e] = TRUE]
    /\ UNCHANGED <<otherVars, pc, pipe, is_ready, io_errno, result>>

BgErrno(e) ==
    /\ thread[e] = "canceling"
    /\ thread' = [thread EXCEPT ![e] = "closing"]
    /\ io_errno' = IF e \in freed THEN io_errno ELSE [io_errno EXCEPT ![e] = TRUE]
    /\ UNCHANGED <<otherVars, pc, pipe, is_ready, is_canceled, result>>

\* the closing assertion of eventloop_bgtask_start() reads the event again
BgExit(e) ==
    /\ thread[e] = "closing"
    /\ thread' = [thread EXCEPT ![e] = "done"]
    /\ UNCHANGED <<otherVars, pc, pipe, eventVars>>

----------------------------------------------------------------------------
(* The monitor thread completes a subprocess event holding the lock, and   *)
(* signals before it releases it.                                          *)

MonitorPublish(e) ==
    /\ lock = "none"
    /\ Alive
    /\ Kind[e] = "subprocess" /\ e \in Elems(pending) /\ ~is_ready[e]
    /\ lock' = "monitor"
    /\ monitored' = e
    /\ is_ready' = [is_ready EXCEPT ![e] = TRUE]
    /\ UNCHANGED <<mainVars, listVars, is_canceled, io_errno, result, memVars, thread, fd, pipe>>

MonitorStore ==
    /\ lock = "monitor"
    /\ Alive
    /\ lock' = "none"
    /\ result' = [result EXCEPT ![monitored] = "value"]
    /\ monitored' = NoEvent
    /\ Signal
    /\ UNCHANGED <<is_running, nonblocking, revents, current, listVars, is_ready, is_canceled, io_errno,
                   memVars, thread, fd>>

\* the kernel: data or room on the descriptor, or a hang-up
FdChange(e, s) ==
    /\ Alive
    /\ IsIo(e) /\ e \in added \ freed
    /\ fd[e] = "busy"
    /\ fd' = [fd EXCEPT ![e] = s]
    /\ UNCHANGED <<mainVars, listVars, eventVars, memVars, lock, thread, monitored, pipe>>

----------------------------------------------------------------------------
MainStep ==
    \/ \E nb \in NonblockModes : Process(nb)
    \/ ScanStep \/ ScanDone
    \/ SetupPoll \/ Poll
    \/ GatherIo \/ GatherHangup \/ GatherOther \/ GatherDone
    \/ Dispatch \/ CallbackEnd \/ DispatchDone

UserStep ==
    \/ \E e \in Events : Add(e) \/ Return(e) \/ Cancel(e)
    \/ Quit \/ Destroy

CompletionStep(e) ==
    Alive /\ (BgStore(e) \/ BgSignal(e) \/ BgErrno(e) \/ BgExit(e))

ThreadStep(e) == (Alive /\ (BgPublish(e) \/ BgCancel(e))) \/ CompletionStep(e)

Next ==
    \/ MainStep
    \/ UserStep
    \/ \E e \in Events : ThreadStep(e)
    \/ \E e \in Events : MonitorPublish(e)
    \/ MonitorStore
    \/ \E e \in Events, s \in {"ready", "closed"} : FdChange(e, s)

Spec == Init /\ [][Next]_vars

\* the scheduler runs every runnable thread: the main thread goes on calling
\* eventloop_process(), and a thread that began to complete an event ends
Fairness ==
    /\ WF_vars(MainStep)
    /\ WF_vars(MonitorStore)
    /\ \A e \in Events : WF_vars(CompletionStep(e))

FairSpec == Spec /\ Fairness

----------------------------------------------------------------------------
(* Type invariant.                                                         *)

TypeOK ==
    /\ pc \in {"idle", "scan", "setup", "poll", "gather", "dispatch", "callback",
              "destroyed", "aborted"}
    /\ is_running \in BOOLEAN /\ nonblocking \in BOOLEAN
    /\ pending \in Seq(Events) /\ kept \in Seq(Events) /\ ready_list \in Seq(Events)
    /\ current \in Events \cup {NoEvent}
    /\ revents \subseteq Events \cup {BgFd}
    /\ lock \in {"none", "main", "monitor"}
    /\ is_ready \in [Events -> BOOLEAN]
    /\ is_canceled \in [Events -> BOOLEAN]
    /\ io_errno \in [Events -> BOOLEAN]
    /\ result \in [Events -> {"unset", "value"}]
    /\ thread \in [Events -> ThreadStates]
    /\ monitored \in Events \cup {NoEvent}
    /\ fd \in [Events -> {"busy", "ready", "closed"}]
    /\ pipe \in 0 .. PipeCapacity
    /\ added \subseteq Events /\ freed \subseteq Events
    /\ got \in [Events -> {"none", "unset", "value", "error", "no_errno"}]

(* Safety.                                                                 *)

\* Every event that was added and not freed is in exactly one place: once in
\* the pending list, once in the ready list, or under its callback.  (A list
\* node in two lists, or freed while linked, corrupts both.)
NoRepeats(s) == \A m, n \in 1 .. Len(s) : s[m] = s[n] => m = n

OwnedOnce ==
    /\ NoRepeats(kept) /\ NoRepeats(pending) /\ NoRepeats(ready_list)
    /\ Elems(kept) \cap Elems(pending) = {}
    /\ Elems(kept) \cap Elems(ready_list) = {}
    /\ Elems(pending) \cap Elems(ready_list) = {}
    /\ current \notin Elems(kept) \cup Elems(pending) \cup Elems(ready_list)
    /\ added \ freed = Elems(kept) \cup Elems(pending) \cup Elems(ready_list)
                           \cup ({current} \ {NoEvent})
    /\ freed \subseteq added

\* the completer of a task's or a subprocess's event has signalled the loop
HasSignalled(e) ==
    is_ready[e] /\ IF Kind[e] = "bg_task" THEN thread[e] \in {"closing", "done"}
                                         ELSE monitored # e

\* The loop never sleeps on a completed task: if it is about to wait, or
\* waits, and a pending task or subprocess has been completed and signalled,
\* then a byte is in the pipe and poll() returns.  The byte of a completion
\* that came after the scan must survive every drain of the pipe.
NoLostWakeup ==
    pc \in {"setup", "poll"} =>
        \A e \in Elems(pending) : IsNonIo(e) /\ HasSignalled(e) => pipe > 0

\* Whatever reaches the ready list was completed before: the assertion of
\* event_get_result() ("must get result when event is ready") holds in every
\* callback.
DispatchedIsCompleted ==
    \A e \in Elems(ready_list) \cup ({current} \ {NoEvent}) : Completed(e)

\* event.h on event_return() and event_cancel(): the callback receives the
\* result, or the error code, that the event was completed with.  It holds of
\* the events that are not completed from the thread of a background task:
\* what the monitor thread stores under the lock is never read half-written.
ResultDeliveredUnderLock ==
    \A e \in Events : Kind[e] # "bg_task" => got[e] \notin {"unset", "no_errno"}

\* A freed event stays freed: no list links it and its callback is over.
StaysFreed ==
    \A e \in freed : /\ e \in freed'
                     /\ got'[e] = got[e]
                     /\ e \notin Elems((kept \o pending \o ready_list)')

\* Once freed (event.c:645), an event's callback is over for good: no step
\* links it again or runs its callback again.
FreedForGood == [][StaysFreed]_vars

\* Whoever has the lock as the main thread is in a walk of the list.  The loop
\* does nothing to its lists but what module EventQueue allows: it appends
\* between two walks, takes and keeps only during one, and dispatches from the
\* front.  (EventList shows that the linked lists do the same.)
Queue == INSTANCE EventQueue WITH walking <- lock = "main", ready <- ready_list

UsesQueue == Queue!Spec

(* What the safety invariants need to be inductive.                        *)

\* the lock, the walk and the callback in terms of the control state
ControlInv ==
    /\ pc \in {"scan", "gather"} => lock = "main"
    /\ pc \notin {"scan", "gather", "aborted"} => kept = <<>>
    /\ pc \notin {"callback", "aborted"} => current = NoEvent
    /\ pc = "callback" => current # NoEvent
    /\ lock = "monitor" <=> monitored # NoEvent

\* the monitor's event stays in the pending list while it has the lock
MonitorInv ==
    lock = "monitor" =>
        /\ Kind[monitored] = "subprocess" /\ is_ready[monitored]
        /\ monitored \notin Elems(ready_list) \cup {current}

\* how far the completion of each event has come
CompletionInv ==
    \A e \in Events :
        /\ e \notin added => thread[e] = "none"
        /\ is_ready[e] => thread[e] \notin {"running", "canceling"}
        /\ Kind[e] = "bg_task" /\ is_ready[e] => thread[e] # "none"
        /\ Kind[e] # "bg_task" => thread[e] = "none"
        /\ Kind[e] # "bg_task" /\ is_ready[e] /\ monitored # e => result[e] = "value"
        /\ Kind[e] # "bg_task" /\ is_canceled[e] => io_errno[e]

\* NoLostWakeup, from the moment the scan has left a task in the list
WakeupInv ==
    /\ pc = "scan" =>
        \A e \in Elems(kept) : IsNonIo(e) /\ HasSignalled(e) => pipe > 0
    /\ NoLostWakeup

(* Liveness.                                                               *)

Stopped == ~is_running \/ pc = "aborted"

\* An event that was completed gets its callback, as long as the program
\* goes on calling eventloop_process(), does not force it not to block, and
\* does not stop the loop.
CompletedIsDelivered ==
    \A e \in Events :
        is_ready[e] \/ (is_canceled[e] /\ Kind[e] # "bg_task") ~> e \in freed \/ Stopped
============================================================================
