------------------------- MODULE SubprocessMonitor -------------------------
(***************************************************************************)
(* The thread that waits for subprocesses on behalf of an event loop:      *)
(* eventloop_monitor_subprocesses() and eventloop_add_subprocess() of      *)
(* src/src/io/event.c, with the mutex they share with the walks of the     *)
(* pending list.                                                           *)
(*                                                                         *)
(* Only events of subprocesses are in this list, each named by its         *)
(* process.  eventloop_process() is one step here: it walks the list under *)
(* the lock (module EventLoop has its detail, and the bytes that the       *)
(* monitor writes to wake poll()).  A program forks and adds nothing after *)
(* it has called eventloop_quit().                                         *)
(***************************************************************************)
EXTENDS Naturals, Sequences, Lists

CONSTANTS
    Managed,        \* processes that get an event
    Unmanaged,      \* other children of the program
    CreateMayFail,  \* whether thrd_create() may fail
    NoProcess

ASSUME ProcessAssumption ==
    /\ Managed \cap Unmanaged = {}
    /\ NoProcess \notin Managed \cup Unmanaged
ASSUME CreateAssumption == CreateMayFail \in BOOLEAN

Process == Managed \cup Unmanaged

VARIABLES
    child,              \* what the kernel knows of each process
    lock,               \* monitoring_lock, a plain mutex
    main, adding,       \* the main thread: position, and the process being added
    pending,            \* the list of pending events
    ready, delivered,   \* completed events, and those whose callback ran
    is_running, monitoring_thread_running, destroyed,
    monitor,            \* the position of the monitor thread
    child_pid, cursor, is_monitored,    \* its local variables
    ready_processes     \* loop->ready_processes

mainVars    == <<main, adding, is_running, monitoring_thread_running, destroyed>>
listVars    == <<pending, ready, delivered>>
monitorVars == <<monitor, child_pid, cursor, is_monitored, ready_processes>>
vars == <<child, lock, mainVars, listVars, monitorVars>>

Init ==
    /\ child = [p \in Process |-> "none"]
    /\ lock = "none"
    /\ main = "user" /\ adding = NoProcess
    /\ pending = <<>> /\ ready = {} /\ delivered = {}
    /\ is_running = TRUE /\ monitoring_thread_running = FALSE /\ destroyed = FALSE
    /\ monitor = "off"
    /\ child_pid = NoProcess /\ cursor = 0 /\ is_monitored = FALSE
    /\ ready_processes = <<>>

----------------------------------------------------------------------------
(* The kernel and the main thread.                                         *)

Fork(p) ==
    /\ main = "user" /\ is_running
    /\ child[p] = "none"
    /\ child' = [child EXCEPT ![p] = "running"]
    /\ UNCHANGED <<lock, mainVars, listVars, monitorVars>>

Exit(p) ==
    /\ child[p] = "running"
    /\ child' = [child EXCEPT ![p] = "zombie"]
    /\ UNCHANGED <<lock, mainVars, listVars, monitorVars>>

\* eventloop_add_subprocess(), first the event: eventloop_add_event() does not
\* take the lock, and nothing tells the caller that the monitor has reaped the
\* process already, or is walking the list for it.
AddEvent(p) ==
    /\ main = "user" /\ is_running
    /\ p \in Managed /\ child[p] # "none"
    /\ p \notin ToSet(pending) \cup delivered
    /\ pending' = Append(pending, p)
    /\ main' = "adding" /\ adding' = p
    /\ UNCHANGED <<child, lock, ready, delivered, is_running, monitoring_thread_running, destroyed, monitorVars>>

LockToStart ==
    /\ main = "adding" /\ lock = "none"
    /\ lock' = "main"
    /\ main' = "starting"
    /\ UNCHANGED <<child, adding, is_running, monitoring_thread_running, destroyed, listVars, monitorVars>>

\* then the thread, if the flag says that there is none
StartMonitor ==
    /\ main = "starting"
    /\ monitoring_thread_running' = TRUE
    /\ monitor' = IF monitoring_thread_running THEN monitor ELSE "top"
    /\ lock' = "none"
    /\ main' = "user" /\ adding' = NoProcess
    /\ UNCHANGED <<child, is_running, destroyed, listVars, child_pid, cursor, is_monitored, ready_processes>>

\* thrd_create() fails: the event is removed again, the flag stays set
StartFails ==
    /\ main = "starting" /\ CreateMayFail
    /\ ~monitoring_thread_running
    /\ monitoring_thread_running' = TRUE
    /\ pending' = Only(pending, Process \ {adding})
    /\ lock' = "none"
    /\ main' = "user" /\ adding' = NoProcess
    /\ UNCHANGED <<child, is_running, destroyed, ready, delivered, monitorVars>>

\* mutant of EventloopProcess: the walk does not take the lock
EventloopProcessUnlocked ==
    /\ main = "user" /\ ~destroyed
    /\ \E p \in ToSet(pending) : p \in ready
    /\ delivered' = delivered \cup (ToSet(pending) \cap ready)
    /\ pending' = Only(pending, Process \ ready)
    /\ UNCHANGED <<child, lock, mainVars, ready, monitorVars>>

EventloopProcess ==
    /\ main = "user" /\ ~destroyed
    /\ lock = "none"
    /\ \E p \in ToSet(pending) : p \in ready
    /\ delivered' = delivered \cup (ToSet(pending) \cap ready)
    /\ pending' = Only(pending, Process \ ready)
    /\ UNCHANGED <<child, lock, mainVars, ready, monitorVars>>

\* eventloop_quit()
Quit ==
    /\ main = "user" /\ is_running
    /\ is_running' = FALSE
    /\ monitoring_thread_running' = FALSE
    /\ UNCHANGED <<child, lock, main, adding, destroyed, listVars, monitorVars>>

\* eventloop_destroy(): takes no lock, leaves the flag, frees the loop
Destroy ==
    /\ main = "user" /\ ~destroyed
    /\ is_running' = FALSE
    /\ destroyed' = TRUE
    /\ pending' = <<>>
    /\ UNCHANGED <<child, lock, main, adding, monitoring_thread_running, ready, delivered, monitorVars>>

----------------------------------------------------------------------------
(* The monitor thread.  A step that uses a destroyed loop is undefined.    *)

Top ==
    /\ monitor = "top" /\ ~destroyed
    /\ monitor' = IF monitoring_thread_running THEN "lock_queue" ELSE "off"
    /\ UNCHANGED <<child, lock, mainVars, listVars, child_pid, cursor, is_monitored, ready_processes>>

\* the walk of ready_processes: each of its elements makes the thread lock the
\* mutex that it already holds, and wait for itself
LockQueue ==
    /\ monitor = "lock_queue" /\ ~destroyed
    /\ lock = "none"
    /\ lock' = "monitor"
    /\ monitor' = IF ready_processes = <<>> THEN "unlock_queue" ELSE "relock"
    /\ UNCHANGED <<child, mainVars, listVars, child_pid, cursor, is_monitored, ready_processes>>

UnlockQueue ==
    /\ monitor = "unlock_queue" /\ ~destroyed
    /\ lock' = "none"
    /\ monitor' = "wait"
    /\ UNCHANGED <<child, mainVars, listVars, child_pid, cursor, is_monitored, ready_processes>>

\* wait() takes the status of any child
Wait(p) ==
    /\ monitor = "wait"
    /\ child[p] = "zombie"
    /\ child' = [child EXCEPT ![p] = "reaped"]
    /\ child_pid' = p
    /\ monitor' = "lock_match"
    /\ UNCHANGED <<lock, mainVars, listVars, cursor, is_monitored, ready_processes>>

\* ECHILD
NoChild ==
    /\ monitor = "wait"
    /\ \A p \in Process : child[p] \notin {"running", "zombie"}
    /\ monitor' = "top"
    /\ UNCHANGED <<child, lock, mainVars, listVars, child_pid, cursor, is_monitored, ready_processes>>

\* eventloop_pending_events_foreach(), whose cursor is read before the body
LockMatch ==
    /\ monitor = "lock_match" /\ ~destroyed
    /\ lock = "none"
    /\ lock' = "monitor"
    /\ is_monitored' = FALSE
    /\ cursor' = IF pending = <<>> THEN 0 ELSE 1
    /\ monitor' = "match"
    /\ UNCHANGED <<child, mainVars, listVars, child_pid, ready_processes>>

Match ==
    /\ monitor = "match" /\ ~destroyed
    /\ cursor # 0
    /\ cursor' = IF cursor < Len(pending) THEN cursor + 1 ELSE 0
    /\ ready' = IF pending[cursor] = child_pid THEN ready \cup {child_pid} ELSE ready
    /\ is_monitored' = (is_monitored \/ pending[cursor] = child_pid)
    /\ UNCHANGED <<child, lock, mainVars, pending, delivered, monitor, child_pid, ready_processes>>

\* mutants of UnlockMatch: a process without an event is forgotten; the lock
\* is kept
UnlockMatchForgets ==
    /\ monitor = "match" /\ ~destroyed
    /\ cursor = 0
    /\ lock' = "none"
    /\ monitor' = "top"
    /\ child_pid' = NoProcess
    /\ UNCHANGED <<child, mainVars, listVars, cursor, is_monitored, ready_processes>>
UnlockMatchKeepsLock ==
    /\ monitor = "match" /\ ~destroyed
    /\ cursor = 0
    /\ monitor' = IF is_monitored THEN "top" ELSE "save"
    /\ child_pid' = IF is_monitored THEN NoProcess ELSE child_pid
    /\ UNCHANGED <<child, lock, mainVars, listVars, cursor, is_monitored, ready_processes>>

UnlockMatch ==
    /\ monitor = "match" /\ ~destroyed
    /\ cursor = 0
    /\ lock' = "none"
    /\ monitor' = IF is_monitored THEN "top" ELSE "save"
    /\ child_pid' = IF is_monitored THEN NoProcess ELSE child_pid
    /\ UNCHANGED <<child, mainVars, listVars, cursor, is_monitored, ready_processes>>

Save ==
    /\ monitor = "save" /\ ~destroyed
    /\ lock = "none"
    /\ ready_processes' = Append(ready_processes, child_pid)
    /\ child_pid' = NoProcess
    /\ monitor' = "top"
    /\ UNCHANGED <<child, lock, mainVars, listVars, cursor, is_monitored>>

UseAfterDestroy ==
    /\ destroyed
    /\ monitor \notin {"off", "wait", "undefined"}
    /\ monitor' = "undefined"
    /\ UNCHANGED <<child, lock, mainVars, listVars, child_pid, cursor, is_monitored, ready_processes>>

----------------------------------------------------------------------------
MonitorStep ==
    \/ Top \/ LockQueue \/ UnlockQueue
    \/ \E p \in Process : Wait(p)
    \/ NoChild \/ LockMatch \/ Match \/ UnlockMatch \/ Save \/ UseAfterDestroy

MainStep == LockToStart \/ StartMonitor \/ StartFails \/ EventloopProcess

Next ==
    \/ \E p \in Process : Fork(p) \/ Exit(p) \/ AddEvent(p)
    \/ MainStep \/ Quit \/ Destroy
    \/ MonitorStep

Spec == Init /\ [][Next]_vars

\* Both threads run and the main thread goes on calling eventloop_process().
\* Its steps need the mutex, which is free again and again for as long as the
\* monitor sleeps or waits, so that a thread queueing for it gets it.
FairSpec == Spec /\ SF_vars(MainStep) /\ WF_vars(MonitorStep)

----------------------------------------------------------------------------
\* The exit status of a child that wait() took is never dropped, and nobody
\* has one that wait() did not take: the monitor has it in hand, an event was
\* completed with it and perhaps delivered, or it is saved.  (wait() returns
\* it only once.)
StatusNeverLost ==
    \A p \in Process :
        child[p] = "reaped" <=>
            p = child_pid \/ p \in ready \cup delivered \/ p \in ToSet(ready_processes)

\* The walk of the monitor, which holds the lock from end to end, never stands
\* on an event that the main thread has removed and freed.
WalkStaysInList == monitor = "match" /\ ~destroyed => cursor <= Len(pending)

\* event.h on eventloop_add_subprocess(): "This event will complete on its own
\* when the process finishes", as long as the loop runs.
Finished(p) == p \in ToSet(pending) /\ child[p] # "running"

FinishedIsDelivered ==
    \A p \in Managed : Finished(p) ~> p \notin ToSet(pending) \/ ~is_running

\* What is left of it: the only ways for the end of a process to get lost are a
\* status that was saved for later, and a monitor that could not be created.
FinishedIsDeliveredUnlessSaved ==
    \A p \in Managed :
        Finished(p) ~> p \notin ToSet(pending) \/ ~is_running \/ ready_processes # <<>> \/ monitor = "off"
============================================================================
