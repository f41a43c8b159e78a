---------------------------- MODULE VMScheduler ----------------------------
(***************************************************************************)
(* lstf_virtualmachine_run() of src/src/vm/lstf-virtualmachine.c: the run  *)
(* queue, the list of suspended coroutines, the context switch every       *)
(* Cycles instructions, and the calls of eventloop_process() that complete *)
(* the I/O of the instructions of lstf-vm-lsp.c.                           *)
(*                                                                         *)
(* An instruction is abstracted to what it does to the scheduler.  An I/O  *)
(* operation needs several trips through the event loop (its legs: one for *)
(* each event that its protocol waits for in turn) before the callback     *)
(* that decrements outstanding_io.                                         *)
(***************************************************************************)
EXTENDS Naturals, Sequences, FiniteSets, SequencesExt, Lists

CONSTANTS
    Coroutine, Main,    \* the coroutines a program may create, and the first
    Op,                 \* the I/O operations its instructions may start
    None,
    Cycles,             \* LSTF_VM_CONTEXT_SWITCH_CYCLES
    MaxLegs,            \* events that one operation waits for, at most
    Debug               \* vm->debug

ASSUME CoroutineAssumption == Main \in Coroutine /\ None \notin Coroutine
ASSUME OpAssumption == IsFiniteSet(Op)
ASSUME CyclesAssumption == Cycles \in Nat \ {0}
ASSUME LegsAssumption == MaxLegs \in Nat \ {0}
ASSUME DebugAssumption == Debug \in BOOLEAN

VARIABLES
    pc,             \* where lstf_virtualmachine_run() is
    status,         \* vm->last_status
    run_queue, suspended,
    current,        \* the coroutine taken off the queue
    created, finished,
    outstanding,    \* outstanding_io of each coroutine
    executed,       \* vm->instructions_executed
    processed,      \* whether the wait has processed an event
    legs,           \* trips that remain of each operation in flight
    owner,          \* the coroutine an operation was started by
    background      \* the loop has pending events that belong to no operation

schedVars == <<run_queue, suspended, current, created, finished>>
ioVars    == <<outstanding, legs, owner, background>>
vars == <<pc, status, schedVars, ioVars, executed, processed>>

InFlight == {o \in Op : owner[o] # None /\ legs[o] > 0}
Unused   == {o \in Op : owner[o] = None}

Init ==
    /\ pc = "top"
    /\ status = "continue"
    /\ run_queue = <<>> /\ suspended = <<>>
    /\ current = None
    /\ created = {} /\ finished = {}
    /\ outstanding = [c \in Coroutine |-> 0]
    /\ executed = 0
    /\ processed = FALSE
    /\ legs = [o \in Op |-> 0]
    /\ owner = [o \in Op |-> None]
    /\ background = FALSE

----------------------------------------------------------------------------
(* The head of the loop.                                                   *)

MayRun == status \in {"continue", "hit_breakpoint"}

\* run() returns: to the debugger if at a breakpoint, or for good
ReturnStopped ==
    /\ pc = "top" /\ ~MayRun
    /\ pc' = "returned"
    /\ UNCHANGED <<status, schedVars, ioVars, executed, processed>>

CreateMain ==
    /\ pc = "top" /\ MayRun
    /\ Main \notin created
    /\ created' = created \cup {Main}
    /\ run_queue' = Append(run_queue, Main)
    /\ UNCHANGED <<pc, status, suspended, current, finished, ioVars, executed, processed>>

Busy == Main \in created /\ (run_queue # <<>> \/ suspended # <<>>)

AllFinished ==
    /\ pc = "top" /\ MayRun
    /\ Main \in created /\ ~Busy
    /\ status' = IF status = "continue" THEN "exited" ELSE status
    /\ pc' = "returned"
    /\ UNCHANGED <<schedVars, ioVars, executed, processed>>

\* the context switch: one iteration of the event loop
EnterSwitch ==
    /\ pc = "top" /\ MayRun /\ Busy
    /\ executed >= Cycles
    /\ executed' = 0
    /\ pc' = "switch"
    /\ UNCHANGED <<status, schedVars, ioVars, processed>>

\* every coroutine waits for I/O
EnterWait ==
    /\ pc = "top" /\ MayRun /\ Busy
    /\ executed < Cycles /\ run_queue = <<>>
    /\ processed' = FALSE
    /\ pc' = "wait"
    /\ UNCHANGED <<status, schedVars, ioVars, executed>>

SkipLoop ==
    /\ pc = "top" /\ MayRun /\ Busy
    /\ executed < Cycles /\ run_queue # <<>>
    /\ pc' = "resync"
    /\ UNCHANGED <<status, schedVars, ioVars, executed, processed>>

----------------------------------------------------------------------------
(* eventloop_process(): the events of the operations in D fire.  The last  *)
(* event of an operation runs the callback of its instruction.             *)

\* what such a callback does: complete, complete and raise an error, or (the
\* callback of a diagnostics call, when it fails) raise without completing
Outcomes == {"ok", "raise", "raise_keep"}

\* lstf_virtualmachine_raise()
Raise(raised) == IF raised /\ status = "continue" THEN "raised" ELSE status

FireEvents(D, out) ==
    LET last == {o \in D : legs[o] = 1}
        completed == {o \in last : out[o] # "raise_keep"}
    IN  /\ legs' = [o \in Op |-> IF o \in D THEN legs[o] - 1 ELSE legs[o]]
        /\ outstanding' = [c \in Coroutine |->
                              outstanding[c] - Cardinality({o \in completed : owner[o] = c})]
        /\ status' = Raise(\E o \in last : out[o] # "ok")
        /\ UNCHANGED owner

\* events of no operation may fire, and may be the last of their kind: the
\* server has gone, nothing is read from it any more
FireBackground == background' \in {background, FALSE}

\* what eventloop_process() returns: the loop is never told to quit
MorePending == background' \/ \E o \in Op : owner[o] # None /\ legs'[o] > 0

\* The run loop is in poll(), which comes back only if a descriptor has
\* something to report: the timeout is -1 when no event is ready, and, whatever
\* is ready, when the caller forces the loop not to block.  The context switch
\* does that exactly when a coroutine could run, and that coroutine waits too.
MayBlock   == pc \in {"switch", "wait"} /\ (background \/ InFlight # {})
HeldByPoll == MayBlock /\ pc = "switch" /\ run_queue # <<>>

\* one iteration, if it comes back; its errors are looked at
Switch ==
    /\ pc = "switch"
    /\ \E D \in SUBSET InFlight : \E out \in [D -> Outcomes] : FireEvents(D, out)
    /\ FireBackground
    /\ pc' = IF status' # "continue" THEN "returned" ELSE "resync"
    /\ UNCHANGED <<schedVars, executed, processed>>

\* iterations until a coroutine can go on; the errors of the iteration that
\* leaves no pending event are not looked at
Wait ==
    /\ pc = "wait"
    /\ \E D \in SUBSET InFlight :
          /\ \E out \in [D -> Outcomes] : FireEvents(D, out)
          /\ FireBackground
          /\ processed' \in (IF D # {} THEN {TRUE} ELSE IF background THEN {processed, TRUE} ELSE {processed})
    /\ pc' = IF ~MorePending THEN "resync"
             ELSE IF status' # "continue" THEN "returned"
             ELSE IF processed' /\ \E c \in ToSet(suspended) : outstanding'[c] = 0 THEN "resync"
             ELSE "wait"
    /\ UNCHANGED <<schedVars, executed>>

\* run_queue and suspended_list are made to agree with outstanding_io
Idle    == {c \in Coroutine : outstanding[c] = 0}
Waiting == {c \in Coroutine : outstanding[c] > 0}

\* mutants of Resync: a coroutine that can go on is not unlinked from the
\* suspended list; every suspended coroutine is moved
ResyncKeepsSuspended ==
    /\ pc = "resync"
    /\ run_queue' = run_queue \o Only(suspended, Idle)
    /\ UNCHANGED suspended
    /\ pc' = IF run_queue' = <<>> THEN "assertion_failed" ELSE "pick"
    /\ UNCHANGED <<status, current, created, finished, ioVars, executed, processed>>
ResyncAll ==
    /\ pc = "resync"
    /\ run_queue' = run_queue \o suspended
    /\ suspended' = <<>>
    /\ pc' = IF run_queue' = <<>> THEN "assertion_failed" ELSE "pick"
    /\ UNCHANGED <<status, current, created, finished, ioVars, executed, processed>>

Resync ==
    /\ pc = "resync"
    /\ run_queue' = Only(run_queue, Idle) \o Only(suspended, Idle)
    /\ suspended' = Only(suspended, Waiting) \o Only(run_queue, Waiting)
    /\ pc' = IF run_queue' = <<>> THEN "assertion_failed" ELSE "pick"
    /\ UNCHANGED <<status, current, created, finished, ioVars, executed, processed>>

----------------------------------------------------------------------------
(* One instruction.                                                        *)

\* a breakpoint stops once at the instruction
HitBreakpoint ==
    /\ pc = "pick" /\ Debug
    /\ status # "hit_breakpoint"
    /\ status' = "hit_breakpoint"
    /\ pc' = "returned"
    /\ UNCHANGED <<schedVars, ioVars, executed, processed>>

\* vm->next_stop stops as often as the debugger leaves it in place
SingleStep ==
    /\ pc = "pick" /\ Debug
    /\ status' = "hit_breakpoint"
    /\ pc' = "returned"
    /\ UNCHANGED <<schedVars, ioVars, executed, processed>>

\* the debugger calls lstf_virtualmachine_run() again
Resume ==
    /\ pc = "returned"
    /\ status = "hit_breakpoint"
    /\ pc' = "top"
    /\ UNCHANGED <<status, schedVars, ioVars, executed, processed>>

Pick ==
    /\ pc = "pick"
    /\ current' = Head(run_queue)
    /\ run_queue' = Tail(run_queue)
    /\ pc' = "execute"
    /\ UNCHANGED <<status, suspended, created, finished, ioVars, executed, processed>>

\* mutants of Requeue: outstanding_io is not looked at; a coroutine that waits
\* is dropped; the front of the queue is kept whatever was executed
RequeueAlways(q) ==
    /\ UNCHANGED suspended
    /\ run_queue' = IF executed' >= Cycles THEN Append(q, current) ELSE <<current>> \o q
RequeueDrops(q) ==
    /\ UNCHANGED suspended
    /\ run_queue' = IF outstanding'[current] > 0 THEN q
                    ELSE IF executed' >= Cycles THEN Append(q, current) ELSE <<current>> \o q
RequeueFront(q) ==
    IF outstanding'[current] > 0
      THEN suspended' = Append(suspended, current) /\ run_queue' = q
      ELSE UNCHANGED suspended /\ run_queue' = <<current>> \o q

\* where the coroutine goes after its instruction; q is the run queue by then
Requeue(q) ==
    IF outstanding'[current] > 0
      THEN suspended' = Append(suspended, current) /\ run_queue' = q
      ELSE /\ UNCHANGED suspended
           /\ run_queue' = IF executed' >= Cycles THEN Append(q, current) ELSE <<current>> \o q

Done(q) ==
    /\ pc = "execute"
    /\ executed' = executed + 1
    /\ current' = None
    /\ pc' = "top"
    /\ Requeue(q)
    /\ UNCHANGED processed

\* an instruction that concerns the coroutine alone; it may fail
Plain(st) ==
    /\ UNCHANGED <<ioVars, created, finished>>
    /\ status' = st
    /\ Done(run_queue)

\* connect, td_open (an operation for each document) and diagnostics; td_open
\* may fail at a later document and leave the earlier operations in flight
StartIo(ops, n, st) ==
    /\ ops # {}
    /\ owner' = [o \in Op |-> IF o \in ops THEN current ELSE owner[o]]
    /\ legs' = [o \in Op |-> IF o \in ops THEN n[o] ELSE legs[o]]
    /\ outstanding' = [outstanding EXCEPT ![current] = @ + Cardinality(ops)]
    /\ background' = TRUE
    /\ status' = st
    /\ UNCHANGED <<created, finished>>
    /\ Done(run_queue)

\* lstf_vm_schedule_new_coroutine()
Schedule(c) ==
    /\ c \notin created
    /\ Main # c
    /\ created' = created \cup {c}
    /\ status' = "continue"
    /\ UNCHANGED <<ioVars, finished>>
    /\ Done(Append(run_queue, c))

\* a return from the first frame: pc becomes NULL and the coroutine is dropped
Finish ==
    /\ pc = "execute"
    /\ finished' = finished \cup {current}
    /\ executed' = executed + 1
    /\ current' = None
    /\ status' = "continue"
    /\ pc' = "top"
    /\ UNCHANGED <<run_queue, suspended, created, ioVars, processed>>

\* a bad fetch halts the machine, with the coroutine off the queue
BadFetch ==
    /\ pc = "execute"
    /\ status' = "error"
    /\ pc' = "returned"
    /\ UNCHANGED <<schedVars, ioVars, executed, processed>>

Execute ==
    \/ Plain("continue")
    \/ Plain("error")
    \/ Plain("exited")
    \/ \E ops \in SUBSET Unused : \E n \in [ops -> 1 .. MaxLegs], st \in {"continue", "error"} :
          StartIo(ops, n, st)
    \/ \E c \in Coroutine : Schedule(c)
    \/ Finish
    \/ BadFetch

----------------------------------------------------------------------------
RunStep ==
    \/ ReturnStopped \/ CreateMain \/ AllFinished
    \/ EnterSwitch \/ EnterWait \/ SkipLoop
    \/ Switch \/ Wait
    \/ Resync \/ Pick \/ Execute

Next == RunStep \/ HitBreakpoint \/ SingleStep \/ Resume

Spec == Init /\ [][Next]_vars

\* lstf_virtualmachine_run() goes on by itself, but for poll(): nothing is
\* assumed of the server, which may stay silent for ever
FairSpec == Spec /\ WF_vars(~MayBlock /\ RunStep)

----------------------------------------------------------------------------
\* A coroutine that was created and has not finished is in exactly one place:
\* once in the run queue, once among the suspended, or being executed.  It is
\* neither lost (its program would never end) nor queued twice (it would be
\* executed twice over one stack).
OnePlace ==
    /\ IsInjective(run_queue) /\ IsInjective(suspended)
    /\ ToSet(run_queue) \cap ToSet(suspended) = {}
    /\ current \notin ToSet(run_queue) \cup ToSet(suspended)
    /\ finished \subseteq created
    /\ created \ finished = ToSet(run_queue) \cup ToSet(suspended) \cup ({current} \ {None})

\* When a coroutine is picked, exactly those without outstanding I/O can be:
\* no coroutine runs on a stack that a callback will still push a result to,
\* and none whose I/O is done is left behind.  Callbacks and instructions keep
\* the count: it never counts less than what is in flight, so that no
\* decrement makes it wrap around.
QueuesAgreeWithIo ==
    /\ \A c \in ToSet(run_queue) \cup ({current} \ {None}) : outstanding[c] = 0
    /\ pc = "pick" => \A c \in ToSet(suspended) : outstanding[c] > 0
    /\ \A c \in Coroutine : Cardinality({o \in InFlight : owner[o] = c}) <= outstanding[c]

\* An operation in flight holds a bare pointer to its coroutine (server_data
\* in lstf-vm-lsp.c takes no reference).  The coroutine must still be owned by
\* the suspended list when a callback uses the pointer: it was not executed,
\* finished or dropped meanwhile.
CallbackFindsCoroutine ==
    pc \in {"switch", "wait"} => \A o \in InFlight : owner[o] \in ToSet(suspended)

\* The assertion in lstf_virtualmachine_run(), "there must be at least one
\* runnable coroutine": it holds at least when nothing has failed and the
\* operations that coroutines wait for are still under way.
SomeCoroutineRunnable ==
    pc = "assertion_failed" => status # "continue" \/ InFlight = {}

Stopped == pc = "assertion_failed" \/ (pc = "returned" /\ status # "hit_breakpoint")

\* No starvation: a coroutine that has no outstanding I/O is eventually
\* executed, however the others compute, wait and schedule and whether or not
\* the server answers them, unless the machine stops, stays in the debugger, or
\* is held for ever by a poll() that it asked not to block.
RunnableIsExecuted ==
    \/ []<>(pc = "returned")
    \/ <>[]HeldByPoll
    \/ \A c \in Coroutine :
          c \in created \ finished /\ outstanding[c] = 0 ~> current = c \/ Stopped

(* The coroutines as the program sees them.                                *)
phase == [c \in Coroutine |->
             IF c \notin created THEN "none"
             ELSE IF c \in finished THEN "finished"
             ELSE IF outstanding[c] > 0 THEN "waiting" ELSE "runnable"]

machine == IF Stopped \/ status \in {"error", "exited"} THEN "off" ELSE "on"

Abstract == INSTANCE Coroutines WITH running <- current

\* The run loop implements the promise of module Coroutines.
ImplementsCoroutines == Abstract!Spec
============================================================================
