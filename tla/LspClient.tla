----------------------------- MODULE LspClient ------------------------------
(***************************************************************************)
(* Waiting for diagnostics: src/src/lsp/lsp-client.c, the diagnostics      *)
(* instruction of src/src/vm/lstf-vm-lsp.c that uses it, and the reference *)
(* counts of the parameter objects that pass between them                  *)
(* (src/src/json/json.c).                                                  *)
(*                                                                         *)
(* The notifications come from the listening loop of JsonRpcServer.  Its   *)
(* invariant HandlersApart says that the callbacks which one handler       *)
(* caused run before the next handler does.  Instructions run between two  *)
(* iterations of the event loop (module VMScheduler).                      *)
(***************************************************************************)
EXTENDS Naturals, Sequences, SequencesExt, Lists

CONSTANTS
    Waits,          \* the diagnostics instructions a program executes
    Documents,
    Wants,          \* the document each of them asks about
    Notices,        \* the parameters of the notifications the server sends
    None

ASSUME WantsAssumption == Wants \in [Waits -> Documents]
ASSUME NoneAssumption == None \notin Waits \cup Documents \cup Notices

VARIABLES
    waiters,        \* client->diagnostics_waiters
    results,        \* client->diagnostics_results
    about,          \* the uri in the parameters, once they were received
    refs,           \* their reference count
    events,         \* the pending events of the waits, in the order they were added
    given,          \* the result of those that were completed
    batch,          \* the ready events of this iteration, first callback first
    owed,           \* waits that the last handler completed, not called back yet
    started,        \* instructions that were executed
    pushed,         \* the value each has pushed on its coroutine's stack
    undefined       \* memory that was freed has been used

clientVars == <<waiters, results>>
loopVars   == <<events, given, batch>>
vars == <<clientVars, about, refs, loopVars, owed, started, pushed, undefined>>

Init ==
    /\ waiters = <<>> /\ results = <<>>
    /\ about = [p \in Notices |-> None]
    /\ refs = [p \in Notices |-> 0]
    /\ events = <<>> /\ given = [w \in Waits |-> None] /\ batch = <<>>
    /\ owed = {} /\ started = {}
    /\ pushed = [w \in Waits |-> None]
    /\ undefined = FALSE

Freed(p) == about[p] # None /\ refs[p] = 0

\* event_return(w, p) for each wait in W
ReturnTo(W, p) == given' = [w \in Waits |-> IF w \in W THEN p ELSE given[w]]

PublishKeepsWaiters(p, d) ==
    /\ ~undefined
    /\ owed = {}
    /\ about[p] = None
    /\ about' = [about EXCEPT ![p] = d]
    /\ ReturnTo(ToSet(waiters), p)
    /\ owed' = ToSet(waiters)
    /\ refs' = [refs EXCEPT ![p] = IF waiters = <<>> THEN 1 ELSE Len(waiters)]
    /\ results' = IF waiters = <<>> THEN Append(results, p) ELSE results
    /\ UNCHANGED <<waiters, events, batch, started, pushed, undefined>>

\* lsp_client_handle_publish_diagnostics(): every waiter gets the parameters
\* and a reference, or the list does; then the message they came in is dropped
Publish(p, d) ==
    /\ ~undefined
    /\ owed = {}
    /\ about[p] = None
    /\ about' = [about EXCEPT ![p] = d]
    /\ ReturnTo(ToSet(waiters), p)
    /\ waiters' = <<>>
    /\ owed' = ToSet(waiters)
    /\ IF waiters # <<>>
         THEN /\ refs' = [refs EXCEPT ![p] = Len(waiters)]
              /\ UNCHANGED results
         ELSE /\ refs' = [refs EXCEPT ![p] = 1]
              /\ results' = Append(results, p)
    /\ UNCHANGED <<events, batch, started, pushed, undefined>>

\* lsp_client_wait_for_diagnostics_async(): the wait is registered and the
\* saved results are drained while there is a waiter.  The first goes to all
\* of them without a reference, and its link in the list drops its own.
WaitForDiagnostics(w) ==
    /\ events' = Append(events, w)
    /\ LET registered == Append(waiters, w)
       IN  IF results = <<>>
             THEN waiters' = registered /\ given' = [given EXCEPT ![w] = None] /\ UNCHANGED <<results, refs>>
             ELSE /\ ReturnTo(ToSet(registered), Head(results))
                  /\ waiters' = <<>>
                  /\ results' = Tail(results)
                  /\ refs' = [refs EXCEPT ![Head(results)] = @ - 1]

\* lstf_vm_vmcall_diagnostics_exec()
Execute(w) ==
    /\ ~undefined
    /\ batch = <<>>
    /\ w \notin started
    /\ started' = started \cup {w}
    /\ WaitForDiagnostics(w)
    /\ UNCHANGED <<about, batch, owed, pushed, undefined>>

\* eventloop_process(): the callbacks of the completed events, last first
Completed == {w \in Waits : given[w] # None}
Pending   == {w \in Waits : given[w] = None}

Iterate ==
    /\ ~undefined
    /\ batch = <<>>
    /\ ToSet(events) \cap Completed # {}
    /\ batch' = Reverse(Only(events, Completed))
    /\ events' = Only(events, Pending)
    /\ UNCHANGED <<clientVars, about, refs, given, owed, started, pushed, undefined>>

\* lstf_vm_vmcall_diagnostics_exec_cb()
Callback(w) ==
    /\ ~undefined
    /\ batch # <<>> /\ Head(batch) = w
    /\ batch' = Tail(batch)
    /\ owed' = owed \ {w}

\* mutant of Deliver: the comparison of the documents is inverted
DeliverOther(w) ==
    /\ Callback(w)
    /\ ~Freed(given[w]) /\ about[given[w]] # Wants[w]
    /\ pushed' = [pushed EXCEPT ![w] = given[w]]
    /\ refs' = [refs EXCEPT ![given[w]] = @ + 1]
    /\ UNCHANGED <<clientVars, about, events, given, started, undefined>>

\* for the document that is wanted: the stack takes a reference of its own
Deliver(w) ==
    /\ Callback(w)
    /\ ~Freed(given[w]) /\ about[given[w]] = Wants[w]
    /\ pushed' = [pushed EXCEPT ![w] = given[w]]
    /\ refs' = [refs EXCEPT ![given[w]] = @ + 1]
    /\ UNCHANGED <<clientVars, about, events, given, started, undefined>>

\* and for another: it waits again
WaitAgain(w) ==
    /\ Callback(w)
    /\ ~Freed(given[w]) /\ about[given[w]] # Wants[w]
    /\ WaitForDiagnostics(w)
    /\ UNCHANGED <<about, started, pushed, undefined>>

\* parameters that were freed may read as anything
UseFreed(w) ==
    /\ Callback(w)
    /\ Freed(given[w])
    /\ undefined' = TRUE
    /\ UNCHANGED <<clientVars, about, refs, events, given, started, pushed>>

LoopStep == Iterate \/ \E w \in Waits : Deliver(w) \/ WaitAgain(w) \/ UseFreed(w)

Next ==
    \/ \E p \in Notices, d \in Documents : Publish(p, d)
    \/ \E w \in Waits : Execute(w)
    \/ LoopStep

Spec == Init /\ [][Next]_vars

\* the virtual machine goes on calling eventloop_process()
FairSpec == Spec /\ WF_vars(LoopStep)

----------------------------------------------------------------------------
\* Every wait that was executed and has not pushed its value has one event,
\* and it is registered with the client exactly as long as that event is
\* pending.  So no event is completed twice, after it was freed, or never.
\* While somebody waits nothing is saved, and what is saved is referenced: no
\* wait sits beside the notification that would end it.
WaitIsRegistered ==
    /\ waiters = <<>> \/ results = <<>>
    /\ \A p \in ToSet(results) : about[p] # None /\ refs[p] > 0
    /\ ~undefined =>
           /\ \A w \in started : pushed[w] = None => w \in ToSet(events) \cup ToSet(batch)
           /\ IsInjective(events \o batch)
           /\ IsInjective(waiters)
           /\ ToSet(waiters) = ToSet(events) \cap Pending

\* A wait that is registered when the diagnostics of its document arrive ends,
\* whatever other waits the same notification starts again.
NotifiedIsDelivered ==
    \A w \in Waits :
        w \in owed /\ about[given[w]] = Wants[w] ~> pushed[w] = given[w] \/ undefined
============================================================================
