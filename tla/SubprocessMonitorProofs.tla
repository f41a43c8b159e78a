---------------------- MODULE SubprocessMonitorProofs ----------------------
(***************************************************************************)
(* No exit status is lost, and the walk of the monitor never stands on a   *)
(* freed event, whatever the processes are and whether or not              *)
(* thrd_create() may fail.                                                 *)
(***************************************************************************)
EXTENDS SubprocessMonitor, ListsProofs, TLAPS

----------------------------------------------------------------------------
(* The inductive invariant.                                                *)

HandTypes ==
    /\ child \in [Process -> {"none", "running", "zombie", "reaped"}]
    /\ child_pid \in Process \cup {NoProcess}
    /\ ready \subseteq Process /\ delivered \subseteq Process
    /\ ready_processes \in Seq(Process)

\* The monitor has a status in hand from wait() to the end of its walk, or to
\* the place where it saves it; only then is there something to lose.
InHand == {"lock_match", "match", "save", "undefined"}

HandInv ==
    /\ monitor \notin InHand => child_pid = NoProcess
    /\ monitor \in {"lock_match", "match", "save"} => child_pid # NoProcess

\* is_monitored says that the status was handed to an event.
MatchInv == monitor = "match" /\ is_monitored => child_pid \in ready

\* While the loop runs, a monitor that is not known to run does not: a thread
\* is started in no other state, so that it never takes the hand of another.
OneMonitor ==
    /\ main # "user" => is_running
    /\ is_running /\ ~monitoring_thread_running => monitor = "off"

IInv == HandTypes /\ HandInv /\ MatchInv /\ OneMonitor /\ StatusNeverLost

----------------------------------------------------------------------------
\* At the start there is no status, in hand or saved.
LEMMA InitInv == Init => IInv
<1> SUFFICES ASSUME Init PROVE IInv
  OBVIOUS
<1>1. ToSet(ready_processes) = {}
  BY DEF Init, ToSet
<1>2. HandTypes
  BY DEF Init, HandTypes
<1>3. StatusNeverLost
  BY <1>1, ProcessAssumption DEF Init, StatusNeverLost, Process
<1> QED
  BY <1>2, <1>3 DEF Init, IInv, HandInv, MatchInv, OneMonitor, InHand

\* The steps that touch neither a status nor the hand of the monitor.
\* The hand, and what was taken from it, in a step that moves neither.
Hand == <<child, ready, delivered, child_pid, is_monitored, ready_processes>>

\* The steps that touch neither a status nor the hand of the monitor keep both.
LEMMA HandStill ==
    ASSUME IInv, UNCHANGED Hand
    PROVE  HandTypes' /\ StatusNeverLost'
  BY DEF IInv, Hand, HandTypes, StatusNeverLost, ToSet

\* Steps of the kernel and of the main thread other than completing events
\* and starting the monitor.
LEMMA MainInv ==
    ASSUME IInv, UNCHANGED <<Hand, monitor>>, OneMonitor'
    PROVE  IInv'
<1>1. HandTypes' /\ StatusNeverLost'
  BY HandStill
<1> QED
  BY <1>1 DEF IInv, Hand, HandInv, MatchInv, InHand

\* Steps of the monitor outside its walk.
LEMMA EmptyHandedInv ==
    ASSUME IInv, UNCHANGED <<Hand, mainVars>>,
           monitor \notin InHand \cup {"off"}, monitor' \notin InHand
    PROVE  IInv'
<1>1. HandTypes' /\ StatusNeverLost'
  BY HandStill
<1>2. UNCHANGED <<main, is_running, monitoring_thread_running, child_pid>>
  BY DEF mainVars, Hand
<1> QED
  BY <1>1, <1>2 DEF IInv, HandInv, MatchInv, OneMonitor, InHand

\* A process that starts or ends is not reaped by that.
LEMMA ForkExitInv ==
    ASSUME IInv, NEW p \in Process, Fork(p) \/ Exit(p)
    PROVE  IInv'
<1>1. PICK c \in {"running", "zombie"} : child' = [child EXCEPT ![p] = c]
  BY DEF Fork, Exit
<1>2. child[p] # "reaped"
  BY DEF Fork, Exit
<1>3. UNCHANGED <<mainVars, ready, delivered, child_pid, is_monitored, ready_processes, monitor>>
  BY DEF Fork, Exit, listVars, monitorVars
<1>4. HandTypes'
  BY <1>1, <1>3 DEF IInv, HandTypes
<1>5. \A q \in Process : child'[q] = "reaped" <=> child[q] = "reaped"
  BY <1>1, <1>2 DEF IInv, HandTypes
<1>6. StatusNeverLost'
  BY <1>3, <1>5 DEF IInv, StatusNeverLost, ToSet
<1> QED
  BY <1>3, <1>4, <1>6 DEF IInv, HandInv, MatchInv, OneMonitor, InHand, mainVars

\* A monitor is started with nothing in its hand: none was there before.
LEMMA StartMonitorInv ==
    ASSUME IInv, StartMonitor
    PROVE  IInv'
<1>1. UNCHANGED Hand
  BY DEF StartMonitor, listVars, Hand
<1>2. HandTypes' /\ StatusNeverLost'
  BY <1>1, HandStill
<1>3. UNCHANGED <<child_pid, is_running, is_monitored, ready>> /\ monitoring_thread_running' /\ main' = "user"
  BY DEF StartMonitor, listVars
<1>4. CASE monitoring_thread_running
  <2>1. monitor' = monitor
    BY <1>4 DEF StartMonitor
  <2> QED
    BY <1>2, <1>3, <2>1 DEF IInv, HandInv, MatchInv, OneMonitor, InHand
<1>5. CASE ~monitoring_thread_running
  <2>1. monitor' = "top" /\ monitor = "off"
    BY <1>5 DEF StartMonitor, IInv, OneMonitor
  <2> QED
    BY <1>2, <1>3, <2>1 DEF IInv, HandInv, MatchInv, OneMonitor, InHand
<1> QED
  BY <1>4, <1>5

\* An event that is delivered was completed.
LEMMA EventloopProcessInv ==
    ASSUME IInv, EventloopProcess
    PROVE  IInv'
<1>1. delivered' = delivered \cup (ToSet(pending) \cap ready)
      /\ UNCHANGED <<child, mainVars, ready, child_pid, is_monitored, ready_processes, monitor>>
  BY DEF EventloopProcess, monitorVars
<1>2. ready' \cup delivered' = ready \cup delivered
  BY <1>1
<1>3. HandTypes'
  BY <1>1 DEF IInv, HandTypes
<1>4. StatusNeverLost'
  BY <1>1, <1>2 DEF IInv, StatusNeverLost, ToSet
<1> QED
  BY <1>1, <1>3, <1>4 DEF IInv, HandInv, MatchInv, OneMonitor, InHand, mainVars

\* wait() puts the status of one process into the empty hand.
LEMMA WaitInv ==
    ASSUME IInv, NEW p \in Process, Wait(p)
    PROVE  IInv'
<1>1. /\ child[p] = "zombie" /\ child' = [child EXCEPT ![p] = "reaped"]
      /\ child_pid = NoProcess /\ child_pid' = p
      /\ monitor = "wait" /\ monitor' = "lock_match"
      /\ UNCHANGED <<mainVars, ready, delivered, is_monitored, ready_processes>>
  BY DEF Wait, listVars, IInv, HandInv, InHand
<1>2. HandTypes'
  BY <1>1 DEF IInv, HandTypes
<1>3. ASSUME NEW q \in Process
      PROVE  child'[q] = "reaped" <=> child[q] = "reaped" \/ q = child_pid'
  BY <1>1 DEF IInv, HandTypes
<1>4. \A q \in Process : q # child_pid
  BY <1>1, ProcessAssumption DEF Process
<1>5. StatusNeverLost'
  BY <1>1, <1>3, <1>4 DEF IInv, StatusNeverLost, ToSet
<1> QED
  BY <1>1, <1>2, <1>5, ProcessAssumption
  DEF IInv, HandInv, MatchInv, OneMonitor, InHand, mainVars, Process

\* The walk begins with the status in hand.
LEMMA LockMatchInv ==
    ASSUME IInv, LockMatch
    PROVE  IInv'
<1>1. /\ monitor = "lock_match" /\ monitor' = "match" /\ ~is_monitored'
      /\ UNCHANGED <<child, mainVars, ready, delivered, child_pid, ready_processes>>
  BY DEF LockMatch, listVars
<1> QED
  BY <1>1 DEF IInv, HandTypes, HandInv, MatchInv, OneMonitor, StatusNeverLost, InHand, mainVars, ToSet

\* The walk completes at most the event of the status in hand.
LEMMA MatchStepInv ==
    ASSUME IInv, Match
    PROVE  IInv'
<1>1. /\ monitor = "match" /\ monitor' = "match"
      /\ ready' \in {ready, ready \cup {child_pid}}
      /\ is_monitored' => is_monitored \/ child_pid \in ready'
      /\ UNCHANGED <<child, mainVars, delivered, child_pid, ready_processes>>
  BY DEF Match
<1>2. child_pid \in Process
  BY <1>1 DEF IInv, HandTypes, HandInv
<1>3. HandTypes'
  BY <1>1, <1>2 DEF IInv, HandTypes
<1>4. StatusNeverLost'
  BY <1>1 DEF IInv, StatusNeverLost, ToSet
<1> QED
  BY <1>1, <1>3, <1>4 DEF IInv, HandInv, MatchInv, OneMonitor, mainVars, InHand

\* The hand is emptied only into an event.
LEMMA UnlockMatchInv ==
    ASSUME IInv, UnlockMatch
    PROVE  IInv'
<1>1. /\ monitor = "match"
      /\ UNCHANGED <<child, mainVars, ready, delivered, ready_processes>>
  BY DEF UnlockMatch, listVars
<1>2. CASE is_monitored
  <2>1. child_pid \in ready /\ child_pid' = NoProcess /\ monitor' = "top"
    BY <1>1, <1>2 DEF UnlockMatch, IInv, MatchInv
  <2>2. \A p \in Process : p # NoProcess
    BY ProcessAssumption DEF Process
  <2>3. StatusNeverLost'
    BY <1>1, <2>1, <2>2 DEF IInv, StatusNeverLost, ToSet
  <2> QED
    BY <1>1, <2>1, <2>3 DEF IInv, HandTypes, HandInv, MatchInv, OneMonitor, InHand, mainVars
<1>3. CASE ~is_monitored
  <2>1. child_pid' = child_pid /\ monitor' = "save"
    BY <1>3 DEF UnlockMatch
  <2> QED
    BY <1>1, <2>1 DEF IInv, HandTypes, HandInv, MatchInv, OneMonitor, StatusNeverLost, InHand, mainVars, ToSet
<1> QED
  BY <1>2, <1>3

\* A status for which there is no event moves from the hand to the saved ones.
LEMMA SaveInv ==
    ASSUME IInv, Save
    PROVE  IInv'
<1>1. /\ monitor = "save" /\ monitor' = "top" /\ child_pid' = NoProcess
      /\ ready_processes' = Append(ready_processes, child_pid)
      /\ UNCHANGED <<child, mainVars, ready, delivered, is_monitored>>
  BY DEF Save, listVars
<1>2. child_pid \in Process
  BY <1>1 DEF IInv, HandTypes, HandInv
<1>3. ready_processes' \in Seq(Process) /\ ToSet(ready_processes') = ToSet(ready_processes) \cup {child_pid}
  BY <1>1, <1>2, AppendElems DEF IInv, HandTypes
<1>4. \A p \in Process : p # NoProcess
  BY ProcessAssumption DEF Process
<1>5. ToSet(ready_processes)' = ToSet(ready_processes')
  BY DEF ToSet
<1>6. StatusNeverLost'
  BY <1>1, <1>3, <1>4, <1>5 DEF IInv, StatusNeverLost
<1> QED
  BY <1>1, <1>3, <1>6 DEF IInv, HandTypes, HandInv, MatchInv, OneMonitor, InHand, mainVars

\* A monitor that goes astray keeps what it had.
LEMMA UseAfterDestroyInv ==
    ASSUME IInv, UseAfterDestroy
    PROVE  IInv'
<1>1. UNCHANGED Hand /\ UNCHANGED mainVars /\ monitor # "off" /\ monitor' = "undefined"
  BY DEF UseAfterDestroy, listVars, Hand
<1>2. HandTypes' /\ StatusNeverLost'
  BY <1>1, HandStill
<1> QED
  BY <1>1, <1>2 DEF IInv, HandInv, MatchInv, OneMonitor, InHand, mainVars

\* Every step keeps the invariant.
LEMMA StepInv == IInv /\ [Next]_vars => IInv'
<1> SUFFICES ASSUME IInv, [Next]_vars PROVE IInv'
  OBVIOUS
<1>1. ASSUME NEW p \in Process, Fork(p) \/ Exit(p) PROVE IInv'
  BY <1>1, ForkExitInv
<1>2. ASSUME NEW p \in Process, AddEvent(p) PROVE IInv'
  <2>1. UNCHANGED <<Hand, monitor>>
    BY <1>2 DEF AddEvent, monitorVars, Hand
  <2>2. OneMonitor'
    BY <1>2 DEF AddEvent, monitorVars, IInv, OneMonitor
  <2> QED
    BY <2>1, <2>2, MainInv
<1>3. CASE LockToStart
  <2>1. UNCHANGED <<Hand, monitor>>
    BY <1>3 DEF LockToStart, listVars, monitorVars, Hand
  <2>2. OneMonitor'
    BY <1>3 DEF LockToStart, monitorVars, IInv, OneMonitor
  <2> QED
    BY <2>1, <2>2, MainInv
<1>4. CASE StartMonitor
  BY <1>4, StartMonitorInv
<1>5. CASE StartFails
  <2>1. UNCHANGED <<Hand, monitor>>
    BY <1>5 DEF StartFails, monitorVars, Hand
  <2>2. OneMonitor'
    BY <1>5 DEF StartFails, monitorVars, IInv, OneMonitor
  <2> QED
    BY <2>1, <2>2, MainInv
<1>6. CASE EventloopProcess
  BY <1>6, EventloopProcessInv
<1>7. CASE Quit \/ Destroy
  <2>1. UNCHANGED <<Hand, monitor>>
    BY <1>7 DEF Quit, Destroy, listVars, monitorVars, Hand
  <2>2. OneMonitor'
    BY <1>7 DEF Quit, Destroy, IInv, OneMonitor
  <2> QED
    BY <2>1, <2>2, MainInv
<1>8. CASE Top \/ LockQueue \/ UnlockQueue \/ NoChild
  <2>1. UNCHANGED <<Hand, mainVars>>
    BY <1>8 DEF Top, LockQueue, UnlockQueue, NoChild, listVars, Hand
  <2>2. monitor \notin InHand \cup {"off"} /\ monitor' \notin InHand
    BY <1>8 DEF Top, LockQueue, UnlockQueue, NoChild, InHand
  <2> QED
    BY <2>1, <2>2, EmptyHandedInv
<1>9. ASSUME NEW p \in Process, Wait(p) PROVE IInv'
  BY <1>9, WaitInv
<1>10. CASE LockMatch \/ Match \/ UnlockMatch \/ Save \/ UseAfterDestroy
  BY <1>10, LockMatchInv, MatchStepInv, UnlockMatchInv, SaveInv, UseAfterDestroyInv
<1>11. CASE UNCHANGED vars
  <2>1. UNCHANGED <<Hand, mainVars, monitor>>
    BY <1>11 DEF vars, listVars, monitorVars, Hand
  <2>2. OneMonitor'
    BY <2>1 DEF mainVars, IInv, OneMonitor
  <2> QED
    BY <2>1, <2>2, MainInv
<1> QED
  BY <1>1, <1>2, <1>3, <1>4, <1>5, <1>6, <1>7, <1>8, <1>9, <1>10, <1>11
  DEF Next, MainStep, MonitorStep

\* The exit status of a child is with the monitor, with an event or saved, as
\* soon as wait() has taken it and never before (event.c:310-362).
THEOREM NothingLost == Spec => []StatusNeverLost
<1>1. IInv => StatusNeverLost
  BY DEF IInv
<1> QED
  BY <1>1, InitInv, StepInv, PTL DEF Spec

----------------------------------------------------------------------------
(* The walk of the monitor.  Its cursor is in the list for as long as only *)
(* the holder of the lock takes events from it; what the main thread does  *)
(* to the list without the lock appends, or is the end of the loop.        *)

LockHeld ==
    /\ main = "starting" => lock = "main"
    /\ monitor \in {"unlock_queue", "relock", "match"} => lock = "monitor"

WalkInv ==
    /\ pending \in Seq(Process) /\ cursor \in Nat
    /\ LockHeld
    /\ WalkStaysInList

\* No walk has begun at the start.
LEMMA InitWalk == Init => WalkInv
<1> SUFFICES ASSUME Init PROVE WalkInv
  OBVIOUS
<1>1. pending \in Seq(Process)
  BY EmptyElems DEF Init
<1> QED
  BY <1>1 DEF Init, WalkInv, LockHeld, WalkStaysInList

\* Steps that leave the list alone and neither begin nor move a walk.
LEMMA ListStillWalk ==
    ASSUME WalkInv, UNCHANGED <<pending, cursor>>, LockHeld',
           monitor' = "match" => monitor = "match",
           destroyed => destroyed'
    PROVE  WalkInv'
  BY DEF WalkInv, WalkStaysInList

\* Events are appended without the lock: the list only grows.
LEMMA AddEventWalk ==
    ASSUME WalkInv, NEW p \in Process, AddEvent(p)
    PROVE  WalkInv'
<1>1. /\ pending' = Append(pending, p) /\ main' = "adding"
      /\ UNCHANGED <<lock, destroyed, monitor, cursor>>
  BY DEF AddEvent, monitorVars
<1>2. pending' \in Seq(Process) /\ Len(pending') = Len(pending) + 1 /\ Len(pending) \in Nat
  BY <1>1 DEF WalkInv
<1> QED
  BY <1>1, <1>2 DEF WalkInv, LockHeld, WalkStaysInList

\* Events are taken from the list by the holder of the lock, who is not the
\* monitor: no walk is under way.
LEMMA RemoveWalk ==
    ASSUME WalkInv, StartFails \/ EventloopProcess
    PROVE  WalkInv'
<1>1. PICK S \in {Process \ {adding}, Process \ ready} : pending' = Only(pending, S)
  BY DEF StartFails, EventloopProcess
<1>2. Only(pending, S) \in Seq(Process \cap S)
  BY OnlyPlaces DEF WalkInv
<1>3. Process \cap S = S /\ S \subseteq Process
  BY <1>1
<1>4. pending' \in Seq(Process)
  BY <1>1, <1>2, <1>3
<1>5. lock # "monitor" /\ UNCHANGED <<monitor, cursor>> /\ main' # "starting"
  BY DEF StartFails, EventloopProcess, WalkInv, LockHeld, mainVars, monitorVars
<1> QED
  BY <1>4, <1>5 DEF WalkInv, LockHeld, WalkStaysInList

\* The walk begins on the first event, if there is one.
LEMMA LockMatchWalk ==
    ASSUME WalkInv, LockMatch
    PROVE  WalkInv'
<1>1. /\ lock = "none" /\ lock' = "monitor" /\ monitor' = "match"
      /\ cursor' = IF pending = <<>> THEN 0 ELSE 1
      /\ UNCHANGED <<pending, main, destroyed>>
  BY DEF LockMatch, mainVars, listVars
<1>2. Len(pending) \in Nat /\ (pending # <<>> => Len(pending) >= 1)
  BY DEF WalkInv
<1> QED
  BY <1>1, <1>2 DEF WalkInv, LockHeld, WalkStaysInList

\* It goes on to the next event, or leaves the list at its end.
LEMMA MatchWalk ==
    ASSUME WalkInv, Match
    PROVE  WalkInv'
<1>1. /\ monitor = "match"
      /\ cursor' = IF cursor < Len(pending) THEN cursor + 1 ELSE 0
      /\ UNCHANGED <<pending, lock, main, monitor, destroyed>>
  BY DEF Match, mainVars
<1>2. Len(pending) \in Nat
  BY DEF WalkInv
<1> QED
  BY <1>1, <1>2 DEF WalkInv, LockHeld, WalkStaysInList

\* Every step keeps the cursor in the list.
LEMMA StepWalk == WalkInv /\ [Next]_vars => WalkInv'
<1> SUFFICES ASSUME WalkInv, [Next]_vars PROVE WalkInv'
  OBVIOUS
<1>1. ASSUME NEW p \in Process, Fork(p) \/ Exit(p) PROVE WalkInv'
  BY <1>1, ListStillWalk DEF Fork, Exit, mainVars, listVars, monitorVars, WalkInv, LockHeld
<1>2. ASSUME NEW p \in Process, AddEvent(p) PROVE WalkInv'
  BY <1>2, AddEventWalk
<1>3. CASE LockToStart
  BY <1>3, ListStillWalk DEF LockToStart, listVars, monitorVars, WalkInv, LockHeld
<1>4. CASE StartMonitor
  BY <1>4, ListStillWalk DEF StartMonitor, listVars, WalkInv, LockHeld
<1>5. CASE StartFails \/ EventloopProcess
  BY <1>5, RemoveWalk
<1>6. CASE Quit
  BY <1>6, ListStillWalk DEF Quit, listVars, monitorVars, WalkInv, LockHeld
<1>7. CASE Destroy
  <2>1. pending' \in Seq(Process)
    BY <1>7, EmptyElems DEF Destroy
  <2> QED
    BY <1>7, <2>1 DEF Destroy, monitorVars, WalkInv, LockHeld, WalkStaysInList
<1>8. CASE Top \/ NoChild \/ UseAfterDestroy
  BY <1>8, ListStillWalk DEF Top, NoChild, UseAfterDestroy, mainVars, listVars, WalkInv, LockHeld
<1>9. CASE LockQueue \/ UnlockQueue
  BY <1>9, ListStillWalk DEF LockQueue, UnlockQueue, mainVars, listVars, WalkInv, LockHeld
<1>10. ASSUME NEW p \in Process, Wait(p) PROVE WalkInv'
  BY <1>10, ListStillWalk DEF Wait, mainVars, listVars, WalkInv, LockHeld
<1>11. CASE LockMatch \/ Match
  BY <1>11, LockMatchWalk, MatchWalk
<1>12. CASE UnlockMatch
  BY <1>12, ListStillWalk DEF UnlockMatch, mainVars, listVars, WalkInv, LockHeld
<1>13. CASE Save
  BY <1>13, ListStillWalk DEF Save, mainVars, listVars, WalkInv, LockHeld
<1>14. CASE UNCHANGED vars
  BY <1>14, ListStillWalk DEF vars, mainVars, listVars, monitorVars, WalkInv, LockHeld
<1> QED
  BY <1>1, <1>2, <1>3, <1>4, <1>5, <1>6, <1>7, <1>8, <1>9, <1>10, <1>11, <1>12, <1>13, <1>14
  DEF Next, MainStep, MonitorStep

\* The walk of the monitor thread never stands on an event that the main
\* thread has removed and freed (event.c:328-345), for any number of
\* processes: the lock protects the walks, although additions do without it.
THEOREM WalkIsProtected == Spec => []WalkStaysInList
<1>1. WalkInv => WalkStaysInList
  BY DEF WalkInv
<1> QED
  BY <1>1, InitWalk, StepWalk, PTL DEF Spec

----------------------------------------------------------------------------
(* Who gives the lock back, and what a saved status does to the loop.      *)

\* The lock is with a thread whose next step gives it back or goes on without
\* it, unless the loop is destroyed or a status was saved.
LockIsGivenBack ==
    /\ lock = "main" => main = "starting"
    /\ lock = "monitor" =>
          \/ monitor \in {"unlock_queue", "match"}
          \/ destroyed
          \/ monitor = "relock" /\ ready_processes # <<>>

\* Once a status is saved the monitor takes no other and completes no event,
\* not even the one that the saved status is for; and as soon as it looks for
\* that event it waits for itself, and the main thread delivers nothing more.
SavedEndsAll ==
    /\ ready_processes # <<>> =>
          /\ UNCHANGED <<ready, ready_processes>>
          /\ \A p \in Process : child'[p] = "reaped" => child[p] = "reaped"
    /\ monitor = "relock" =>
          /\ monitor' \in {"relock", "undefined"}
          /\ UNCHANGED <<lock, delivered>>
NothingAfterSave == [][SavedEndsAll]_vars

\* where the monitor is that has saved a status
SavedInv ==
    /\ ready_processes # <<>> => monitor \in {"top", "lock_queue", "relock", "off", "undefined"}
    /\ monitor = "relock" => ready_processes # <<>>
    /\ monitor = "undefined" => destroyed
    /\ LockIsGivenBack

\* Nothing is saved and nobody has the lock at the start.
LEMMA InitSaved == Init => SavedInv
BY DEF Init, SavedInv, LockIsGivenBack

\* Every step keeps that, and saves, completes and takes nothing after a save.
LEMMA StepSaved ==
    ASSUME HandTypes, WalkInv, SavedInv, [Next]_vars
    PROVE  SavedInv' /\ SavedEndsAll
<1> USE DEF SavedInv, LockIsGivenBack, SavedEndsAll, mainVars, listVars, monitorVars
<1>1. /\ main = "starting" => lock = "main"
      /\ monitor \in {"unlock_queue", "relock", "match"} => lock = "monitor"
  BY DEF WalkInv, LockHeld
<1>2. ASSUME NEW p \in Process, Fork(p) \/ Exit(p) PROVE SavedInv' /\ SavedEndsAll
  <2>1. /\ UNCHANGED <<lock, mainVars, listVars, monitorVars>>
        /\ \E c \in {"running", "zombie"} : child' = [child EXCEPT ![p] = c]
    BY <1>2 DEF Fork, Exit
  <2>2. \A q \in Process : child'[q] = "reaped" => child[q] = "reaped"
    BY <2>1 DEF HandTypes
  <2> QED
    BY <2>1, <2>2
<1>3. ASSUME NEW p \in Process, AddEvent(p) PROVE SavedInv' /\ SavedEndsAll
  BY <1>3 DEF AddEvent
<1>4. CASE LockToStart
  BY <1>1, <1>4 DEF LockToStart
<1>5. CASE StartMonitor \/ StartFails
  BY <1>1, <1>5 DEF StartMonitor, StartFails
<1>6. CASE EventloopProcess
  BY <1>1, <1>6 DEF EventloopProcess
<1>7. CASE Quit \/ Destroy
  BY <1>7 DEF Quit, Destroy
<1>8. CASE Top \/ NoChild
  BY <1>8 DEF Top, NoChild
<1>9. CASE LockQueue \/ UnlockQueue
  BY <1>9 DEF LockQueue, UnlockQueue
<1>10. ASSUME NEW p \in Process, Wait(p) PROVE SavedInv' /\ SavedEndsAll
  BY <1>10 DEF Wait
<1>11. CASE LockMatch
  BY <1>11 DEF LockMatch
<1>12. CASE Match
  BY <1>12 DEF Match
<1>13. CASE UnlockMatch
  BY <1>13 DEF UnlockMatch
<1>14. CASE Save
  <2>1. ready_processes' # <<>>
    BY <1>14 DEF Save, HandTypes
  <2> QED
    BY <1>14, <2>1 DEF Save
<1>15. CASE UseAfterDestroy
  BY <1>15 DEF UseAfterDestroy
<1>16. CASE UNCHANGED vars
  BY <1>16 DEF vars
<1> QED
  BY <1>2, <1>3, <1>4, <1>5, <1>6, <1>7, <1>8, <1>9, <1>10, <1>11, <1>12, <1>13, <1>14, <1>15, <1>16
  DEF Next, MainStep, MonitorStep

LEMMA AlwaysSaved == Spec => []SavedInv
<1>1. HandTypes /\ WalkInv /\ SavedInv /\ [Next]_vars => SavedInv'
  BY StepSaved
<1>2. IInv => HandTypes
  BY DEF IInv
<1> QED
  BY <1>1, <1>2, InitInv, StepInv, InitWalk, StepWalk, InitSaved, PTL DEF Spec

\* While the loop lives and no status was saved the two threads never stop each
\* other: whoever has monitoring_lock is on a step that does not take it
\* (event.c:249-260, 282-301, 335-338 and 357-377).
THEOREM LockComesBack == Spec => []LockIsGivenBack
<1>1. SavedInv => LockIsGivenBack
  BY DEF SavedInv
<1> QED
  BY <1>1, AlwaysSaved, PTL

\* A status that is saved "for a later event" (event.c:334-338) is the last that
\* the monitor takes, and its event is never completed: the walk of
\* ready_processes locks monitoring_lock a second time (event.c:282-301), and
\* from then on the main thread delivers nothing.  That is why
\* FinishedIsDelivered fails, and all that its weaker form leaves out.
THEOREM SavedIsTheLast == Spec => NothingAfterSave
<1>1. HandTypes /\ WalkInv /\ SavedInv /\ [Next]_vars => [SavedEndsAll]_vars
  BY StepSaved
<1>2. IInv => HandTypes
  BY DEF IInv
<1> QED
  BY <1>1, <1>2, AlwaysSaved, InitInv, StepInv, InitWalk, StepWalk, PTL DEF Spec, NothingAfterSave

----------------------------------------------------------------------------
(* What the walk finds.                                                    *)

\* The walk for a status is over, its event is in the list, and was not
\* completed: the status will be saved although somebody waits for it.
Missed ==
    /\ monitor \in {"match", "save"} /\ cursor = 0 /\ ~destroyed
    /\ child_pid \in ToSet(pending) \ ready

\* That happens in one way: the main thread adds the event of a process whose
\* status is in the hand of the monitor, after the walk for it has read its
\* last link.  What was in the list by then was found, the events included
\* that were added during the walk.
MissesOnlyLate ==
    ~Missed /\ Missed' => AddEvent(child_pid) /\ monitor \in {"match", "save"} /\ cursor = 0
OnlyLateIsMissed == [][MissesOnlyLate]_vars

\* what the walk has passed
PassedInv ==
    monitor = "match" /\ ~destroyed =>
        \A i \in 1 .. Len(pending) : i < cursor /\ pending[i] = child_pid => child_pid \in ready

LEMMA InitPassed == Init => PassedInv
BY DEF Init, PassedInv

\* What was passed stays where it is as long as the walk has the lock.
LEMMA StepPassed ==
    ASSUME WalkInv, PassedInv, [Next]_vars
    PROVE  PassedInv' /\ MissesOnlyLate
<1> USE DEF PassedInv, mainVars, listVars, monitorVars
<1>1. /\ main = "starting" => lock = "main"
      /\ monitor \in {"unlock_queue", "relock", "match"} => lock = "monitor"
      /\ pending \in Seq(Process) /\ Len(pending) \in Nat /\ cursor \in Nat
      /\ monitor = "match" /\ ~destroyed => cursor <= Len(pending)
  BY DEF WalkInv, LockHeld, WalkStaysInList
<1>2. ASSUME ToSet(pending)' \subseteq ToSet(pending), ready \subseteq ready',
             UNCHANGED <<monitor, cursor, child_pid>>, destroyed => destroyed'
      PROVE  MissesOnlyLate
  BY <1>2 DEF MissesOnlyLate, Missed
<1>3. ASSUME UNCHANGED pending PROVE ToSet(pending)' \subseteq ToSet(pending)
  BY <1>3 DEF ToSet
<1>4. ASSUME NEW p \in Process, AddEvent(p) PROVE PassedInv' /\ MissesOnlyLate
  <2>1. /\ pending' = Append(pending, p)
        /\ UNCHANGED <<monitor, destroyed, cursor, child_pid, ready, lock>>
    BY <1>4 DEF AddEvent
  <2>2. \A i \in 1 .. Len(pending') : i < cursor /\ monitor = "match" /\ ~destroyed =>
            i \in 1 .. Len(pending) /\ pending'[i] = pending[i]
    BY <1>1, <2>1
  <2>3. ToSet(pending)' = ToSet(pending) \cup {p}
    BY <1>1, <2>1, AppendElems
  <2>4. MissesOnlyLate
    BY <1>4, <2>1, <2>3 DEF MissesOnlyLate, Missed
  <2> QED
    BY <2>1, <2>2, <2>4
<1>5. ASSUME NEW p \in Process, Fork(p) \/ Exit(p) PROVE PassedInv' /\ MissesOnlyLate
  <2>1. UNCHANGED <<pending, monitor, destroyed, cursor, child_pid, ready>>
    BY <1>5 DEF Fork, Exit
  <2> QED
    BY <1>2, <1>3, <2>1
<1>6. CASE LockToStart \/ StartMonitor
  <2>1. UNCHANGED <<pending, destroyed, cursor, child_pid, ready>> /\ monitor' \in {monitor, "top"}
    BY <1>6 DEF LockToStart, StartMonitor
  <2> QED
    BY <2>1, <1>2, <1>3 DEF MissesOnlyLate, Missed
<1>7. CASE StartFails \/ EventloopProcess
  <2>1. /\ monitor # "match" /\ UNCHANGED <<monitor, destroyed, cursor, child_pid, ready>>
        /\ \E S : pending' = Only(pending, S)
    BY <1>1, <1>7 DEF StartFails, EventloopProcess
  <2>2. ToSet(pending)' \subseteq ToSet(pending)
    BY <1>1, <2>1, OnlyElems
  <2> QED
    BY <1>2, <2>1, <2>2
<1>8. CASE Quit \/ Destroy
  <2>1. /\ UNCHANGED <<monitor, cursor, child_pid, ready>>
        /\ destroyed' \/ UNCHANGED <<pending, destroyed>>
    BY <1>8 DEF Quit, Destroy
  <2> QED
    BY <1>2, <1>3, <2>1 DEF MissesOnlyLate, Missed
<1>9. CASE Top \/ NoChild \/ LockQueue \/ UnlockQueue \/ Save \/ UseAfterDestroy
  BY <1>9 DEF Top, NoChild, LockQueue, UnlockQueue, Save, UseAfterDestroy, MissesOnlyLate, Missed
<1>10. CASE UnlockMatch
  BY <1>3, <1>10 DEF UnlockMatch, MissesOnlyLate, Missed
<1>11. ASSUME NEW p \in Process, Wait(p) PROVE PassedInv' /\ MissesOnlyLate
  BY <1>11 DEF Wait, MissesOnlyLate, Missed
<1>12. CASE LockMatch
  <2>1. UNCHANGED pending /\ cursor' = IF pending = <<>> THEN 0 ELSE 1
    BY <1>12 DEF LockMatch
  <2>2. cursor' = 0 => ToSet(pending)' = {}
    BY <2>1 DEF ToSet
  <2>3. MissesOnlyLate
    BY <2>2 DEF MissesOnlyLate, Missed
  <2> QED
    BY <1>1, <1>12, <2>1, <2>3 DEF LockMatch
<1>13. CASE Match
  <2>1. /\ cursor # 0 /\ cursor \in 1 .. Len(pending)
        /\ cursor' = IF cursor < Len(pending) THEN cursor + 1 ELSE 0
        /\ ready' = IF pending[cursor] = child_pid THEN ready \cup {child_pid} ELSE ready
        /\ UNCHANGED <<pending, monitor, destroyed, child_pid, lock, main>>
    BY <1>1, <1>13 DEF Match
  <2>2. \A i \in 1 .. Len(pending) : i <= cursor /\ pending[i] = child_pid => child_pid \in ready'
    BY <1>1, <1>13, <2>1 DEF Match
  <2>3. PassedInv'
    BY <1>1, <2>1, <2>2
  <2>4. ASSUME cursor' = 0, child_pid \in ToSet(pending) PROVE child_pid \in ready'
    <3>1. cursor = Len(pending)
      BY <1>1, <2>1, <2>4
    <3>2. PICK i \in 1 .. Len(pending) : pending[i] = child_pid
      BY <2>4 DEF ToSet
    <3> QED
      BY <2>2, <3>1, <3>2
  <2>5. ToSet(pending)' = ToSet(pending)
    BY <2>1 DEF ToSet
  <2>6. MissesOnlyLate
    BY <2>1, <2>4, <2>5 DEF MissesOnlyLate, Missed
  <2> QED
    BY <2>3, <2>6
<1>14. CASE UNCHANGED vars
  BY <1>2, <1>3, <1>14 DEF vars
<1> QED
  BY <1>4, <1>5, <1>6, <1>7, <1>8, <1>9, <1>10, <1>11, <1>12, <1>13, <1>14
  DEF Next, MainStep, MonitorStep

\* A status is saved although its event is listed only if the event was added
\* after the walk for it (event.c:160, 322-331, 347-355), for any number of
\* processes: eventloop_add_event() appends without the lock, and the walk,
\* which has it, still finds all that is there when it reads the last link.
\* Nobody looks for a late event again: SavedIsTheLast says what comes of it.
THEOREM WalkMissesOnlyLate == Spec => OnlyLateIsMissed
<1>1. WalkInv /\ PassedInv /\ [Next]_vars => PassedInv' /\ [MissesOnlyLate]_vars
  BY StepPassed
<1> QED
  BY <1>1, InitWalk, StepWalk, InitPassed, PTL DEF Spec, OnlyLateIsMissed
============================================================================
