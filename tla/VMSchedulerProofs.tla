------------------------- MODULE VMSchedulerProofs --------------------------
(***************************************************************************)
(* What holds of the run loop for every number of coroutines and of        *)
(* operations, every length of a time slice, with the debugger or without. *)
(***************************************************************************)
EXTENDS VMScheduler, ListsProofs

\* the operations of a coroutine that are in flight
OpsOf(c) == {o \in InFlight : owner[o] = c}

Types ==
    /\ run_queue \in Seq(Coroutine) /\ suspended \in Seq(Coroutine)
    /\ current \in Coroutine \cup {None}
    /\ created \subseteq Coroutine
    /\ outstanding \in [Coroutine -> Nat]
    /\ legs \in [Op -> Nat]
    /\ owner \in [Op -> Coroutine \cup {None}]
    /\ background \in BOOLEAN
    /\ status \in {"continue", "hit_breakpoint", "raised", "error", "exited"}

\* A coroutine is off the lists only while its instruction is executed and
\* after a bad fetch.  An instruction that fails or exits returns to the head
\* of the loop, an error that a callback raised does not.
Control ==
    /\ pc = "execute" => current # None
    /\ current # None => pc = "execute" \/ (pc = "returned" /\ status = "error")
    /\ status \in {"error", "exited"} => pc \in {"top", "returned"}
    /\ pc = "top" => status # "raised"

\* Whoever waits for I/O is on the suspended list, at every step.
WaitingIsSuspended ==
    \A c \in Coroutine : outstanding[c] > 0 => c \in ToSet(suspended)

\* outstanding_io counts at least what is in flight.
CountCovers == \A c \in Coroutine : Cardinality(OpsOf(c)) <= outstanding[c]

\* When a coroutine is picked, whoever can go on is in the run queue.
PickedInTime == pc = "pick" => \A c \in ToSet(suspended) : outstanding[c] > 0

\* and there is somebody to pick.
QueueToPick == pc = "pick" => run_queue # <<>>

\* The inductive invariant: a coroutine can be neither lost nor resumed too
\* early because the two lists partition the coroutines (OnePlace) and the
\* counter that decides between them covers the operations in flight.
IInv ==
    /\ Types /\ Control
    /\ OnePlace /\ WaitingIsSuspended /\ CountCovers /\ PickedInTime /\ QueueToPick

----------------------------------------------------------------------------
\* The operations of a coroutine are counted by a natural number.
LEMMA OpsFinite ==
  ASSUME NEW S \in SUBSET Op
  PROVE  IsFiniteSet(S) /\ Cardinality(S) \in Nat
BY OpAssumption, FS_Subset, FS_CardinalityType

\* Nobody in the run queue, and not the coroutine that is executed, waits.
LEMMA RunnableDoesNotWait ==
  ASSUME Types, OnePlace, WaitingIsSuspended,
         NEW c \in ToSet(run_queue) \cup ({current} \ {None})
  PROVE  c \in Coroutine /\ outstanding[c] = 0
<1>1. c \in Coroutine
  BY DEF Types, ToSet
<1>2. c \notin ToSet(suspended)
  BY DEF OnePlace
<1>3. QED
  BY <1>1, <1>2 DEF WaitingIsSuspended, Types

\* An operation in flight is one that its coroutine waits for.
LEMMA FlightIsWaitedFor ==
  ASSUME Types, CountCovers, NEW o \in InFlight
  PROVE  owner[o] \in Coroutine /\ outstanding[owner[o]] > 0
<1>1. owner[o] \in Coroutine /\ o \in OpsOf(owner[o])
  BY DEF Types, InFlight, OpsOf
<1>2. OpsOf(owner[o]) \in SUBSET Op
  BY DEF OpsOf, InFlight
<1>3. Cardinality(OpsOf(owner[o])) \in Nat /\ Cardinality(OpsOf(owner[o])) # 0
  BY <1>1, <1>2, OpsFinite, FS_EmptySet
<1>4. QED
  BY <1>1, <1>3 DEF CountCovers, Types

\* At the start there is no coroutine.
LEMMA InitIInv == Init => IInv
<1> SUFFICES ASSUME Init PROVE IInv
  OBVIOUS
<1>1. Types
  <2>1. <<>> \in Seq(Coroutine)
    OBVIOUS
  <2>2. QED
    BY <2>1 DEF Init, Types
<1>2. InFlight = {}
  BY DEF Init, InFlight
<1>3. CountCovers
  BY <1>2, FS_EmptySet DEF CountCovers, OpsOf, Init
<1>4. ToSet(<<>>) = {} /\ IsInjective(<<>>)
  BY DEF ToSet, IsInjective
<1>5. QED
  BY <1>1, <1>3, <1>4
     DEF Init, IInv, Control, OnePlace, WaitingIsSuspended, PickedInTime, QueueToPick

----------------------------------------------------------------------------
\* Events fire for operations in flight: the counters fall by what completes,
\* which is at most what leaves the flight, and stay natural numbers.
LEMMA FireKeeps ==
  ASSUME Types, CountCovers, NEW D \in SUBSET InFlight,
         NEW out \in [D -> Outcomes], FireEvents(D, out)
  PROVE  /\ outstanding' \in [Coroutine -> Nat] /\ legs' \in [Op -> Nat]
         /\ \A c \in Coroutine : outstanding'[c] <= outstanding[c]
         /\ CountCovers'
<1> DEFINE last == {o \in D : legs[o] = 1}
           completed == {o \in last : out[o] # "raise_keep"}
           of(S, c) == {o \in S : owner[o] = c}
<1>1. /\ legs' = [o \in Op |-> IF o \in D THEN legs[o] - 1 ELSE legs[o]]
      /\ outstanding' = [c \in Coroutine |-> outstanding[c] - Cardinality(of(completed, c))]
      /\ owner' = owner
  BY DEF FireEvents
<1>2. D \subseteq Op /\ \A o \in D : legs[o] \in Nat \ {0}
  BY DEF InFlight, Types
<1>3. legs' \in [Op -> Nat]
  BY <1>1, <1>2 DEF Types
<1>4. ASSUME NEW c \in Coroutine
      PROVE  /\ outstanding'[c] \in Nat
             /\ outstanding'[c] <= outstanding[c]
             /\ Cardinality(OpsOf(c)') <= outstanding'[c]
  <2> DEFINE gone == of(last, c)
             done == of(completed, c)
  <2>1. OpsOf(c)' = OpsOf(c) \ gone
    BY <1>1, <1>2 DEF OpsOf, InFlight, Types
  <2>2. gone \in SUBSET OpsOf(c) /\ done \in SUBSET gone
    BY DEF OpsOf
  <2>3. OpsOf(c) \in SUBSET Op /\ gone \in SUBSET Op /\ done \in SUBSET Op
    BY <1>2 DEF OpsOf, InFlight
  <2> HIDE DEF gone, done
  <2>4. /\ IsFiniteSet(OpsOf(c)) /\ Cardinality(OpsOf(c)) \in Nat
        /\ IsFiniteSet(gone) /\ Cardinality(gone) \in Nat
        /\ IsFiniteSet(done) /\ Cardinality(done) \in Nat
    BY <2>3, OpsFinite
  <2>5. Cardinality(done) <= Cardinality(gone)
    BY <2>2, <2>4, FS_Subset
  <2>6. Cardinality(OpsOf(c)) = Cardinality(OpsOf(c) \ gone) + Cardinality(gone)
    <3>1. OpsOf(c) \cap gone = gone
      BY <2>2
    <3>2. Cardinality(OpsOf(c) \ gone) = Cardinality(OpsOf(c)) - Cardinality(OpsOf(c) \cap gone)
      BY <2>4, FS_Difference
    <3>3. QED
      BY <2>4, <3>1, <3>2
  <2>7. Cardinality(OpsOf(c) \ gone) \in Nat
    BY <2>3, OpsFinite
  <2>8. outstanding'[c] = outstanding[c] - Cardinality(done)
    BY <1>1 DEF done
  <2>9. outstanding[c] \in Nat /\ Cardinality(OpsOf(c)) <= outstanding[c]
    BY DEF Types, CountCovers
  <2>10. QED
    BY <2>1, <2>4, <2>5, <2>6, <2>7, <2>8, <2>9
<1>5. outstanding' \in [Coroutine -> Nat]
  BY <1>1, <1>4
<1>6. QED
  BY <1>3, <1>4, <1>5 DEF CountCovers

----------------------------------------------------------------------------
\* A step that leaves the lists and the counters alone.
LEMMA KeepLists ==
  ASSUME IInv, UNCHANGED <<schedVars, ioVars>>, Control',
         status' \in {"continue", "hit_breakpoint", "raised", "error", "exited"},
         pc' = "pick" => pc = "pick"
  PROVE  IInv'
<1> USE DEF schedVars, ioVars, IInv
<1>1. Types'
  BY DEF Types
<1>2. OnePlace' /\ WaitingIsSuspended' /\ PickedInTime' /\ QueueToPick'
  BY DEF OnePlace, WaitingIsSuspended, PickedInTime, QueueToPick
<1>3. CountCovers'
  BY DEF CountCovers, OpsOf, InFlight
<1>4. QED
  BY <1>1, <1>2, <1>3

\* eventloop_process(): the lists stay, and nobody waits who did not.
LEMMA LoopKeeps ==
  ASSUME IInv, NEW D \in SUBSET InFlight, NEW out \in [D -> Outcomes],
         FireEvents(D, out), FireBackground, UNCHANGED schedVars, Control',
         pc' # "pick"
  PROVE  IInv'
<1>1. /\ outstanding' \in [Coroutine -> Nat] /\ legs' \in [Op -> Nat]
      /\ \A c \in Coroutine : outstanding'[c] <= outstanding[c]
      /\ CountCovers'
  BY FireKeeps DEF IInv
<1>2. status' \in {status, "raised"} /\ owner' = owner
  BY DEF FireEvents, Raise
<1>3. background' \in BOOLEAN
  BY DEF FireBackground, IInv, Types
<1> USE DEF schedVars
<1>4. Types'
  BY <1>1, <1>2, <1>3 DEF IInv, Types
<1>5. OnePlace'
  BY DEF IInv, OnePlace
<1>6. WaitingIsSuspended'
  BY <1>1 DEF IInv, WaitingIsSuspended, Types
<1>7. QED
  BY <1>1, <1>4, <1>5, <1>6 DEF IInv, PickedInTime, QueueToPick

\* Resync moves every coroutine to the list that its counter says.
LEMMA ResyncKeeps == IInv /\ Resync => IInv'
<1> SUFFICES ASSUME IInv, Resync PROVE IInv'
  OBVIOUS
<1> DEFINE qi == Only(run_queue, Idle)
           si == Only(suspended, Idle)
           qw == Only(run_queue, Waiting)
           sw == Only(suspended, Waiting)
<1>1. run_queue \in Seq(Coroutine) /\ suspended \in Seq(Coroutine)
  BY DEF IInv, Types
<1>2. /\ qi \in Seq(Coroutine) /\ si \in Seq(Coroutine)
      /\ qw \in Seq(Coroutine) /\ sw \in Seq(Coroutine)
  <2>1. \A S : Coroutine \cap S \subseteq Coroutine
    OBVIOUS
  <2>2. /\ qi \in Seq(Coroutine \cap Idle) /\ si \in Seq(Coroutine \cap Idle)
        /\ qw \in Seq(Coroutine \cap Waiting) /\ sw \in Seq(Coroutine \cap Waiting)
    BY <1>1, OnlyPlaces
  <2> HIDE DEF qi, si, qw, sw
  <2>3. QED
    BY <2>1, <2>2
<1>3. /\ ToSet(qi) = ToSet(run_queue) \cap Idle /\ ToSet(si) = ToSet(suspended) \cap Idle
      /\ ToSet(qw) = ToSet(run_queue) \cap Waiting /\ ToSet(sw) = ToSet(suspended) \cap Waiting
  BY <1>1, OnlyElems
<1>4. IsInjective(run_queue) /\ IsInjective(suspended)
  BY DEF IInv, OnePlace
<1>5. IsInjective(qi) /\ IsInjective(si) /\ IsInjective(qw) /\ IsInjective(sw)
  BY <1>1, <1>4, OnlyNoRepeats
<1>6. /\ run_queue' = qi \o si /\ suspended' = sw \o qw
      /\ UNCHANGED <<status, current, created, finished, ioVars>>
      /\ pc = "resync" /\ pc' \in {"assertion_failed", "pick"}
  BY DEF Resync
<1> HIDE DEF qi, si, qw, sw
<1>7. ToSet(run_queue) \cap ToSet(suspended) = {}
  BY DEF IInv, OnePlace
<1>8. /\ run_queue' \in Seq(Coroutine) /\ suspended' \in Seq(Coroutine)
      /\ ToSet(run_queue') = ToSet(qi) \cup ToSet(si)
      /\ ToSet(suspended') = ToSet(sw) \cup ToSet(qw)
      /\ IsInjective(run_queue') /\ IsInjective(suspended')
  BY <1>2, <1>3, <1>5, <1>6, <1>7, JoinElems
<1>9. /\ Idle \cap Waiting = {}
      /\ \A c \in Coroutine : c \in Idle \cup Waiting
      /\ ToSet(run_queue) \subseteq Coroutine /\ ToSet(suspended) \subseteq Coroutine
  BY <1>1 DEF Idle, Waiting, IInv, Types, ToSet
<1>10. /\ ToSet(run_queue') = (ToSet(run_queue) \cup ToSet(suspended)) \cap Idle
       /\ ToSet(suspended') = (ToSet(run_queue) \cup ToSet(suspended)) \cap Waiting
  BY <1>3, <1>8
<1>11. Types'
  BY <1>6, <1>8 DEF IInv, Types, ioVars
<1>12. Control'
  BY <1>6 DEF IInv, Control
<1>13. OnePlace'
  <2>1. ToSet(run_queue') \cup ToSet(suspended') = ToSet(run_queue) \cup ToSet(suspended)
    BY <1>9, <1>10
  <2>2. ToSet(run_queue') \cap ToSet(suspended') = {}
    BY <1>9, <1>10
  <2>3. QED
    BY <1>6, <1>8, <2>1, <2>2 DEF IInv, OnePlace
<1>14. WaitingIsSuspended'
  <2>1. \A c \in Coroutine : outstanding[c] > 0 => c \in ToSet(suspended) \cap Waiting
    BY DEF IInv, WaitingIsSuspended, Waiting
  <2>2. QED
    BY <1>6, <1>10, <2>1 DEF WaitingIsSuspended, ioVars
<1>15. CountCovers'
  BY <1>6 DEF IInv, CountCovers, OpsOf, InFlight, ioVars
<1>16. PickedInTime' /\ QueueToPick'
  <2>1. PickedInTime'
    BY <1>6, <1>10 DEF PickedInTime, Waiting, ioVars
  <2>2. QueueToPick'
    BY DEF Resync, QueueToPick
  <2>3. QED
    BY <2>1, <2>2
<1>17. QED
  BY <1>11, <1>12, <1>13, <1>14, <1>15, <1>16 DEF IInv

----------------------------------------------------------------------------
\* The end of an instruction: the coroutine goes to the one list where its
\* counter says it belongs.  q is the run queue with what was scheduled.
LEMMA DoneKeeps ==
  ASSUME IInv, NEW q \in Seq(Coroutine), Done(q),
         IsInjective(q), ToSet(q) \cap ToSet(suspended) = {}, current \notin ToSet(q),
         created' \subseteq Coroutine, finished' \subseteq created',
         created' \ finished' = ToSet(q) \cup ToSet(suspended) \cup {current},
         outstanding' \in [Coroutine -> Nat], legs' \in [Op -> Nat],
         owner' \in [Op -> Coroutine \cup {None}], background' \in BOOLEAN,
         \A c \in Coroutine \ {current} : outstanding'[c] = outstanding[c],
         CountCovers', status' \in {"continue", "error", "exited"}
  PROVE  IInv'
<1>1. /\ current \in Coroutine /\ current # None
      /\ suspended \in Seq(Coroutine) /\ IsInjective(suspended)
      /\ current \notin ToSet(suspended)
  BY DEF IInv, Types, Control, OnePlace, Done
<1>2. None \notin Coroutine /\ current' = None /\ pc' = "top"
  BY CoroutineAssumption DEF Done
<1>3. /\ Append(q, current) \in Seq(Coroutine)
      /\ ToSet(Append(q, current)) = ToSet(q) \cup {current}
      /\ IsInjective(Append(q, current))
  BY <1>1, AppendElems
<1>4. /\ <<current>> \o q \in Seq(Coroutine)
      /\ ToSet(<<current>> \o q) = ToSet(q) \cup {current}
      /\ IsInjective(<<current>> \o q)
  <2> DEFINE one == <<current>>
  <2>1. one \in Seq(Coroutine) /\ ToSet(one) = {current} /\ IsInjective(one)
    BY <1>1 DEF ToSet, IsInjective
  <2> HIDE DEF one
  <2>2. /\ one \o q \in Seq(Coroutine)
        /\ ToSet(one \o q) = ToSet(one) \cup ToSet(q)
        /\ ToSet(one) \cap ToSet(q) = {} => IsInjective(one \o q)
    BY <2>1, JoinElems
  <2>3. QED
    BY <2>1, <2>2 DEF one
<1>5. /\ Append(suspended, current) \in Seq(Coroutine)
      /\ ToSet(Append(suspended, current)) = ToSet(suspended) \cup {current}
      /\ IsInjective(Append(suspended, current))
  BY <1>1, AppendElems
<1>6. \/ /\ outstanding'[current] > 0
         /\ suspended' = Append(suspended, current) /\ run_queue' = q
      \/ /\ ~(outstanding'[current] > 0)
         /\ suspended' = suspended
         /\ run_queue' \in {Append(q, current), <<current>> \o q}
  BY DEF Done, Requeue
<1>7. /\ run_queue' \in Seq(Coroutine) /\ suspended' \in Seq(Coroutine)
      /\ IsInjective(run_queue') /\ IsInjective(suspended')
      /\ ToSet(run_queue') \cap ToSet(suspended') = {}
      /\ ToSet(run_queue') \cup ToSet(suspended') = ToSet(q) \cup ToSet(suspended) \cup {current}
      /\ ToSet(suspended) \subseteq ToSet(suspended')
      /\ outstanding'[current] > 0 => current \in ToSet(suspended')
  <2>1. CASE outstanding'[current] > 0
    BY <1>1, <1>5, <1>6, <2>1
  <2>2. CASE ~(outstanding'[current] > 0)
    <3>1. suspended' = suspended /\ run_queue' \in {Append(q, current), <<current>> \o q}
      BY <1>6, <2>2
    <3>2. CASE run_queue' = Append(q, current)
      BY <1>1, <1>3, <2>2, <3>1, <3>2
    <3>3. CASE run_queue' = <<current>> \o q
      BY <1>1, <1>4, <2>2, <3>1, <3>3
    <3>4. QED
      BY <3>1, <3>2, <3>3
  <2>3. QED
    BY <2>1, <2>2
<1>8. Types'
  BY <1>2, <1>7 DEF Types
<1>9. Control' /\ PickedInTime' /\ QueueToPick'
  BY <1>2 DEF Control, PickedInTime, QueueToPick
<1>10. OnePlace'
  <2>1. None \notin ToSet(run_queue') \cup ToSet(suspended')
    BY <1>2, <1>7 DEF ToSet
  <2>2. QED
    BY <1>2, <1>7, <2>1 DEF OnePlace
<1>11. WaitingIsSuspended'
  <2>1. ASSUME NEW c \in Coroutine, c # current, outstanding'[c] > 0
        PROVE  c \in ToSet(suspended')
    BY <1>7, <2>1 DEF IInv, WaitingIsSuspended
  <2>2. QED
    BY <1>7, <2>1 DEF WaitingIsSuspended
<1>12. QED
  BY <1>8, <1>9, <1>10, <1>11 DEF IInv

\* What DoneKeeps asks for, of the lists as they are.
LEMMA DuringInstruction ==
  ASSUME IInv, pc = "execute"
  PROVE  /\ current \in Coroutine /\ current # None
         /\ run_queue \in Seq(Coroutine) /\ IsInjective(run_queue)
         /\ ToSet(run_queue) \cap ToSet(suspended) = {}
         /\ current \notin ToSet(run_queue)
         /\ created \subseteq Coroutine /\ finished \subseteq created
         /\ created \ finished = ToSet(run_queue) \cup ToSet(suspended) \cup {current}
         /\ outstanding[current] = 0
<1>1. current \in Coroutine /\ current # None
  BY DEF IInv, Types, Control
<1>2. outstanding[current] = 0
  BY <1>1, RunnableDoesNotWait DEF IInv
<1>3. QED
  BY <1>1, <1>2 DEF IInv, Types, OnePlace

\* An instruction without I/O puts its coroutine back.
LEMMA PlainKeeps ==
  ASSUME IInv, NEW st \in {"continue", "error", "exited"}, Plain(st)
  PROVE  IInv'
<1>1. pc = "execute" /\ Done(run_queue)
  BY DEF Plain, Done
<1>2. UNCHANGED <<outstanding, legs, owner, background, created, finished>> /\ status' = st
  BY DEF Plain, ioVars
<1>3. CountCovers'
  BY <1>2 DEF IInv, CountCovers, OpsOf, InFlight
<1>4. Types
  BY DEF IInv
<1>5. QED
  BY <1>1, <1>2, <1>3, <1>4, DuringInstruction, DoneKeeps DEF Types

\* The operations that an instruction starts were not in flight, and its
\* coroutine was not waiting for any.
LEMMA StartIoKeeps ==
  ASSUME IInv, NEW ops \in SUBSET Unused, NEW n \in [ops -> 1 .. MaxLegs],
         NEW st \in {"continue", "error"}, StartIo(ops, n, st)
  PROVE  IInv' /\ outstanding'[current] > 0
<1>1. pc = "execute" /\ Done(run_queue)
  BY DEF StartIo, Done
<1>2. /\ owner' = [o \in Op |-> IF o \in ops THEN current ELSE owner[o]]
      /\ legs' = [o \in Op |-> IF o \in ops THEN n[o] ELSE legs[o]]
      /\ outstanding' = [outstanding EXCEPT ![current] = @ + Cardinality(ops)]
      /\ background' = TRUE /\ status' = st /\ UNCHANGED <<created, finished>>
      /\ ops # {}
  BY DEF StartIo
<1>3. Types /\ CountCovers
  BY DEF IInv
<1>4. current \in Coroutine /\ current # None
  BY <1>1, DuringInstruction
<1>5. ops \subseteq Op /\ \A o \in ops : owner[o] = None /\ n[o] \in Nat /\ n[o] > 0
  BY LegsAssumption DEF Unused
<1>6. owner' \in [Op -> Coroutine \cup {None}] /\ legs' \in [Op -> Nat]
  BY <1>2, <1>3, <1>4, <1>5 DEF Types
<1>7. /\ IsFiniteSet(ops) /\ Cardinality(ops) \in Nat
      /\ Cardinality(ops) # 0
  BY <1>2, <1>5, OpsFinite, FS_EmptySet
<1>8. /\ outstanding' \in [Coroutine -> Nat]
      /\ outstanding'[current] = outstanding[current] + Cardinality(ops)
      /\ \A c \in Coroutine \ {current} : outstanding'[c] = outstanding[c]
  BY <1>2, <1>3, <1>4, <1>7 DEF Types
<1>9. InFlight' = InFlight \cup ops
  BY <1>2, <1>3, <1>4, <1>5, CoroutineAssumption DEF InFlight, Types
<1>10. CountCovers'
  <2>1. ASSUME NEW c \in Coroutine, c # current
        PROVE  Cardinality(OpsOf(c)') <= outstanding'[c]
    <3>1. OpsOf(c)' = OpsOf(c)
      BY <1>2, <1>5, <1>9, <2>1, CoroutineAssumption DEF OpsOf, InFlight
    <3>2. QED
      BY <1>3, <1>8, <2>1, <3>1 DEF CountCovers
  <2>2. ASSUME NEW c \in Coroutine, c = current
        PROVE  Cardinality(OpsOf(c)') <= outstanding'[c]
    <3>1. OpsOf(c)' = OpsOf(c) \cup ops
      BY <1>2, <1>4, <1>5, <1>9, <2>2 DEF OpsOf, InFlight
    <3>2. OpsOf(c) \in SUBSET Op /\ OpsOf(c) \cap ops = {}
      BY <1>5, <2>2, <1>4 DEF OpsOf, InFlight
    <3>3. IsFiniteSet(OpsOf(c)) /\ Cardinality(OpsOf(c)) \in Nat
      BY <3>2, OpsFinite
    <3>4. Cardinality(OpsOf(c) \cup ops) = Cardinality(OpsOf(c)) + Cardinality(ops)
      BY <1>7, <3>2, <3>3, FS_Union, FS_EmptySet
    <3>5. Cardinality(OpsOf(c)) <= outstanding[c] /\ outstanding[c] \in Nat
      BY <1>3 DEF CountCovers, Types
    <3>6. QED
      BY <1>7, <1>8, <2>2, <3>1, <3>3, <3>4, <3>5
  <2>3. QED
    BY <2>1, <2>2 DEF CountCovers
<1>11. QED
  BY <1>1, <1>2, <1>6, <1>8, <1>10, <1>7, DuringInstruction, DoneKeeps

\* A scheduled coroutine is new, and is queued once.
LEMMA ScheduleKeeps ==
  ASSUME IInv, NEW c \in Coroutine, Schedule(c)
  PROVE  IInv'
<1> DEFINE q == Append(run_queue, c)
<1>1. pc = "execute" /\ Done(q)
  BY DEF Schedule, Done
<1>2. /\ UNCHANGED <<outstanding, legs, owner, background, finished>>
      /\ status' = "continue" /\ created' = created \cup {c} /\ c \notin created
  BY DEF Schedule, ioVars
<1>3. CountCovers'
  BY <1>2 DEF IInv, CountCovers, OpsOf, InFlight
<1>4. /\ run_queue \in Seq(Coroutine) /\ IsInjective(run_queue)
      /\ created \ finished = ToSet(run_queue) \cup ToSet(suspended) \cup {current}
      /\ finished \subseteq created
  BY <1>1, DuringInstruction
<1>5. c \notin ToSet(run_queue) /\ c \notin ToSet(suspended) /\ c # current
  BY <1>2, <1>4
<1>6. /\ q \in Seq(Coroutine) /\ IsInjective(q)
      /\ ToSet(q) = ToSet(run_queue) \cup {c}
  BY <1>4, <1>5, AppendElems
<1> HIDE DEF q
<1>7. /\ ToSet(q) \cap ToSet(suspended) = {} /\ current \notin ToSet(q)
      /\ created' \subseteq Coroutine /\ finished' \subseteq created'
      /\ created' \ finished' = ToSet(q) \cup ToSet(suspended) \cup {current}
  BY <1>1, <1>2, <1>4, <1>5, <1>6, DuringInstruction
<1>8. Types
  BY DEF IInv
<1>9. QED
  BY <1>1, <1>2, <1>3, <1>6, <1>7, <1>8, DoneKeeps DEF Types

\* A coroutine that finishes is in no list any more.
LEMMA FinishKeeps == IInv /\ Finish => IInv'
<1> SUFFICES ASSUME IInv, Finish PROVE IInv'
  OBVIOUS
<1>1. /\ pc = "execute" /\ pc' = "top" /\ status' = "continue"
      /\ current' = None /\ finished' = finished \cup {current}
      /\ UNCHANGED <<run_queue, suspended, created, outstanding, legs, owner, background>>
  BY DEF Finish, ioVars
<1>2. Types' /\ Control' /\ PickedInTime' /\ QueueToPick'
  BY <1>1 DEF IInv, Types, Control, PickedInTime, QueueToPick
<1>3. None \notin ToSet(run_queue) \cup ToSet(suspended)
  BY CoroutineAssumption DEF IInv, Types, ToSet
<1>4. /\ current # None /\ current \in created /\ current \notin ToSet(suspended)
  BY <1>1, DuringInstruction DEF IInv, OnePlace
<1>5. OnePlace'
  BY <1>1, <1>3, <1>4 DEF IInv, OnePlace
<1>6. WaitingIsSuspended' /\ CountCovers'
  BY <1>1 DEF IInv, WaitingIsSuspended, CountCovers, OpsOf, InFlight
<1>7. QED
  BY <1>2, <1>5, <1>6 DEF IInv

\* Every instruction keeps the invariant.
LEMMA ExecuteKeeps == IInv /\ Execute => IInv'
<1> SUFFICES ASSUME IInv, Execute PROVE IInv'
  OBVIOUS
<1>1. CASE BadFetch
  <2>1. UNCHANGED <<schedVars, ioVars>> /\ status' = "error" /\ pc' = "returned"
    BY <1>1 DEF BadFetch
  <2>2. Control'
    BY <2>1 DEF Control
  <2>3. QED
    BY <2>1, <2>2, KeepLists
<1>2. QED
  BY <1>1, PlainKeeps, StartIoKeeps, ScheduleKeeps, FinishKeeps DEF Execute

\* The coroutine that is picked leaves the queue for the processor.
LEMMA PickKeeps == IInv /\ Pick => IInv'
<1> SUFFICES ASSUME IInv, Pick PROVE IInv'
  OBVIOUS
<1>1. /\ pc = "pick" /\ pc' = "execute"
      /\ current' = Head(run_queue) /\ run_queue' = Tail(run_queue)
      /\ UNCHANGED <<status, suspended, created, finished, outstanding, legs, owner, background>>
  BY DEF Pick, ioVars
<1>2. run_queue # <<>>
  BY <1>1 DEF IInv, QueueToPick
<1>3. current = None
  BY <1>1 DEF IInv, Control
<1>4. /\ run_queue \in Seq(Coroutine) /\ IsInjective(run_queue)
      /\ ToSet(run_queue) \cap ToSet(suspended) = {}
  BY DEF IInv, Types, OnePlace
<1>5. /\ Head(run_queue) \in Coroutine /\ Tail(run_queue) \in Seq(Coroutine)
      /\ ToSet(run_queue) = {Head(run_queue)} \cup ToSet(Tail(run_queue))
      /\ Head(run_queue) \notin ToSet(Tail(run_queue)) /\ IsInjective(Tail(run_queue))
  BY <1>2, <1>4, HeadTailElems
<1>6. Head(run_queue) # None
  BY <1>5, CoroutineAssumption
<1> DEFINE h == Head(run_queue)
           t == Tail(run_queue)
<1> HIDE DEF h, t
<1>7. Types'
  BY <1>1, <1>5 DEF IInv, Types
<1>8. Control' /\ QueueToPick'
  BY <1>1, <1>6 DEF IInv, Control, QueueToPick
<1>9. OnePlace'
  <2>1. current' = h /\ run_queue' = t /\ suspended' = suspended
    BY <1>1 DEF h, t
  <2>2. /\ ToSet(run_queue) = {h} \cup ToSet(t) /\ h \notin ToSet(t)
        /\ IsInjective(t) /\ h # None
    BY <1>5, <1>6 DEF h, t
  <2>3. created' \ finished' = ToSet(run_queue) \cup ToSet(suspended)
    BY <1>1, <1>3 DEF IInv, OnePlace
  <2>4. IsInjective(suspended) /\ finished' \subseteq created'
    BY <1>1 DEF IInv, OnePlace
  <2>5. QED
    BY <1>4, <2>1, <2>2, <2>3, <2>4 DEF OnePlace
<1>10. WaitingIsSuspended' /\ CountCovers' /\ PickedInTime'
  BY <1>1 DEF IInv, WaitingIsSuspended, CountCovers, OpsOf, InFlight, PickedInTime
<1>11. QED
  BY <1>7, <1>8, <1>9, <1>10 DEF IInv

\* The main coroutine is the first, and alone.
LEMMA CreateMainKeeps == IInv /\ CreateMain => IInv'
<1> SUFFICES ASSUME IInv, CreateMain PROVE IInv'
  OBVIOUS
<1>1. /\ pc = "top" /\ Main \notin created
      /\ created' = created \cup {Main} /\ run_queue' = Append(run_queue, Main)
      /\ UNCHANGED <<pc, status, suspended, current, finished, outstanding, legs, owner, background>>
  BY DEF CreateMain, ioVars
<1>2. /\ run_queue \in Seq(Coroutine) /\ IsInjective(run_queue)
      /\ Main \notin ToSet(run_queue) /\ Main \notin ToSet(suspended)
      /\ current = None
  BY <1>1 DEF IInv, Types, OnePlace, Control
<1>3. /\ run_queue' \in Seq(Coroutine) /\ IsInjective(run_queue')
      /\ ToSet(run_queue') = ToSet(run_queue) \cup {Main}
  BY <1>1, <1>2, AppendElems, CoroutineAssumption
<1>4. Types' /\ Control' /\ QueueToPick'
  BY <1>1, <1>3, CoroutineAssumption DEF IInv, Types, Control, QueueToPick
<1>5. OnePlace'
  <2>1. None \notin ToSet(run_queue') \cup ToSet(suspended)
    BY <1>2, <1>3, CoroutineAssumption DEF IInv, OnePlace
  <2>2. QED
    BY <1>1, <1>2, <1>3, <2>1 DEF IInv, OnePlace
<1>6. WaitingIsSuspended' /\ CountCovers' /\ PickedInTime'
  BY <1>1 DEF IInv, WaitingIsSuspended, CountCovers, OpsOf, InFlight, PickedInTime
<1>7. QED
  BY <1>4, <1>5, <1>6 DEF IInv

\* One step per action of the run loop and of the debugger.
LEMMA StepIInv == IInv /\ [Next]_vars => IInv'
<1> SUFFICES ASSUME IInv, [Next]_vars PROVE IInv'
  OBVIOUS
<1>1. Types /\ Control
  BY DEF IInv
<1>2. CASE ReturnStopped \/ AllFinished \/ EnterSwitch \/ EnterWait \/ SkipLoop
  <2>1. UNCHANGED <<schedVars, ioVars>>
    BY <1>2 DEF ReturnStopped, AllFinished, EnterSwitch, EnterWait, SkipLoop
  <2>2. /\ pc = "top" /\ pc' \in {"returned", "switch", "wait", "resync"}
        /\ status' \in {status, "exited"}
        /\ status' = "exited" => pc' = "returned"
        /\ status \in {"error", "exited"} => pc' = "returned"
    BY <1>1, <1>2 DEF ReturnStopped, AllFinished, EnterSwitch, EnterWait, SkipLoop, MayRun
  <2>3. current' = current
    BY <2>1 DEF schedVars
  <2>4. Control'
    BY <1>1, <2>2, <2>3 DEF Control, Types
  <2>5. QED
    BY <1>1, <2>1, <2>2, <2>4, KeepLists DEF Types
<1>3. CASE HitBreakpoint \/ SingleStep \/ Resume
  <2>1. /\ UNCHANGED <<schedVars, ioVars>>
        /\ pc' \in {"returned", "top"} /\ status' = "hit_breakpoint"
        /\ pc \in {"pick", "returned"} /\ (pc = "returned" => status = "hit_breakpoint")
    BY <1>3 DEF HitBreakpoint, SingleStep, Resume
  <2>2. Control'
    BY <1>1, <2>1 DEF Control, schedVars
  <2>3. QED
    BY <2>1, <2>2, KeepLists
<1>4. CASE Switch
  <2>1. PICK D \in SUBSET InFlight : \E out \in [D -> Outcomes] : FireEvents(D, out)
    BY <1>4 DEF Switch
  <2>2. PICK out \in [D -> Outcomes] : FireEvents(D, out)
    BY <2>1
  <2>3. /\ pc = "switch" /\ pc' \in {"returned", "resync"}
        /\ FireBackground /\ UNCHANGED schedVars
    BY <1>4 DEF Switch
  <2>4. Control'
    BY <1>1, <2>2, <2>3 DEF Control, schedVars, FireEvents, Raise
  <2>5. QED
    BY <2>2, <2>3, <2>4, LoopKeeps
<1>5. CASE Wait
  <2>1. PICK D \in SUBSET InFlight : \E out \in [D -> Outcomes] : FireEvents(D, out)
    BY <1>5 DEF Wait
  <2>2. PICK out \in [D -> Outcomes] : FireEvents(D, out)
    BY <2>1
  <2>3. /\ pc = "wait" /\ pc' \in {"returned", "resync", "wait"}
        /\ FireBackground /\ UNCHANGED schedVars
    BY <1>5 DEF Wait
  <2>4. Control'
    BY <1>1, <2>2, <2>3 DEF Control, schedVars, FireEvents, Raise
  <2>5. QED
    BY <2>2, <2>3, <2>4, LoopKeeps
<1>6. CASE UNCHANGED vars
  BY <1>1, <1>6, KeepLists DEF vars, schedVars, Control, Types
<1>7. QED
  BY <1>2, <1>3, <1>4, <1>5, <1>6,
     CreateMainKeeps, ResyncKeeps, PickKeeps, ExecuteKeeps DEF Next, RunStep

\* At every step of every run the invariant holds.
LEMMA AlwaysIInv == Spec => []IInv
BY InitIInv, StepIInv, PTL DEF Spec

----------------------------------------------------------------------------
\* No coroutine is lost, queued twice or on both lists.
THEOREM InOnePlace == Spec => []OnePlace
<1>1. IInv => OnePlace
  BY DEF IInv
<1>2. QED
  BY <1>1, AlwaysIInv, PTL

\* Whoever may be executed has no outstanding I/O, nobody who can go on is
\* left behind when one is picked, and no decrement wraps a counter around.
THEOREM QueuesAgree == Spec => []QueuesAgreeWithIo
<1>1. IInv => QueuesAgreeWithIo
  BY RunnableDoesNotWait DEF IInv, QueuesAgreeWithIo, PickedInTime, CountCovers, OpsOf
<1>2. QED
  BY <1>1, AlwaysIInv, PTL

\* The bare pointer of an operation in flight points to a coroutine that the
\* suspended list owns.
THEOREM PointersAreOwned == Spec => []CallbackFindsCoroutine
<1>1. IInv => CallbackFindsCoroutine
  BY FlightIsWaitedFor DEF IInv, CallbackFindsCoroutine, WaitingIsSuspended
<1>2. QED
  BY <1>1, AlwaysIInv, PTL

----------------------------------------------------------------------------
(* The refinement: every step of the run loop is a step of module          *)
(* Coroutines, or changes nothing that it speaks of.                       *)

\* Between the head of the loop and its ends the machine is on.
LEMMA MachineIsOn ==
  ASSUME IInv, pc \in {"switch", "wait", "resync", "pick", "execute"}
  PROVE  machine = "on"
BY DEF IInv, Control, machine, Stopped

\* The initial states are initial states of the abstract machine.
LEMMA InitAbstract == Init => Abstract!Init
BY DEF Init, Abstract!Init, phase, machine, Stopped

\* A step that concerns neither the coroutines nor their I/O halts the machine
\* or is not seen at all.
LEMMA HaltOrNothing ==
  ASSUME UNCHANGED <<schedVars, ioVars>>, machine = "on" \/ machine' = "off"
  PROVE  [Abstract!Next]_Abstract!vars
<1>1. phase' = phase /\ current' = current
  BY DEF phase, schedVars, ioVars
<1>2. machine \in {"on", "off"} /\ machine' \in {"on", "off"}
  BY DEF machine
<1>3. CASE machine' = machine
  BY <1>1, <1>3 DEF Abstract!vars
<1>4. CASE machine = "on" /\ machine' = "off"
  BY <1>1, <1>4 DEF Abstract!Next, Abstract!Halt
<1>5. QED
  BY <1>2, <1>3, <1>4

\* The creation of the main coroutine starts it in the abstract machine.
LEMMA CreateMainStarts == IInv /\ CreateMain => Abstract!Start
<1> SUFFICES ASSUME IInv, CreateMain PROVE Abstract!Start
  OBVIOUS
<1>1. /\ pc = "top" /\ MayRun /\ Main \notin created
      /\ created' = created \cup {Main}
      /\ UNCHANGED <<pc, status, current, finished, outstanding>>
  BY DEF CreateMain, ioVars
<1>2. machine = "on" /\ machine' = "on"
  BY <1>1 DEF machine, Stopped, MayRun
<1>3. Main \in Coroutine /\ Main \notin finished /\ outstanding[Main] = 0
  <2>1. Main \in Coroutine /\ Main \notin ToSet(suspended)
    BY <1>1, CoroutineAssumption DEF IInv, OnePlace
  <2>2. QED
    BY <1>1, <2>1 DEF IInv, OnePlace, WaitingIsSuspended, Types
<1>4. phase[Main] = "none"
  BY <1>1, <1>3 DEF phase
<1>5. phase' = [phase EXCEPT ![Main] = "runnable"]
  <2>1. \A c \in Coroutine : phase'[c] = IF c = Main THEN "runnable" ELSE phase[c]
    BY <1>1, <1>3 DEF phase
  <2>2. QED
    BY <2>1 DEF phase
<1>6. QED
  BY <1>1, <1>2, <1>4, <1>5 DEF Abstract!Start

\* Events wake exactly those whose last operation completes.
LEMMA LoopWakes ==
  ASSUME IInv, NEW D \in SUBSET InFlight, NEW out \in [D -> Outcomes],
         FireEvents(D, out), UNCHANGED schedVars, pc \in {"switch", "wait"}
  PROVE  \E S \in SUBSET Coroutine : Abstract!Wake(S)
<1> DEFINE S == {c \in Coroutine : outstanding[c] > 0 /\ outstanding'[c] = 0}
<1>1. /\ outstanding' \in [Coroutine -> Nat] /\ outstanding \in [Coroutine -> Nat]
      /\ \A c \in Coroutine : outstanding'[c] <= outstanding[c]
  BY FireKeeps DEF IInv, Types
<1>2. UNCHANGED <<created, finished, current>> /\ current = None
  BY DEF schedVars, IInv, Control
<1>3. machine = "on" /\ machine' \in {"on", "off"}
  BY MachineIsOn DEF machine
<1>4. \A c \in S : phase[c] = "waiting"
  <2>1. \A c \in S : c \in ToSet(suspended)
    BY DEF IInv, WaitingIsSuspended
  <2>2. \A c \in S : c \in created /\ c \notin finished
    BY <2>1 DEF IInv, OnePlace
  <2>3. QED
    BY <2>2 DEF phase
<1>5. phase' = [c \in Coroutine |-> IF c \in S THEN "runnable" ELSE phase[c]]
  <2>1. ASSUME NEW c \in Coroutine
        PROVE  phase'[c] = IF c \in S THEN "runnable" ELSE phase[c]
    <3>1. CASE c \in S
      <4>1. c \in created /\ c \notin finished
        BY <1>4, <3>1 DEF phase
      <4>2. QED
        BY <1>1, <1>2, <3>1, <4>1 DEF phase
    <3>2. CASE c \notin S
      BY <1>1, <1>2, <3>2 DEF phase
    <3>3. QED
      BY <3>1, <3>2
  <2>2. QED
    BY <2>1 DEF phase
<1> HIDE DEF S
<1>6. S \in SUBSET Coroutine
  BY DEF S
<1>7. Abstract!Wake(S)
  BY <1>2, <1>3, <1>4, <1>5, <1>6 DEF Abstract!Wake
<1>8. QED
  BY <1>6, <1>7

\* A pick begins the turn of a runnable coroutine.
LEMMA PickBegins == IInv /\ Pick => \E c \in Coroutine : Abstract!Begin(c)
<1> SUFFICES ASSUME IInv, Pick PROVE \E c \in Coroutine : Abstract!Begin(c)
  OBVIOUS
<1> DEFINE h == Head(run_queue)
<1>1. /\ pc = "pick" /\ pc' = "execute" /\ current' = h
      /\ UNCHANGED <<status, created, finished, outstanding>>
  BY DEF Pick, ioVars
<1>2. h \in ToSet(run_queue) /\ current = None
  <2>1. run_queue # <<>> /\ run_queue \in Seq(Coroutine)
    BY <1>1 DEF IInv, QueueToPick, Types
  <2>2. QED
    BY <1>1, <2>1, HeadTailElems DEF IInv, Control
<1> HIDE DEF h
<1>3. h \in Coroutine /\ outstanding[h] = 0
  BY <1>2, RunnableDoesNotWait DEF IInv
<1>4. h \in created /\ h \notin finished
  BY <1>2 DEF IInv, OnePlace
<1>5. phase[h] = "runnable" /\ phase' = phase
  BY <1>1, <1>3, <1>4 DEF phase
<1>6. machine = "on" /\ machine' = machine
  BY <1>1, MachineIsOn DEF machine, Stopped
<1>7. QED
  BY <1>1, <1>2, <1>3, <1>5, <1>6 DEF Abstract!Begin

\* An instruction ends: its coroutine goes on, waits or is finished.
LEMMA EndOf ==
  ASSUME IInv, NEW c \in Coroutine, pc = "execute", current = c, current' = None,
         NEW p \in {"runnable", "waiting", "finished"},
         NEW new \in SUBSET {d \in Coroutine : phase[d] = "none"},
         phase' = [d \in Coroutine |-> IF d = c THEN p
                                       ELSE IF d \in new THEN "runnable" ELSE phase[d]]
  PROVE  \E d \in Coroutine : Abstract!End(d)
<1>1. machine = "on" /\ machine' \in {"on", "off"}
  BY MachineIsOn DEF machine
<1>2. Abstract!End(c)
  BY <1>1 DEF Abstract!End
<1>3. QED
  BY <1>2

\* The end of a turn changes the phase of the running coroutine alone.
LEMMA EndAlone ==
  ASSUME IInv, NEW c \in Coroutine, pc = "execute", current = c, current' = None,
         NEW p \in {"runnable", "waiting", "finished"},
         phase' = [d \in Coroutine |-> IF d = c THEN p ELSE phase[d]]
  PROVE  \E d \in Coroutine : Abstract!End(d)
<1> DEFINE none == {d \in Coroutine : FALSE}
<1>1. none \in SUBSET {d \in Coroutine : phase[d] = "none"}
  OBVIOUS
<1>2. \A d \in Coroutine : d \notin none
  OBVIOUS
<1> HIDE DEF none
<1>3. phase' = [d \in Coroutine |-> IF d = c THEN p
                                    ELSE IF d \in none THEN "runnable" ELSE phase[d]]
  BY <1>2
<1>4. QED
  BY <1>1, <1>3, EndOf

\* An instruction is the end of a turn, with what it started or scheduled.
LEMMA ExecuteEnds ==
  IInv /\ Execute => (\E c \in Coroutine : Abstract!End(c)) \/ [Abstract!Next]_Abstract!vars
<1> SUFFICES ASSUME IInv, Execute
             PROVE (\E d \in Coroutine : Abstract!End(d)) \/ [Abstract!Next]_Abstract!vars
  OBVIOUS
<1>1. pc = "execute"
  BY DEF Execute, Plain, StartIo, Schedule, Finish, BadFetch, Done
<1>2. PICK c \in Coroutine : c = current
  BY <1>1, DuringInstruction
<1>3. c \in created /\ c \notin finished /\ outstanding[c] = 0 /\ finished \subseteq created
  BY <1>1, <1>2, DuringInstruction DEF IInv, OnePlace
<1>4. outstanding \in [Coroutine -> Nat]
  BY DEF IInv, Types
<1>5. ASSUME NEW st, Plain(st)
      PROVE  \E d \in Coroutine : Abstract!End(d)
  <2>1. current' = None /\ UNCHANGED <<created, finished, outstanding>>
    BY <1>5 DEF Plain, Done, ioVars
  <2>2. phase' = [d \in Coroutine |-> IF d = c THEN "runnable" ELSE phase[d]]
    BY <1>3, <2>1 DEF phase
  <2>3. QED
    BY <1>1, <1>2, <2>1, <2>2, EndAlone
<1>6. ASSUME NEW ops \in SUBSET Unused, NEW n \in [ops -> 1 .. MaxLegs],
             NEW st \in {"continue", "error"}, StartIo(ops, n, st)
      PROVE  \E d \in Coroutine : Abstract!End(d)
  <2>1. current' = None /\ UNCHANGED <<created, finished>>
        /\ \A d \in Coroutine \ {c} : outstanding'[d] = outstanding[d]
    BY <1>2, <1>4, <1>6 DEF StartIo, Done
  <2>2. outstanding'[c] > 0
    BY <1>2, <1>6, StartIoKeeps
  <2>3. phase' = [d \in Coroutine |-> IF d = c THEN "waiting" ELSE phase[d]]
    BY <1>3, <2>1, <2>2 DEF phase
  <2>4. QED
    BY <1>1, <1>2, <2>1, <2>3, EndAlone
<1>7. ASSUME NEW b \in Coroutine, Schedule(b)
      PROVE  \E d \in Coroutine : Abstract!End(d)
  <2>1. /\ current' = None /\ UNCHANGED <<finished, outstanding>>
        /\ b \notin created /\ created' = created \cup {b}
    BY <1>7 DEF Schedule, Done, ioVars
  <2>2. b \notin ToSet(suspended)
    BY <2>1 DEF IInv, OnePlace
  <2>3. outstanding[b] = 0
    BY <1>4, <2>2 DEF IInv, WaitingIsSuspended
  <2>4. {b} \in SUBSET {d \in Coroutine : phase[d] = "none"}
    BY <2>1 DEF phase
  <2>5. phase' = [d \in Coroutine |-> IF d = c THEN "runnable"
                                      ELSE IF d \in {b} THEN "runnable" ELSE phase[d]]
    BY <1>3, <2>1, <2>3 DEF phase
  <2>6. QED
    BY <1>1, <1>2, <2>1, <2>4, <2>5, EndOf
<1>8. ASSUME Finish
      PROVE  \E d \in Coroutine : Abstract!End(d)
  <2>1. current' = None /\ finished' = finished \cup {c} /\ UNCHANGED <<created, outstanding>>
    BY <1>2, <1>8 DEF Finish, ioVars
  <2>2. phase' = [d \in Coroutine |-> IF d = c THEN "finished" ELSE phase[d]]
    BY <1>3, <2>1 DEF phase
  <2>3. QED
    BY <1>1, <1>2, <2>1, <2>2, EndAlone
<1>9. ASSUME BadFetch
      PROVE  [Abstract!Next]_Abstract!vars
  <2>1. UNCHANGED <<schedVars, ioVars>>
    BY <1>9 DEF BadFetch
  <2>2. QED
    BY <1>1, <2>1, MachineIsOn, HaltOrNothing
<1>10. QED
  BY <1>5, <1>6, <1>7, <1>8, <1>9 DEF Execute

\* Every step is one of the abstract machine or leaves it alone.
LEMMA StepAbstract == IInv /\ [Next]_vars => [Abstract!Next]_Abstract!vars
<1> SUFFICES ASSUME IInv, [Next]_vars PROVE [Abstract!Next]_Abstract!vars
  OBVIOUS
<1>1. Types /\ Control
  BY DEF IInv
<1>2. CASE ReturnStopped \/ AllFinished \/ EnterSwitch \/ EnterWait \/ SkipLoop
  <2>1. UNCHANGED <<schedVars, ioVars>>
    BY <1>2 DEF ReturnStopped, AllFinished, EnterSwitch, EnterWait, SkipLoop
  <2>2. CASE MayRun
    <3>1. pc = "top"
      BY <1>2 DEF ReturnStopped, AllFinished, EnterSwitch, EnterWait, SkipLoop
    <3>2. machine = "on"
      BY <2>2, <3>1 DEF machine, Stopped, MayRun
    <3>3. QED
      BY <2>1, <3>2, HaltOrNothing
  <2>3. CASE ~MayRun
    <3>1. ReturnStopped
      BY <1>2, <2>3 DEF AllFinished, EnterSwitch, EnterWait, SkipLoop
    <3>2. status \in {"error", "exited"} /\ status' = status
      BY <1>1, <2>3, <3>1 DEF ReturnStopped, MayRun, Types, Control
    <3>3. machine' = "off"
      BY <3>2 DEF machine
    <3>4. QED
      BY <2>1, <3>3, HaltOrNothing
  <2>4. QED
    BY <2>2, <2>3
<1>3. CASE HitBreakpoint \/ SingleStep \/ Resume
  <2>1. /\ UNCHANGED <<schedVars, ioVars>>
        /\ pc = "pick" \/ (pc = "returned" /\ status = "hit_breakpoint")
    BY <1>3 DEF HitBreakpoint, SingleStep, Resume
  <2>2. machine = "on"
    BY <2>1, MachineIsOn DEF machine, Stopped
  <2>3. QED
    BY <2>1, <2>2, HaltOrNothing
<1>4. CASE Switch \/ Wait
  <2>1. PICK D \in SUBSET InFlight : \E out \in [D -> Outcomes] : FireEvents(D, out)
    BY <1>4 DEF Switch, Wait
  <2>2. PICK out \in [D -> Outcomes] : FireEvents(D, out)
    BY <2>1
  <2>3. pc \in {"switch", "wait"} /\ UNCHANGED schedVars
    BY <1>4 DEF Switch, Wait
  <2>4. QED
    BY <2>2, <2>3, LoopWakes DEF Abstract!Next
<1>5. CASE Resync
  <2>1. /\ pc = "resync" /\ UNCHANGED <<current, created, finished, ioVars, status>>
        /\ pc' \in {"assertion_failed", "pick"}
    BY <1>5 DEF Resync
  <2>2. machine = "on" /\ machine' \in {"on", "off"}
    BY <2>1, MachineIsOn DEF machine
  <2>3. phase' = phase /\ current' = current
    BY <2>1 DEF phase, ioVars
  <2>4. QED
    BY <2>2, <2>3 DEF Abstract!Next, Abstract!Halt, Abstract!vars
<1>6. CASE UNCHANGED vars
  BY <1>6 DEF vars, schedVars, ioVars, Abstract!vars, phase, machine, Stopped
<1>7. QED
  BY <1>2, <1>3, <1>4, <1>5, <1>6, CreateMainStarts, PickBegins, ExecuteEnds
     DEF Next, RunStep, Abstract!Next

\* The run loop keeps the promise of module Coroutines: one instruction at a
\* time, none of a coroutine that waits, I/O only between two instructions.
THEOREM RunLoopImplementsCoroutines == Spec => ImplementsCoroutines
<1>1. Spec => Abstract!Init /\ [][Abstract!Next]_Abstract!vars
  BY InitAbstract, StepAbstract, AlwaysIInv, PTL DEF Spec
<1>2. QED
  BY <1>1 DEF ImplementsCoroutines, Abstract!Spec

----------------------------------------------------------------------------
(* How long a coroutine waits for its turn.                                *)

\* where c is in the queue q, and how many coroutines are executed before it
PlaceOf(q, c) == CHOOSE i \in 1 .. Len(q) : q[i] = c
TurnsAhead(c) == PlaceOf(run_queue, c) - 1 + (IF current = None THEN 0 ELSE 1)

\* the instructions that a time slice has used; a slice that is used up is
\* renewed by the context switch
SliceUsed == IF executed < Cycles THEN executed ELSE 0

\* the instructions that n coroutines execute at most, the first of them in
\* what is left of its slice
Budget(n, used) == IF n = 0 THEN 0 ELSE n * Cycles - used
InstructionsAhead(c) == Budget(TurnsAhead(c), SliceUsed)

\* A coroutine in the run queue waits for a bounded number of instructions: a
\* slice for each coroutine that is before it.
WaitIsBounded ==
    /\ executed \in 0 .. Cycles
    /\ \A c \in ToSet(run_queue) : InstructionsAhead(c) \in 0 .. Len(run_queue) * Cycles

\* whether this step is an instruction that comes to its end
EndsInstruction == current # None /\ current' = None

\* Nobody who waits in the run queue loses ground: the coroutine is executed,
\* or it stays in the queue, no step makes it wait for more instructions, and
\* each instruction of another coroutine makes it wait for one less.
NoGroundLost ==
    \A c \in ToSet(run_queue) :
        \/ current' = c
        \/ /\ c \in ToSet(run_queue')
           /\ IF EndsInstruction THEN InstructionsAhead(c)' < InstructionsAhead(c)
                                 ELSE InstructionsAhead(c)' <= InstructionsAhead(c)

TakesTurns == [][NoGroundLost]_vars

\* A slice is used up only at the head of the loop, where it is renewed.
SliceInv ==
    /\ executed \in 0 .. Cycles
    /\ pc \in {"switch", "wait", "resync", "pick", "execute"} => executed < Cycles

\* Every step keeps to the slice.
LEMMA StepSlice == SliceInv /\ [Next]_vars => SliceInv'
<1> SUFFICES ASSUME SliceInv, [Next]_vars PROVE SliceInv'
  OBVIOUS
<1> USE CyclesAssumption DEF SliceInv
<1>1. CASE ReturnStopped \/ CreateMain \/ AllFinished \/ EnterSwitch \/ EnterWait \/ SkipLoop
  BY <1>1 DEF ReturnStopped, CreateMain, AllFinished, EnterSwitch, EnterWait, SkipLoop
<1>2. CASE Switch \/ Wait \/ Resync \/ Pick
  BY <1>2 DEF Switch, Wait, Resync, Pick
<1>3. CASE Execute
  <2>1. /\ pc = "execute" /\ pc' \in {"top", "returned"}
        /\ executed' \in {executed, executed + 1}
    BY <1>3 DEF Execute, Plain, StartIo, Schedule, Done, Finish, BadFetch
  <2>2. QED
    BY <2>1
<1>4. CASE HitBreakpoint \/ SingleStep \/ Resume
  BY <1>4 DEF HitBreakpoint, SingleStep, Resume
<1>5. CASE UNCHANGED vars
  BY <1>5 DEF vars
<1>6. QED
  BY <1>1, <1>2, <1>3, <1>4, <1>5 DEF Next, RunStep

\* The arithmetic of budgets.
LEMMA BudgetIs ==
  ASSUME NEW n \in Nat, NEW used \in 0 .. Cycles - 1
  PROVE  /\ Budget(n, used) \in Nat /\ Budget(n, used) <= n * Cycles
         /\ n > 0 => Budget(n - 1, used) <= Budget(n, used)
         /\ n > 0 /\ used + 1 < Cycles =>
                /\ Budget(n, used + 1) < Budget(n, used)
                /\ Budget(n - 1, used + 1) < Budget(n, used)
         /\ n > 0 /\ used + 1 = Cycles => Budget(n - 1, 0) < Budget(n, used)
<1>1. Cycles \in Nat /\ Cycles > 0 /\ used \in Nat /\ used < Cycles
  BY CyclesAssumption
<1>2. n * Cycles \in Nat /\ (n = 0 => n * Cycles = 0)
  BY <1>1
<1>3. CASE n = 0
  BY <1>1, <1>2, <1>3 DEF Budget
<1>4. CASE n > 0
  <2>1. PICK m \in Nat : n = m + 1
    <3>1. n - 1 \in Nat /\ n = (n - 1) + 1
      BY <1>4
    <3>2. QED
      BY <3>1
  <2>2. (m + 1) * Cycles = m * Cycles + Cycles /\ m * Cycles \in Nat /\ n - 1 = m
    BY <1>1, <2>1
  <2> DEFINE p == m * Cycles
  <2>3. Budget(n, used) = p + Cycles - used /\ Budget(n, used + 1) = p + Cycles - (used + 1)
    BY <1>1, <1>4, <2>1, <2>2 DEF Budget
  <2>4. /\ Budget(n - 1, used) = IF m = 0 THEN 0 ELSE p - used
        /\ Budget(n - 1, used + 1) = IF m = 0 THEN 0 ELSE p - (used + 1)
        /\ Budget(n - 1, 0) = IF m = 0 THEN 0 ELSE p
    BY <2>2 DEF Budget
  <2>5. p \in Nat /\ n * Cycles = p + Cycles
    BY <2>1, <2>2
  <2> HIDE DEF p
  <2>6. QED
    BY <1>1, <1>4, <2>3, <2>4, <2>5
<1>5. QED
  BY <1>3, <1>4

\* A place in a queue without repeats is known by who is there.
LEMMA PlaceOfIs ==
  ASSUME NEW q \in Seq(Coroutine), IsInjective(q), NEW i \in 1 .. Len(q)
  PROVE  PlaceOf(q, q[i]) = i
<1>1. \A j \in 1 .. Len(q) : q[j] = q[i] => j = i
  BY DEF IsInjective
<1>2. QED
  BY <1>1 DEF PlaceOf

\* The place of somebody in the queue.
LEMMA PlaceInQueue ==
  ASSUME Types, OnePlace, NEW c \in ToSet(run_queue)
  PROVE  \E i \in 1 .. Len(run_queue) : run_queue[i] = c /\ PlaceOf(run_queue, c) = i
<1>1. PICK i \in 1 .. Len(run_queue) : run_queue[i] = c
  BY DEF ToSet, Types
<1>2. PlaceOf(run_queue, c) = i
  BY <1>1, PlaceOfIs DEF Types, OnePlace
<1>3. QED
  BY <1>1, <1>2

\* A step after which c is at place j of the queue.
LEMMA PlaceAfter ==
  ASSUME IInv', NEW c, NEW j \in 1 .. Len(run_queue'), run_queue'[j] = c
  PROVE  c \in ToSet(run_queue') /\ PlaceOf(run_queue', c) = j
<1>1. run_queue' \in Seq(Coroutine) /\ IsInjective(run_queue')
  BY DEF IInv, Types, OnePlace
<1>2. QED
  BY <1>1, PlaceOfIs DEF ToSet

\* A step that changes neither the queue nor the slice costs nobody anything.
LEMMA QueueStands ==
  ASSUME IInv, SliceInv, UNCHANGED <<run_queue, current>>, SliceUsed' = SliceUsed
  PROVE  NoGroundLost
<1> SUFFICES ASSUME NEW c \in ToSet(run_queue)
             PROVE  /\ c \in ToSet(run_queue')
                    /\ InstructionsAhead(c)' <= InstructionsAhead(c)
                    /\ ~EndsInstruction
  BY DEF NoGroundLost
<1>1. InstructionsAhead(c)' = InstructionsAhead(c)
  BY DEF InstructionsAhead, TurnsAhead
<1>2. InstructionsAhead(c) \in Nat
  <2>1. PICK i \in 1 .. Len(run_queue) : PlaceOf(run_queue, c) = i
    BY PlaceInQueue DEF IInv
  <2>2. TurnsAhead(c) \in Nat
    BY <2>1 DEF TurnsAhead
  <2>3. SliceUsed \in 0 .. Cycles - 1
    BY CyclesAssumption DEF SliceInv, SliceUsed
  <2>4. QED
    BY <2>2, <2>3, BudgetIs, CyclesAssumption DEF InstructionsAhead
<1>3. QED
  BY <1>1, <1>2 DEF EndsInstruction

\* The queue grows at its end: nobody's place in it changes.
LEMMA QueueGrows ==
  ASSUME IInv, IInv', SliceInv, NEW t \in Seq(Coroutine), run_queue' = run_queue \o t,
         UNCHANGED <<current, executed>>
  PROVE  NoGroundLost
<1> SUFFICES ASSUME NEW c \in ToSet(run_queue)
             PROVE  /\ c \in ToSet(run_queue')
                    /\ InstructionsAhead(c)' <= InstructionsAhead(c)
                    /\ ~EndsInstruction
  BY DEF NoGroundLost
<1>1. run_queue \in Seq(Coroutine)
  BY DEF IInv, Types
<1>2. PICK i \in 1 .. Len(run_queue) : run_queue[i] = c /\ PlaceOf(run_queue, c) = i
  BY PlaceInQueue DEF IInv
<1>3. i \in 1 .. Len(run_queue') /\ run_queue'[i] = c
  BY <1>1, <1>2, JoinPlaces
<1>4. c \in ToSet(run_queue') /\ PlaceOf(run_queue', c) = i
  BY <1>3, PlaceAfter
<1>5. InstructionsAhead(c)' = InstructionsAhead(c)
  BY <1>2, <1>4 DEF InstructionsAhead, TurnsAhead, SliceUsed
<1>6. SliceUsed \in 0 .. Cycles - 1 /\ TurnsAhead(c) \in Nat
  BY <1>2, CyclesAssumption DEF SliceInv, SliceUsed, TurnsAhead
<1>7. InstructionsAhead(c) \in Nat
  BY <1>6, BudgetIs, CyclesAssumption DEF InstructionsAhead
<1>8. QED
  BY <1>4, <1>5, <1>7 DEF EndsInstruction

\* The first of the queue is executed: the others are as far from it as before.
LEMMA PickIsInTurn == IInv /\ IInv' /\ SliceInv /\ Pick => NoGroundLost
<1> SUFFICES ASSUME IInv, IInv', SliceInv, Pick, NEW c \in ToSet(run_queue), current' # c
             PROVE  /\ c \in ToSet(run_queue')
                    /\ InstructionsAhead(c)' <= InstructionsAhead(c)
                    /\ ~EndsInstruction
  BY DEF NoGroundLost
<1>1. /\ pc = "pick" /\ pc' = "execute" /\ executed' = executed
      /\ current' = Head(run_queue) /\ run_queue' = Tail(run_queue)
  BY DEF Pick
<1>2. current = None /\ current' # None
  BY <1>1 DEF IInv, Control
<1>3. run_queue \in Seq(Coroutine)
  BY DEF IInv, Types
<1>4. PICK i \in 1 .. Len(run_queue) : run_queue[i] = c /\ PlaceOf(run_queue, c) = i
  BY PlaceInQueue DEF IInv
<1>5. i # 1
  BY <1>1, <1>3, <1>4
<1>6. i - 1 \in 1 .. Len(run_queue') /\ run_queue'[i - 1] = c
  BY <1>1, <1>3, <1>4, <1>5
<1>7. c \in ToSet(run_queue') /\ PlaceOf(run_queue', c) = i - 1
  BY <1>6, PlaceAfter
<1>8. TurnsAhead(c) = i - 1 /\ TurnsAhead(c)' = i - 1
  BY <1>2, <1>4, <1>7 DEF TurnsAhead
<1>9. InstructionsAhead(c)' = InstructionsAhead(c)
  BY <1>1, <1>8 DEF InstructionsAhead, SliceUsed
<1>10. SliceUsed \in 0 .. Cycles - 1 /\ TurnsAhead(c) \in Nat
  BY <1>4, <1>8, CyclesAssumption DEF SliceInv, SliceUsed
<1>11. InstructionsAhead(c) \in Nat
  BY <1>10, BudgetIs, CyclesAssumption DEF InstructionsAhead
<1>12. QED
  BY <1>2, <1>7, <1>9, <1>11 DEF EndsInstruction

\* An instruction ends.  Its coroutine comes before the others again only as
\* long as its slice lasts.
LEMMA InstructionNearer ==
  ASSUME IInv, IInv', SliceInv, pc = "execute", current' = None, executed' = executed + 1,
         NEW c \in ToSet(run_queue), NEW i \in 1 .. Len(run_queue), run_queue[i] = c,
         \/ i \in 1 .. Len(run_queue') /\ run_queue'[i] = c
         \/ executed' < Cycles /\ i + 1 \in 1 .. Len(run_queue') /\ run_queue'[i + 1] = c
  PROVE  /\ c \in ToSet(run_queue')
         /\ InstructionsAhead(c)' < InstructionsAhead(c)
<1>1. current # None
  BY DEF IInv, Control
<1>2. PlaceOf(run_queue, c) = i /\ i \in Nat
  <2>1. run_queue \in Seq(Coroutine) /\ IsInjective(run_queue)
    BY DEF IInv, Types, OnePlace
  <2>2. PlaceOf(run_queue, run_queue[i]) = i
    BY <2>1, PlaceOfIs
  <2>3. QED
    BY <2>2
<1>3. TurnsAhead(c) = i
  BY <1>1, <1>2 DEF TurnsAhead
<1>4. executed \in 0 .. Cycles - 1 /\ Cycles \in Nat
  BY CyclesAssumption DEF SliceInv
<1>5. InstructionsAhead(c) = Budget(i, executed)
  BY <1>3, <1>4 DEF InstructionsAhead, SliceUsed
<1>6. CASE i \in 1 .. Len(run_queue') /\ run_queue'[i] = c
  <2>1. c \in ToSet(run_queue') /\ PlaceOf(run_queue', c) = i
    BY <1>6, PlaceAfter
  <2>2. TurnsAhead(c)' = i - 1
    BY <1>2, <2>1 DEF TurnsAhead
  <2>3. CASE executed + 1 < Cycles
    <3>1. InstructionsAhead(c)' = Budget(i - 1, executed + 1)
      BY <2>2, <2>3 DEF InstructionsAhead, SliceUsed
    <3>2. QED
      BY <1>4, <1>5, <2>1, <2>3, <3>1, BudgetIs
  <2>4. CASE executed + 1 = Cycles
    <3>1. InstructionsAhead(c)' = Budget(i - 1, 0)
      BY <1>4, <2>2, <2>4 DEF InstructionsAhead, SliceUsed
    <3>2. QED
      BY <1>4, <1>5, <2>1, <2>4, <3>1, BudgetIs
  <2>5. QED
    BY <1>4, <2>3, <2>4
<1>7. CASE executed' < Cycles /\ i + 1 \in 1 .. Len(run_queue') /\ run_queue'[i + 1] = c
  <2>1. c \in ToSet(run_queue') /\ PlaceOf(run_queue', c) = i + 1
    BY <1>7, PlaceAfter
  <2>2. TurnsAhead(c)' = i
    BY <1>2, <2>1 DEF TurnsAhead
  <2>3. InstructionsAhead(c)' = Budget(i, executed + 1)
    BY <1>7, <2>2 DEF InstructionsAhead, SliceUsed
  <2>4. QED
    BY <1>4, <1>5, <1>7, <2>1, <2>3, BudgetIs
<1>8. QED
  BY <1>6, <1>7

\* Wherever the coroutine goes after its instruction, and whatever it has
\* scheduled, those who wait are one instruction nearer.
LEMMA DoneNearer ==
  ASSUME IInv, IInv', SliceInv, NEW q \in Seq(Coroutine), Done(q),
         NEW t \in Seq(Coroutine), q = run_queue \o t
  PROVE  NoGroundLost
<1> SUFFICES ASSUME NEW c \in ToSet(run_queue)
             PROVE  /\ c \in ToSet(run_queue')
                    /\ InstructionsAhead(c)' < InstructionsAhead(c)
  BY DEF NoGroundLost, EndsInstruction, Done, IInv, Control
<1>1. run_queue \in Seq(Coroutine) /\ current \in Coroutine
  BY DEF IInv, Types, Control, Done
<1>2. PICK i \in 1 .. Len(run_queue) : run_queue[i] = c
  BY <1>1 DEF ToSet
<1>3. i \in 1 .. Len(q) /\ q[i] = c
  BY <1>1, <1>2, JoinPlaces
<1>4. \/ i \in 1 .. Len(run_queue') /\ run_queue'[i] = c
      \/ executed' < Cycles /\ i + 1 \in 1 .. Len(run_queue') /\ run_queue'[i + 1] = c
  <2>1. \/ run_queue' = q
        \/ run_queue' = Append(q, current)
        \/ ~(executed' >= Cycles) /\ run_queue' = <<current>> \o q
    BY DEF Done, Requeue
  <2>2. CASE run_queue' = q
    BY <1>3, <2>2
  <2>3. CASE run_queue' = Append(q, current)
    BY <1>1, <1>3, <2>3
  <2>4. CASE ~(executed' >= Cycles) /\ run_queue' = <<current>> \o q
    <3>1. i + 1 \in 1 .. Len(run_queue') /\ run_queue'[i + 1] = c
      BY <1>1, <1>3, <2>4
    <3>2. executed' < Cycles
      BY <2>4, CyclesAssumption DEF Done, SliceInv
    <3>3. QED
      BY <3>1, <3>2
  <2>5. QED
    BY <2>1, <2>2, <2>3, <2>4
<1>5. pc = "execute" /\ current' = None /\ executed' = executed + 1
  BY DEF Done
<1>6. /\ c \in ToSet(run_queue')
      /\ InstructionsAhead(c)' < InstructionsAhead(c)
  BY <1>2, <1>4, <1>5, InstructionNearer
<1>7. QED
  BY <1>6

\* and so they are whatever the instruction is.
LEMMA ExecuteNearer == IInv /\ IInv' /\ SliceInv /\ Execute => NoGroundLost
<1> SUFFICES ASSUME IInv, IInv', SliceInv, Execute PROVE NoGroundLost
  OBVIOUS
<1>1. run_queue \in Seq(Coroutine) /\ <<>> \in Seq(Coroutine) /\ run_queue = run_queue \o <<>>
  BY DEF IInv, Types
<1>2. CASE Done(run_queue)
  <2> DEFINE none == <<>>
  <2>1. none \in Seq(Coroutine) /\ run_queue = run_queue \o none
    BY <1>1
  <2> HIDE DEF none
  <2>2. QED
    BY <1>1, <1>2, <2>1, DoneNearer
<1>3. ASSUME NEW x \in Coroutine, Done(Append(run_queue, x)) PROVE NoGroundLost
  <2> DEFINE t == <<x>>
             q == Append(run_queue, x)
  <2>1. t \in Seq(Coroutine) /\ q \in Seq(Coroutine) /\ q = run_queue \o t
    BY <1>1
  <2>2. Done(q)
    BY <1>3
  <2> HIDE DEF t, q
  <2>3. QED
    BY <2>1, <2>2, DoneNearer
<1>4. CASE Finish
  <2>1. /\ pc = "execute" /\ current' = None /\ executed' = executed + 1
        /\ run_queue' = run_queue
    BY <1>4 DEF Finish
  <2>2. ASSUME NEW c \in ToSet(run_queue)
        PROVE  c \in ToSet(run_queue') /\ InstructionsAhead(c)' < InstructionsAhead(c)
    <3>1. PICK i \in 1 .. Len(run_queue) : run_queue[i] = c
      BY <1>1 DEF ToSet
    <3>2. QED
      BY <2>1, <3>1, InstructionNearer
  <2>3. EndsInstruction
    BY <2>1 DEF EndsInstruction, IInv, Control
  <2>4. QED
    BY <2>2, <2>3 DEF NoGroundLost
<1>5. CASE BadFetch
  <2>1. UNCHANGED <<run_queue, current, executed>>
    BY <1>5 DEF BadFetch, schedVars
  <2>2. QED
    BY <2>1, QueueStands DEF SliceUsed
<1>6. QED
  BY <1>2, <1>3, <1>4, <1>5 DEF Execute, Plain, StartIo, Schedule

\* One step per action of the run loop and of the debugger.
LEMMA StepNearer == IInv /\ IInv' /\ SliceInv /\ [Next]_vars => NoGroundLost
<1> SUFFICES ASSUME IInv, IInv', SliceInv, [Next]_vars PROVE NoGroundLost
  OBVIOUS
<1>1. CASE ReturnStopped \/ AllFinished \/ EnterSwitch \/ EnterWait \/ SkipLoop
  <2>1. UNCHANGED <<run_queue, current>>
    BY <1>1 DEF ReturnStopped, AllFinished, EnterSwitch, EnterWait, SkipLoop, schedVars
  <2>2. SliceUsed' = SliceUsed
    BY <1>1, CyclesAssumption
       DEF ReturnStopped, AllFinished, EnterSwitch, EnterWait, SkipLoop, SliceUsed, SliceInv
  <2>3. QED
    BY <2>1, <2>2, QueueStands
<1>2. CASE Switch \/ Wait
  <2>1. UNCHANGED <<run_queue, current, executed>>
    BY <1>2 DEF Switch, Wait, schedVars
  <2>2. QED
    BY <2>1, QueueStands DEF SliceUsed
<1>3. CASE HitBreakpoint \/ SingleStep \/ Resume \/ UNCHANGED vars
  <2>1. UNCHANGED <<run_queue, current, executed>>
    BY <1>3 DEF HitBreakpoint, SingleStep, Resume, vars, schedVars
  <2>2. QED
    BY <2>1, QueueStands DEF SliceUsed
<1>4. CASE CreateMain
  <2> DEFINE t == <<Main>>
  <2>1. run_queue' = run_queue \o t /\ UNCHANGED <<current, executed>>
    BY <1>4, CoroutineAssumption DEF CreateMain, IInv, Types
  <2>2. t \in Seq(Coroutine)
    BY CoroutineAssumption
  <2> HIDE DEF t
  <2>3. QED
    BY <2>1, <2>2, QueueGrows
<1>5. CASE Resync
  <2> DEFINE t == Only(suspended, Idle)
  <2>1. run_queue \in Seq(Coroutine) /\ suspended \in Seq(Coroutine)
    BY DEF IInv, Types
  <2>2. ToSet(run_queue) \subseteq Idle
    BY RunnableDoesNotWait DEF IInv, Idle
  <2>3. Only(run_queue, Idle) = run_queue
    BY <2>1, <2>2, OnlyAll
  <2>4. t \in Seq(Coroutine)
    <3>1. t \in Seq(Coroutine \cap Idle)
      BY <2>1, OnlyPlaces
    <3> HIDE DEF t
    <3>2. QED
      BY <3>1
  <2>5. run_queue' = run_queue \o t /\ UNCHANGED <<current, executed>>
    BY <1>5, <2>3 DEF Resync
  <2> HIDE DEF t
  <2>6. QED
    BY <2>4, <2>5, QueueGrows
<1>6. QED
  BY <1>1, <1>2, <1>3, <1>4, <1>5, PickIsInTurn, ExecuteNearer DEF Next, RunStep

\* Round robin (lstf-virtualmachine.c:1469-1500): from the moment a coroutine
\* is in the run queue the number of instructions that may be executed before
\* it only falls, and by one at least with each of them.  However the others
\* compute, wait, schedule and finish, nobody overtakes it for good.
THEOREM TurnsAreTaken == Spec => TakesTurns
<1>1. Init => SliceInv
  BY CyclesAssumption DEF Init, SliceInv
<1>2. IInv /\ IInv' /\ SliceInv /\ [Next]_vars => [NoGroundLost]_vars
  BY StepNearer
<1>3. QED
  BY <1>1, <1>2, StepSlice, AlwaysIInv, PTL DEF Spec, TakesTurns

\* That number is never more than a slice for each coroutine in the queue.
THEOREM WaitsAreBounded == Spec => []WaitIsBounded
<1>1. Init => SliceInv
  BY CyclesAssumption DEF Init, SliceInv
<1>2. IInv /\ SliceInv => WaitIsBounded
  <2> SUFFICES ASSUME IInv, SliceInv, NEW c \in ToSet(run_queue)
               PROVE  InstructionsAhead(c) \in 0 .. Len(run_queue) * Cycles
    BY DEF WaitIsBounded, SliceInv
  <2> DEFINE n == Len(run_queue)
  <2>1. PICK i \in 1 .. n : PlaceOf(run_queue, c) = i
    BY PlaceInQueue DEF IInv
  <2>2. n \in Nat /\ Cycles \in Nat
    BY CyclesAssumption DEF IInv, Types
  <2>3. TurnsAhead(c) \in 0 .. n
    BY <2>1, <2>2 DEF TurnsAhead
  <2>4. SliceUsed \in 0 .. Cycles - 1
    BY CyclesAssumption DEF SliceInv, SliceUsed
  <2>5. /\ InstructionsAhead(c) \in Nat
        /\ InstructionsAhead(c) <= TurnsAhead(c) * Cycles
    BY <2>3, <2>4, BudgetIs DEF InstructionsAhead
  <2>6. TurnsAhead(c) * Cycles <= n * Cycles /\ n * Cycles \in Nat /\ TurnsAhead(c) * Cycles \in Nat
    BY <2>2, <2>3, Z3
  <2> HIDE DEF n
  <2>7. QED
    BY <2>5, <2>6 DEF n
<1>3. QED
  BY <1>1, <1>2, StepSlice, AlwaysIInv, PTL DEF Spec
============================================================================
