-------------------------- MODULE EventLoopProofs --------------------------
(***************************************************************************)
(* The safety invariants of EventLoop hold for every set of events, every  *)
(* assignment of types to them and every capacity of the pipe.             *)
(***************************************************************************)
EXTENDS EventLoop, TLAPS

USE DEF Elems

----------------------------------------------------------------------------
(* Lists of events.                                                        *)

\* What is taken from the front of a list without repeats is not in the rest.
LEMMA HeadTailElems ==
    ASSUME NEW S, NEW s \in Seq(S), s # <<>>
    PROVE  /\ Head(s) \in S /\ Tail(s) \in Seq(S)
           /\ Elems(s) = {Head(s)} \cup Elems(Tail(s))
           /\ NoRepeats(s) => NoRepeats(Tail(s)) /\ Head(s) \notin Elems(Tail(s))
  <1>1. Len(s) \in Nat \ {0} /\ Head(s) = s[1] /\ Head(s) \in S /\ Tail(s) \in Seq(S)
    OBVIOUS
  <1>2. Len(Tail(s)) = Len(s) - 1 /\ \A m \in 1 .. Len(s) - 1 : Tail(s)[m] = s[m + 1]
    OBVIOUS
  <1>3. Elems(s) = {Head(s)} \cup Elems(Tail(s))
    <2>1. ASSUME NEW m \in 1 .. Len(s) PROVE s[m] \in {Head(s)} \cup Elems(Tail(s))
      <3>1. CASE m = 1
        BY <1>1, <3>1
      <3>2. CASE m # 1
        <4>1. m - 1 \in 1 .. Len(s) - 1 /\ Tail(s)[m - 1] = s[m]
          BY <1>1, <1>2, <3>2
        <4>2. QED
          BY <4>1, <1>2
      <3>3. QED
        BY <3>1, <3>2
    <2>2. ASSUME NEW m \in 1 .. Len(Tail(s)) PROVE Tail(s)[m] \in Elems(s)
      BY <1>1, <1>2
    <2>3. Head(s) \in Elems(s)
      BY <1>1
    <2>4. QED
      BY <2>1, <2>2, <2>3
  <1>4. ASSUME NoRepeats(s)
        PROVE  NoRepeats(Tail(s)) /\ Head(s) \notin Elems(Tail(s))
    BY <1>1, <1>2, <1>4 DEF NoRepeats
  <1>5. QED
    BY <1>1, <1>3, <1>4

\* What an append does to the members of a list.
LEMMA AppendElems ==
    ASSUME NEW S, NEW s \in Seq(S), NEW e \in S
    PROVE  /\ Append(s, e) \in Seq(S)
           /\ Elems(Append(s, e)) = Elems(s) \cup {e}
           /\ NoRepeats(s) /\ e \notin Elems(s) => NoRepeats(Append(s, e))
  <1>1. Append(s, e) \in Seq(S) /\ Len(Append(s, e)) = Len(s) + 1 /\ Len(s) \in Nat
    OBVIOUS
  <1>2. Append(s, e)[Len(s) + 1] = e /\ \A m \in 1 .. Len(s) : Append(s, e)[m] = s[m]
    OBVIOUS
  <1>3. Elems(Append(s, e)) = Elems(s) \cup {e}
    BY <1>1, <1>2
  <1>4. ASSUME NoRepeats(s), e \notin Elems(s) PROVE NoRepeats(Append(s, e))
    BY <1>1, <1>2, <1>4 DEF NoRepeats
  <1>5. QED
    BY <1>1, <1>3, <1>4

\* What a prepend does to them.
LEMMA PrependElems ==
    ASSUME NEW S, NEW s \in Seq(S), NEW e \in S
    PROVE  /\ <<e>> \o s \in Seq(S)
           /\ Elems(<<e>> \o s) = Elems(s) \cup {e}
           /\ NoRepeats(s) /\ e \notin Elems(s) => NoRepeats(<<e>> \o s)
  <1> DEFINE t == <<e>> \o s
  <1>1. t \in Seq(S) /\ Len(t) = Len(s) + 1 /\ Len(s) \in Nat
    OBVIOUS
  <1>2. t[1] = e /\ \A m \in 1 .. Len(s) : t[m + 1] = s[m]
    OBVIOUS
  <1>3. \A m \in 1 .. Len(t) : m = 1 \/ (m - 1 \in 1 .. Len(s) /\ t[m] = s[m - 1])
    BY <1>1, <1>2
  <1> HIDE DEF t
  <1>4. Elems(t) = Elems(s) \cup {e}
    <2>1. ASSUME NEW m \in 1 .. Len(t) PROVE t[m] \in Elems(s) \cup {e}
      BY <1>2, <1>3
    <2>2. ASSUME NEW m \in 1 .. Len(s) PROVE s[m] \in Elems(t)
      <3>1. m + 1 \in 1 .. Len(t) /\ t[m + 1] = s[m]
        BY <1>1, <1>2
      <3>2. QED
        BY <3>1
    <2>3. e \in Elems(t)
      BY <1>1, <1>2
    <2>4. QED
      BY <2>1, <2>2, <2>3
  <1>5. ASSUME NoRepeats(s), e \notin Elems(s) PROVE NoRepeats(t)
    <2>1. SUFFICES ASSUME NEW m \in 1 .. Len(t), NEW n \in 1 .. Len(t), t[m] = t[n]
                   PROVE  m = n
      BY DEF NoRepeats
    <2>2. CASE m = 1 /\ n # 1
      BY <1>2, <1>3, <1>5, <2>1, <2>2
    <2>3. CASE m # 1 /\ n = 1
      BY <1>2, <1>3, <1>5, <2>1, <2>3
    <2>4. CASE m # 1 /\ n # 1
      BY <1>1, <1>3, <1>5, <2>1, <2>4 DEF NoRepeats
    <2>5. QED
      BY <2>2, <2>3, <2>4
  <1>6. QED
    BY <1>1, <1>4, <1>5 DEF t

\* What a concatenation does to them.
LEMMA ConcatElems ==
    ASSUME NEW S, NEW s \in Seq(S), NEW t \in Seq(S)
    PROVE  s \o t \in Seq(S) /\ Elems(s \o t) = Elems(s) \cup Elems(t)
  <1>1. /\ s \o t \in Seq(S) /\ Len(s \o t) = Len(s) + Len(t)
        /\ Len(s) \in Nat /\ Len(t) \in Nat
    OBVIOUS
  <1>2. /\ \A m \in 1 .. Len(s) : (s \o t)[m] = s[m]
        /\ \A m \in 1 .. Len(t) : (s \o t)[Len(s) + m] = t[m]
    OBVIOUS
  <1>3. ASSUME NEW m \in 1 .. Len(s \o t) PROVE (s \o t)[m] \in Elems(s) \cup Elems(t)
    <2>1. CASE m \in 1 .. Len(s)
      BY <1>2, <2>1
    <2>2. CASE m \notin 1 .. Len(s)
      <3>1. m - Len(s) \in 1 .. Len(t) /\ m = Len(s) + (m - Len(s))
        BY <1>1, <2>2
      <3>2. QED
        BY <1>2, <3>1
    <2>3. QED
      BY <2>1, <2>2
  <1>4. ASSUME NEW m \in 1 .. Len(s) PROVE s[m] \in Elems(s \o t)
    BY <1>1, <1>2
  <1>5. ASSUME NEW m \in 1 .. Len(t) PROVE t[m] \in Elems(s \o t)
    <2>1. Len(s) + m \in 1 .. Len(s \o t)
      BY <1>1
    <2>2. QED
      BY <1>2, <2>1
  <1>6. QED
    BY <1>1, <1>3, <1>4, <1>5

\* The empty list has none.
LEMMA EmptyElems == Elems(<<>>) = {} /\ NoRepeats(<<>>)
  BY DEF NoRepeats

HIDE DEF Elems
USE KindAssumption, CapacityAssumption, NoEventAssumption, ModesAssumption

----------------------------------------------------------------------------
(* Type correctness.                                                       *)

\* The walk of the pending list keeps the type of the state.
LEMMA WalkTypes ==
    ASSUME TypeOK, pending # <<>>, TakeHead \/ KeepHead
    PROVE  pending' \in Seq(Events) /\ kept' \in Seq(Events) /\ ready_list' \in Seq(Events)
  <1>1. Head(pending) \in Events /\ Tail(pending) \in Seq(Events)
    BY HeadTailElems DEF TypeOK
  <1>2. <<Head(pending)>> \o ready_list \in Seq(Events)
    BY <1>1, PrependElems DEF TypeOK
  <1>3. Append(kept, Head(pending)) \in Seq(Events)
    BY <1>1, AppendElems DEF TypeOK
  <1>4. QED
    BY <1>1, <1>2, <1>3 DEF TypeOK, TakeHead, KeepHead

\* (the callback's event and the monitor's are events only by ControlInv)
LEMMA InitTypes == Init => TypeOK /\ ControlInv
  <1> SUFFICES ASSUME Init PROVE TypeOK /\ ControlInv
    OBVIOUS
  <1>1. pending \in Seq(Events) /\ kept \in Seq(Events) /\ ready_list \in Seq(Events)
    BY DEF Init
  <1>2. /\ is_ready \in [Events -> BOOLEAN] /\ is_canceled \in [Events -> BOOLEAN]
        /\ io_errno \in [Events -> BOOLEAN] /\ result \in [Events -> {"unset", "value"}]
        /\ thread \in [Events -> ThreadStates] /\ fd \in [Events -> {"busy", "ready", "closed"}]
        /\ got \in [Events -> {"none", "unset", "value", "error", "no_errno"}]
    BY DEF Init, ThreadStates
  <1>3. /\ pc = "idle" /\ lock = "none" /\ is_running \in BOOLEAN /\ nonblocking \in BOOLEAN
        /\ current = NoEvent /\ monitored = NoEvent
        /\ revents = {} /\ added = {} /\ freed = {} /\ kept = <<>>
    BY Zenon DEF Init
  <1>4. pipe \in 0 .. PipeCapacity
    BY DEF Init
  <1>5. TypeOK
    BY <1>1, <1>2, <1>3, <1>4 DEF TypeOK
  <1>6. ControlInv
    BY <1>3 DEF ControlInv
  <1>7. QED
    BY <1>5, <1>6

\* Every step keeps the type of the state.
LEMMA StepTypes == TypeOK /\ ControlInv /\ [Next]_vars => TypeOK' /\ ControlInv'
  <1> SUFFICES ASSUME TypeOK, ControlInv, [Next]_vars PROVE TypeOK' /\ ControlInv'
    OBVIOUS
  <1> USE DEF mainVars, listVars, eventVars, memVars
  <1>1. ASSUME NEW nb \in NonblockModes, Process(nb) PROVE TypeOK' /\ ControlInv'
    BY <1>1 DEF TypeOK, ControlInv, Process
  <1>2. CASE ScanStep
    BY <1>2, WalkTypes DEF TypeOK, ControlInv, ScanStep, TakeHead, KeepHead
  <1>3. CASE ScanDone
    BY <1>3 DEF TypeOK, ControlInv, ScanDone, EndWalk
  <1>4. CASE SetupPoll
    BY <1>4 DEF TypeOK, ControlInv, SetupPoll
  <1>5. CASE Poll
    <2>1. Signalled \subseteq Events \cup {BgFd}
      BY DEF TypeOK, Signalled, Elems
    <2>2. QED
      BY <1>5, <2>1 DEF TypeOK, ControlInv, Poll
  <1>6. CASE GatherIo
    BY <1>6, WalkTypes DEF TypeOK, ControlInv, GatherIo, TakeHead, KeepHead
  <1>7. CASE GatherHangup
    BY <1>7, WalkTypes DEF TypeOK, ControlInv, GatherHangup, TakeHead, KeepHead
  <1>8. CASE GatherOther
    BY <1>8, WalkTypes DEF TypeOK, ControlInv, GatherOther, TakeHead, KeepHead
  <1>9. CASE GatherDone
    <2>1. pipe' \in 0 .. pipe
      BY <1>9, CapacityAssumption, BufferAssumption DEF TypeOK, GatherDone
    <2>2. pipe' \in 0 .. PipeCapacity
      BY <2>1, CapacityAssumption DEF TypeOK
    <2> QED
      BY <1>9, <2>2 DEF TypeOK, ControlInv, GatherDone, EndWalk
  <1>10. CASE Dispatch
    <2>1. Head(ready_list) \in Events /\ Tail(ready_list) \in Seq(Events)
      BY <1>10, HeadTailElems DEF TypeOK, ControlInv, Dispatch
    <2>2. Outcome(Head(ready_list)) \in {"unset", "value", "error", "no_errno"}
      BY <2>1 DEF TypeOK, ControlInv, Outcome
    <2>3. QED
      BY <1>10, <2>1, <2>2 DEF TypeOK, ControlInv, Dispatch
  <1>11. CASE CallbackEnd
    BY <1>11 DEF TypeOK, ControlInv, CallbackEnd
  <1>12. CASE DispatchDone
    BY <1>12 DEF TypeOK, ControlInv, DispatchDone
  <1>13. ASSUME NEW e \in Events, Add(e) PROVE TypeOK' /\ ControlInv'
    <2>1. Append(pending, e) \in Seq(Events)
      BY AppendElems DEF TypeOK
    <2>2. QED
      BY <1>13, <2>1 DEF TypeOK, ControlInv, Add, ThreadStates, InUserCode
  <1>14. ASSUME NEW e \in Events, Return(e) PROVE TypeOK' /\ ControlInv'
    BY <1>14 DEF TypeOK, ControlInv, Return
  <1>15. ASSUME NEW e \in Events, Cancel(e) PROVE TypeOK' /\ ControlInv'
    BY <1>15 DEF TypeOK, ControlInv, Cancel
  <1>16. CASE Quit
    BY <1>16 DEF TypeOK, ControlInv, Quit
  <1>17. CASE Destroy
    <2>1. is_canceled' \in [Events -> BOOLEAN] /\ io_errno' \in [Events -> BOOLEAN]
      BY <1>17 DEF TypeOK, ControlInv, Destroy, Elems
    <2>2. pending' \in Seq(Events) /\ freed' \subseteq Events
      BY <1>17 DEF TypeOK, ControlInv, Destroy, Elems
    <2>3. QED
      BY <1>17, <2>1, <2>2 DEF TypeOK, ControlInv, Destroy
  <1>18. ASSUME NEW e \in Events, ThreadStep(e) PROVE TypeOK' /\ ControlInv'
    <2> USE DEF TypeOK, ControlInv, ControlInv, ThreadStates, otherVars
    <2>1. CASE BgPublish(e)
      BY <2>1 DEF BgPublish
    <2>2. CASE BgStore(e)
      BY <2>2 DEF BgStore
    <2>3. CASE BgSignal(e)
      BY <2>3 DEF BgSignal, Signal
    <2>4. CASE BgCancel(e)
      BY <2>4 DEF BgCancel
    <2>5. CASE BgErrno(e)
      BY <2>5 DEF BgErrno
    <2>6. CASE BgExit(e)
      BY <2>6 DEF BgExit
    <2>7. QED
      BY <1>18, <2>1, <2>2, <2>3, <2>4, <2>5, <2>6 DEF ThreadStep, CompletionStep
  <1>19. ASSUME NEW e \in Events, MonitorPublish(e) PROVE TypeOK' /\ ControlInv'
    BY <1>19 DEF TypeOK, ControlInv, MonitorPublish
  <1>20. CASE MonitorStore
    BY <1>20 DEF TypeOK, ControlInv, MonitorStore, Signal
  <1>21. ASSUME NEW e \in Events, NEW s \in {"ready", "closed"}, FdChange(e, s) PROVE TypeOK' /\ ControlInv'
    BY <1>21 DEF TypeOK, ControlInv, FdChange
  <1>22. CASE UNCHANGED vars
    BY <1>22 DEF TypeOK, ControlInv, vars
  <1>23. QED
    BY <1>1, <1>2, <1>3, <1>4, <1>5, <1>6, <1>7, <1>8, <1>9, <1>10, <1>11, <1>12, <1>13, <1>14,
       <1>15, <1>16, <1>17, <1>18, <1>19, <1>20, <1>21, <1>22
       DEF Next, MainStep, UserStep

\* Every variable keeps its type: in particular the pipe never holds more
\* bytes than it can, and every list is a list of events.
THEOREM Typing == Spec => []TypeOK
  BY InitTypes, StepTypes, PTL DEF Spec
----------------------------------------------------------------------------
(* Every event is in one place.                                            *)

\* The walk moves events from one list to the other and loses none.
LEMMA WalkOwned ==
    ASSUME TypeOK, OwnedOnce, pending # <<>>, TakeHead \/ KeepHead,
           UNCHANGED <<current, added, freed>>
    PROVE  OwnedOnce'
  <1> DEFINE e == Head(pending)
  <1>1. /\ e \in Events
        /\ Elems(pending) = {e} \cup Elems(Tail(pending))
        /\ NoRepeats(Tail(pending)) /\ e \notin Elems(Tail(pending))
    BY HeadTailElems DEF TypeOK, OwnedOnce
  <1>2. e \notin Elems(kept) \cup Elems(ready_list)
    BY <1>1 DEF OwnedOnce
  <1>3. CASE TakeHead
    <2>1. Elems(ready_list') = Elems(ready_list) \cup {e} /\ NoRepeats(ready_list')
      BY <1>1, <1>2, <1>3, PrependElems DEF TypeOK, OwnedOnce, TakeHead
    <2>2. pending' = Tail(pending) /\ kept' = kept
      BY <1>3 DEF TakeHead
    <2> HIDE DEF e
    <2>3. QED
      BY <1>1, <1>2, <2>1, <2>2 DEF OwnedOnce
  <1>4. CASE KeepHead
    <2>1. Elems(kept') = Elems(kept) \cup {e} /\ NoRepeats(kept')
      BY <1>1, <1>2, <1>4, AppendElems DEF TypeOK, OwnedOnce, KeepHead
    <2>2. pending' = Tail(pending) /\ ready_list' = ready_list
      BY <1>4 DEF KeepHead
    <2> HIDE DEF e
    <2>3. QED
      BY <1>1, <1>2, <2>1, <2>2 DEF OwnedOnce
  <1>5. QED
    BY <1>3, <1>4

\* Every step keeps each event in one place.
LEMMA StepOwned == TypeOK /\ ControlInv /\ OwnedOnce /\ [Next]_vars => OwnedOnce'
  <1> SUFFICES ASSUME TypeOK, ControlInv, OwnedOnce, [Next]_vars PROVE OwnedOnce'
    OBVIOUS
  <1> USE DEF mainVars, listVars, memVars
  <1> DEFINE places == <<kept, pending, ready_list, current, added, freed>>
  <1>1. CASE UNCHANGED places
    BY <1>1 DEF OwnedOnce
  <1>2. CASE ScanStep \/ GatherIo \/ GatherHangup \/ GatherOther
    BY <1>2, WalkOwned DEF ScanStep, GatherIo, GatherHangup, GatherOther
  <1>3. CASE ScanDone \/ GatherDone
    <2>1. pending = <<>> /\ pending' = kept /\ kept' = <<>> /\ UNCHANGED <<ready_list, current, added, freed>>
      BY <1>3 DEF ScanDone, GatherDone, EndWalk
    <2>2. QED
      BY <2>1, EmptyElems DEF OwnedOnce
  <1>4. CASE Dispatch
    <2> DEFINE e == Head(ready_list)
    <2>1. /\ e \in Events
          /\ Elems(ready_list) = {e} \cup Elems(Tail(ready_list))
          /\ NoRepeats(Tail(ready_list)) /\ e \notin Elems(Tail(ready_list))
      BY <1>4, HeadTailElems DEF TypeOK, OwnedOnce, Dispatch
    <2>2. /\ current = NoEvent /\ current' = e /\ ready_list' = Tail(ready_list)
          /\ UNCHANGED <<kept, pending, added, freed>>
      BY <1>4 DEF Dispatch, ControlInv
    <2> HIDE DEF e
    <2>3. QED
      BY <2>1, <2>2 DEF OwnedOnce
  <1>5. CASE CallbackEnd
    <2>1. /\ current \in Events /\ current' = NoEvent /\ freed' = freed \cup {current}
          /\ UNCHANGED <<kept, pending, ready_list, added>>
      BY <1>5 DEF CallbackEnd, ControlInv, TypeOK
    <2>2. NoEvent \notin Elems(kept) \cup Elems(pending) \cup Elems(ready_list)
      BY DEF TypeOK, Elems
    <2>3. current \in added
      BY <2>1 DEF OwnedOnce
    <2>4. QED
      BY <2>1, <2>2, <2>3 DEF OwnedOnce
  <1>6. ASSUME NEW e \in Events, Add(e) PROVE OwnedOnce'
    <2>1. e \notin added /\ pending' = Append(pending, e) /\ added' = added \cup {e}
          /\ UNCHANGED <<kept, ready_list, current, freed>>
      BY <1>6 DEF Add
    <2>2. e \notin Elems(kept) \cup Elems(pending) \cup Elems(ready_list) \cup {current}
      BY <2>1 DEF OwnedOnce
    <2>3. Elems(pending') = Elems(pending) \cup {e} /\ NoRepeats(pending')
      BY <2>1, <2>2, AppendElems DEF TypeOK, OwnedOnce
    <2>4. QED
      BY <2>1, <2>2, <2>3 DEF OwnedOnce
  <1>7. CASE Destroy
    <2>1. pending' = <<>> /\ freed' = freed \cup Elems(pending)
          /\ UNCHANGED <<kept, ready_list, current, added>>
      BY <1>7 DEF Destroy
    <2>2. Elems(pending) \subseteq added
      BY DEF OwnedOnce
    <2>3. QED
      BY <2>1, <2>2, EmptyElems DEF OwnedOnce
  <1>8. ASSUME NEW e \in Events, ThreadStep(e) PROVE UNCHANGED places
    BY <1>8 DEF ThreadStep, CompletionStep, BgPublish, BgStore, BgSignal, BgCancel, BgErrno, BgExit,
                otherVars
  <1>9. ASSUME NEW e \in Events, MonitorPublish(e) PROVE UNCHANGED places
    BY <1>9 DEF MonitorPublish
  <1>10. ASSUME NEW e \in Events, NEW s \in {"ready", "closed"}, FdChange(e, s) PROVE UNCHANGED places
    BY <1>10 DEF FdChange
  <1>11. ASSUME NEW e \in Events, Return(e) \/ Cancel(e) PROVE UNCHANGED places
    BY <1>11 DEF Return, Cancel
  <1>12. ASSUME NEW nb \in NonblockModes, Process(nb) PROVE UNCHANGED places
    BY <1>12 DEF Process
  <1>13. CASE SetupPoll \/ Poll \/ DispatchDone \/ Quit \/ MonitorStore
    BY <1>1, <1>13 DEF SetupPoll, Poll, DispatchDone, Quit, MonitorStore
  <1>14. CASE UNCHANGED vars
    BY <1>1, <1>14 DEF vars
  <1> HIDE DEF places
  <1>15. QED
    BY <1>1, <1>2, <1>3, <1>4, <1>5, <1>6, <1>7, <1>8, <1>9, <1>10, <1>11, <1>12, <1>13, <1>14
       DEF Next, MainStep, UserStep

\* No event is ever lost, linked twice, or freed while it is linked: this is
\* what eventloop_remove() followed by event_list_prepend(), and free() after
\* the callback, must keep whatever the interleaving.
THEOREM Ownership == Spec => []OwnedOnce
  <1>1. Init => OwnedOnce
    BY EmptyElems DEF Init, OwnedOnce
  <1>2. QED
    BY <1>1, InitTypes, StepTypes, StepOwned, PTL DEF Spec
----------------------------------------------------------------------------
(* What reaches a callback.                                                *)

\* What is completed stays completed, and only what is completed is gathered.
LEMMA StepCompletion ==
    TypeOK /\ ControlInv /\ CompletionInv /\ [Next]_vars => CompletionInv'
  <1> SUFFICES ASSUME TypeOK, ControlInv, CompletionInv, [Next]_vars PROVE CompletionInv'
    OBVIOUS
  <1> USE DEF mainVars, listVars, memVars, eventVars, otherVars
  <1> DEFINE fields == <<is_ready, is_canceled, io_errno, result, thread, monitored, added>>
  <1>1. CASE UNCHANGED fields
    BY <1>1 DEF CompletionInv
  <1>2. CASE GatherIo \/ GatherHangup
    <2>1. Head(pending) \in Events
      BY <1>2, HeadTailElems DEF GatherIo, GatherHangup, TypeOK
    <2>2. CASE GatherIo
      BY <2>1, <2>2 DEF GatherIo, CompletionInv, TypeOK, IsIo
    <2>3. CASE GatherHangup
      BY <2>1, <2>3 DEF GatherHangup, CompletionInv, TypeOK, IsIo
    <2>4. QED
      BY <1>2, <2>2, <2>3
  <1>3. ASSUME NEW e \in Events, Add(e) PROVE CompletionInv'
    BY <1>3 DEF Add, CompletionInv, TypeOK, ThreadStates
  <1>4. ASSUME NEW e \in Events, Return(e) PROVE CompletionInv'
    BY <1>4 DEF Return, CompletionInv, TypeOK
  <1>5. ASSUME NEW e \in Events, Cancel(e) PROVE CompletionInv'
    BY <1>5 DEF Cancel, CompletionInv, TypeOK
  <1>6. CASE Destroy
    BY <1>6 DEF Destroy, CompletionInv, TypeOK
  <1>7. ASSUME NEW e \in Events, ThreadStep(e) PROVE CompletionInv'
    <2> USE DEF CompletionInv, TypeOK, ThreadStates
    <2>1. CASE BgPublish(e)
      BY <2>1 DEF BgPublish
    <2>2. CASE BgStore(e)
      BY <2>2 DEF BgStore
    <2>3. CASE BgSignal(e)
      BY <2>3 DEF BgSignal
    <2>4. CASE BgCancel(e)
      BY <2>4 DEF BgCancel
    <2>5. CASE BgErrno(e)
      BY <2>5 DEF BgErrno
    <2>6. CASE BgExit(e)
      BY <2>6 DEF BgExit
    <2>7. QED
      BY <1>7, <2>1, <2>2, <2>3, <2>4, <2>5, <2>6 DEF ThreadStep, CompletionStep
  <1>8. ASSUME NEW e \in Events, MonitorPublish(e) PROVE CompletionInv'
    BY <1>8 DEF MonitorPublish, CompletionInv, ControlInv, TypeOK
  <1>9. CASE MonitorStore
    BY <1>9 DEF MonitorStore, CompletionInv, ControlInv, TypeOK
  <1>10. ASSUME NEW e \in Events, NEW s \in {"ready", "closed"}, FdChange(e, s) PROVE UNCHANGED fields
    BY <1>10 DEF FdChange
  <1>11. ASSUME NEW nb \in NonblockModes, Process(nb) PROVE UNCHANGED fields
    BY <1>11 DEF Process
  <1>12. CASE \/ ScanStep \/ ScanDone \/ SetupPoll \/ Poll \/ GatherOther \/ GatherDone
              \/ Dispatch \/ CallbackEnd \/ DispatchDone \/ Quit \/ UNCHANGED vars
    BY <1>1, <1>12 DEF ScanStep, ScanDone, SetupPoll, Poll, GatherOther, GatherDone, Dispatch,
                       CallbackEnd, DispatchDone, Quit, vars
  <1> HIDE DEF fields
  <1>13. QED
    BY <1>1, <1>2, <1>3, <1>4, <1>5, <1>6, <1>7, <1>8, <1>9, <1>10, <1>11, <1>12
       DEF Next, MainStep, UserStep

\* a completed event stays completed
LEMMA CompletedStays ==
    ASSUME TypeOK, [Next]_vars, NEW x \in Events, Completed(x) PROVE Completed(x)'
  <1> USE DEF mainVars, listVars, memVars, eventVars, otherVars, TypeOK, Completed
  <1>1. ASSUME NEW e \in Events, Add(e) \/ Return(e) \/ Cancel(e) PROVE Completed(x)'
    BY <1>1 DEF Add, Return, Cancel
  <1>2. ASSUME NEW e \in Events, ThreadStep(e) PROVE Completed(x)'
    <2>1. CASE BgPublish(e)
      BY <2>1 DEF BgPublish
    <2>2. CASE BgCancel(e)
      BY <2>2 DEF BgCancel
    <2>3. CASE BgStore(e) \/ BgErrno(e)
      BY <2>3 DEF BgStore, BgErrno
    <2>4. CASE BgSignal(e) \/ BgExit(e)
      BY <2>4 DEF BgSignal, BgExit
    <2>5. QED
      BY <1>2, <2>1, <2>2, <2>3, <2>4 DEF ThreadStep, CompletionStep
  <1>3. ASSUME NEW e \in Events, MonitorPublish(e) PROVE Completed(x)'
    BY <1>3 DEF MonitorPublish
  <1>4. ASSUME NEW e \in Events, NEW s \in {"ready", "closed"}, FdChange(e, s) PROVE Completed(x)'
    BY <1>4 DEF FdChange
  <1>5. ASSUME NEW nb \in NonblockModes, Process(nb) PROVE Completed(x)'
    BY <1>5 DEF Process
  <1>6. CASE GatherIo \/ GatherHangup
    <2>1. Head(pending) \in Events
      BY <1>6, HeadTailElems DEF GatherIo, GatherHangup
    <2>2. QED
      BY <1>6, <2>1 DEF GatherIo, GatherHangup
  <1>7. CASE \/ ScanStep \/ ScanDone \/ SetupPoll \/ Poll \/ GatherOther \/ GatherDone
             \/ Dispatch \/ CallbackEnd \/ DispatchDone \/ Quit \/ UNCHANGED vars
    BY <1>7 DEF ScanStep, ScanDone, SetupPoll, Poll, GatherOther, GatherDone, Dispatch,
                CallbackEnd, DispatchDone, Quit, vars
  <1>8. CASE Destroy \/ MonitorStore
    BY <1>8 DEF Destroy, MonitorStore
  <1>9. QED
    BY <1>1, <1>2, <1>3, <1>4, <1>5, <1>6, <1>7, <1>8 DEF Next, MainStep, UserStep

\* Every step keeps the ready events completed.
LEMMA StepDispatched ==
    TypeOK /\ DispatchedIsCompleted /\ [Next]_vars => DispatchedIsCompleted'
  <1> SUFFICES ASSUME TypeOK, DispatchedIsCompleted, [Next]_vars PROVE DispatchedIsCompleted'
    OBVIOUS
  <1> USE DEF mainVars, listVars, memVars, eventVars, otherVars
  <1> DEFINE called == Elems(ready_list) \cup ({current} \ {NoEvent})
             completes(e) == is_ready'[e] \/ is_canceled'[e]
  <1>0. called \subseteq Events
    BY DEF TypeOK, Elems
  <1>1. CASE called' \subseteq called
    BY <1>0, <1>1, CompletedStays DEF DispatchedIsCompleted
  <1>2. ASSUME NEW h \in Events, called' = called \cup {h}, completes(h)
        PROVE  DispatchedIsCompleted'
    BY <1>0, <1>2, CompletedStays DEF DispatchedIsCompleted, Completed
  <1>3. ASSUME pending # <<>>, TakeHead, current' = current
        PROVE  Head(pending) \in Events /\ called' = called \cup {Head(pending)}
    <2>1. Head(pending) \in Events
      BY <1>3, HeadTailElems DEF TypeOK
    <2>2. Elems(ready_list') = Elems(ready_list) \cup {Head(pending)}
      BY <1>3, <2>1, PrependElems DEF TypeOK, TakeHead
    <2>3. QED
      BY <1>3, <2>1, <2>2
  <1>4. CASE ScanStep
    <2>1. CASE Completed(Head(pending))
      BY <1>2, <1>3, <1>4, <2>1 DEF ScanStep, Completed
    <2>2. CASE ~Completed(Head(pending))
      BY <1>1, <1>4, <2>2 DEF ScanStep, KeepHead
    <2>3. QED
      BY <2>1, <2>2
  <1>5. CASE GatherIo \/ GatherHangup
    <2>1. Head(pending) \in Events
      BY <1>5, HeadTailElems DEF GatherIo, GatherHangup, TypeOK
    <2>2. completes(Head(pending))
      BY <1>5, <2>1 DEF GatherIo, GatherHangup, TypeOK
    <2>3. QED
      BY <1>2, <1>3, <1>5, <2>2 DEF GatherIo, GatherHangup
  <1>6. CASE GatherOther
    <2>1. CASE IsNonIo(Head(pending)) /\ BgFd \in revents /\ is_ready[Head(pending)]
      BY <1>2, <1>3, <1>6, <2>1 DEF GatherOther
    <2>2. CASE KeepHead
      BY <1>1, <1>6, <2>2 DEF GatherOther, KeepHead
    <2>3. QED
      BY <1>6, <2>1, <2>2 DEF GatherOther
  <1>7. CASE Dispatch
    <2>1. Elems(ready_list) = {Head(ready_list)} \cup Elems(Tail(ready_list))
      BY <1>7, HeadTailElems DEF Dispatch, TypeOK
    <2>2. QED
      BY <1>1, <1>7, <2>1 DEF Dispatch
  <1>8. ASSUME NEW e \in Events, Add(e) \/ Return(e) \/ Cancel(e) PROVE called' = called
    BY <1>8 DEF Add, Return, Cancel
  <1>9. ASSUME NEW e \in Events, ThreadStep(e) PROVE called' = called
    BY <1>9 DEF ThreadStep, CompletionStep, BgPublish, BgStore, BgSignal, BgCancel, BgErrno, BgExit
  <1>10. ASSUME NEW e \in Events, MonitorPublish(e) PROVE called' = called
    BY <1>10 DEF MonitorPublish
  <1>11. ASSUME NEW e \in Events, NEW s \in {"ready", "closed"}, FdChange(e, s) PROVE called' = called
    BY <1>11 DEF FdChange
  <1>12. ASSUME NEW nb \in NonblockModes, Process(nb) PROVE called' = called
    BY <1>12 DEF Process
  <1>13. CASE \/ ScanDone \/ SetupPoll \/ Poll \/ GatherDone \/ CallbackEnd \/ DispatchDone
              \/ Quit \/ Destroy \/ MonitorStore \/ UNCHANGED vars
    <2>1. called' \subseteq called
      BY <1>13 DEF ScanDone, SetupPoll, Poll, GatherDone, EndWalk, CallbackEnd, DispatchDone, Quit,
                   Destroy, MonitorStore, vars
    <2>2. QED
      BY <1>1, <2>1
  <1> HIDE DEF called
  <1>14. QED
    BY <1>1, <1>4, <1>5, <1>6, <1>7, <1>8, <1>9, <1>10, <1>11, <1>12, <1>13
       DEF Next, MainStep, UserStep

\* the monitor's event is not on its way to a callback
LEMMA StepMonitor ==
    TypeOK /\ ControlInv /\ OwnedOnce /\ MonitorInv /\ [Next]_vars => MonitorInv'
  <1> SUFFICES ASSUME TypeOK, ControlInv, OwnedOnce, MonitorInv, [Next]_vars, lock' = "monitor"
               PROVE  MonitorInv'
    BY DEF MonitorInv
  <1> USE DEF mainVars, listVars, memVars, eventVars, otherVars
  <1> DEFINE called == Elems(ready_list) \cup {current}
  <1>0. lock = "monitor" => monitored \in Events
    BY DEF TypeOK, ControlInv
  <1>1. ASSUME NEW e \in Events, MonitorPublish(e) PROVE MonitorInv'
    BY <1>1 DEF MonitorPublish, MonitorInv, OwnedOnce, TypeOK
  <1>2. ASSUME lock = "monitor", monitored' = monitored, called' \subseteq called \cup {NoEvent},
               is_ready[monitored] => is_ready'[monitored]
        PROVE  MonitorInv'
    BY <1>2 DEF MonitorInv, ControlInv, TypeOK
  <1>3. CASE Dispatch
    <2>1. Elems(ready_list) = {Head(ready_list)} \cup Elems(Tail(ready_list))
      BY <1>3, HeadTailElems DEF Dispatch, TypeOK
    <2>2. QED
      BY <1>2, <1>3, <2>1 DEF Dispatch
  <1>4. ASSUME NEW e \in Events, Add(e) \/ Return(e) \/ Cancel(e) PROVE MonitorInv'
    <2>1. monitored' = monitored /\ called' = called /\ lock = "monitor"
      BY <1>4 DEF Add, Return, Cancel
    <2>2. is_ready[monitored] => is_ready'[monitored]
      BY <1>0, <1>4, <2>1 DEF Add, Return, Cancel, TypeOK
    <2>3. QED
      BY <1>2, <2>1, <2>2
  <1>5. ASSUME NEW e \in Events, ThreadStep(e) PROVE MonitorInv'
    <2>1. monitored' = monitored /\ called' = called /\ lock = "monitor"
      BY <1>5 DEF ThreadStep, CompletionStep, BgPublish, BgStore, BgSignal, BgCancel, BgErrno, BgExit
    <2>2. CASE BgPublish(e)
      BY <1>0, <1>2, <2>1, <2>2 DEF BgPublish, TypeOK
    <2>3. CASE BgStore(e) \/ BgSignal(e) \/ BgCancel(e) \/ BgErrno(e) \/ BgExit(e)
      BY <1>2, <2>1, <2>3 DEF BgStore, BgSignal, BgCancel, BgErrno, BgExit
    <2>4. QED
      BY <1>5, <2>2, <2>3 DEF ThreadStep, CompletionStep
  <1>6. ASSUME NEW e \in Events, NEW s \in {"ready", "closed"}, FdChange(e, s) PROVE MonitorInv'
    BY <1>2, <1>6 DEF FdChange
  <1>7. ASSUME NEW nb \in NonblockModes, Process(nb) PROVE FALSE
    BY <1>7 DEF Process
  <1>8. CASE ScanStep \/ GatherIo \/ GatherHangup \/ GatherOther \/ Poll
    BY <1>8 DEF ScanStep, GatherIo, GatherHangup, GatherOther, Poll, ControlInv
  <1>9. CASE ScanDone \/ GatherDone \/ MonitorStore
    BY <1>9 DEF ScanDone, GatherDone, EndWalk, MonitorStore
  <1>10. CASE SetupPoll \/ CallbackEnd \/ DispatchDone \/ Quit \/ Destroy \/ UNCHANGED vars
    BY <1>2, <1>10 DEF SetupPoll, CallbackEnd, DispatchDone, Quit, Destroy, vars
  <1> HIDE DEF called
  <1>11. QED
    BY <1>1, <1>3, <1>4, <1>5, <1>6, <1>7, <1>8, <1>9, <1>10 DEF Next, MainStep, UserStep

\* A result is stored before the event can be gathered under the lock.
LEMMA StepResults ==
    /\ TypeOK /\ ControlInv /\ MonitorInv /\ CompletionInv /\ DispatchedIsCompleted
    /\ ResultDeliveredUnderLock /\ [Next]_vars
    => ResultDeliveredUnderLock'
  <1> SUFFICES ASSUME TypeOK, ControlInv, MonitorInv, CompletionInv, DispatchedIsCompleted,
                      ResultDeliveredUnderLock, [Next]_vars
               PROVE  ResultDeliveredUnderLock'
    OBVIOUS
  <1> USE DEF mainVars, listVars, memVars, eventVars, otherVars
  <1>1. CASE got' = got
    BY <1>1 DEF ResultDeliveredUnderLock
  <1>2. CASE Dispatch
    <2> DEFINE e == Head(ready_list)
    <2>1. e \in Elems(ready_list) /\ e \in Events
      BY <1>2, HeadTailElems DEF Dispatch, TypeOK
    <2>2. Completed(e) /\ monitored # e
      BY <2>1 DEF DispatchedIsCompleted, MonitorInv, ControlInv
    <2>3. Kind[e] # "bg_task" => Outcome(e) \in {"value", "error"}
      BY <2>1, <2>2 DEF CompletionInv, Completed, Outcome
    <2>4. got' = [got EXCEPT ![e] = Outcome(e)]
      BY <1>2 DEF Dispatch
    <2> HIDE DEF e
    <2>5. QED
      BY <2>1, <2>3, <2>4 DEF ResultDeliveredUnderLock, TypeOK
  <1>3. ASSUME NEW e \in Events, Add(e) \/ Return(e) \/ Cancel(e) PROVE got' = got
    BY <1>3 DEF Add, Return, Cancel
  <1>4. ASSUME NEW e \in Events, ThreadStep(e) PROVE got' = got
    BY <1>4 DEF ThreadStep, CompletionStep, BgPublish, BgStore, BgSignal, BgCancel, BgErrno, BgExit
  <1>5. ASSUME NEW e \in Events, MonitorPublish(e) PROVE got' = got
    BY <1>5 DEF MonitorPublish
  <1>6. ASSUME NEW e \in Events, NEW s \in {"ready", "closed"}, FdChange(e, s) PROVE got' = got
    BY <1>6 DEF FdChange
  <1>7. ASSUME NEW nb \in NonblockModes, Process(nb) PROVE got' = got
    BY <1>7 DEF Process
  <1>8. CASE \/ ScanStep \/ ScanDone \/ SetupPoll \/ Poll \/ GatherIo \/ GatherHangup \/ GatherOther
             \/ GatherDone \/ CallbackEnd \/ DispatchDone \/ Quit \/ Destroy \/ MonitorStore
             \/ UNCHANGED vars
    BY <1>1, <1>8 DEF ScanStep, ScanDone, SetupPoll, Poll, GatherIo, GatherHangup, GatherOther,
                      GatherDone, CallbackEnd, DispatchDone, Quit, Destroy, MonitorStore, vars
  <1>9. QED
    BY <1>1, <1>2, <1>3, <1>4, <1>5, <1>6, <1>7, <1>8 DEF Next, MainStep, UserStep

----------------------------------------------------------------------------
(* No wake-up is lost.                                                     *)

\* Every step keeps the byte in the pipe for as long as somebody may wait for it.
LEMMA StepWakeup ==
    /\ TypeOK /\ ControlInv /\ OwnedOnce /\ CompletionInv /\ WakeupInv /\ [Next]_vars
    => WakeupInv'
  <1> SUFFICES ASSUME TypeOK, ControlInv, OwnedOnce, CompletionInv, WakeupInv, [Next]_vars
               PROVE  WakeupInv'
    OBVIOUS
  <1> USE DEF mainVars, listVars, memVars, eventVars, otherVars
  <1>0. Elems(kept) \cup Elems(pending) \subseteq Events \ freed
    BY DEF TypeOK, OwnedOnce, Elems
  <1>1. CASE pc' \notin {"scan", "setup", "poll"}
    BY <1>1 DEF WakeupInv, NoLostWakeup
  \* the lists and the position of the main thread are as before
  <1>2. ASSUME UNCHANGED <<pc, kept, pending>>, pipe' \in Nat, pipe' >= pipe,
               \A x \in Events \ freed : IsNonIo(x) /\ HasSignalled(x)' => HasSignalled(x) \/ pipe' > 0
        PROVE  WakeupInv'
    <2>1. ASSUME NEW x \in Elems(kept) \cup Elems(pending), IsNonIo(x), HasSignalled(x)',
                 HasSignalled(x) => pipe > 0
          PROVE  pipe' > 0
      BY <1>0, <1>2, <2>1 DEF TypeOK
    <2>2. QED
      BY <1>2, <2>1 DEF WakeupInv, NoLostWakeup, IsNonIo
  <1>3. ASSUME NEW nb \in NonblockModes, Process(nb) PROVE WakeupInv'
    BY <1>3, EmptyElems DEF Process, WakeupInv, NoLostWakeup, ControlInv
  <1>4. CASE ScanStep
    <2>1. Head(pending) \in Events
      BY <1>4, HeadTailElems DEF ScanStep, TypeOK
    <2>2. CASE TakeHead /\ Completed(Head(pending))
      BY <1>4, <2>2 DEF ScanStep, TakeHead, WakeupInv, NoLostWakeup, HasSignalled
    <2>3. CASE KeepHead /\ ~Completed(Head(pending))
      <3>1. Elems(kept') = Elems(kept) \cup {Head(pending)}
        BY <2>1, <2>3, AppendElems DEF KeepHead, TypeOK
      <3>2. QED
        BY <1>4, <2>3, <3>1 DEF ScanStep, WakeupInv, NoLostWakeup, HasSignalled, Completed
    <2>4. QED
      BY <1>4, <2>2, <2>3 DEF ScanStep
  <1>5. CASE ScanDone
    BY <1>5 DEF ScanDone, EndWalk, WakeupInv, NoLostWakeup, HasSignalled
  <1>6. CASE SetupPoll
    BY <1>6 DEF SetupPoll, WakeupInv, NoLostWakeup, HasSignalled
  <1>7. CASE \/ Poll \/ GatherIo \/ GatherHangup \/ GatherOther \/ GatherDone \/ Dispatch
             \/ CallbackEnd \/ DispatchDone \/ Quit \/ Destroy
    BY <1>1, <1>7 DEF Poll, GatherIo, GatherHangup, GatherOther, GatherDone, Dispatch, CallbackEnd,
                      DispatchDone, Quit, Destroy, InUserCode
  <1>8. ASSUME NEW e \in Events, Add(e) \/ Return(e) \/ Cancel(e) PROVE WakeupInv'
    BY <1>1, <1>8 DEF Add, Return, Cancel, InUserCode
  <1>9. ASSUME NEW e \in Events, ThreadStep(e) PROVE WakeupInv'
    <2> USE DEF TypeOK, HasSignalled, ThreadStates
    \* only the thread of a background task comes here, and it has not signalled
    <2>1. ASSUME BgPublish(e) \/ BgStore(e) \/ BgCancel(e), NEW x \in Events \ freed, HasSignalled(x)'
          PROVE  HasSignalled(x)
      <3>1. Kind[e] = "bg_task"
        BY <2>1 DEF BgPublish, BgStore, BgCancel, CompletionInv
      <3>2. CASE x = e
        BY <2>1, <3>1, <3>2 DEF BgPublish, BgStore, BgCancel
      <3>3. CASE x # e
        BY <2>1, <3>3 DEF BgPublish, BgStore, BgCancel
      <3>4. QED
        BY <3>2, <3>3
    <2>2. CASE BgPublish(e) \/ BgStore(e) \/ BgCancel(e)
      BY <1>2, <2>1, <2>2 DEF BgPublish, BgStore, BgCancel
    <2>3. CASE BgSignal(e)
      <3>1. CASE pc' = "aborted"
        BY <1>1, <3>1
      <3>2. CASE UNCHANGED pc
        BY <1>2, <2>3, <3>2 DEF BgSignal, Signal
      <3>3. QED
        BY <2>3, <3>1, <3>2 DEF BgSignal, Signal
    <2>4. CASE BgErrno(e) \/ BgExit(e)
      BY <1>2, <2>4 DEF BgErrno, BgExit, CompletionInv
    <2>5. QED
      BY <1>9, <2>2, <2>3, <2>4 DEF ThreadStep, CompletionStep
  <1>10. ASSUME NEW e \in Events, MonitorPublish(e) PROVE WakeupInv'
    BY <1>2, <1>10 DEF MonitorPublish, HasSignalled, TypeOK, ControlInv
  <1>11. CASE MonitorStore
    <2>1. CASE pc' = "aborted"
      BY <1>1, <2>1
    <2>2. CASE UNCHANGED pc
      BY <1>2, <1>11, <2>2 DEF MonitorStore, Signal, TypeOK
    <2>3. QED
      BY <1>11, <2>1, <2>2 DEF MonitorStore, Signal
  <1>12. ASSUME NEW e \in Events, NEW s \in {"ready", "closed"}, FdChange(e, s) PROVE WakeupInv'
    BY <1>2, <1>12 DEF FdChange, HasSignalled, TypeOK
  <1>13. CASE UNCHANGED vars
    BY <1>2, <1>13 DEF vars, HasSignalled, TypeOK
  <1>14. QED
    BY <1>3, <1>4, <1>5, <1>6, <1>7, <1>8, <1>9, <1>10, <1>11, <1>12, <1>13
       DEF Next, MainStep, UserStep

----------------------------------------------------------------------------
\* At the start no event was freed.
LEMMA InitSafe ==
    Init => /\ OwnedOnce /\ CompletionInv /\ MonitorInv /\ DispatchedIsCompleted
            /\ ResultDeliveredUnderLock /\ WakeupInv
  BY EmptyElems DEF Init, OwnedOnce, CompletionInv, MonitorInv, DispatchedIsCompleted,
                    ResultDeliveredUnderLock, WakeupInv, NoLostWakeup

\* event_get_result() never fails its assertion that the event is completed.
THEOREM Dispatching == Spec => []DispatchedIsCompleted
  BY InitTypes, InitSafe, StepTypes, StepDispatched, PTL DEF Spec

\* Except for the events of background tasks, every callback reads the result
\* or the error code that its event was completed with.
THEOREM Results == Spec => []ResultDeliveredUnderLock
  BY InitTypes, InitSafe, StepTypes, StepOwned, StepCompletion, StepDispatched, StepMonitor,
     StepResults, PTL DEF Spec

\* The loop never waits in poll() for a task or a subprocess whose completion
\* was signalled: no drain of the pipe takes the byte of a completion that
\* the scan has not seen.
THEOREM Wakeups == Spec => []NoLostWakeup
  <1>1. WakeupInv => NoLostWakeup
    BY DEF WakeupInv
  <1>2. QED
    BY <1>1, InitTypes, InitSafe, StepTypes, StepOwned, StepCompletion, StepWakeup, PTL DEF Spec
----------------------------------------------------------------------------
(* Freed events.                                                           *)

\* No step links a freed event again.
LEMMA StepFreed ==
    ASSUME TypeOK, ControlInv, OwnedOnce, [Next]_vars
    PROVE  freed \subseteq freed' /\ \A e \in freed : got'[e] = got[e]
  <1> USE DEF mainVars, listVars, memVars
  <1>1. CASE UNCHANGED <<freed, got>>
    BY <1>1
  <1>2. CASE Dispatch
    <2>1. /\ Head(ready_list) \in Elems(ready_list) /\ UNCHANGED freed
          /\ got' = [got EXCEPT ![Head(ready_list)] = Outcome(Head(ready_list))]
      BY <1>2, HeadTailElems DEF Dispatch, TypeOK
    <2>2. Head(ready_list) \notin freed
      BY <2>1 DEF OwnedOnce
    <2>3. QED
      BY <2>1, <2>2 DEF TypeOK
  <1>3. CASE CallbackEnd \/ Destroy
    BY <1>3 DEF CallbackEnd, Destroy
  <1>4. CASE ScanStep \/ GatherIo \/ GatherHangup \/ GatherOther
    BY <1>1, <1>4 DEF ScanStep, GatherIo, GatherHangup, GatherOther
  <1>5. CASE ScanDone \/ SetupPoll \/ Poll \/ GatherDone \/ DispatchDone \/ Quit \/ MonitorStore
    BY <1>1, <1>5 DEF ScanDone, SetupPoll, Poll, GatherDone, DispatchDone, Quit, MonitorStore
  <1>6. ASSUME NEW nb \in NonblockModes, Process(nb) PROVE UNCHANGED <<freed, got>>
    BY <1>6 DEF Process
  <1>7. ASSUME NEW e \in Events, Add(e) \/ Return(e) \/ Cancel(e) PROVE UNCHANGED <<freed, got>>
    BY <1>7 DEF Add, Return, Cancel
  <1>8. ASSUME NEW e \in Events, ThreadStep(e) PROVE UNCHANGED <<freed, got>>
    BY <1>8 DEF ThreadStep, CompletionStep, BgPublish, BgStore, BgSignal, BgCancel, BgErrno, BgExit,
                otherVars
  <1>9. ASSUME NEW e \in Events, MonitorPublish(e) PROVE UNCHANGED <<freed, got>>
    BY <1>9 DEF MonitorPublish
  <1>10. ASSUME NEW e \in Events, NEW s \in {"ready", "closed"}, FdChange(e, s)
         PROVE  UNCHANGED <<freed, got>>
    BY <1>10 DEF FdChange
  <1>11. CASE UNCHANGED vars
    BY <1>1, <1>11 DEF vars
  <1>12. QED
    BY <1>1, <1>2, <1>3, <1>4, <1>5, <1>6, <1>7, <1>8, <1>9, <1>10, <1>11
       DEF Next, MainStep, UserStep

\* An event that was freed, after its callback or by eventloop_destroy(), is
\* never linked again, and its callback never runs again.
THEOREM Freeing == Spec => FreedForGood
  <1>1. TypeOK /\ TypeOK' /\ ControlInv /\ OwnedOnce /\ OwnedOnce' /\ [Next]_vars => [StaysFreed]_vars
    <2> SUFFICES ASSUME TypeOK, TypeOK', ControlInv, OwnedOnce, OwnedOnce', [Next]_vars PROVE StaysFreed
      OBVIOUS
    <2>1. freed \subseteq freed' /\ \A e \in freed : got'[e] = got[e]
      BY StepFreed
    <2>2. kept' \in Seq(Events) /\ pending' \in Seq(Events) /\ ready_list' \in Seq(Events)
      BY DEF TypeOK
    <2>3. /\ kept' \o pending' \in Seq(Events)
          /\ Elems(kept' \o pending') = Elems(kept') \cup Elems(pending')
      BY <2>2, ConcatElems
    <2>4. ASSUME NEW walked \in Seq(Events)
          PROVE  Elems(walked \o ready_list') = Elems(walked) \cup Elems(ready_list')
      BY <2>2, ConcatElems
    <2>5. freed' \cap (Elems(kept') \cup Elems(pending') \cup Elems(ready_list')) = {}
      BY DEF OwnedOnce, Elems
    <2>6. Elems((kept \o pending \o ready_list)')
              = Elems(kept') \cup Elems(pending') \cup Elems(ready_list')
      BY <2>3, <2>4 DEF Elems
    <2>7. QED
      BY <2>1, <2>5, <2>6 DEF StaysFreed
  <1>2. Init => OwnedOnce
    BY InitSafe
  <1>3. QED
    BY <1>1, <1>2, InitTypes, StepTypes, StepOwned, PTL DEF Spec, FreedForGood
----------------------------------------------------------------------------
(* What is left in the list while the loop waits.                          *)

\* When the loop sets out to wait, or waits, nothing in the list could have its
\* callback instead, but for tasks and subprocesses; and of these those that have
\* signalled wake it at once.  NoLostWakeup says the latter: here it joins the
\* events that wake nobody, which only the scan before the wait can find.  (A task
\* that its thread cancels wakes nobody either, and may be left.)
LeavesNothingDue ==
    pc \in {"setup", "poll"} =>
        \A e \in Elems(pending) :
            Completed(e) => IsNonIo(e) /\ (HasSignalled(e) => pipe > 0)

\* An event is completed after it was added.  A completed descriptor is taken from
\* the list at once, and a default event that is completed when a scan begins is
\* taken by that scan, as only callbacks and the program between two calls of
\* eventloop_process() complete such an event.
DueInv ==
    /\ \A e \in Events \ added : ~Completed(e)
    /\ \A e \in Elems(kept) \cup Elems(pending) :
            Completed(e) =>
                \/ IsNonIo(e)
                \/ /\ Kind[e] = "default" /\ pc \notin {"setup", "poll", "gather"}
                   /\ pc = "scan" => e \notin Elems(kept)

\* Every step keeps that.
LEMMA StepDue ==
    TypeOK /\ ControlInv /\ OwnedOnce /\ CompletionInv /\ DueInv /\ [Next]_vars => DueInv'
  <1> SUFFICES ASSUME TypeOK, ControlInv, OwnedOnce, CompletionInv, DueInv, [Next]_vars
               PROVE  DueInv'
    OBVIOUS
  <1> USE DEF mainVars, listVars, memVars, eventVars, otherVars
  <1> DEFINE linked == Elems(kept) \cup Elems(pending)
             flags == <<is_ready, is_canceled>>
  <1>0. linked \subseteq added /\ linked \subseteq Events /\ added \subseteq Events
    BY DEF OwnedOnce, TypeOK, Elems
  \* a step that completes nothing but a task or a subprocess, and links nothing
  <1>1. ASSUME UNCHANGED <<kept, pending, added>>, pc' = pc \/ pc' \notin {"scan", "setup", "poll", "gather"},
               \A e \in Events : Completed(e)' => Completed(e) \/ (e \in added /\ IsNonIo(e))
        PROVE  DueInv'
    BY <1>0, <1>1 DEF DueInv
  <1>2. ASSUME UNCHANGED <<kept, pending, added, flags>>, pc' = pc \/ pc' \notin {"scan", "setup", "poll", "gather"}
        PROVE  DueInv'
    BY <1>1, <1>2 DEF Completed
  \* the walk
  <1>3. ASSUME pending # <<>>
        PROVE  /\ Head(pending) \in Elems(pending) /\ Head(pending) \notin Elems(kept)
               /\ Elems(Tail(pending)) = Elems(pending) \ {Head(pending)}
               /\ Elems(Append(kept, Head(pending))) = Elems(kept) \cup {Head(pending)}
    BY <1>3, HeadTailElems, AppendElems DEF TypeOK, OwnedOnce
  <1>4. CASE ScanStep
    <2>1. pc = "scan" /\ pending # <<>> /\ UNCHANGED <<pc, added, flags>>
      BY <1>4 DEF ScanStep
    <2>2. CASE Completed(Head(pending)) /\ TakeHead
      <3>1. UNCHANGED kept /\ Elems(pending') \subseteq Elems(pending)
        BY <1>3, <2>1, <2>2 DEF TakeHead
      <3>2. QED
        BY <2>1, <3>1 DEF DueInv, Completed
    <2>3. CASE ~Completed(Head(pending)) /\ KeepHead
      <3>1. /\ Elems(kept') = Elems(kept) \cup {Head(pending)}
            /\ Elems(pending') = Elems(pending) \ {Head(pending)}
        BY <1>3, <2>1, <2>3 DEF KeepHead
      <3>2. QED
        BY <2>1, <2>3, <3>1 DEF DueInv, Completed
    <2>4. QED
      BY <1>4, <2>2, <2>3 DEF ScanStep
  <1>5. CASE GatherIo \/ GatherHangup
    <2>1. /\ pc = "gather" /\ pending # <<>> /\ UNCHANGED <<pc, added, kept>>
          /\ Elems(pending') = Elems(pending) \ {Head(pending)}
      BY <1>3, <1>5 DEF GatherIo, GatherHangup, TakeHead
    <2>2. Head(pending) \in added
      BY <1>0, <1>3, <2>1
    <2>3. \A e \in Events \ {Head(pending)} : Completed(e)' = Completed(e)
      BY <1>5, <2>2 DEF GatherIo, GatherHangup, TypeOK, Completed
    <2>4. Head(pending) \notin Elems(kept)
      BY <1>3, <2>1
    <2>5. QED
      BY <1>0, <2>1, <2>2, <2>3, <2>4 DEF DueInv
  <1>6. CASE GatherOther
    <2>1. pc = "gather" /\ pending # <<>> /\ UNCHANGED <<pc, added, flags>>
      BY <1>6 DEF GatherOther
    <2>2. TakeHead \/ KeepHead
      BY <1>6 DEF GatherOther
    <2>3. Elems(kept') \cup Elems(pending') \subseteq linked
      BY <1>3, <2>1, <2>2 DEF TakeHead, KeepHead
    <2>4. QED
      BY <2>1, <2>3 DEF DueInv, Completed
  <1>7. CASE ScanDone \/ GatherDone
    <2>1. /\ pc \in {"scan", "gather"} /\ pending = <<>> /\ pending' = kept /\ kept' = <<>>
          /\ UNCHANGED <<added, flags>>
      BY <1>7 DEF ScanDone, GatherDone, EndWalk
    <2>2. pc' # "scan"
      BY <1>7 DEF ScanDone, GatherDone
    <2>3. QED
      BY <2>1, <2>2, EmptyElems DEF DueInv, Completed
  \* the walk begins
  <1>8. ASSUME NEW nb \in NonblockModes, Process(nb) PROVE DueInv'
    <2>1. kept = <<>> /\ pc' = "scan" /\ UNCHANGED <<added, kept, pending, flags>>
      BY <1>8 DEF Process, ControlInv
    <2>2. QED
      BY <2>1, EmptyElems DEF DueInv, Completed
  <1>9. CASE SetupPoll \/ Poll
    <2>1. pc \in {"setup", "poll"} /\ pc' \in {"poll", "gather"} /\ UNCHANGED <<added, kept, pending, flags>>
      BY <1>9 DEF SetupPoll, Poll
    <2>2. QED
      BY <2>1 DEF DueInv, Completed
  \* the program
  <1>10. ASSUME NEW e \in Events, Add(e) PROVE DueInv'
    <2>1. /\ e \notin added /\ added' = added \cup {e} /\ pc \in {"idle", "callback"}
          /\ UNCHANGED <<pc, kept, flags>> /\ Elems(pending') = Elems(pending) \cup {e}
      BY <1>10, AppendElems DEF Add, InUserCode, TypeOK
    <2>2. QED
      BY <2>1 DEF DueInv, Completed
  <1>11. ASSUME NEW e \in Events, Return(e) \/ Cancel(e) PROVE DueInv'
    <2>1. /\ e \in added /\ Kind[e] = "default" /\ pc \in {"idle", "callback"}
          /\ UNCHANGED <<pc, kept, pending, added>>
      BY <1>11 DEF Return, Cancel, InUserCode
    <2>2. \A x \in Events \ {e} : Completed(x)' = Completed(x)
      BY <1>11 DEF Return, Cancel, TypeOK, Completed
    <2>3. QED
      BY <1>0, <2>1, <2>2 DEF DueInv
  <1>12. CASE Destroy
    <2>1. /\ pc = "idle" /\ pending' = <<>> /\ UNCHANGED <<kept, added>> /\ kept = <<>>
          /\ Elems(pending) \subseteq added
      BY <1>0, <1>12 DEF Destroy, ControlInv
    <2>2. \A e \in Events \ Elems(pending) : Completed(e)' = Completed(e)
      BY <1>12 DEF Destroy, TypeOK, Completed
    <2>3. QED
      BY <2>1, <2>2, EmptyElems DEF DueInv
  \* the other threads complete tasks and subprocesses only
  <1>13. ASSUME NEW e \in Events, ThreadStep(e) PROVE DueInv'
    <2>1. /\ UNCHANGED <<kept, pending, added>>
          /\ pc' = pc \/ pc' \notin {"scan", "setup", "poll", "gather"}
      BY <1>13 DEF ThreadStep, CompletionStep, BgPublish, BgStore, BgSignal, BgCancel, BgErrno, BgExit,
                   Signal
    <2>2. e \in added /\ IsNonIo(e)
      BY <1>13 DEF ThreadStep, CompletionStep, BgPublish, BgStore, BgSignal, BgCancel, BgErrno, BgExit,
                   CompletionInv, IsNonIo
    <2>3. \A x \in Events \ {e} : Completed(x)' = Completed(x)
      BY <1>13 DEF ThreadStep, CompletionStep, BgPublish, BgStore, BgSignal, BgCancel, BgErrno, BgExit,
                   TypeOK, Completed
    <2>4. QED
      BY <1>1, <2>1, <2>2, <2>3
  <1>14. ASSUME NEW e \in Events, MonitorPublish(e) PROVE DueInv'
    <2>1. UNCHANGED <<kept, pending, added, pc>> /\ e \in added /\ IsNonIo(e)
      BY <1>0, <1>14 DEF MonitorPublish, IsNonIo
    <2>2. \A x \in Events \ {e} : Completed(x)' = Completed(x)
      BY <1>14 DEF MonitorPublish, TypeOK, Completed
    <2>3. QED
      BY <1>1, <2>1, <2>2
  <1>15. CASE MonitorStore
    BY <1>2, <1>15 DEF MonitorStore, Signal
  <1>16. ASSUME NEW e \in Events, NEW s \in {"ready", "closed"}, FdChange(e, s) PROVE DueInv'
    BY <1>2, <1>16 DEF FdChange
  <1>17. CASE Dispatch \/ CallbackEnd \/ DispatchDone \/ Quit
    BY <1>2, <1>17 DEF Dispatch, CallbackEnd, DispatchDone, Quit
  <1>18. CASE UNCHANGED vars
    BY <1>2, <1>18 DEF vars
  <1>19. QED
    BY <1>4, <1>5, <1>6, <1>7, <1>8, <1>9, <1>10, <1>11, <1>12, <1>13, <1>14, <1>15, <1>16, <1>17, <1>18
       DEF Next, MainStep, UserStep

\* The loop never waits while an event that nothing will wake it for could have
\* its callback: what the program completed in the callbacks before, or what poll()
\* reported the last time, is not left for a descriptor that may stay silent.
THEOREM NothingDueIsLeft == Spec => []LeavesNothingDue
  <1>1. Init => DueInv
    BY EmptyElems DEF Init, DueInv, Completed
  <1>2. DueInv /\ WakeupInv => LeavesNothingDue
    BY DEF DueInv, WakeupInv, NoLostWakeup, LeavesNothingDue, IsNonIo
  <1>3. QED
    BY <1>1, <1>2, InitTypes, InitSafe, StepTypes, StepOwned, StepCompletion, StepWakeup, StepDue, PTL DEF Spec
----------------------------------------------------------------------------
(* The lists are used as a queue.                                          *)

\* The main thread has the lock only in a walk, and outside of one nothing was
\* passed.
WalkInv ==
    /\ lock = "main" => pc \in {"scan", "gather", "aborted"}
    /\ lock # "main" => kept = <<>>

\* Every step keeps that.
LEMMA StepWalk == ControlInv /\ WalkInv /\ [Next]_vars => WalkInv'
  <1> SUFFICES ASSUME ControlInv, WalkInv, [Next]_vars PROVE WalkInv'
    OBVIOUS
  <1> USE DEF mainVars, listVars, otherVars, ControlInv, WalkInv
  <1>1. ASSUME NEW nb \in NonblockModes, Process(nb) PROVE WalkInv'
    BY <1>1 DEF Process
  <1>2. CASE ScanStep \/ GatherIo \/ GatherHangup \/ GatherOther
    <2>1. pc \in {"scan", "gather"} /\ UNCHANGED <<pc, lock>>
      BY <1>2 DEF ScanStep, GatherIo, GatherHangup, GatherOther
    <2>2. QED
      BY <2>1
  <1>3. CASE ScanDone \/ GatherDone
    BY <1>3 DEF ScanDone, GatherDone, EndWalk
  <1>4. CASE SetupPoll \/ Poll
    BY <1>4 DEF SetupPoll, Poll
  <1>5. CASE Dispatch \/ CallbackEnd \/ DispatchDone
    BY <1>5 DEF Dispatch, CallbackEnd, DispatchDone
  <1>6. ASSUME NEW e \in Events, Add(e) \/ Return(e) \/ Cancel(e) PROVE WalkInv'
    BY <1>6 DEF Add, Return, Cancel
  <1>7. CASE Quit \/ Destroy
    BY <1>7 DEF Quit, Destroy
  <1>8. ASSUME NEW e \in Events, ThreadStep(e) PROVE WalkInv'
    <2>1. UNCHANGED <<lock, kept>> /\ pc' \in {pc, "aborted"}
      BY <1>8 DEF ThreadStep, CompletionStep, BgPublish, BgStore, BgSignal, BgCancel, BgErrno,
                  BgExit, Signal
    <2>2. QED
      BY <2>1
  <1>9. ASSUME NEW e \in Events, MonitorPublish(e) PROVE WalkInv'
    BY <1>9 DEF MonitorPublish
  <1>10. CASE MonitorStore
    BY <1>10 DEF MonitorStore, Signal
  <1>11. ASSUME NEW e \in Events, NEW s \in {"ready", "closed"}, FdChange(e, s) PROVE WalkInv'
    BY <1>11 DEF FdChange
  <1>12. CASE UNCHANGED vars
    BY <1>12 DEF vars
  <1>13. QED
    BY <1>1, <1>2, <1>3, <1>4, <1>5, <1>6, <1>7, <1>8, <1>9, <1>10, <1>11, <1>12
       DEF Next, MainStep, UserStep

\* A step of the walk takes or keeps the event that it stands on.
LEMMA WalkUses ==
  ASSUME lock = "main", UNCHANGED lock, pending # <<>>, TakeHead \/ KeepHead
  PROVE  Queue!Take \/ Queue!Keep
BY DEF TakeHead, KeepHead, Queue!Take, Queue!Keep

\* Every step of the loop is one of the queue, or leaves the lists alone.
LEMMA StepUses ==
    TypeOK /\ ControlInv /\ WalkInv /\ [Next]_vars => [Queue!Next]_Queue!vars
  <1> SUFFICES ASSUME TypeOK, ControlInv, WalkInv, [Next]_vars PROVE [Queue!Next]_Queue!vars
    OBVIOUS
  <1> DEFINE lists == <<kept, pending, ready_list>>
  <1>1. ASSUME UNCHANGED lists, (lock = "main") <=> (lock' = "main") PROVE UNCHANGED Queue!vars
    BY <1>1 DEF Queue!vars
  <1>2. ASSUME NEW nb \in NonblockModes, Process(nb) PROVE Queue!Begin
    BY <1>2 DEF Process, Queue!Begin, listVars
  <1>3. CASE ScanStep \/ GatherIo \/ GatherHangup \/ GatherOther
    <2>1. /\ pc \in {"scan", "gather"} /\ pending # <<>> /\ UNCHANGED lock
          /\ TakeHead \/ KeepHead
      BY <1>3 DEF ScanStep, GatherIo, GatherHangup, GatherOther
    <2>2. lock = "main"
      BY <2>1 DEF ControlInv
    <2>3. QED
      BY <2>1, <2>2, WalkUses DEF Queue!Next
  <1>4. CASE ScanDone \/ GatherDone
    <2>1. pc \in {"scan", "gather"} /\ EndWalk /\ UNCHANGED ready_list
      BY <1>4 DEF ScanDone, GatherDone
    <2>2. Queue!End
      BY <2>1 DEF EndWalk, ControlInv, Queue!End
    <2>3. QED
      BY <2>2 DEF Queue!Next
  <1>5. CASE SetupPoll
    BY <1>1, <1>5 DEF SetupPoll, listVars
  <1>6. CASE Poll
    BY <1>6 DEF Poll, listVars, Queue!Next, Queue!Begin
  <1>7. CASE Dispatch
    <2>1. lock # "main" /\ lock' # "main" /\ ready_list # <<>> /\ ready_list' = Tail(ready_list)
          /\ UNCHANGED <<kept, pending>>
      BY <1>7 DEF Dispatch, WalkInv
    <2>2. Queue!Dispatch
      BY <2>1 DEF Queue!Dispatch
    <2>3. QED
      BY <2>2 DEF Queue!Next
  <1>8. CASE CallbackEnd \/ DispatchDone \/ Quit
    BY <1>1, <1>8 DEF CallbackEnd, DispatchDone, Quit, listVars
  <1>9. ASSUME NEW e \in Events, Add(e) PROVE Queue!Add(e)
    BY <1>9 DEF Add, InUserCode, WalkInv, Queue!Add
  <1>10. ASSUME NEW e \in Events, Return(e) \/ Cancel(e) PROVE UNCHANGED Queue!vars
    BY <1>1, <1>10 DEF Return, Cancel, listVars
  <1>11. CASE Destroy
    <2>1. lock # "main" /\ lock' # "main" /\ pending' = <<>> /\ UNCHANGED <<kept, ready_list>>
      BY <1>11 DEF Destroy, WalkInv
    <2>2. CASE pending = <<>>
      BY <1>1, <2>1, <2>2
    <2>3. CASE pending # <<>>
      <3>1. pending \in Seq(Events)
        BY DEF TypeOK
      <3>2. Len(pending) \in 1 .. Len(pending) /\ SubSeq(pending, Len(pending) + 1, Len(pending)) = <<>>
        BY <2>3, <3>1
      <3>3. \E n \in 1 .. Len(pending) : pending' = SubSeq(pending, n + 1, Len(pending))
        BY <2>1, <3>2
      <3>4. Queue!Clear
        BY <2>1, <3>3 DEF Queue!Clear
      <3>5. QED
        BY <3>4 DEF Queue!Next
    <2>4. QED
      BY <2>2, <2>3
  <1>12. ASSUME NEW e \in Events, ThreadStep(e) PROVE UNCHANGED Queue!vars
    <2>1. UNCHANGED <<lists, lock>>
      BY <1>12 DEF ThreadStep, CompletionStep, BgPublish, BgStore, BgSignal, BgCancel, BgErrno,
                   BgExit, otherVars, listVars
    <2>2. QED
      BY <1>1, <2>1
  <1>13. ASSUME NEW e \in Events, MonitorPublish(e) PROVE UNCHANGED Queue!vars
    BY <1>1, <1>13 DEF MonitorPublish, listVars
  <1>14. CASE MonitorStore
    BY <1>1, <1>14 DEF MonitorStore, listVars
  <1>15. ASSUME NEW e \in Events, NEW s \in {"ready", "closed"}, FdChange(e, s)
         PROVE  UNCHANGED Queue!vars
    BY <1>1, <1>15 DEF FdChange, listVars
  <1>16. CASE UNCHANGED vars
    BY <1>1, <1>16 DEF vars, listVars
  <1>17. QED
    BY <1>2, <1>3, <1>4, <1>5, <1>6, <1>7, <1>8, <1>9, <1>10, <1>11, <1>12, <1>13, <1>14, <1>15,
       <1>16
       DEF Next, MainStep, UserStep, Queue!Next

\* eventloop_process() (event.c:611-659), the additions and eventloop_destroy()
\* use the two lists of events only as module EventQueue allows, whatever the
\* other threads do meanwhile.  With the theorem about EventList, what holds of
\* the sequences here holds of the linked lists.
THEOREM LoopUsesQueue == Spec => UsesQueue
  <1>1. Init => WalkInv /\ Queue!Init
    BY DEF Init, WalkInv, Queue!Init
  <1>2. Spec => Queue!Init /\ [][Queue!Next]_Queue!vars
    BY <1>1, InitTypes, StepTypes, StepWalk, StepUses, PTL DEF Spec
  <1>3. QED
    BY <1>2 DEF UsesQueue, Queue!Spec
============================================================================
