-------------------------- MODULE LspClientProofs ---------------------------
(***************************************************************************)
(* What holds of the waits for diagnostics for every number of them and of *)
(* notifications, in whatever order they are executed and arrive.          *)
(***************************************************************************)
EXTENDS LspClient, ListsProofs

Types ==
    /\ waiters \in Seq(Waits) /\ results \in Seq(Notices)
    /\ events \in Seq(Waits) /\ batch \in Seq(Waits)
    /\ about \in [Notices -> Documents \cup {None}]
    /\ refs \in [Notices -> Nat]
    /\ given \in [Waits -> Notices \cup {None}]
    /\ pushed \in [Waits -> Notices \cup {None}]
    /\ started \subseteq Waits
    /\ undefined \in BOOLEAN

\* While somebody waits nothing is saved, and what is saved was received, is
\* referenced by the list, and is in it once: an arriving notification or the
\* drop of a link never counts for another.
SavedResults ==
    /\ waiters = <<>> \/ results = <<>>
    /\ \A p \in ToSet(results) : about[p] # None /\ refs[p] > 0
    /\ IsInjective(results)

\* The event of a wait that was executed is linked once: it is pending as long
\* as the wait is registered, and whatever is called back was completed.
OneEventEach ==
    /\ IsInjective(events) /\ IsInjective(batch) /\ IsInjective(waiters)
    /\ ToSet(events) \cap ToSet(batch) = {}
    /\ ToSet(events) \cup ToSet(batch) \subseteq started
    /\ \A w \in started : pushed[w] = None => w \in ToSet(events) \cup ToSet(batch)
    /\ ToSet(waiters) = ToSet(events) \cap Pending
    /\ ToSet(batch) \subseteq Completed

IInv == Types /\ SavedResults /\ (~undefined => OneEventEach)

----------------------------------------------------------------------------
\* At the start nobody waits.
LEMMA InitIInv == Init => IInv
<1> SUFFICES ASSUME Init PROVE IInv
  OBVIOUS
<1>1. \A T : <<>> \in Seq(T)
  OBVIOUS
<1>2. ToSet(<<>>) = {} /\ IsInjective(<<>>)
  BY DEF ToSet, IsInjective
<1>3. Types
  BY <1>1 DEF Init, Types
<1>4. SavedResults /\ OneEventEach
  BY <1>2 DEF Init, SavedResults, OneEventEach
<1>5. QED
  BY <1>3, <1>4 DEF IInv

\* An arriving notification ends every wait that is registered, or is saved.
LEMMA PublishKeeps ==
  ASSUME IInv, NEW p \in Notices, NEW d \in Documents, Publish(p, d)
  PROVE  IInv'
<1> USE NoneAssumption
<1>1. /\ ~undefined /\ about[p] = None /\ about' = [about EXCEPT ![p] = d]
      /\ given' = [w \in Waits |-> IF w \in ToSet(waiters) THEN p ELSE given[w]]
      /\ waiters' = <<>>
      /\ UNCHANGED <<events, batch, started, pushed, undefined>>
  BY DEF Publish, ReturnTo
<1>2. /\ Types /\ SavedResults /\ OneEventEach
  BY <1>1 DEF IInv
<1>3. \/ /\ waiters # <<>> /\ refs' = [refs EXCEPT ![p] = Len(waiters)] /\ results' = results
      \/ /\ waiters = <<>> /\ refs' = [refs EXCEPT ![p] = 1] /\ results' = Append(results, p)
  BY DEF Publish
<1>4. Len(waiters) \in Nat /\ <<>> \in Seq(Waits) /\ ToSet(<<>>) = {} /\ IsInjective(<<>>)
  BY <1>2 DEF Types, ToSet, IsInjective
<1>5. p \notin ToSet(results)
  BY <1>1, <1>2 DEF SavedResults
<1>6. /\ Append(results, p) \in Seq(Notices)
      /\ ToSet(Append(results, p)) = ToSet(results) \cup {p}
      /\ IsInjective(Append(results, p))
  BY <1>2, <1>5, AppendElems DEF Types, SavedResults
<1>7. ToSet(results) \subseteq Notices
  BY <1>2 DEF Types, ToSet
<1>8. Types'
  <2>1. results' \in Seq(Notices) /\ refs' \in [Notices -> Nat]
    <3>1. results \in Seq(Notices) /\ refs \in [Notices -> Nat]
      BY <1>2 DEF Types
    <3>2. CASE refs' = [refs EXCEPT ![p] = Len(waiters)] /\ results' = results
      BY <1>4, <3>1, <3>2
    <3>3. CASE refs' = [refs EXCEPT ![p] = 1] /\ results' = Append(results, p)
      BY <1>6, <3>1, <3>3
    <3>4. QED
      BY <1>3, <3>2, <3>3
  <2>2. about' \in [Notices -> Documents \cup {None}] /\ given' \in [Waits -> Notices \cup {None}]
    BY <1>1, <1>2 DEF Types
  <2>3. QED
    BY <1>1, <1>2, <1>4, <2>1, <2>2 DEF Types
<1>9. SavedResults'
  <2>1. CASE results' = results /\ refs' = [refs EXCEPT ![p] = Len(waiters)]
    BY <1>1, <1>2, <1>5, <1>7, <2>1 DEF SavedResults, Types
  <2>2. CASE results' = Append(results, p) /\ refs' = [refs EXCEPT ![p] = 1]
    BY <1>1, <1>2, <1>5, <1>6, <1>7, <2>2 DEF SavedResults, Types
  <2>3. QED
    BY <1>3, <2>1, <2>2
<1>10. OneEventEach'
  <2>1. ToSet(events) \cap Pending' = {}
    BY <1>1, <1>2 DEF OneEventEach, Pending, Types
  <2>2. ToSet(batch) \subseteq Completed'
    BY <1>1, <1>2 DEF OneEventEach, Completed, Types
  <2>3. QED
    BY <1>1, <1>2, <1>4, <2>1, <2>2 DEF OneEventEach
<1>11. QED
  BY <1>8, <1>9, <1>10 DEF IInv

\* The iteration of the loop takes the completed events off the list.
LEMMA IterateKeeps == IInv /\ Iterate => IInv'
<1> SUFFICES ASSUME IInv, Iterate PROVE IInv'
  OBVIOUS
<1> DEFINE ready == Only(events, Completed)
           kept == Only(events, Pending)
<1>1. /\ ~undefined /\ batch = <<>>
      /\ batch' = Reverse(ready) /\ events' = kept
      /\ UNCHANGED <<waiters, results, about, refs, given, started, pushed, undefined>>
  BY DEF Iterate, clientVars
<1>2. Types /\ SavedResults /\ OneEventEach
  BY <1>1 DEF IInv
<1>3. events \in Seq(Waits) /\ IsInjective(events) /\ ToSet(events) \subseteq Waits
  BY <1>2 DEF Types, OneEventEach, ToSet
<1>4. /\ ready \in Seq(Waits \cap Completed) /\ kept \in Seq(Waits \cap Pending)
  BY <1>3, OnlyPlaces
<1>5. /\ ToSet(ready) = ToSet(events) \cap Completed /\ IsInjective(ready)
      /\ ToSet(kept) = ToSet(events) \cap Pending /\ IsInjective(kept)
  BY <1>3, OnlyElems, OnlyNoRepeats
<1> HIDE DEF ready, kept
<1>6. ready \in Seq(Waits) /\ kept \in Seq(Waits)
  BY <1>4
<1>7. /\ Reverse(ready) \in Seq(Waits)
      /\ ToSet(Reverse(ready)) = ToSet(ready) /\ IsInjective(Reverse(ready))
  BY <1>5, <1>6, ReverseElems
<1>8. Types'
  BY <1>1, <1>2, <1>6, <1>7 DEF Types
<1>9. SavedResults'
  BY <1>1, <1>2 DEF SavedResults
<1>10. OneEventEach'
  <2>1. Completed' = Completed /\ Pending' = Pending
    BY <1>1 DEF Completed, Pending
  <2>2. Completed \cup Pending = Waits /\ Completed \cap Pending = {}
    BY DEF Completed, Pending
  <2>3. ToSet(batch) = {}
    BY <1>1 DEF ToSet
  <2>4. ToSet(events') \cup ToSet(batch') = ToSet(events) /\ ToSet(events') \cap ToSet(batch') = {}
    BY <1>1, <1>3, <1>5, <1>7, <2>2
  <2>5. ToSet(events') \cap Pending = ToSet(events) \cap Pending /\ ToSet(batch') \subseteq Completed
    BY <1>1, <1>5, <1>7
  <2>6. QED
    BY <1>1, <1>2, <1>5, <1>7, <2>1, <2>3, <2>4, <2>5 DEF OneEventEach
<1>11. QED
  BY <1>8, <1>9, <1>10 DEF IInv

\* What both callers of lsp_client_wait_for_diagnostics_async() have in common:
\* the wait w has no event, and rest are the callbacks that follow.
LEMMA WaitKeeps ==
  ASSUME Types, SavedResults, NEW w \in Waits, NEW rest \in Seq(Waits),
         WaitForDiagnostics(w), batch' = rest,
         IsInjective(events), IsInjective(waiters), IsInjective(rest),
         w \notin ToSet(events), w \notin ToSet(rest),
         ToSet(events) \cap ToSet(rest) = {},
         ToSet(waiters) = ToSet(events) \cap Pending,
         ToSet(rest) \subseteq Completed,
         ToSet(events) \cup ToSet(rest) \cup {w} \subseteq started',
         \A v \in started' : pushed[v] = None => v \in ToSet(events) \cup ToSet(rest) \cup {w},
         started' \subseteq Waits, UNCHANGED <<about, pushed, undefined>>
  PROVE  Types' /\ SavedResults' /\ OneEventEach'
<1> USE NoneAssumption
<1> DEFINE registered == Append(waiters, w)
<1>1. /\ Append(events, w) \in Seq(Waits) /\ IsInjective(Append(events, w))
      /\ ToSet(Append(events, w)) = ToSet(events) \cup {w}
  BY AppendElems DEF Types
<1>2. w \notin ToSet(waiters)
  OBVIOUS
<1>3. /\ registered \in Seq(Waits) /\ IsInjective(registered)
      /\ ToSet(registered) = ToSet(waiters) \cup {w}
  BY <1>2, AppendElems DEF Types
<1> HIDE DEF registered
<1>4. events' = Append(events, w)
  BY DEF WaitForDiagnostics
<1>5. <<>> \in Seq(Waits) /\ ToSet(<<>>) = {} /\ IsInjective(<<>>)
  BY DEF ToSet, IsInjective
<1>6. CASE results = <<>>
  <2>1. /\ waiters' = registered /\ given' = [given EXCEPT ![w] = None]
        /\ UNCHANGED <<results, refs>>
    BY <1>6 DEF WaitForDiagnostics, registered
  <2>2. Types'
    BY <1>1, <1>3, <1>4, <2>1 DEF Types
  <2>3. SavedResults'
    BY <1>6, <2>1 DEF SavedResults
  <2>4. Pending' = Pending \cup {w} /\ ToSet(rest) \subseteq Completed'
    BY <2>1 DEF Pending, Completed, Types
  <2>5. OneEventEach'
    BY <1>1, <1>3, <1>4, <2>1, <2>4 DEF OneEventEach
  <2>6. QED
    BY <2>2, <2>3, <2>5
<1>7. CASE results # <<>>
  <2> DEFINE h == Head(results)
             t == Tail(results)
  <2>1. /\ given' = [v \in Waits |-> IF v \in ToSet(registered) THEN h ELSE given[v]]
        /\ waiters' = <<>> /\ results' = t /\ refs' = [refs EXCEPT ![h] = @ - 1]
    BY <1>7 DEF WaitForDiagnostics, registered, ReturnTo
  <2>2. /\ h \in Notices /\ t \in Seq(Notices) /\ IsInjective(t)
        /\ ToSet(results) = {h} \cup ToSet(t) /\ h \notin ToSet(t)
    BY <1>7, HeadTailElems DEF Types, SavedResults
  <2> HIDE DEF h, t
  <2>3. waiters = <<>> /\ refs[h] \in Nat \ {0}
    BY <1>7, <2>2 DEF SavedResults, Types
  <2>4. Types'
    BY <1>1, <1>4, <1>5, <2>1, <2>2, <2>3 DEF Types
  <2>5. SavedResults'
    <3>1. ToSet(t) \subseteq Notices
      BY <2>2 DEF ToSet
    <3>2. \A p \in ToSet(t) : about'[p] # None /\ refs'[p] > 0
      BY <2>1, <2>2, <3>1 DEF SavedResults, Types
    <3>3. QED
      BY <2>1, <2>2, <3>2 DEF SavedResults
  <2>6. Pending' = Pending \ {w} /\ ToSet(rest) \subseteq Completed'
    <3>1. ToSet(registered) = {w} /\ ToSet(events) \cap Pending = {}
      BY <1>3, <1>5, <2>3
    <3>2. QED
      BY <2>1, <2>2, <3>1 DEF Pending, Completed, Types
  <2>7. OneEventEach'
    BY <1>1, <1>4, <1>5, <2>1, <2>3, <2>6 DEF OneEventEach
  <2>8. QED
    BY <2>4, <2>5, <2>7
<1>8. QED
  BY <1>6, <1>7

\* An instruction that begins to wait takes a saved notification or registers.
LEMMA ExecuteKeeps ==
  ASSUME IInv, NEW w \in Waits, Execute(w)
  PROVE  IInv'
<1>1. /\ ~undefined /\ batch = <<>> /\ w \notin started /\ started' = started \cup {w}
      /\ WaitForDiagnostics(w) /\ UNCHANGED <<about, batch, pushed, undefined>>
  BY DEF Execute
<1>2. Types /\ SavedResults /\ OneEventEach
  BY <1>1 DEF IInv
<1>3. ToSet(batch) = {} /\ batch \in Seq(Waits) /\ batch' = batch
  BY <1>1, <1>2 DEF ToSet, Types
<1>4. w \notin ToSet(events)
  BY <1>1, <1>2 DEF OneEventEach
<1>5. started' \subseteq Waits
  BY <1>1, <1>2 DEF Types
<1>6. Types' /\ SavedResults' /\ OneEventEach'
  BY <1>1, <1>2, <1>3, <1>4, <1>5, WaitKeeps DEF OneEventEach
<1>7. QED
  BY <1>6 DEF IInv

\* The callback of a wait: its event was completed and is freed after it.
LEMMA CalledBack ==
  ASSUME IInv, NEW w \in Waits, Callback(w)
  PROVE  /\ ~undefined /\ Types /\ SavedResults /\ OneEventEach
         /\ batch' = Tail(batch) /\ Tail(batch) \in Seq(Waits) /\ IsInjective(Tail(batch))
         /\ ToSet(batch) = {w} \cup ToSet(Tail(batch)) /\ w \notin ToSet(Tail(batch))
         /\ w \notin ToSet(events) /\ w \in started
         /\ given[w] \in Notices
<1>1. ~undefined /\ batch # <<>> /\ Head(batch) = w /\ batch' = Tail(batch)
  BY DEF Callback
<1>2. Types /\ SavedResults /\ OneEventEach
  BY <1>1 DEF IInv
<1>3. /\ Tail(batch) \in Seq(Waits) /\ IsInjective(Tail(batch))
      /\ ToSet(batch) = {w} \cup ToSet(Tail(batch)) /\ w \notin ToSet(Tail(batch))
  BY <1>1, <1>2, HeadTailElems DEF Types, OneEventEach
<1>4. w \notin ToSet(events) /\ w \in started /\ w \in Completed
  BY <1>2, <1>3 DEF OneEventEach
<1>5. given[w] \in Notices
  BY <1>2, <1>4 DEF Types, Completed
<1>6. QED
  BY <1>1, <1>2, <1>3, <1>4, <1>5

\* The callback of a wait that got its diagnostics ends it.
LEMMA DeliverKeeps ==
  ASSUME IInv, NEW w \in Waits, Deliver(w)
  PROVE  IInv'
<1> USE NoneAssumption
<1>1. Callback(w)
  BY DEF Deliver
<1>2. /\ pushed' = [pushed EXCEPT ![w] = given[w]]
      /\ refs' = [refs EXCEPT ![given[w]] = @ + 1]
      /\ UNCHANGED <<waiters, results, about, events, given, started, undefined>>
  BY DEF Deliver, clientVars
<1>3. Types /\ SavedResults /\ OneEventEach
  BY <1>1, CalledBack
<1> DEFINE rest == Tail(batch)
<1>4. /\ batch' = rest /\ rest \in Seq(Waits) /\ IsInjective(rest)
      /\ ToSet(batch) = {w} \cup ToSet(rest) /\ w \notin ToSet(rest)
      /\ w \notin ToSet(events) /\ given[w] \in Notices /\ given[w] # None
  BY <1>1, CalledBack
<1> HIDE DEF rest
<1>5. Types'
  BY <1>2, <1>3, <1>4 DEF Types
<1>6. SavedResults'
  <2>1. ToSet(results) \subseteq Notices
    BY <1>3 DEF Types, ToSet
  <2>2. \A p \in ToSet(results) : refs'[p] >= refs[p] /\ refs[p] > 0 /\ refs'[p] \in Nat
    BY <1>2, <1>3, <1>4, <1>5, <2>1 DEF Types, SavedResults
  <2>3. \A p \in ToSet(results) : refs'[p] > 0
    BY <1>3, <2>1, <2>2 DEF Types
  <2>4. QED
    BY <1>2, <1>3, <2>3 DEF SavedResults
<1>7. OneEventEach'
  <2>1. Pending' = Pending /\ Completed' = Completed
    BY <1>2 DEF Pending, Completed
  <2>2. \A v \in started : pushed'[v] = None => v # w /\ pushed[v] = None
    BY <1>2, <1>3, <1>4 DEF Types
  <2>3. QED
    BY <1>2, <1>3, <1>4, <2>1, <2>2 DEF OneEventEach
<1>8. QED
  BY <1>5, <1>6, <1>7 DEF IInv

\* A callback that got the diagnostics of another document waits again.
LEMMA WaitAgainKeeps ==
  ASSUME IInv, NEW w \in Waits, WaitAgain(w)
  PROVE  IInv'
<1>1. Callback(w) /\ WaitForDiagnostics(w) /\ UNCHANGED <<about, started, pushed, undefined>>
  BY DEF WaitAgain
<1>2. Types /\ SavedResults /\ OneEventEach
  BY <1>1, CalledBack
<1> DEFINE rest == Tail(batch)
<1>3. /\ batch' = rest /\ rest \in Seq(Waits) /\ IsInjective(rest)
      /\ ToSet(batch) = {w} \cup ToSet(rest) /\ w \notin ToSet(rest)
      /\ w \notin ToSet(events) /\ w \in started
  BY <1>1, CalledBack
<1> HIDE DEF rest
<1>4. started' = started /\ started \subseteq Waits
  BY <1>1, <1>2 DEF Types
<1>5. Types' /\ SavedResults' /\ OneEventEach'
  BY <1>1, <1>2, <1>3, <1>4, WaitKeeps DEF OneEventEach
<1>6. QED
  BY <1>5 DEF IInv

\* After the use of a freed notification nothing is promised but what is saved.
LEMMA UseFreedKeeps ==
  ASSUME IInv, NEW w \in Waits, UseFreed(w)
  PROVE  IInv'
<1>1. /\ Callback(w) /\ undefined' = TRUE
      /\ UNCHANGED <<waiters, results, about, refs, events, given, started, pushed>>
  BY DEF UseFreed, clientVars
<1>2. Types /\ SavedResults /\ batch' \in Seq(Waits)
  BY <1>1, CalledBack
<1>3. Types' /\ SavedResults'
  BY <1>1, <1>2 DEF Types, SavedResults
<1>4. QED
  BY <1>1, <1>3 DEF IInv

\* Every step keeps the invariant.
LEMMA StepIInv == IInv /\ [Next]_vars => IInv'
<1> SUFFICES ASSUME IInv, [Next]_vars PROVE IInv'
  OBVIOUS
<1>1. CASE UNCHANGED vars
  <2>1. Pending' = Pending /\ Completed' = Completed
    BY <1>1 DEF vars, loopVars, Pending, Completed
  <2>2. QED
    BY <1>1, <2>1 DEF vars, clientVars, loopVars, IInv, Types, SavedResults, OneEventEach
<1>2. QED
  BY <1>1, PublishKeeps, ExecuteKeeps, IterateKeeps, DeliverKeeps, WaitAgainKeeps, UseFreedKeeps
     DEF Next, LoopStep

\* The invariant holds in every state.
LEMMA AlwaysIInv == Spec => []IInv
BY InitIInv, StepIInv, PTL DEF Spec

\* No wait is completed twice, after its event was freed, or never registered,
\* and none sits beside a saved notification.
THEOREM WaitsAreRegistered == Spec => []WaitIsRegistered
<1>1. IInv => WaitIsRegistered
  <2> SUFFICES ASSUME IInv PROVE WaitIsRegistered
    OBVIOUS
  <2>1. Types /\ SavedResults
    BY DEF IInv
  <2>2. ASSUME OneEventEach
        PROVE  IsInjective(events \o batch)
    BY <2>1, <2>2, JoinElems DEF Types, OneEventEach
  <2>3. QED
    BY <2>1, <2>2 DEF IInv, WaitIsRegistered, SavedResults, OneEventEach
<1>2. QED
  BY <1>1, AlwaysIInv, PTL

----------------------------------------------------------------------------
(* Results and their references.                                           *)

\* A wait that was completed keeps its result until its callback runs.
ResultsStand ==
    \A w \in Completed \cap (ToSet(events) \cup ToSet(batch)) :
        given'[w] = given[w] \/ Callback(w)
ResultStands == [][ResultsStand]_vars

\* The parameters of a notification are freed when, and only when, a wait takes
\* them from the saved ones.
FreesTaken ==
    \A p \in Notices :
        (Freed(p)' /\ ~Freed(p)) <=> (p \in ToSet(results) /\ p \notin ToSet(results'))
FreedAsTaken == [][FreesTaken]_vars

\* a saved notification has the reference of the list, and nobody else has it
SavedUnshared ==
    /\ \A w \in Waits : given[w] # None => about[given[w]] # None
    /\ \A p \in ToSet(results) : refs[p] = 1 /\ \A w \in Waits : given[w] # p

LEMMA InitUnshared == Init => SavedUnshared
<1>1. ToSet(<<>>) = {}
  BY DEF ToSet
<1>2. QED
  BY <1>1 DEF Init, SavedUnshared

\* What a wait takes was saved: it had one reference, and the wait gets none.
LEMMA WaitTakes ==
  ASSUME Types, SavedResults, SavedUnshared, NEW w \in Waits, WaitForDiagnostics(w),
         IsInjective(waiters), ToSet(waiters) \subseteq Pending, UNCHANGED about
  PROVE  /\ SavedUnshared' /\ FreesTaken
         /\ \A v \in Completed : v # w => given'[v] = given[v]
<1> USE NoneAssumption
<1>1. CASE results = <<>>
  <2>1. given' = [given EXCEPT ![w] = None] /\ UNCHANGED <<results, refs>>
    BY <1>1 DEF WaitForDiagnostics
  <2>2. ToSet(results) = {} /\ ToSet(results') = {}
    BY <1>1, <2>1 DEF ToSet
  <2>3. SavedUnshared'
    BY <2>1, <2>2 DEF SavedUnshared, Types
  <2>4. FreesTaken
    BY <2>1, <2>2 DEF FreesTaken, Freed
  <2>5. QED
    BY <2>1, <2>3, <2>4 DEF Types, Completed
<1>2. CASE results # <<>>
  <2> DEFINE h == Head(results)
             t == Tail(results)
             registered == Append(waiters, w)
  <2>1. /\ given' = [v \in Waits |-> IF v \in ToSet(registered) THEN h ELSE given[v]]
        /\ results' = t /\ refs' = [refs EXCEPT ![h] = @ - 1]
    BY <1>2 DEF WaitForDiagnostics, ReturnTo
  <2>2. /\ h \in Notices /\ t \in Seq(Notices) /\ IsInjective(t)
        /\ ToSet(results) = {h} \cup ToSet(t) /\ h \notin ToSet(t)
    BY <1>2, HeadTailElems DEF Types, SavedResults
  <2>3. ToSet(registered) = {w}
    <3>1. waiters = <<>>
      BY <1>2 DEF SavedResults
    <3>2. ToSet(waiters) = {} /\ waiters \in Seq(Waits)
      BY <3>1 DEF ToSet, Types
    <3>3. ToSet(Append(waiters, w)) = ToSet(waiters) \cup {w}
      BY <3>2, AppendElems
    <3>4. QED
      BY <3>2, <3>3
  <2> HIDE DEF h, t, registered
  <2>4. given' = [v \in Waits |-> IF v = w THEN h ELSE given[v]]
    BY <2>1, <2>3
  <2>5. /\ refs[h] = 1 /\ about[h] # None /\ refs'[h] = 0
        /\ \A p \in Notices : p # h => refs'[p] = refs[p]
    BY <2>1, <2>2 DEF SavedUnshared, SavedResults, Types
  <2>6. ToSet(t) \subseteq Notices
    BY <2>2 DEF ToSet
  <2>7. SavedUnshared'
    <3>1. \A v \in Waits : given'[v] # None => about[given'[v]] # None
      BY <2>4, <2>5 DEF SavedUnshared
    <3>2. \A p \in ToSet(t) : refs'[p] = 1 /\ \A v \in Waits : given'[v] # p
      BY <2>2, <2>4, <2>5, <2>6 DEF SavedUnshared
    <3>3. QED
      BY <2>1, <3>1, <3>2 DEF SavedUnshared
  <2>8. FreesTaken
    BY <2>1, <2>2, <2>5, <2>6 DEF FreesTaken, Freed
  <2>9. QED
    BY <2>4, <2>7, <2>8 DEF Completed
<1>3. QED
  BY <1>1, <1>2

\* An arriving notification is a new one: it frees nothing, and completes only
\* waits that were not complete.
LEMMA PublishShares ==
  ASSUME IInv, SavedUnshared, NEW p \in Notices, NEW d \in Documents, Publish(p, d)
  PROVE  SavedUnshared' /\ FreesTaken /\ ResultsStand
<1> USE NoneAssumption
<1>1. /\ ~undefined /\ about[p] = None /\ about' = [about EXCEPT ![p] = d]
      /\ given' = [w \in Waits |-> IF w \in ToSet(waiters) THEN p ELSE given[w]]
  BY DEF Publish, ReturnTo
<1>2. Types /\ SavedResults /\ OneEventEach
  BY <1>1 DEF IInv
<1>3. \/ /\ waiters # <<>> /\ refs' = [refs EXCEPT ![p] = Len(waiters)] /\ results' = results
      \/ /\ waiters = <<>> /\ refs' = [refs EXCEPT ![p] = 1] /\ results' = Append(results, p)
  BY DEF Publish
<1>4. p \notin ToSet(results) /\ \A w \in Waits : given[w] # p
  BY <1>1, <1>2 DEF SavedResults, SavedUnshared
<1>5. /\ ToSet(Append(results, p)) = ToSet(results) \cup {p}
      /\ ToSet(results) \subseteq Notices
  <2>1. results \in Seq(Notices)
    BY <1>2 DEF Types
  <2>2. ToSet(results) \subseteq Notices
    BY <2>1 DEF ToSet
  <2>3. QED
    BY <2>1, <2>2, AppendElems
<1>6. about'[p] # None /\ refs'[p] # 0 /\ \A q \in Notices : q # p => about'[q] = about[q] /\ refs'[q] = refs[q]
  <2>1. waiters # <<>> => Len(waiters) # 0
    BY <1>2 DEF Types
  <2>2. QED
    BY <1>1, <1>2, <1>3, <2>1 DEF Types
<1>7. FreesTaken
  BY <1>3, <1>5, <1>6 DEF FreesTaken, Freed
<1>8. ResultsStand
  BY <1>1, <1>2 DEF ResultsStand, OneEventEach, Completed, Pending
<1>9. SavedUnshared'
  <2>1. \A w \in Waits : given'[w] # None => about'[given'[w]] # None
    BY <1>1, <1>2, <1>4, <1>6 DEF SavedUnshared, Types
  <2>2. CASE waiters # <<>>
    <3>1. results = <<>> /\ results' = <<>>
      BY <1>2, <1>3, <2>2 DEF SavedResults
    <3>2. ToSet(results') = {}
      BY <3>1 DEF ToSet
    <3>3. QED
      BY <2>1, <3>2 DEF SavedUnshared
  <2>3. CASE waiters = <<>>
    <3>1. ToSet(waiters) = {} /\ refs'[p] = 1 /\ results' = Append(results, p)
      BY <1>2, <1>3, <2>3 DEF ToSet, Types
    <3>2. \A w \in Waits : given'[w] = given[w]
      BY <1>1, <3>1
    <3>3. \A q \in ToSet(results') : refs'[q] = 1 /\ \A w \in Waits : given'[w] # q
      BY <1>4, <1>5, <1>6, <3>1, <3>2 DEF SavedUnshared
    <3>4. QED
      BY <2>1, <3>3 DEF SavedUnshared
  <2>4. QED
    BY <2>2, <2>3
<1>10. QED
  BY <1>7, <1>8, <1>9

\* Every step shares no saved notification, frees what is taken and lets the
\* results stand.
LEMMA StepShares ==
  ASSUME IInv, SavedUnshared, [Next]_vars
  PROVE  SavedUnshared' /\ FreesTaken /\ ResultsStand
<1>1. CASE UNCHANGED <<results, about, refs, given>>
  BY <1>1 DEF SavedUnshared, FreesTaken, Freed, ResultsStand
<1>2. CASE Iterate \/ UNCHANGED vars
  BY <1>1, <1>2 DEF Iterate, clientVars, loopVars, vars
<1>3. ASSUME NEW w \in Waits, UseFreed(w) PROVE SavedUnshared' /\ FreesTaken /\ ResultsStand
  BY <1>1, <1>3 DEF UseFreed, clientVars
<1>4. ASSUME NEW p \in Notices, NEW d \in Documents, Publish(p, d)
      PROVE  SavedUnshared' /\ FreesTaken /\ ResultsStand
  BY <1>4, PublishShares
<1>5. ASSUME NEW w \in Waits, Execute(w) PROVE SavedUnshared' /\ FreesTaken /\ ResultsStand
  <2>1. /\ ~undefined /\ batch = <<>> /\ w \notin started /\ WaitForDiagnostics(w) /\ UNCHANGED about
    BY <1>5 DEF Execute
  <2>2. Types /\ SavedResults /\ OneEventEach
    BY <2>1 DEF IInv
  <2>3. /\ SavedUnshared' /\ FreesTaken
        /\ \A v \in Completed : v # w => given'[v] = given[v]
    BY <2>1, <2>2, WaitTakes DEF OneEventEach
  <2>4. w \notin ToSet(events) \cup ToSet(batch)
    BY <2>1, <2>2 DEF OneEventEach
  <2>5. QED
    BY <2>3, <2>4 DEF ResultsStand
<1>6. ASSUME NEW w \in Waits, WaitAgain(w) PROVE SavedUnshared' /\ FreesTaken /\ ResultsStand
  <2>1. Callback(w) /\ WaitForDiagnostics(w) /\ UNCHANGED about
    BY <1>6 DEF WaitAgain
  <2>2. Types /\ SavedResults /\ OneEventEach
    BY <2>1, CalledBack
  <2>3. /\ SavedUnshared' /\ FreesTaken
        /\ \A v \in Completed : v # w => given'[v] = given[v]
    BY <2>1, <2>2, WaitTakes DEF OneEventEach
  <2>4. QED
    BY <2>1, <2>3 DEF ResultsStand
<1>7. ASSUME NEW w \in Waits, Deliver(w) PROVE SavedUnshared' /\ FreesTaken /\ ResultsStand
  <2>1. /\ Callback(w) /\ ~Freed(given[w])
        /\ refs' = [refs EXCEPT ![given[w]] = @ + 1]
        /\ UNCHANGED <<results, about, given>>
    BY <1>7 DEF Deliver, clientVars
  <2>2. Types /\ given[w] \in Notices
    BY <2>1, CalledBack
  <2>3. /\ refs'[given[w]] # 0
        /\ \A p \in Notices : p # given[w] => refs'[p] = refs[p]
    BY <2>1, <2>2 DEF Types
  <2>4. \A p \in ToSet(results) : p \in Notices /\ p # given[w]
    <3>1. ToSet(results) \subseteq Notices
      BY <2>2 DEF Types, ToSet
    <3>2. QED
      BY <3>1 DEF SavedUnshared
  <2>5. QED
    BY <2>1, <2>2, <2>3, <2>4 DEF SavedUnshared, FreesTaken, Freed, ResultsStand
<1>8. QED
  BY <1>2, <1>3, <1>4, <1>5, <1>6, <1>7 DEF Next, LoopStep

LEMMA AlwaysUnshared == Spec => []SavedUnshared
<1>1. IInv /\ SavedUnshared /\ [Next]_vars => SavedUnshared'
  BY StepShares
<1>2. QED
  BY <1>1, InitUnshared, AlwaysIInv, PTL DEF Spec

\* The result that a wait was completed with stands until its callback runs:
\* no later notification, and no other wait that begins in between, completes
\* it again (lsp-client.c:104-108 and 305-316).
THEOREM ResultsAreFinal == Spec => ResultStands
<1>1. IInv /\ SavedUnshared /\ [Next]_vars => [ResultsStand]_vars
  BY StepShares
<1>2. QED
  BY <1>1, AlwaysIInv, AlwaysUnshared, PTL DEF Spec, ResultStands

\* The parameters of a notification that came before its wait are freed in the
\* very step that hands them to the wait, always: their link in
\* diagnostics_results has the one reference to them (lsp-client.c:312-319).
\* Those of a notification that came while somebody waited are never freed.
THEOREM TakenIsFreed == Spec => FreedAsTaken
<1>1. IInv /\ SavedUnshared /\ [Next]_vars => [FreesTaken]_vars
  BY StepShares
<1>2. QED
  BY <1>1, AlwaysIInv, AlwaysUnshared, PTL DEF Spec, FreedAsTaken

----------------------------------------------------------------------------
(* Who was waiting when a notification arrived.                            *)

\* A wait that an arriving notification completed is called back with it, and
\* its callback pushes it if it is about the wanted document: nothing that
\* happens before takes the wait, its result or the memory of the result away.
ServesOwed ==
    \A w \in owed :
        IF Callback(w) THEN about[given[w]] = Wants[w] => pushed'[w] = given[w]
                       ELSE w \in owed' /\ given'[w] = given[w]
NotifiedIsServed == [][ServesOwed]_vars

OwedInv ==
    ~undefined => \A w \in owed :
        /\ w \in Completed /\ w \in ToSet(events) \cup ToSet(batch)
        /\ given[w] \in Notices /\ ~Freed(given[w])

\* What is owed is not among the saved notifications, so that it is not freed.
LEMMA OwedIsLive ==
  ASSUME SavedUnshared, OwedInv, FreesTaken, ~undefined,
         NEW w \in owed, given'[w] = given[w],
         w \in ToSet(events') \cup ToSet(batch')
  PROVE  /\ w \in Completed' /\ w \in ToSet(events') \cup ToSet(batch')
         /\ given'[w] \in Notices /\ ~Freed(given[w])'
<1>1. /\ w \in Completed /\ given[w] \in Notices /\ ~Freed(given[w])
  BY DEF OwedInv
<1>2. given[w] \notin ToSet(results)
  BY <1>1 DEF SavedUnshared, Completed
<1>3. ~Freed(given[w])'
  BY <1>1, <1>2 DEF FreesTaken, Freed
<1>4. QED
  BY <1>1, <1>3 DEF Completed

\* The callback of one wait takes nothing from another that is owed its own.
LEMMA CallbackOwed ==
  ASSUME IInv, SavedUnshared, OwedInv, FreesTaken, ResultsStand, NEW v \in Waits, Callback(v),
         ToSet(events) \subseteq ToSet(events'), undefined' = undefined,
         v \in owed => (about[given[v]] = Wants[v] => pushed'[v] = given[v])
  PROVE  OwedInv' /\ ServesOwed
<1>1. /\ batch # <<>> /\ Head(batch) = v /\ owed' = owed \ {v} /\ ~undefined
  BY DEF Callback
<1>2. /\ batch' = Tail(batch) /\ ToSet(batch) = {v} \cup ToSet(Tail(batch))
  BY CalledBack
<1>3. ASSUME NEW w \in owed, w # v
      PROVE  /\ ~Callback(w) /\ given'[w] = given[w]
             /\ w \in ToSet(events') \cup ToSet(batch')
  <2>1. w \in Completed /\ w \in ToSet(events) \cup ToSet(batch)
    BY <1>1 DEF OwedInv
  <2>2. ~Callback(w)
    BY <1>1, <1>3 DEF Callback
  <2>3. QED
    BY <1>2, <1>3, <2>1, <2>2 DEF ResultsStand
<1>4. OwedInv'
  <2>1. ASSUME NEW w \in owed'
        PROVE  /\ w \in Completed' /\ w \in ToSet(events') \cup ToSet(batch')
               /\ given'[w] \in Notices /\ ~Freed(given[w])'
    <3>1. w \in owed /\ w # v
      BY <1>1, <2>1
    <3>2. QED
      BY <1>1, <1>3, <3>1, OwedIsLive
  <2>2. QED
    BY <2>1 DEF OwedInv, Freed, ToSet
<1>5. ServesOwed
  BY <1>1, <1>3 DEF ServesOwed
<1>6. QED
  BY <1>4, <1>5

\* A step that is no callback serves nobody and keeps what is owed.
LEMMA NoCallbackOwed ==
  ASSUME SavedUnshared, OwedInv, FreesTaken, ResultsStand, ~undefined,
         \A w \in Waits : ~Callback(w), owed \subseteq Waits, owed' = owed,
         ToSet(events) \cup ToSet(batch) \subseteq ToSet(events') \cup ToSet(batch')
  PROVE  OwedInv' /\ ServesOwed
<1>1. ASSUME NEW w \in owed
      PROVE  /\ ~Callback(w) /\ given'[w] = given[w]
             /\ w \in ToSet(events') \cup ToSet(batch')
  BY <1>1 DEF OwedInv, ResultsStand
<1>2. ASSUME NEW w \in owed
      PROVE  /\ w \in Completed' /\ w \in ToSet(events') \cup ToSet(batch')
             /\ given'[w] \in Notices /\ ~Freed(given[w])'
  BY <1>1, <1>2, OwedIsLive
<1>3. OwedInv'
  BY <1>2 DEF OwedInv, Freed, ToSet
<1>4. QED
  BY <1>1, <1>3 DEF ServesOwed

\* Every step keeps and serves what is owed.
LEMMA StepOwed ==
  ASSUME IInv, SavedUnshared, OwedInv, [Next]_vars
  PROVE  OwedInv' /\ ServesOwed
<1>1. SavedUnshared' /\ FreesTaken /\ ResultsStand
  BY StepShares
<1>2. ~undefined => owed \subseteq Waits /\ Types /\ SavedResults /\ OneEventEach
  BY DEF OwedInv, Completed, IInv
<1>3. CASE UNCHANGED vars
  <2>1. \A w \in owed : ~Callback(w)
    <3>1. SUFFICES ASSUME ~undefined, batch # <<>> PROVE batch' # Tail(batch)
      BY DEF Callback
    <3>2. batch \in Seq(Waits) /\ batch' = batch
      BY <1>2, <1>3, <3>1 DEF Types, vars, loopVars
    <3>3. Len(Tail(batch)) # Len(batch)
      BY <3>1, <3>2
    <3>4. QED
      BY <3>2, <3>3
  <2>2. UNCHANGED <<events, given, batch, owed, about, refs, undefined>>
    BY <1>3 DEF vars, loopVars
  <2>3. OwedInv'
    BY <2>2 DEF OwedInv, Completed, Freed
  <2>4. QED
    BY <2>1, <2>2, <2>3 DEF ServesOwed
<1>4. ASSUME NEW p \in Notices, NEW d \in Documents, Publish(p, d) PROVE OwedInv' /\ ServesOwed
  <2>1. /\ ~undefined /\ owed = {} /\ about[p] = None /\ about' = [about EXCEPT ![p] = d]
        /\ given' = [w \in Waits |-> IF w \in ToSet(waiters) THEN p ELSE given[w]]
        /\ owed' = ToSet(waiters) /\ events' = events
        /\ waiters # <<>> => refs' = [refs EXCEPT ![p] = Len(waiters)]
    BY <1>4 DEF Publish, ReturnTo
  <2>2. ServesOwed
    BY <2>1 DEF ServesOwed
  <2>3. ASSUME NEW w \in ToSet(waiters)
        PROVE  w \in Waits /\ w \in ToSet(events) /\ given'[w] = p /\ refs'[p] # 0
    <3>1. waiters # <<>> /\ waiters \in Seq(Waits) /\ refs \in [Notices -> Nat]
      BY <1>2, <2>1, <2>3 DEF Types, ToSet
    <3>2. w \in Waits /\ w \in ToSet(events)
      BY <1>2, <2>1 DEF OneEventEach, Pending
    <3>3. Len(waiters) # 0
      BY <3>1
    <3>4. QED
      BY <2>1, <3>1, <3>2, <3>3
  <2>4. p # None
    BY NoneAssumption
  <2>5. ASSUME NEW w \in owed'
        PROVE  /\ w \in Completed' /\ w \in ToSet(events') \cup ToSet(batch')
               /\ given'[w] \in Notices /\ ~Freed(given[w])'
    <3>1. w \in ToSet(waiters)
      BY <2>1, <2>5
    <3>2. w \in Waits /\ w \in ToSet(events') /\ given'[w] = p /\ refs'[p] # 0
      BY <2>1, <2>3, <3>1
    <3>3. ~Freed(given[w])'
      BY <3>2 DEF Freed
    <3>4. QED
      BY <2>4, <3>2, <3>3 DEF Completed
  <2>6. OwedInv'
    BY <2>5 DEF OwedInv, Freed, ToSet
  <2>7. QED
    BY <2>2, <2>6
<1>5. ASSUME NEW v \in Waits, Execute(v) PROVE OwedInv' /\ ServesOwed
  <2>1. /\ ~undefined /\ batch = <<>> /\ batch' = batch /\ owed' = owed /\ events' = Append(events, v)
    BY <1>5 DEF Execute, WaitForDiagnostics
  <2>2. ToSet(events') = ToSet(events) \cup {v}
    BY <1>2, <2>1, AppendElems DEF Types
  <2>3. \A w \in Waits : ~Callback(w)
    BY <2>1 DEF Callback
  <2>4. QED
    BY <1>1, <1>2, <2>1, <2>2, <2>3, NoCallbackOwed
<1>6. CASE Iterate
  <2>1. /\ ~undefined /\ batch = <<>> /\ owed' = owed
        /\ batch' = Reverse(Only(events, Completed)) /\ events' = Only(events, Pending)
    BY <1>6 DEF Iterate
  <2>2. events \in Seq(Waits)
    BY <1>2, <2>1 DEF Types
  <2>3. /\ ToSet(Only(events, Completed)) = ToSet(events) \cap Completed
        /\ ToSet(events') = ToSet(events) \cap Pending
        /\ Only(events, Completed) \in Seq(Waits \cap Completed)
    BY <2>1, <2>2, OnlyElems, OnlyPlaces
  <2>4. ToSet(batch') = ToSet(events) \cap Completed
    BY <2>1, <2>3, ReverseElems
  <2>5. ToSet(batch) = {} /\ ToSet(events) \subseteq Completed \cup Pending
    BY <2>1, <2>2 DEF ToSet, Completed, Pending
  <2>6. \A w \in Waits : ~Callback(w)
    BY <2>1 DEF Callback
  <2>7. ToSet(events) \cup ToSet(batch) \subseteq ToSet(events') \cup ToSet(batch')
    BY <2>3, <2>4, <2>5
  <2>8. QED
    BY <1>1, <1>2, <2>1, <2>6, <2>7, NoCallbackOwed
<1>7. ASSUME NEW v \in Waits, Deliver(v) PROVE OwedInv' /\ ServesOwed
  <2>1. /\ Callback(v) /\ pushed' = [pushed EXCEPT ![v] = given[v]]
        /\ UNCHANGED <<events, undefined>>
    BY <1>7 DEF Deliver
  <2>2. Types
    BY <2>1, CalledBack
  <2>3. pushed'[v] = given[v] /\ ToSet(events) \subseteq ToSet(events')
    BY <2>1, <2>2 DEF Types
  <2>4. QED
    BY <1>1, <2>1, <2>3, CallbackOwed
<1>8. ASSUME NEW v \in Waits, WaitAgain(v) PROVE OwedInv' /\ ServesOwed
  <2>1. /\ Callback(v) /\ about[given[v]] # Wants[v] /\ events' = Append(events, v)
        /\ undefined' = undefined
    BY <1>8 DEF WaitAgain, WaitForDiagnostics
  <2>2. Types
    BY <2>1, CalledBack
  <2>3. ToSet(events') = ToSet(events) \cup {v}
    BY <2>1, <2>2, AppendElems DEF Types
  <2>4. QED
    BY <1>1, <2>1, <2>3, CallbackOwed
<1>9. ASSUME NEW v \in Waits, UseFreed(v) PROVE OwedInv' /\ ServesOwed
  <2>1. /\ Callback(v) /\ Freed(given[v]) /\ undefined' = TRUE /\ given' = given
        /\ ~undefined /\ Head(batch) = v /\ owed' = owed \ {v}
    BY <1>9 DEF UseFreed, Callback
  <2>2. v \notin owed
    BY <2>1 DEF OwedInv
  <2>3. \A w \in owed : w # v /\ ~Callback(w)
    BY <2>1, <2>2 DEF Callback
  <2>4. QED
    BY <2>1, <2>3 DEF OwedInv, ServesOwed
<1>10. QED
  BY <1>3, <1>4, <1>5, <1>6, <1>7, <1>8, <1>9 DEF Next, LoopStep

\* A wait that is registered when a notification arrives is called back with
\* that notification and pushes it if it is about its document, whatever other
\* waits start and end in between, and it never reads freed memory
\* (lsp-client.c:104-108, lstf-vm-lsp.c:284-316).  That is the safety half of
\* NotifiedIsDelivered, without its escape.
THEOREM NotifiedAreServed == Spec => NotifiedIsServed
<1>1. Init => OwedInv
  BY DEF Init, OwedInv
<1>2. IInv /\ SavedUnshared /\ OwedInv /\ [Next]_vars => OwedInv' /\ [ServesOwed]_vars
  BY StepOwed
<1>3. QED
  BY <1>1, <1>2, AlwaysIInv, AlwaysUnshared, PTL DEF Spec, NotifiedIsServed
============================================================================
