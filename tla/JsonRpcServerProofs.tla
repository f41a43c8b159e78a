------------------------ MODULE JsonRpcServerProofs ------------------------
(***************************************************************************)
(* What holds of the server for every number of calls, notifications,      *)
(* answers and tokens, for buffers and queues of every length, and whatever *)
(* the remote does; NoEarlyResponse alone needs a remote that answers only  *)
(* what it was sent.                                                        *)
(***************************************************************************)
EXTENDS JsonRpcServer, ListsProofs

----------------------------------------------------------------------------
(* The inductive invariant is Shape.  Orderly, AnsweredOnce and Failures    *)
(* are inductive together with it, Orderly under the hypothesis of its      *)
(* theorem.                                                                *)

\* the events of the listening loop, and all events
ReaderEvents == {HeaderParsed, NodeParsed, TokenRead, InputReady(HeaderParsed), InputReady(TokenRead)}
EventSet ==
    ReaderEvents \cup {Exited}
    \cup UNION {{OutputReady(m), Sent(m), Finish(m)} : m \in Outgoing}
Results == {"ok", "failed", "response", "result", "null"}

\* the headers that the remote sends, and all that it sends
Headers ==
    [type : {"result", "error"}, id : Calls]
    \cup [type : IF "send_invalid" \in Remote THEN {"notice", "invalid"} ELSE {"notice"}, id : {NoId}]
Items == Headers \cup {NoId}
Stream == buffer \o wire \o outbox

Added == ToSet(events)
Ready == ToSet(batch)
Awaits(e) == e \in Added /\ e \notin Completed

\* a header is consumed and the message that it begins is not dispatched
Parsing ==
    \/ HeaderParsed \in Completed /\ done[HeaderParsed] = "ok"
    \/ NodeParsed \in Linked

LoopTypes ==
    /\ events \in Seq(EventSet) /\ batch \in Seq(EventSet)
    /\ done \in [Completed -> Results]

DataTypes ==
    /\ buffer \in Seq(Items) /\ wire \in Seq(Items) /\ outbox \in Seq(Items)
    /\ left \in Nat
    /\ closed \in BOOLEAN
    /\ answers \in [Calls -> Nat]
    /\ written \subseteq Outgoing
    /\ outcome \in [Outgoing -> {"none", "pending"} \cup Results]

\* An event is linked once.  Those of the batch have a result, those that have
\* one are linked, and a descriptor gives it only as it joins the batch.
Once ==
    /\ IsInjective(events) /\ IsInjective(batch)
    /\ Added \cap Ready = {}
    /\ Ready \subseteq Completed /\ Completed \subseteq Linked
    /\ \A e \in Added : e.cb \in {"output_ready", "input_ready"} => e \notin Completed

\* The listening loop is in one place: it waits for the input or has read a
\* header, waits for a token or has read one, has read a node, or has ended.
Reader ==
    LET linked == ReaderEvents \cap Linked
    IN  \/ linked = {}
        \/ linked = {HeaderParsed, InputReady(HeaderParsed)} /\ HeaderParsed \notin Completed
        \/ linked = {HeaderParsed} /\ HeaderParsed \in Completed
        \/ /\ linked = {NodeParsed, TokenRead, InputReady(TokenRead)}
           /\ NodeParsed \notin Completed /\ TokenRead \notin Completed
        \/ linked = {NodeParsed, TokenRead} /\ TokenRead \in Completed /\ NodeParsed \notin Completed
        \/ linked = {NodeParsed} /\ NodeParsed \in Completed

\* The tokens that are left are those of the message that is parsed.
Position ==
    /\ Awaits(HeaderParsed) => left = 0
    /\ HeaderParsed \in Completed /\ done[HeaderParsed] = "ok" => left = Tokens
    /\ InputReady(TokenRead) \in Linked => left > 0
    /\ NodeParsed \in Completed /\ done[NodeParsed] = "ok" => left = 0
    /\ \A x \in {HeaderParsed, TokenRead} : InputReady(x) \in Linked => buffer = <<>>
    /\ Parsing => parsed \in Headers

\* The first item of a message is its header, and the others are its tokens.
\* s begins after all but l tokens of a message.
Framed(s, l) ==
    /\ \A i \in 1 .. Len(s) : i <= l => s[i] = NoId
    /\ Len(s) > l => s[l + 1] \in Headers
    /\ \A i \in 1 .. Len(s) : s[i] \in Headers =>
          /\ \A j \in 1 .. Len(s) : i < j /\ j <= i + Tokens => s[j] = NoId
          /\ i + Tokens + 1 <= Len(s) => s[i + Tokens + 1] \in Headers

\* and s ends with a message
Whole(s, l) ==
    /\ l <= Len(s)
    /\ \A i \in 1 .. Len(s) : s[i] \in Headers => i + Tokens <= Len(s)

Frames ==
    /\ Framed(Stream, left)
    /\ ~closed => Whole(Stream, left)

\* The events of a message end one after the other.
Chains ==
    \A m \in Outgoing :
        /\ outcome[m] = "none" =>
              /\ {OutputReady(m), Sent(m), Finish(m)} \cap Linked = {}
              /\ m \notin response_events /\ m \notin written
        /\ OutputReady(m) \in Linked => Awaits(Sent(m)) /\ m \notin written
        /\ Sent(m) \in Linked => Awaits(Finish(m)) /\ m \notin response_events

\* What a dispatch left to be called back is called back before a node is.
Apart ==
    \A f \in owed :
        /\ f.cb = "finish"
        /\ \/ f \in Ready /\ NodeParsed \notin Ready
           \/ /\ f \in Added /\ f \in Completed
              /\ NodeParsed \notin Linked /\ HeaderParsed \notin Ready

Shape == LoopTypes /\ DataTypes /\ Once /\ Reader /\ Position /\ Frames /\ Chains /\ Apart

\* While the remote answers only what was sent to it: a written request is
\* registered, or its callback is due; and the callback is at least one batch
\* ahead of the response.
Registered ==
    \A c \in Calls : c \in written /\ c \notin response_events =>
        Sent(c) \in Completed /\ done[Sent(c)] = "ok"

Answered ==
    /\ \A i \in 1 .. Len(Stream) :
          Stream[i] \in Headers /\ Stream[i].id \in Calls => Stream[i].id \in written
    /\ Parsing /\ parsed.id \in Calls => parsed.id \in written

Ahead ==
    \A c \in Calls : Parsing /\ parsed.id = c /\ c \notin response_events =>
        \/ {Sent(c), HeaderParsed} \subseteq Added
        \/ Sent(c) \in Ready /\ {NodeParsed, TokenRead} \cap Ready = {}

Orderly == NoEarlyResponse /\ Registered /\ Answered /\ Ahead

\* As long as it has answered a call once at most, the response of the call
\* finds its event pending.
About(c) == {i \in 1 .. Len(Stream) : Stream[i] \in Headers /\ Stream[i].id = c}
Fresh(c) == c \in response_events => Awaits(Finish(c))

Single(c) ==
    /\ c \notin twice
    /\ answers[c] = 0 => Fresh(c) /\ About(c) = {} /\ ~(Parsing /\ parsed.id = c)
    /\ About(c) # {} => Fresh(c) /\ ~(Parsing /\ parsed.id = c)
    /\ \A i, k \in About(c) : i = k
    /\ Parsing /\ parsed.id = c => Fresh(c)

AnsweredOnce == \A c \in Calls : answers[c] <= 1 => Single(c)

\* A wait for the input, a token or a node fails only at the end of the input,
\* and a node is cut there before its last token.
Exhausted == closed /\ buffer = <<>> /\ wire = <<>>
Failed(x) == x \in Completed /\ done[x] = "failed"

Failures ==
    /\ closed => outbox = <<>>
    /\ \A x \in {HeaderParsed, TokenRead} : Failed(InputReady(x)) => Exhausted
    /\ \A x \in {TokenRead, NodeParsed} : Failed(x) => Exhausted /\ left > 0

----------------------------------------------------------------------------
(* The events.                                                             *)

\* Events are told apart by their callback and by what it is about.
LEMMA EventNames ==
  /\ \A m : OutputReady(m).cb = "output_ready" /\ OutputReady(m).of = m
  /\ \A m : Sent(m).cb = "sent" /\ Sent(m).of = m
  /\ \A m : Finish(m).cb = "finish" /\ Finish(m).of = m
  /\ \A x : InputReady(x).cb = "input_ready" /\ InputReady(x).of = x
  /\ HeaderParsed.cb = "header_parsed" /\ NodeParsed.cb = "node_parsed"
  /\ TokenRead.cb = "token_read" /\ Exited.cb = "exited"
BY DEF OutputReady, Sent, Finish, InputReady, HeaderParsed, NodeParsed, TokenRead, Exited, Ev

\* The events of the loop and of a message are events.
LEMMA EventsAreEvents ==
  /\ ReaderEvents \subseteq EventSet
  /\ Exited \in EventSet
  /\ \A m \in Outgoing : OutputReady(m) \in EventSet /\ Sent(m) \in EventSet /\ Finish(m) \in EventSet
  /\ \A e \in EventSet :
        \/ e \in ReaderEvents \/ e = Exited
        \/ \E m \in Outgoing : e \in {OutputReady(m), Sent(m), Finish(m)}
BY DEF EventSet

\* The callback of e adds the events A and completes the events C.
Moved(e, A, C) ==
    /\ Added' = Added \cup A
    /\ Ready' = Ready \ {e}
    /\ Completed' = (Completed \ {e}) \cup C
    /\ \A x \in Completed \ {e} : x \notin C => done'[x] = done[x]

\* What the callback of an event does to the loop, when it completes only
\* events that are pending, and adds only events that are not linked.
LEMMA RunMoves ==
  ASSUME LoopTypes, Once, NEW e, NEW r, Run(e, r),
         NEW added \in Seq(EventSet), IsInjective(added),
         ToSet(added) \cap (Linked \ {e}) = {},
         events' = events \o added,
         NEW C, C \subseteq Added \cup ToSet(added),
         \A x \in C : x.cb \notin {"output_ready", "input_ready"},
         done' = [x \in DOMAIN done' |-> done'[x]],
         DOMAIN done' = (Completed \ {e}) \cup C,
         \A x \in Completed \ {e} : x \notin C => done'[x] = done[x],
         \A x \in C : done'[x] \in Results
  PROVE  /\ LoopTypes' /\ Once'
         /\ e \in Ready /\ e \in Completed /\ done[e] = r /\ e \notin Added
         /\ Moved(e, ToSet(added), C)
<1>1. /\ batch \in Seq(EventSet) /\ batch # <<>>
      /\ e = Head(batch) /\ batch' = Tail(batch) /\ done[e] = r
  BY DEF Run, LoopTypes
<1>2. /\ batch' \in Seq(EventSet) /\ IsInjective(batch')
      /\ e \in Ready /\ Ready' = Ready \ {e}
  <2>1. IsInjective(batch)
    BY DEF Once
  <2>2. /\ Tail(batch) \in Seq(EventSet)
        /\ ToSet(batch) = {e} \cup ToSet(Tail(batch))
        /\ e \notin ToSet(Tail(batch)) /\ IsInjective(Tail(batch))
    BY <1>1, <2>1, HeadTailElems
  <2>3. QED
    BY <1>1, <2>2 DEF Ready
<1>3. /\ e \in Completed /\ e \notin Added
      /\ Added \cap ToSet(added) = {}
  BY <1>2 DEF Once, Linked, Added, Ready
<1>4. /\ events' \in Seq(EventSet) /\ IsInjective(events')
      /\ Added' = Added \cup ToSet(added)
  <2>1. events \in Seq(EventSet) /\ IsInjective(events)
    BY DEF LoopTypes, Once
  <2>2. QED
    BY <1>3, <2>1, JoinElems DEF Added
<1>5. /\ Completed' = (Completed \ {e}) \cup C
      /\ done' \in [Completed' -> Results]
  BY DEF LoopTypes, Completed
<1>6. LoopTypes'
  BY <1>2, <1>4, <1>5 DEF LoopTypes
<1>7. Once'
  <2>1. /\ Linked = Added \cup Ready /\ Linked' = Added' \cup Ready'
        /\ Added \cap Ready = {} /\ Ready \subseteq Completed /\ Completed \subseteq Linked
        /\ \A x \in Added : x.cb \in {"output_ready", "input_ready"} => x \notin Completed
    BY DEF Once, Linked, Added, Ready
  <2>2. Added' \cap Ready' = {} /\ Ready' \subseteq Completed' /\ Completed' \subseteq Linked'
    BY <1>2, <1>4, <1>5, <2>1
  <2>3. \A x \in Added' : x.cb \in {"output_ready", "input_ready"} => x \notin Completed'
    BY <1>3, <1>4, <1>5, <2>1
  <2>4. QED
    BY <1>2, <1>4, <2>2, <2>3 DEF Once
<1>8. QED
  BY <1>1, <1>2, <1>3, <1>4, <1>5, <1>6, <1>7 DEF Moved

\* The same for a callback that adds nothing and completes nothing,
LEMMA PlainMoves ==
  ASSUME LoopTypes, Once, NEW e, NEW r, Run(e, r), UNCHANGED events,
         done' = Without(done, e)
  PROVE  /\ LoopTypes' /\ Once'
         /\ e \in Ready /\ e \in Completed /\ done[e] = r /\ e \notin Added
         /\ Moved(e, {}, {})
<1> DEFINE added == <<>>
<1>1. added \in Seq(EventSet) /\ ToSet(added) = {} /\ IsInjective(added)
  BY EmptyElems
<1>2. events' = events \o added
  BY DEF LoopTypes
<1>3. /\ done' = [x \in DOMAIN done' |-> done'[x]]
      /\ DOMAIN done' = (Completed \ {e}) \cup {}
      /\ \A x \in Completed \ {e} : done'[x] = done[x]
  BY DEF Without, Completed
<1>4. ToSet(added) \cap (Linked \ {e}) = {}
  BY <1>1
<1> HIDE DEF added
<1>5. /\ LoopTypes' /\ Once'
      /\ e \in Ready /\ e \in Completed /\ done[e] = r /\ e \notin Added
      /\ Moved(e, ToSet(added), {})
  BY <1>1, <1>2, <1>3, <1>4, RunMoves
<1>6. QED
  BY <1>1, <1>5

\* and for one that completes a pending event.
LEMMA CompleteMoves ==
  ASSUME LoopTypes, Once, NEW e, NEW r, Run(e, r), UNCHANGED events,
         NEW f, Awaits(f), f.cb \notin {"output_ready", "input_ready"},
         NEW v \in Results, Complete(e, f, v)
  PROVE  /\ LoopTypes' /\ Once'
         /\ e \in Ready /\ e \in Completed /\ done[e] = r /\ e \notin Added
         /\ Moved(e, {}, {f}) /\ done'[f] = v
<1> DEFINE added == <<>>
<1>1. added \in Seq(EventSet) /\ ToSet(added) = {} /\ IsInjective(added)
  BY EmptyElems
<1>2. events' = events \o added
  BY DEF LoopTypes
<1>3. /\ done' = [x \in DOMAIN done' |-> done'[x]]
      /\ DOMAIN done' = (Completed \ {e}) \cup {f}
      /\ \A x \in Completed \ {e} : x # f => done'[x] = done[x]
      /\ done'[f] = v
  BY DEF Complete, With, Without, Completed
<1>4. {f} \subseteq Added \cup ToSet(added) /\ ToSet(added) \cap (Linked \ {e}) = {}
  BY <1>1 DEF Awaits
<1>5. \A x \in {f} : x.cb \notin {"output_ready", "input_ready"} /\ done'[x] \in Results
  BY <1>3
<1>6. \A x \in Completed \ {e} : x \notin {f} => done'[x] = done[x]
  BY <1>3
<1> HIDE DEF added
<1>7. /\ LoopTypes' /\ Once'
      /\ e \in Ready /\ e \in Completed /\ done[e] = r /\ e \notin Added
      /\ Moved(e, ToSet(added), {f})
  BY <1>1, <1>2, <1>3, <1>4, <1>5, <1>6, RunMoves
<1>8. QED
  BY <1>1, <1>3, <1>7

\* What a callback does that asks for the next item: it waits for the
\* input, or the item is in the buffer.
Asked(e, A, F, target) ==
    \/ /\ buffer = <<>>
       /\ Moved(e, A \cup {InputReady(target)}, F)
       /\ UNCHANGED inputVars
    \/ /\ buffer # <<>>
       /\ Moved(e, A, F \cup {target}) /\ done'[target] = "ok"
       /\ buffer' = Tail(buffer)
       /\ parsed' = IF target = HeaderParsed THEN Head(buffer) ELSE parsed
       /\ left' = IF target = HeaderParsed THEN Tokens ELSE left - 1

\* A callback that completes the events F and waits for the next item.
LEMMA AwaitMoves ==
  ASSUME LoopTypes, Once, NEW e, NEW r, Run(e, r),
         NEW F, F \subseteq Added, \A x \in F : x.cb \notin {"output_ready", "input_ready"},
         NEW d, d = [x \in DOMAIN d |-> d[x]],
         DOMAIN d = (Completed \ {e}) \cup F,
         \A x \in Completed \ {e} : x \notin F => d[x] = done[x],
         \A x \in F : d[x] \in Results,
         NEW added \in Seq(EventSet), IsInjective(added),
         ToSet(added) \cap (Linked \ {e}) = {},
         NEW target \in {HeaderParsed, TokenRead}, target \in ToSet(added), target \notin F,
         InputReady(target) \notin Linked \cup ToSet(added),
         Await(d, added, target)
  PROVE  /\ LoopTypes' /\ Once'
         /\ e \in Ready /\ e \in Completed /\ done[e] = r /\ e \notin Added
         /\ \A x \in F : done'[x] = d[x]
         /\ Asked(e, ToSet(added), F, target)
<1>1. CASE buffer = <<>>
  <2> DEFINE wait == <<InputReady(target)>>
             all == added \o wait
  <2>1. InputReady(target) \in EventSet
    BY EventsAreEvents DEF ReaderEvents
  <2>2. wait \in Seq(EventSet) /\ ToSet(wait) = {InputReady(target)} /\ IsInjective(wait)
    BY <2>1, SingleElems
  <2>3. /\ events' = (events \o added) \o wait
        /\ done' = d
        /\ UNCHANGED inputVars
    BY <1>1 DEF Await
  <2> HIDE DEF wait
  <2>4. events' = events \o all
    BY <2>2, <2>3, JoinAssociates DEF LoopTypes
  <2>5. /\ all \in Seq(EventSet) /\ IsInjective(all)
        /\ ToSet(all) = ToSet(added) \cup {InputReady(target)}
    BY <2>2, JoinElems
  <2> HIDE DEF all
  <2>6. ToSet(all) \cap (Linked \ {e}) = {} /\ F \subseteq Added \cup ToSet(all)
    BY <2>5
  <2>7. /\ done' = [x \in DOMAIN done' |-> done'[x]]
        /\ DOMAIN done' = (Completed \ {e}) \cup F
        /\ \A x \in Completed \ {e} : x \notin F => done'[x] = done[x]
        /\ \A x \in F : done'[x] = d[x]
    BY <2>3
  <2>8. /\ LoopTypes' /\ Once'
        /\ e \in Ready /\ e \in Completed /\ done[e] = r /\ e \notin Added
        /\ Moved(e, ToSet(all), F)
    BY <2>4, <2>5, <2>6, <2>7, RunMoves
  <2>9. QED
    BY <1>1, <2>3, <2>5, <2>7, <2>8 DEF Asked
<1>2. CASE buffer # <<>>
  <2> DEFINE C == F \cup {target}
  <2>1. /\ events' = events \o added
        /\ done' = With(d, target, "ok")
        /\ buffer' = Tail(buffer)
        /\ parsed' = IF target = HeaderParsed THEN Head(buffer) ELSE parsed
        /\ left' = IF target = HeaderParsed THEN Tokens ELSE left - 1
    BY <1>2 DEF Await
  <2>2. target.cb \notin {"output_ready", "input_ready"}
    BY EventNames
  <2>3. /\ done' = [x \in DOMAIN done' |-> done'[x]]
        /\ DOMAIN done' = (Completed \ {e}) \cup C
        /\ \A x \in Completed \ {e} : x \notin C => done'[x] = done[x]
        /\ \A x \in F : done'[x] = d[x]
        /\ done'[target] = "ok"
    BY <2>1 DEF With
  <2>4. C \subseteq Added \cup ToSet(added) /\ \A x \in C : x.cb \notin {"output_ready", "input_ready"}
    BY <2>2
  <2>5. \A x \in C : done'[x] \in Results
    BY <2>3 DEF Results
  <2> HIDE DEF C
  <2>6. /\ LoopTypes' /\ Once'
        /\ e \in Ready /\ e \in Completed /\ done[e] = r /\ e \notin Added
        /\ Moved(e, ToSet(added), C)
    BY <2>1, <2>3, <2>4, <2>5, RunMoves
  <2>7. QED
    BY <1>2, <2>1, <2>3, <2>6 DEF C, Asked
<1>3. QED
  BY <1>1, <1>2

----------------------------------------------------------------------------
(* The conjuncts of Shape that a step leaves alone.                        *)

\* A step that neither links nor completes an event of the listening loop
\* leaves it where it is.
LEMMA ReaderKept ==
  ASSUME Reader, Position, UNCHANGED inputVars,
         \A x \in ReaderEvents : (x \in Linked' <=> x \in Linked) /\ (x \in Added' => x \in Added),
         \A x \in {HeaderParsed, NodeParsed, TokenRead} :
            /\ x \in Completed' <=> x \in Completed
            /\ x \in Completed => done'[x] = done[x]
  PROVE  Reader' /\ Position' /\ (Parsing' <=> Parsing)
<1>1. /\ HeaderParsed \in ReaderEvents /\ NodeParsed \in ReaderEvents /\ TokenRead \in ReaderEvents
      /\ \A x \in {HeaderParsed, TokenRead} : InputReady(x) \in ReaderEvents
  BY DEF ReaderEvents
<1>2. ReaderEvents \cap Linked' = ReaderEvents \cap Linked
  OBVIOUS
<1>3. Reader'
  BY <1>2 DEF Reader
<1>4. Parsing' <=> Parsing
  BY <1>1 DEF Parsing
<1>5. Position'
  BY <1>1, <1>4 DEF Position, Awaits, inputVars
<1>6. QED
  BY <1>3, <1>4, <1>5

\* A step that takes nothing from a message and writes nothing leaves the
\* order of its events as it is.
LEMMA ChainsKept ==
  ASSUME Chains, UNCHANGED <<outcome, response_events, written>>,
         NEW e, NEW A, NEW C, Moved(e, A, C), Once,
         \A m \in Outgoing : {OutputReady(m), Sent(m), Finish(m)} \cap (A \cup {e}) = {},
         \A m \in Outgoing : OutputReady(m) \notin C /\ Sent(m) \notin C,
         \A m \in Outgoing : Finish(m) \in C => Sent(m) \notin Linked
  PROVE  Chains'
<1>1. /\ Linked = Added \cup Ready /\ Linked' = Added' \cup Ready'
      /\ Ready \subseteq Completed
  BY DEF Linked, Added, Ready, Once
<1>2. SUFFICES ASSUME NEW m \in Outgoing
               PROVE  /\ outcome[m] = "none" =>
                            {OutputReady(m), Sent(m), Finish(m)} \cap Linked' = {}
                      /\ OutputReady(m) \in Linked' => Awaits(Sent(m))'
                      /\ Sent(m) \in Linked' => Awaits(Finish(m))'
  <2>1. UNCHANGED <<outcome, response_events, written>>
    OBVIOUS
  <2>2. /\ \A m \in Outgoing : OutputReady(m) \in Linked' => OutputReady(m) \in Linked
        /\ \A m \in Outgoing : Sent(m) \in Linked' => Sent(m) \in Linked
    BY <1>1 DEF Moved
  <2>3. QED
    BY <1>2, <2>1, <2>2 DEF Chains
<1>3. \A x \in {OutputReady(m), Sent(m), Finish(m)} :
         /\ x # e /\ x \notin A
         /\ x \in Linked' <=> x \in Linked
         /\ x \in Added' <=> x \in Added
  BY <1>1 DEF Moved
<1>4. Awaits(Sent(m)) => Awaits(Sent(m))'
  BY <1>3 DEF Moved, Awaits
<1>5. Sent(m) \in Linked /\ Awaits(Finish(m)) => Awaits(Finish(m))'
  BY <1>3 DEF Moved, Awaits
<1>6. QED
  BY <1>3, <1>4, <1>5 DEF Chains

\* The callback of a message moves nothing of the listening loop.
LEMMA MessageKeeps ==
  ASSUME Shape, NEW m \in Outgoing, NEW e \in {OutputReady(m), Sent(m), Finish(m)}, e \in Ready,
         NEW C, C \subseteq {Sent(m), Finish(m)}, Moved(e, {}, C),
         UNCHANGED <<inputVars, wire, outbox, closed>>, owed' = owed \ {e}
  PROVE  Reader' /\ Position' /\ (Parsing' <=> Parsing) /\ Frames' /\ Apart'
<1>1. /\ Linked = Added \cup Ready /\ Linked' = Added' \cup Ready'
      /\ Added \cap Ready = {} /\ e \notin Added
  BY DEF Linked, Added, Ready, Shape, Once
<1>2. \A x \in ReaderEvents : x # e /\ x \notin C
  BY EventNames DEF ReaderEvents
<1>3. Reader' /\ Position' /\ (Parsing' <=> Parsing)
  <2>1. Reader /\ Position
    BY DEF Shape
  <2>2. HeaderParsed \in ReaderEvents /\ NodeParsed \in ReaderEvents /\ TokenRead \in ReaderEvents
    BY DEF ReaderEvents
  <2>3. /\ \A x \in ReaderEvents : (x \in Linked' <=> x \in Linked) /\ (x \in Added' => x \in Added)
        /\ \A x \in {HeaderParsed, NodeParsed, TokenRead} :
              /\ x \in Completed' <=> x \in Completed
              /\ x \in Completed => done'[x] = done[x]
    BY <1>1, <1>2, <2>2 DEF Moved
  <2>4. UNCHANGED inputVars
    OBVIOUS
  <2>5. QED
    BY <2>1, <2>3, <2>4, ReaderKept
<1>4. Frames'
  <2>1. UNCHANGED <<Stream, left, closed>>
    BY DEF Stream, inputVars
  <2>2. QED
    BY <2>1 DEF Shape, Frames
<1>5. Apart'
  <2>1. HeaderParsed \in ReaderEvents /\ NodeParsed \in ReaderEvents
    BY DEF ReaderEvents
  <2>2. SUFFICES ASSUME NEW f \in owed, f # e
                 PROVE  \/ f \in Ready' /\ NodeParsed \notin Ready'
                        \/ /\ f \in Added' /\ f \in Completed'
                           /\ NodeParsed \notin Linked' /\ HeaderParsed \notin Ready'
    BY DEF Shape, Apart
  <2>3. \/ f \in Ready /\ NodeParsed \notin Ready
        \/ /\ f \in Added /\ f \in Completed
           /\ NodeParsed \notin Linked /\ HeaderParsed \notin Ready
    BY DEF Shape, Apart
  <2>4. QED
    BY <1>1, <1>2, <2>1, <2>2, <2>3 DEF Moved
<1>6. QED
  BY <1>3, <1>4, <1>5

\* the descriptors of the output are not owed
LEMMA OutputIsNotOwed ==
  ASSUME Apart, NEW m
  PROVE  OutputReady(m) \notin owed
BY EventNames DEF Apart

----------------------------------------------------------------------------
(* The callbacks of a message.                                             *)

\* Its descriptor is ready: it is written, and the callback that follows is due.
LEMMA OutputReadyMoves ==
  ASSUME Shape, NEW m \in Outgoing, OnOutputReady(m)
  PROVE  /\ Shape'
         /\ OutputReady(m) \in Ready /\ Sent(m) \in Added
         /\ Moved(OutputReady(m), {}, {Sent(m)}) /\ (Parsing' <=> Parsing)
         /\ done'[Sent(m)] = IF closed THEN "failed" ELSE "ok"
<1> DEFINE e == OutputReady(m)
           v == IF closed THEN "failed" ELSE "ok"
<1>1. /\ Run(e, "ok") /\ UNCHANGED events /\ Complete(e, Sent(m), v)
      /\ written' = IF closed THEN written ELSE written \cup {m}
      /\ UNCHANGED <<inputVars, wire, outbox, closed, outcome, response_events, answers>>
      /\ owed' = owed
  BY DEF OnOutputReady, callVars, remoteVars
<1>2. e \in Linked
  BY <1>1 DEF Run, Linked, Shape, LoopTypes, ToSet
<1>3. Awaits(Sent(m)) /\ m \notin written
  BY <1>2 DEF Shape, Chains
<1>4. v \in Results /\ Sent(m).cb \notin {"output_ready", "input_ready"}
  BY EventNames DEF Results
<1>5. /\ LoopTypes' /\ Once'
      /\ e \in Ready /\ e \in Completed /\ e \notin Added
      /\ Moved(e, {}, {Sent(m)}) /\ done'[Sent(m)] = v
  <2>1. LoopTypes /\ Once
    BY DEF Shape
  <2> HIDE DEF e, v
  <2>2. QED
    BY <1>1, <1>3, <1>4, <2>1, CompleteMoves
<1>6. Reader' /\ Position' /\ (Parsing' <=> Parsing) /\ Frames' /\ Apart'
  <2>1. owed' = owed \ {e}
    BY <1>1, OutputIsNotOwed DEF Shape
  <2>2. QED
    BY <1>1, <1>5, <2>1, MessageKeeps
<1>7. DataTypes'
  BY <1>1 DEF Shape, DataTypes, inputVars
<1>8. Chains'
  <2> SUFFICES ASSUME NEW n \in Outgoing
               PROVE  /\ outcome[n] = "none" =>
                            /\ {OutputReady(n), Sent(n), Finish(n)} \cap Linked' = {}
                            /\ n \notin response_events /\ n \notin written'
                      /\ OutputReady(n) \in Linked' => Awaits(Sent(n))' /\ n \notin written'
                      /\ Sent(n) \in Linked' => Awaits(Finish(n))' /\ n \notin response_events
    BY <1>1 DEF Chains
  <2>1. /\ outcome[n] = "none" =>
              /\ {OutputReady(n), Sent(n), Finish(n)} \cap Linked = {}
              /\ n \notin response_events /\ n \notin written
        /\ OutputReady(n) \in Linked => Awaits(Sent(n)) /\ n \notin written
        /\ Sent(n) \in Linked => Awaits(Finish(n)) /\ n \notin response_events
    BY DEF Shape, Chains
  <2>2. /\ Linked = Added \cup Ready /\ Linked' = Added' \cup Ready' /\ Added \cap Ready = {}
    BY DEF Linked, Added, Ready, Shape, Once
  <2>4. written' \subseteq written \cup {m}
    BY <1>1
  <2>5. n # m => /\ OutputReady(n) # e /\ Sent(n) # Sent(m)
    BY EventNames
  <2>6. n # m /\ n \notin written => n \notin written'
    BY <2>4
  <2>7. Sent(n) # e /\ Finish(n) # e /\ Finish(n) # Sent(m)
    BY EventNames
  <2>8. Linked' = Linked \ {e} /\ Added' = Added
    BY <1>5, <2>2 DEF Moved
  <2>9. Awaits(Finish(n)) => Awaits(Finish(n))'
    BY <1>5, <2>7, <2>8 DEF Awaits, Moved
  <2>10. n # m /\ Awaits(Sent(n)) => Awaits(Sent(n))'
    BY <1>5, <2>5, <2>7, <2>8 DEF Awaits, Moved
  <2>11. CASE n = m
    BY <1>2, <2>1, <2>8, <2>9, <2>11
  <2>12. CASE n # m
    BY <2>1, <2>6, <2>8, <2>9, <2>10, <2>12
  <2>13. QED
    BY <2>11, <2>12
<1>9. QED
  BY <1>3, <1>5, <1>6, <1>7, <1>8 DEF Shape, Awaits

\* What the callbacks of a sent message do to the events of the messages.
LEMMA SentChains ==
  ASSUME Shape, NEW m \in Outgoing, Sent(m) \in Ready,
         NEW C, C \subseteq {Finish(m)}, Moved(Sent(m), {}, C),
         UNCHANGED <<outcome, written>>, response_events' \subseteq response_events \cup {m}
  PROVE  Chains'
<1> DEFINE e == Sent(m)
<1>1. /\ Linked = Added \cup Ready /\ Linked' = Added' \cup Ready' /\ Added \cap Ready = {}
      /\ Ready \subseteq Completed
  BY DEF Linked, Added, Ready, Shape, Once
<1>2. Linked' = Linked \ {e} /\ Added' = Added /\ e \notin Added
  BY <1>1 DEF Moved
<1> SUFFICES ASSUME NEW n \in Outgoing
             PROVE  /\ outcome[n] = "none" =>
                          /\ {OutputReady(n), Sent(n), Finish(n)} \cap Linked' = {}
                          /\ n \notin response_events' /\ n \notin written
                    /\ OutputReady(n) \in Linked' => Awaits(Sent(n))' /\ n \notin written
                    /\ Sent(n) \in Linked' => Awaits(Finish(n))' /\ n \notin response_events'
  BY DEF Chains
<1>3. /\ outcome[n] = "none" =>
            /\ {OutputReady(n), Sent(n), Finish(n)} \cap Linked = {}
            /\ n \notin response_events /\ n \notin written
      /\ OutputReady(n) \in Linked => Awaits(Sent(n)) /\ n \notin written
      /\ Sent(n) \in Linked => Awaits(Finish(n)) /\ n \notin response_events
  BY DEF Shape, Chains
<1>4. CASE n = m
  <2>1. e \in Linked /\ ~Awaits(e)
    BY <1>1 DEF Awaits
  <2>2. OutputReady(m) \notin Linked /\ outcome[m] # "none"
    BY <1>3, <1>4, <2>1
  <2>3. QED
    BY <1>2, <1>4, <2>2
<1>5. CASE n # m
  <2>1. Sent(n) # e /\ Sent(n) \notin C /\ Finish(n) \notin C /\ Finish(n) # e
    BY <1>5, EventNames
  <2>2. /\ Awaits(Sent(n)) => Awaits(Sent(n))'
        /\ Awaits(Finish(n)) => Awaits(Finish(n))'
    BY <1>2, <2>1 DEF Awaits, Moved
  <2>3. QED
    BY <1>2, <1>3, <1>5, <2>2
<1>6. QED
  BY <1>4, <1>5

\* The failure of a send, and a notification that was sent.
LEMMA SendEndedMoves ==
  ASSUME Shape, NEW m \in Outgoing, NEW r \in {"ok", "failed"}, OnSendEnded(m, r)
  PROVE  /\ Shape'
         /\ Sent(m) \in Ready /\ done[Sent(m)] = r /\ m \notin response_events
         /\ Moved(Sent(m), {}, {Finish(m)}) /\ (Parsing' <=> Parsing)
<1> DEFINE e == Sent(m)
<1>1. /\ Run(e, r) /\ UNCHANGED events /\ Complete(e, Finish(m), r)
      /\ UNCHANGED <<inputVars, wire, outbox, closed, outcome, response_events, answers, written>>
      /\ owed' = owed \ {e}
  BY DEF OnSendEnded, callVars, remoteVars
<1>2. e \in Linked
  BY <1>1 DEF Run, Linked, Shape, LoopTypes, ToSet
<1>3. Awaits(Finish(m)) /\ m \notin response_events
  BY <1>2 DEF Shape, Chains
<1>4. r \in Results /\ Finish(m).cb \notin {"output_ready", "input_ready"}
  BY EventNames DEF Results
<1>5. /\ LoopTypes' /\ Once'
      /\ e \in Ready /\ done[e] = r
      /\ Moved(e, {}, {Finish(m)})
  <2>1. LoopTypes /\ Once
    BY DEF Shape
  <2> HIDE DEF e
  <2>2. QED
    BY <1>1, <1>3, <1>4, <2>1, CompleteMoves
<1>6. Reader' /\ Position' /\ (Parsing' <=> Parsing) /\ Frames' /\ Apart'
  BY <1>1, <1>5, MessageKeeps
<1>7. DataTypes'
  BY <1>1 DEF Shape, DataTypes, inputVars
<1>8. Chains'
  BY <1>1, <1>5, SentChains
<1>9. QED
  BY <1>3, <1>5, <1>6, <1>7, <1>8 DEF Shape

\* A request was sent: its call is registered.
LEMMA SentMoves ==
  ASSUME Shape, NEW c \in Calls, OnSent(c)
  PROVE  /\ Shape'
         /\ Sent(c) \in Ready /\ done[Sent(c)] = "ok" /\ Awaits(Finish(c))
         /\ Moved(Sent(c), {}, {}) /\ (Parsing' <=> Parsing)
<1> DEFINE e == Sent(c)
<1>1. /\ Run(e, "ok") /\ UNCHANGED events /\ done' = Without(done, e)
      /\ UNCHANGED <<inputVars, wire, outbox, closed, outcome, answers, written>>
      /\ response_events' = response_events \cup {c}
      /\ owed' = owed \ {e}
      /\ c \in Outgoing
  BY DEF OnSent, remoteVars, Outgoing
<1>2. /\ LoopTypes' /\ Once'
      /\ e \in Ready /\ done[e] = "ok"
      /\ Moved(e, {}, {})
  <2>1. LoopTypes /\ Once
    BY DEF Shape
  <2> HIDE DEF e
  <2>2. QED
    BY <1>1, <2>1, PlainMoves
<1>3. Awaits(Finish(c))
  BY <1>1, <1>2 DEF Shape, Chains, Linked, Ready
<1>4. Reader' /\ Position' /\ (Parsing' <=> Parsing) /\ Frames' /\ Apart'
  BY <1>1, <1>2, MessageKeeps
<1>5. DataTypes'
  BY <1>1 DEF Shape, DataTypes, inputVars
<1>6. Chains'
  BY <1>1, <1>2, SentChains
<1>7. QED
  BY <1>2, <1>3, <1>4, <1>5, <1>6 DEF Shape

\* Its response was there before.
LEMMA SentLateMoves ==
  ASSUME Shape, NEW c \in Calls, OnSentLate(c)
  PROVE  /\ Shape'
         /\ Sent(c) \in Ready
         /\ Moved(Sent(c), {}, {Finish(c)}) /\ (Parsing' <=> Parsing)
<1> DEFINE e == Sent(c)
<1>1. /\ Run(e, "ok") /\ UNCHANGED events /\ Complete(e, Finish(c), "response")
      /\ UNCHANGED <<inputVars, wire, outbox, closed, outcome, response_events, answers, written>>
      /\ owed' = owed \ {e}
      /\ c \in Outgoing
  BY DEF OnSentLate, remoteVars, Outgoing
<1>2. e \in Linked
  BY <1>1 DEF Run, Linked, Shape, LoopTypes, ToSet
<1>3. Awaits(Finish(c))
  BY <1>1, <1>2 DEF Shape, Chains
<1>4. "response" \in Results /\ Finish(c).cb \notin {"output_ready", "input_ready"}
  BY EventNames DEF Results
<1>5. /\ LoopTypes' /\ Once'
      /\ e \in Ready
      /\ Moved(e, {}, {Finish(c)})
  <2>1. LoopTypes /\ Once
    BY DEF Shape
  <2> HIDE DEF e
  <2>2. QED
    BY <1>1, <1>3, <1>4, <2>1, CompleteMoves
<1>6. Reader' /\ Position' /\ (Parsing' <=> Parsing) /\ Frames' /\ Apart'
  BY <1>1, <1>5, MessageKeeps
<1>7. DataTypes'
  BY <1>1 DEF Shape, DataTypes, inputVars
<1>8. Chains'
  BY <1>1, <1>5, SentChains
<1>9. QED
  BY <1>5, <1>6, <1>7, <1>8 DEF Shape

\* The caller's callback runs.
LEMMA FinishMoves ==
  ASSUME Shape, NEW m \in Outgoing, OnFinish(m)
  PROVE  /\ Shape'
         /\ Finish(m) \in Ready
         /\ Moved(Finish(m), {}, {}) /\ (Parsing' <=> Parsing)
<1> DEFINE e == Finish(m)
<1>1. /\ Run(e, done[e]) /\ UNCHANGED events /\ done' = Without(done, e)
      /\ UNCHANGED <<inputVars, wire, outbox, closed, response_events, answers, written>>
      /\ outcome' = [outcome EXCEPT ![m] = done[e]]
      /\ owed' = owed \ {e}
  BY DEF OnFinish, remoteVars
<1>2. /\ LoopTypes' /\ Once'
      /\ e \in Ready /\ e \in Completed
      /\ Moved(e, {}, {})
  <2>1. LoopTypes /\ Once
    BY DEF Shape
  <2> HIDE DEF e
  <2>2. QED
    BY <1>1, <2>1, PlainMoves
<1>3. Reader' /\ Position' /\ (Parsing' <=> Parsing) /\ Frames' /\ Apart'
  BY <1>1, <1>2, MessageKeeps
<1>4. done[e] \in Results /\ outcome \in [Outgoing -> {"none", "pending"} \cup Results]
  BY <1>2 DEF Shape, LoopTypes, DataTypes
<1>5. DataTypes'
  BY <1>1, <1>4 DEF Shape, DataTypes, inputVars
<1>6. Chains'
  <2>1. /\ Linked = Added \cup Ready /\ Linked' = Added' \cup Ready' /\ Added \cap Ready = {}
        /\ Ready \subseteq Completed
    BY DEF Linked, Added, Ready, Shape, Once
  <2>2. Linked' = Linked \ {e} /\ Added' = Added /\ e \notin Added
    BY <1>2, <2>1 DEF Moved
  <2>3. \A n \in Outgoing : outcome'[n] = "none" => outcome[n] = "none"
    BY <1>1, <1>4 DEF Results
  <2>4. /\ \A x : Awaits(x) => Awaits(x)'
    BY <1>2, <2>2 DEF Awaits, Moved
  <2>5. QED
    BY <1>1, <2>2, <2>3, <2>4 DEF Shape, Chains
<1>7. QED
  BY <1>2, <1>3, <1>5, <1>6 DEF Shape

----------------------------------------------------------------------------
(* The items of the remote.                                                *)

\* A token is not a header.
LEMMA TokenIsNoHeader ==
  /\ NoId \notin Headers
  /\ Headers \subseteq Items /\ NoId \in Items
  /\ Tokens \in Nat /\ Tokens > 0
BY NoIdAssumption, TokensAssumption DEF Headers, Items

\* Reading an item does not change how the messages behind it are made up.
LEMMA RestIsFramed ==
  ASSUME NEW s \in Seq(Items), s # <<>>, NEW l \in Nat, Framed(s, l),
         NEW i \in 1 .. Len(Tail(s)), Tail(s)[i] \in Headers
  PROVE  /\ \A j \in 1 .. Len(Tail(s)) : i < j /\ j <= i + Tokens => Tail(s)[j] = NoId
         /\ i + Tokens + 1 <= Len(Tail(s)) => Tail(s)[i + Tokens + 1] \in Headers
         /\ Whole(s, l) => i + Tokens <= Len(Tail(s))
<1> DEFINE t == Tail(s)
<1>1. /\ Len(s) \in Nat /\ Len(s) > 0
      /\ t \in Seq(Items) /\ Len(t) = Len(s) - 1
      /\ \A k \in 1 .. Len(t) : t[k] = s[k + 1] /\ k + 1 \in 1 .. Len(s)
      /\ i \in 1 .. Len(t) /\ t[i] \in Headers
  OBVIOUS
<1> HIDE DEF t
<1>2. Tokens \in Nat
  BY TokenIsNoHeader
<1>3. i + 1 \in 1 .. Len(s) /\ s[i + 1] \in Headers
  BY <1>1
<1>4. ASSUME NEW j \in 1 .. Len(t), i < j, j <= i + Tokens
      PROVE  t[j] = NoId
  <2>1. j + 1 \in 1 .. Len(s) /\ i + 1 < j + 1 /\ j + 1 <= (i + 1) + Tokens
    BY <1>1, <1>2, <1>4
  <2>2. QED
    BY <1>1, <1>3, <2>1 DEF Framed
<1>5. ASSUME i + Tokens + 1 <= Len(t)
      PROVE  t[i + Tokens + 1] \in Headers
  <2>1. (i + 1) + Tokens + 1 <= Len(s) /\ i + Tokens + 1 \in 1 .. Len(t)
    BY <1>1, <1>2, <1>5
  <2>2. s[(i + 1) + Tokens + 1] \in Headers
    BY <1>3, <2>1 DEF Framed
  <2>3. t[i + Tokens + 1] = s[(i + Tokens + 1) + 1] /\ (i + Tokens + 1) + 1 = (i + 1) + Tokens + 1
    BY <1>1, <1>2, <2>1
  <2>4. QED
    BY <2>2, <2>3
<1>6. ASSUME Whole(s, l)
      PROVE  i + Tokens <= Len(t)
  <2>1. (i + 1) + Tokens <= Len(s)
    BY <1>3, <1>6 DEF Whole
  <2>2. QED
    BY <1>1, <1>2, <2>1
<1>7. QED
  BY <1>4, <1>5, <1>6 DEF t

\* The item that is read when a message is due is its header,
LEMMA HeaderRead ==
  ASSUME NEW s \in Seq(Items), s # <<>>, Framed(s, 0)
  PROVE  /\ Head(s) \in Headers
         /\ Framed(Tail(s), Tokens)
         /\ Whole(s, 0) => Whole(Tail(s), Tokens)
<1> DEFINE t == Tail(s)
<1>1. /\ Len(s) \in Nat /\ Len(s) > 0 /\ Head(s) = s[1]
      /\ t \in Seq(Items) /\ Len(t) = Len(s) - 1
      /\ \A i \in 1 .. Len(t) : t[i] = s[i + 1]
      /\ 1 \in 1 .. Len(s)
  OBVIOUS
<1> HIDE DEF t
<1>2. s[1] \in Headers
  BY <1>1 DEF Framed
<1>3. \A i \in 1 .. Len(t) : i + 1 \in 1 .. Len(s)
  BY <1>1
<1>4. Tokens \in Nat
  BY TokenIsNoHeader
<1>5. \A i \in 1 .. Len(t) : i <= Tokens => t[i] = NoId
  <2> TAKE i \in 1 .. Len(t)
  <2>1. i <= Tokens => 1 < i + 1 /\ i + 1 <= 1 + Tokens
    BY <1>4
  <2>2. QED
    BY <1>1, <1>2, <1>3, <2>1 DEF Framed
<1>6. Len(t) > Tokens => t[Tokens + 1] \in Headers
  <2>1. SUFFICES ASSUME Len(t) > Tokens PROVE t[Tokens + 1] \in Headers
    OBVIOUS
  <2>2. 1 + Tokens + 1 <= Len(s) /\ Tokens + 1 \in 1 .. Len(t)
    BY <1>1, <1>4, <2>1
  <2>3. s[1 + Tokens + 1] \in Headers
    BY <1>1, <1>2, <2>2 DEF Framed
  <2>4. t[Tokens + 1] = s[(Tokens + 1) + 1] /\ (Tokens + 1) + 1 = 1 + Tokens + 1
    BY <1>1, <1>4, <2>2
  <2>5. QED
    BY <2>3, <2>4
<1>7. \A i \in 1 .. Len(t) : t[i] \in Headers =>
         /\ \A j \in 1 .. Len(t) : i < j /\ j <= i + Tokens => t[j] = NoId
         /\ i + Tokens + 1 <= Len(t) => t[i + Tokens + 1] \in Headers
         /\ Whole(s, 0) => i + Tokens <= Len(t)
  BY RestIsFramed DEF t
<1>8. Framed(t, Tokens)
  BY <1>5, <1>6, <1>7 DEF Framed
<1>9. ASSUME Whole(s, 0)
      PROVE  Whole(t, Tokens)
  <2>1. Tokens <= Len(t)
    BY <1>1, <1>2, <1>4, <1>9 DEF Whole
  <2>2. QED
    BY <1>7, <1>9, <2>1 DEF Whole
<1>10. QED
  BY <1>1, <1>2, <1>8, <1>9 DEF t

\* and the one that is read when l tokens are due is a token.
LEMMA TokenIsRead ==
  ASSUME NEW s \in Seq(Items), s # <<>>, NEW l \in Nat, l > 0, Framed(s, l)
  PROVE  /\ Head(s) = NoId
         /\ Framed(Tail(s), l - 1)
         /\ Whole(s, l) => Whole(Tail(s), l - 1)
<1> DEFINE t == Tail(s)
<1>1. /\ Len(s) \in Nat /\ Len(s) > 0 /\ Head(s) = s[1]
      /\ t \in Seq(Items) /\ Len(t) = Len(s) - 1
      /\ \A i \in 1 .. Len(t) : t[i] = s[i + 1]
      /\ 1 \in 1 .. Len(s)
  OBVIOUS
<1> HIDE DEF t
<1>2. s[1] = NoId
  BY <1>1 DEF Framed
<1>3. \A i \in 1 .. Len(t) : i + 1 \in 1 .. Len(s)
  BY <1>1
<1>4. Tokens \in Nat
  BY TokenIsNoHeader
<1>5. \A i \in 1 .. Len(t) : i <= l - 1 => t[i] = NoId
  <2> TAKE i \in 1 .. Len(t)
  <2>1. i <= l - 1 => i + 1 <= l
    OBVIOUS
  <2>2. QED
    BY <1>1, <1>3, <2>1 DEF Framed
<1>6. Len(t) > l - 1 => t[(l - 1) + 1] \in Headers
  <2>1. SUFFICES ASSUME Len(t) > l - 1 PROVE t[(l - 1) + 1] \in Headers
    OBVIOUS
  <2>2. Len(s) > l /\ (l - 1) + 1 \in 1 .. Len(t) /\ (l - 1) + 1 = l
    BY <1>1, <2>1
  <2>3. s[l + 1] \in Headers
    BY <2>2 DEF Framed
  <2>4. QED
    BY <1>1, <2>2, <2>3
<1>7. \A i \in 1 .. Len(t) : t[i] \in Headers =>
         /\ \A j \in 1 .. Len(t) : i < j /\ j <= i + Tokens => t[j] = NoId
         /\ i + Tokens + 1 <= Len(t) => t[i + Tokens + 1] \in Headers
         /\ Whole(s, l) => i + Tokens <= Len(t)
  BY RestIsFramed DEF t
<1>8. Framed(t, l - 1)
  BY <1>5, <1>6, <1>7 DEF Framed
<1>9. ASSUME Whole(s, l)
      PROVE  Whole(t, l - 1)
  <2>1. l - 1 <= Len(t)
    BY <1>1, <1>9 DEF Whole
  <2>2. QED
    BY <1>7, <1>9, <2>1 DEF Whole
<1>10. QED
  BY <1>1, <1>2, <1>8, <1>9 DEF t

\* A message behind whole messages makes whole messages.
LEMMA MessageFramed ==
  ASSUME NEW s \in Seq(Items), NEW l \in Nat, Framed(s, l), Whole(s, l),
         NEW m \in Headers, NEW t \in Seq(Items),
         Len(t) = Len(s) + Tokens + 1,
         \A i \in 1 .. Len(s) : t[i] = s[i],
         t[Len(s) + 1] = m,
         \A i \in Len(s) + 2 .. Len(t) : t[i] = NoId
  PROVE  Framed(t, l) /\ Whole(t, l)
<1>1. /\ Len(s) \in Nat /\ Len(t) \in Nat /\ Tokens \in Nat
      /\ \A i \in 1 .. Len(t) : i \in 1 .. Len(s) \/ i = Len(s) + 1 \/ i \in Len(s) + 2 .. Len(t)
      /\ \A i \in 1 .. Len(s) : i \in 1 .. Len(t)
      /\ l <= Len(s)
  BY TokenIsNoHeader DEF Whole
<1>2. \A i \in 1 .. Len(t) : i <= l => t[i] = NoId
  <2>1. \A i \in 1 .. Len(t) : i <= l => i \in 1 .. Len(s)
    BY <1>1
  <2>2. QED
    BY <2>1 DEF Framed
<1>3. Len(t) > l => t[l + 1] \in Headers
  <2>1. CASE l < Len(s)
    <3>1. l + 1 \in 1 .. Len(s) /\ s[l + 1] \in Headers
      BY <1>1, <2>1 DEF Framed
    <3>2. QED
      BY <3>1
  <2>2. CASE l = Len(s)
    BY <2>2
  <2>3. QED
    BY <1>1, <2>1, <2>2
<1>4. ASSUME NEW i \in 1 .. Len(t), t[i] \in Headers
      PROVE  /\ \A j \in 1 .. Len(t) : i < j /\ j <= i + Tokens => t[j] = NoId
             /\ i + Tokens + 1 <= Len(t) => t[i + Tokens + 1] \in Headers
             /\ i + Tokens <= Len(t)
  <2>1. CASE i \in 1 .. Len(s)
    <3>1. /\ s[i] \in Headers
          /\ \A j \in 1 .. Len(s) : i < j /\ j <= i + Tokens => s[j] = NoId
          /\ i + Tokens + 1 <= Len(s) => s[i + Tokens + 1] \in Headers
          /\ i + Tokens <= Len(s)
      BY <1>4, <2>1 DEF Framed, Whole
    <3>2. \A j \in 1 .. Len(t) : i < j /\ j <= i + Tokens => j \in 1 .. Len(s)
      BY <1>1, <3>1
    <3>3. CASE i + Tokens + 1 <= Len(s)
      <4>1. i + Tokens + 1 \in 1 .. Len(s)
        BY <1>1, <2>1, <3>3
      <4>2. \A j \in 1 .. Len(t) : i < j /\ j <= i + Tokens => t[j] = NoId
        BY <3>1, <3>2
      <4>3. t[i + Tokens + 1] \in Headers
        BY <3>1, <3>3, <4>1
      <4>4. i + Tokens <= Len(t)
        <5>1. /\ Tokens \in Nat /\ Len(s) \in Nat /\ i \in Nat
              /\ Len(t) = Len(s) + Tokens + 1 /\ i + Tokens <= Len(s)
          BY <1>1, <2>1, <3>1
        <5>2. QED
          BY ONLY <5>1
      <4>5. QED
        BY <4>2, <4>3, <4>4
    <3>4. CASE i + Tokens = Len(s)
      <4>1. i + Tokens + 1 = Len(s) + 1 /\ i + Tokens <= Len(t)
        <5>1. /\ i \in Nat /\ Tokens \in Nat /\ Len(s) \in Nat
              /\ Len(t) = Len(s) + Tokens + 1
          BY <1>1, <2>1
        <5>2. QED
          BY ONLY <3>4, <5>1
      <4>2. \A j \in 1 .. Len(t) : i < j /\ j <= i + Tokens => t[j] = NoId
        BY <3>1, <3>2
      <4>3. t[i + Tokens + 1] \in Headers
        BY <4>1
      <4>4. QED
        BY <4>1, <4>2, <4>3
    <3>5. i + Tokens + 1 <= Len(s) \/ i + Tokens = Len(s)
      <4>1. /\ i \in Nat /\ Tokens \in Nat /\ Len(s) \in Nat
            /\ i + Tokens <= Len(s)
        BY <1>1, <2>1, <3>1
      <4>2. QED
        BY ONLY <4>1
    <3>6. QED
      BY <3>3, <3>4, <3>5
  <2>2. CASE i = Len(s) + 1
    <3>1. \A j \in 1 .. Len(t) : i < j => j \in Len(s) + 2 .. Len(t)
      BY <1>1, <2>2
    <3>2. ~(i + Tokens + 1 <= Len(t)) /\ i + Tokens <= Len(t)
      BY <1>1, <2>2
    <3>3. QED
      BY <3>1, <3>2
  <2>3. CASE i \in Len(s) + 2 .. Len(t)
    BY <1>4, <2>3, TokenIsNoHeader
  <2>4. QED
    BY <1>1, <2>1, <2>2, <2>3
<1>5. QED
  BY <1>1, <1>2, <1>3, <1>4 DEF Framed, Whole

\* What is cut off behind a message, or in it, leaves messages.
LEMMA CutIsFramed ==
  ASSUME NEW s \in Seq(Items), NEW t \in Seq(Items), NEW l \in Nat, Framed(s \o t, l)
  PROVE  Framed(s, l)
<1> DEFINE u == s \o t
<1>1. /\ Len(u) \in Nat /\ Len(s) \in Nat /\ Len(s) <= Len(u)
      /\ \A i \in 1 .. Len(s) : u[i] = s[i] /\ i \in 1 .. Len(u)
      /\ Tokens \in Nat
  BY TokenIsNoHeader
<1>2. Framed(u, l)
  OBVIOUS
<1> HIDE DEF u
<1>3. \A i \in 1 .. Len(s) : i <= l => s[i] = NoId
  BY <1>1, <1>2 DEF Framed
<1>4. Len(s) > l => s[l + 1] \in Headers
  <2>1. Len(s) > l => Len(u) > l /\ l + 1 \in 1 .. Len(s)
    BY <1>1
  <2>2. QED
    BY <1>1, <1>2, <2>1 DEF Framed
<1>5. ASSUME NEW i \in 1 .. Len(s), s[i] \in Headers
      PROVE  /\ \A j \in 1 .. Len(s) : i < j /\ j <= i + Tokens => s[j] = NoId
             /\ i + Tokens + 1 <= Len(s) => s[i + Tokens + 1] \in Headers
  <2>1. u[i] \in Headers /\ i \in 1 .. Len(u)
    BY <1>1, <1>5
  <2>2. \A j \in 1 .. Len(s) : i < j /\ j <= i + Tokens => s[j] = NoId
    BY <1>1, <1>2, <2>1 DEF Framed
  <2>3. i + Tokens + 1 <= Len(s) => i + Tokens + 1 <= Len(u) /\ i + Tokens + 1 \in 1 .. Len(s)
    BY <1>1
  <2>4. QED
    BY <1>1, <1>2, <2>1, <2>2, <2>3 DEF Framed
<1>6. QED
  BY <1>3, <1>4, <1>5 DEF Framed

----------------------------------------------------------------------------
(* What is under way from the remote.                                      *)

\* Lists of items are joined in any order,
LEMMA ItemsJoin ==
  \A a, b, c \in Seq(Items) : /\ a \o b \in Seq(Items)
                             /\ (a \o b) \o c = a \o (b \o c)
BY JoinAssociates, JoinElems

\* and begin with what the first of them begins with.
LEMMA ItemsBegin ==
  \A a, b \in Seq(Items) : a # <<>> =>
     /\ a \o b # <<>> /\ Head(a \o b) = Head(a) /\ Tail(a \o b) = Tail(a) \o b
     /\ Tail(a) \in Seq(Items)
<1> TAKE a, b \in Seq(Items)
<1>1. a # <<>> => Tail(a) \in Seq(Items)
  OBVIOUS
<1>2. QED
  BY <1>1, JoinBegins

\* It is a list of items, and what is buffered comes first.
LEMMA StreamTypes ==
  ASSUME DataTypes
  PROVE  /\ Stream \in Seq(Items)
         /\ Stream = buffer \o (wire \o outbox)
         /\ buffer = <<>> => Stream = wire \o outbox
<1>1. buffer \in Seq(Items) /\ wire \in Seq(Items) /\ outbox \in Seq(Items)
  BY DEF DataTypes
<1>2. Stream \in Seq(Items) /\ wire \o outbox \in Seq(Items)
  BY <1>1, JoinElems DEF Stream
<1>3. Stream = buffer \o (wire \o outbox)
  BY <1>1, JoinAssociates DEF Stream
<1>4. <<>> \o (wire \o outbox) = wire \o outbox
  BY <1>2
<1>5. QED
  BY <1>2, <1>3, <1>4

\* An item is consumed from the buffer,
LEMMA StreamConsumed ==
  ASSUME DataTypes, buffer # <<>>, buffer' = Tail(buffer), UNCHANGED <<wire, outbox>>
  PROVE  /\ Stream # <<>> /\ Head(Stream) = Head(buffer) /\ Stream' = Tail(Stream)
         /\ buffer' \in Seq(Items)
<1>1. buffer \in Seq(Items) /\ wire \in Seq(Items) /\ outbox \in Seq(Items)
  BY DEF DataTypes
<1>2. wire \o outbox \in Seq(Items)
  BY <1>1, JoinElems
<1>3. buffer' \in Seq(Items)
  BY <1>1
<1>4. Stream' = buffer' \o (wire \o outbox)
  BY <1>1, <1>3, ItemsJoin DEF Stream
<1>5. buffer' = Tail(buffer) /\ buffer # <<>>
  OBVIOUS
<1>6. Stream = buffer \o (wire \o outbox)
  BY StreamTypes
<1>7. QED
  BY <1>1, <1>2, <1>3, <1>4, <1>5, <1>6, ItemsBegin

\* or as the buffer is filled.
LEMMA StreamRead ==
  ASSUME DataTypes, buffer = <<>>, wire # <<>>, buffer' = Tail(wire), wire' = <<>>, UNCHANGED outbox
  PROVE  /\ Stream # <<>> /\ Head(Stream) = Head(wire) /\ Stream' = Tail(Stream)
         /\ buffer' \in Seq(Items)
<1>1. wire \in Seq(Items) /\ outbox \in Seq(Items)
  BY DEF DataTypes
<1>2. buffer' \in Seq(Items)
  BY <1>1
<1>3. buffer' \o wire' = buffer'
  BY <1>2
<1>4. Stream' = Tail(wire) \o outbox
  BY <1>3 DEF Stream
<1>5. Stream = wire \o outbox
  BY StreamTypes
<1>6. QED
  BY <1>1, <1>2, <1>4, <1>5, ItemsBegin

\* What is transmitted stays under way,
LEMMA StreamKept ==
  ASSUME DataTypes, outbox # <<>>, wire' = Append(wire, Head(outbox)), outbox' = Tail(outbox),
         UNCHANGED buffer
  PROVE  /\ Stream' = Stream
         /\ wire' \in Seq(Items) /\ outbox' \in Seq(Items)
<1>1. buffer \in Seq(Items) /\ wire \in Seq(Items) /\ outbox \in Seq(Items)
  BY DEF DataTypes
<1>2. wire' \in Seq(Items) /\ outbox' \in Seq(Items)
  BY <1>1
<1>3. wire' \o outbox' = wire \o outbox
  BY <1>1, MoveHead
<1>4. Stream' = buffer \o (wire' \o outbox')
  <2>1. Stream' = (buffer \o wire') \o outbox'
    BY DEF Stream
  <2>2. (buffer \o wire') \o outbox' = buffer \o (wire' \o outbox')
    BY ONLY <1>1, <1>2, ItemsJoin
  <2>3. QED
    BY <2>1, <2>2
<1>5. QED
  BY <1>2, <1>3, <1>4, StreamTypes

\* A message is its header and as many tokens as the node has.
LEMMA MessageItems ==
  ASSUME NEW m \in Headers
  PROVE  /\ <<m>> \in Seq(Items) /\ [i \in 1 .. Tokens |-> NoId] \in Seq(Items)
         /\ <<m>> \o [i \in 1 .. Tokens |-> NoId] \in Seq(Items)
         /\ Len(<<m>> \o [i \in 1 .. Tokens |-> NoId]) = Tokens + 1
         /\ (<<m>> \o [i \in 1 .. Tokens |-> NoId])[1] = m
         /\ \A i \in 2 .. Tokens + 1 : (<<m>> \o [j \in 1 .. Tokens |-> NoId])[i] = NoId
<1> DEFINE h == <<m>>
           t == [i \in 1 .. Tokens |-> NoId]
           u == h \o t
<1>1. m \in Items /\ NoId \in Items /\ Tokens \in Nat
  BY TokenIsNoHeader
<1>2. h \in Seq(Items) /\ Len(h) = 1 /\ h[1] = m
  BY <1>1
<1>3. t \in Seq(Items) /\ Len(t) = Tokens
  BY <1>1
<1>4. \A i \in 1 .. Tokens : t[i] = NoId
  OBVIOUS
<1> HIDE DEF h, t
<1>5. /\ u \in Seq(Items) /\ Len(u) = 1 + Tokens
      /\ \A i \in 1 .. 1 : u[i] = h[i]
      /\ \A i \in 2 .. Len(u) : u[i] = t[i - 1]
  <2>1. /\ u \in Seq(Items) /\ Len(u) = Len(h) + Len(t)
        /\ \A i \in 1 .. Len(h) : u[i] = h[i]
        /\ \A i \in Len(h) + 1 .. Len(u) : u[i] = t[i - Len(h)]
    BY ONLY <1>2, <1>3, JoinPlaces
  <2>2. QED
    BY <1>1, <1>2, <1>3, <2>1
<1>6. u[1] = m
  BY <1>2, <1>5
<1>7. \A i \in 2 .. Tokens + 1 : u[i] = t[i - 1] /\ i - 1 \in 1 .. Tokens
  BY <1>1, <1>5
<1> HIDE DEF u
<1>8. /\ Len(u) = Tokens + 1 /\ \A i \in 2 .. Tokens + 1 : u[i] = NoId
  BY <1>1, <1>4, <1>5, <1>7
<1>9. QED
  BY <1>2, <1>3, <1>5, <1>6, <1>8 DEF u, h, t

\* and what is sent comes last.
LEMMA StreamSent ==
  ASSUME DataTypes, NEW m \in Headers, Send(m), UNCHANGED <<buffer, wire>>
  PROVE  /\ outbox' \in Seq(Items) /\ Stream' \in Seq(Items)
         /\ Len(Stream') = Len(Stream) + Tokens + 1
         /\ \A i \in 1 .. Len(Stream) : Stream'[i] = Stream[i]
         /\ Stream'[Len(Stream) + 1] = m
         /\ \A i \in Len(Stream) + 2 .. Len(Stream') : Stream'[i] = NoId
<1> DEFINE head == <<m>>
           tail == [i \in 1 .. Tokens |-> NoId]
           message == head \o tail
<1>1. buffer \in Seq(Items) /\ wire \in Seq(Items) /\ outbox \in Seq(Items)
  BY DEF DataTypes
<1>2. /\ head \in Seq(Items) /\ tail \in Seq(Items) /\ message \in Seq(Items)
      /\ Len(message) = Tokens + 1 /\ message[1] = m
      /\ \A i \in 2 .. Tokens + 1 : message[i] = NoId
  BY MessageItems
<1>3. outbox' = (outbox \o head) \o tail
  BY DEF Send
<1> HIDE DEF head, tail
<1>4. outbox' = outbox \o message /\ outbox' \in Seq(Items)
  BY <1>1, <1>2, <1>3, ItemsJoin
<1> HIDE DEF message
<1>5. Stream \in Seq(Items) /\ Stream' = Stream \o message
  <2>1. Stream' = (buffer \o wire) \o (outbox \o message) /\ Stream = (buffer \o wire) \o outbox
    BY <1>4 DEF Stream
  <2>2. /\ buffer \o wire \in Seq(Items) /\ (buffer \o wire) \o outbox \in Seq(Items)
        /\ ((buffer \o wire) \o outbox) \o message = (buffer \o wire) \o (outbox \o message)
    <3>1. message \in Seq(Items)
      BY <1>2
    <3>2. buffer \o wire \in Seq(Items)
      BY ONLY <1>1, ItemsJoin
    <3>3. (buffer \o wire) \o outbox \in Seq(Items)
      BY ONLY <1>1, <3>2, ItemsJoin
    <3>4. ((buffer \o wire) \o outbox) \o message = (buffer \o wire) \o (outbox \o message)
      <4> DEFINE b == buffer \o wire
      <4>1. b \in Seq(Items) /\ outbox \in Seq(Items)
        BY <1>1, <3>2
      <4> HIDE DEF b
      <4>2. (b \o outbox) \o message = b \o (outbox \o message)
        BY ONLY <3>1, <4>1, ItemsJoin
      <4>3. QED
        BY <4>2 DEF b
    <3>5. QED
      BY <3>2, <3>3, <3>4
  <2>3. QED
    BY <2>1, <2>2
<1> DEFINE s == Stream
           t == Stream'
<1>6. s \in Seq(Items) /\ t = s \o message
  BY <1>5
<1> HIDE DEF s, t
<1>7. /\ t \in Seq(Items) /\ Len(s) \in Nat /\ Len(t) = Len(s) + (Tokens + 1)
      /\ \A i \in 1 .. Len(s) : t[i] = s[i]
      /\ \A i \in Len(s) + 1 .. Len(t) : t[i] = message[i - Len(s)]
  <2>1. message \in Seq(Items) /\ s \in Seq(Items)
    BY <1>2, <1>6
  <2>2. /\ s \o message \in Seq(Items)
        /\ Len(s) \in Nat /\ Len(message) \in Nat /\ Len(s \o message) = Len(s) + Len(message)
        /\ \A i \in 1 .. Len(s) : (s \o message)[i] = s[i]
        /\ \A i \in Len(s) + 1 .. Len(s \o message) : (s \o message)[i] = message[i - Len(s)]
    BY ONLY <2>1, JoinPlaces
  <2>3. t = s \o message /\ Len(message) = Tokens + 1
    BY <1>2, <1>6
  <2>4. QED
    BY ONLY <2>2, <2>3
<1>8. Tokens \in Nat
  BY TokenIsNoHeader
<1>9. t[Len(s) + 1] = m
  <2>1. Len(s) + 1 \in Len(s) + 1 .. Len(t) /\ (Len(s) + 1) - Len(s) = 1
    BY <1>7, <1>8
  <2>2. QED
    BY <1>2, <1>7, <2>1
<1>10. ASSUME NEW i \in Len(s) + 2 .. Len(t)
       PROVE  t[i] = NoId
  <2>1. i \in Len(s) + 1 .. Len(t) /\ i - Len(s) \in 2 .. Tokens + 1
    BY <1>7, <1>8
  <2>2. QED
    BY <1>2, <1>7, <2>1
<1>11. Len(t) = Len(s) + Tokens + 1
  BY <1>7, <1>8
<1>12. QED
  BY <1>4, <1>7, <1>9, <1>10, <1>11 DEF s, t

----------------------------------------------------------------------------
(* The callbacks of the listening loop.                                    *)

\* The callback that runs tells where the listening loop is.
LEMMA WhereItIs ==
  ASSUME Shape
  PROVE  /\ HeaderParsed \in Ready => ReaderEvents \cap Linked = {HeaderParsed}
         /\ NodeParsed \in Ready => ReaderEvents \cap Linked = {NodeParsed}
         /\ TokenRead \in Ready =>
               ReaderEvents \cap Linked = {NodeParsed, TokenRead} /\ NodeParsed \notin Completed
         /\ InputReady(HeaderParsed) \in Ready =>
               /\ ReaderEvents \cap Linked = {HeaderParsed, InputReady(HeaderParsed)}
               /\ HeaderParsed \notin Completed
         /\ InputReady(TokenRead) \in Ready =>
               /\ ReaderEvents \cap Linked = {NodeParsed, TokenRead, InputReady(TokenRead)}
               /\ NodeParsed \notin Completed /\ TokenRead \notin Completed
<1> DEFINE linked == ReaderEvents \cap Linked
<1>1. /\ Ready \subseteq Completed /\ Ready \subseteq Linked
  BY DEF Shape, Once, Linked, Ready
<1>2. /\ {HeaderParsed, NodeParsed, TokenRead, InputReady(HeaderParsed), InputReady(TokenRead)} = ReaderEvents
  BY DEF ReaderEvents
<1>3. /\ HeaderParsed # NodeParsed /\ HeaderParsed # TokenRead /\ NodeParsed # TokenRead
      /\ InputReady(HeaderParsed) # InputReady(TokenRead)
      /\ \A x : InputReady(x) # HeaderParsed /\ InputReady(x) # NodeParsed /\ InputReady(x) # TokenRead
  BY EventNames
<1>4. \/ linked = {}
      \/ linked = {HeaderParsed, InputReady(HeaderParsed)} /\ HeaderParsed \notin Completed
      \/ linked = {HeaderParsed} /\ HeaderParsed \in Completed
      \/ /\ linked = {NodeParsed, TokenRead, InputReady(TokenRead)}
         /\ NodeParsed \notin Completed /\ TokenRead \notin Completed
      \/ linked = {NodeParsed, TokenRead} /\ TokenRead \in Completed /\ NodeParsed \notin Completed
      \/ linked = {NodeParsed} /\ NodeParsed \in Completed
  BY DEF Shape, Reader
<1>5. \A x \in ReaderEvents \cap Ready : x \in linked /\ x \in Completed
  BY <1>1
<1> HIDE DEF linked
<1>6. HeaderParsed \in Ready => linked = {HeaderParsed}
  BY <1>2, <1>3, <1>4, <1>5
<1>7. NodeParsed \in Ready => linked = {NodeParsed}
  BY <1>2, <1>3, <1>4, <1>5
<1>8. TokenRead \in Ready => linked = {NodeParsed, TokenRead} /\ NodeParsed \notin Completed
  BY <1>2, <1>3, <1>4, <1>5
<1>9. InputReady(HeaderParsed) \in Ready =>
         linked = {HeaderParsed, InputReady(HeaderParsed)} /\ HeaderParsed \notin Completed
  BY <1>2, <1>3, <1>4, <1>5
<1>10. InputReady(TokenRead) \in Ready =>
         /\ linked = {NodeParsed, TokenRead, InputReady(TokenRead)}
         /\ NodeParsed \notin Completed /\ TokenRead \notin Completed
  BY <1>2, <1>3, <1>4, <1>5
<1>11. QED
  BY <1>6, <1>7, <1>8, <1>9, <1>10 DEF linked

\* The next item is consumed for the event target.
Consumed(target) ==
    /\ Stream # <<>> /\ Stream' = Tail(Stream)
    /\ parsed' = IF target = HeaderParsed THEN Head(Stream) ELSE parsed
    /\ left' = IF target = HeaderParsed THEN Tokens ELSE left - 1

\* Then messages are still what is under way, and a header has been read
\* when one was due.
LEMMA ConsumedFrames ==
  ASSUME DataTypes, Frames, NEW target, Consumed(target), UNCHANGED closed,
         target = HeaderParsed => left = 0, target # HeaderParsed => left > 0
  PROVE  /\ Frames' /\ left' \in Nat
         /\ target = HeaderParsed => parsed' \in Headers
<1>1. Stream \in Seq(Items) /\ Stream # <<>> /\ left \in Nat /\ Tokens \in Nat
  BY StreamTypes, TokenIsNoHeader DEF Consumed, DataTypes
<1>2. Framed(Stream, left) /\ (~closed => Whole(Stream, left))
  BY DEF Frames
<1>3. CASE target = HeaderParsed
  <2>1. Framed(Stream, 0) /\ (~closed => Whole(Stream, 0))
    BY <1>2, <1>3
  <2>2. /\ Head(Stream) \in Headers /\ Framed(Tail(Stream), Tokens)
        /\ ~closed => Whole(Tail(Stream), Tokens)
    BY <1>1, <2>1, HeaderRead
  <2>3. QED
    BY <1>1, <1>3, <2>2 DEF Consumed, Frames
<1>4. CASE target # HeaderParsed
  <2>1. left - 1 \in Nat
    BY <1>1, <1>4
  <2>2. /\ Framed(Tail(Stream), left - 1)
        /\ ~closed => Whole(Tail(Stream), left - 1)
    BY <1>1, <1>2, <1>4, TokenIsRead
  <2>3. QED
    BY <1>4, <2>1, <2>2 DEF Consumed, Frames
<1>5. QED
  BY <1>3, <1>4

\* the events that are linked while target is awaited
Base(target) == IF target = HeaderParsed THEN {HeaderParsed} ELSE {NodeParsed, TokenRead}

\* A callback that asks for the next item leaves the loop at one place.
LEMMA AskedReader ==
  ASSUME Shape, NEW target \in {HeaderParsed, TokenRead}, NEW e, e \in Ready,
         NEW A, ReaderEvents \cap ((Linked \ {e}) \cup A) = Base(target),
         \A x \in Base(target) : x \in Completed => x = e,
         NEW F, F \cap ReaderEvents = {},
         target = HeaderParsed => left = 0,
         target = TokenRead => left > 0 /\ parsed \in Headers,
         UNCHANGED <<wire, outbox, closed>>,
         Asked(e, A, F, target)
  PROVE  /\ Reader' /\ Position' /\ Frames'
         /\ buffer' \in Seq(Items) /\ left' \in Nat
         /\ \/ Stream' = Stream /\ parsed' = parsed /\ (Parsing' <=> target = TokenRead)
            \/ Consumed(target) /\ Parsing'
<1>1. /\ ReaderEvents = {HeaderParsed, NodeParsed, TokenRead, InputReady(HeaderParsed), InputReady(TokenRead)}
      /\ HeaderParsed # NodeParsed /\ HeaderParsed # TokenRead /\ NodeParsed # TokenRead
      /\ InputReady(HeaderParsed) # InputReady(TokenRead)
      /\ \A x : InputReady(x) # HeaderParsed /\ InputReady(x) # NodeParsed /\ InputReady(x) # TokenRead
  BY EventNames DEF ReaderEvents
<1>2. /\ Linked = Added \cup Ready /\ Linked' = Added' \cup Ready' /\ Added \cap Ready = {}
      /\ Ready \subseteq Completed /\ Completed \subseteq Linked
      /\ e \notin Added
  BY DEF Linked, Added, Ready, Shape, Once
<1>3. DataTypes /\ Frames /\ left \in Nat
  BY DEF Shape, DataTypes
<1>4. target = HeaderParsed \/ (target = TokenRead /\ target # HeaderParsed)
  BY <1>1
<1>5. CASE buffer = <<>>
  <2>1. Moved(e, A \cup {InputReady(target)}, F) /\ UNCHANGED inputVars
    BY <1>5 DEF Asked
  <2>2. Linked' = (Linked \ {e}) \cup A \cup {InputReady(target)}
    BY <1>2, <2>1 DEF Moved
  <2>3. ReaderEvents \cap Linked' = Base(target) \cup {InputReady(target)}
    BY <1>1, <2>2
  <2>4. \A x \in Base(target) : x \notin Completed'
    <3>1. \A x \in Base(target) : x \in ReaderEvents
      BY <1>1 DEF Base
    <3>2. QED
      BY <2>1, <3>1 DEF Moved
  <2>5. Reader'
    BY <1>1, <1>4, <2>3, <2>4 DEF Reader, Base
  <2>6. Parsing' <=> target = TokenRead
    <3>1. CASE target = HeaderParsed
      <4>1. HeaderParsed \notin Completed' /\ NodeParsed \notin Linked'
        BY <1>1, <2>3, <2>4, <3>1 DEF Base
      <4>2. QED
        BY <1>1, <3>1, <4>1 DEF Parsing
    <3>2. CASE target = TokenRead
      <4>1. NodeParsed \in Linked'
        BY <1>1, <2>3, <3>2 DEF Base
      <4>2. QED
        BY <3>2, <4>1 DEF Parsing
    <3>3. QED
      BY <3>1, <3>2
  <2>7. Position'
    <3>1. CASE target = HeaderParsed
      <4>1. /\ HeaderParsed \notin Completed' /\ NodeParsed \notin Linked'
            /\ InputReady(TokenRead) \notin Linked' /\ ~Parsing'
        BY <1>1, <2>3, <2>4, <2>6, <3>1 DEF Base
      <4>2. NodeParsed \notin Completed'
        <5>1. NodeParsed \notin (Linked \ {e}) /\ NodeParsed \notin F
          BY <1>1, <3>1 DEF Base
        <5>2. QED
          BY <1>2, <2>1, <5>1 DEF Moved
      <4>3. UNCHANGED <<left, buffer>>
        BY <2>1 DEF inputVars
      <4>4. QED
        BY <1>5, <3>1, <4>1, <4>2, <4>3 DEF Position
    <3>2. CASE target = TokenRead
      <4>1. /\ HeaderParsed \notin Linked' /\ NodeParsed \notin Completed'
        BY <1>1, <2>3, <2>4, <3>2 DEF Base
      <4>2. HeaderParsed \notin Completed'
        <5>1. HeaderParsed \notin (Linked \ {e}) /\ HeaderParsed \notin F
          BY <1>1, <3>2 DEF Base
        <5>2. QED
          BY <1>2, <2>1, <5>1 DEF Moved
      <4>3. UNCHANGED <<left, buffer, parsed>>
        BY <2>1 DEF inputVars
      <4>4. ~Awaits(HeaderParsed)'
        BY <1>2, <4>1 DEF Awaits
      <4>5. QED
        BY <1>5, <3>2, <4>1, <4>2, <4>3, <4>4 DEF Position
    <3>3. QED
      BY <3>1, <3>2
  <2>8. Stream' = Stream /\ parsed' = parsed /\ left' = left /\ buffer' = buffer
    BY <2>1 DEF Stream, inputVars
  <2>9. Frames' /\ buffer' \in Seq(Items) /\ left' \in Nat
    BY <1>3, <2>8 DEF Frames, DataTypes
  <2>10. QED
    BY <2>5, <2>6, <2>7, <2>8, <2>9
<1>6. CASE buffer # <<>>
  <2>1. /\ Moved(e, A, F \cup {target}) /\ done'[target] = "ok"
        /\ buffer' = Tail(buffer)
        /\ parsed' = IF target = HeaderParsed THEN Head(buffer) ELSE parsed
        /\ left' = IF target = HeaderParsed THEN Tokens ELSE left - 1
    BY <1>6 DEF Asked
  <2>2. Linked' = (Linked \ {e}) \cup A
    BY <1>2, <2>1 DEF Moved
  <2>3. ReaderEvents \cap Linked' = Base(target)
    BY <2>2
  <2>4. target \in Completed' /\ \A x \in Base(target) : x # target => x \notin Completed'
    <3>1. \A x \in Base(target) : x \in ReaderEvents
      BY <1>1 DEF Base
    <3>2. QED
      BY <2>1, <3>1 DEF Moved
  <2>5. Reader'
    BY <1>1, <1>4, <2>3, <2>4 DEF Reader, Base
  <2>6. Consumed(target) /\ buffer' \in Seq(Items)
    <3>1. /\ Stream # <<>> /\ Head(Stream) = Head(buffer) /\ Stream' = Tail(Stream)
          /\ buffer' \in Seq(Items)
      BY <1>3, <1>6, <2>1, StreamConsumed
    <3>2. QED
      BY <2>1, <3>1 DEF Consumed
  <2>7. /\ Frames' /\ left' \in Nat
        /\ target = HeaderParsed => parsed' \in Headers
    BY <1>3, <1>4, <2>6, ConsumedFrames
  <2>8. Parsing' /\ parsed' \in Headers
    <3>1. CASE target = HeaderParsed
      BY <2>1, <2>4, <2>7, <3>1 DEF Parsing
    <3>2. CASE target = TokenRead
      <4>1. NodeParsed \in Linked'
        BY <1>1, <2>3, <3>2 DEF Base
      <4>2. QED
        BY <1>1, <2>1, <3>2, <4>1 DEF Parsing
    <3>3. QED
      BY <3>1, <3>2
  <2>9. Position'
    <3>1. \A x : InputReady(x) \in ReaderEvents => InputReady(x) \notin Linked'
      BY <1>1, <2>3 DEF Base
    <3>2. InputReady(HeaderParsed) \notin Linked' /\ InputReady(TokenRead) \notin Linked'
      BY <1>1, <3>1
    <3>3. CASE target = HeaderParsed
      <4>1. NodeParsed \notin Completed'
        <5>1. NodeParsed \notin (Linked \ {e}) /\ NodeParsed \notin F \cup {target}
          BY <1>1, <3>3 DEF Base
        <5>2. QED
          BY <1>2, <2>1, <5>1 DEF Moved
      <4>2. left' = Tokens /\ HeaderParsed \in Completed'
        BY <2>1, <2>4, <3>3
      <4>3. QED
        BY <2>8, <3>2, <4>1, <4>2 DEF Position, Awaits
    <3>4. CASE target = TokenRead
      <4>1. HeaderParsed \notin Completed' /\ HeaderParsed \notin Linked'
        <5>1. HeaderParsed \notin (Linked \ {e}) /\ HeaderParsed \notin F \cup {target}
          BY <1>1, <3>4 DEF Base
        <5>2. HeaderParsed \notin Linked'
          BY <1>1, <2>3, <3>4 DEF Base
        <5>3. QED
          BY <1>2, <2>1, <5>1, <5>2 DEF Moved
      <4>2. NodeParsed \notin Completed'
        BY <1>1, <2>4, <3>4 DEF Base
      <4>3. ~Awaits(HeaderParsed)'
        BY <1>2, <4>1 DEF Awaits
      <4>4. QED
        BY <2>8, <3>2, <4>1, <4>2, <4>3 DEF Position
    <3>5. QED
      BY <3>3, <3>4
  <2>10. QED
    BY <2>5, <2>6, <2>7, <2>8, <2>9
<1>7. QED
  BY <1>5, <1>6

\* Without an event of its own the listening loop has ended.
LEMMA ReaderEnded ==
  ASSUME Once', ReaderEvents \cap Linked' = {}
  PROVE  Reader' /\ Position' /\ ~Parsing'
<1>1. \A x \in ReaderEvents : x \notin Linked' /\ x \notin Completed' /\ x \notin Added'
  BY DEF Once, Linked, Added
<1>2. /\ HeaderParsed \in ReaderEvents /\ NodeParsed \in ReaderEvents /\ TokenRead \in ReaderEvents
      /\ InputReady(HeaderParsed) \in ReaderEvents /\ InputReady(TokenRead) \in ReaderEvents
  BY DEF ReaderEvents
<1>3. ~Parsing'
  BY <1>1, <1>2 DEF Parsing
<1>4. Position'
  BY <1>1, <1>2, <1>3 DEF Position, Awaits
<1>5. Reader'
  BY DEF Reader
<1>6. QED
  BY <1>3, <1>4, <1>5

\* The callbacks of the listening loop leave the events of a message alone,
\* except that the response of a call that waits for it completes the call.
LEMMA ReaderChains ==
  ASSUME Shape, UNCHANGED <<outcome, response_events, written>>,
         NEW e \in ReaderEvents \cup {Exited}, NEW A, A \subseteq ReaderEvents,
         NEW C, \A x \in C : \/ x \in ReaderEvents
                             \/ \E c \in Calls \cap response_events : x = Finish(c),
         Moved(e, A, C)
  PROVE  Chains'
<1>1. Chains /\ Once
  BY DEF Shape
<1>2. \A m : {OutputReady(m), Sent(m), Finish(m)} \cap (ReaderEvents \cup {Exited}) = {}
  BY EventNames DEF ReaderEvents
<1>3. \A m \in Outgoing : {OutputReady(m), Sent(m), Finish(m)} \cap (A \cup {e}) = {}
  BY <1>2
<1>4. \A m, n : OutputReady(m) # Finish(n) /\ Sent(m) # Finish(n) /\ (Finish(m) = Finish(n) => m = n)
  BY EventNames
<1>5. \A m \in Outgoing : OutputReady(m) \notin C /\ Sent(m) \notin C
  BY <1>2, <1>4
<1>6. \A m \in Outgoing : Finish(m) \in C => Sent(m) \notin Linked
  BY <1>1, <1>2, <1>4 DEF Chains
<1>7. UNCHANGED <<outcome, response_events, written>>
  OBVIOUS
<1>8. QED
  BY <1>1, <1>3, <1>5, <1>6, <1>7, ChainsKept

\* A read comes to its end: it consumes an item, or it fails.
LEMMA InputMoves ==
  ASSUME Shape, NEW target \in {HeaderParsed, TokenRead},
         OnInputReady(target) \/ OnInputFailed(target)
  PROVE  /\ Shape'
         /\ InputReady(target) \in Ready /\ target \in Added
         /\ Moved(InputReady(target), {}, {target})
         /\ \/ /\ done'[target] = "ok" /\ Consumed(target) /\ Parsing'
               /\ wire # <<>> /\ done[InputReady(target)] = "ok"
            \/ /\ done'[target] = "failed" /\ Stream' = Stream /\ parsed' = parsed
               /\ Parsing' <=> Parsing
               /\ done[InputReady(target)] = "failed"
<1> DEFINE e == InputReady(target)
           v == IF OnInputReady(target) THEN "ok" ELSE "failed"
<1>1. /\ Run(e, v) /\ UNCHANGED events /\ Complete(e, target, v)
      /\ UNCHANGED <<outbox, closed, response_events, answers, written, outcome, owed>>
      /\ v = "ok" => /\ wire # <<>> /\ buffer' = Tail(wire) /\ wire' = <<>>
                     /\ parsed' = IF target = HeaderParsed THEN Head(wire) ELSE parsed
                     /\ left' = IF target = HeaderParsed THEN Tokens ELSE left - 1
      /\ v = "failed" => UNCHANGED <<buffer, parsed, left, wire>>
  BY DEF OnInputReady, OnInputFailed, remoteVars, callVars, inputVars
<1>2. v \in {"ok", "failed"} /\ v \in Results
  BY DEF Results
<1> HIDE DEF v
<1>3. e \in Ready
  BY <1>1 DEF Run, Ready, Shape, LoopTypes, ToSet
<1>4. /\ LoopTypes /\ Once /\ DataTypes /\ Position /\ Frames
      /\ Linked = Added \cup Ready /\ Linked' = Added' \cup Ready' /\ Added \cap Ready = {}
      /\ Ready \subseteq Completed /\ Completed \subseteq Linked
  BY DEF Shape, Linked, Added, Ready, Once
<1>5. /\ ReaderEvents = {HeaderParsed, NodeParsed, TokenRead, InputReady(HeaderParsed), InputReady(TokenRead)}
      /\ HeaderParsed # NodeParsed /\ HeaderParsed # TokenRead /\ NodeParsed # TokenRead
      /\ InputReady(HeaderParsed) # InputReady(TokenRead)
      /\ \A x : InputReady(x) # HeaderParsed /\ InputReady(x) # NodeParsed /\ InputReady(x) # TokenRead
  BY EventNames DEF ReaderEvents
<1>6. /\ ReaderEvents \cap Linked = Base(target) \cup {e}
      /\ \A x \in Base(target) : x \notin Completed
  BY <1>3, <1>5, WhereItIs DEF Base
<1>7. Awaits(target)
  BY <1>4, <1>6 DEF Awaits, Base
<1>8. target.cb \notin {"output_ready", "input_ready"}
  BY EventNames
<1>9. /\ LoopTypes' /\ Once'
      /\ done[e] = v
      /\ Moved(e, {}, {target}) /\ done'[target] = v
  <2> HIDE DEF e
  <2>1. QED
    BY <1>1, <1>2, <1>4, <1>7, <1>8, CompleteMoves
<1>10. /\ ReaderEvents \cap Linked' = Base(target)
       /\ target \in Completed' /\ target \in Added
       /\ \A x \in Base(target) : x # target => x \notin Completed'
  <2>1. Linked' = Linked \ {e}
    BY <1>3, <1>4, <1>9 DEF Moved
  <2>2. e \notin Base(target)
    BY <1>5 DEF Base
  <2>3. ReaderEvents \cap Linked' = Base(target)
    BY <1>6, <2>1, <2>2
  <2>4. Completed' = (Completed \ {e}) \cup {target}
    BY <1>9 DEF Moved
  <2>5. QED
    BY <1>6, <1>7, <2>3, <2>4 DEF Awaits
<1>11. Reader'
  BY <1>5, <1>10 DEF Reader, Base
<1>12. /\ target = HeaderParsed => left = 0
       /\ target # HeaderParsed => left > 0
       /\ buffer = <<>>
       /\ Parsing <=> target = TokenRead
       /\ Parsing => parsed \in Headers
  <2>1. Parsing <=> target = TokenRead
    BY <1>4, <1>5, <1>6 DEF Parsing, Base
  <2>2. e \in Linked
    BY <1>3, <1>4
  <2>3. QED
    BY <1>4, <1>7, <2>1, <2>2 DEF Position
<1>13. NodeParsed \notin Completed' /\ InputReady(HeaderParsed) \notin Linked'
       /\ InputReady(TokenRead) \notin Linked' /\ ~Awaits(HeaderParsed)'
       /\ (HeaderParsed \in Completed' => target = HeaderParsed)
  <2>1. NodeParsed \notin Completed'
    BY <1>4, <1>5, <1>6, <1>9 DEF Moved, Base
  <2>2. InputReady(HeaderParsed) \notin Linked' /\ InputReady(TokenRead) \notin Linked'
    BY <1>5, <1>10 DEF Base
  <2>3. HeaderParsed \in Completed' => target = HeaderParsed
    BY <1>4, <1>5, <1>6, <1>9 DEF Moved, Base
  <2>4. ~Awaits(HeaderParsed)'
    <3>1. HeaderParsed \in Linked' => HeaderParsed \in Completed'
      BY <1>5, <1>10 DEF Base
    <3>2. QED
      BY <1>4, <3>1 DEF Awaits
  <2>5. QED
    BY <2>1, <2>2, <2>3, <2>4
<1>14. Chains'
  BY <1>1, <1>5, <1>9, ReaderChains
<1>15. Apart'
  <2>1. SUFFICES ASSUME NEW f \in owed
                 PROVE  \/ f \in Ready' /\ NodeParsed \notin Ready'
                        \/ /\ f \in Added' /\ f \in Completed'
                           /\ NodeParsed \notin Linked' /\ HeaderParsed \notin Ready'
    BY <1>1 DEF Shape, Apart
  <2>2. \/ f \in Ready /\ NodeParsed \notin Ready
        \/ /\ f \in Added /\ f \in Completed
           /\ NodeParsed \notin Linked /\ HeaderParsed \notin Ready
    BY DEF Shape, Apart
  <2>3. f # e
    BY EventNames DEF Shape, Apart
  <2>4. QED
    BY <1>4, <2>2, <2>3, <1>9 DEF Moved
<1>16. CASE v = "ok"
  <2>1. /\ Stream # <<>> /\ Head(Stream) = Head(wire) /\ Stream' = Tail(Stream)
        /\ buffer' \in Seq(Items)
    BY <1>1, <1>4, <1>12, <1>16, StreamRead
  <2>2. Consumed(target)
    BY <1>1, <1>16, <2>1 DEF Consumed
  <2>3. /\ Frames' /\ left' \in Nat
        /\ target = HeaderParsed => parsed' \in Headers
    BY <1>1, <1>4, <1>12, <2>2, ConsumedFrames
  <2>4. wire' \in Seq(Items)
    BY <1>1, <1>16, EmptyElems
  <2>5. DataTypes'
    BY <1>1, <1>4, <2>1, <2>3, <2>4 DEF DataTypes
  <2>6. Parsing' /\ parsed' \in Headers
    <3>1. CASE target = HeaderParsed
      BY <1>9, <1>10, <1>16, <2>3, <3>1 DEF Parsing
    <3>2. CASE target = TokenRead
      <4>1. NodeParsed \in Linked'
        BY <1>5, <1>10, <3>2 DEF Base
      <4>2. QED
        BY <1>1, <1>5, <1>12, <1>16, <3>2, <4>1 DEF Parsing
    <3>3. QED
      BY <3>1, <3>2
  <2>7. Position'
    BY <1>1, <1>13, <1>16, <2>6 DEF Position
  <2>8. QED
    BY <1>1, <1>3, <1>9, <1>10, <1>11, <1>14, <1>15, <1>16, <2>2, <2>3, <2>5, <2>6, <2>7 DEF Shape
<1>17. CASE v = "failed"
  <2>1. Stream' = Stream /\ UNCHANGED <<buffer, parsed, left, wire>>
    BY <1>1, <1>17 DEF Stream
  <2>2. Frames' /\ DataTypes'
    BY <1>1, <1>4, <2>1 DEF DataTypes, Frames
  <2>3. Parsing' <=> Parsing
    <3>1. NodeParsed \in Linked' <=> target = TokenRead
      BY <1>5, <1>10 DEF Base
    <3>2. HeaderParsed \in Completed' => done'[HeaderParsed] # "ok"
      BY <1>9, <1>13, <1>17
    <3>3. QED
      BY <1>12, <3>1, <3>2 DEF Parsing
  <2>4. Position'
    <3>1. HeaderParsed \in Completed' => done'[HeaderParsed] # "ok"
      BY <1>9, <1>13, <1>17
    <3>2. QED
      BY <1>12, <1>13, <2>1, <2>3, <3>1 DEF Position
  <2>5. QED
    BY <1>3, <1>9, <1>10, <1>11, <1>14, <1>15, <1>17, <2>1, <2>2, <2>3, <2>4 DEF Shape
<1>18. QED
  BY <1>2, <1>16, <1>17

\* What is owed stays owed while a header or a token is taken.
LEMMA StillOwed ==
  ASSUME Shape, UNCHANGED owed,
         NEW e \in ReaderEvents \cup {Exited}, e \in Ready,
         NEW A, A \subseteq ReaderEvents, NEW C, Moved(e, A, C),
         \/ NodeParsed \in Linked \/ HeaderParsed \in Ready
         \/ NodeParsed \notin A
  PROVE  Apart'
<1>1. /\ Linked = Added \cup Ready /\ Linked' = Added' \cup Ready' /\ Added \cap Ready = {}
      /\ Ready \subseteq Completed
  BY DEF Shape, Linked, Added, Ready, Once
<1>2. SUFFICES ASSUME NEW f \in owed
               PROVE  \/ f \in Ready' /\ NodeParsed \notin Ready'
                      \/ /\ f \in Added' /\ f \in Completed'
                         /\ NodeParsed \notin Linked' /\ HeaderParsed \notin Ready'
  BY DEF Shape, Apart
<1>3. \/ f \in Ready /\ NodeParsed \notin Ready
      \/ /\ f \in Added /\ f \in Completed
         /\ NodeParsed \notin Linked /\ HeaderParsed \notin Ready
  BY DEF Shape, Apart
<1>4. f # e
  BY EventNames DEF Shape, Apart, ReaderEvents
<1>5. QED
  BY <1>1, <1>3, <1>4 DEF Moved

\* A header or a token was read: the next token is asked for.
LEMMA TokenAsked ==
  ASSUME Shape, OnHeader \/ OnToken
  PROVE  /\ Shape' /\ Parsing /\ Parsing' /\ parsed' = parsed
         /\ Stream' = Stream \/ Consumed(TokenRead)
         /\ \E e \in {HeaderParsed, TokenRead}, A \in SUBSET ReaderEvents, C \in SUBSET {TokenRead} :
               /\ e \in Ready /\ Moved(e, A, C) /\ NodeParsed \in Linked'
               /\ \A x \in C : done'[x] = "ok"
<1> DEFINE two == <<NodeParsed, TokenRead>>
           one == <<TokenRead>>
<1>1. PICK e \in {HeaderParsed, TokenRead}, added \in {one, two} :
         /\ Run(e, "ok") /\ Await(Without(done, e), added, TokenRead)
         /\ UNCHANGED <<wire, outbox, closed, response_events, answers, written, outcome, owed>>
         /\ e = TokenRead => left > 0
         /\ e = HeaderParsed => added = two
         /\ e = TokenRead => added = one
  <2>1. HeaderParsed # TokenRead
    BY EventNames
  <2>2. CASE OnHeader
    BY <2>1, <2>2 DEF OnHeader, remoteVars, callVars
  <2>3. CASE OnToken
    BY <2>1, <2>3 DEF OnToken, remoteVars, callVars
  <2>4. QED
    BY <2>2, <2>3
<1> DEFINE d == Without(done, e)
<1>2. /\ ReaderEvents = {HeaderParsed, NodeParsed, TokenRead, InputReady(HeaderParsed), InputReady(TokenRead)}
      /\ HeaderParsed # NodeParsed /\ HeaderParsed # TokenRead /\ NodeParsed # TokenRead
      /\ InputReady(HeaderParsed) # InputReady(TokenRead)
      /\ \A x : InputReady(x) # HeaderParsed /\ InputReady(x) # NodeParsed /\ InputReady(x) # TokenRead
  BY EventNames DEF ReaderEvents
<1>3. /\ NodeParsed \in EventSet /\ TokenRead \in EventSet
  BY <1>2, EventsAreEvents
<1>4. /\ added \in Seq(EventSet) /\ IsInjective(added)
      /\ e = HeaderParsed => ToSet(added) = {NodeParsed, TokenRead}
      /\ e = TokenRead => ToSet(added) = {TokenRead}
  <2>1. two \in Seq(EventSet) /\ IsInjective(two) /\ ToSet(two) = {NodeParsed, TokenRead}
    BY <1>2, <1>3, PairElems
  <2>2. one \in Seq(EventSet) /\ IsInjective(one) /\ ToSet(one) = {TokenRead}
    BY <1>3, SingleElems
  <2> HIDE DEF one, two
  <2>3. QED
    BY <1>1, <2>1, <2>2
<1> HIDE DEF one, two
<1> DEFINE A == ToSet(added)
<1>5. e \in {HeaderParsed, TokenRead} /\ A \subseteq {NodeParsed, TokenRead} /\ TokenRead \in A
  BY <1>1, <1>4
<1>6. e \in Ready
  BY <1>1 DEF Run, Ready, Shape, LoopTypes, ToSet
<1>7. /\ LoopTypes /\ Once /\ DataTypes /\ Position
      /\ Linked = Added \cup Ready /\ Linked' = Added' \cup Ready'
      /\ Ready \subseteq Completed /\ Completed \subseteq Linked
  BY DEF Shape, Linked, Added, Ready, Once
<1>8. /\ e = HeaderParsed => ReaderEvents \cap Linked = {HeaderParsed}
      /\ e = TokenRead => ReaderEvents \cap Linked = {NodeParsed, TokenRead} /\ NodeParsed \notin Completed
  BY <1>6, WhereItIs
<1>9. /\ ReaderEvents \cap ((Linked \ {e}) \cup A) = Base(TokenRead)
      /\ \A x \in Base(TokenRead) : x \in Completed => x = e
      /\ A \cap (Linked \ {e}) = {}
      /\ InputReady(TokenRead) \notin Linked \cup A
  <2>1. CASE e = HeaderParsed
    BY <1>2, <1>4, <1>7, <1>8, <2>1 DEF Base
  <2>2. CASE e = TokenRead
    BY <1>2, <1>4, <1>7, <1>8, <2>2 DEF Base
  <2>3. QED
    BY <1>5, <2>1, <2>2
<1>10. /\ d = [x \in DOMAIN d |-> d[x]]
       /\ DOMAIN d = (Completed \ {e}) \cup {}
       /\ \A x \in Completed \ {e} : d[x] = done[x]
       /\ Await(d, added, TokenRead)
  BY <1>1 DEF Without, Completed
<1> HIDE DEF d
<1>11. /\ LoopTypes' /\ Once'
       /\ done[e] = "ok" /\ e \in Completed
       /\ Asked(e, A, {}, TokenRead)
  BY <1>1, <1>4, <1>5, <1>7, <1>9, <1>10, AwaitMoves
<1> HIDE DEF A
<1>12. left > 0 /\ parsed \in Headers /\ Parsing
  <2>1. CASE e = HeaderParsed
    <3>1. Parsing /\ left = Tokens
      BY <1>7, <1>11, <2>1 DEF Parsing, Position
    <3>2. QED
      BY <1>7, <3>1, TokenIsNoHeader DEF Position
  <2>2. CASE e = TokenRead
    <3>1. Parsing
      BY <1>8, <2>2 DEF Parsing
    <3>2. QED
      BY <1>1, <1>7, <2>2, <3>1 DEF Position
  <2>3. QED
    BY <1>5, <2>1, <2>2
<1>13. /\ Reader' /\ Position' /\ Frames'
       /\ buffer' \in Seq(Items) /\ left' \in Nat
       /\ \/ Stream' = Stream /\ parsed' = parsed /\ Parsing'
          \/ Consumed(TokenRead) /\ Parsing'
  <2>1. UNCHANGED <<wire, outbox, closed>> /\ TokenRead # HeaderParsed
    BY <1>1, <1>2
  <2>2. {} \cap ReaderEvents = {}
    OBVIOUS
  <2>3. QED
    BY <1>6, <1>9, <1>11, <1>12, <2>1, <2>2, AskedReader
<1>14. parsed' = parsed
  BY <1>2, <1>13 DEF Consumed
<1>15. \E B \in SUBSET ReaderEvents, C \in SUBSET {TokenRead} :
          /\ Moved(e, B, C) /\ \A x \in C : done'[x] = "ok"
  <2>1. CASE Moved(e, A \cup {InputReady(TokenRead)}, {})
    <3>1. A \cup {InputReady(TokenRead)} \in SUBSET ReaderEvents
      BY <1>2, <1>5
    <3>2. {} \in SUBSET {TokenRead} /\ \A x \in {} : done'[x] = "ok"
      OBVIOUS
    <3>3. QED
      BY <2>1, <3>1, <3>2
  <2>2. CASE Moved(e, A, {} \cup {TokenRead}) /\ done'[TokenRead] = "ok"
    <3>1. A \in SUBSET ReaderEvents /\ {} \cup {TokenRead} \in SUBSET {TokenRead}
      BY <1>2, <1>5
    <3>2. \A x \in {} \cup {TokenRead} : done'[x] = "ok"
      BY <2>2
    <3>3. QED
      BY <2>2, <3>1, <3>2
  <2>3. QED
    BY <1>11, <2>1, <2>2 DEF Asked
<1>16. PICK B \in SUBSET ReaderEvents, C \in SUBSET {TokenRead} :
          /\ Moved(e, B, C) /\ \A x \in C : done'[x] = "ok"
  BY <1>15
<1>17. /\ \A x \in C : \/ x \in ReaderEvents
                       \/ \E c \in Calls \cap response_events : x = Finish(c)
       /\ B \subseteq ReaderEvents /\ e \in ReaderEvents \cup {Exited}
  BY <1>2, <1>5
<1>18. Chains'
  BY <1>1, <1>16, <1>17, ReaderChains
<1>19. Apart'
  <2>1. NodeParsed \in Linked \/ HeaderParsed \in Ready
    BY <1>2, <1>5, <1>6, <1>8
  <2>2. UNCHANGED owed
    BY <1>1
  <2>3. QED
    BY <1>6, <1>16, <1>17, <2>1, <2>2, StillOwed
<1>20. DataTypes'
  BY <1>1, <1>7, <1>13 DEF DataTypes
<1>21. NodeParsed \in Linked'
  <2>1. Linked' = (Linked \ {e}) \cup B
    BY <1>6, <1>7, <1>11, <1>16 DEF Moved, Once, Added, Ready
  <2>2. CASE e = HeaderParsed
    <3>1. NodeParsed \in A
      BY <1>4, <2>2 DEF A
    <3>2. NodeParsed \in Added'
      BY <1>11, <3>1 DEF Asked, Moved
    <3>3. QED
      BY <1>7, <3>2
  <2>3. CASE e = TokenRead
    BY <1>2, <1>8, <2>1, <2>3
  <2>4. QED
    BY <1>5, <2>2, <2>3
<1>22. Stream' = Stream \/ Consumed(TokenRead)
  BY <1>13
<1>23. Shape' /\ Parsing'
  BY <1>11, <1>13, <1>18, <1>19, <1>20 DEF Shape
<1>24. QED
  BY <1>5, <1>6, <1>12, <1>14, <1>16, <1>21, <1>22, <1>23

\* A header or a node could not be read, or is none: the loop ends.
LEMMA EndMoves ==
  ASSUME Shape, OnHeaderFailed \/ OnNodeFailed \/ OnInvalid
  PROVE  /\ Shape' /\ ~Parsing' /\ Stream' = Stream
         /\ \E e \in {HeaderParsed, NodeParsed} :
               e \in Ready /\ Moved(e, {}, {})
<1>1. PICK e \in {HeaderParsed, NodeParsed}, r \in {"ok", "failed"} :
         /\ Run(e, r) /\ done' = Without(done, e) /\ UNCHANGED events
         /\ UNCHANGED <<inputVars, wire, outbox, closed, response_events, answers, written, outcome, owed>>
  <2>1. CASE OnHeaderFailed
    BY <2>1 DEF OnHeaderFailed, remoteVars, callVars
  <2>2. CASE OnNodeFailed
    BY <2>2 DEF OnNodeFailed, remoteVars, callVars
  <2>3. CASE OnInvalid
    BY <2>3 DEF OnInvalid, OnNode, remoteVars, callVars
  <2>4. QED
    BY <2>1, <2>2, <2>3
<1>2. LoopTypes /\ Once
  BY DEF Shape
<1>3. /\ LoopTypes' /\ Once' /\ e \in Ready /\ e \notin Added
      /\ Moved(e, {}, {})
  BY <1>1, <1>2, PlainMoves
<1>4. ReaderEvents \cap Linked = {e}
  BY <1>3, WhereItIs
<1>5. ReaderEvents \cap Linked' = {}
  BY <1>3, <1>4 DEF Moved, Linked, Added, Ready
<1>6. Reader' /\ Position' /\ ~Parsing'
  BY <1>3, <1>5, ReaderEnded
<1>7. Stream' = Stream /\ Frames'
  BY <1>1 DEF Shape, Frames, Stream, inputVars
<1>8. DataTypes'
  BY <1>1 DEF Shape, DataTypes, inputVars
<1>9. {} \subseteq ReaderEvents /\ e \in ReaderEvents \cup {Exited} /\ NodeParsed \notin {}
  BY DEF ReaderEvents
<1>10. Chains'
  BY <1>1, <1>3, <1>9, ReaderChains
<1>11. Apart'
  BY <1>1, <1>3, <1>9, StillOwed
<1>12. QED
  BY <1>1, <1>3, <1>6, <1>7, <1>8, <1>10, <1>11 DEF Shape

\* The last token was read, or a token could not be: that is told.
LEMMA LastTokenMoves ==
  ASSUME Shape, NEW r \in {"ok", "failed"}, OnLastToken(r)
  PROVE  /\ Shape' /\ Parsing /\ Parsing' /\ Stream' = Stream /\ parsed' = parsed
         /\ TokenRead \in Ready /\ done[TokenRead] = r
         /\ Moved(TokenRead, {}, {NodeParsed}) /\ done'[NodeParsed] = r
<1> DEFINE e == TokenRead
<1>1. /\ Run(e, r) /\ Complete(e, NodeParsed, r) /\ UNCHANGED events
      /\ r = "ok" => left = 0
      /\ UNCHANGED <<inputVars, wire, outbox, closed, response_events, answers, written, outcome, owed>>
  BY DEF OnLastToken, remoteVars, callVars
<1>2. /\ LoopTypes /\ Once /\ DataTypes /\ Position /\ Frames
      /\ Linked = Added \cup Ready /\ Linked' = Added' \cup Ready' /\ Added \cap Ready = {}
      /\ Ready \subseteq Completed /\ Completed \subseteq Linked
  BY DEF Shape, Linked, Added, Ready, Once
<1>3. /\ ReaderEvents = {HeaderParsed, NodeParsed, TokenRead, InputReady(HeaderParsed), InputReady(TokenRead)}
      /\ HeaderParsed # NodeParsed /\ HeaderParsed # TokenRead /\ NodeParsed # TokenRead
      /\ \A x : InputReady(x) # HeaderParsed /\ InputReady(x) # NodeParsed /\ InputReady(x) # TokenRead
  BY EventNames DEF ReaderEvents
<1>4. e \in Ready
  BY <1>1, <1>2 DEF Run, Ready, LoopTypes, ToSet
<1>5. ReaderEvents \cap Linked = {NodeParsed, e} /\ NodeParsed \notin Completed
  BY <1>4, WhereItIs
<1>6. Awaits(NodeParsed)
  BY <1>2, <1>5 DEF Awaits
<1>7. NodeParsed.cb \notin {"output_ready", "input_ready"} /\ r \in Results
  BY EventNames DEF Results
<1>8. /\ LoopTypes' /\ Once' /\ e \notin Added /\ done[e] = r
      /\ Moved(e, {}, {NodeParsed}) /\ done'[NodeParsed] = r
  <2> HIDE DEF e
  <2>1. QED
    BY <1>1, <1>2, <1>6, <1>7, CompleteMoves
<1>9. ReaderEvents \cap Linked' = {NodeParsed} /\ NodeParsed \in Completed' /\ HeaderParsed \notin Completed'
  <2>1. Linked' = Linked \ {e}
    BY <1>2, <1>4, <1>8 DEF Moved
  <2>2. HeaderParsed \notin Completed
    BY <1>2, <1>3, <1>5
  <2>3. QED
    BY <1>3, <1>5, <1>8, <2>1, <2>2 DEF Moved
<1>10. Reader'
  BY <1>9 DEF Reader
<1>11. Parsing /\ Parsing'
  BY <1>5, <1>9 DEF Parsing
<1>12. Position'
  <2>1. InputReady(HeaderParsed) \notin Linked' /\ InputReady(TokenRead) \notin Linked'
        /\ HeaderParsed \notin Linked'
    BY <1>3, <1>9
  <2>2. ~Awaits(HeaderParsed)'
    BY <1>2, <2>1 DEF Awaits
  <2>3. parsed \in Headers /\ UNCHANGED <<left, parsed, buffer>>
    BY <1>1, <1>2, <1>11 DEF Position, inputVars
  <2>4. QED
    BY <1>1, <1>8, <1>9, <2>1, <2>2, <2>3 DEF Position
<1>13. Stream' = Stream /\ Frames' /\ parsed' = parsed
  BY <1>1, <1>2 DEF Frames, Stream, inputVars
<1>14. DataTypes'
  BY <1>1, <1>2 DEF DataTypes, inputVars
<1>15. {} \subseteq ReaderEvents /\ e \in ReaderEvents \cup {Exited} /\ NodeParsed \notin {}
       /\ \A x \in {NodeParsed} : x \in ReaderEvents
  BY <1>3
<1>16. Chains'
  BY <1>1, <1>8, <1>15, ReaderChains
<1>17. Apart'
  BY <1>1, <1>4, <1>8, <1>15, StillOwed
<1>18. QED
  BY <1>4, <1>8, <1>10, <1>11, <1>12, <1>13, <1>14, <1>16, <1>17 DEF Shape

\* The end of the process is not an event of the listening loop.
LEMMA ExitedMoves ==
  ASSUME Shape, OnExited
  PROVE  /\ Shape' /\ (Parsing' <=> Parsing) /\ Stream' = Stream /\ parsed' = parsed
         /\ Exited \in Ready /\ Moved(Exited, {}, {})
<1> DEFINE e == Exited
<1>1. /\ Run(e, "ok") /\ done' = Without(done, e) /\ UNCHANGED events
      /\ UNCHANGED <<inputVars, wire, outbox, closed, response_events, answers, written, outcome, owed>>
  BY DEF OnExited, remoteVars, callVars
<1>2. /\ LoopTypes /\ Once /\ Reader /\ Position
      /\ Linked = Added \cup Ready /\ Linked' = Added' \cup Ready' /\ Added \cap Ready = {}
  BY DEF Shape, Linked, Added, Ready, Once
<1>3. /\ LoopTypes' /\ Once' /\ e \in Ready /\ e \notin Added
      /\ Moved(e, {}, {})
  <2> HIDE DEF e
  <2>1. QED
    BY <1>1, <1>2, PlainMoves
<1>4. e \notin ReaderEvents
  BY EventNames DEF ReaderEvents
<1>5. Reader' /\ Position' /\ (Parsing' <=> Parsing)
  <2>1. HeaderParsed \in ReaderEvents /\ NodeParsed \in ReaderEvents /\ TokenRead \in ReaderEvents
    BY DEF ReaderEvents
  <2>2. /\ \A x \in ReaderEvents : (x \in Linked' <=> x \in Linked) /\ (x \in Added' => x \in Added)
        /\ \A x \in {HeaderParsed, NodeParsed, TokenRead} :
              /\ x \in Completed' <=> x \in Completed
              /\ x \in Completed => done'[x] = done[x]
    BY <1>2, <1>3, <1>4, <2>1 DEF Moved
  <2>3. UNCHANGED inputVars
    BY <1>1
  <2>4. QED
    BY <1>2, <2>2, <2>3, ReaderKept
<1>6. Stream' = Stream /\ Frames' /\ parsed' = parsed
  BY <1>1 DEF Shape, Frames, Stream, inputVars
<1>7. DataTypes'
  BY <1>1 DEF Shape, DataTypes, inputVars
<1>8. {} \subseteq ReaderEvents /\ e \in ReaderEvents \cup {Exited} /\ NodeParsed \notin {}
  OBVIOUS
<1>9. Chains'
  BY <1>1, <1>3, <1>8, ReaderChains
<1>10. Apart'
  BY <1>1, <1>3, <1>8, StillOwed
<1>11. QED
  BY <1>3, <1>5, <1>6, <1>7, <1>9, <1>10 DEF Shape

\* A message is dispatched, which completes the events F, and the next header
\* is asked for if the server still listens.
LEMMA ParseMoves ==
  ASSUME Shape, Run(NodeParsed, "ok"),
         NEW F, \A x \in F : Awaits(x) /\ \E c \in Calls \cap response_events : x = Finish(c),
         NEW d, d = [x \in DOMAIN d |-> d[x]],
         DOMAIN d = (Completed \ {NodeParsed}) \cup F,
         \A x \in Completed \ {NodeParsed} : x \notin F => d[x] = done[x],
         \A x \in F : d[x] \in Results,
         ParseHeader(d),
         UNCHANGED <<wire, outbox, closed, response_events, answers, written, outcome>>,
         \A f \in owed' : f.cb = "finish" /\ f \in Linked /\ f \in Completed \cup F
  PROVE  /\ Shape' /\ Parsing /\ NodeParsed \in Ready /\ done[NodeParsed] = "ok"
         /\ ReaderEvents \cap Linked = {NodeParsed}
         /\ \/ Stream' = Stream /\ ~Parsing'
            \/ Consumed(HeaderParsed) /\ Parsing' /\ HeaderParsed \in Added'
         /\ is_listening => HeaderParsed \in Linked'
         /\ \E A \in SUBSET ReaderEvents, C \in SUBSET (F \cup {HeaderParsed}) :
               /\ F \subseteq C /\ Moved(NodeParsed, A, C)
               /\ HeaderParsed \in C => done'[HeaderParsed] = "ok"
<1> DEFINE e == NodeParsed
           none == <<>>
           header == <<HeaderParsed>>
<1>1. /\ ReaderEvents = {HeaderParsed, NodeParsed, TokenRead, InputReady(HeaderParsed), InputReady(TokenRead)}
      /\ HeaderParsed # NodeParsed /\ HeaderParsed # TokenRead /\ NodeParsed # TokenRead
      /\ InputReady(HeaderParsed) # InputReady(TokenRead)
      /\ \A x : InputReady(x) # HeaderParsed /\ InputReady(x) # NodeParsed /\ InputReady(x) # TokenRead
  BY EventNames DEF ReaderEvents
<1>2. /\ LoopTypes /\ Once /\ DataTypes /\ Position /\ Frames
      /\ Linked = Added \cup Ready /\ Linked' = Added' \cup Ready' /\ Added \cap Ready = {}
      /\ Ready \subseteq Completed /\ Completed \subseteq Linked
  BY DEF Shape, Linked, Added, Ready, Once
<1>3. e \in Ready /\ done[e] = "ok"
  BY <1>2 DEF Run, Ready, LoopTypes, ToSet
<1>4. ReaderEvents \cap Linked = {e}
  BY <1>3, WhereItIs
<1>5. Parsing /\ left = 0
  BY <1>1, <1>2, <1>3 DEF Parsing, Position
<1>6. /\ F \subseteq Added /\ F \cap ReaderEvents = {}
      /\ \A x \in F : x.cb \notin {"output_ready", "input_ready"}
  BY EventNames DEF Awaits, ReaderEvents
<1>7. HeaderParsed \notin Completed /\ HeaderParsed \notin F /\ HeaderParsed \notin Linked
  BY <1>1, <1>2, <1>4, <1>6
<1>8. CASE ~is_listening
  <2>1. done' = d /\ UNCHANGED <<events, inputVars>>
    BY <1>8 DEF ParseHeader
  <2>2. none \in Seq(EventSet) /\ ToSet(none) = {} /\ IsInjective(none)
    BY EmptyElems
  <2>3. events' = events \o none
    BY <1>2, <2>1 DEF LoopTypes
  <2> HIDE DEF none
  <2>4. /\ done' = [x \in DOMAIN done' |-> done'[x]]
        /\ DOMAIN done' = (Completed \ {e}) \cup F
        /\ \A x \in Completed \ {e} : x \notin F => done'[x] = done[x]
        /\ \A x \in F : done'[x] \in Results
    BY <2>1
  <2>5. F \subseteq Added \cup ToSet(none) /\ ToSet(none) \cap (Linked \ {e}) = {}
    BY <1>6, <2>2
  <2>6. LoopTypes' /\ Once' /\ Moved(e, ToSet(none), F)
    <3>1. LoopTypes /\ Once /\ Run(e, "ok")
      BY <1>2
    <3>2. \A x \in F : x.cb \notin {"output_ready", "input_ready"}
      BY <1>6
    <3> HIDE DEF e
    <3>3. QED
      BY ONLY <2>2, <2>3, <2>4, <2>5, <3>1, <3>2, RunMoves
  <2>7. Moved(e, {}, F)
    BY <2>2, <2>6
  <2>8. ReaderEvents \cap Linked' = {}
    BY <1>2, <1>3, <1>4, <2>7 DEF Moved
  <2>9. Reader' /\ Position' /\ ~Parsing'
    BY <2>6, <2>8, ReaderEnded
  <2>10. Stream' = Stream /\ Frames' /\ DataTypes'
    BY <1>2, <2>1 DEF Frames, Stream, DataTypes, inputVars
  <2>11. {} \subseteq ReaderEvents /\ e \in ReaderEvents \cup {Exited}
         /\ \A x \in F : \/ x \in ReaderEvents
                         \/ \E c \in Calls \cap response_events : x = Finish(c)
    BY <1>1
  <2>12. Chains'
    BY <2>7, <2>11, ReaderChains
  <2>13. Apart'
    <3>1. SUFFICES ASSUME NEW f \in owed'
                   PROVE  \/ f \in Ready' /\ NodeParsed \notin Ready'
                          \/ /\ f \in Added' /\ f \in Completed'
                             /\ NodeParsed \notin Linked' /\ HeaderParsed \notin Ready'
      BY DEF Apart
    <3>2. f # e /\ f \in Linked /\ f \in Completed \cup F
      BY EventNames
    <3>3. NodeParsed \notin Linked' /\ HeaderParsed \notin Linked'
      BY <1>1, <2>8
    <3>4. QED
      BY <1>2, <1>6, <2>7, <3>2, <3>3 DEF Moved
  <2>14. {} \in SUBSET ReaderEvents /\ F \in SUBSET (F \cup {HeaderParsed}) /\ F \subseteq F
    OBVIOUS
  <2>15. QED
    BY <1>3, <1>4, <1>5, <1>7, <1>8, <2>6, <2>7, <2>9, <2>10, <2>12, <2>13, <2>14 DEF Shape
<1>9. CASE is_listening
  <2> HIDE DEF none
  <2>1. Await(d, header, HeaderParsed)
    BY <1>9 DEF ParseHeader
  <2>2. HeaderParsed \in EventSet
    BY <1>1, EventsAreEvents
  <2>3. header \in Seq(EventSet) /\ ToSet(header) = {HeaderParsed} /\ IsInjective(header)
    BY <2>2, SingleElems
  <2> HIDE DEF header
  <2>4. /\ ReaderEvents \cap ((Linked \ {e}) \cup {HeaderParsed}) = Base(HeaderParsed)
        /\ \A x \in Base(HeaderParsed) : x \in Completed => x = e
        /\ ToSet(header) \cap (Linked \ {e}) = {}
        /\ InputReady(HeaderParsed) \notin Linked \cup ToSet(header)
    BY <1>1, <1>4, <1>7, <2>3 DEF Base
  <2>5. HeaderParsed \in {HeaderParsed, TokenRead} /\ HeaderParsed \in ToSet(header)
    BY <2>3
  <2>6. LoopTypes' /\ Once' /\ Asked(e, ToSet(header), F, HeaderParsed)
    BY <1>2, <1>6, <1>7, <2>1, <2>3, <2>4, <2>5, AwaitMoves
  <2>7. Asked(e, {HeaderParsed}, F, HeaderParsed)
    BY <2>3, <2>6
  <2>8. /\ Reader' /\ Position' /\ Frames'
        /\ buffer' \in Seq(Items) /\ left' \in Nat
        /\ \/ Stream' = Stream /\ parsed' = parsed /\ (Parsing' <=> HeaderParsed = TokenRead)
           \/ Consumed(HeaderParsed) /\ Parsing'
    BY <1>1, <1>3, <1>5, <1>6, <2>4, <2>5, <2>7, AskedReader
  <2>9. \E A \in SUBSET ReaderEvents, C \in SUBSET (F \cup {HeaderParsed}) :
           /\ F \subseteq C /\ Moved(e, A, C)
           /\ HeaderParsed \in C => done'[HeaderParsed] = "ok"
           /\ HeaderParsed \in A
    <3>1. CASE Moved(e, {HeaderParsed} \cup {InputReady(HeaderParsed)}, F)
      <4>1. /\ {HeaderParsed} \cup {InputReady(HeaderParsed)} \in SUBSET ReaderEvents
            /\ F \in SUBSET (F \cup {HeaderParsed})
        BY <1>1
      <4>2. QED
        BY <1>7, <3>1, <4>1
    <3>2. CASE Moved(e, {HeaderParsed}, F \cup {HeaderParsed}) /\ done'[HeaderParsed] = "ok"
      <4>1. {HeaderParsed} \in SUBSET ReaderEvents
        BY <1>1
      <4>2. QED
        BY <3>2, <4>1
    <3>3. QED
      BY <2>7, <3>1, <3>2 DEF Asked
  <2>10. PICK A \in SUBSET ReaderEvents, C \in SUBSET (F \cup {HeaderParsed}) :
           /\ F \subseteq C /\ Moved(e, A, C)
           /\ HeaderParsed \in C => done'[HeaderParsed] = "ok"
           /\ HeaderParsed \in A
    BY <2>9
  <2>11. HeaderParsed \in Added' /\ HeaderParsed \in Linked'
    BY <1>2, <2>10 DEF Moved
  <2>12. A \subseteq ReaderEvents /\ e \in ReaderEvents \cup {Exited}
         /\ \A x \in C : \/ x \in ReaderEvents
                         \/ \E c \in Calls \cap response_events : x = Finish(c)
    BY <1>1
  <2>13. Chains'
    BY <2>10, <2>12, ReaderChains
  <2>14. Apart'
    <3>1. SUFFICES ASSUME NEW f \in owed'
                   PROVE  \/ f \in Ready' /\ NodeParsed \notin Ready'
                          \/ /\ f \in Added' /\ f \in Completed'
                             /\ NodeParsed \notin Linked' /\ HeaderParsed \notin Ready'
      BY DEF Apart
    <3>2. f # e /\ f \in Linked /\ f \in Completed \cup F
      BY EventNames
    <3>3. NodeParsed \notin Linked' /\ HeaderParsed \notin Ready'
      <4>1. HeaderParsed \notin Ready'
        BY <1>2, <1>7, <2>10 DEF Moved
      <4>2. Reader'
        BY <2>8
      <4>3. HeaderParsed \in ReaderEvents \cap Linked'
        BY <1>1, <2>11
      <4>4. NodeParsed \notin ReaderEvents \cap Linked'
        BY <1>1, <4>2, <4>3 DEF Reader
      <4>5. QED
        BY <1>1, <4>1, <4>4
    <3>4. QED
      BY <1>2, <1>6, <2>10, <3>2, <3>3 DEF Moved
  <2>15. DataTypes'
    BY <1>2, <2>8 DEF DataTypes
  <2>16. \/ Stream' = Stream /\ ~Parsing'
         \/ Consumed(HeaderParsed) /\ Parsing' /\ HeaderParsed \in Added'
    BY <1>1, <2>8, <2>11
  <2>17. Shape'
    BY <2>6, <2>8, <2>13, <2>14, <2>15 DEF Shape
  <2>18. QED
    BY <1>3, <1>4, <1>5, <2>10, <2>11, <2>16, <2>17
<1>10. QED
  BY <1>2, <1>8, <1>9 DEF Shape

\* A response, a notification or a response to nothing is dispatched.
LEMMA DispatchMoves ==
  ASSUME Shape, OnResponse \/ OnUnknownResponse \/ OnNotice
  PROVE  /\ Shape' /\ Parsing /\ NodeParsed \in Ready /\ done[NodeParsed] = "ok"
         /\ ReaderEvents \cap Linked = {NodeParsed}
         /\ \/ Stream' = Stream /\ ~Parsing'
            \/ Consumed(HeaderParsed) /\ Parsing' /\ HeaderParsed \in Added'
         /\ is_listening => HeaderParsed \in Linked'
         /\ \E F : \E A \in SUBSET ReaderEvents, C \in SUBSET (F \cup {HeaderParsed}) :
               /\ \A x \in F : /\ OnResponse /\ Awaits(x) /\ x = Finish(parsed.id)
                               /\ parsed.id \in Calls \cap response_events
               /\ F \subseteq C /\ Moved(NodeParsed, A, C)
               /\ HeaderParsed \in C => done'[HeaderParsed] = "ok"
<1>1. \E F, d :
         /\ \A x \in F : /\ OnResponse /\ Awaits(x) /\ x = Finish(parsed.id)
                         /\ parsed.id \in Calls \cap response_events
         /\ d = [x \in DOMAIN d |-> d[x]]
         /\ DOMAIN d = (Completed \ {NodeParsed}) \cup F
         /\ \A x \in Completed \ {NodeParsed} : x \notin F => d[x] = done[x]
         /\ \A x \in F : d[x] \in Results
         /\ ParseHeader(d)
         /\ \A f \in owed' : f.cb = "finish" /\ f \in Linked /\ f \in Completed \cup F
  <2>1. CASE OnUnknownResponse \/ OnNotice
    <3> DEFINE d == Without(done, NodeParsed)
               F == {}
    <3>1. ParseHeader(d) /\ owed' = {}
      BY <2>1 DEF OnUnknownResponse, OnNotice
    <3>2. /\ d = [x \in DOMAIN d |-> d[x]]
          /\ DOMAIN d = (Completed \ {NodeParsed}) \cup F
          /\ \A x \in Completed \ {NodeParsed} : d[x] = done[x]
      BY DEF Without, Completed
    <3>3. \A x \in F : FALSE
      OBVIOUS
    <3> HIDE DEF d, F
    <3>4. QED
      BY <3>1, <3>2, <3>3
  <2>2. CASE OnResponse /\ ~Pending(Finish(parsed.id))
    <3> DEFINE d == Without(done, NodeParsed)
               F == {}
               f == Finish(parsed.id)
    <3>1. ParseHeader(d) /\ owed' = {f} \cap Linked
      BY <2>2 DEF OnResponse
    <3>2. /\ d = [x \in DOMAIN d |-> d[x]]
          /\ DOMAIN d = (Completed \ {NodeParsed}) \cup F
          /\ \A x \in Completed \ {NodeParsed} : d[x] = done[x]
      BY DEF Without, Completed
    <3>3. f \in Linked => f \in Completed
      BY <2>2 DEF Pending
    <3>4. f.cb = "finish"
      BY EventNames
    <3>5. \A x \in F : FALSE
      OBVIOUS
    <3> HIDE DEF d, F
    <3>6. QED
      BY <3>1, <3>2, <3>3, <3>4, <3>5
  <2>3. CASE OnResponse /\ Pending(Finish(parsed.id))
    <3> DEFINE f == Finish(parsed.id)
               F == {f}
               d == With(Without(done, NodeParsed), f, Payload)
    <3>1. /\ ParseHeader(d) /\ owed' = {f} \cap Linked
          /\ parsed.id \in response_events
          /\ Run(NodeParsed, "ok")
          /\ parsed.type = "result" \/ parsed.type = "error"
      BY <2>3 DEF OnResponse, OnNode
    <3>2. /\ d = [x \in DOMAIN d |-> d[x]]
          /\ DOMAIN d = (Completed \ {NodeParsed}) \cup F
          /\ \A x \in Completed \ {NodeParsed} : x \notin F => d[x] = done[x]
          /\ d[f] = Payload
      BY DEF With, Without, Completed
    <3>3. Payload \in Results
      BY DEF Payload, Results
    <3>4. Awaits(f)
      BY <2>3 DEF Pending, Awaits, Linked, Shape, Once, Added, Ready
    <3>5. parsed.id \in Calls
      <4>1. NodeParsed \in Ready
        BY <3>1 DEF Run, Ready, Shape, LoopTypes, ToSet
      <4>2. Parsing
        BY <4>1 DEF Parsing, Linked, Ready
      <4>3. parsed \in Headers
        BY <4>2 DEF Shape, Position
      <4>4. QED
        BY <3>1, <4>3 DEF Headers
    <3>6. f.cb = "finish"
      BY EventNames
    <3>7. \A x \in F : x = f
      OBVIOUS
    <3>8. f \in F
      OBVIOUS
    <3> HIDE DEF d, F
    <3>9. /\ \A x \in F : /\ OnResponse /\ Awaits(x) /\ x = Finish(parsed.id)
                          /\ parsed.id \in Calls \cap response_events
          /\ \A x \in F : d[x] \in Results
          /\ \A g \in owed' : g.cb = "finish" /\ g \in Linked /\ g \in Completed \cup F
      BY <2>3, <3>1, <3>2, <3>3, <3>4, <3>5, <3>6, <3>7, <3>8
    <3>10. QED
      BY <3>1, <3>2, <3>9
  <2>4. QED
    BY <2>1, <2>2, <2>3
<1>2. PICK F, d :
         /\ \A x \in F : /\ OnResponse /\ Awaits(x) /\ x = Finish(parsed.id)
                         /\ parsed.id \in Calls \cap response_events
         /\ d = [x \in DOMAIN d |-> d[x]]
         /\ DOMAIN d = (Completed \ {NodeParsed}) \cup F
         /\ \A x \in Completed \ {NodeParsed} : x \notin F => d[x] = done[x]
         /\ \A x \in F : d[x] \in Results
         /\ ParseHeader(d)
         /\ \A f \in owed' : f.cb = "finish" /\ f \in Linked /\ f \in Completed \cup F
  BY <1>1
<1>3. /\ Run(NodeParsed, "ok")
      /\ UNCHANGED <<wire, outbox, closed, response_events, answers, written, outcome>>
  <2>1. CASE OnResponse
    BY <2>1 DEF OnResponse, OnNode, remoteVars
  <2>2. CASE OnUnknownResponse
    BY <2>2 DEF OnUnknownResponse, OnNode, remoteVars
  <2>3. CASE OnNotice
    BY <2>3 DEF OnNotice, OnNode, remoteVars, callVars
  <2>4. QED
    BY <2>1, <2>2, <2>3
<1>4. \A x \in F : Awaits(x) /\ \E c \in Calls \cap response_events : x = Finish(c)
  BY <1>2
<1>5. /\ Shape' /\ Parsing /\ NodeParsed \in Ready /\ done[NodeParsed] = "ok"
      /\ ReaderEvents \cap Linked = {NodeParsed}
      /\ \/ Stream' = Stream /\ ~Parsing'
         \/ Consumed(HeaderParsed) /\ Parsing' /\ HeaderParsed \in Added'
      /\ is_listening => HeaderParsed \in Linked'
      /\ \E A \in SUBSET ReaderEvents, C \in SUBSET (F \cup {HeaderParsed}) :
            /\ F \subseteq C /\ Moved(NodeParsed, A, C)
            /\ HeaderParsed \in C => done'[HeaderParsed] = "ok"
  BY <1>2, <1>3, <1>4, ParseMoves
<1>6. PICK A \in SUBSET ReaderEvents, C \in SUBSET (F \cup {HeaderParsed}) :
            /\ F \subseteq C /\ Moved(NodeParsed, A, C)
            /\ HeaderParsed \in C => done'[HeaderParsed] = "ok"
  BY <1>5
<1>7. \E G : \E B \in SUBSET ReaderEvents, D \in SUBSET (G \cup {HeaderParsed}) :
         /\ \A x \in G : /\ OnResponse /\ Awaits(x) /\ x = Finish(parsed.id)
                         /\ parsed.id \in Calls \cap response_events
         /\ G \subseteq D /\ Moved(NodeParsed, B, D)
         /\ HeaderParsed \in D => done'[HeaderParsed] = "ok"
  BY <1>2, <1>6
<1>8. QED
  BY <1>5, <1>7

----------------------------------------------------------------------------
(* The other steps.                                                        *)

\* A call or a notification adds its three events.
LEMMA StartMoves ==
  ASSUME Shape, NEW m \in Outgoing, Start(m)
  PROVE  /\ Shape' /\ (Parsing' <=> Parsing) /\ Stream' = Stream /\ parsed' = parsed
         /\ m \notin written
         /\ Added' = Added \cup {Finish(m), Sent(m), OutputReady(m)}
         /\ {Finish(m), Sent(m), OutputReady(m)} \cap Linked = {}
         /\ UNCHANGED <<done, batch>>
<1> DEFINE three == <<Finish(m), Sent(m), OutputReady(m)>>
           S == {Finish(m), Sent(m), OutputReady(m)}
<1>1. /\ outcome[m] = "none" /\ outcome' = [outcome EXCEPT ![m] = "pending"]
      /\ events' = events \o three
      /\ UNCHANGED <<done, batch, inputVars, wire, outbox, closed, response_events, answers, written, owed>>
  BY DEF Start, remoteVars
<1>2. three \in Seq(EventSet) /\ ToSet(three) = S /\ IsInjective(three)
  <2>1. Finish(m) \in EventSet /\ Sent(m) \in EventSet /\ OutputReady(m) \in EventSet
    BY EventsAreEvents
  <2>2. Finish(m) # Sent(m) /\ Finish(m) # OutputReady(m) /\ Sent(m) # OutputReady(m)
    BY EventNames
  <2>3. /\ three \in Seq(EventSet) /\ DOMAIN three = 1 .. 3
        /\ three[1] = Finish(m) /\ three[2] = Sent(m) /\ three[3] = OutputReady(m)
    BY <2>1
  <2>4. \A i \in 1 .. 3 : i = 1 \/ i = 2 \/ i = 3
    OBVIOUS
  <2> HIDE DEF three
  <2>5. ToSet(three) = S /\ IsInjective(three)
    BY <2>2, <2>3, <2>4 DEF ToSet, IsInjective
  <2>6. QED
    BY <2>3, <2>5
<1> HIDE DEF three
<1>3. /\ LoopTypes /\ Once /\ DataTypes /\ Reader /\ Position
      /\ Linked = Added \cup Ready /\ Linked' = Added' \cup Ready' /\ Added \cap Ready = {}
      /\ Ready \subseteq Completed /\ Completed \subseteq Linked
  BY DEF Shape, Linked, Added, Ready, Once
<1>4. /\ S \cap Linked = {} /\ m \notin response_events /\ m \notin written
  BY <1>1 DEF Shape, Chains
<1>5. /\ events' \in Seq(EventSet) /\ Added' = Added \cup S /\ IsInjective(events')
  <2>1. events \in Seq(EventSet) /\ IsInjective(events) /\ ToSet(events) \cap ToSet(three) = {}
    BY <1>2, <1>3, <1>4 DEF LoopTypes, Once, Added
  <2>2. QED
    BY <1>1, <1>2, <2>1, JoinElems DEF Added
<1>6. Ready' = Ready /\ Completed' = Completed /\ done' = done /\ batch' = batch
  BY <1>1 DEF Ready, Completed
<1>7. LoopTypes'
  BY <1>3, <1>5, <1>6 DEF LoopTypes
<1>8. Once'
  <2>1. Added' \cap Ready' = {} /\ Ready' \subseteq Completed' /\ Completed' \subseteq Linked'
    BY <1>3, <1>4, <1>5, <1>6
  <2>2. \A e \in Added' : e.cb \in {"output_ready", "input_ready"} => e \notin Completed'
    BY <1>3, <1>4, <1>5, <1>6 DEF Once
  <2>3. QED
    BY <1>3, <1>5, <1>6, <2>1, <2>2 DEF Once
<1>9. Linked' = Linked \cup S
  BY <1>3, <1>5, <1>6
<1>10. \A x \in S : x \notin ReaderEvents
  BY EventNames DEF ReaderEvents
<1>11. Reader' /\ Position' /\ (Parsing' <=> Parsing)
  <2>1. HeaderParsed \in ReaderEvents /\ NodeParsed \in ReaderEvents /\ TokenRead \in ReaderEvents
    BY DEF ReaderEvents
  <2>2. /\ \A x \in ReaderEvents : (x \in Linked' <=> x \in Linked) /\ (x \in Added' => x \in Added)
        /\ \A x \in {HeaderParsed, NodeParsed, TokenRead} :
              /\ x \in Completed' <=> x \in Completed
              /\ x \in Completed => done'[x] = done[x]
    BY <1>5, <1>6, <1>9, <1>10
  <2>3. UNCHANGED inputVars
    BY <1>1
  <2>4. QED
    BY <1>3, <2>2, <2>3, ReaderKept
<1>12. Stream' = Stream /\ Frames' /\ parsed' = parsed
  BY <1>1 DEF Shape, Frames, Stream, inputVars
<1>13. DataTypes'
  BY <1>1, <1>3 DEF DataTypes, inputVars
<1>14. Chains'
  <2> SUFFICES ASSUME NEW n \in Outgoing
               PROVE  /\ outcome'[n] = "none" =>
                            /\ {OutputReady(n), Sent(n), Finish(n)} \cap Linked' = {}
                            /\ n \notin response_events /\ n \notin written
                      /\ OutputReady(n) \in Linked' => Awaits(Sent(n))' /\ n \notin written
                      /\ Sent(n) \in Linked' => Awaits(Finish(n))' /\ n \notin response_events
    BY <1>1 DEF Chains
  <2>1. CASE n = m
    <3>1. outcome'[m] = "pending"
      BY <1>1, <1>3 DEF DataTypes
    <3>2. Awaits(Sent(m))' /\ Awaits(Finish(m))'
      BY <1>3, <1>4, <1>5, <1>6 DEF Awaits
    <3>3. QED
      BY <1>4, <2>1, <3>1, <3>2
  <2>2. CASE n # m
    <3>1. outcome'[n] = outcome[n]
      BY <1>1, <1>3, <2>2 DEF DataTypes
    <3>2. OutputReady(n) \notin S /\ Sent(n) \notin S /\ Finish(n) \notin S
      BY <2>2, EventNames
    <3>3. \A x : Awaits(x) => Awaits(x)'
      BY <1>5, <1>6 DEF Awaits
    <3>4. QED
      BY <1>9, <3>1, <3>2, <3>3 DEF Shape, Chains
  <2>3. QED
    BY <2>1, <2>2
<1>15. Apart'
  <2>1. NodeParsed \in ReaderEvents
    BY DEF ReaderEvents
  <2>2. QED
    BY <1>1, <1>5, <1>6, <1>9, <1>10, <2>1 DEF Shape, Apart
<1>16. QED
  BY <1>4, <1>5, <1>6, <1>7, <1>8, <1>11, <1>12, <1>13, <1>14, <1>15 DEF Shape

\* An iteration takes what is completed and what is ready.
LEMMA IterateMoves ==
  ASSUME Shape, Iterate
  PROVE  /\ Shape' /\ (Parsing' <=> Parsing) /\ Stream' = Stream /\ parsed' = parsed
         /\ Ready = {} /\ Ready' = Completed' /\ Added' = Added \ Completed'
         /\ Completed \subseteq Completed' /\ Completed' \subseteq Added
         /\ \A x \in Completed : done'[x] = done[x]
         /\ \A x \in Completed' : x \notin Completed =>
               /\ x.cb \in {"output_ready", "input_ready"}
               /\ done'[x] = "ok" \/ (closed /\ wire = <<>>)
<1>1. PICK room \in BOOLEAN :
         LET ready == {e \in ToSet(events) \ Completed : Polled(e, room)}
             stays == (ToSet(events) \ Completed) \ ready
         IN  /\ batch' = Reverse(Only(events, ready)) \o Reverse(Only(events, Completed))
             /\ events' = Only(events, stays)
             /\ done' = [x \in Completed \cup ready |->
                             IF x \in Completed THEN done[x]
                             ELSE IF x.cb = "input_ready" /\ wire = <<>> THEN "failed" ELSE "ok"]
  BY DEF Iterate
<1> DEFINE ready == {e \in ToSet(events) \ Completed : Polled(e, room)}
           stays == (ToSet(events) \ Completed) \ ready
<1>2. /\ batch = <<>>
      /\ batch' = Reverse(Only(events, ready)) \o Reverse(Only(events, Completed))
      /\ events' = Only(events, stays)
      /\ done' = [x \in Completed \cup ready |->
                     IF x \in Completed THEN done[x]
                     ELSE IF x.cb = "input_ready" /\ wire = <<>> THEN "failed" ELSE "ok"]
      /\ UNCHANGED <<inputVars, wire, outbox, closed, response_events, answers, written, outcome, owed>>
  BY <1>1 DEF Iterate, callVars, remoteVars
<1>3. /\ ready \subseteq Added /\ stays = Added \ (Completed \cup ready)
      /\ \A x \in ready : /\ x \notin Completed /\ x.cb \in {"output_ready", "input_ready"}
                          /\ x.cb = "input_ready" => wire # <<>> \/ closed
  BY DEF Added, Polled
<1> HIDE DEF ready, stays
<1>4. /\ LoopTypes /\ Once /\ DataTypes /\ Reader /\ Position
      /\ events \in Seq(EventSet) /\ IsInjective(events) /\ done \in [Completed -> Results]
      /\ Linked = Added \cup Ready /\ Linked' = Added' \cup Ready'
      /\ Completed \subseteq Linked
  BY DEF Shape, LoopTypes, Linked, Added, Ready, Once
<1>5. Ready = {} /\ Completed \subseteq Added
  BY <1>2, <1>4, EmptyElems DEF Ready
<1>6. /\ events' \in Seq(EventSet) /\ IsInjective(events') /\ Added' = stays
  <2>1. /\ Only(events, stays) \in Seq(EventSet \cap stays)
        /\ ToSet(Only(events, stays)) = ToSet(events) \cap stays
        /\ IsInjective(Only(events, stays))
    BY <1>4, OnlyPlaces, OnlyElems, OnlyNoRepeats
  <2>2. Only(events, stays) \in Seq(EventSet)
    BY <2>1
  <2>3. QED
    BY <1>2, <1>3, <2>1, <2>2 DEF Added
<1>7. /\ batch' \in Seq(EventSet) /\ IsInjective(batch') /\ Ready' = Completed \cup ready
  <2> DEFINE s == Only(events, ready)
             t == Only(events, Completed)
  <2>1. /\ s \in Seq(EventSet \cap ready) /\ ToSet(s) = ToSet(events) \cap ready /\ IsInjective(s)
        /\ t \in Seq(EventSet \cap Completed) /\ ToSet(t) = ToSet(events) \cap Completed /\ IsInjective(t)
    BY <1>4, OnlyPlaces, OnlyElems, OnlyNoRepeats
  <2>2. batch' = Reverse(s) \o Reverse(t)
    BY <1>2
  <2> HIDE DEF s, t
  <2>3. s \in Seq(EventSet) /\ t \in Seq(EventSet)
    BY <2>1
  <2>4. /\ Reverse(s) \in Seq(EventSet) /\ ToSet(Reverse(s)) = ready /\ IsInjective(Reverse(s))
        /\ Reverse(t) \in Seq(EventSet) /\ ToSet(Reverse(t)) = Completed /\ IsInjective(Reverse(t))
    BY <1>3, <1>5, <2>1, <2>3, ReverseElems DEF Added
  <2>5. ToSet(Reverse(s)) \cap ToSet(Reverse(t)) = {}
    BY <1>3, <2>4
  <2>6. QED
    BY <2>2, <2>4, <2>5, JoinElems DEF Ready
<1>8. /\ Completed' = Completed \cup ready
      /\ done' \in [Completed' -> Results]
      /\ \A x \in Completed : done'[x] = done[x]
      /\ \A x \in ready : done'[x] = IF x.cb = "input_ready" /\ wire = <<>> THEN "failed" ELSE "ok"
  <2>1. Completed' = Completed \cup ready
    BY <1>2 DEF Completed
  <2>2. /\ \A x \in Completed : done'[x] = done[x]
        /\ \A x \in ready : done'[x] = IF x.cb = "input_ready" /\ wire = <<>> THEN "failed" ELSE "ok"
    BY <1>2, <1>3
  <2>3. \A x \in Completed' : done'[x] \in Results
    BY <1>4, <2>1, <2>2 DEF Results
  <2>4. done' = [x \in Completed' |-> done'[x]]
    BY <1>2, <2>1
  <2>5. QED
    BY <2>1, <2>2, <2>3, <2>4
<1>9. /\ Ready' = Completed' /\ Added' = Added \ Completed'
      /\ Completed \subseteq Completed' /\ Completed' \subseteq Added
  BY <1>3, <1>5, <1>6, <1>7, <1>8
<1>10. \A x \in Completed' : x \notin Completed =>
          /\ x.cb \in {"output_ready", "input_ready"}
          /\ done'[x] = "ok" \/ (closed /\ wire = <<>>)
  BY <1>3, <1>8
<1>11. LoopTypes' /\ Once'
  <2>1. /\ Added' \cap Ready' = {} /\ Ready' \subseteq Completed' /\ Completed' \subseteq Linked'
        /\ \A e \in Added' : e \notin Completed'
    BY <1>4, <1>9
  <2>2. QED
    BY <1>6, <1>7, <1>8, <2>1 DEF LoopTypes, Once
<1>12. Linked' = Linked
  BY <1>4, <1>5, <1>9
<1>13. Reader' /\ Position' /\ (Parsing' <=> Parsing)
  <2>1. \A x \in {HeaderParsed, NodeParsed, TokenRead} : x.cb \notin {"output_ready", "input_ready"}
    BY EventNames
  <2>2. /\ \A x \in ReaderEvents : (x \in Linked' <=> x \in Linked) /\ (x \in Added' => x \in Added)
        /\ \A x \in {HeaderParsed, NodeParsed, TokenRead} :
              /\ x \in Completed' <=> x \in Completed
              /\ x \in Completed => done'[x] = done[x]
    BY <1>8, <1>9, <1>10, <1>12, <2>1
  <2>3. UNCHANGED inputVars
    BY <1>2
  <2>4. QED
    BY <1>4, <2>2, <2>3, ReaderKept
<1>14. Stream' = Stream /\ Frames' /\ parsed' = parsed
  BY <1>2 DEF Shape, Frames, Stream, inputVars
<1>15. DataTypes'
  BY <1>2, <1>4 DEF DataTypes, inputVars
<1>16. Chains'
  <2>1. \A m : Sent(m).cb \notin {"output_ready", "input_ready"}
               /\ Finish(m).cb \notin {"output_ready", "input_ready"}
    BY EventNames
  <2>2. \A m : /\ Awaits(Sent(m)) => Awaits(Sent(m))'
               /\ Awaits(Finish(m)) => Awaits(Finish(m))'
    BY <1>9, <1>10, <2>1 DEF Awaits
  <2>3. QED
    BY <1>2, <1>12, <2>2 DEF Shape, Chains
<1>17. Apart'
  <2>1. \A f \in owed : f.cb = "finish" /\ f \in Added /\ f \in Completed /\ NodeParsed \notin Linked
    BY <1>5 DEF Shape, Apart
  <2>2. QED
    BY <1>2, <1>4, <1>9, <1>12, <2>1 DEF Apart
<1>18. QED
  BY <1>5, <1>9, <1>8, <1>10, <1>11, <1>13, <1>14, <1>15, <1>16, <1>17 DEF Shape

\* What the remote does is seen by nobody before it is read.
LEMMA LoopKept ==
  ASSUME Shape, UNCHANGED <<events, done, batch, buffer, parsed, left, outcome, response_events, written, owed>>
  PROVE  /\ LoopTypes' /\ Once' /\ Reader' /\ Position' /\ Chains' /\ Apart'
         /\ Parsing' <=> Parsing
         /\ Added' = Added /\ Ready' = Ready /\ Linked' = Linked /\ Completed' = Completed
<1>1. Added' = Added /\ Ready' = Ready /\ Linked' = Linked /\ Completed' = Completed
  BY DEF Added, Ready, Linked, Completed
<1>2. Parsing' <=> Parsing
  BY <1>1 DEF Parsing
<1>3. LoopTypes' /\ Once' /\ Reader'
  BY <1>1 DEF Shape, LoopTypes, Once, Reader
<1>4. Position'
  BY <1>1, <1>2 DEF Shape, Position, Awaits
<1>5. Chains' /\ Apart'
  BY <1>1 DEF Shape, Chains, Awaits, Apart
<1>6. QED
  BY <1>1, <1>2, <1>3, <1>4, <1>5

\* A message m that is sent comes last.
Sends(m) ==
    /\ m \in Headers
    /\ Len(Stream') = Len(Stream) + Tokens + 1
    /\ \A i \in 1 .. Len(Stream) : Stream'[i] = Stream[i]
    /\ Stream'[Len(Stream) + 1] = m
    /\ \A i \in Len(Stream) + 2 .. Len(Stream') : Stream'[i] = NoId

\* That is what sending does, and nothing else.
LEMMA SendMoves ==
  ASSUME Shape, NEW m \in Headers, Send(m), ~closed,
         UNCHANGED <<events, done, batch, buffer, parsed, left, outcome, response_events, written, owed,
                     wire, closed>>,
         answers' \in [Calls -> Nat]
  PROVE  /\ Shape' /\ (Parsing' <=> Parsing)
         /\ Added' = Added /\ Ready' = Ready /\ Linked' = Linked /\ Completed' = Completed
         /\ Sends(m)
<1>1. DataTypes /\ Framed(Stream, left) /\ Whole(Stream, left)
  BY DEF Shape, Frames
<1>2. /\ outbox' \in Seq(Items) /\ Stream' \in Seq(Items)
      /\ Sends(m)
  BY <1>1, StreamSent DEF Sends
<1>3. Stream \in Seq(Items) /\ left \in Nat
  BY <1>1, StreamTypes DEF DataTypes
<1>4. Framed(Stream', left) /\ Whole(Stream', left)
  <2> DEFINE s == Stream
             t == Stream'
  <2>1. /\ s \in Seq(Items) /\ Framed(s, left) /\ Whole(s, left) /\ t \in Seq(Items)
        /\ Len(t) = Len(s) + Tokens + 1
        /\ \A i \in 1 .. Len(s) : t[i] = s[i]
        /\ t[Len(s) + 1] = m
        /\ \A i \in Len(s) + 2 .. Len(t) : t[i] = NoId
    BY <1>1, <1>2, <1>3 DEF Sends
  <2> HIDE DEF s, t
  <2>2. Framed(t, left) /\ Whole(t, left)
    BY <1>3, <2>1, MessageFramed
  <2>3. QED
    BY <2>2 DEF t
<1>5. Frames'
  BY <1>4 DEF Frames
<1>6. DataTypes'
  BY <1>1, <1>2 DEF DataTypes
<1>7. QED
  BY <1>2, <1>5, <1>6, LoopKept DEF Shape

\* The remote answers a call,
LEMMA AnswerMoves ==
  ASSUME Shape, NEW c \in Calls, NEW type \in {"result", "error"}, Answer(c, type)
  PROVE  /\ Shape' /\ (Parsing' <=> Parsing) /\ parsed' = parsed
         /\ Added' = Added /\ Ready' = Ready /\ Linked' = Linked /\ Completed' = Completed
         /\ \E m \in Headers : m.id = c /\ Sends(m)
<1> DEFINE m == [type |-> type, id |-> c]
<1>1. m \in Headers /\ m.id = c
  BY DEF Headers
<1>2. /\ ~closed /\ Send(m) /\ answers' = [answers EXCEPT ![c] = @ + 1]
      /\ UNCHANGED <<events, done, batch, buffer, parsed, left, outcome, response_events, written, owed,
                     wire, closed>>
  BY DEF Answer, loopVars, inputVars, callVars
<1>3. answers' \in [Calls -> Nat]
  BY <1>2 DEF Shape, DataTypes
<1> HIDE DEF m
<1>4. QED
  BY <1>1, <1>2, <1>3, SendMoves

\* or sends what is no answer.
LEMMA NotifyMoves ==
  ASSUME Shape, NEW type \in {"notice", "invalid"}, Notify(type)
  PROVE  /\ Shape' /\ (Parsing' <=> Parsing) /\ parsed' = parsed
         /\ Added' = Added /\ Ready' = Ready /\ Linked' = Linked /\ Completed' = Completed
         /\ \E m \in Headers : m.id = NoId /\ Sends(m)
<1> DEFINE m == [type |-> type, id |-> NoId]
<1>1. m \in Headers /\ m.id = NoId
  BY DEF Headers, Notify
<1>2. /\ ~closed /\ Send(m)
      /\ UNCHANGED <<events, done, batch, buffer, parsed, left, outcome, response_events, written, owed,
                     wire, closed, answers>>
  BY DEF Notify, loopVars, inputVars, callVars
<1>3. answers' \in [Calls -> Nat]
  BY <1>2 DEF Shape, DataTypes
<1> HIDE DEF m
<1>4. QED
  BY <1>1, <1>2, <1>3, SendMoves

\* What it sent arrives.
LEMMA TransmitMoves ==
  ASSUME Shape, Transmit
  PROVE  /\ Shape' /\ (Parsing' <=> Parsing) /\ parsed' = parsed /\ Stream' = Stream
         /\ Added' = Added /\ Ready' = Ready /\ Linked' = Linked /\ Completed' = Completed
<1>1. /\ outbox # <<>> /\ wire' = Append(wire, Head(outbox)) /\ outbox' = Tail(outbox)
      /\ UNCHANGED <<events, done, batch, buffer, parsed, left, outcome, response_events, written, owed,
                     closed, answers>>
  BY DEF Transmit, loopVars, inputVars, callVars
<1>2. DataTypes
  BY DEF Shape
<1>3. Stream' = Stream /\ wire' \in Seq(Items) /\ outbox' \in Seq(Items)
  BY <1>1, <1>2, StreamKept
<1>4. Frames' /\ DataTypes'
  BY <1>1, <1>2, <1>3 DEF Shape, Frames, DataTypes
<1>5. QED
  BY <1>1, <1>3, <1>4, LoopKept DEF Shape

\* It goes away: what it did not transmit is cut off.
LEMMA DisconnectMoves ==
  ASSUME Shape, Disconnect
  PROVE  /\ Shape' /\ (Parsing' <=> Parsing) /\ parsed' = parsed
         /\ Added' = Added /\ Ready' = Ready /\ Linked' = Linked /\ Completed' = Completed
         /\ Stream' \in Seq(Items) /\ Len(Stream') <= Len(Stream)
         /\ \A i \in 1 .. Len(Stream') : Stream'[i] = Stream[i]
<1>1. /\ closed' = TRUE /\ outbox' = <<>>
      /\ UNCHANGED <<events, done, batch, buffer, parsed, left, outcome, response_events, written, owed,
                     wire, answers>>
  BY DEF Disconnect, loopVars, inputVars, callVars
<1>2. DataTypes /\ Framed(Stream, left) /\ left \in Nat
  BY DEF Shape, Frames, DataTypes
<1> DEFINE s == buffer \o wire
<1>3. /\ s \in Seq(Items) /\ outbox \in Seq(Items) /\ Stream = s \o outbox
  BY <1>2, ItemsJoin DEF DataTypes, Stream
<1>4. Stream' = s
  <2>1. Stream' = s \o <<>>
    BY <1>1 DEF Stream
  <2> HIDE DEF s
  <2>2. s \o <<>> = s
    BY <1>3
  <2>3. QED
    BY <2>1, <2>2
<1> HIDE DEF s
<1>5. Framed(s, left)
  BY <1>2, <1>3, CutIsFramed
<1>6. Frames'
  BY <1>1, <1>4, <1>5 DEF Frames
<1>7. DataTypes'
  BY <1>1, <1>2, EmptyElems DEF DataTypes
<1>8. Len(s) <= Len(s \o outbox) /\ \A i \in 1 .. Len(s) : (s \o outbox)[i] = s[i]
  BY <1>3, JoinPlaces
<1>9. QED
  BY <1>1, <1>3, <1>4, <1>6, <1>7, <1>8, LoopKept DEF Shape

\* Its end is noticed.
LEMMA ReapMoves ==
  ASSUME Shape, Reap
  PROVE  /\ Shape' /\ (Parsing' <=> Parsing) /\ parsed' = parsed /\ Stream' = Stream
         /\ Added' = Added /\ Ready' = Ready /\ Linked' = Linked
         /\ Completed' = Completed \cup {Exited}
         /\ \A x \in Completed : done'[x] = done[x]
<1>1. /\ Exited \in Added /\ Exited \notin Completed /\ done' = With(done, Exited, "ok")
      /\ UNCHANGED <<events, batch, inputVars, outcome, response_events, written, owed, wire, outbox,
                     closed, answers>>
  BY DEF Reap, Pending, Added, callVars, remoteVars
<1>2. /\ Completed' = Completed \cup {Exited}
      /\ \A x \in Completed : done'[x] = done[x]
      /\ done' \in [Completed' -> Results]
  BY <1>1 DEF With, Completed, Shape, LoopTypes, Results
<1>3. Added' = Added /\ Ready' = Ready /\ Linked' = Linked
  BY <1>1 DEF Added, Ready, Linked
<1>4. /\ LoopTypes /\ Once /\ Reader /\ Position /\ Linked = Added \cup Ready
  BY DEF Shape, Linked, Added, Ready
<1>5. LoopTypes' /\ Once'
  <2>1. Exited.cb \notin {"output_ready", "input_ready"}
    BY EventNames
  <2>2. QED
    BY <1>1, <1>2, <1>3, <1>4, <2>1 DEF LoopTypes, Once
<1>6. Reader' /\ Position' /\ (Parsing' <=> Parsing)
  <2>1. \A x \in {HeaderParsed, NodeParsed, TokenRead} : x # Exited
    BY EventNames
  <2>2. /\ \A x \in ReaderEvents : (x \in Linked' <=> x \in Linked) /\ (x \in Added' => x \in Added)
        /\ \A x \in {HeaderParsed, NodeParsed, TokenRead} :
              /\ x \in Completed' <=> x \in Completed
              /\ x \in Completed => done'[x] = done[x]
    BY <1>2, <1>3, <2>1
  <2>3. UNCHANGED inputVars
    BY <1>1
  <2>4. QED
    BY <1>4, <2>2, <2>3, ReaderKept
<1>7. Stream' = Stream /\ Frames' /\ DataTypes' /\ parsed' = parsed
  BY <1>1 DEF Shape, Frames, Stream, DataTypes, inputVars
<1>8. Chains'
  <2>1. \A m : Sent(m) # Exited /\ Finish(m) # Exited
    BY EventNames
  <2>2. QED
    BY <1>1, <1>2, <1>3, <2>1 DEF Shape, Chains, Awaits
<1>9. Apart'
  BY <1>1, <1>2, <1>3 DEF Shape, Apart
<1>10. QED
  BY <1>2, <1>3, <1>5, <1>6, <1>7, <1>8, <1>9 DEF Shape

----------------------------------------------------------------------------
(* What holds whatever the remote does.                                    *)

\* The listening loop has started and waits for a header.
LEMMA InitShape ==
  ASSUME Init
  PROVE  /\ Shape /\ Stream = <<>> /\ ~Parsing /\ Completed = {} /\ Ready = {}
         /\ Added = {HeaderParsed, InputReady(HeaderParsed), Exited}
<1> DEFINE three == <<HeaderParsed, InputReady(HeaderParsed), Exited>>
           S == {HeaderParsed, InputReady(HeaderParsed), Exited}
<1>1. three \in Seq(EventSet) /\ ToSet(three) = S /\ IsInjective(three)
  <2>1. HeaderParsed \in EventSet /\ InputReady(HeaderParsed) \in EventSet /\ Exited \in EventSet
    BY EventsAreEvents DEF ReaderEvents
  <2>2. HeaderParsed # InputReady(HeaderParsed) /\ HeaderParsed # Exited /\ InputReady(HeaderParsed) # Exited
    BY EventNames
  <2>3. /\ three \in Seq(EventSet) /\ DOMAIN three = 1 .. 3
        /\ three[1] = HeaderParsed /\ three[2] = InputReady(HeaderParsed) /\ three[3] = Exited
    BY <2>1
  <2>4. \A i \in 1 .. 3 : i = 1 \/ i = 2 \/ i = 3
    OBVIOUS
  <2> HIDE DEF three
  <2>5. ToSet(three) = S /\ IsInjective(three)
    BY <2>2, <2>3, <2>4 DEF ToSet, IsInjective
  <2>6. QED
    BY <2>3, <2>5
<1>2. events = three
  BY DEF Init
<1> HIDE DEF three
<1>3. /\ batch = <<>> /\ done = <<>> /\ buffer = <<>> /\ wire = <<>> /\ outbox = <<>> /\ written = {}
      /\ left = 0 /\ owed = {} /\ response_events = {} /\ closed = FALSE
      /\ outcome = [m \in Outgoing |-> "none"] /\ answers = [c \in Calls |-> 0]
  BY DEF Init
<1>4. Added = S /\ Ready = {} /\ Linked = S /\ Completed = {}
  <2>1. ToSet(batch) = {} /\ DOMAIN done = {}
    BY <1>3 DEF ToSet
  <2>2. QED
    BY <1>1, <1>2, <2>1 DEF Added, Ready, Linked, Completed
<1>5. LoopTypes
  <2>1. batch \in Seq(EventSet) /\ done \in [{} -> Results]
    BY <1>3
  <2>2. QED
    BY <1>1, <1>2, <1>4, <2>1 DEF LoopTypes
<1>6. DataTypes
  <2>1. <<>> \in Seq(Items)
    OBVIOUS
  <2>2. outcome \in [Outgoing -> {"none", "pending"} \cup Results] /\ answers \in [Calls -> Nat]
    BY <1>3
  <2>3. left \in Nat /\ closed \in BOOLEAN
    BY <1>3
  <2>4. QED
    BY <1>3, <2>1, <2>2, <2>3 DEF DataTypes
<1>7. Once
  <2>1. IsInjective(batch)
    BY <1>3 DEF IsInjective
  <2>2. QED
    BY <1>1, <1>2, <1>4, <2>1 DEF Once
<1>8. Reader
  <2>1. ReaderEvents \cap S = {HeaderParsed, InputReady(HeaderParsed)}
    BY EventNames DEF ReaderEvents
  <2>2. QED
    BY <1>4, <2>1 DEF Reader
<1>9. ~Parsing
  BY <1>4, EventNames DEF Parsing
<1>10. Position
  <2>1. InputReady(TokenRead) \notin S
    BY EventNames
  <2>2. QED
    BY <1>3, <1>4, <1>9, <2>1 DEF Position
<1>11. Stream = <<>>
  BY <1>3 DEF Stream
<1>12. Frames
  BY <1>3, <1>11 DEF Frames, Framed, Whole
<1>13. Chains
  <2>1. \A m : OutputReady(m) \notin S /\ Sent(m) \notin S /\ Finish(m) \notin S
    BY EventNames
  <2>2. \A m : m \notin written
    BY <1>3
  <2>3. QED
    BY <1>3, <1>4, <2>1, <2>2 DEF Chains
<1>14. Apart
  BY <1>3 DEF Apart
<1>15. QED
  BY <1>4, <1>5, <1>6, <1>7, <1>8, <1>9, <1>10, <1>11, <1>12, <1>13, <1>14 DEF Shape

\* Every step keeps the loop and the stream in shape.
LEMMA StepShape == Shape /\ [Next]_vars => Shape'
<1> SUFFICES ASSUME Shape, [Next]_vars PROVE Shape'
  OBVIOUS
<1>1. CASE UNCHANGED vars
  <2>1. UNCHANGED <<events, done, batch, buffer, parsed, left, outcome, response_events, written, owed,
                    wire, outbox, closed, answers>>
    BY <1>1 DEF vars, loopVars, inputVars, callVars, remoteVars
  <2>2. Frames' /\ DataTypes'
    BY <2>1 DEF Shape, Frames, Stream, DataTypes
  <2>3. QED
    BY <2>1, <2>2, LoopKept DEF Shape
<1>2. ASSUME NEW m \in Outgoing, Start(m) \/ OnOutputReady(m) \/ OnFinish(m) PROVE Shape'
  BY <1>2, StartMoves, OutputReadyMoves, FinishMoves
<1>3. ASSUME NEW m \in Outgoing, NEW r \in {"ok", "failed"}, OnSendEnded(m, r) PROVE Shape'
  BY <1>3, SendEndedMoves
<1>4. ASSUME NEW c \in Calls, OnSent(c) \/ OnSentLate(c) PROVE Shape'
  BY <1>4, SentMoves, SentLateMoves
<1>5. ASSUME NEW target \in {HeaderParsed, TokenRead}, OnInputReady(target) \/ OnInputFailed(target)
      PROVE  Shape'
  BY <1>5, InputMoves
<1>6. CASE OnHeader \/ OnToken
  BY <1>6, TokenAsked
<1>7. CASE OnHeaderFailed \/ OnNodeFailed \/ OnInvalid
  BY <1>7, EndMoves
<1>8. ASSUME NEW r \in {"ok", "failed"}, OnLastToken(r) PROVE Shape'
  BY <1>8, LastTokenMoves
<1>9. CASE OnResponse \/ OnUnknownResponse \/ OnNotice
  BY <1>9, DispatchMoves
<1>10. CASE OnExited
  BY <1>10, ExitedMoves
<1>11. CASE Iterate \/ Transmit \/ Reap \/ Disconnect
  BY <1>11, IterateMoves, TransmitMoves, ReapMoves, DisconnectMoves
<1>12. ASSUME NEW c \in Calls, NEW type \in {"result", "error"}, Answer(c, type) PROVE Shape'
  BY <1>12, AnswerMoves
<1>13. ASSUME NEW type \in {"notice", "invalid"}, Notify(type) PROVE Shape'
  BY <1>13, NotifyMoves
<1>14. QED
  BY <1>1, <1>2, <1>3, <1>4, <1>5, <1>6, <1>7, <1>8, <1>9, <1>10, <1>11, <1>12, <1>13
     DEF Next, Callback, RemoteStep

\* So the loop and the stream are always in shape.
LEMMA AlwaysShape == Spec => []Shape
BY InitShape, StepShape, PTL DEF Spec

\* At most one of the two reads of the input stream is under way, and at most
\* one header or node is parsed: jsonrpc_server_parse_header_async() and
\* listen_parse_header_cb() take turns.
THEOREM OneReaderAlways == Spec => []OneReader
<1>1. ASSUME Shape PROVE OneReader
  <2> DEFINE all == events \o batch
  <2>1. /\ all \in Seq(EventSet) /\ ToSet(all) = Linked /\ IsInjective(all)
    BY <1>1, JoinElems DEF Shape, LoopTypes, Once, Linked, Added, Ready
  <2> HIDE DEF all
  <2>2. ASSUME NEW S, NEW x, S \cap Linked \subseteq {x}
        PROVE  Len(Only(all, S)) <= 1
    <3> DEFINE s == Only(all, S)
    <3>1. /\ s \in Seq(EventSet \cap S) /\ ToSet(s) = Linked \cap S /\ IsInjective(s)
      BY <2>1, OnlyPlaces, OnlyElems, OnlyNoRepeats
    <3> HIDE DEF s
    <3>2. /\ Len(s) \in Nat /\ DOMAIN s = 1 .. Len(s)
          /\ \A i \in 1 .. Len(s) : s[i] = x
      BY <2>2, <3>1 DEF ToSet
    <3>3. ASSUME Len(s) > 1 PROVE FALSE
      <4>1. 1 \in DOMAIN s /\ 2 \in DOMAIN s /\ s[1] = s[2]
        BY <3>2, <3>3
      <4>2. QED
        BY <3>1, <4>1 DEF IsInjective
    <3>4. QED
      BY <3>2, <3>3 DEF s
  <2>3. \E x : {InputReady(HeaderParsed), InputReady(TokenRead)} \cap Linked \subseteq {x}
    BY <1>1, EventNames DEF Shape, Reader, ReaderEvents
  <2>4. \E x : {HeaderParsed, NodeParsed} \cap Linked \subseteq {x}
    BY <1>1, EventNames DEF Shape, Reader, ReaderEvents
  <2>5. QED
    BY <2>2, <2>3, <2>4 DEF OneReader, all
<1>2. QED
  BY <1>1, AlwaysShape, PTL

\* When a node is dispatched, every event that the dispatch before it
\* completed was called back.
THEOREM HandlersApartAlways == Spec => []HandlersApart
<1>1. ASSUME Shape PROVE HandlersApart
  <2>1. SUFFICES ASSUME batch # <<>>, Head(batch) = NodeParsed PROVE owed = {}
    BY DEF HandlersApart
  <2>2. NodeParsed \in Ready /\ NodeParsed \in Linked
    BY <1>1, <2>1 DEF Shape, LoopTypes, Ready, Linked, ToSet
  <2>3. QED
    BY <1>1, <2>2 DEF Shape, Apart
<1>2. QED
  BY <1>1, AlwaysShape, PTL

----------------------------------------------------------------------------
(* The end of the input.                                                   *)

\* The callback of an event of the listening loop leaves no failure of that
\* loop behind but its own.
LEMMA ReaderFailures ==
  ASSUME Shape, NEW e \in ReaderEvents, e \in Ready, NEW A, NEW C, Moved(e, A, C),
         closed' => outbox' = <<>>,
         \A x \in C \cap ReaderEvents : done'[x] = "ok" \/ (Exhausted' /\ left' > 0)
  PROVE  Failures'
<1>1. e \in Completed /\ \A x \in ReaderEvents : x # e => x \notin Completed
  <2>1. /\ ReaderEvents = {HeaderParsed, NodeParsed, TokenRead, InputReady(HeaderParsed), InputReady(TokenRead)}
        /\ Ready \subseteq Completed /\ Completed \subseteq Linked
    BY DEF ReaderEvents, Shape, Once
  <2>2. QED
    BY <2>1, WhereItIs
<1>2. \A x \in ReaderEvents : Failed(x)' => Exhausted' /\ left' > 0
  BY <1>1 DEF Failed, Moved
<1>3. /\ HeaderParsed \in ReaderEvents /\ NodeParsed \in ReaderEvents /\ TokenRead \in ReaderEvents
      /\ \A x \in {HeaderParsed, TokenRead} : InputReady(x) \in ReaderEvents
  BY DEF ReaderEvents
<1>4. QED
  BY <1>2, <1>3 DEF Failures

\* Other steps neither read nor tell a failure of that loop.
LEMMA OtherFailures ==
  ASSUME Failures, UNCHANGED <<closed, outbox, wire, buffer, left>>,
         \A x \in ReaderEvents : x \in Completed' => x \in Completed /\ done'[x] = done[x]
  PROVE  Failures'
<1>1. \A x \in ReaderEvents : Failed(x)' => Failed(x)
  BY DEF Failed
<1>2. /\ HeaderParsed \in ReaderEvents /\ NodeParsed \in ReaderEvents /\ TokenRead \in ReaderEvents
      /\ \A x \in {HeaderParsed, TokenRead} : InputReady(x) \in ReaderEvents
  BY DEF ReaderEvents
<1>3. QED
  BY <1>1, <1>2 DEF Failures, Exhausted

\* Nothing failed before the remote went away.
LEMMA OpenFailures ==
  ASSUME Failures, ~closed, UNCHANGED done, closed' => outbox' = <<>>
  PROVE  Failures'
<1>1. \A x : Failed(x)' => Failed(x)
  BY DEF Failed, Completed
<1>2. QED
  BY <1>1 DEF Failures, Exhausted

\* A failure of the listening loop is the end of the input.
LEMMA StepFailures == Shape /\ Failures /\ [Next]_vars => Failures'
<1> SUFFICES ASSUME Shape, Failures, [Next]_vars PROVE Failures'
  OBVIOUS
<1>1. /\ Linked = Added \cup Ready /\ Linked' = Added' \cup Ready'
      /\ Ready \subseteq Completed /\ Position
      /\ closed => outbox = <<>>
  BY DEF Linked, Added, Ready, Shape, Once, Failures
<1>2. /\ HeaderParsed \in ReaderEvents /\ NodeParsed \in ReaderEvents /\ TokenRead \in ReaderEvents
      /\ \A x \in {HeaderParsed, TokenRead} : InputReady(x) \in ReaderEvents
      /\ \A m : OutputReady(m) \notin ReaderEvents /\ Sent(m) \notin ReaderEvents /\ Finish(m) \notin ReaderEvents
      /\ Exited \notin ReaderEvents
      /\ \A x, y : InputReady(x) # HeaderParsed /\ InputReady(x) # NodeParsed /\ InputReady(x) # TokenRead
  BY EventNames DEF ReaderEvents
<1>3. CASE UNCHANGED vars
  BY <1>3, OtherFailures DEF vars, loopVars, inputVars, remoteVars, Completed
<1>4. ASSUME NEW e, NEW A, NEW C, Moved(e, A, C), C \cap ReaderEvents = {},
             UNCHANGED <<closed, outbox, wire, buffer, left>>
      PROVE  Failures'
  BY <1>4, OtherFailures DEF Moved
<1>5. ASSUME NEW m \in Outgoing, Start(m) PROVE Failures'
  BY <1>5, OtherFailures DEF Start, inputVars, remoteVars, Completed
<1>6. ASSUME NEW m \in Outgoing, OnOutputReady(m) PROVE Failures'
  <2>1. Moved(OutputReady(m), {}, {Sent(m)}) /\ UNCHANGED <<closed, outbox, wire, buffer, left>>
    BY <1>6, OutputReadyMoves DEF OnOutputReady, inputVars, remoteVars
  <2>2. QED
    BY <1>2, <1>4, <2>1
<1>7. ASSUME NEW m \in Outgoing, OnFinish(m) PROVE Failures'
  <2>1. Moved(Finish(m), {}, {}) /\ UNCHANGED <<closed, outbox, wire, buffer, left>>
    BY <1>7, FinishMoves DEF OnFinish, inputVars, remoteVars
  <2>2. QED
    BY <1>4, <2>1
<1>8. ASSUME NEW m \in Outgoing, NEW r \in {"ok", "failed"}, OnSendEnded(m, r) PROVE Failures'
  <2>1. Moved(Sent(m), {}, {Finish(m)}) /\ UNCHANGED <<closed, outbox, wire, buffer, left>>
    BY <1>8, SendEndedMoves DEF OnSendEnded, inputVars, remoteVars
  <2>2. QED
    BY <1>2, <1>4, <2>1
<1>9. ASSUME NEW c \in Calls, OnSent(c) PROVE Failures'
  <2>1. Moved(Sent(c), {}, {}) /\ UNCHANGED <<closed, outbox, wire, buffer, left>>
    BY <1>9, SentMoves DEF OnSent, inputVars, remoteVars
  <2>2. QED
    BY <1>4, <2>1
<1>10. ASSUME NEW c \in Calls, OnSentLate(c) PROVE Failures'
  <2>1. Moved(Sent(c), {}, {Finish(c)}) /\ UNCHANGED <<closed, outbox, wire, buffer, left>>
    BY <1>10, SentLateMoves DEF OnSentLate, inputVars, remoteVars
  <2>2. QED
    BY <1>2, <1>4, <2>1
<1>11. CASE OnExited
  <2>1. Moved(Exited, {}, {}) /\ UNCHANGED <<closed, outbox, wire, buffer, left>>
    BY <1>11, ExitedMoves DEF OnExited, inputVars, remoteVars
  <2>2. QED
    BY <1>4, <2>1
<1>12. ASSUME NEW target \in {HeaderParsed, TokenRead}, OnInputReady(target) \/ OnInputFailed(target)
       PROVE  Failures'
  <2> DEFINE e == InputReady(target)
  <2>1. /\ e \in Ready /\ e \in ReaderEvents
        /\ Moved(e, {}, {target})
        /\ \/ done'[target] = "ok"
           \/ done'[target] = "failed" /\ done[e] = "failed"
    BY <1>2, <1>12, InputMoves
  <2>2. UNCHANGED <<closed, outbox>>
    BY <1>12 DEF OnInputReady, OnInputFailed, remoteVars
  <2>3. CASE done'[target] = "ok"
    BY <1>1, <2>1, <2>2, <2>3, ReaderFailures
  <2>4. CASE target = TokenRead /\ done'[target] = "failed" /\ done[e] = "failed"
    <3>1. e \in Completed /\ e \in Linked
      BY <1>1, <2>1
    <3>2. Exhausted /\ left > 0
      BY <2>4, <3>1 DEF Failures, Failed, Shape, Position
    <3>3. ~OnInputReady(target)
      BY <2>4 DEF OnInputReady, Run
    <3>4. Exhausted' /\ left' > 0
      BY <1>12, <3>2, <3>3 DEF OnInputFailed, Exhausted, inputVars, remoteVars
    <3>5. QED
      BY <1>1, <2>1, <2>2, <3>4, ReaderFailures
  <2>5. CASE target = HeaderParsed
    <3>1. e \in Completed /\ \A x \in ReaderEvents : x # e => x \notin Completed
      <4>1. /\ ReaderEvents \cap Linked = {HeaderParsed, e} /\ HeaderParsed \notin Completed
            /\ Completed \subseteq Linked
        BY <2>1, <2>5, WhereItIs DEF Shape, Once
      <4>2. QED
        BY <1>1, <2>1, <4>1
    <3>2. \A x \in ReaderEvents : x \in Completed' => x = HeaderParsed
      BY <2>1, <2>5, <3>1 DEF Moved
    <3>3. HeaderParsed # NodeParsed /\ HeaderParsed # TokenRead
      BY EventNames
    <3>4. QED
      BY <1>1, <1>2, <2>2, <3>2, <3>3 DEF Failures, Failed
  <2>6. QED
    BY <2>1, <2>3, <2>4, <2>5
<1>13. CASE OnHeader \/ OnToken
  <2>1. UNCHANGED <<closed, outbox>>
    BY <1>13 DEF OnHeader, OnToken, remoteVars
  <2>2. PICK e \in {HeaderParsed, TokenRead}, A \in SUBSET ReaderEvents, C \in SUBSET {TokenRead} :
           /\ e \in Ready /\ Moved(e, A, C) /\ NodeParsed \in Linked'
           /\ \A x \in C : done'[x] = "ok"
    BY <1>13, TokenAsked
  <2>3. QED
    BY <1>1, <1>2, <2>1, <2>2, ReaderFailures
<1>14. CASE OnHeaderFailed \/ OnNodeFailed \/ OnInvalid
  <2>1. UNCHANGED <<closed, outbox>>
    BY <1>14 DEF OnHeaderFailed, OnNodeFailed, OnInvalid, remoteVars
  <2>2. PICK e \in {HeaderParsed, NodeParsed} : e \in Ready /\ Moved(e, {}, {})
    BY <1>14, EndMoves
  <2>3. QED
    BY <1>1, <1>2, <2>1, <2>2, ReaderFailures
<1>15. ASSUME NEW r \in {"ok", "failed"}, OnLastToken(r) PROVE Failures'
  <2>1. /\ TokenRead \in Ready /\ done[TokenRead] = r
        /\ Moved(TokenRead, {}, {NodeParsed}) /\ done'[NodeParsed] = r
    BY <1>15, LastTokenMoves
  <2>2. UNCHANGED <<closed, outbox, wire, buffer, left>>
    BY <1>15 DEF OnLastToken, inputVars, remoteVars
  <2>3. r = "failed" => Exhausted /\ left > 0
    BY <1>1, <2>1 DEF Failures, Failed
  <2>4. r = "ok" \/ (Exhausted' /\ left' > 0)
    BY <2>2, <2>3 DEF Exhausted
  <2>5. QED
    BY <1>1, <1>2, <2>1, <2>2, <2>4, ReaderFailures
<1>16. CASE OnResponse \/ OnUnknownResponse \/ OnNotice
  <2>1. UNCHANGED <<closed, outbox>>
    BY <1>16 DEF OnResponse, OnUnknownResponse, OnNotice, remoteVars
  <2>2. PICK F : \E A \in SUBSET ReaderEvents, C \in SUBSET (F \cup {HeaderParsed}) :
               /\ \A x \in F : /\ OnResponse /\ Awaits(x) /\ x = Finish(parsed.id)
                               /\ parsed.id \in Calls \cap response_events
               /\ F \subseteq C /\ Moved(NodeParsed, A, C)
               /\ HeaderParsed \in C => done'[HeaderParsed] = "ok"
    BY <1>16, DispatchMoves
  <2>3. PICK A \in SUBSET ReaderEvents, C \in SUBSET (F \cup {HeaderParsed}) :
               /\ \A x \in F : x = Finish(parsed.id)
               /\ Moved(NodeParsed, A, C)
               /\ HeaderParsed \in C => done'[HeaderParsed] = "ok"
    BY <2>2
  <2>4. \A x \in C \cap ReaderEvents : done'[x] = "ok"
    BY <1>2, <2>3
  <2>5. NodeParsed \in Ready
    BY <1>16, DispatchMoves
  <2>6. QED
    BY <1>1, <1>2, <2>1, <2>3, <2>4, <2>5, ReaderFailures
<1>17. CASE Iterate
  <2>1. UNCHANGED <<closed, outbox, wire, buffer, left>>
    BY <1>17 DEF Iterate, inputVars, remoteVars
  <2>2. /\ Completed' \subseteq Added
        /\ \A x \in Completed : done'[x] = done[x]
        /\ \A x \in Completed' : x \notin Completed =>
              /\ x.cb \in {"output_ready", "input_ready"}
              /\ done'[x] = "ok" \/ (closed /\ wire = <<>>)
    BY <1>17, IterateMoves
  <2>3. \A x \in {TokenRead, NodeParsed} : Failed(x)' => Failed(x)
    BY <2>2, EventNames DEF Failed
  <2>4. ASSUME NEW x \in {HeaderParsed, TokenRead}, Failed(InputReady(x))' PROVE Exhausted
    <3>1. CASE InputReady(x) \in Completed
      BY <2>2, <2>4, <3>1 DEF Failed, Failures
    <3>2. CASE InputReady(x) \notin Completed
      <4>1. closed /\ wire = <<>> /\ InputReady(x) \in Linked
        BY <1>1, <2>2, <2>4, <3>2 DEF Failed
      <4>2. QED
        BY <1>1, <4>1 DEF Position, Exhausted
    <3>3. QED
      BY <3>1, <3>2
  <2>5. QED
    BY <2>1, <2>3, <2>4 DEF Failures, Exhausted
<1>18. CASE Transmit \/ Disconnect
  BY <1>1, <1>18, OpenFailures DEF Transmit, Disconnect, loopVars
<1>19. ASSUME NEW c \in Calls, NEW type \in {"result", "error"}, Answer(c, type) PROVE Failures'
  BY <1>19, OpenFailures DEF Answer, loopVars
<1>20. ASSUME NEW type \in {"notice", "invalid"}, Notify(type) PROVE Failures'
  BY <1>20, OpenFailures DEF Notify, loopVars
<1>21. CASE Reap
  <2>1. UNCHANGED <<closed, outbox, wire, buffer, left>>
    BY <1>21 DEF Reap, inputVars, remoteVars
  <2>2. /\ Completed' = Completed \cup {Exited}
        /\ \A x \in Completed : done'[x] = done[x]
    BY <1>21, ReapMoves
  <2>3. QED
    BY <1>2, <2>1, <2>2, OtherFailures
<1>22. QED
  BY <1>3, <1>5, <1>6, <1>7, <1>8, <1>9, <1>10, <1>11, <1>12, <1>13, <1>14, <1>15, <1>16, <1>17,
     <1>18, <1>19, <1>20, <1>21
     DEF Next, Callback, RemoteStep

\* A step that leaves the header and the node linked as they were, and does
\* not read, leaves the loop as it was.
LEMMA ArmedKept ==
  ASSUME ListeningIsArmed, UNCHANGED <<closed, wire, buffer, parsed, left, is_listening>>,
         \A e \in {HeaderParsed, NodeParsed} : (e \in Linked' <=> e \in Linked)
  PROVE  ListeningIsArmed'
BY DEF ListeningIsArmed, Reading, BailedOut, CutShort

\* The listening loop goes on, or ends as those returns end it.
LEMMA StepArmed == Shape /\ Failures /\ ListeningIsArmed /\ [Next]_vars => ListeningIsArmed'
<1> SUFFICES ASSUME Shape, Failures, ListeningIsArmed, [Next]_vars PROVE ListeningIsArmed'
  OBVIOUS
<1>1. /\ Linked = Added \cup Ready /\ Linked' = Added' \cup Ready' /\ Added \cap Ready = {}
      /\ Ready \subseteq Completed /\ Completed \subseteq Linked /\ Position
  BY DEF Linked, Added, Ready, Shape, Once
<1>2. /\ HeaderParsed \in ReaderEvents /\ NodeParsed \in ReaderEvents /\ TokenRead \in ReaderEvents
      /\ \A x : InputReady(x) # HeaderParsed /\ InputReady(x) # NodeParsed
      /\ \A m : /\ OutputReady(m) \notin {HeaderParsed, NodeParsed}
                /\ Sent(m) \notin {HeaderParsed, NodeParsed}
                /\ Finish(m) \notin {HeaderParsed, NodeParsed}
      /\ TokenRead \notin {HeaderParsed, NodeParsed} /\ HeaderParsed # NodeParsed
  BY EventNames DEF ReaderEvents
<1>3. CASE UNCHANGED vars
  BY <1>3, ArmedKept DEF vars, loopVars, inputVars, remoteVars, Linked
<1>4. ASSUME NEW e, NEW C, Moved(e, {}, C), e \in Ready, e \notin {HeaderParsed, NodeParsed},
             UNCHANGED <<closed, wire, buffer, parsed, left, is_listening>>
      PROVE  ListeningIsArmed'
  BY <1>1, <1>4, ArmedKept DEF Moved
<1>5. ASSUME NEW m \in Outgoing, Start(m) PROVE ListeningIsArmed'
  <2>1. Added' = Added \cup {Finish(m), Sent(m), OutputReady(m)} /\ Ready' = Ready
    BY <1>5, StartMoves DEF Ready
  <2>2. \A e \in {HeaderParsed, NodeParsed} : (e \in Linked' <=> e \in Linked)
    BY <1>1, <1>2, <2>1
  <2>3. UNCHANGED <<closed, wire, buffer, parsed, left, is_listening>>
    BY <1>5 DEF Start, inputVars, remoteVars
  <2>4. QED
    BY <2>2, <2>3, ArmedKept
<1>6. ASSUME NEW m \in Outgoing, OnOutputReady(m) PROVE ListeningIsArmed'
  <2>1. OutputReady(m) \in Ready /\ Moved(OutputReady(m), {}, {Sent(m)})
    BY <1>6, OutputReadyMoves
  <2>2. UNCHANGED <<closed, wire, buffer, parsed, left, is_listening>>
    BY <1>6 DEF OnOutputReady, inputVars, remoteVars
  <2>3. QED
    BY <1>2, <1>4, <2>1, <2>2
<1>7. ASSUME NEW m \in Outgoing, OnFinish(m) PROVE ListeningIsArmed'
  <2>1. Finish(m) \in Ready /\ Moved(Finish(m), {}, {})
    BY <1>7, FinishMoves DEF OnFinish, Run, Shape, LoopTypes, Ready, ToSet
  <2>2. UNCHANGED <<closed, wire, buffer, parsed, left, is_listening>>
    BY <1>7 DEF OnFinish, inputVars, remoteVars
  <2>3. QED
    BY <1>2, <1>4, <2>1, <2>2
<1>8. ASSUME NEW m \in Outgoing, NEW r \in {"ok", "failed"}, OnSendEnded(m, r) PROVE ListeningIsArmed'
  <2>1. Sent(m) \in Ready /\ Moved(Sent(m), {}, {Finish(m)})
    BY <1>8, SendEndedMoves DEF OnSendEnded, Run, Shape, LoopTypes, Ready, ToSet
  <2>2. UNCHANGED <<closed, wire, buffer, parsed, left, is_listening>>
    BY <1>8 DEF OnSendEnded, inputVars, remoteVars
  <2>3. QED
    BY <1>2, <1>4, <2>1, <2>2
<1>9. ASSUME NEW c \in Calls, OnSent(c) PROVE ListeningIsArmed'
  <2>1. Sent(c) \in Ready /\ Moved(Sent(c), {}, {})
    BY <1>9, SentMoves DEF OnSent, Run, Shape, LoopTypes, Ready, ToSet
  <2>2. UNCHANGED <<closed, wire, buffer, parsed, left, is_listening>>
    BY <1>9 DEF OnSent, inputVars, remoteVars
  <2>3. QED
    BY <1>2, <1>4, <2>1, <2>2
<1>10. ASSUME NEW c \in Calls, OnSentLate(c) PROVE ListeningIsArmed'
  <2>1. Sent(c) \in Ready /\ Moved(Sent(c), {}, {Finish(c)})
    BY <1>10, SentLateMoves DEF OnSentLate, Run, Shape, LoopTypes, Ready, ToSet
  <2>2. UNCHANGED <<closed, wire, buffer, parsed, left, is_listening>>
    BY <1>10 DEF OnSentLate, inputVars, remoteVars
  <2>3. QED
    BY <1>2, <1>4, <2>1, <2>2
<1>11. CASE OnExited \/ OnHeaderFailed
  BY <1>11 DEF OnExited, OnHeaderFailed, ListeningIsArmed
<1>12. ASSUME NEW target \in {HeaderParsed, TokenRead}, OnInputReady(target) \/ OnInputFailed(target)
       PROVE  ListeningIsArmed'
  <2>1. /\ InputReady(target) \in Ready /\ Moved(InputReady(target), {}, {target})
    BY <1>12, InputMoves
  <2>2. HeaderParsed \in Linked \/ NodeParsed \in Linked
    BY <1>2, <2>1, WhereItIs
  <2>3. HeaderParsed \in Linked' \/ NodeParsed \in Linked'
    BY <1>1, <1>2, <2>1, <2>2 DEF Moved
  <2>4. QED
    BY <2>3 DEF ListeningIsArmed, Reading
<1>13. CASE OnHeader \/ OnToken
  BY <1>13, TokenAsked DEF ListeningIsArmed, Reading
<1>14. ASSUME NEW r \in {"ok", "failed"}, OnLastToken(r) PROVE ListeningIsArmed'
  <2>1. Shape' /\ Moved(TokenRead, {}, {NodeParsed})
    BY <1>14, LastTokenMoves
  <2>2. NodeParsed \in Linked'
    BY <2>1 DEF Shape, Once, Moved
  <2>3. QED
    BY <2>2 DEF ListeningIsArmed, Reading
<1>15. CASE OnResponse \/ OnUnknownResponse \/ OnNotice
  <2>1. is_listening' = is_listening
    BY <1>15 DEF OnResponse, OnUnknownResponse, OnNotice
  <2>2. is_listening => HeaderParsed \in Linked'
    BY <1>15, DispatchMoves
  <2>3. QED
    BY <2>1, <2>2 DEF ListeningIsArmed, Reading
<1>16. CASE OnNodeFailed \/ OnInvalid
  <2>1. PICK r \in {"ok", "failed"} :
           /\ Run(NodeParsed, r) /\ done' = Without(done, NodeParsed)
           /\ UNCHANGED <<events, closed, wire, buffer, parsed, left>>
           /\ r = "ok" => parsed.type = "invalid"
    BY <1>16 DEF OnNodeFailed, OnInvalid, OnNode, inputVars, remoteVars
  <2>2. NodeParsed \in Ready /\ done[NodeParsed] = r /\ Moved(NodeParsed, {}, {})
    BY <2>1, PlainMoves DEF Shape
  <2>3. ReaderEvents \cap Linked = {NodeParsed}
    BY <2>2, WhereItIs
  <2>4. HeaderParsed \notin Linked' /\ NodeParsed \notin Linked'
    BY <1>1, <1>2, <2>2, <2>3 DEF Moved
  <2>5. CASE r = "ok"
    <3>1. left = 0
      BY <1>1, <2>2, <2>5 DEF Position
    <3>2. BailedOut'
      BY <2>1, <2>4, <2>5, <3>1 DEF BailedOut, Reading
    <3>3. QED
      BY <3>2 DEF ListeningIsArmed
  <2>6. CASE r = "failed"
    <3>1. Exhausted /\ left > 0
      BY <1>1, <2>2, <2>6 DEF Failures, Failed
    <3>2. CutShort'
      BY <2>1, <2>4, <3>1 DEF CutShort, Reading, Exhausted
    <3>3. QED
      BY <3>2 DEF ListeningIsArmed
  <2>7. QED
    BY <2>5, <2>6
<1>17. CASE Iterate
  <2>1. UNCHANGED <<closed, wire, buffer, parsed, left, is_listening>>
    BY <1>17 DEF Iterate, inputVars, remoteVars
  <2>2. Linked' = Linked
    BY <1>1, <1>17, IterateMoves
  <2>3. QED
    BY <2>1, <2>2, ArmedKept
<1>18. ASSUME ~closed, Linked' = Linked, UNCHANGED <<parsed, left, is_listening>>
       PROVE  ListeningIsArmed'
  BY <1>18 DEF ListeningIsArmed, Reading, BailedOut, CutShort
<1>19. CASE Transmit
  <2>1. ~closed /\ UNCHANGED <<parsed, left, is_listening>>
    BY <1>19 DEF Transmit, inputVars, Failures
  <2>2. QED
    BY <1>18, <1>19, <2>1, TransmitMoves
<1>20. CASE Disconnect
  <2>1. ~closed /\ UNCHANGED <<parsed, left, is_listening>>
    BY <1>20 DEF Disconnect, inputVars
  <2>2. QED
    BY <1>18, <1>20, <2>1, DisconnectMoves
<1>21. ASSUME NEW c \in Calls, NEW type \in {"result", "error"}, Answer(c, type) PROVE ListeningIsArmed'
  <2>1. ~closed /\ UNCHANGED <<parsed, left, is_listening>>
    BY <1>21 DEF Answer, inputVars
  <2>2. QED
    BY <1>18, <1>21, <2>1, AnswerMoves
<1>22. ASSUME NEW type \in {"notice", "invalid"}, Notify(type) PROVE ListeningIsArmed'
  <2>1. ~closed /\ UNCHANGED <<parsed, left, is_listening>>
    BY <1>22 DEF Notify, inputVars
  <2>2. QED
    BY <1>18, <1>22, <2>1, NotifyMoves
<1>23. CASE Reap
  <2>1. UNCHANGED <<closed, wire, buffer, parsed, left, is_listening>>
    BY <1>23 DEF Reap, inputVars, remoteVars
  <2>2. Linked' = Linked
    BY <1>23, ReapMoves
  <2>3. QED
    BY <2>1, <2>2, ArmedKept
<1>24. QED
  BY <1>3, <1>5, <1>6, <1>7, <1>8, <1>9, <1>10, <1>11, <1>12, <1>13, <1>14, <1>15, <1>16, <1>17,
     <1>19, <1>20, <1>21, <1>22, <1>23
     DEF Next, Callback, RemoteStep

\* Whatever the remote sends, and even when it goes away in the middle of a
\* message: while is_listening is set a header or a node is awaited, or the
\* loop took one of the two early returns that leave it set
\* (jsonrpc-server.c:985-993, 1001-1010).  No other callback, in no order,
\* forgets to ask for the next message.
THEOREM ListeningIsArmedAlways == Spec => []ListeningIsArmed
<1>1. Init => Failures /\ ListeningIsArmed
  <2>1. SUFFICES ASSUME Init PROVE Failures /\ ListeningIsArmed
    OBVIOUS
  <2>2. Completed = {} /\ ~closed
    BY <2>1, InitShape DEF Init
  <2>3. events[1] = HeaderParsed /\ 1 \in DOMAIN events
    BY <2>1 DEF Init
  <2>4. HeaderParsed \in Linked
    BY <2>3 DEF Linked, ToSet
  <2>5. QED
    BY <2>2, <2>4 DEF Failures, Failed, ListeningIsArmed, Reading
<1>2. Shape /\ Failures /\ [Next]_vars => Failures'
  BY StepFailures
<1>3. Shape /\ Failures /\ ListeningIsArmed /\ [Next]_vars => ListeningIsArmed'
  BY StepArmed
<1>4. QED
  BY <1>1, <1>2, <1>3, AlwaysShape, PTL DEF Spec

----------------------------------------------------------------------------
(* While the remote answers only what it was sent.                         *)

\* What comes of the stream in a step that reads at most one item of it, and
\* of the message that is parsed.
Reads ==
    \/ Stream' = Stream /\ (Parsing' => Parsing /\ parsed' = parsed)
    \/ Consumed(HeaderParsed) /\ Parsing'
    \/ Consumed(TokenRead) /\ Parsing /\ parsed' = parsed

\* A request whose callback stays due, or that was registered, stays so.
LEMMA RegisteredKept ==
  ASSUME Registered, UNCHANGED written, response_events \subseteq response_events',
         \A c \in Calls : c \in written /\ c \notin response_events' /\ Sent(c) \in Completed =>
            Sent(c) \in Completed' /\ done'[Sent(c)] = done[Sent(c)]
  PROVE  Registered'
BY DEF Registered

\* What is read was under way.
LEMMA AnsweredKept ==
  ASSUME Shape, Shape', Answered, written \subseteq written', Reads
  PROVE  Answered'
<1>1. Stream \in Seq(Items)
  BY StreamTypes DEF Shape
<1> DEFINE s == Stream
<1>2. CASE Stream' = Stream /\ (Parsing' => Parsing /\ parsed' = parsed)
  BY <1>2 DEF Answered
<1>3. CASE \E target \in {HeaderParsed, TokenRead} : Consumed(target)
  <2>1. s \in Seq(Items) /\ s # <<>> /\ Stream' = Tail(s)
    BY <1>1, <1>3 DEF Consumed
  <2>2. \A i \in 1 .. Len(s) :
          s[i] \in Headers /\ s[i].id \in Calls => s[i].id \in written
    BY DEF Answered
  <2> HIDE DEF s
  <2>3. \A i \in 1 .. Len(Tail(s)) : Tail(s)[i] = s[i + 1] /\ i + 1 \in 1 .. Len(s)
    BY <2>1
  <2>4. \A i \in 1 .. Len(Stream') :
          Stream'[i] \in Headers /\ Stream'[i].id \in Calls => Stream'[i].id \in written'
    BY <2>1, <2>2, <2>3
  <2>5. Head(s) = s[1] /\ 1 \in 1 .. Len(s)
    BY <2>1
  <2>6. Parsing' /\ parsed'.id \in Calls => parsed'.id \in written'
    <3>1. CASE Consumed(TokenRead) /\ Parsing /\ parsed' = parsed
      BY <3>1 DEF Answered
    <3>2. CASE Consumed(HeaderParsed) /\ Parsing'
      <4>1. parsed' = s[1]
        BY <2>5, <3>2 DEF Consumed, s
      <4>2. parsed' \in Headers
        BY <3>2 DEF Shape, Position
      <4>3. QED
        BY <2>2, <2>5, <4>1, <4>2
    <3>3. CASE Stream' = Stream /\ (Parsing' => Parsing /\ parsed' = parsed)
      BY <3>3 DEF Answered
    <3>4. QED
      BY <3>1, <3>2, <3>3 DEF Reads
  <2>7. QED
    BY <2>4, <2>6 DEF Answered
<1>4. QED
  BY <1>2, <1>3 DEF Reads

\* What is sent answers a request that was written, or answers nothing.
LEMMA AnsweredSent ==
  ASSUME Shape, Answered, UNCHANGED <<written, parsed>>, Parsing' => Parsing,
         NEW m, Sends(m), m.id \in Calls => m.id \in written
  PROVE  Answered'
<1>1. Stream \in Seq(Items) /\ Tokens \in Nat
  BY StreamTypes, TokensAssumption DEF Shape
<1> DEFINE s == Stream
           t == Stream'
<1>2. /\ s \in Seq(Items)
      /\ m \in Headers
      /\ Len(t) = Len(s) + Tokens + 1
      /\ \A i \in 1 .. Len(s) : t[i] = s[i]
      /\ t[Len(s) + 1] = m
      /\ \A i \in Len(s) + 2 .. Len(t) : t[i] = NoId
      /\ \A i \in 1 .. Len(s) : s[i] \in Headers /\ s[i].id \in Calls => s[i].id \in written
  BY <1>1 DEF Sends, Answered
<1>3. SUFFICES \A i \in 1 .. Len(t) : t[i] \in Headers /\ t[i].id \in Calls => t[i].id \in written
  BY DEF Answered
<1> HIDE DEF s, t
<1>4. TAKE i \in 1 .. Len(t)
<1>5. HAVE t[i] \in Headers /\ t[i].id \in Calls
<1>6. i \in 1 .. Len(s) \/ i = Len(s) + 1 \/ i \in Len(s) + 2 .. Len(t)
  <2>1. Len(s) \in Nat /\ i \in Nat /\ i >= 1 /\ i <= Len(t) /\ Len(t) \in Nat
    BY <1>1, <1>2, <1>4
  <2>2. QED
    BY ONLY <2>1
<1>7. t[i] # NoId
  BY <1>5, TokenIsNoHeader
<1>8. QED
  BY <1>2, <1>5, <1>6, <1>7

\* What is cut off is answered no longer.
LEMMA AnsweredCut ==
  ASSUME Answered, UNCHANGED <<written, parsed>>, Parsing' => Parsing,
         Stream \in Seq(Items), Stream' \in Seq(Items), Len(Stream') <= Len(Stream),
         \A i \in 1 .. Len(Stream') : Stream'[i] = Stream[i]
  PROVE  Answered'
<1>1. \A i \in 1 .. Len(Stream') : i \in 1 .. Len(Stream)
  OBVIOUS
<1>2. QED
  BY <1>1 DEF Answered

\* A callback that reads nothing, or a token, leaves the callback of a sent
\* request ahead of the node of its response.
LEMMA AheadKept ==
  ASSUME Ahead, response_events \subseteq response_events', NEW e, NEW A, NEW C, Moved(e, A, C),
         Parsing' => Parsing /\ parsed' = parsed,
         e # HeaderParsed,
         \A c \in Calls : Parsing /\ parsed.id = c /\ c \notin response_events' => e # Sent(c)
  PROVE  Ahead'
<1>1. ASSUME NEW c \in Calls, Parsing', parsed'.id = c, c \notin response_events'
      PROVE  \/ {Sent(c), HeaderParsed} \subseteq Added'
             \/ Sent(c) \in Ready' /\ {NodeParsed, TokenRead} \cap Ready' = {}
  <2>1. Parsing /\ parsed.id = c /\ c \notin response_events /\ e # Sent(c)
    BY <1>1
  <2>2. \/ {Sent(c), HeaderParsed} \subseteq Added
        \/ Sent(c) \in Ready /\ {NodeParsed, TokenRead} \cap Ready = {}
    BY <2>1 DEF Ahead
  <2>3. QED
    BY <2>1, <2>2 DEF Moved
<1>2. QED
  BY <1>1 DEF Ahead

\* When the header of a response is read, the callback of its request is due:
\* it runs in this iteration, or in the next with the callback of the header.
LEMMA AheadRead ==
  ASSUME Shape, Shape', Orderly, Consumed(HeaderParsed), Parsing',
         UNCHANGED <<written, response_events>>,
         NEW e \in ReaderEvents, NEW A, NEW C, Moved(e, A, C),
         {NodeParsed, TokenRead} \cap (Linked \ {e}) = {}, HeaderParsed \in Added'
  PROVE  Ahead'
<1>1. ASSUME NEW c \in Calls, parsed'.id = c, c \notin response_events
      PROVE  \/ {Sent(c), HeaderParsed} \subseteq Added'
             \/ Sent(c) \in Ready' /\ {NodeParsed, TokenRead} \cap Ready' = {}
  <2>1. c \in written
    <3>1. Answered'
      BY AnsweredKept DEF Orderly, Reads
    <3>2. QED
      BY <1>1, <3>1 DEF Answered
  <2>2. Sent(c) \in Completed
    BY <1>1, <2>1 DEF Orderly, Registered
  <2>3. Linked = Added \cup Ready /\ Completed \subseteq Linked /\ Sent(c) # e
    BY EventNames DEF Shape, Once, Linked, Added, Ready, ReaderEvents
  <2>4. QED
    BY <2>2, <2>3 DEF Moved
<1>2. QED
  BY <1>1 DEF Ahead

\* The response to a request is dispatched after the callback that registers it.
LEMMA StepOrderly ==
  ASSUME "answer_unasked" \notin Remote
  PROVE  Shape /\ Orderly /\ [Next]_vars => Orderly'
<1> SUFFICES ASSUME Shape, Orderly, [Next]_vars PROVE Orderly'
  OBVIOUS
<1>1. /\ Linked = Added \cup Ready /\ Linked' = Added' \cup Ready' /\ Added \cap Ready = {}
      /\ Ready \subseteq Completed /\ Completed \subseteq Linked
      /\ NoEarlyResponse /\ Registered /\ Answered /\ Ahead
  BY DEF Linked, Added, Ready, Shape, Once, Orderly
<1>2. Shape'
  BY StepShape
<1>3. /\ HeaderParsed \in ReaderEvents /\ NodeParsed \in ReaderEvents /\ TokenRead \in ReaderEvents
      /\ \A x \in {HeaderParsed, TokenRead} : InputReady(x) \in ReaderEvents
      /\ \A m : OutputReady(m) \notin ReaderEvents /\ Sent(m) \notin ReaderEvents /\ Finish(m) \notin ReaderEvents
      /\ \A m, n : /\ Sent(m) # OutputReady(n) /\ Sent(m) # Finish(n) /\ Sent(m) # Exited
                   /\ m # n => Sent(m) # Sent(n)
      /\ HeaderParsed # NodeParsed /\ HeaderParsed # TokenRead /\ NodeParsed # TokenRead
      /\ \A x : InputReady(x) # HeaderParsed /\ InputReady(x) # NodeParsed /\ InputReady(x) # TokenRead
      /\ Exited \notin ReaderEvents
  BY EventNames DEF ReaderEvents
<1>4. ASSUME NEW c \in Calls, Parsing, parsed.id = c, c \notin response_events
      PROVE  /\ Sent(c) \in Completed /\ done[Sent(c)] = "ok"
             /\ \/ {Sent(c), HeaderParsed} \subseteq Added
                \/ Sent(c) \in Ready /\ {NodeParsed, TokenRead} \cap Ready = {}
  BY <1>1, <1>4 DEF Answered, Registered, Ahead
<1>5. CASE UNCHANGED vars
  <2>1. UNCHANGED <<events, done, batch, buffer, parsed, left, outcome, response_events, written, owed>>
        /\ UNCHANGED <<received_responses, wire, outbox>>
    BY <1>5 DEF vars, loopVars, inputVars, callVars, remoteVars
  <2>2. /\ Parsing' <=> Parsing
        /\ Added' = Added /\ Ready' = Ready /\ Completed' = Completed /\ Stream' = Stream
    BY <2>1, LoopKept DEF Stream
  <2>3. QED
    BY <2>1, <2>2 DEF Orderly, NoEarlyResponse, Registered, Answered, Ahead
<1>6. ASSUME NEW m \in Outgoing, Start(m) PROVE Orderly'
  <2>1. UNCHANGED <<written, response_events, received_responses>>
    BY <1>6 DEF Start
  <2>2. /\ Parsing' <=> Parsing
        /\ Stream' = Stream /\ parsed' = parsed
        /\ Added \subseteq Added' /\ UNCHANGED <<done, batch>>
    BY <1>6, StartMoves
  <2>3. Ready' = Ready /\ Completed' = Completed
    BY <2>2 DEF Ready, Completed
  <2>4. QED
    BY <2>1, <2>2, <2>3 DEF Orderly, NoEarlyResponse, Registered, Answered, Ahead
<1>7. ASSUME NEW m \in Outgoing, OnOutputReady(m) PROVE Orderly'
  <2>1. /\ UNCHANGED <<inputVars, parsed, wire, outbox, response_events, received_responses>>
        /\ written' = IF closed THEN written ELSE written \cup {m}
    BY <1>7 DEF OnOutputReady, remoteVars, callVars, inputVars
  <2>2. /\ OutputReady(m) \in Ready /\ Moved(OutputReady(m), {}, {Sent(m)}) /\ (Parsing' <=> Parsing)
        /\ done'[Sent(m)] = IF closed THEN "failed" ELSE "ok"
    BY <1>7, OutputReadyMoves
  <2>3. m \notin written
    BY <1>1, <2>2 DEF Shape, Chains
  <2>4. Registered'
    <3>1. ASSUME NEW c \in Calls, c \in written', c \notin response_events
          PROVE  Sent(c) \in Completed' /\ done'[Sent(c)] = "ok"
      <4>1. CASE c = m
        BY <2>1, <2>2, <2>3, <3>1, <4>1 DEF Moved
      <4>2. CASE c # m
        <5>1. Sent(c) \in Completed /\ done[Sent(c)] = "ok"
          BY <1>1, <2>1, <3>1, <4>2 DEF Registered
        <5>2. QED
          BY <1>3, <2>2, <4>2, <5>1 DEF Moved
      <4>3. QED
        BY <4>1, <4>2
    <3>2. QED
      BY <2>1, <3>1 DEF Registered
  <2>5. Stream' = Stream
    BY <2>1 DEF Stream, inputVars
  <2>6. Answered'
    BY <1>1, <1>2, <2>1, <2>2, <2>3, <2>5, AnsweredKept DEF Reads
  <2>7. Ahead'
    BY <1>1, <1>3, <2>1, <2>2, AheadKept
  <2>8. QED
    BY <1>1, <2>1, <2>4, <2>6, <2>7 DEF Orderly, NoEarlyResponse
<1>8. ASSUME UNCHANGED <<parsed, written, received_responses>>, response_events \subseteq response_events',
             Stream' = Stream, Parsing' => Parsing,
             NEW e, NEW A, NEW C, Moved(e, A, C),
             e # HeaderParsed, \A m : Sent(m) \notin C,
             \A c \in Calls : e = Sent(c) => c \in response_events' \/ done[e] # "ok"
      PROVE  Orderly'
  <2>1. \A c \in Calls : Sent(c) \in Completed /\ done[Sent(c)] = "ok" /\ c \notin response_events' =>
            Sent(c) \in Completed' /\ done'[Sent(c)] = done[Sent(c)]
    BY <1>8 DEF Moved
  <2>2. Registered'
    BY <1>1, <1>8, <2>1 DEF Registered
  <2>3. Answered'
    BY <1>1, <1>2, <1>8, AnsweredKept DEF Reads
  <2>4. Ahead'
    <3>1. \A c \in Calls : Parsing /\ parsed.id = c /\ c \notin response_events' => e # Sent(c)
      BY <1>4, <1>8
    <3>2. QED
      BY <1>1, <1>8, <3>1, AheadKept
  <2>5. QED
    BY <1>1, <1>8, <2>2, <2>3, <2>4 DEF Orderly, NoEarlyResponse
<1>9. ASSUME NEW m \in Outgoing, OnFinish(m) PROVE Orderly'
  <2>1. /\ UNCHANGED <<parsed, written, response_events, received_responses>> /\ Stream' = Stream
        /\ Moved(Finish(m), {}, {}) /\ (Parsing' <=> Parsing)
    BY <1>9, FinishMoves DEF OnFinish, remoteVars, inputVars, Stream
  <2>2. QED
    BY <1>3, <1>8, <2>1
<1>10. ASSUME NEW m \in Outgoing, NEW r \in {"ok", "failed"}, OnSendEnded(m, r) PROVE Orderly'
  <2>1. /\ UNCHANGED <<parsed, written, response_events, received_responses>> /\ Stream' = Stream
        /\ m \in Notifications \/ r = "failed"
    BY <1>10 DEF OnSendEnded, remoteVars, inputVars, callVars, Stream
  <2>2. Moved(Sent(m), {}, {Finish(m)}) /\ (Parsing' <=> Parsing) /\ done[Sent(m)] = r
    BY <1>10, SendEndedMoves
  <2>3. \A c \in Calls : Sent(m) = Sent(c) => done[Sent(m)] # "ok"
    BY <1>3, <2>1, <2>2, CallsAssumption
  <2>4. QED
    BY <1>3, <1>8, <2>1, <2>2, <2>3
<1>11. ASSUME NEW c \in Calls, OnSent(c) PROVE Orderly'
  <2>1. /\ UNCHANGED <<parsed, written, received_responses>> /\ Stream' = Stream
        /\ response_events' = response_events \cup {c}
        /\ Moved(Sent(c), {}, {}) /\ (Parsing' <=> Parsing)
    BY <1>11, SentMoves DEF OnSent, remoteVars, inputVars, Stream
  <2>2. \A x \in Calls : Sent(c) = Sent(x) => x \in response_events'
    BY <1>3, <2>1
  <2>3. QED
    BY <1>3, <1>8, <2>1, <2>2
<1>12. ASSUME NEW c \in Calls PROVE ~OnSentLate(c)
  BY <1>1 DEF OnSentLate, NoEarlyResponse
<1>13. ASSUME NEW target \in {HeaderParsed, TokenRead}, OnInputReady(target) \/ OnInputFailed(target)
       PROVE  Orderly'
  <2> DEFINE e == InputReady(target)
  <2>1. /\ UNCHANGED <<written, response_events, received_responses>>
        /\ OnInputFailed(target) => parsed' = parsed /\ Stream' = Stream
    BY <1>13 DEF OnInputReady, OnInputFailed, callVars, remoteVars, inputVars, Stream
  <2>2. /\ e \in Ready /\ target \in Added
        /\ Moved(e, {}, {target})
        /\ \/ Consumed(target) /\ Parsing'
           \/ Stream' = Stream /\ parsed' = parsed /\ (Parsing' <=> Parsing)
    BY <1>13, InputMoves
  <2>3. \A m : Sent(m) # target /\ Sent(m) # e
    BY <1>3
  <2>4. e # HeaderParsed /\ e \in ReaderEvents
    BY <1>3
  <2> HIDE DEF e
  <2>5. CASE Stream' = Stream /\ parsed' = parsed /\ (Parsing' <=> Parsing)
    BY <1>8, <2>1, <2>2, <2>3, <2>4, <2>5
  <2>6. CASE Consumed(target) /\ Parsing'
    <3>1. Registered'
      BY <1>1, <2>1, <2>2, <2>3, RegisteredKept DEF Moved
    <3>2. Reads
      <4>1. CASE target = HeaderParsed
        BY <2>6, <4>1 DEF Reads
      <4>2. CASE target = TokenRead
        <5>1. NodeParsed \in Linked
          BY <2>2, <4>2, WhereItIs DEF e
        <5>2. parsed' = parsed
          BY <1>3, <2>6, <4>2 DEF Consumed
        <5>3. QED
          BY <2>6, <4>2, <5>1, <5>2 DEF Reads, Parsing
      <4>3. QED
        BY <4>1, <4>2
    <3>3. Answered'
      BY <1>1, <1>2, <2>1, <3>2, AnsweredKept
    <3>4. Ahead'
      <4>1. CASE target = HeaderParsed
        <5>1. ReaderEvents \cap Linked = {HeaderParsed, InputReady(HeaderParsed)}
          BY <2>2, <4>1, WhereItIs DEF e
        <5>2. {NodeParsed, TokenRead} \cap (Linked \ {e}) = {} /\ HeaderParsed \in Added'
          BY <1>3, <2>2, <4>1, <5>1 DEF Moved
        <5>3. QED
          BY <1>2, <2>1, <2>2, <2>4, <2>6, <4>1, <5>2, AheadRead
      <4>2. CASE target = TokenRead
        <5>1. NodeParsed \in Linked
          BY <2>2, <4>2, WhereItIs DEF e
        <5>2. parsed' = parsed /\ Parsing
          BY <1>3, <2>6, <4>2, <5>1 DEF Consumed, Parsing
        <5>3. QED
          BY <1>1, <2>1, <2>2, <2>3, <2>4, <5>2, AheadKept
      <4>3. QED
        BY <4>1, <4>2
    <3>5. QED
      BY <1>1, <2>1, <3>1, <3>3, <3>4 DEF Orderly, NoEarlyResponse
  <2>7. QED
    BY <2>2, <2>5, <2>6
<1>14. CASE OnHeader \/ OnToken
  <2>1. UNCHANGED <<written, response_events, received_responses>>
    BY <1>14 DEF OnHeader, OnToken, callVars
  <2>2. PICK e \in {HeaderParsed, TokenRead}, A \in SUBSET ReaderEvents, C \in SUBSET {TokenRead} :
           /\ e \in Ready /\ Moved(e, A, C) /\ NodeParsed \in Linked'
           /\ \A x \in C : done'[x] = "ok"
    BY <1>14, TokenAsked
  <2>3. Parsing /\ Parsing' /\ parsed' = parsed /\ (Stream' = Stream \/ Consumed(TokenRead))
    BY <1>14, TokenAsked
  <2>4. Registered'
    BY <1>1, <1>3, <2>1, <2>2, RegisteredKept DEF Moved
  <2>5. Answered'
    BY <1>1, <1>2, <2>1, <2>3, AnsweredKept DEF Reads
  <2>6. HeaderParsed \notin Added
    BY <1>1, <1>3, <2>2, WhereItIs
  <2>7. Ahead'
    <3>1. ASSUME NEW c \in Calls, parsed.id = c, c \notin response_events
          PROVE  Sent(c) \in Ready' /\ {NodeParsed, TokenRead} \cap Ready' = {}
      <4>1. Sent(c) \in Ready /\ {NodeParsed, TokenRead} \cap Ready = {}
        BY <1>4, <2>3, <2>6, <3>1
      <4>2. Sent(c) # e
        BY <1>3, <2>2
      <4>3. QED
        BY <2>2, <4>1, <4>2 DEF Moved
    <3>2. QED
      BY <2>1, <2>3, <3>1 DEF Ahead
  <2>8. QED
    BY <1>1, <2>1, <2>4, <2>5, <2>7 DEF Orderly, NoEarlyResponse
<1>15. CASE OnHeaderFailed \/ OnNodeFailed \/ OnInvalid
  <2>1. UNCHANGED <<written, response_events, received_responses, parsed>>
    BY <1>15 DEF OnHeaderFailed, OnNodeFailed, OnInvalid, callVars, inputVars
  <2>2. PICK e \in {HeaderParsed, NodeParsed} : e \in Ready /\ Moved(e, {}, {})
    BY <1>15, EndMoves
  <2>3. ~Parsing' /\ Stream' = Stream
    BY <1>15, EndMoves
  <2>4. Registered'
    BY <1>1, <1>3, <2>1, <2>2, RegisteredKept DEF Moved
  <2>5. Answered' /\ Ahead'
    BY <1>1, <2>1, <2>3 DEF Answered, Ahead
  <2>6. QED
    BY <1>1, <2>1, <2>4, <2>5 DEF Orderly, NoEarlyResponse
<1>16. ASSUME NEW r \in {"ok", "failed"}, OnLastToken(r) PROVE Orderly'
  <2>1. UNCHANGED <<written, response_events, received_responses>>
    BY <1>16 DEF OnLastToken, callVars
  <2>2. /\ Parsing /\ Parsing' /\ Stream' = Stream /\ parsed' = parsed
        /\ TokenRead \in Ready
        /\ Moved(TokenRead, {}, {NodeParsed})
    BY <1>16, LastTokenMoves
  <2>3. \A m : Sent(m) \notin {NodeParsed} /\ Sent(m) # TokenRead
    BY <1>3
  <2>4. QED
    BY <1>3, <1>8, <2>1, <2>2, <2>3
<1>17. CASE OnResponse \/ OnUnknownResponse \/ OnNotice
  <2>1. /\ Parsing /\ NodeParsed \in Ready /\ ReaderEvents \cap Linked = {NodeParsed}
        /\ \/ Stream' = Stream /\ ~Parsing'
           \/ Consumed(HeaderParsed) /\ Parsing' /\ HeaderParsed \in Added'
    BY <1>17, DispatchMoves
  <2>2. ASSUME OnUnknownResponse PROVE FALSE
    <3>1. parsed.type \in {"result", "error"} /\ parsed.id \notin response_events
      BY <2>2 DEF OnUnknownResponse, OnNode
    <3>2. parsed.id \in Calls
      BY <2>1, <3>1 DEF Shape, Position, Headers
    <3>3. QED
      BY <1>1, <1>3, <1>4, <2>1, <3>1, <3>2
  <2>3. UNCHANGED <<written, response_events, received_responses>>
    BY <1>17, <2>2 DEF OnResponse, OnNotice, callVars
  <2>4. PICK F : \E A \in SUBSET ReaderEvents, C \in SUBSET (F \cup {HeaderParsed}) :
               /\ \A x \in F : /\ OnResponse /\ Awaits(x) /\ x = Finish(parsed.id)
                               /\ parsed.id \in Calls \cap response_events
               /\ F \subseteq C /\ Moved(NodeParsed, A, C)
               /\ HeaderParsed \in C => done'[HeaderParsed] = "ok"
    BY <1>17, DispatchMoves
  <2>5. PICK A \in SUBSET ReaderEvents, C \in SUBSET (F \cup {HeaderParsed}) :
               /\ \A x \in F : x = Finish(parsed.id)
               /\ Moved(NodeParsed, A, C)
    BY <2>4
  <2>6. Registered'
    <3>1. \A m : Sent(m) \notin C /\ Sent(m) # NodeParsed
      BY <1>3, <2>5
    <3>2. QED
      BY <1>1, <2>3, <2>5, <3>1, RegisteredKept DEF Moved
  <2>7. Reads
    BY <2>1 DEF Reads
  <2>8. Answered'
    BY <1>1, <1>2, <2>3, <2>7, AnsweredKept
  <2>9. Ahead'
    <3>1. CASE ~Parsing'
      BY <3>1 DEF Ahead
    <3>2. CASE Consumed(HeaderParsed) /\ Parsing' /\ HeaderParsed \in Added'
      <4>1. {NodeParsed, TokenRead} \cap (Linked \ {NodeParsed}) = {}
        BY <1>3, <2>1
      <4>2. QED
        BY <1>2, <1>3, <2>3, <2>5, <3>2, <4>1, AheadRead
    <3>3. QED
      BY <2>1, <3>1, <3>2
  <2>10. QED
    BY <1>1, <2>3, <2>6, <2>8, <2>9 DEF Orderly, NoEarlyResponse
<1>18. CASE OnExited
  <2>1. UNCHANGED <<written, response_events, received_responses>>
    BY <1>18 DEF OnExited, callVars
  <2>2. (Parsing' <=> Parsing) /\ Stream' = Stream /\ parsed' = parsed /\ Moved(Exited, {}, {})
    BY <1>18, ExitedMoves
  <2>3. QED
    BY <1>3, <1>8, <2>1, <2>2
<1>19. CASE Iterate
  <2>1. UNCHANGED <<written, response_events, received_responses>>
    BY <1>19 DEF Iterate, callVars
  <2>2. /\ (Parsing' <=> Parsing) /\ Stream' = Stream /\ parsed' = parsed
        /\ Ready = {} /\ Ready' = Completed'
        /\ Completed \subseteq Completed' /\ Completed' \subseteq Added
        /\ \A x \in Completed : done'[x] = done[x]
    BY <1>19, IterateMoves
  <2>3. Registered'
    BY <1>1, <2>1, <2>2 DEF Registered
  <2>4. Answered'
    BY <1>1, <2>1, <2>2 DEF Answered
  <2>5. ASSUME NEW c \in Calls, Parsing, parsed.id = c, c \notin response_events
        PROVE  Sent(c) \in Ready' /\ {NodeParsed, TokenRead} \cap Ready' = {}
    <3>1. Sent(c) \in Completed /\ HeaderParsed \in Linked
      BY <1>1, <1>4, <2>2, <2>5
    <3>2. NodeParsed \notin Linked /\ TokenRead \notin Linked
      <4>1. HeaderParsed \in ReaderEvents \cap Linked
        BY <1>3, <3>1
      <4>2. NodeParsed \notin ReaderEvents \cap Linked /\ TokenRead \notin ReaderEvents \cap Linked
        BY <1>3, <4>1 DEF Shape, Reader
      <4>3. QED
        BY <1>3, <4>2
    <3>3. QED
      BY <1>1, <2>2, <3>1, <3>2
  <2>6. Ahead'
    BY <2>1, <2>2, <2>5 DEF Ahead
  <2>7. QED
    BY <1>1, <2>1, <2>3, <2>4, <2>6 DEF Orderly, NoEarlyResponse
<1>20. ASSUME UNCHANGED <<written, response_events, received_responses>>,
              parsed' = parsed, Parsing' <=> Parsing, Added' = Added, Ready' = Ready,
              Completed \subseteq Completed', \A x \in Completed : done'[x] = done[x],
              Answered'
       PROVE  Orderly'
  <2>1. Registered' /\ Ahead'
    BY <1>1, <1>20 DEF Registered, Ahead
  <2>2. QED
    BY <1>1, <1>20, <2>1 DEF Orderly, NoEarlyResponse
<1>21. CASE Transmit \/ Reap
  <2>1. UNCHANGED <<written, response_events, received_responses>> /\ (Transmit => done' = done)
    BY <1>21 DEF Transmit, Reap, callVars, loopVars
  <2>2. /\ (Parsing' <=> Parsing) /\ parsed' = parsed /\ Stream' = Stream
        /\ Added' = Added /\ Ready' = Ready /\ Completed \subseteq Completed'
        /\ \A x \in Completed : done'[x] = done[x]
    BY <1>21, <2>1, TransmitMoves, ReapMoves
  <2>3. Answered'
    BY <1>1, <2>1, <2>2 DEF Answered
  <2>4. QED
    BY <1>20, <2>1, <2>2, <2>3
<1>22. ASSUME NEW c \in Calls, NEW type \in {"result", "error"}, Answer(c, type) PROVE Orderly'
  <2>1. UNCHANGED <<written, response_events, received_responses, done>> /\ c \in written
    BY <1>22 DEF Answer, callVars, loopVars
  <2>2. /\ (Parsing' <=> Parsing) /\ parsed' = parsed
        /\ Added' = Added /\ Ready' = Ready /\ Completed' = Completed
        /\ \E m \in Headers : m.id = c /\ Sends(m)
    BY <1>22, AnswerMoves
  <2>3. Answered'
    BY <1>1, <2>1, <2>2, AnsweredSent
  <2>4. QED
    BY <1>20, <2>1, <2>2, <2>3
<1>23. ASSUME NEW type \in {"notice", "invalid"}, Notify(type) PROVE Orderly'
  <2>1. UNCHANGED <<written, response_events, received_responses, done>>
    BY <1>23 DEF Notify, callVars, loopVars
  <2>2. /\ (Parsing' <=> Parsing) /\ parsed' = parsed
        /\ Added' = Added /\ Ready' = Ready /\ Completed' = Completed
        /\ \E m \in Headers : m.id = NoId /\ Sends(m)
    BY <1>23, NotifyMoves
  <2>3. NoId \notin Calls
    BY CallsAssumption
  <2>4. Answered'
    BY <1>1, <2>1, <2>2, <2>3, AnsweredSent
  <2>5. QED
    BY <1>20, <2>1, <2>2, <2>4
<1>24. CASE Disconnect
  <2>1. UNCHANGED <<written, response_events, received_responses, done>>
    BY <1>24 DEF Disconnect, callVars, loopVars
  <2>2. /\ (Parsing' <=> Parsing) /\ parsed' = parsed
        /\ Added' = Added /\ Ready' = Ready /\ Completed' = Completed
        /\ Stream' \in Seq(Items) /\ Len(Stream') <= Len(Stream)
        /\ \A i \in 1 .. Len(Stream') : Stream'[i] = Stream[i]
    BY <1>24, DisconnectMoves
  <2>3. Answered'
    BY <1>1, <2>1, <2>2, StreamTypes, AnsweredCut DEF Shape
  <2>4. QED
    BY <1>20, <2>1, <2>2, <2>3
<1>25. QED
  BY <1>5, <1>6, <1>7, <1>9, <1>10, <1>11, <1>12, <1>13, <1>14, <1>15, <1>16, <1>17, <1>18, <1>19,
     <1>21, <1>22, <1>23, <1>24
     DEF Next, Callback, RemoteStep

\* As long as the remote answers only the requests that were written to it,
\* no response is taken for one to no request: the callback that registers a
\* request runs at least one batch before the node of its response is
\* dispatched ("XXX: how?", jsonrpc-server.c:786).
THEOREM NoEarlyResponseAlways ==
  ASSUME "answer_unasked" \notin Remote
  PROVE  Spec => []NoEarlyResponse
<1>1. Init => Orderly
  <2>1. SUFFICES ASSUME Init PROVE Orderly
    OBVIOUS
  <2>2. received_responses = {} /\ written = {}
    BY <2>1 DEF Init
  <2>3. Stream = <<>> /\ ~Parsing
    BY <2>1, InitShape
  <2>4. QED
    BY <2>2, <2>3 DEF Orderly, NoEarlyResponse, Registered, Answered, Ahead
<1>2. Orderly => NoEarlyResponse
  BY DEF Orderly
<1>3. Shape /\ Orderly /\ [Next]_vars => Orderly'
  BY StepOrderly
<1>4. QED
  BY <1>1, <1>2, <1>3, AlwaysShape, PTL DEF Spec

----------------------------------------------------------------------------
(* Calls that the remote answered once at most.                             *)

\* A pending event stays pending, if the step does not complete it.
LEMMA FreshKept ==
  ASSUME NEW c \in Calls, Fresh(c), c \in response_events' => c \in response_events,
         NEW e, NEW A, NEW C, Moved(e, A, C), Finish(c) \notin C
  PROVE  Fresh(c)'
BY DEF Fresh, Awaits, Moved

\* The items under way are counted from the next.
LEMMA AboutConsumed ==
  ASSUME DataTypes, NEW target, Consumed(target), NEW c \in Calls
  PROVE  /\ \A i \in About(c)' : i \in Nat /\ i > 0 /\ i + 1 \in About(c)
         /\ Head(Stream) \in Headers /\ Head(Stream).id = c => 1 \in About(c)
<1> DEFINE s == Stream
           t == Stream'
<1>1. s \in Seq(Items) /\ s # <<>> /\ t = Tail(s)
  BY StreamTypes DEF Consumed
<1> HIDE DEF s, t
<1>2. /\ \A i \in 1 .. Len(t) : i \in Nat /\ i > 0 /\ i + 1 \in 1 .. Len(s) /\ t[i] = s[i + 1]
      /\ 1 \in 1 .. Len(s) /\ Head(s) = s[1]
  BY <1>1
<1>3. /\ About(c)' = {i \in 1 .. Len(t) : t[i] \in Headers /\ t[i].id = c}
      /\ About(c) = {i \in 1 .. Len(s) : s[i] \in Headers /\ s[i].id = c}
  BY DEF About, s, t
<1>4. QED
  BY <1>2, <1>3 DEF s

\* Reading an item, and dispatching the response of the call gone, leave every
\* other call with at most one response under way.
LEMMA OnceRead ==
  ASSUME Shape, Shape', AnsweredOnce, UNCHANGED answers, Reads,
         \A c \in Calls : answers[c] <= 1 => (c \in twice' => c \in twice),
         NEW gone,
         \A c \in Calls : Fresh(c) /\ c # gone => Fresh(c)',
         gone \in Calls => /\ Parsing /\ parsed.id = gone
                           /\ \/ Consumed(HeaderParsed) /\ Parsing'
                              \/ Stream' = Stream /\ ~Parsing'
  PROVE  AnsweredOnce'
<1>1. SUFFICES ASSUME NEW c \in Calls, answers[c] <= 1
               PROVE  /\ c \notin twice'
                      /\ answers[c] = 0 => Fresh(c)' /\ About(c)' = {} /\ ~(Parsing' /\ parsed'.id = c)
                      /\ About(c)' # {} => Fresh(c)' /\ ~(Parsing' /\ parsed'.id = c)
                      /\ \A i, k \in About(c)' : i = k
                      /\ Parsing' /\ parsed'.id = c => Fresh(c)'
  BY DEF AnsweredOnce, Single
<1>2. /\ c \notin twice'
      /\ answers[c] = 0 => Fresh(c) /\ About(c) = {} /\ ~(Parsing /\ parsed.id = c)
      /\ About(c) # {} => Fresh(c) /\ ~(Parsing /\ parsed.id = c)
      /\ \A i, k \in About(c) : i = k
      /\ Parsing /\ parsed.id = c => Fresh(c)
      /\ Fresh(c) /\ c # gone => Fresh(c)'
      /\ c = gone => Parsing /\ parsed.id = c
  BY <1>1 DEF AnsweredOnce, Single
<1>3. DataTypes
  BY DEF Shape
<1>4. CASE Consumed(HeaderParsed) /\ Parsing'
  <2>1. /\ \A i \in About(c)' : i \in Nat /\ i > 0 /\ i + 1 \in About(c)
        /\ Head(Stream) \in Headers /\ Head(Stream).id = c => 1 \in About(c)
    BY <1>3, <1>4, AboutConsumed
  <2>2. parsed' = Head(Stream) /\ parsed' \in Headers
    BY <1>4 DEF Consumed, Shape, Position
  <2>3. About(c)' # {} => About(c) # {}
    BY <2>1
  <2>4. ASSUME parsed'.id = c PROVE Fresh(c)' /\ About(c)' = {} /\ answers[c] # 0
    <3>1. 1 \in About(c)
      BY <2>1, <2>2, <2>4
    <3>2. \A i \in About(c)' : i > 0 /\ i \in Nat /\ i + 1 = 1
      BY <1>2, <2>1, <3>1
    <3>3. About(c)' = {}
      BY <3>2
    <3>4. QED
      BY <1>2, <3>1, <3>3
  <2>5. ASSUME NEW i \in About(c)', NEW k \in About(c)' PROVE i = k
    <3>1. i \in Nat /\ k \in Nat /\ i + 1 = k + 1
      BY <1>2, <2>1
    <3>2. QED
      BY ONLY <3>1
  <2>6. QED
    BY <1>2, <2>3, <2>4, <2>5
<1>5. CASE Stream' = Stream /\ (Parsing' => Parsing /\ parsed' = parsed)
  <2>1. About(c)' = About(c)
    BY <1>5 DEF About
  <2>2. CASE c = gone
    <3>1. answers[c] # 0 /\ About(c) = {}
      BY <1>2, <2>2
    <3>2. CASE Stream' = Stream /\ ~Parsing'
      BY <1>2, <2>1, <3>1, <3>2
    <3>3. \/ Consumed(HeaderParsed) /\ Parsing'
          \/ Stream' = Stream /\ ~Parsing'
      BY <2>2
    <3>4. QED
      BY <1>4, <3>2, <3>3
  <2>3. CASE c # gone
    <3>1. Fresh(c) => Fresh(c)'
      BY <1>2, <2>3
    <3>2. Parsing' /\ parsed'.id = c => Parsing /\ parsed.id = c
      BY <1>5
    <3>3. QED
      BY <1>2, <2>1, <3>1, <3>2
  <2>4. QED
    BY <2>2, <2>3
<1>6. CASE Consumed(TokenRead) /\ Parsing /\ parsed' = parsed
  <2>1. \A i \in About(c)' : i \in Nat /\ i > 0 /\ i + 1 \in About(c)
    BY <1>3, <1>6, AboutConsumed
  <2>2. About(c)' # {} => About(c) # {}
    BY <2>1
  <2>3. ASSUME NEW i \in About(c)', NEW k \in About(c)' PROVE i = k
    <3>1. i \in Nat /\ k \in Nat /\ i + 1 = k + 1
      BY <1>2, <2>1
    <3>2. QED
      BY ONLY <3>1
  <2>4. CASE c # gone
    BY <1>2, <1>6, <2>2, <2>3, <2>4
  <2>5. CASE c = gone
    <3>1. \/ Consumed(HeaderParsed) /\ Parsing'
          \/ Stream' = Stream /\ (Parsing' => Parsing /\ parsed' = parsed)
      BY <2>5
    <3>2. QED
      BY <1>4, <1>5, <3>1
  <2>6. QED
    BY <2>4, <2>5
<1>7. QED
  BY <1>4, <1>5, <1>6 DEF Reads

\* The first response of a call is sent, or what is no response.
LEMMA OnceSent ==
  ASSUME Shape, AnsweredOnce, UNCHANGED <<twice, response_events, parsed>>, Parsing' <=> Parsing,
         Added' = Added, Completed' = Completed,
         NEW m, Sends(m),
         \A c \in Calls : answers'[c] = IF m.id = c THEN answers[c] + 1 ELSE answers[c]
  PROVE  AnsweredOnce'
<1> DEFINE s == Stream
           t == Stream'
<1>1. /\ s \in Seq(Items) /\ Tokens \in Nat
      /\ Len(t) = Len(s) + Tokens + 1
      /\ \A i \in 1 .. Len(s) : t[i] = s[i]
      /\ \A i \in Len(s) + 2 .. Len(t) : t[i] = NoId
      /\ t[Len(s) + 1] = m
  BY StreamTypes, TokensAssumption DEF Shape, Sends
<1>2. ASSUME NEW c \in Calls
      PROVE  /\ Fresh(c)' <=> Fresh(c)
             /\ m.id # c => About(c)' \subseteq About(c)
             /\ \A i \in About(c)' : i \in About(c) \/ i = Len(Stream) + 1
  <2>1. Fresh(c)' <=> Fresh(c)
    BY DEF Fresh, Awaits
  <2>2. /\ About(c)' = {i \in 1 .. Len(t) : t[i] \in Headers /\ t[i].id = c}
        /\ About(c) = {i \in 1 .. Len(s) : s[i] \in Headers /\ s[i].id = c}
    BY DEF About
  <2> HIDE DEF s, t
  <2>3. ASSUME NEW i \in 1 .. Len(t) PROVE i \in 1 .. Len(s) \/ i = Len(s) + 1 \/ i \in Len(s) + 2 .. Len(t)
    <3>1. Len(s) \in Nat /\ i \in Nat /\ i >= 1 /\ i <= Len(t) /\ Len(t) \in Nat
      BY <1>1
    <3>2. QED
      BY ONLY <3>1
  <2>4. \A i \in About(c)' : i \in About(c) \/ (i = Len(s) + 1 /\ m.id = c)
    BY <1>1, <2>2, <2>3, TokenIsNoHeader
  <2>5. QED
    BY <2>1, <2>4 DEF s
<1>3. SUFFICES ASSUME NEW c \in Calls, answers'[c] <= 1
               PROVE  /\ c \notin twice
                      /\ answers'[c] = 0 => Fresh(c) /\ About(c)' = {} /\ ~(Parsing /\ parsed.id = c)
                      /\ About(c)' # {} => Fresh(c) /\ ~(Parsing /\ parsed.id = c)
                      /\ \A i, k \in About(c)' : i = k
                      /\ Parsing /\ parsed.id = c => Fresh(c)
  BY <1>2 DEF AnsweredOnce, Single
<1>4. /\ answers[c] \in Nat /\ answers'[c] = IF m.id = c THEN answers[c] + 1 ELSE answers[c]
      /\ c \notin twice
      /\ answers[c] = 0 => Fresh(c) /\ About(c) = {} /\ ~(Parsing /\ parsed.id = c)
      /\ About(c) # {} => Fresh(c) /\ ~(Parsing /\ parsed.id = c)
      /\ \A i, k \in About(c) : i = k
      /\ Parsing /\ parsed.id = c => Fresh(c)
  <2>1. answers[c] \in Nat /\ answers'[c] = IF m.id = c THEN answers[c] + 1 ELSE answers[c]
    BY DEF Shape, DataTypes
  <2>2. answers[c] <= 1
    BY <1>3, <2>1
  <2>3. QED
    BY <2>1, <2>2 DEF AnsweredOnce, Single
<1>5. CASE m.id = c
  <2>1. answers[c] = 0 /\ answers'[c] # 0
    BY <1>3, <1>4, <1>5
  <2>2. \A i \in About(c)' : i = Len(Stream) + 1
    BY <1>2, <1>4, <2>1
  <2>3. QED
    BY <1>4, <2>1, <2>2
<1>6. CASE m.id # c
  <2>1. answers'[c] = answers[c] /\ About(c)' \subseteq About(c)
    BY <1>2, <1>6
  <2>2. QED
    BY <1>4, <2>1
<1>7. QED
  BY <1>5, <1>6

\* Less may come than was sent.
LEMMA OnceCut ==
  ASSUME AnsweredOnce, UNCHANGED <<twice, answers, response_events, parsed>>, Parsing' <=> Parsing,
         Added' = Added, Completed' = Completed,
         Stream \in Seq(Items), Stream' \in Seq(Items), Len(Stream') <= Len(Stream),
         \A i \in 1 .. Len(Stream') : Stream'[i] = Stream[i]
  PROVE  AnsweredOnce'
<1>1. ASSUME NEW c \in Calls PROVE (Fresh(c)' <=> Fresh(c)) /\ About(c)' \subseteq About(c)
  <2>1. Fresh(c)' <=> Fresh(c)
    BY DEF Fresh, Awaits
  <2>2. \A i \in 1 .. Len(Stream') : i \in 1 .. Len(Stream)
    OBVIOUS
  <2>3. QED
    BY <2>1, <2>2 DEF About
<1>2. QED
  BY <1>1 DEF AnsweredOnce, Single

\* A response finds the event of its call pending.
LEMMA StepAnsweredOnce == Shape /\ AnsweredOnce /\ [Next]_vars => AnsweredOnce'
<1> SUFFICES ASSUME Shape, AnsweredOnce, [Next]_vars PROVE AnsweredOnce'
  OBVIOUS
<1>1. /\ Linked = Added \cup Ready /\ Linked' = Added' \cup Ready' /\ Added \cap Ready = {}
      /\ Ready \subseteq Completed /\ Completed \subseteq Linked
      /\ Chains
      /\ NoId \notin Calls
  BY CallsAssumption DEF Linked, Added, Ready, Shape, Once
<1>2. Shape'
  BY StepShape
<1>3. /\ \A m : OutputReady(m) \notin ReaderEvents /\ Sent(m) \notin ReaderEvents /\ Finish(m) \notin ReaderEvents
      /\ \A m, n : /\ Sent(m) # OutputReady(n) /\ Sent(m) # Finish(n) /\ Sent(m) # Exited
                   /\ m # n => Finish(m) # Finish(n)
      /\ \A m : Finish(m) # Exited
      /\ HeaderParsed \in ReaderEvents /\ NodeParsed \in ReaderEvents /\ TokenRead \in ReaderEvents
  BY EventNames DEF ReaderEvents
<1>4. CASE UNCHANGED vars
  <2>1. UNCHANGED <<events, done, batch, buffer, parsed, left, outcome, response_events, written, owed>>
        /\ UNCHANGED <<twice, answers, wire, outbox>>
    BY <1>4 DEF vars, loopVars, inputVars, callVars, remoteVars
  <2>2. /\ Parsing' <=> Parsing
        /\ Added' = Added /\ Completed' = Completed /\ Stream' = Stream
    BY <2>1, LoopKept DEF Stream
  <2>3. QED
    BY <2>1, <2>2 DEF AnsweredOnce, Single, Fresh, About, Awaits
<1>5. ASSUME UNCHANGED <<twice, answers>>, Reads, \A c \in Calls : Fresh(c) => Fresh(c)'
      PROVE  AnsweredOnce'
  BY <1>1, <1>2, <1>5, OnceRead
<1>6. ASSUME UNCHANGED <<twice, answers, response_events>>, Reads,
             NEW e, NEW A, NEW C, Moved(e, A, C),
             \A c \in Calls : Finish(c) \in C => c \notin response_events
      PROVE  AnsweredOnce'
  <2>1. ASSUME NEW c \in Calls, Fresh(c) PROVE Fresh(c)'
    BY <1>6, <2>1, FreshKept DEF Fresh
  <2>2. QED
    BY <1>5, <1>6, <2>1
<1>7. ASSUME NEW m \in Outgoing, Start(m) PROVE AnsweredOnce'
  <2>1. UNCHANGED <<twice, answers, response_events>>
    BY <1>7 DEF Start, remoteVars
  <2>2. /\ (Parsing' <=> Parsing) /\ Stream' = Stream /\ parsed' = parsed
        /\ Added \subseteq Added' /\ UNCHANGED done
    BY <1>7, StartMoves
  <2>3. \A c \in Calls : Fresh(c) => Fresh(c)'
    BY <2>1, <2>2 DEF Fresh, Awaits, Completed
  <2>4. QED
    BY <1>5, <2>1, <2>2, <2>3 DEF Reads
<1>8. ASSUME NEW m \in Outgoing, OnOutputReady(m) PROVE AnsweredOnce'
  <2>1. UNCHANGED <<twice, answers, response_events, parsed>> /\ Stream' = Stream
    BY <1>8 DEF OnOutputReady, remoteVars, callVars, inputVars, Stream
  <2>2. Moved(OutputReady(m), {}, {Sent(m)}) /\ (Parsing' <=> Parsing)
    BY <1>8, OutputReadyMoves
  <2>3. QED
    BY <1>3, <1>6, <2>1, <2>2 DEF Reads
<1>9. ASSUME NEW m \in Outgoing, OnFinish(m) PROVE AnsweredOnce'
  <2>1. UNCHANGED <<twice, answers, response_events, parsed>> /\ Stream' = Stream
    BY <1>9 DEF OnFinish, remoteVars, inputVars, Stream
  <2>2. Moved(Finish(m), {}, {}) /\ (Parsing' <=> Parsing)
    BY <1>9, FinishMoves
  <2>3. QED
    BY <1>6, <2>1, <2>2 DEF Reads
<1>10. ASSUME NEW m \in Outgoing, NEW r \in {"ok", "failed"}, OnSendEnded(m, r) PROVE AnsweredOnce'
  <2>1. UNCHANGED <<twice, answers, response_events, parsed>> /\ Stream' = Stream
    BY <1>10 DEF OnSendEnded, remoteVars, inputVars, callVars, Stream
  <2>2. Moved(Sent(m), {}, {Finish(m)}) /\ (Parsing' <=> Parsing) /\ m \notin response_events
    BY <1>10, SendEndedMoves
  <2>3. \A c \in Calls : Finish(c) \in {Finish(m)} => c \notin response_events
    BY <1>3, <2>2
  <2>4. QED
    BY <1>6, <2>1, <2>2, <2>3 DEF Reads
<1>11. ASSUME NEW c \in Calls, OnSent(c) PROVE AnsweredOnce'
  <2>1. /\ UNCHANGED <<twice, answers, parsed>> /\ Stream' = Stream
        /\ response_events' = response_events \cup {c}
    BY <1>11 DEF OnSent, remoteVars, inputVars, Stream
  <2>2. Moved(Sent(c), {}, {}) /\ (Parsing' <=> Parsing) /\ Awaits(Finish(c))
    BY <1>11, SentMoves
  <2>3. \A x \in Calls : Fresh(x) => Fresh(x)'
    BY <2>1, <2>2 DEF Fresh, Awaits, Moved
  <2>4. QED
    BY <1>5, <2>1, <2>2, <2>3 DEF Reads
<1>12. ASSUME NEW c \in Calls, OnSentLate(c) PROVE AnsweredOnce'
  <2>1. UNCHANGED <<twice, answers, response_events, parsed>> /\ Stream' = Stream
    BY <1>12 DEF OnSentLate, remoteVars, inputVars, Stream
  <2>2. Moved(Sent(c), {}, {Finish(c)}) /\ (Parsing' <=> Parsing) /\ Sent(c) \in Ready
    BY <1>12, SentLateMoves
  <2>3. \A x \in Calls : Finish(x) \in {Finish(c)} => x \notin response_events
    BY <1>1, <1>3, <2>2 DEF Chains, Outgoing
  <2>4. QED
    BY <1>6, <2>1, <2>2, <2>3 DEF Reads
<1>13. ASSUME NEW target \in {HeaderParsed, TokenRead}, OnInputReady(target) \/ OnInputFailed(target)
       PROVE  AnsweredOnce'
  <2>1. UNCHANGED <<twice, answers, response_events>>
    BY <1>13 DEF OnInputReady, OnInputFailed, callVars, remoteVars
  <2>2. /\ InputReady(target) \in Ready
        /\ Moved(InputReady(target), {}, {target})
        /\ \/ Consumed(target) /\ Parsing'
           \/ Stream' = Stream /\ parsed' = parsed /\ (Parsing' <=> Parsing)
    BY <1>13, InputMoves
  <2>3. \A c : Finish(c) # target
    BY <1>3
  <2>4. Reads
    <3>1. CASE target = HeaderParsed
      BY <2>2, <3>1 DEF Reads
    <3>2. CASE target = TokenRead
      <4>1. NodeParsed \in Linked
        BY <2>2, <3>2, WhereItIs
      <4>2. TokenRead # HeaderParsed
        BY EventNames
      <4>3. QED
        BY <2>2, <3>2, <4>1, <4>2 DEF Reads, Parsing, Consumed
    <3>3. QED
      BY <3>1, <3>2
  <2>5. QED
    BY <1>6, <2>1, <2>2, <2>3, <2>4
<1>14. CASE OnHeader \/ OnToken
  <2>1. UNCHANGED <<twice, answers, response_events>>
    BY <1>14 DEF OnHeader, OnToken, callVars, remoteVars
  <2>2. PICK e \in {HeaderParsed, TokenRead}, A \in SUBSET ReaderEvents, C \in SUBSET {TokenRead} :
           /\ e \in Ready /\ Moved(e, A, C) /\ NodeParsed \in Linked'
           /\ \A x \in C : done'[x] = "ok"
    BY <1>14, TokenAsked
  <2>3. Parsing /\ Parsing' /\ parsed' = parsed /\ (Stream' = Stream \/ Consumed(TokenRead))
    BY <1>14, TokenAsked
  <2>4. Reads
    BY <2>3 DEF Reads
  <2>5. \A c : Finish(c) \notin C
    BY <1>3, <2>2
  <2>6. QED
    BY <1>6, <2>1, <2>2, <2>4, <2>5
<1>15. CASE OnHeaderFailed \/ OnNodeFailed \/ OnInvalid
  <2>1. UNCHANGED <<twice, answers, response_events>>
    BY <1>15 DEF OnHeaderFailed, OnNodeFailed, OnInvalid, callVars, remoteVars
  <2>2. PICK e \in {HeaderParsed, NodeParsed} : e \in Ready /\ Moved(e, {}, {})
    BY <1>15, EndMoves
  <2>3. Reads
    BY <1>15, EndMoves DEF Reads
  <2>4. QED
    BY <1>6, <2>1, <2>2, <2>3
<1>16. ASSUME NEW r \in {"ok", "failed"}, OnLastToken(r) PROVE AnsweredOnce'
  <2>1. UNCHANGED <<twice, answers, response_events>>
    BY <1>16 DEF OnLastToken, callVars, remoteVars
  <2>2. /\ Parsing /\ Parsing' /\ Stream' = Stream /\ parsed' = parsed
        /\ Moved(TokenRead, {}, {NodeParsed})
    BY <1>16, LastTokenMoves
  <2>3. \A c : Finish(c) # NodeParsed
    BY <1>3
  <2>4. QED
    BY <1>6, <2>1, <2>2, <2>3 DEF Reads
<1>17. CASE OnResponse \/ OnUnknownResponse \/ OnNotice
  <2>1. UNCHANGED <<answers, response_events>> /\ (twice' = twice \/ OnResponse)
    BY <1>17 DEF OnResponse, OnUnknownResponse, OnNotice, callVars, remoteVars
  <2>2. /\ Parsing
        /\ \/ Stream' = Stream /\ ~Parsing'
           \/ Consumed(HeaderParsed) /\ Parsing'
    BY <1>17, DispatchMoves
  <2>3. PICK F : \E A \in SUBSET ReaderEvents, C \in SUBSET (F \cup {HeaderParsed}) :
               /\ \A x \in F : /\ OnResponse /\ Awaits(x) /\ x = Finish(parsed.id)
                               /\ parsed.id \in Calls \cap response_events
               /\ F \subseteq C /\ Moved(NodeParsed, A, C)
               /\ HeaderParsed \in C => done'[HeaderParsed] = "ok"
    BY <1>17, DispatchMoves
  <2>4. PICK A \in SUBSET ReaderEvents, C \in SUBSET (F \cup {HeaderParsed}) :
               /\ \A x \in F : x = Finish(parsed.id)
               /\ Moved(NodeParsed, A, C)
    BY <2>3
  <2>5. \A c \in Calls : answers[c] <= 1 => (c \in twice' => c \in twice)
    <3>1. CASE OnResponse
      <4>1. SUFFICES ASSUME NEW c \in Calls, answers[c] <= 1, c \in twice', c \notin twice PROVE FALSE
        OBVIOUS
      <4>2. /\ parsed.id \in response_events
            /\ twice' = IF Pending(Finish(parsed.id)) THEN twice ELSE twice \cup {parsed.id}
        BY <3>1 DEF OnResponse
      <4>3. c = parsed.id /\ ~Pending(Finish(c))
        BY <4>1, <4>2
      <4>4. Fresh(c)
        BY <2>2, <4>1, <4>3 DEF AnsweredOnce, Single
      <4>5. QED
        BY <1>1, <4>2, <4>3, <4>4 DEF Fresh, Awaits, Pending
    <3>2. CASE twice' = twice
      BY <3>2
    <3>3. QED
      BY <2>1, <3>1, <3>2
  <2>6. ASSUME NEW c \in Calls, Fresh(c), c # parsed.id PROVE Fresh(c)'
    <3>1. Finish(c) \notin C
      BY <1>3, <2>4, <2>6
    <3>2. QED
      BY <2>1, <2>4, <2>6, <3>1, FreshKept
  <2>7. Reads
    BY <2>2 DEF Reads
  <2>8. QED
    BY <1>2, <2>1, <2>2, <2>5, <2>6, <2>7, OnceRead
<1>18. CASE OnExited
  <2>1. UNCHANGED <<twice, answers, response_events>>
    BY <1>18 DEF OnExited, callVars, remoteVars
  <2>2. (Parsing' <=> Parsing) /\ Stream' = Stream /\ parsed' = parsed /\ Moved(Exited, {}, {})
    BY <1>18, ExitedMoves
  <2>3. QED
    BY <1>6, <2>1, <2>2 DEF Reads
<1>19. CASE Iterate \/ Transmit \/ Reap
  <2>1. UNCHANGED <<twice, answers, response_events>>
    BY <1>19 DEF Iterate, Transmit, Reap, callVars, remoteVars
  <2>2. (Parsing' <=> Parsing) /\ Stream' = Stream /\ parsed' = parsed
    BY <1>19, IterateMoves, TransmitMoves, ReapMoves
  <2>3. \A c : Awaits(Finish(c)) => Awaits(Finish(c))'
    <3>1. CASE Iterate
      BY <1>3, <3>1, IterateMoves, EventNames DEF Awaits
    <3>2. CASE Transmit \/ Reap
      BY <1>3, <3>2, TransmitMoves, ReapMoves DEF Awaits
    <3>3. QED
      BY <1>19, <3>1, <3>2
  <2>4. \A c \in Calls : Fresh(c) => Fresh(c)'
    BY <2>1, <2>3 DEF Fresh
  <2>5. QED
    BY <1>5, <2>1, <2>2, <2>4 DEF Reads
<1>20. ASSUME NEW c \in Calls, NEW type \in {"result", "error"}, Answer(c, type) PROVE AnsweredOnce'
  <2>1. /\ UNCHANGED <<twice, response_events>>
        /\ answers' = [answers EXCEPT ![c] = @ + 1] /\ answers \in [Calls -> Nat]
    BY <1>20 DEF Answer, callVars, Shape, DataTypes
  <2>2. PICK m \in Headers : m.id = c /\ Sends(m)
    BY <1>20, AnswerMoves
  <2>3. (Parsing' <=> Parsing) /\ parsed' = parsed /\ Added' = Added /\ Completed' = Completed
    BY <1>20, AnswerMoves
  <2>5. \A x \in Calls : answers'[x] = IF m.id = x THEN answers[x] + 1 ELSE answers[x]
    BY <2>1, <2>2
  <2>6. QED
    BY <2>1, <2>2, <2>3, <2>5, OnceSent
<1>21. ASSUME NEW type \in {"notice", "invalid"}, Notify(type) PROVE AnsweredOnce'
  <2>1. UNCHANGED <<twice, response_events, answers>>
    BY <1>21 DEF Notify, callVars
  <2>2. PICK m \in Headers : m.id = NoId /\ Sends(m)
    BY <1>21, NotifyMoves
  <2>3. (Parsing' <=> Parsing) /\ parsed' = parsed /\ Added' = Added /\ Completed' = Completed
    BY <1>21, NotifyMoves
  <2>4. \A x \in Calls : answers'[x] = IF m.id = x THEN answers[x] + 1 ELSE answers[x]
    BY <1>1, <2>1, <2>2
  <2>5. QED
    BY <2>1, <2>2, <2>3, <2>4, OnceSent
<1>22. CASE Disconnect
  <2>1. UNCHANGED <<twice, response_events, answers>>
    BY <1>22 DEF Disconnect, callVars
  <2>2. /\ (Parsing' <=> Parsing) /\ parsed' = parsed
        /\ Added' = Added /\ Completed' = Completed
        /\ Stream' \in Seq(Items) /\ Len(Stream') <= Len(Stream)
        /\ \A i \in 1 .. Len(Stream') : Stream'[i] = Stream[i]
    BY <1>22, DisconnectMoves
  <2>3. Stream \in Seq(Items)
    BY StreamTypes DEF Shape
  <2>4. QED
    BY <2>1, <2>2, <2>3, OnceCut
<1>23. QED
  BY <1>4, <1>7, <1>8, <1>9, <1>10, <1>11, <1>12, <1>13, <1>14, <1>15, <1>16, <1>17, <1>18, <1>19,
     <1>20, <1>21, <1>22
     DEF Next, Callback, RemoteStep

\* Whatever the remote sends, and in whatever order, the server completes the
\* event of a call twice, or touches it after its callback, only when the
\* remote answered that call more than once: although response_events keeps the
\* event (jsonrpc-server.c:953-957), an early answer, a failed call or the
\* answer of another call never does it.
THEOREM NeverCompletedTwiceAlways == Spec => []NeverCompletedTwice
<1>1. Init => AnsweredOnce
  <2>1. SUFFICES ASSUME Init PROVE AnsweredOnce
    OBVIOUS
  <2>2. response_events = {} /\ twice = {}
    BY <2>1 DEF Init
  <2>3. Stream = <<>> /\ ~Parsing
    BY <2>1, InitShape
  <2>4. QED
    BY <2>2, <2>3 DEF AnsweredOnce, Single, Fresh, About
<1>2. Shape /\ AnsweredOnce => NeverCompletedTwice
  <2>1. ASSUME Shape, AnsweredOnce, NEW c \in Calls, c \in twice PROVE answers[c] > 1
    <3>1. answers[c] \in Nat /\ ~(answers[c] <= 1)
      BY <2>1 DEF AnsweredOnce, Single, Shape, DataTypes
    <3>2. QED
      BY <3>1
  <2>2. QED
    BY <2>1 DEF NeverCompletedTwice
<1>3. Shape /\ AnsweredOnce /\ [Next]_vars => AnsweredOnce'
  BY StepAnsweredOnce
<1>4. QED
  BY <1>1, <1>2, <1>3, AlwaysShape, PTL DEF Spec

----------------------------------------------------------------------------
(* The two tables, whatever the remote does.                               *)

\* Only the callback of a sent message and the dispatch of a response touch
\* the two tables, and each of them looks into the other table first.
LEMMA StepSavedOrAwaited == SavedOrAwaited /\ [Next]_vars => SavedOrAwaited'
<1> SUFFICES ASSUME SavedOrAwaited, [Next]_vars PROVE SavedOrAwaited'
  OBVIOUS
<1> DEFINE tables == <<response_events, received_responses>>
<1>1. CASE UNCHANGED tables
  BY <1>1 DEF SavedOrAwaited
<1>2. ASSUME NEW c \in Calls, OnSent(c) PROVE SavedOrAwaited'
  <2>1. /\ c \notin received_responses
        /\ response_events' = response_events \cup {c}
        /\ received_responses' = received_responses
    BY <1>2 DEF OnSent
  <2>2. QED
    BY <2>1 DEF SavedOrAwaited
<1>3. ASSUME NEW c \in Calls, OnSentLate(c) PROVE SavedOrAwaited'
  <2>1. /\ received_responses' = received_responses \ {c}
        /\ response_events' = response_events
    BY <1>3 DEF OnSentLate
  <2>2. QED
    BY <2>1 DEF SavedOrAwaited
<1>4. CASE OnUnknownResponse
  <2>1. /\ parsed.id \notin response_events
        /\ received_responses' = received_responses \cup {parsed.id}
        /\ response_events' = response_events
    BY <1>4 DEF OnUnknownResponse
  <2>2. QED
    BY <2>1 DEF SavedOrAwaited
<1> USE DEF callVars
<1>5. ASSUME NEW m \in Outgoing, Start(m) \/ OnOutputReady(m) \/ OnFinish(m)
      PROVE  UNCHANGED tables
  BY <1>5 DEF Start, OnOutputReady, OnFinish
<1>6. ASSUME NEW m \in Outgoing, NEW r, OnSendEnded(m, r) PROVE UNCHANGED tables
  BY <1>6 DEF OnSendEnded
<1>7. ASSUME NEW target, OnInputReady(target) \/ OnInputFailed(target) PROVE UNCHANGED tables
  BY <1>7 DEF OnInputReady, OnInputFailed
<1>8. CASE OnHeader \/ OnHeaderFailed \/ OnToken \/ OnNodeFailed \/ OnInvalid \/ OnExited
  BY <1>1, <1>8 DEF OnHeader, OnHeaderFailed, OnToken, OnNodeFailed, OnInvalid, OnExited
<1>9. ASSUME NEW r, OnLastToken(r) PROVE UNCHANGED tables
  BY <1>9 DEF OnLastToken
<1>10. CASE OnResponse \/ OnNotice
  BY <1>1, <1>10 DEF OnResponse, OnNotice
<1>11. CASE Iterate \/ Transmit \/ Reap
  BY <1>1, <1>11 DEF Iterate, Transmit, Reap
<1>12. CASE RemoteStep
  BY <1>1, <1>12 DEF RemoteStep, Answer, Notify, Disconnect
<1>13. CASE UNCHANGED vars
  BY <1>1, <1>13 DEF vars
<1> HIDE DEF tables
<1>14. QED
  BY <1>1, <1>2, <1>3, <1>4, <1>5, <1>6, <1>7, <1>8, <1>9, <1>10, <1>11, <1>12, <1>13
     DEF Next, Callback

\* A response that came early is never left behind while its call waits, and
\* a call whose response was saved never registers: received_responses and
\* response_events (jsonrpc-server.c:782-789 and 953-963) exclude each other.
THEOREM SavedOrAwaitedAlways == Spec => []SavedOrAwaited
<1>1. Init => SavedOrAwaited
  BY DEF Init, SavedOrAwaited
<1>2. QED
  BY <1>1, StepSavedOrAwaited, PTL DEF Spec

----------------------------------------------------------------------------
(* Where a call is, whatever the remote does.                              *)

EventsOf(m) == {OutputReady(m), Sent(m), Finish(m)}

\* A call that is not at its end is where something will move it on: its
\* message is to be written, its callback is due, or it was written and its
\* response is awaited.  Only a request is registered, and only when written.
Stage(m) ==
    /\ (Finish(m) \in Linked <=> outcome[m] = "pending")
    /\ Sent(m) \in Linked => OutputReady(m) \in Linked \/ Sent(m) \in Completed
    /\ Sent(m) \in Completed /\ done[Sent(m)] = "ok" => m \in written
    /\ m \in response_events => m \in Calls /\ m \in written
    /\ outcome[m] = "pending" => Sent(m) \in Linked \/ Finish(m) \in Completed \/ m \in response_events

\* A request or a notification that was made waits for a callback that is due,
\* for room in the output pipe or, once it is written and registered, for the
\* response that nobody has read yet.
Waits ==
    \A m \in Outgoing : outcome[m] = "pending" =>
        \/ OutputReady(m) \in Linked
        \/ {Sent(m), Finish(m)} \cap Completed # {}
        \/ m \in Calls \cap written /\ m \in response_events \ received_responses

\* The response of c is at hand: it has completed the call, or it is saved and
\* the callback that looks for it is still to come.
Served(c) == Finish(c) \in Completed \/ (c \in received_responses /\ Sent(c) \in Linked)
Dispatched(c) == Run(NodeParsed, "ok") /\ parsed.type \in {"result", "error"} /\ parsed.id = c

ResponseKept(c) ==
    outcome[c] = "pending" /\ (Dispatched(c) \/ Served(c)) =>
        Served(c)' \/ outcome'[c] \notin {"none", "pending"}
NoResponseDropped == [][\A c \in Calls : ResponseKept(c)]_vars
StageInv == \A m \in Outgoing : Stage(m)

\* The event whose callback runs leaves the batch, and no other.
LEMMA RunIsRunning ==
  ASSUME Shape, NEW e, NEW r, Run(e, r)
  PROVE  e \in Ready /\ e \in Linked /\ e \in Completed /\ Ready' = Ready \ {e}
<1>1. batch \in Seq(EventSet) /\ IsInjective(batch) /\ Ready \subseteq Completed /\ Ready \subseteq Linked
  BY DEF Shape, LoopTypes, Once, Linked, Ready
<1>2. batch # <<>> /\ e = Head(batch) /\ batch' = Tail(batch)
  BY DEF Run
<1>3. ToSet(batch) = {e} \cup ToSet(Tail(batch)) /\ e \notin ToSet(Tail(batch))
  BY <1>1, <1>2, HeadTailElems
<1>4. QED
  BY <1>1, <1>2, <1>3 DEF Ready

\* The callback of an event of another message, or of the listening loop, may
\* complete a call, and does nothing else to it.
LEMMA OtherKeeps ==
  ASSUME NEW m \in Outgoing, Stage(m),
         NEW e, e \notin EventsOf(m), NEW A, A \cap EventsOf(m) = {},
         NEW C, C \cap {OutputReady(m), Sent(m)} = {}, Moved(e, A, C),
         outcome'[m] = outcome[m], written \subseteq written',
         m \in response_events' <=> m \in response_events,
         m \in received_responses => m \in received_responses'
  PROVE  Stage(m)' /\ (Served(m) => Served(m)')
<1>1. Linked = Added \cup Ready /\ Linked' = Added' \cup Ready'
  BY DEF Linked, Added, Ready
<1>2. /\ \A x \in EventsOf(m) : (x \in Linked' <=> x \in Linked) /\ (x \in Completed => x \in Completed')
      /\ \A x \in {OutputReady(m), Sent(m)} : x \in Completed' => x \in Completed /\ done'[x] = done[x]
  BY <1>1 DEF Moved, EventsOf
<1>3. /\ OutputReady(m) \in Linked' <=> OutputReady(m) \in Linked
      /\ Sent(m) \in Linked' <=> Sent(m) \in Linked
      /\ Finish(m) \in Linked' <=> Finish(m) \in Linked
      /\ Sent(m) \in Completed' <=> Sent(m) \in Completed
      /\ Sent(m) \in Completed => done'[Sent(m)] = done[Sent(m)]
      /\ Finish(m) \in Completed => Finish(m) \in Completed'
  BY <1>2 DEF EventsOf
<1>4. QED
  BY <1>3 DEF Stage, Served

\* A step that leaves the events of a message alone.
LEMMA UntouchedKeeps ==
  ASSUME NEW m \in Outgoing, Stage(m),
         \A x \in EventsOf(m) : x \in Linked' <=> x \in Linked,
         \A x \in {Sent(m), Finish(m)} : x \in Completed' <=> x \in Completed,
         Sent(m) \in Completed => done'[Sent(m)] = done[Sent(m)],
         outcome'[m] = outcome[m], UNCHANGED <<written, response_events, received_responses>>
  PROVE  Stage(m)' /\ (Served(m) => Served(m)')
BY DEF Stage, Served, EventsOf

\* A response that is dispatched to a call completes it, if it is not complete.
LEMMA ResponseCompletes ==
  ASSUME OnResponse, Finish(parsed.id) \in Linked
  PROVE  Finish(parsed.id) \in Completed'
<1> DEFINE f == Finish(parsed.id)
           d == Without(done, NodeParsed)
           r == IF Pending(f) THEN With(d, f, Payload) ELSE d
<1>1. ParseHeader(r)
  BY DEF OnResponse
<1>2. f # NodeParsed
  BY EventNames
<1>3. f \in DOMAIN r
  BY <1>2 DEF Pending, Completed, With, Without
<1> HIDE DEF r
<1>4. DOMAIN r \subseteq DOMAIN done'
  <2>1. done' = r \/ done' = With(r, HeaderParsed, "ok")
    BY <1>1 DEF ParseHeader, Await
  <2>2. QED
    BY <2>1 DEF With
<1>5. QED
  BY <1>3, <1>4 DEF Completed

\* The events of messages are told apart, from each other and from the rest.
LEMMA EventsApart ==
  /\ \A m, n : m # n => EventsOf(m) \cap EventsOf(n) = {}
  /\ \A m : /\ EventsOf(m) \cap (ReaderEvents \cup {Exited}) = {}
            /\ OutputReady(m) # Sent(m) /\ Sent(m) # Finish(m) /\ OutputReady(m) # Finish(m)
  /\ NodeParsed # Exited
  /\ \A x \in {HeaderParsed, TokenRead} : NodeParsed # InputReady(x) /\ NodeParsed # x
<1>1. \A m : \A x \in EventsOf(m) : x.of = m /\ x.cb \in {"output_ready", "sent", "finish"}
  BY EventNames DEF EventsOf
<1>2. \A x \in ReaderEvents \cup {Exited} : x.cb \notin {"output_ready", "sent", "finish"}
  BY EventNames DEF ReaderEvents
<1>3. QED
  BY <1>1, <1>2, EventNames

\* What a step does to one message.
LEMMA StepStage ==
  ASSUME Shape, StageInv, [Next]_vars, NEW m \in Outgoing
  PROVE  /\ Stage(m)'
         /\ m \in Calls => ResponseKept(m)
<1> DEFINE Kept == /\ Stage(m)'
                   /\ outcome[m] = "pending" /\ Served(m) => Served(m)' \/ outcome'[m] \notin {"none", "pending"}
<1>1. /\ Linked = Added \cup Ready /\ Linked' = Added' \cup Ready' /\ Added \cap Ready = {}
      /\ Ready \subseteq Completed /\ Completed \subseteq Linked
  BY DEF Linked, Added, Ready, Shape, Once
<1>2. /\ Stage(m)
      /\ \A n \in Outgoing : n # m => EventsOf(n) \cap EventsOf(m) = {}
      /\ EventsOf(m) \cap (ReaderEvents \cup {Exited}) = {}
      /\ OutputReady(m) \in EventsOf(m) /\ Sent(m) \in EventsOf(m) /\ Finish(m) \in EventsOf(m)
      /\ OutputReady(m) # Sent(m) /\ Sent(m) # Finish(m) /\ OutputReady(m) # Finish(m)
      /\ Calls \subseteq Outgoing
  BY EventsApart DEF StageInv, EventsOf, Outgoing
<1>3. \* a callback of another message
      ASSUME NEW n \in Outgoing, n # m, NEW e \in EventsOf(n), NEW C \in SUBSET EventsOf(n), Moved(e, {}, C),
             outcome'[m] = outcome[m], written \subseteq written',
             m \in response_events' <=> m \in response_events,
             m \in received_responses => m \in received_responses'
      PROVE  Kept
  <2>1. e \notin EventsOf(m) /\ C \cap {OutputReady(m), Sent(m)} = {}
    BY <1>2, <1>3 DEF EventsOf
  <2>2. QED
    BY <1>2, <1>3, <2>1, OtherKeeps
<1>4. \* a callback of the listening loop
      ASSUME NEW e \in ReaderEvents \cup {Exited}, NEW A \in SUBSET ReaderEvents,
             NEW C, C \cap {OutputReady(m), Sent(m)} = {}, Moved(e, A, C),
             UNCHANGED <<outcome, written, response_events>>, received_responses \subseteq received_responses'
      PROVE  Kept
  <2>1. e \notin EventsOf(m) /\ A \cap EventsOf(m) = {}
    BY <1>2, <1>4
  <2>2. QED
    BY <1>2, <1>4, <2>1, OtherKeeps
<1>5. \* a step that leaves its events as they are
      ASSUME \A x \in EventsOf(m) : x \in Linked' <=> x \in Linked,
             \A x \in {Sent(m), Finish(m)} : x \in Completed' <=> x \in Completed,
             Sent(m) \in Completed => done'[Sent(m)] = done[Sent(m)],
             outcome'[m] = outcome[m], UNCHANGED <<written, response_events, received_responses>>
      PROVE  Kept
  BY <1>2, <1>5, UntouchedKeeps
<1>6. \* nothing but the dispatch of a node takes its event
      ASSUME Kept, ~Run(NodeParsed, "ok")
      PROVE  Stage(m)' /\ (m \in Calls => ResponseKept(m))
  BY <1>6 DEF ResponseKept, Dispatched
<1>7. \* nor does the callback of another event
      ASSUME Kept, NEW e, e # NodeParsed, NEW A, NEW C, Moved(e, A, C)
      PROVE  Stage(m)' /\ (m \in Calls => ResponseKept(m))
  <2>1. ~Run(NodeParsed, "ok")
    BY <1>7, RunIsRunning DEF Moved
  <2>2. QED
    BY <1>6, <1>7, <2>1
<1>8. ASSUME Kept, Ready' = Ready
      PROVE  Stage(m)' /\ (m \in Calls => ResponseKept(m))
  <2>1. ~Run(NodeParsed, "ok")
    BY <1>8, RunIsRunning
  <2>2. QED
    BY <1>6, <1>8, <2>1
<1>9. /\ HeaderParsed \in ReaderEvents /\ NodeParsed \in ReaderEvents /\ TokenRead \in ReaderEvents
      /\ \A x \in {HeaderParsed, TokenRead} : InputReady(x) \in ReaderEvents
      /\ \A n \in Outgoing : NodeParsed \notin EventsOf(n)
  BY EventsApart DEF ReaderEvents
<1> HIDE DEF Kept
<1>10. CASE UNCHANGED vars
  <2>1. UNCHANGED <<events, done, batch, outcome, written, response_events, received_responses>>
    BY <1>10 DEF vars, loopVars, callVars
  <2>2. Linked' = Linked /\ Completed' = Completed /\ Ready' = Ready
    BY <2>1 DEF Linked, Completed, Ready
  <2>3. QED
    BY <1>5, <1>8, <2>1, <2>2
<1>11. ASSUME NEW n \in Outgoing, Start(n)
       PROVE  Stage(m)' /\ (m \in Calls => ResponseKept(m))
  <2>1. /\ Added' = Added \cup EventsOf(n) /\ EventsOf(n) \cap Linked = {}
        /\ UNCHANGED <<done, batch, written, response_events, received_responses>>
        /\ outcome[n] = "none" /\ outcome' = [outcome EXCEPT ![n] = "pending"]
    BY <1>11, StartMoves DEF Start, EventsOf
  <2>2. Linked' = Linked \cup EventsOf(n) /\ Completed' = Completed /\ Ready' = Ready
    BY <1>1, <2>1 DEF Ready, Completed
  <2>3. CASE n # m
    <3>1. \A x \in EventsOf(m) : x \in Linked' <=> x \in Linked
      BY <1>2, <2>2, <2>3
    <3>2. outcome'[m] = outcome[m]
      BY <2>1, <2>3 DEF Shape, DataTypes
    <3>3. QED
      BY <1>5, <1>8, <2>1, <2>2, <3>1, <3>2
  <2>4. CASE n = m
    <3>1. outcome'[m] = "pending" /\ outcome[m] # "pending"
      BY <2>1, <2>4 DEF Shape, DataTypes
    <3>2. EventsOf(m) \subseteq Linked' /\ Sent(m) \notin Completed /\ m \notin response_events
      BY <1>1, <1>2, <2>1, <2>2, <2>4 DEF Shape, Chains
    <3>3. Stage(m)'
      BY <1>2, <2>1, <2>2, <3>1, <3>2 DEF Stage
    <3>4. QED
      BY <3>1, <3>3 DEF ResponseKept
  <2>5. QED
    BY <2>3, <2>4
<1>12. ASSUME NEW n \in Outgoing, OnOutputReady(n)
       PROVE  Stage(m)' /\ (m \in Calls => ResponseKept(m))
  <2>1. /\ OutputReady(n) \in Ready /\ Sent(n) \in Added
        /\ Moved(OutputReady(n), {}, {Sent(n)})
        /\ done'[Sent(n)] = IF closed THEN "failed" ELSE "ok"
        /\ UNCHANGED <<outcome, response_events, received_responses>>
        /\ written' = IF closed THEN written ELSE written \cup {n}
    BY <1>12, OutputReadyMoves DEF OnOutputReady, callVars
  <2>2. written \subseteq written' /\ (closed \/ n \in written')
    BY <2>1
  <2>3. OutputReady(n) # NodeParsed /\ OutputReady(n) \in EventsOf(n) /\ Sent(n) \in EventsOf(n)
    BY EventNames DEF EventsOf
  <2>4. CASE n # m
    <3>1. Kept
      BY <1>3, <2>1, <2>2, <2>3, <2>4
    <3>2. QED
      BY <1>7, <2>1, <2>3, <3>1
  <2>5. CASE n = m
    <3>1. /\ Sent(m) \in Linked' /\ Sent(m) \in Completed' /\ Sent(m) \in Linked
          /\ Finish(m) \in Linked' <=> Finish(m) \in Linked
          /\ Finish(m) \in Completed' <=> Finish(m) \in Completed
      BY <1>1, <1>2, <2>1, <2>5 DEF Moved
    <3>2. Stage(m)'
      BY <1>2, <2>1, <2>2, <2>5, <3>1 DEF Stage
    <3>3. Served(m) => Served(m)'
      BY <2>1, <3>1 DEF Served
    <3>4. QED
      BY <1>7, <2>1, <2>3, <3>2, <3>3 DEF Kept
  <2>6. QED
    BY <2>4, <2>5
<1>13. ASSUME NEW n \in Outgoing, NEW r \in {"ok", "failed"}, OnSendEnded(n, r)
       PROVE  Stage(m)' /\ (m \in Calls => ResponseKept(m))
  <2>1. /\ Sent(n) \in Ready /\ n \notin response_events
        /\ Moved(Sent(n), {}, {Finish(n)})
        /\ UNCHANGED <<outcome, written, response_events, received_responses>>
    BY <1>13, SendEndedMoves DEF OnSendEnded, callVars
  <2>2. Sent(n) # NodeParsed /\ Sent(n) \in EventsOf(n) /\ Finish(n) \in EventsOf(n)
    BY EventNames DEF EventsOf
  <2>3. CASE n # m
    <3>1. Kept
      BY <1>3, <2>1, <2>2, <2>3
    <3>2. QED
      BY <1>7, <2>1, <2>2, <3>1
  <2>4. CASE n = m
    <3>1. /\ Sent(m) \notin Linked' /\ Sent(m) \notin Completed'
          /\ Finish(m) \in Linked' <=> Finish(m) \in Linked
          /\ Finish(m) \in Completed'
      BY <1>1, <1>2, <2>1, <2>4 DEF Moved
    <3>2. Stage(m)' /\ Served(m)'
      BY <1>2, <2>1, <2>4, <3>1 DEF Stage, Served
    <3>3. QED
      BY <1>7, <2>1, <2>2, <3>2 DEF Kept
  <2>5. QED
    BY <2>3, <2>4
<1>14. ASSUME NEW c \in Calls, OnSent(c)
       PROVE  Stage(m)' /\ (m \in Calls => ResponseKept(m))
  <2>1. /\ Sent(c) \in Ready /\ done[Sent(c)] = "ok" /\ Awaits(Finish(c))
        /\ Moved(Sent(c), {}, {}) /\ c \notin received_responses
        /\ response_events' = response_events \cup {c}
        /\ UNCHANGED <<outcome, written, received_responses>>
    BY <1>14, SentMoves DEF OnSent
  <2>2. Sent(c) # NodeParsed /\ Sent(c) \in EventsOf(c) /\ c \in Outgoing
    BY <1>2, EventNames DEF EventsOf
  <2>3. CASE c # m
    <3>1. Kept
      BY <1>3, <2>1, <2>2, <2>3
    <3>2. QED
      BY <1>7, <2>1, <2>2, <3>1
  <2>4. CASE c = m
    <3>1. /\ Sent(m) \notin Linked' /\ Sent(m) \notin Completed' /\ Sent(m) \in Completed
          /\ Finish(m) \in Linked' <=> Finish(m) \in Linked
          /\ Finish(m) \notin Completed
      BY <1>1, <1>2, <2>1, <2>4 DEF Moved, Awaits
    <3>2. Stage(m)' /\ ~Served(m)
      BY <1>2, <2>1, <2>4, <3>1 DEF Stage, Served
    <3>3. QED
      BY <1>7, <2>1, <2>2, <3>2 DEF Kept
  <2>5. QED
    BY <2>3, <2>4
<1>15. ASSUME NEW c \in Calls, OnSentLate(c)
       PROVE  Stage(m)' /\ (m \in Calls => ResponseKept(m))
  <2>1. /\ Sent(c) \in Ready /\ Moved(Sent(c), {}, {Finish(c)})
        /\ received_responses' = received_responses \ {c}
        /\ UNCHANGED <<outcome, written, response_events>>
    BY <1>15, SentLateMoves DEF OnSentLate
  <2>2. Sent(c) # NodeParsed /\ Sent(c) \in EventsOf(c) /\ Finish(c) \in EventsOf(c) /\ c \in Outgoing
    BY <1>2, EventNames DEF EventsOf
  <2>3. CASE c # m
    <3>1. Kept
      BY <1>3, <2>1, <2>2, <2>3
    <3>2. QED
      BY <1>7, <2>1, <2>2, <3>1
  <2>4. CASE c = m
    <3>1. /\ Sent(m) \notin Linked' /\ Sent(m) \notin Completed'
          /\ Finish(m) \in Linked' <=> Finish(m) \in Linked
          /\ Finish(m) \in Completed'
      BY <1>1, <1>2, <2>1, <2>4 DEF Moved
    <3>2. Stage(m)' /\ Served(m)'
      BY <1>2, <2>1, <2>4, <3>1 DEF Stage, Served
    <3>3. QED
      BY <1>7, <2>1, <2>2, <3>2 DEF Kept
  <2>5. QED
    BY <2>3, <2>4
<1>16. ASSUME NEW n \in Outgoing, OnFinish(n)
       PROVE  Stage(m)' /\ (m \in Calls => ResponseKept(m))
  <2>1. /\ Finish(n) \in Ready /\ Moved(Finish(n), {}, {})
        /\ outcome' = [outcome EXCEPT ![n] = done[Finish(n)]]
        /\ UNCHANGED <<written, response_events, received_responses>>
    BY <1>16, FinishMoves DEF OnFinish
  <2>2. Finish(n) # NodeParsed /\ Finish(n) \in EventsOf(n)
    BY EventNames DEF EventsOf
  <2>3. CASE n # m
    <3>1. outcome'[m] = outcome[m]
      BY <2>1, <2>3 DEF Shape, DataTypes
    <3>2. Kept
      BY <1>3, <2>1, <2>2, <2>3, <3>1
    <3>3. QED
      BY <1>7, <2>1, <2>2, <3>2
  <2>4. CASE n = m
    <3>1. outcome'[m] \in Results
      BY <1>1, <2>1, <2>4 DEF Shape, DataTypes, LoopTypes
    <3>2. outcome'[m] \notin {"none", "pending"}
      BY <3>1 DEF Results
    <3>3. /\ Finish(m) \notin Linked'
          /\ Sent(m) \in Linked' <=> Sent(m) \in Linked
          /\ OutputReady(m) \in Linked' <=> OutputReady(m) \in Linked
          /\ Sent(m) \in Completed' <=> Sent(m) \in Completed
          /\ Sent(m) \in Completed => done'[Sent(m)] = done[Sent(m)]
      BY <1>1, <1>2, <2>1, <2>4 DEF Moved
    <3>4. Stage(m)'
      BY <1>2, <2>1, <3>2, <3>3 DEF Stage
    <3>5. QED
      BY <3>2, <3>4 DEF ResponseKept
  <2>5. QED
    BY <2>3, <2>4
<1>17. ASSUME NEW target \in {HeaderParsed, TokenRead}, OnInputReady(target) \/ OnInputFailed(target)
       PROVE  Stage(m)' /\ (m \in Calls => ResponseKept(m))
  <2>1. /\ Moved(InputReady(target), {}, {target})
        /\ UNCHANGED <<outcome, written, response_events, received_responses>>
    BY <1>17, InputMoves DEF OnInputReady, OnInputFailed, callVars
  <2>2. target \in ReaderEvents /\ InputReady(target) \in ReaderEvents /\ InputReady(target) # NodeParsed
    BY <1>9, EventsApart
  <2>3. Kept
    BY <1>2, <1>4, <2>1, <2>2
  <2>4. QED
    BY <1>7, <2>1, <2>2, <2>3
<1>18. CASE OnHeader \/ OnToken
  <2>1. UNCHANGED <<outcome, written, response_events, received_responses>>
    BY <1>18 DEF OnHeader, OnToken, callVars
  <2>2. PICK e \in {HeaderParsed, TokenRead}, A \in SUBSET ReaderEvents, C \in SUBSET {TokenRead} :
           Moved(e, A, C)
    BY <1>18, TokenAsked
  <2>3. e # NodeParsed /\ e \in ReaderEvents /\ C \cap {OutputReady(m), Sent(m)} = {}
    BY <1>2, <1>9, EventsApart
  <2>4. Kept
    BY <1>4, <2>1, <2>2, <2>3
  <2>5. QED
    BY <1>7, <2>2, <2>3, <2>4
<1>19. CASE OnHeaderFailed \/ OnNodeFailed \/ OnInvalid
  <2>1. UNCHANGED <<outcome, written, response_events, received_responses>>
    BY <1>19 DEF OnHeaderFailed, OnNodeFailed, OnInvalid, callVars
  <2>2. PICK e \in {HeaderParsed, NodeParsed} : Moved(e, {}, {})
    BY <1>19, EndMoves
  <2>3. Kept
    BY <1>4, <1>9, <2>1, <2>2
  <2>4. ~Dispatched(m)
    BY <1>19, EventsApart DEF Dispatched, OnHeaderFailed, OnNodeFailed, OnInvalid, OnNode, Run
  <2>5. QED
    BY <2>3, <2>4 DEF Kept, ResponseKept
<1>20. ASSUME NEW r \in {"ok", "failed"}, OnLastToken(r)
       PROVE  Stage(m)' /\ (m \in Calls => ResponseKept(m))
  <2>1. /\ Moved(TokenRead, {}, {NodeParsed})
        /\ UNCHANGED <<outcome, written, response_events, received_responses>>
    BY <1>20, LastTokenMoves DEF OnLastToken, callVars
  <2>2. TokenRead # NodeParsed
    BY EventsApart
  <2>3. Kept
    BY <1>2, <1>4, <1>9, <2>1
  <2>4. QED
    BY <1>7, <2>1, <2>2, <2>3
<1>21. CASE OnResponse \/ OnUnknownResponse \/ OnNotice
  <2>1. /\ UNCHANGED <<outcome, written, response_events>> /\ received_responses \subseteq received_responses'
    BY <1>21 DEF OnResponse, OnUnknownResponse, OnNotice, callVars
  <2>2. PICK F : \E A \in SUBSET ReaderEvents, C \in SUBSET (F \cup {HeaderParsed}) :
           /\ \A x \in F : x = Finish(parsed.id)
           /\ Moved(NodeParsed, A, C)
    BY <1>21, DispatchMoves
  <2>3. PICK A \in SUBSET ReaderEvents, C \in SUBSET (F \cup {HeaderParsed}) :
           /\ \A x \in F : x = Finish(parsed.id)
           /\ Moved(NodeParsed, A, C)
    BY <2>2
  <2>4. C \cap {OutputReady(m), Sent(m)} = {}
    BY <2>3, EventNames
  <2>5. Kept
    BY <1>4, <1>9, <2>1, <2>3, <2>4
  <2>6. ASSUME Dispatched(m), outcome[m] = "pending" PROVE Served(m)'
    <3>1. parsed.id = m /\ parsed.type \in {"result", "error"}
      BY <2>6 DEF Dispatched
    <3>2. CASE OnResponse
      <4>1. Finish(m) \in Linked
        BY <1>2, <2>6 DEF Stage
      <4>2. QED
        BY <3>1, <3>2, <4>1, ResponseCompletes DEF Served
    <3>3. CASE OnUnknownResponse
      <4>1. m \in received_responses' /\ m \notin response_events
        BY <3>1, <3>3 DEF OnUnknownResponse
      <4>2. Sent(m) \in Linked \/ Finish(m) \in Completed
        BY <1>2, <2>6, <4>1 DEF Stage
      <4>3. Sent(m) \in Linked' \/ Finish(m) \in Completed'
        <5>1. Sent(m) # NodeParsed /\ Finish(m) # NodeParsed
          BY EventNames
        <5>2. QED
          BY <1>1, <2>3, <4>2, <5>1 DEF Moved
      <4>4. QED
        BY <4>1, <4>3 DEF Served
    <3>4. CASE OnNotice
      BY <3>1, <3>4 DEF OnNotice, OnNode
    <3>5. QED
      BY <1>21, <3>2, <3>3, <3>4
  <2>7. QED
    BY <2>5, <2>6 DEF Kept, ResponseKept
<1>22. CASE OnExited
  <2>1. Moved(Exited, {}, {}) /\ UNCHANGED <<outcome, written, response_events, received_responses>>
    BY <1>22, ExitedMoves DEF OnExited, callVars
  <2>2. Kept
    BY <1>4, <2>1
  <2>3. QED
    BY <1>7, <2>1, <2>2, EventsApart
<1>23. CASE Iterate
  <2>1. UNCHANGED <<outcome, written, response_events, received_responses>>
    BY <1>23 DEF Iterate, callVars
  <2>2. /\ Ready = {} /\ Ready' = Completed' /\ Added' = Added \ Completed'
        /\ Completed \subseteq Completed' /\ Completed' \subseteq Added
        /\ \A x \in Completed : done'[x] = done[x]
        /\ \A x \in Completed' : x \notin Completed => x.cb \in {"output_ready", "input_ready"}
    BY <1>23, IterateMoves
  <2>3. /\ \A x \in EventsOf(m) : x \in Linked' <=> x \in Linked
        /\ \A x \in {Sent(m), Finish(m)} : x \in Completed' <=> x \in Completed
        /\ Sent(m) \in Completed => done'[Sent(m)] = done[Sent(m)]
    BY <1>1, <2>2, EventNames
  <2>4. Kept
    BY <1>5, <2>1, <2>3
  <2>5. ~Run(NodeParsed, "ok")
    BY <2>2, RunIsRunning
  <2>6. QED
    BY <1>6, <2>4, <2>5
<1>24. CASE Transmit \/ Reap \/ RemoteStep
  <2>1. /\ UNCHANGED <<outcome, written, response_events, received_responses>>
        /\ Ready' = Ready /\ Linked' = Linked
        /\ Completed' \ {Exited} = Completed \ {Exited}
        /\ \A x \in Completed : done'[x] = done[x]
    <3>1. CASE Transmit \/ RemoteStep
      <4>1. UNCHANGED <<events, batch, done, outcome, written, response_events, received_responses>>
        BY <3>1 DEF Transmit, RemoteStep, Answer, Notify, Disconnect, loopVars, callVars
      <4>2. QED
        BY <4>1 DEF Ready, Linked, Completed
    <3>2. CASE Reap
      <4>1. UNCHANGED <<outcome, written, response_events, received_responses>>
        BY <3>2 DEF Reap, callVars
      <4>2. QED
        BY <3>2, <4>1, ReapMoves
    <3>3. QED
      BY <1>24, <3>1, <3>2
  <2>2. Sent(m) # Exited /\ Finish(m) # Exited
    BY EventNames
  <2>3. Kept
    BY <1>5, <2>1, <2>2
  <2>4. QED
    BY <1>8, <2>1, <2>3
<1>25. QED
  BY <1>10, <1>11, <1>12, <1>13, <1>14, <1>15, <1>16, <1>17, <1>18, <1>19, <1>20, <1>21, <1>22, <1>23, <1>24
     DEF Next, Callback

\* At the start nothing was sent.
LEMMA InitStage == Init => StageInv
<1> SUFFICES ASSUME Init, NEW m \in Outgoing PROVE Stage(m)
  BY DEF StageInv
<1>1. Shape /\ outcome[m] = "none" /\ response_events = {} /\ Completed = {}
  BY InitShape DEF Init, Completed
<1>2. {Sent(m), Finish(m)} \cap Linked = {}
  BY <1>1 DEF Shape, Chains
<1>3. QED
  BY <1>1, <1>2 DEF Stage

LEMMA AlwaysStage == Spec => []StageInv
<1>1. Shape /\ StageInv /\ [Next]_vars => StageInv'
  <2>1. ASSUME Shape, StageInv, [Next]_vars, NEW m \in Outgoing PROVE Stage(m)'
    BY <2>1, StepStage
  <2>2. QED
    BY <2>1 DEF StageInv, Outgoing
<1>2. QED
  BY <1>1, InitStage, AlwaysShape, PTL DEF Spec

\* jsonrpc-server.h on jsonrpc_server_call_remote_async(): nobody who waits is
\* forgotten, whatever the remote answers, and however the writes fail.  A
\* call or a notification that is not at its end is to be written, or a
\* callback of it is due, or it was written and registered and its response
\* has not been read (jsonrpc-server.c:765-791 and 949-964).
THEOREM WaitsAlways == Spec => []Waits
<1>1. ASSUME StageInv, SavedOrAwaited PROVE Waits
  <2>1. SUFFICES ASSUME NEW m \in Outgoing, outcome[m] = "pending"
                 PROVE  \/ OutputReady(m) \in Linked
                        \/ {Sent(m), Finish(m)} \cap Completed # {}
                        \/ m \in Calls \cap written /\ m \in response_events \ received_responses
    BY DEF Waits
  <2>2. Stage(m)
    BY <1>1 DEF StageInv
  <2>3. QED
    BY <1>1, <2>1, <2>2 DEF Stage, SavedOrAwaited
<1>2. QED
  BY <1>1, AlwaysStage, SavedOrAwaitedAlways, PTL

\* and no response is lost on the way to a call that is pending: the dispatch
\* of a response completes the call, or saves the response while the callback
\* that will look for it is still to come, and from then on every step keeps
\* it so until the caller's callback has run (jsonrpc-server.c:949-964 and
\* 782-790).  That is the safety half of CallFinishes.
THEOREM ResponsesAreKept == Spec => NoResponseDropped
<1>1. Shape /\ StageInv /\ [Next]_vars => [\A c \in Calls : ResponseKept(c)]_vars
  <2>1. ASSUME Shape, StageInv, [Next]_vars, NEW c \in Calls PROVE ResponseKept(c)
    <3>1. c \in Outgoing
      BY DEF Outgoing
    <3>2. QED
      BY <2>1, <3>1, StepStage
  <2>2. QED
    BY <2>1
<1>2. QED
  BY <1>1, AlwaysStage, AlwaysShape, PTL DEF Spec, NoResponseDropped
============================================================================
