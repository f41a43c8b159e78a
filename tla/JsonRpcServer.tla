--------------------------- MODULE JsonRpcServer ----------------------------
(***************************************************************************)
(* The JSON-RPC end of src/src/jsonrpc/jsonrpc-server.c as the language    *)
(* client uses it: calls and notifications that it sends asynchronously,   *)
(* and the endless loop that parses a header, parses a node and dispatches *)
(* it.  Each step of a protocol is the callback of an event; the order of  *)
(* the callbacks is that of eventloop_process() (modules EventLoop and     *)
(* EventList): an iteration takes the completed events and the I/O that is *)
(* ready, and runs their callbacks last first.                             *)
(*                                                                         *)
(* A message is a header item and Tokens token items; characters inside an *)
(* item only add waits of the same kind.  The remote end is external.      *)
(***************************************************************************)
EXTENDS Naturals, Sequences, SequencesExt, Lists

CONSTANTS
    Calls,          \* the calls the client may make, each with its id
    Notifications,  \* the notifications it may send
    Tokens,         \* tokens in the node of a message
    MaxAnswers,     \* responses that the remote sends to one request
    MaxNotices,     \* notifications that the remote sends
    Remote,         \* what else the remote may do
    ForcedModes,    \* the values of force_nonblocking that the program passes
    NoId

ASSUME CallsAssumption == Calls \cap Notifications = {} /\ NoId \notin Calls \cup Notifications
ASSUME NoIdAssumption ==     \* a token is not taken for a message
    NoId \notin [type : {"result", "error", "notice", "invalid"}, id : Calls \cup {NoId}]
ASSUME TokensAssumption == Tokens \in Nat \ {0}
ASSUME BoundsAssumption == MaxAnswers \in Nat /\ MaxNotices \in Nat
ASSUME RemoteAssumption == Remote \subseteq {"fail_calls", "answer_unasked", "send_invalid", "disconnect"}
ASSUME ForcedAssumption == ForcedModes \subseteq BOOLEAN /\ ForcedModes # {}

Outgoing == Calls \cup Notifications

VARIABLES
    events,     \* pending events of the loop, in the order they were added
    done,       \* those that were completed, with their result
    batch,      \* ready events of this iteration, first callback first
    forced,     \* the next call of eventloop_process() has force_nonblocking set
    buffer,     \* items in the buffer of the input stream
    parsed,     \* the message being parsed
    left,       \* its tokens that were not scanned yet
    is_listening,
    response_events, received_responses,
    outcome,    \* what the callback of a call or a notification got
    twice,      \* calls whose event was completed when complete, or freed, already
    owed,       \* events completed when the last message was dispatched
    written,    \* messages written to the remote
    answers,    \* responses sent to each call
    notices, outbox, wire, closed   \* of the remote

loopVars   == <<events, done, batch, forced>>
inputVars  == <<buffer, parsed, left>>
callVars   == <<response_events, received_responses, outcome, twice>>
remoteVars == <<answers, notices, outbox, wire, closed>>
vars == <<loopVars, inputVars, callVars, remoteVars, is_listening, owed, written>>

\* An event is named by its callback and by what that callback is about.
Ev(callback, about) == [cb |-> callback, of |-> about]

OutputReady(m) == Ev("output_ready", m)     \* send_message_outputstream_ready_cb
Sent(m)        == Ev("sent", m)             \* call_remote_send_message_cb, notify_remote_cb
Finish(m)      == Ev("finish", m)           \* the callback the caller gave
InputReady(x)  == Ev("input_ready", x)      \* a wait for the input stream
HeaderParsed   == Ev("header_parsed", NoId) \* listen_parse_header_cb
TokenRead      == Ev("token_read", NoId)    \* the callbacks of json-parser.c
NodeParsed     == Ev("node_parsed", NoId)   \* listen_parse_node_after_header_cb
Exited         == Ev("exited", NoId)        \* lsp_client_server_disconnected

Linked == ToSet(events) \cup ToSet(batch)
Completed == DOMAIN done
Pending(e) == e \in Linked /\ e \notin Completed

With(d, e, result) == [x \in DOMAIN d \cup {e} |-> IF x = e THEN result ELSE d[x]]
Without(d, e) == [x \in DOMAIN d \ {e} |-> d[x]]

----------------------------------------------------------------------------
\* jsonrpc_server_wait_stream_async() and json_scanner_stream_wait_async(),
\* after the events in added, with d completed so far: what is buffered is
\* consumed at once, by a callback that completes the event target
Await(d, added, target) ==
    IF buffer = <<>>
      THEN /\ events' = events \o added \o <<InputReady(target)>>
           /\ done' = d
           /\ UNCHANGED inputVars
      ELSE /\ events' = events \o added
           /\ done' = With(d, target, "ok")
           /\ buffer' = Tail(buffer)
           /\ parsed' = IF target = HeaderParsed THEN Head(buffer) ELSE parsed
           /\ left' = IF target = HeaderParsed THEN Tokens ELSE left - 1

\* mutant of ParseHeader: a message that is all in the buffer is parsed at once
ParseHeaderAhead(d) ==
    \/ is_listening /\ Len(buffer) <= Tokens /\ Await(d, <<HeaderParsed>>, HeaderParsed)
    \/ /\ is_listening /\ Len(buffer) > Tokens
       /\ events' = Append(events, NodeParsed)
       /\ done' = With(d, NodeParsed, "ok")
       /\ parsed' = Head(buffer) /\ left' = 0
       /\ buffer' = SubSeq(buffer, Tokens + 2, Len(buffer))
    \/ ~is_listening /\ done' = d /\ UNCHANGED <<events, inputVars>>

\* jsonrpc_server_parse_header_async()
ParseHeader(d) ==
    \/ is_listening /\ Await(d, <<HeaderParsed>>, HeaderParsed)
    \/ ~is_listening /\ done' = d /\ UNCHANGED <<events, inputVars>>

\* lsp_client_new(): jsonrpc_server_listen(), then eventloop_add_subprocess()
Init ==
    /\ events = <<HeaderParsed, InputReady(HeaderParsed), Exited>>
    /\ done = <<>> /\ batch = <<>> /\ forced \in ForcedModes
    /\ buffer = <<>> /\ left = 0
    /\ parsed = [type |-> "invalid", id |-> NoId]
    /\ is_listening = TRUE
    /\ response_events = {} /\ received_responses = {}
    /\ outcome = [m \in Outgoing |-> "none"]
    /\ twice = {}
    /\ owed = {}
    /\ written = {}
    /\ answers = [c \in Calls |-> 0]
    /\ notices = 0 /\ outbox = <<>> /\ wire = <<>> /\ closed = FALSE

\* jsonrpc_server_call_remote_async() and jsonrpc_server_notify_remote_async()
Start(m) ==
    /\ outcome[m] = "none"
    /\ outcome' = [outcome EXCEPT ![m] = "pending"]
    /\ events' = events \o <<Finish(m), Sent(m), OutputReady(m)>>
    /\ UNCHANGED <<done, batch, forced, inputVars, response_events, received_responses, twice,
                   remoteVars, is_listening, owed, written>>

----------------------------------------------------------------------------
(* eventloop_process()                                                     *)

\* the descriptors that poll() reports: room in the output pipe, or nobody
\* to read from it; input, or nobody to write it
Polled(e, room) ==
    \/ e.cb = "output_ready" /\ (room \/ closed)
    \/ e.cb = "input_ready" /\ (wire # <<>> \/ closed)

\* the events that poll() waits for: descriptors, and the pipe of the monitor
Watched(e) == e.cb \in {"output_ready", "input_ready", "exited"}

\* One iteration.  The programs of tests/ and the VM with no runnable coroutine
\* pass FALSE, a context switch with one TRUE; then poll() has no timeout
\* (event.c:564) and waits although completed events are at hand.  That only
\* delays the iteration.
Iterate ==
    /\ batch = <<>>
    /\ forced' \in ForcedModes
    /\ \E room \in BOOLEAN :
          LET ready == {e \in ToSet(events) \ Completed : Polled(e, room)}
              stays == (ToSet(events) \ Completed) \ ready
          IN  /\ ToSet(events) # stays
              /\ forced /\ ready = {} => \A e \in stays : ~Watched(e)
              /\ batch' = Reverse(Only(events, ready)) \o Reverse(Only(events, Completed))
              /\ events' = Only(events, stays)
              /\ done' = [x \in Completed \cup ready |->
                             IF x \in Completed THEN done[x]
                             ELSE IF x.cb = "input_ready" /\ wire = <<>> THEN "failed" ELSE "ok"]
    /\ UNCHANGED <<inputVars, callVars, remoteVars, is_listening, owed, written>>

\* the callback of e is run with result r; e is freed when it returns
Run(e, r) ==
    /\ batch # <<>> /\ Head(batch) = e /\ done[e] = r
    /\ batch' = Tail(batch) /\ forced' = forced

Complete(e, f, r) == done' = With(Without(done, e), f, r)

\* mutant of OnOutputReady: it waits once more for the stream when all is written
OnOutputReadyFlushes(m) ==
    /\ Run(OutputReady(m), "ok")
    /\ IF m \in written \/ closed
         THEN /\ Complete(OutputReady(m), Sent(m), IF closed THEN "failed" ELSE "ok")
              /\ UNCHANGED <<events, written>>
         ELSE /\ done' = Without(done, OutputReady(m))
              /\ events' = Append(events, OutputReady(m))
              /\ written' = written \cup {m}
    /\ UNCHANGED <<inputVars, callVars, remoteVars, is_listening, owed>>

\* the message is written in one go; that fails when nobody reads it
OnOutputReady(m) ==
    /\ Run(OutputReady(m), "ok")
    /\ Complete(OutputReady(m), Sent(m), IF closed THEN "failed" ELSE "ok")
    /\ written' = IF closed THEN written ELSE written \cup {m}
    /\ owed' = owed
    /\ UNCHANGED <<events, inputVars, callVars, remoteVars, is_listening>>

\* jsonrpc_server_notify_remote_cb(), and the failure of
\* jsonrpc_server_call_remote_send_message_cb()
OnSendEnded(m, r) ==
    /\ m \in Notifications \/ r = "failed"
    /\ Run(Sent(m), r)
    /\ Complete(Sent(m), Finish(m), r)
    /\ owed' = owed \ {Sent(m)}
    /\ UNCHANGED <<events, inputVars, callVars, remoteVars, is_listening, written>>

\* mutants of OnSent: received_responses is not consulted; the call is
\* completed when it has been sent
OnSentUnchecked(c) ==
    /\ Run(Sent(c), "ok")
    /\ response_events' = response_events \cup {c}
    /\ done' = Without(done, Sent(c))
    /\ owed' = owed \ {Sent(c)}
    /\ UNCHANGED <<events, inputVars, received_responses, outcome, twice, remoteVars, is_listening, written>>
OnSentCompletes(c) ==
    /\ Run(Sent(c), "ok")
    /\ c \notin received_responses
    /\ response_events' = response_events \cup {c}
    /\ Complete(Sent(c), Finish(c), "ok")
    /\ owed' = owed \ {Sent(c)}
    /\ UNCHANGED <<events, inputVars, received_responses, outcome, twice, remoteVars, is_listening, written>>

\* the request was sent: its response is waited for
OnSent(c) ==
    /\ Run(Sent(c), "ok")
    /\ c \notin received_responses
    /\ response_events' = response_events \cup {c}
    /\ done' = Without(done, Sent(c))
    /\ owed' = owed \ {Sent(c)}
    /\ UNCHANGED <<events, inputVars, received_responses, outcome, twice, remoteVars, is_listening, written>>

\* or was received already: the whole response object is the result
OnSentLate(c) ==
    /\ Run(Sent(c), "ok")
    /\ c \in received_responses
    /\ Complete(Sent(c), Finish(c), "response")
    /\ received_responses' = received_responses \ {c}
    /\ owed' = owed \ {Sent(c)}
    /\ UNCHANGED <<events, inputVars, response_events, outcome, twice, remoteVars, is_listening, written>>

\* the caller's callback
OnFinish(m) ==
    /\ Run(Finish(m), done[Finish(m)])
    /\ outcome' = [outcome EXCEPT ![m] = done[Finish(m)]]
    /\ done' = Without(done, Finish(m))
    /\ owed' = owed \ {Finish(m)}
    /\ UNCHANGED <<events, inputVars, response_events, received_responses, twice, remoteVars, is_listening,
                   written>>

----------------------------------------------------------------------------
(* The listening loop.                                                     *)

\* a read fills the buffer, and its first item is consumed
OnInputReady(target) ==
    /\ Run(InputReady(target), "ok")
    /\ wire # <<>>
    /\ Complete(InputReady(target), target, "ok")
    /\ buffer' = Tail(wire) /\ wire' = <<>>
    /\ parsed' = IF target = HeaderParsed THEN Head(wire) ELSE parsed
    /\ left' = IF target = HeaderParsed THEN Tokens ELSE left - 1
    /\ UNCHANGED <<events, callVars, answers, notices, outbox, closed, is_listening, owed, written>>

\* end of file: the wait fails, and what it waited for
OnInputFailed(target) ==
    /\ Run(InputReady(target), "failed")
    /\ Complete(InputReady(target), target, "failed")
    /\ UNCHANGED <<events, inputVars, callVars, remoteVars, is_listening, owed, written>>

\* mutant of OnHeader: the next header is asked for along with the node
OnHeaderRearms ==
    /\ Run(HeaderParsed, "ok")
    /\ Await(Without(done, HeaderParsed), <<HeaderParsed, NodeParsed, TokenRead>>, TokenRead)
    /\ UNCHANGED <<callVars, remoteVars, is_listening, owed, written>>

\* json_parser_parse_node_async()
OnHeader ==
    /\ Run(HeaderParsed, "ok")
    /\ Await(Without(done, HeaderParsed), <<NodeParsed, TokenRead>>, TokenRead)
    /\ UNCHANGED <<callVars, remoteVars, is_listening, owed, written>>

OnHeaderFailed ==
    /\ Run(HeaderParsed, "failed")
    /\ is_listening' = FALSE
    /\ done' = Without(done, HeaderParsed)
    /\ UNCHANGED <<events, inputVars, callVars, remoteVars, owed, written>>

\* json_scanner_next_async(), as long as the node goes on
OnToken ==
    /\ Run(TokenRead, "ok") /\ left > 0
    /\ Await(Without(done, TokenRead), <<TokenRead>>, TokenRead)
    /\ UNCHANGED <<callVars, remoteVars, is_listening, owed, written>>

OnLastToken(r) ==
    /\ Run(TokenRead, r) /\ (r = "ok" => left = 0)
    /\ Complete(TokenRead, NodeParsed, r)
    /\ UNCHANGED <<events, inputVars, callVars, remoteVars, is_listening, owed, written>>

\* the node could not be parsed: that ends the loop
OnNodeFailed ==
    /\ Run(NodeParsed, "failed")
    /\ done' = Without(done, NodeParsed)
    /\ UNCHANGED <<events, inputVars, callVars, remoteVars, is_listening, owed, written>>

OnNode(type) ==
    /\ Run(NodeParsed, "ok")
    /\ parsed.type = type

Payload == IF parsed.type = "result" THEN "result" ELSE "null"

\* a response that an event waits for: its result member is the result, NULL
\* if it has none.  The entry stays in response_events.
OnResponse ==
    /\ OnNode("result") \/ OnNode("error")
    /\ parsed.id \in response_events
    /\ LET f == Finish(parsed.id)
           d == Without(done, NodeParsed)
       IN  /\ ParseHeader(IF Pending(f) THEN With(d, f, Payload) ELSE d)
           /\ twice' = IF Pending(f) THEN twice ELSE twice \cup {parsed.id}
           /\ owed' = {f} \cap Linked
    /\ UNCHANGED <<response_events, received_responses, outcome, remoteVars, is_listening, written>>

OnUnknownResponse ==
    /\ OnNode("result") \/ OnNode("error")
    /\ parsed.id \notin response_events
    /\ received_responses' = received_responses \cup {parsed.id}
    /\ ParseHeader(Without(done, NodeParsed))
    /\ owed' = {}
    /\ UNCHANGED <<response_events, outcome, twice, remoteVars, is_listening, written>>

\* mutant of OnNotice: the next header is not asked for
OnNoticeStops ==
    /\ OnNode("notice")
    /\ done' = Without(done, NodeParsed)
    /\ owed' = {}
    /\ UNCHANGED <<events, inputVars, callVars, remoteVars, is_listening, written>>

\* the handler of a notification runs
OnNotice ==
    /\ OnNode("notice")
    /\ ParseHeader(Without(done, NodeParsed))
    /\ owed' = {}
    /\ UNCHANGED <<callVars, remoteVars, is_listening, written>>

\* neither a request nor a response: bail out
OnInvalid ==
    /\ OnNode("invalid")
    /\ done' = Without(done, NodeParsed)
    /\ UNCHANGED <<events, inputVars, callVars, remoteVars, is_listening, owed, written>>

\* lsp_client_server_disconnected()
OnExited ==
    /\ Run(Exited, "ok")
    /\ is_listening' = FALSE
    /\ done' = Without(done, Exited)
    /\ UNCHANGED <<events, inputVars, callVars, remoteVars, owed, written>>

----------------------------------------------------------------------------
(* The remote (external), and the monitor thread that reports its end.     *)

Send(m) == outbox' = outbox \o <<m>> \o [i \in 1 .. Tokens |-> NoId]

Answer(c, type) ==
    /\ ~closed
    /\ answers[c] < MaxAnswers
    /\ c \in written \/ "answer_unasked" \in Remote
    /\ type = "result" \/ "fail_calls" \in Remote
    /\ answers' = [answers EXCEPT ![c] = @ + 1]
    /\ Send([type |-> type, id |-> c])
    /\ UNCHANGED <<loopVars, inputVars, callVars, notices, wire, closed, is_listening, owed, written>>

Notify(type) ==
    /\ ~closed
    /\ notices < MaxNotices
    /\ type = "notice" \/ "send_invalid" \in Remote
    /\ notices' = notices + 1
    /\ Send([type |-> type, id |-> NoId])
    /\ UNCHANGED <<loopVars, inputVars, callVars, answers, wire, closed, is_listening, owed, written>>

Transmit ==
    /\ outbox # <<>>
    /\ wire' = Append(wire, Head(outbox))
    /\ outbox' = Tail(outbox)
    /\ UNCHANGED <<loopVars, inputVars, callVars, answers, notices, closed, is_listening, owed, written>>

\* it goes away, perhaps in the middle of a message
Disconnect ==
    /\ "disconnect" \in Remote
    /\ ~closed
    /\ closed' = TRUE /\ outbox' = <<>>
    /\ UNCHANGED <<loopVars, inputVars, callVars, answers, notices, wire, is_listening, owed, written>>

Reap ==
    /\ closed
    /\ Exited \in ToSet(events) /\ Pending(Exited)
    /\ done' = With(done, Exited, "ok")
    /\ UNCHANGED <<events, batch, forced, inputVars, callVars, remoteVars, is_listening, owed, written>>

----------------------------------------------------------------------------

Callback ==
    \/ \E m \in Outgoing : OnOutputReady(m) \/ OnFinish(m)
    \/ \E m \in Outgoing, r \in {"ok", "failed"} : OnSendEnded(m, r)
    \/ \E c \in Calls : OnSent(c) \/ OnSentLate(c)
    \/ \E target \in {HeaderParsed, TokenRead} : OnInputReady(target) \/ OnInputFailed(target)
    \/ OnHeader \/ OnHeaderFailed \/ OnToken
    \/ \E r \in {"ok", "failed"} : OnLastToken(r)
    \/ OnNodeFailed \/ OnResponse \/ OnUnknownResponse \/ OnNotice \/ OnInvalid
    \/ OnExited

RemoteStep ==
    \/ \E c \in Calls, type \in {"result", "error"} : Answer(c, type)
    \/ \E type \in {"notice", "invalid"} : Notify(type)
    \/ Disconnect

Next ==
    \/ \E m \in Outgoing : Start(m)
    \/ Iterate \/ Callback
    \/ RemoteStep \/ Transmit \/ Reap

Spec == Init /\ [][Next]_vars

\* the program goes on calling eventloop_process(), the output pipe has room
\* again and again, what the remote sends arrives, and it answers every call
FairSpec ==
    /\ Spec
    /\ WF_vars(Iterate) /\ WF_vars(Callback) /\ WF_vars(Transmit) /\ WF_vars(Reap)
    /\ \A m \in Outgoing : SF_vars(OnOutputReady(m))
    /\ \A c \in Calls : WF_vars(\E type \in {"result", "error"} : Answer(c, type))

----------------------------------------------------------------------------
\* "XXX: how?", "a response without a corresponding request?": a response
\* never overtakes the callback that registers its call, as long as the
\* remote answers only what it has been sent.  The request leaves one event
\* before that callback, and a response needs a header and a node first.
NoEarlyResponse == received_responses = {}

\* A response is kept for a call that has not been sent yet, or a sent call
\* waits for it, and never both: otherwise the call would wait for a response
\* that came already.
SavedOrAwaited == received_responses \cap response_events = {}

\* event_return(): "cannot complete an event twice!".  response_events keeps
\* the event of a call for ever, and nothing checks a second response
\* (jsonrpc-server.c:957): an event is completed that is complete already, or
\* was freed after its callback, only for a call that was answered twice, and
\* neither by an early or failing answer, nor by that of another call.
NeverCompletedTwice == \A c \in Calls : c \in twice => answers[c] > 1

\* At most one read of the input stream is under way: two would take each
\* other's characters, and the second would block the program.
OneReader ==
    /\ Len(Only(events \o batch, {InputReady(HeaderParsed), InputReady(TokenRead)})) <= 1
    /\ Len(Only(events \o batch, {HeaderParsed, NodeParsed})) <= 1

\* a header or a node is being parsed
Reading == \E e \in {HeaderParsed, NodeParsed} : e \in Linked

\* the two early returns of listen_parse_node_after_header_cb(): on a node that
\* is neither a request nor a response, and on one that the end of the input cut
BailedOut == parsed.type = "invalid" /\ left = 0 /\ ~Reading
CutShort == closed /\ left > 0 /\ buffer \o wire = <<>> /\ ~Reading

\* jsonrpc-server.h on is_listening: "Whether the server is actively
\* listening".  While it says so a header or a node is being parsed, except
\* after those two returns, which leave it set: no other callback, failure or
\* order of them forgets to ask for the next message.
ListeningIsArmed == is_listening => Reading \/ BailedOut \/ CutShort

\* Between the dispatch of two messages every event that the first completed
\* gets its callback: what a handler leaves behind is seen by the callbacks
\* it caused before the next handler runs.
HandlersApart == batch # <<>> /\ Head(batch) = NodeParsed => owed = {}

\* a forced iteration waits for the remote, though callbacks are due
HeldByPoll ==
    /\ forced /\ batch = <<>>
    /\ ToSet(events) \cap Completed # {}
    /\ \E e \in ToSet(events) \ Completed : Watched(e)
    /\ \A e \in ToSet(events) \ Completed : ~Polled(e, TRUE)

\* jsonrpc-server.h on jsonrpc_server_call_remote_async(): the "callback is
\* executed when there is a response": a call comes to an end, answered early,
\* late or twice, or not at all when the remote goes away.  The code has two ways
\* to lose one: it was sent and the listening loop has ended, by the end of the
\* input or one of those returns, which tells no call; or the VM waits without
\* end for more.
CallFinishes ==
    \A c \in Calls :
        outcome[c] = "pending" ~> \/ outcome[c] \notin {"none", "pending"}
                                  \/ c \in response_events /\ (~is_listening \/ BailedOut \/ CutShort)
                                  \/ [](outcome[c] = "pending" /\ HeldByPoll)
============================================================================
