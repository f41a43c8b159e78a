# Formal models of lstf

lstf is a compiler and a virtual machine for a language that tests language
servers (`src/README.md`, `doc/isa.md`).  A program starts a server as a
subprocess, talks JSON-RPC with it over two pipes, and compares what the server
answers with patterns.  This directory holds TLA+ models of two halves of lstf:
the parts where things happen at the same time (event loop, subprocesses,
coroutines, JSON-RPC, closures that outlive a frame), and the whole way of a script
through the compiler into the virtual machine.  Beside them are the TLC
configurations that check the models, and TLAPS proofs about the event loop and its
lists, the subprocess monitor, the scheduler, the JSON-RPC server, the language
client and the closures.  Paths below are relative to `src/`.

## 1. The system and its parts

| component | state | operations | interacts with |
|---|---|---|---|
| event loop, `src/io/event.c` | `pending_events`, the flags of each event, the pipe `bg_signalfd`/`bg_eventfd`, `is_running`, `monitoring_lock` | `eventloop_add*`, `event_return`, `event_cancel*`, `eventloop_process`, `eventloop_poll`, `eventloop_quit`, `eventloop_destroy` | threads of background tasks complete events; callbacks add events |
| subprocess monitor, `src/io/event.c` | `ready_processes`, `monitoring_thread_running`, the position of its walk | `eventloop_monitor_subprocesses`, `eventloop_add_subprocess` | takes `monitoring_lock`, completes events of the loop |
| coroutine scheduler, `src/vm/lstf-virtualmachine.c` | `run_queue`, `suspended_list`, `outstanding_io`, `instructions_executed`, `last_status` | `lstf_virtualmachine_run`, `_raise`, breakpoints, `lstf_vm_schedule_new_coroutine` | calls `eventloop_process`; callbacks of I/O decrement `outstanding_io` |
| JSON-RPC server, `src/jsonrpc/jsonrpc-server.c` | `response_events`, `received_responses`, `reply_handlers`, `is_listening`, the parser | `jsonrpc_server_call_remote_async`, `_notify_remote_async`, `_listen`, the callbacks of the header and the node | chains of events; the streams; the scanner |
| language client, `src/lsp/lsp-client.c` | `diagnostics_results`, `diagnostics_waiters` | `lsp_client_wait_for_diagnostics_async`, the handler of `textDocument/publishDiagnostics` | is a JSON-RPC server; the instructions below |
| instructions for servers, `src/vm/lstf-vm-lsp.c` | `server_data` of each operation | `connect`, `td_open`, `diagnostics`, `memory`, `change` | the client, the coroutine they suspend |
| VM stack, `src/vm/lstf-vm-stack.c` | frames, values, captured slots, upvalues | push, pop, get and set, `setup_frame`, `teardown_frame`, captures | instructions, coroutines |
| instruction set, `src/vm/lstf-virtualmachine.c` | `pc` of a coroutine | one function for each opcode | stack, scheduler, JSON values |
| front end, `src/compiler/lstf-scanner.c`, `lstf-parser.c` | text, tokens, current token, `num_errors` | scanning, one production per construct, look-ahead for lambdas, recovery from bad statements | makes the tree of the script |
| symbols and types, `lstf-symbolresolver.c`, `lstf-semanticanalyzer.c`, the `lstf-*type.c` | scopes, types of symbols and expressions, captured variables of functions | binding names, resolving types, capturing; checking every expression | read by the code generator |
| code generation, `lstf-codegenerator.c`, `lstf-ir-program.c` | instructions, basic blocks, temporaries, frame offsets | a visit of each construct; analysis of blocks; offsets, pops and jumps | makes bytecode |
| bytecode, `src/bytecode`, `src/vm/lstf-vm-loader.c` | functions, data section | building, serializing, loading | code generator, VM |
| JSON values, `src/json/json.c` | nodes, reference counts, floating references | ref, unref, copy, equality, patterns | everything |
| JSON scanner and parser, `src/json` | buffer, state of the token, stack of containers | `json_scanner_next_async`, `json_parser_parse_node_async` | input stream, event loop |
| streams, `src/io/inputstream.c`, `outputstream.c` | buffers, positions | read, write, readiness | scanner, JSON-RPC |
| launching, `src/io/io-process.c` | none | `io_communicate` | client |
| containers, `src/data-structures` | lists, hash maps, arrays | insertion, removal, iteration | everything |
| command line and debugger, `src/lstf.c` | options, breakpoints | the passes in their order, resume, step | compiler, scheduler |

What is hard in this code:

- **Threads.** Background tasks and the monitor run beside the main thread.  They
  share event flags (C11 atomics for `is_ready`), a pipe and one mutex that only
  some of the walks take.
- **Callbacks in chains.** A call of the server is five to dozens of events; which
  one runs first depends on the order of a list, which is reversed on the way
  from pending to ready.
- **A scheduler over callbacks.** A callback changes `outstanding_io` of a
  coroutine that three lists know about; the run loop makes them agree later.
- **A remote that does what it likes**: answers out of order, goes away, sends
  notifications nobody waits for yet.
- **Reference counts** of JSON objects that a handler gives to several waiters, of
  closures and of up-values.
- **Variables that outlive their frame.**  A closure aliases places of a stack that
  its coroutine goes on using; calls, returns and the end of a coroutine move the
  value to the heap.
- **A parser that guesses and recovers.**  Whether `(` opens a lambda is found out by
  reading ahead with a scanner that is then set back; after an error tokens are
  skipped until something looks like a statement.
- **Places that several passes must agree on.**  The resolver decides what is captured
  and the code generator numbers it; the assembler gives every value an offset along
  one path of the control flow and trusts that all paths agree; the machine then
  finds variables, arguments and results by these numbers alone.
- **Types that do not say everything.**  What the analyzer lets through meets the
  machine's own checks of classes of values.

`PROJECT.json` lists these hazards at their lines, with the properties that are
aimed at each.

## 2. Modules

| module | models | composed with |
|---|---|---|
| `EventLoop` | main thread, task threads, monitor's completions, kernel | |
| `Lists` | selecting from a list by its members | used by `SubprocessMonitor`, `VMScheduler`, `JsonRpcServer`, `LspClient` |
| `EventList` | the linked lists and their pointers | refines `EventQueue` |
| `EventQueue` | what a walk does to the lists, as sequences | `EventLoop` uses these sequences |
| `SubprocessMonitor` | the monitor thread and its mutex | abstracts `EventLoop` to one step |
| `VMScheduler` | `lstf_virtualmachine_run()` | refines `Coroutines` |
| `Coroutines` | what a program may rely on | |
| `JsonRpcServer` | calls, notifications, the listening loop | uses the order of `EventLoop`/`EventList` |
| `LspClient` | waits for diagnostics | uses `HandlersApart` of `JsonRpcServer` |
| `Closures` | stacks, closures and up-values of the VM | abstracts the order of the run queue of `VMScheduler` |
| `Scanner` | the cutting of a text into tokens | |
| `Parser` | the productions and the recovery | extends `Scanner` |
| `FrontEnd` | scanning and parsing as a state machine; a writing of trees | extends `Parser` |
| `Types` | the types and whether one receives another | |
| `SymbolResolver` | scopes, names, captures | extends `Types` |
| `SemanticAnalyzer` | the types of expressions, what is refused | extends `SymbolResolver` |
| `JsonValues` | values, patterns, equality | |
| `CodeGenerator` | instructions and basic blocks | extends `SemanticAnalyzer`, `JsonValues` |
| `Assembler` | block analysis, offsets, pops, jumps | extends `CodeGenerator` |
| `Machine` | the instructions on one stack | extends `Assembler` |
| `Compiler` | the passes and the machine, one after the other, beside what the script means | extends `FrontEnd`, `Machine` |
| `ClosuresInvariant` | the inductive invariant of `Closures` | extends it |
| `ListsProofs` | lemmas about lists, and the least number of a kind | used by the six modules below |
| `EventListProofs`, `SubprocessMonitorProofs`, `VMSchedulerProofs`, `JsonRpcServerProofs`, `LspClientProofs`, `ClosuresProofs` | theorems | their modules, `ListsProofs` |
| `EventLoopProofs` | theorems | `EventLoop` |

`MC*` modules give the constants small values; `MCFrontEnd` and `MCCompiler` also
build the scripts.  In a module, the definitions whose comment begins with "Mutant"
or "mutant of" are altered forms of the definition after them; no specification uses
them.  `PROJECT.json` names, for every property, the mutant that breaks it.

### EventLoop

`pc` is the position of the main thread in `eventloop_process()`: `Process`
takes `monitoring_lock`, `ScanStep` moves the completed head of the pending list
to the ready list or keeps it, `ScanDone` ends the first walk, `SetupPoll` builds
the pollfd array, `Poll` is the system call with the timeout of event.c:564,
`GatherIo`/`GatherHangup`/`GatherOther` walk again with `revents`, `GatherDone`
reads at most `BufferSize` bytes from the pipe, `Dispatch` and `CallbackEnd` run the
callbacks.  The list is
`kept \o pending`: the part the walk passed, and the rest.  In user code
(`idle`, or `callback`) the program may `Add`, `Return`, `Cancel`, `Quit`;
`Destroy` only at top level.

A task's thread completes its event in the steps of `event_return()`: exchange of
`is_ready` (`BgPublish`), store of `result` (`BgStore`), byte in the pipe
(`BgSignal`), closing assertion (`BgExit`); or cancels it (`BgCancel`,
`BgErrno`).  The monitor publishes under the lock (`MonitorPublish`) and stores,
signals and releases it (`MonitorStore`).  `FdChange` is the kernel.  A full pipe
aborts (`Signal`, event.c:83-86).  Values are abstracted to "unset" or "value";
`got` is what a callback read.

### EventList, EventQueue

`list` of `EventList` has the head, the tail and the `next` of each event as the code
has them; `ready_events` is the head of the other list, which is linked through the
same `next`; `walking`, `cur` and `prev` are those of
`eventloop_pending_events_foreach`.  `kept`, `pending` and `ready` are the events that
the pointers lead to (`Chain`).  `EventQueue` has these sequences for its variables, as
`EventLoop` does.  `ImplementsQueue` is the refinement of the one by the other, so the
sequences are no assumption; `UsesQueue` of `EventLoop` says that the loop does nothing to
them that the queue does not have.  Both are proved.  `Clear` takes off the first n events,
because `eventloop_destroy()` frees one after the other in `EventList` and is one step of
`EventLoop`.  `AddFails` is the path on
which `thrd_create()` fails and the event is removed again (event.c:207-215).

### SubprocessMonitor

Every lock, unlock and wait of `eventloop_monitor_subprocesses()` is a step.
`monitoring_lock` is a plain mutex: a thread that locks it again waits for itself.
`eventloop_process()` is one step here.  The list contains the events of
subprocesses only.  `AddEvent` asks nothing of the process but that it was started: it
may run, have ended, or have been reaped by the monitor, before, during or after the
walk for it.

### VMScheduler, Coroutines

`pc` follows `lstf_virtualmachine_run()` (lstf-virtualmachine.c:1348-1500): the
tests at the head of the loop, the context switch (`Switch`), the waiting loop
(`Wait`), making queue and suspended list agree (`Resync`), breakpoints (`HitBreakpoint`, `SingleStep`,
`Resume`), and one instruction (`Execute`).  An instruction is what it does to the
scheduler: `Plain`, `StartIo`, `Schedule`, `Finish`, `BadFetch`.  An operation has
`legs`, the events it waits for in turn; its last event runs the callback that
decrements `outstanding_io`, which may also raise an error.  `MayBlock` says where the
run loop is in `poll()`: while it waits with no runnable coroutine, and at a context switch
also when there is one, since it then forces the loop not to block (line 1380) and
event.c:564 takes that for no timeout.  `Coroutines` says what
this amounts to: instructions run one at a time, never one of a coroutine that
waits, and I/O completes between two instructions only.

### JsonRpcServer

A pending event is named by its callback.  `Iterate` is the scan, the poll and the
gather of one `eventloop_process()`; `Callback` runs the first ready event.  `forced` is
the argument of the next iteration: FALSE from the programs of `tests/`, either from the
VM; a forced iteration waits in `poll()` for a descriptor while callbacks are due.
`OnOutputReady` writes a message in one step as `jsonrpc_server_send_message()`
does; `OnSent` registers the call or takes a saved response; `OnHeader`,
`OnToken` and `OnNode` are the chain of the listening loop, the last of which
dispatches the message (`OnResponse`, `OnNotice`, `OnInvalid`).
The remote (`Answer`, `Notify`, `Transmit`, `Disconnect`, `Reap`) is external:
it is modelled by what may arrive on the pipe and when the process ends.

### LspClient

`Publish` is the handler of `textDocument/publishDiagnostics`
(lsp-client.c:84-120), `WaitForDiagnostics` is
`lsp_client_wait_for_diagnostics_async()`, `Deliver` the callback of the
instruction, which waits again when the document is not its own.  `refs` counts the
references of each parameters object; use of a freed one sets `undefined`, and
nothing is modelled after that.

### Closures

`values` and `frames` are the two arrays of each coroutine's stack; a value is a
closure or a member of `Data` (a JSON value, a plain function) with its
`is_captured` bit, a frame has its `offset`, its `parameters`, the `closure` it runs
and `tracked`, the map `captured_locals`.  `upvalues` and `closures` are the heap with
its reference counts; an open up-value names its coroutine and its place, a closed one
has the value.

Each action is one instruction: `LoadImmediate` (the three loads of constants),
`LoadFrameOffset`, `Store`, `PopTop`, `MakeClosure`, `UpGet`, `UpSet`, `Call`,
`CallIndirect`, `Params`, `Return`, `Schedule`, `ScheduleIndirect`; `Stop` is an
instruction that ends the program.  It computes the next `Machine` from the helpers
that the code has (`Push`, `Pop`, `Set`, `Uplift`, `SetupFrame`, `TeardownFrame`,
`Track`, `UnrefAll`), each of which does nothing after an error, as the early
returns of the code do.  A failed assertion, or a use of a freed stack, is one of the
`Aborted` statuses.  `Destroy` is `lstf_virtualmachine_destroy()`.

The program is not given: any instruction may come next that code from the compiler
could contain at that point.  It does not pop below its frame or name places that do
not exist, `params` is the first instruction of a function (`due` is the number of
parameters it announces), arguments are no captured variables, and one place never
holds two captured variables (`Capturable`): the compiler never gives an offset twice
in one function.  `Requeue` leaves the coroutine at the head of the run queue or moves
it to the end, which stands for the 64 cycles of `VMScheduler`.

Two variables are not in the code: `variable` is what was last stored in the variable
behind an up-value, and `kept` counts the references that the code gives up without
dropping them.

### Scanner, Parser, FrontEnd

A text is a TLA+ string, and a token a kind with the text it was cut from.
`LexemeAt` chooses by the first character as the switch of `lstf_scanner_next()`
does (`NumberAt`, `StringAt`, `SlashAt`, `WordAt`, `SignAt`); `ScanNext` cuts one
token, and `StringOf` undoes the escapes of a string.  Positions are numbers of tokens.

A production of `Parser` is an operator with the name of its function: it takes a
state of the parser and gives the next one.  `ok` is FALSE once a function has
returned NULL and `error` is whether the caller's error is set; they differ, because
some functions return a node and leave the error set.  The productions that
others refer back to go through `Production`, by the name of what they read.  Lists
share `Items`, which knows where each kind of list looks before it reads an item.
`AtLambda` is the look-ahead: it returns where it leaves the scanner, which is not
always where it was.  `Recovered` is the loop that skips a bad statement, and
`stuck` says that it has come back to where it began.

`FrontEnd` turns this into steps: one token (`ScanToken`), one statement
(`ParseStatement`), and `SkipInVain`, the loop that never ends.  `Written` writes a
tree by `doc/grammar.txt`, with parentheses only where precedence and associativity
ask for them; it is what the parser is compared with.

### Types, SymbolResolver, SemanticAnalyzer

A type is a record; `Accepts` is `lstf_datatype_is_supertype_of()` with one operator
for each class.  Its answer is "yes", "no" or "endless": the comparison of recursive
interfaces does not end in the code either.  Places in the tree are sequences of
positions, and a symbol is the place of its declaration.  `Bind` (resolver) and
`Visit` (analyzer) dispatch on the kind of a node as the visitors do, and hand on one
record with everything the pass knows.  `stopped` is how the compiler itself may die:
"assertion", "null pointer" or "overflow".  Errors are counted, not worded.
`CaptureUpwards` is the loop of lstf-symbolresolver.c:424, with its early end.

### CodeGenerator, Assembler

An instruction is named by its number, which is also the temporary it computes.
`Gen...` are the visits: they emit into the block that the code fetched, which after
a nested statement may not be the current one.  `Assembler` is
`lstf_ir_program_assemble()`: `SimplifyCfg` bypasses empty blocks, `StackPopPoints`
counts what dies with each block, `Serialize` writes instructions in the order of a
walk and gives each result the next offset of the frame, `ResolveJumps` fills in the
labels.  Each bytecode instruction keeps the height that the assembler assumed before
it, for the properties only.

### JsonValues, Machine

`JsonValues` is what a constant becomes (`Allocate`, `PatternOf`, `Converted`) and
`Equal`, which is matching as soon as one side is a pattern; `ReadsOutside` is the
read at `json.c:309` past an empty array.  `Machine` executes one instruction
(`Turn`) on a stack of slots and frames with up-values and closures, as `Closures`
does for arbitrary programs, here with the values of real ones.

### Compiler

`Next` is a token, a statement, a pass (`ResolveSymbols`, `AnalyzeTypes`,
`GenerateCode`, `AssembleCode`) or an instruction (`RunInstruction`).  A pass that
reports an error ends in "refused", one that dies in "crashed", as
`compile_lstf_script()` and the process do.  Only the bytecode outlives the compiler.

What a script should do is `Meaning`: an evaluator over syntax trees with cells,
environments and a heap.  It knows nothing of stacks, captures, blocks, jumps or the
numbers of anything, so that its agreement with the machine says something about all
of these at once.  It ends in "stuck" when an operation meets a value it is not for, and
in "unchecked" when that is `!` or something in its operand, which the analyzer does not
look at.
The evaluator takes from the code only what the language has no other
definition of: operands are all evaluated (`&&` and `||` do not short-circuit), the
arguments of a call come before what is called, and `Compute` and `Compare` on
integers are those of the machine.  Patterns are defined anew (`Fits`): an ellipsis
is any run of elements or any member, and an object in a pattern may leave members out.

## 3. What is checked

| run | instance | what it shows |
|---|---|---|
| `event_loop` | one event of each type, both values of `force_nonblocking`, a pipe of 4 bytes that is read byte by byte | ownership, wake-up, dispatch only of completed events, results stored under the lock |
| `event_loop_live` | a default event, a task, a descriptor | a completed event gets its callback |
| `event_list` | four events | pointers implement sequences; nothing is leaked or linked after it was freed |
| `subprocesses` | two managed processes, one other child, events added at any time, `thrd_create()` may fail | no exit status is dropped; no live process is reported; delivery, unless a status was saved or no monitor exists |
| `vm_scheduler` | three coroutines, two operations of up to two legs, a switch every 3 instructions, debugger on | one place per coroutine, agreement with `outstanding_io`, refinement of `Coroutines`, no starvation but by a `poll()` that waits for the server |
| `jsonrpc` | two calls and a notification to the server, two tokens per node, answers with errors, disconnection | responses meet their calls whatever the order; handlers do not nest |
| `jsonrpc_live` | one call with two answers, one notice, a server that may answer unasked, send what is no message and disconnect; iterations forced and not | one reader, saved or awaited, completed twice only by a second answer, listening ends at the two early returns only, every call ends that the code does not lose |
| `diagnostics` | three waits for two documents, three notifications | registration of waits and delivery to them |
| `closures` | two coroutines, two closures, two captured variables, 2 values and 2 frames per stack | up-values agree with the stacks they alias, closures share the variable they captured, counts are exact, nothing dangles, what shutdown leaves behind |
| `monitor_deadlock` | two managed processes | the monitor waits for its own lock (finding) |
| `no_runnable_coroutine` | two coroutines, one operation | the assertion at lstf-virtualmachine.c:1444 fails (finding) |
| `compiler` | 3,616 texts for the front end alone, 1,857 scripts that go on | the parser inverts a grammar and drops nothing, bad statements stay alone, what is accepted never gets stuck but at an operand of `!`, prints what it means, keeps the offsets the assembler chose, and ends |

The properties worth a word:

- `StatusNeverLost` says *exactly* who has an exit status: a child is reaped if and
  only if the monitor has it in hand, an event has it, or it is saved.
- `WalkStaysInList`: the monitor holds the lock while it walks the pending events, and
  the main thread adds events without it; the walk never stands outside the list.
- `WaitIsRegistered` ties the array of waits to the waits that were not answered.
  `QueuesAgreeWithIo` ties the lists of the scheduler to `outstanding_io`.
- `RunnableIsExecuted` assumes nothing of the server, so that it must say what a silent
  one does: a coroutine that can run starves if the switch is in `poll()` for ever
  (`HeldByPoll`).  That is the code's contradiction to event.h:271, and the only way.
- `ListeningIsArmed` has the two early returns of the listening loop as its exceptions
  (`BailedOut`, `CutShort`), and `NeverCompletedTwice` a second answer: what they say is
  that the *other* callbacks, in any order and with any failures, are innocent.
- `CallFinishes` names what the code loses: a call that was sent and whose listening loop
  has ended, and one that a forced iteration holds up (`HeldByPoll`).
- `CutsAreStable`: each token of a text scanned alone is that token again.
- `ParsesBack` compares with the tree that was written, `NothingDropped` works without
  a tree: whatever text is accepted, its tokens are those of a writing of its tree.
- `BadStatementIsAlone`: one token is taken out of the middle statement of three.
- `AcceptedIsSound` is soundness of the type checks for the evaluator, with the operands
  of `!` as its exception: thirteen accepted scripts have one that no check looked at.
  `PrintsItsMeaning` is the correctness of everything after the checks: it says that the
  machine refuses these operands where the evaluator does, and also that the compiler does
  not crash on these scripts.
- `OffsetsAreHeights`: along every path, the frame is as high as the assembler took it
  to be.  `CallsLeaveTheirResult` says what a return leaves of arguments and locals.
- `EveryScriptEnds` is liveness: a script is refused or comes to its end, unless the
  parser recovers to a `for` (`StaysAtFor`), as four scripts of the run make it do.

**Bounds.** `Events` bounds how many events a program creates: the order of two
events of one list matters, and every pair of types occurs in `event_loop`; four
nodes give the list a first, a middle and a last element besides one that moves.
`PipeCapacity` is as large as the number of bytes the instance can write, so that
nothing hides behind a full pipe, except where the abort is what happens.
`Cycles` = 3 lets a coroutine run, wait and be preempted in one slice; three
coroutines are needed for one to run and one to be resumed while the third waits.
`MaxLegs` = 2 separates a trip through the loop from a completion.  `MaxAnswers`,
`MaxNotices` and `Tokens` bound the remote: two calls are needed for answers out of
order, two answers to one call for a response that finds the entry of an ended call, two
tokens for a wait in the middle of a node.  `Calls` is
symmetric in `jsonrpc`, whose properties are invariants.  `ForcedModes` is {FALSE} there:
a forced iteration only does less, so that every state is reached without.
`BufferSize` = 1 stands for BUFSIZ, so that bytes are left in the pipe by a read.  Three waits are needed for
two that share a document beside one that does not.  `MaxValues` and `MaxFrames` are
the limits of the code, which keeps one entry free; at 3 a stack has room for a
variable and a temporary, or an argument and its copy, under one call, and both
overflows happen at every instruction that can cause them.  Two closures over one
variable share it, contain each other through it and run in one another; two
coroutines let a closure outlive the stack its variable was on.  `Small` is the bound on
what lives at a time: two captured variables in one coroutine, one while there are
two coroutines, and three frames.  Not within these bounds: two variables captured by one closure, and an
up-value that outlives a third coroutine's stack at shutdown (section 5).

For `compiler` the bounds are the scripts.  `SampleExpressions` puts every operator
into every other one on either side, and every kind of operand under each sort of
operator; `SampleStatements` has every production; `Mutated` takes out, doubles or swaps
each token of each statement.  The scripts that run are all sequences of three pieces
out of sixteen in which names are declared before they are used (recursion, void calls,
lambdas, functions that return closures, arrays with aliases, objects, branches with
and without `else`, assertions), as a script and, when they begin with a declaration,
as the body of a function that is called twice with arguments that take the other
branch; every two pieces in any order, many of which must be refused for what is not
there; eighteen scripts with one operand of the wrong type, ten with one error of form,
sixteen with negations and five with a `for`; and
ten values against twelve patterns, both ways.  `Integers` is what the literals
stand for, `MaxCaptures` is the code's 255, `NoLsp` is TRUE because scripts run
without a server.  Pieces avoid the constructs of section 5 on which the compiler is
known to crash or to emit wrong code: a property that every script breaks shows
nothing about the others.  These are: locals in an `if` followed by declarations, a
function with no return at its end, two variables captured by one closure, captures
through two levels, an ellipsis at the end of an array matched with nothing, empty
arrays under patterns, and bad statements whose braces recovery swallows.

**Fairness.**  `EventLoop`: the main thread goes on calling `eventloop_process()`
(it is `main()`'s loop, or the waiting loop of the VM), and a thread that began to
complete an event finishes: both are runnable threads without a lock.  No fairness
is assumed of the program's decision to complete an event or of the kernel.
`SubprocessMonitor`: weak fairness for the monitor; strong fairness for the main
thread because it needs a mutex that the monitor releases again and again.
`VMScheduler`: weak fairness of the run loop where it is not in `poll()` (`MayBlock`);
nothing is assumed of the server.  `JsonRpcServer`: the loop runs, the pipe to the
server has room again and again, what was sent arrives, and the server answers
each call or goes away; the last is an assumption about the server that `CallFinishes` is
conditional on.  A forced iteration may still wait for ever.  `LspClient`: the loop runs.  `Compiler`: `Fairness` is weak fairness
of `Next` with its ENABLED spelled out (a step is possible unless the script has come
to its end): one process computes and nothing holds it up.  Where the parser skips in
vain the steps it takes change nothing, so that branch asks nothing of it.

`CHECK_DEADLOCK FALSE` is set where a program really ends: after
`eventloop_destroy()` or an abort, when the machine has stopped, when every call
and notification of the instance was made, and when the virtual machine is
destroyed.  `event_list` and `compiler` are checked for deadlock; in the latter
`Finished` is the step of a process that has ended.

## 4. What is proved

The theorems hold for every value of the constants that the ASSUMEs of each module
allow.  TLC evaluates all of them on every run.

| theorem | states | hypothesis |
|---|---|---|
| `EventLoopProofs!Typing` | `TypeOK`, with `pipe <= PipeCapacity` | |
| `Ownership` | `OwnedOnce` | |
| `Dispatching` | `DispatchedIsCompleted` | |
| `Results` | `ResultDeliveredUnderLock` | |
| `Wakeups` | `NoLostWakeup` | |
| `Freeing` | `FreedForGood`, of steps | |
| `NothingDueIsLeft` | `LeavesNothingDue`: the loop waits only if no event could have its callback instead | |
| `LoopUsesQueue` | the refinement `UsesQueue` | |
| `EventListProofs!NothingLeaks` | `LinkedIsAllocated` | |
| `PointersImplementQueue` | the refinement `ImplementsQueue` | |
| `SubprocessMonitorProofs!NothingLost` | `StatusNeverLost` | |
| `WalkIsProtected` | `WalkStaysInList` | |
| `LockComesBack` | `LockIsGivenBack`: who has the lock gives it back, unless a status was saved or the loop destroyed | |
| `SavedIsTheLast` | `NothingAfterSave`, of steps: after a status is saved no process is waited for and nothing completed | |
| `WalkMissesOnlyLate` | `OnlyLateIsMissed`, of steps: the walk for a status leaves the event of its process uncompleted only if the event was added after its last link was read | |
| `VMSchedulerProofs!InOnePlace` | `OnePlace` | |
| `QueuesAgree` | `QueuesAgreeWithIo` | |
| `PointersAreOwned` | `CallbackFindsCoroutine` | |
| `RunLoopImplementsCoroutines` | the refinement `ImplementsCoroutines` | |
| `TurnsAreTaken` | `TakesTurns`, of steps: nobody in the run queue loses ground | |
| `WaitsAreBounded` | `WaitIsBounded`: a turn comes within `Cycles` instructions for each coroutine of the queue | |
| `JsonRpcServerProofs!OneReaderAlways` | `OneReader` | |
| `HandlersApartAlways` | `HandlersApart` | |
| `SavedOrAwaitedAlways` | `SavedOrAwaited` | |
| `ListeningIsArmedAlways` | `ListeningIsArmed` | |
| `NoEarlyResponseAlways` | `NoEarlyResponse` | the remote answers only what was asked |
| `NeverCompletedTwiceAlways` | `NeverCompletedTwice` | |
| `WaitsAlways` | `Waits`: nobody who waits for a call was forgotten | |
| `ResponsesAreKept` | `NoResponseDropped`, of steps: what was answered stays answered until the caller has it | |
| `LspClientProofs!WaitsAreRegistered` | `WaitIsRegistered` | |
| `ResultsAreFinal` | `ResultStands`, of steps: the result of a wait is not replaced | |
| `TakenIsFreed` | `FreedAsTaken`, of steps: parameters are freed exactly when a wait takes them from the saved ones | |
| `NotifiedAreServed` | `NotifiedIsServed`, of steps: who was waiting when a notification came gets it | |
| `ClosuresProofs!CountsAreRight` | `CountsAreHolders` | |
| `TrackingAgrees` | `CapturedIsTracked` | |
| `ClosuresShareVariables` | `ReadsItsVariable` | |
| `NothingIsFreedEarly` | `NothingDangles` | |
| `LeaksAreKnown` | `LeftBehindIsHeld` | |

Of these formulas, those with an explanation in the table are stated in the modules of the
proofs and belong to no run: they are what liveness needs of the steps, and a run checks
the liveness itself (`RunnableIsExecuted`, `CallFinishes`, `NotifiedIsDelivered`,
`FinishedIsDeliveredUnlessSaved`, `CompletedIsDelivered`).

The hypothesis of `NoEarlyResponseAlways` is about the remote, which the code does not
check; without it TLC finds the property violated.  Two assumptions are there
for the proofs: `IsFiniteSet(Events)` of `EventList` and `IsFiniteSet(Op)` of
`VMScheduler`.  A program has allocated finitely many of either, and a cardinality is
no number otherwise.  `Closures` assumes the same of the coroutines, closures and
up-values that may be allocated at a time, which are numbers of their own, and that a
stack has room for one frame at least: `MAX_FRAMES` and `MAX_VALUES` are thousands.

Every proof is an induction over steps, and hardly a property is inductive alone.
What has to be added is why the code is right:

**EventLoop.**

- `ControlInv` ties the lock, the walk and the callback to `pc`.  `TypeOK` needs it
  because `monitored` and `current` are used as indices.
- `OwnedOnce` needs `ControlInv`: the end of a walk makes `kept` the list, and that
  loses nothing only if `pending` is empty and nothing was in `kept` before.
- `CompletionInv` says how far each completion has come.  It is what shows that an
  event whose `is_ready` is set, and that no task's thread owns, has its result.
- `MonitorInv` says that the monitor's event is not ready to be called back while
  the monitor holds the lock; with `CompletionInv` and `DispatchedIsCompleted` it
  gives `ResultDeliveredUnderLock`.
- `WakeupInv` extends `NoLostWakeup` into the scan: a task that the scan has kept,
  and that has signalled since, has its byte in the pipe.  The pipe is emptied only
  at the end of the gather, after which the position is not one from which the loop
  waits.
- `DueInv` is `NoLostWakeup` for the events that have no byte: a completed descriptor is
  taken where it is completed, and a default event is completed between two walks only, so
  that the next scan takes it before the loop waits.  With `WakeupInv` it gives
  `LeavesNothingDue`.  What may be left is a task that its thread cancelled (section 5).
- `WalkInv` makes `lock = "main"` the flag `walking` of `EventQueue`; `StepUses` maps each
  step to one of the queue's or to none.  Together with `PointersImplementQueue` this leads
  from the loop down to the pointers.
- `StepFreed` shows `FreedForGood` of one step from `OwnedOnce`, by which what is freed
  is in no list.

**EventList.**  The invariant is that there *are* three sequences, which share no event
and have all that is allocated, such that the pointers represent them (`Represents`):
each `next` leads to the next element (`Linked`), and head, tail, `cur` and `prev` to
the first or last of the one they belong to (`PointedTo`).  Each action comes with the
sequences after it.  `ChainIs` shows that `Chain` then yields the sequences.  It is an
induction along the pointers, made by taking the least place at which they differ.  It
also shows that a chain ends within as many steps as there are events, which is where
their finiteness comes in.  The refinement is one step of `EventQueue` for each action.

**SubprocessMonitor.**  `StatusNeverLost` needs that the monitor has a status in hand
only between `wait()` and the end of its walk (`HandInv`), that `is_monitored` means
an event has it (`MatchInv`), and that a thread is started only when none runs
(`OneMonitor`): a second monitor would overwrite the hand of the first.  `WalkInv` ties
the holder of the mutex to the place of each thread; what happens to the list without
the mutex only appends to it.  `SavedInv` says where the monitor is once it has saved a
status: on its way to the lock that it holds already, or at it.  From this follow both
`LockComesBack`, in which this case is the exception, and `SavedIsTheLast`, which is why
the delivery of exits is conditional on nothing having been saved.  `PassedInv` is about the part of the
list that the walk has passed: it stays as it is, as additions only append.  An event added
while the cursor is at the end is missed, and `WalkMissesOnlyLate` says that no other is.

**VMScheduler.**  Run queue, suspended list and the coroutine that runs partition the
coroutines (`OnePlace`); whoever has something outstanding is suspended
(`WaitingIsSuspended`); the count covers the operations in flight (`CountCovers`); and
where one is picked everybody who can go on is in the queue (`PickedInTime`), which is
not empty (`QueueToPick`).  From this follows the refinement: an instruction never runs
in a coroutine that waits, and each completion is one of `Coroutines`.  That a coroutine
in the queue is executed at some time is liveness, but what it rests on is not:
`InstructionsAhead` counts the instructions that come before it, a whole slice for each
coroutine ahead and what is left of the current slice for the first.  No step makes the
number grow, and the end of an instruction makes it smaller (`TurnsAreTaken`); `SliceInv`
keeps the current slice within `Cycles`.

**JsonRpcServer.**  `Shape` is the invariant of the chains of callbacks, whatever the
remote does: an event is in the loop once (`Once`), there is one reader (`Reader`) at a
place between messages that fits what it waits for (`Position`, `Frames`), the events
of a call follow one another (`Chains`), and what a dispatch completed is called back
before the next node (`Apart`).  `Failures` adds why reading a header or a node fails: the
input has ended, or what was read is no message; so the two early returns are the only ways
out of the listening loop that leave `is_listening` set, which is `ListeningIsArmed`.
`AnsweredOnce` says of each call that was answered at most once that its answer is in one
place and its event completed once.  `NoEarlyResponseAlways` needs `Orderly`, of which
`Ahead` is the argument about the order of the loop: between
the writing of a request and its registration lies one callback, between the request and
the dispatch of its response at least two batches.  `SavedOrAwaited` needs nothing more:
the two handlers that write to the tables look into the other first.

`Stage` follows one message from its call to its end, whatever the remote does: the event
of its outcome is in the loop as long as it is pending, its sending is, or is completed, or
it was written and registered.  `StepStage` shows it of each callback, for the message
that the callback is about; of the others `OtherKeeps` and `UntouchedKeeps` say that
nothing changes.  `Waits` follows from `Stage`, and `NoResponseDropped` from the cases of
the two callbacks that look into the tables.

**LspClient.**  While somebody waits nothing is saved, and what is saved is referenced
and in the list once (`SavedResults`); every wait has one event, registered as long as
it is pending (`OneEventEach`).  The latter is stated until a freed notification is
used (`undefined`), after which the model says nothing either.  What is saved has the one
reference of the list and is the result of no wait (`SavedUnshared`).  Therefore
taking it frees it, and nothing else frees anything: `TakenIsFreed`.  Conversely, a wait
that was completed by an arriving notification has a result that is not among the saved
ones and stays allocated (`OwedInv`), so the defect of section 5 is confined to the path
through the saved ones.

**Closures.**  The invariant (`IInv` of `ClosuresInvariant`) has to hold of a machine
*between* the calls of one instruction as well, when the counts are not those of the
holders: a value was popped and is not yet cleared, an up-value was created and is in no
frame.  `Counted(m, h)` therefore has a ledger `h` beside it, how many references to each
object are in the hands of the instruction: the count of an object is the number of its
holders, of the references that were lost, and of those in hand.  `h` may be negative
where the code puts a reference in its place before it counts it.  `Sound(m, h)` adds to
that the frames lying one above the other, each over the arguments it is due (`Stacked`),
the places, frames and up-values that agree (`Tracking`), and the values of the variables
(`Valued`).  For each helper (`Push`, `Pop`, `Set`, `SetupFrame`, `TeardownFrame`, `Track`)
a lemma says what it does to `h`; those of an instruction add up to nothing in hand.

- The cascade of a last reference is the lemma `UnrefAllCounts`, about the work list.
  What is on the list is in hand; `DropFirst` moves references from the heap into the list
  and out of it (`DropsCount`).  The list comes to its end within the budget of `UnrefAll`
  because no step adds more to it than the object it frees had (`BudgetIs`), so the bound
  in the model cuts nothing off.
- A captured place is popped only by the function that owns it, so the frame on top is the
  one that tracks its up-value (`OneOwner`, `UpliftCaptured`).
- When the virtual machine is destroyed `Tracking` is given up: a stack is freed whose
  places up-values still alias (section 5).  `Counted` survives, with `Stacked`, and
  gives `LeaksAreKnown`: after the last stack is gone only closures and closed up-values
  are left to hold anything.

`ListsProofs` has the lemmas on sequences, so that the steps of the other proofs do not
look into one: what joining, taking off and selecting do to the elements and to being
without repetition.  Three things make these proofs possible here.  Lists are selected
from with `Only`, which is `SelectSeq` without recursion (the run of `VMScheduler`
checks with `OnlySelects` that they agree).  Functions of numbers are unfolded by
showing that one exists.  Induction is `LeastNumber`: a set of numbers that is not
empty has a least one, which follows from `WFMin`.

Only model-checked:

- liveness, here `CompletedIsDelivered`, `FinishedIsDeliveredUnlessSaved`,
  `RunnableIsExecuted`, `CallFinishes`, `NotifiedIsDelivered`, `EveryScriptEnds`, and with
  it fairness and ENABLED, which are out of the prover's reach (what the steps
  contribute to them is proved for the scheduler, the server, the client, the lock of the
  monitor and what the loop leaves in its list);
- everything about the compiler and the front end: the passes and the reader of texts
  are recursive operators, over trees and strings, for which there is no prover here.

## 5. Disagreements between the code and what it says of itself

Two are runs (`findings` in `PROJECT.json`).  The others were met while modelling and
are not runs.  Where the models reach the steps in question, they take them as the code
does.

Concurrency and closures:

- `lstf-vm-stack.c:361`: a store to a variable that is captured while its frame lives
  clears the captured value, and the assertion at lstf-vm-value.h:408 aborts the
  program, also for `upset` through a closure; status `captured_value_cleared` of
  `Closures`, "assertion" of `Machine`.

- `event.c:93`: `event_return()` stores the result after `is_ready` is set, so a
  callback can read a result of a task that is not there yet; event.h:83-86 says
  that the event is ready with its result.  `ResultDeliveredUnderLock` is what holds.
- `lsp-client.c:313-317`: the saved parameters are freed before the callback gets
  them (lsp-client.h:136-137); `undefined` of `LspClient`.  By `TakenIsFreed` this happens
  with every saved notification that is used.
- `lstf-vm-value.c:99`: a closure instruction that finds the stack full drops an
  up-value that no place is marked for, and the assertion fails; status
  `up_value_of_no_place` of `Closures`.
- `lstf-vm-value.c:97`: the reference of an up-value to its coroutine is weak
  (lstf-vm-value.h:147), and the end of the virtual machine may free that coroutine
  before a closure on another stack drops the up-value; status `coroutine_is_gone`,
  which takes three coroutines.
- `lstf-virtualmachine.c:566`: `schedulei` does not drop the closure it popped, and the
  result of a coroutine is forgotten with its reference (`kept` of `Closures`).
- `lstf-vm-stack.c:988`: the entry of a place stays in `captured_locals` after the
  place was popped (`Capturable`).
- `event.c:564`: the timeout is -1 whenever `force_nonblocking` is set; event.h:271
  says the call does not block then, and event.c:446-450 that it does not when events are
  ready.  `lstf-virtualmachine.c:1380` sets it exactly when a coroutine can run: that
  coroutine, and callbacks that are due, wait for as long as the server is silent.
  `HeldByPoll` of `VMScheduler` and of `JsonRpcServer`.
- `event.c:347-355`: the event of a process can be added while the monitor has its status,
  after the walk for it has read its last link; the status is then saved although the event
  is in the list, and the monitor waits for its own lock as in the first finding.
- `event.h:104`: cancelling a task's event wakes nobody, and the gather tests
  `is_ready` only; event.h:99 promises a callback on the next iteration.
- `event.c:223`: the closing assertion of a task's thread reads an event that the
  main thread may have freed.
- `event.c:83`, `598-604`: bytes of events that the scan takes stay in the pipe; a
  full pipe aborts the program.
- `event.c:366`: `monitoring_thread_running` stays set when `thrd_create()` fails.
- `lstf-virtualmachine.c:1394`: an error raised by a callback in the last iteration
  of the waiting loop is overwritten by the next instruction.
- `jsonrpc-server.c:957`: the entry of a completed call is not removed, so a second
  response completes its event a second time: the assertion of event.c:93 if it still has
  its callback before it, an event that was freed if not (`twice` of `JsonRpcServer`).
- `jsonrpc-server.c:992`, `1003`: after an invalid node, or one that the end of the input
  has cut short, the loop is not armed again but `is_listening` stays set, of which
  jsonrpc-server.h says "Whether the server is actively listening".
- `jsonrpc-server.c:952`: an error response completes its call with no node and no
  error code.
- `lsp-client.c:131`: calls that were sent and are pending when the server goes away, or
  when the listening loop ends, never do; the exception of `CallFinishes`.
- `lstf-vm-lsp.c:292`: the reference that a waiter gets is never dropped.
- `lstf-vm-lsp.c:310`: a wait drops the diagnostics of another document, which a
  later wait for that document then never sees (`doc/isa.md:98`).

The front end:

- `lstf-parser.c:2561`: a statement that begins with `for` makes the parser skip for
  ever (`SkipInVain`).  A bad statement inside a block that lacks its semicolon swallows
  the closing brace.
- `lstf-parser.c:1275`: the error of a parameter that does not parse stays set: `(x,) =>
  {...}` is accepted and spoils what follows, `(x,) => 3` is not accepted.
- `lstf-parser.c:298`: `[!true]`, `[-x]` and `[await f()]` are refused, which
  `doc/grammar.txt:1` allows; `await await f()` is accepted as one.
- `lstf-scanner.c`: `x-1` is a name and the number -1; `1.5e3` is an error; `/*/` is a
  whole comment; `as` is the keyword `async`; `\t` in a string is the letter t;
  `future<future<int>>` ends in a shift.

Types:

- `lstf-uniontype.c:53`: the result of the search is used the wrong way round.
- `lstf-semanticanalyzer.c:1543`: `!` takes any value, and the comment says that any kind
  may be cast; the machine refuses what is no Boolean (lstf-virtualmachine.c:889).  The
  operand itself is not visited (1538), so `!(a - 'x')` passes too: "unchecked" of
  `Compiler`.  A Boolean passes as a number: `bool` is below `int`.
- `let x: bool | double = true; let y = x + 1;` and `let x = -y; x.foo` fail
  assertions; `[1, n, n, 1]` and `type X = I` follow null pointers; a conditional
  expression gets no type; recursive interfaces are compared without end.
- A `return` inside an `if` of a lambda is not seen, and one in a lambda counts for the
  function around it.

Captures, offsets and jumps:

- `lstf-symbolresolver.c:424`: the loop stops at the first node that is no function, so
  a variable two levels up is not captured between; the machine says "invalid stack
  offset".
- `lstf-codegenerator.c:363`: the number of an up-value in the containing function is
  taken from the order in the inner one; a function with captures that calls itself
  stops the compiler (361).
- `lstf-bc-instruction.h:245`: only the first up-value of a closure instruction is
  copied (`Copied`).
- `lstf-ir-program.c:857`: a jump to a block that begins with pops skips them; the
  comments at 425-431 and 854-855 say it does not.  `fun f(n: int): void { let x = 1; if (n < 2) {
  print(n); } } f(1); let y = 7; print(y); f(5); let z = 8; print(z); print(y);` prints
  1 7 1 7.
- `lstf-ir-program.c:452`: pops do not lower `frame_offset`: after `if (b) { let x = 1;
  print(x); }` a second variable is read at an invalid offset.
- A void function whose only return is in an `if`, a main with a lambda that returns,
  and a lambda with a block and no return run past their end.
- `x ?? y`, reading `server_path`, a member of a union and a slice that is read end the
  compiler or the program.

Values:

- `json.c:309`: a pattern compared with an empty array reads outside it, and crashes
  (`tests/compiler/diagnostics.lstf:21-23` compares such values).
- `json.c:288-343`: an ellipsis at the end never stands for nothing, though one at the
  front does: `[1, ...] <=> [1]` is false, `[..., 1] <=> [1]` is true.
- `json.c:601,736`: `[..., x]` with a variable aborts; `json.c:513`: an object pattern
  with a member that is a non-empty aggregate aborts in `json_node_copy`, or not,
  depending on the order of the members.
- `json-scanner.c:75`: `print("")` aborts.  `lstf-vm-value.h:220`: a function stored in
  an array becomes an integer.  `lstf-virtualmachine.c:1157`: `%` refuses its operands
  only if neither is a number.

## 6. Not modelled, and why

- The Windows builds of the event loop and of the launching of processes; the C11
  thread shims.
- Launching (`io-process.c`): system calls in a straight line, no state.
- Streams: `JsonRpcServer` has them as the events `input_ready` and `output_ready`.
- LSP data types, the visitors of the syntax tree, printing, options: conversions and
  dispatch.
- Containers: sequences, sets and functions in the models; the one list that the code
  builds by hand is `EventList`.
- Writing bytecode to a file and loading it: bytes copied in a straight line.
- In the machine: arithmetic of doubles, shifts and bitwise operations, overflow of
  integers, `exit` and `getopt`.  `schedule`, `schedulei` and the awaits are in
  `VMScheduler` and `Closures`, not in `Machine`, whose programs have one coroutine.
- In the types: futures of several types and what a lambda becomes when it is
  asynchronous beyond the wrapping of its result.
- `memory`, `change` and the lookup of a document (`lstf-vm-lsp.c:256` compares the index
  with the wrong length): they need a server.
- In JSON: cycles, optional members and the text form; reference counts are in
  `LspClient` and `Closures` only.
- Memory exhaustion: the code aborts.  Signals (`SIGPIPE`): the process ends.
- A second monitor after `eventloop_quit()`; steps of a thread after the loop was
  freed.

## 7. Plan

What would extend the models, in order:

1. **Proofs**: what can be said of `Assembler` and `Machine` with loops that are functions
   of a number, as `UnrefAll` and `DiscardMany` of `Closures` are, in place of recursion.
2. **Coroutines in `Machine`**: asynchronous functions and awaits, composed with
   `VMScheduler`, so that `PrintsItsMeaning` covers what several coroutines print.
3. **Streams, scanner, JSON parser**: the asynchronous parser yields the same nodes
   as the synchronous one however the bytes are split.
4. **JSON values**: floating references, equality of cyclic values.
5. **Bytecode**: loading inverts serializing.
6. **Containers**: open hash map with removal, circular list with iterators.
