# A TLA+ model of NLA

This directory models the NLA packages (`src/packages`): what the adapter
runtime, the tool-loop adapter, the transports, the host's session client, a
delegated call, the CLI and HTTP operations and the context assembler do under
every interleaving their callbacks, messages, timers and connections allow. TLC
checks small instances; TLAPS proves every safety property the runs check, and the
refinements, for every instance.

## 1. The system

| Component | State | Operations | Talks to |
|---|---|---|---|
| Tool-loop session adapter (`sdk-core`, `defineToolLoopSessionAdapter`, `NlaToolLoop`) | active turn per session, pending inputs per session, per turn an abort controller and the correlation id of its messages | `session.start`, `resume`, `message`, `interaction.resolve`, `interrupt`, `stop`; the loop over model and tools | the author's callbacks (context, memory, model, tools, hooks), the runtime |
| Adapter runtime (`sdk-core`, `AdapterRuntime`) | the table of sessions, per call a queue of messages and a settled flag | one handler per message type, `handleStream` | the adapter, a transport's sink |
| Host session client (`host-core`, `createSessionClient`) | per session the open streams and control waiters by correlation id, a queue per stream | `registerSession`, `sendSessionMessage`, `resolveInteraction`, `interrupt`, controls, `handleMessage`, `handleFailure`, `closeSession` | a transport handle, the host |
| Stdio transport, adapter side (`transport-stdio-jsonl`) | a serial queue and a set of concurrent calls | `runAdapterStdio` | a runtime |
| Stdio transport, child process (`transport-stdio-jsonl`) | a closed flag, a kill timer, the last stderr lines | `openJsonlChildTransport`, `send`, `close` | the child's process group, a session client |
| HTTP transport (`transport-http`) | the response and its pending write, the reader's line buffer | request handler, NDJSON parser | a runtime, a host's sink |
| Delegation (`delegation`, `adapterTool`) | per call a child session, an abort controller, a timer | run a turn of a child session as a tool | a tool's context, a launcher |
| Context assembler (`context-assembler`) | segments, token count, selection of one request | cut, reduce and select the segments of a request under a token budget | - |
| CLI and HTTP adapters (`sdk-cli`, `sdk-http`) | per call a timer, a result, an activity | one invoke handler each | `execFile`, `fetch`, the runtime's context |
| Protocol (`protocol`), test host (`test`), examples | none | types, schemas, helpers | - |

A host sends a message over a transport; the transport hands it to
`AdapterRuntime.handleStream`, which calls the adapter's handler and passes on
what the handler emits; the session client routes each message to a stream or a
waiter by its correlation id, or by its turn id.

What is hard here:

- handlers await callbacks of unknown duration, and interrupt, stop and answers
  run in between; everything read before an await may be stale after it;
- a turn that was interrupted keeps running until its callback settles, while
  the next turn has begun;
- a turn's messages change their correlation id with each answer, and the host
  ends a stream at the first request, completion or failure it sees;
- waits that must be settled by whoever removes them (inputs, streams, waiters,
  calls of `next()`, writes under backpressure);
- transports reorder: interrupt, answers and stop overtake queued messages;
  they split lines, break off, and fail from inside their own callbacks;
- timers race what they guard: a child's exit, a slow server, a delegated turn;
- a budget is spent on segments of different standing, some of which must be
  kept whole, kept to the letter or reduced.

What makes each component correct:

- tool loop: one turn owns the session; the slot is freed on every path and
  never by somebody else; no input outlives its abort; whatever is awaited can
  be answered; no exchange is lost from the memory; an aborted turn is silent;
  a turn ends;
- runtime: a call has at most one terminal message, nothing of the call follows
  it, and it resolves only when it
  was delivered; a session is forgotten when it ended and only then;
- session client: what is held is unsettled and what is unsettled is held, so
  that nothing is settled twice and nothing hangs; deltas are numbered;
- transports: messages arrive whole and in order, an end is told only after all
  that came before it, nobody waits for a message that was lost, nothing of the
  child survives a close;
- delegation: a child is interrupted at most once, and a call that ends leaves none
  running that it got;
- operations: what runs is what was shown, the activity agrees with the call, a
  timeout ends the call;
- assembler: what is charged is what is sent, within the budget; required
  segments survive, tool calls keep their outputs, outputs are reduced only where
  they may be.

`PROJECT.json` lists the hazards with their lines and the properties that
cover them.

## 2. Modules

| Module | Models |
|---|---|
| `ToolLoop` | the tool-loop adapter with the runtime's session record, one session |
| `StdioRunner` | `runAdapterStdio` around it: extends `ToolLoop` |
| `RuntimeCall` | one invoke or threads call of the runtime, with the queue of messages to the sink |
| `HttpStream` | a request over HTTP around such a call, with the connection and the host's parser: extends `RuntimeCall` |
| `OperationCall` | the invoke handler of a CLI or HTTP operation in such a call: extends `RuntimeCall` |
| `RuntimeSessions` | the runtime's table of sessions under overlapping handlers |
| `SessionClient` | the host's session client, one session |
| `PushIterable` | the queue behind a stream of the session client |
| `ChildTransport` | the host's end of a child process, with the client's stream of one turn: extends `PushIterable` |
| `Channel` | abstract: a FIFO path of messages that may break and that ends |
| `Delegation` | one call of a delegation tool |
| `ContextAssembly` | one assembly of a request by the context assembler |
| `RuntimeCall_proofs`, `RuntimeSessions_proofs`, `SessionClient_proofs`, `Delegation_proofs`, `ChildTransport_proofs`, `ContextAssembly_proofs` | theorems about the module they are named for |
| `ToolLoop_proofs` | theorems about `ToolLoop`, and about `StdioRunner` around it |
| `CallCompositions_proofs` | theorems about `OperationCall` and `HttpStream`, the two compositions around a call of the runtime |
| `MC...` | instances for TLC |

Composition is by extension: `StdioRunner`, `HttpStream`, `OperationCall` and
`ChildTransport` take the actions of the module they extend as they are and say
when they happen. `Channel` is the specification of four paths: the emitter's
queue (`RuntimeCall`), the emitter with the connection and the parser
(`HttpStream`), and the stream of the session client behind the child transport
(`PushIterable`, `ChildTransport`) implement it by refinement mappings.

Node runs one callback at a time, so throughout an action is the code from one
await, or one event, to the next. A definition marked "Mutant" is a plausible
mistake in the definition it precedes; nothing uses it, and replacing the
definition by it breaks the property it is paired with in `PROJECT.json`.

### ToolLoop

`phase` says where the handler of each `session.message` stands:
`setup` (awaiting `createContext` and `memory.load`), `model`, `tool`, `saving`
(awaiting `memory.save`) and `done`. The other variables are the code's own:

| Variable | Code |
|---|---|
| `active` | `activeTurnsBySession` |
| `aborted` | the turns' `AbortController`s |
| `pending` | `pendingInputsBySession` |
| `waits` | the `awaitInput` promises the tool still awaits |
| `correlation` | `responseCorrelation.current` |
| `resolving` | answers between `resolveInput` and `entry.resolve` |
| `iteration`, `calls` | the two loops of `NlaToolLoop.run` |
| `memory`, `loaded` | the author's store and the state a turn loaded |
| `record` | the entry of `AdapterRuntime.#sessions`: absent, created by any message, or filled by `started()` |
| `starting`, `stopping` | a start, resume or stop handler awaits its hook |
| `emitted` | messages per correlation id: requests, resolutions, replies, completions, failures |

One session is enough because every map is keyed by session id and no handler
touches another session's entry. A memory is the set of turns whose exchange it
contains, because saving appends one exchange to what was loaded. Aborting is
permanent, so `aborted` is a set. `requestInput`, which registers nothing, and
a tool that stops waiting (`ToolAbandons`) are allowed when `Detaches` is TRUE.
`SameTick` allows a second call in the microtask between the two halves of an
answer, as two pipelined messages can. Callbacks choose: a model answers, calls
0 to `MaxCalls` tools or throws; a tool awaits, returns or throws.

Left out: text, parts, deltas, activities, execution states, tool schemas, the
compaction of the memory, and sessions without a memory (they only lose
variables). An overlapping second start or stop of a session is in
`RuntimeSessions`, not here.

### StdioRunner

`serial` is the promise chain `queue`, `task` what runs on it, `heard` the
answers read, and `reader` where `runAdapterStdio` stands: `reading`,
`rejected` (a line did not parse, the loop threw), `ended` (the input ended; it
awaits the queue and the concurrent calls), `resolved`. Each read of a line is an
action that hands a message to `ToolLoop` or queues it; `HandlerStep` is what the
handlers do later. A line is read at any time, so a message may meet any state.

Left out: messages of other sessions, which share the queue and nothing else,
and calls without a session.

### RuntimeCall

The handler is the adapter author's, so it may call its context in any order,
return or throw, and leave callbacks behind that go on calling. `phase` follows
`handleStream`: `idle`, `running` the handler, `ended`, `draining`, then
`resolved` or `rejected`. `settled` and `numbers` are the code's `state.settled`
(`state.terminal`) and `streamSeqById`. The emitter's promise chain is `emitted`
with `taken`, the number of messages it is done with; `sinking` says that the
sink has been called and has not settled, `broken` that `pendingError` is set,
and `owed` how many messages `drain` waits for. `Threads` selects between the
invoke handler and the two threads handlers, which differ in what they validate
and in how they end.

Left out: payloads; deltas the handler numbers itself; terminal messages it
emits by hand, which nothing in the code holds back.

### HttpStream

A message is a line of `Parts` pieces, the last its newline, so that the
connection can split or join lines anywhere. `status` and `response` are the
`ServerResponse`; `out` its buffer; `write` how the last `response.write` was
taken (`flows`, `stalls` when it returned false, `refused`); `flight` what is
under way, at most `Window` pieces; `link` the connection, which may be lost at
any time. At the host `reader` follows `parseNdjsonStream` (and `fetch` before
it), `buffer` is its buffer and `received` what its sink was given. The sink of
`RuntimeCall` is `writeResponseChunk`: `Write` and its end by callback, drain or
error replace `SinkCalled` and `SinkEnds`.

Left out: the URL, the headers and the body of the request, of which only the
outcome counts (`TurnAway`, `Preflight`, `SendHeaders`); runtimes without
`handleStream`.

### OperationCall

`step` follows the handler: `previewing`, `preparing`, `exchanging` (the request
or the command runs), `parsing`, `reporting`, `mapping`, `over`. `shown` is what
the activity and the log tell of the request, `ran` what was executed: the
configuration's callbacks are evaluated for each, and unless they are `pure` may
answer anew. `timer` is that of the timeout, `answer` the server's status or the
command's exit code as the operation judges it, `result` what `runHttpOperation`
or `runCliOperation` returns, `activity` the last status reported. `http` and
`timed` are the operation's kind and whether it has a timeout (a command always
has one).

Left out: the text of commands, headers, bodies and artifacts. The sink is not
part of this module; `RuntimeCall` has it.

### RuntimeSessions

A session object is a number, given out in the order of creation; `sessions` is
the table `#sessions`, `gone` the objects deleted from it. Each handler of a
session message has `op`, `session` (the id in its message), `object` (what
`#ensureSession` gave it) and a `stage`; `terminal` is its emitter's flag,
`ends` and `answers` count what it emitted, and `ended` says that the session was
ended when the adapter's code came back. What the adapter's code does with its
context is free. `Implements` is the set of operations the adapter has a handler
for; the others are answered by the runtime.

Left out: what a session object holds, and messages that change nothing here.

### SessionClient

Every method of the client runs without an await, so each is one action. The
adapter is arbitrary: it sends any message with any correlation id and turn id
at any time, which covers every adapter and transport, faulty ones too. The
host is either `careful` (ids are unique, one stream per turn, a session is
registered once) or does as it likes. Streams and waiters have a state each,
from `idle` to what settled them. When a message is routed by turn id the code
takes the oldest stream of the turn; the model allows any of them, so what is
checked does not rest on the order. The iterable's and the promises' own guards
against being settled twice are left out: `HeldIsUnsettled` shows they are never
reached.

### PushIterable and ChildTransport

`PushIterable` has the state of `createPushAsyncIterable`: `queue`, `waiters`
(the calls of `next()` that wait), `state` (`done` and `failure`); `pushed` and
`answers` are history. `ChildTransport` composes it with
`openJsonlChildTransport`: the child (`leader`) and its `descendants`, the lines it
`written`, the `chunk` that is being handled line by line, stderr, `closed` and
`killTimer`. What a line makes of the stream is the client's reaction: a message, the
last message, a failure, a session that stopped, or a callback that throws, which
the transport answers with `fail`. An end or error of the child, a close by the
host and the end of the host's process may come between any two events.

Left out: writes to the child's stdin, which change nothing here (see section 5),
and the sessions of other turns.

### Delegation

`phase` names the await at which the call stands, in the order of the code:
`target`, `input`, `launch`, `send`, `next`, (`pausing`, `parent`, `resolve`,
`next`, ...), `output`; then `interrupting`, `stopping`, `done`. `failing` and
`pausing` are `await iterator.return()`. `race` is who won the race of
`withAbort` at that await. Deciding a race and running the code after it are two
actions, because Node runs microtasks in between and the signal may be aborted
there; `Await` is the check of the signal at the entry of `withAbort`, made after
its callback was started. The callback of a lost race goes on: `child` can be
`launching` when the call is over and become an `orphan`, and `pulling` says that
a `next()` is pending. Two calls of a tool share nothing, so one is modelled.

Left out: metadata and depth arithmetic (`TooDeep` is its outcome), forwarded
activities, and collecting the assistant's text.

### ContextAssembly

A text is its estimate in tokens, a tool's name the set of its words. `at` is the
index of the loop over the messages, then over the segments to reduce; each
action handles one run of messages, one segment, or one step of the selection.
`segments` is `buildSegments`, `used` is `usedTokens`, `waiting` the optional
segments not yet visited, `selected` the ids taken, `dropped` those reported.
The reduction of a text is the code's loop over smaller and smaller caps
(`HeadTail`), in characters; `overhead` is what the estimate of an output counts
beside its text. A reducer of the host leaves any size of `Leaves`. `Total` is
the sum of a function's values: `Tokens` sums the messages of a sequence, `Cost`
the segments of a set, of which no two are the same. What goes out stands in the
order the code's stable sort and its two filters give it: `Precedes` compares two
segments by it, `SelectedSegments` puts each of the `Chosen` at the place that the
number of those before it says. `budget` may be negative, as in the code.

Left out: how the JSON reducer shortens a value, the provider profiles of the
validation, and the report with its warnings.

## 3. What is checked

| Run | Bounds | Shows |
|---|---|---|
| `tool_loop_safety` | 2 turns, 2 answers, 2 request ids, 1 iteration, 2 calls, 2 waits, detaching tools, same-tick calls | `ActiveTurnRuns`, `InputsAreOwned`, `MemoryComplete`, `AbortSilences`, `RecordLossIsReported` |
| `tool_loop_ends` | 2 turns, 2 answers, 1 request id, 2 iterations, 1 call, 1 wait, same-tick calls | `StreamWellFormed`, `AnsweredStreamEnds`, `EveryTurnEnds` |
| `interrupt_during_save` | 1 turn | `InterruptedNeverCompletes` fails (section 5) |
| `session_client` | 2 streams, 1 waiter, 3 ids, 2 turn ids, 2 registrations, careful host or not | `HeldIsUnsettled`, `UnsettledIsHeld`, `StreamsAreSound`, `InterruptEndsTheTurn` |
| `invoke` | 2 delta streams, 3 messages before the end | `TerminalIsFinal`, `CallEnds`, `SinkIsChannel` |
| `delegation` | 2 questions of the child | `NoChildIsLeft`, `AbortReachesChild`, `ValueMeansFinished`, `CallEnds` |
| `http_stream` | a threads call, 2 messages before the end, 3 pieces a line, 2 under way | `HttpInv`, `HostIsChannel`, `HostLearnsTheEnd` |
| `stdio_runner` | 2 turns, 2 answers, 1 request id, a start, 1 iteration, 1 call, 1 wait, same-tick calls | `StdioInv`, `RunnerMoves` |
| `child_transport` | 3 lines, 2 on stderr of which 1 is kept, 3 calls of `next()` | `ChildInv`, `StreamIsChannel`, `AwaitedEndIsTold`, `GroupDies` |
| `operation` | 2 commands, 2 arguments; HTTP and CLI, pure and impure, timed or not | `OpInv`, `ShownIsRun`, `TimedCallEnds` |
| `context` | all requests of up to 5 messages over 2 tool calls, one exact, under 2 budgets; up to 3 messages with a memory of up to 3 entries and a summary; one output of 50 sizes, with 24 or 400 characters beside its text against 250 caps and with 1200 against 21 | `BudgetKept`, `NewestFirst`, `ToolRunsStayWhole`, `CapHolds`, `TurnStaysLast` |
| `runtime_sessions` | 3 handlers, 2 session ids, 3 objects, 5 operations implemented and 3 not | `ObjectIsShared`, `ForgottenWhenEnded`, `ControlsAreAnswered` |

`InputsAreOwned`, `NoChildIsLeft`, `ForgottenWhenEnded`, `EveryTurnEnds`,
`HostLearnsTheEnd`, `RunnerMoves`, `TurnStaysLast` and the four `...Inv` are conjunctions of parts that are stated,
named and explained one by one in their modules, the type invariant among the
parts of the latter.

Why the bounds suffice. The hazards of the tool loop are between one aborted
turn and its successor, or between two calls on one turn: two turns, two
answers and two request ids meet all of them, a third turn only repeats the
pair. `MaxIterations` is the code's own parameter, at its smallest values;
`MaxCalls` 0, 1 and more are the cases the inner loop tells apart. In the
session client one stream and its successor, under ids and turns they share or
not, are the cases the maps tell apart. `MaxMessages` and `MaxRegistrations`
bound counters that no guard of the code reads. The safety theorems below hold
for every value, so the bounds matter only for the temporal properties. In `RuntimeCall` three messages are one
before, one that settles and one after, on each of two streams; the sink's error
can come at each of them. A delegated call treats every question alike, so two
show the loop. In `HttpStream` a line of three pieces can be split twice, a window
of two is smaller than a line, so that writes stall, and a chunk can hold the end
of one line and the start of the next; with up to four lines the end, a late
message and a queue behind a stalled write occur. The queue of `StdioRunner`
holds both turns and the start. Three lines of a child are one before a bad one
and one after it in the same chunk, and three calls of `next()` are two that wait
and one that comes after the end. Requests of five messages hold a turn with two
calls, an output of each and one message more, so that each kind of segment meets each
other; the caps of the text reduction are enumerated through the range in which
the six attempts, the notice and the head and tail compete, and around the smallest
cap with room for long fields. Three handlers are
one that creates, one that shares and one that comes after an end.

`StreamWellFormed` and `AnsweredStreamEnds` are about tools that await one input
at a time. With two awaits at once the code moves the correlation id twice and
the first answer's stream gets no end; with `requestInput` a turn goes on after
the message that ended its stream. Neither is promised anywhere. Two answers in
one tick leave the first one's stream open too, also when the tool awaits one
input at a time: `AnsweredStreamEnds` excepts such an answer (`Overtaken`), and
nothing else but an abort (section 5).
`UnsettledIsHeld` and `InterruptEndsTheTurn` are about careful hosts; with others
the code does lose streams. `BudgetKept` excepts memories with two entries of one
event, `ToolRunsStayWhole` requests whose outputs are not next to their calls,
`CapHolds` caps without room for the shortest head, tail and notice, or with
fields beside the text that take more than three quarters of the cap, and
`ConversationInOrder` and `TurnComesLast` memories of which more than 800 messages
are taken (section 5). `TurnComesLast` lets memory stand behind the last user
message if a system message came during the turn.

Deadlock is checked for the tool loop, where an interrupt can always arrive.
Everywhere else the system really stops: calls, connections and processes end,
and streams, handlers and lines are used up.

Fairness.

- `ToolLoop` (`FairSpec`): callbacks settle (`SetupStep`, `ModelStep`, `ToolEnds`,
  `SaveStep`) and queued microtasks run (`Resolves`). The last is Node's
  guarantee. The first is an assumption on the author's callbacks; without it no
  turn of this code ends. Weak fairness is enough because nothing but its own
  settling disables a callback. `ToolEnds` asks nothing of a tool that awaits an
  input. The host is not fair: it may never answer, interrupt or stop.
- `StdioRunner` (`StdioFairSpec`): the same, and hooks that settle, and the
  promise chain of the queue (`QueueStep`, `Returns`). The host need not write.
- `RuntimeCall` (`FairSpec`): the promise chain runs (`ChainStep`) and the sink
  settles (`SinkSettles`), which the sinks of the transports do; the handler may
  never end.
- `HttpStream` (`HttpFairSpec`): the event loops of both sides run, the connection
  carries what it has room for, the host's sink settles. A write that stalled and
  then lost its connection is not assumed to settle. `StreamEnds` excepts a
  connection that broke, `HostSettles` says what follows then.
- `ChildTransport` (`FairSpec`): events that are due are handled and the timer
  fires. The child need not write, exit or heed SIGTERM.
- `OperationCall` (`OpFairSpec`): callbacks settle, timers fire, an aborted
  `fetch` rejects and a killed command ends. The server may never answer.
- `Delegation` (`FairSpec`): Node runs what follows a settled promise, and the timer
  fires. It assumes nothing of the target resolver, the mappers, the launcher, the
  parent's user and the child, nor that the child's `interrupt` and `stop` or the
  `return()` of its stream ever settle. So `CallEnds` says that the call ends or
  stays for ever in one of the awaits that are no race (`Unraced`), and nowhere else.

The other runs check safety only, of which no fairness is asked.

## 4. What is proved

`ToolLoop_proofs` proves, for any sets of turns, inputs and requests, assuming
only that `NoTurn` is no turn, that turns and inputs differ and that the bounds
are numbers (`NamesAssumption`, `BoundsAssumption`):

- `Invariance`: `Spec => []IInv`;
- `TypeCorrect`, `OneTurnOwnsTheSession`, `PendingInputsAreOwned`,
  `AwaitedInputsAreRegistered`: its conjuncts `TypeOK`, `ActiveTurnRuns`,
  `PendingHasOwner`, `WaitIsAnswerable`, and `InputsAlwaysOwned`, which joins the
  last two;
- `NoExchangeIsLost`: `Spec => []MemoryComplete`.

`IInv` adds to the four properties what makes them inductive.
`AbortedWasAccepted`: a message that is still to arrive cannot have been
aborted, so accepting it makes an unaborted owner. `CallLeft`: a turn in a tool
has a call left, so the counter stays a number. `ResolvesItsOwn`: the entry
about to be resolved is the one registered under its request id or is gone,
because `ToolAwaits` cannot take the id over within the same microtask; without
it `Resolve` could remove another turn's entry and leave that turn's tool
waiting. Each step is one lemma per group of actions that change the same
variables.

`MemoryInv` strengthens `MemoryComplete`: while no aborted turn completed, a
turn that loaded its memory and was not aborted works on what is stored. It
rests on `IInv`: there is one such turn, the active one, and only a completion
changes the store.

`SessionClient_proofs` proves all that the run checks, for any streams, waiters,
ids and turns (`NoneAssumption`, `LimitAssumption`): `ClientTypes` (`TypeOK`),
`HeldOnce` (`HeldIsUnsettled`), `NothingIsLost` (`UnsettledIsHeld`),
`StreamsSound` (`StreamsAreSound`) and `InterruptSettles`
(`InterruptEndsTheTurn`). `IInv` has a part for each group of variables that
change together. `StreamPart` and `WaiterPart` say that an entry stands under an
id that was used, which makes the entry of a careful host's new id replace none,
and that a careful host has one entry for each turn, which makes the one stream an
interrupt's result settles the right one. `DeltaPart` says that the counter of a
stream is the number of deltas pushed to it.

`RuntimeCall_proofs` proves for both kinds of call (`StreamAssumption`,
`CallAssumption`): `CallTypes` (`TypeOK`), `TerminalOnce` (`TerminalIsFinal`),
`InOrder` (`DeliveredInOrder`), `DrainDelivers` (`ResolvedMeansDelivered`),
`ThreadsTerminate` (`ThreadsCallTerminates`), and the refinement
`EmitterRefinesChannel`: `Spec => Emitter!Spec`, every step of the emitter being
a step of `Channel` or a stutter. Its `IInv` says that a terminal message is
emitted only by settling the call, that the sink is called only while it has not
thrown and for a message that is there, and that a threads call is settled when
its handler has ended.

`RuntimeSessions_proofs` proves for any handlers, ids and operations implemented
(`SessionsAssumption`): `SessionTypes` (`TypeOK`), `SessionIsShared`
(`ObjectIsShared`), `EndForgets` (`EndedIsForgotten`), `ForgottenByAnEnd`
(`OnlyAnEndForgets`) and `ForgottenExactly`, which joins the last two. They rest
on `Numbered` (ids of objects are never given out twice) and `OneSession` (an
object stands for one session id), without which deleting by id could not be
related to the object a handler holds.

`Delegation_proofs` proves, for any number of questions
(`DelegationAssumption`), that `IInv` is an invariant of `Delegation`,
and from it `TypeCorrect`, `CallsCleanUp` (`CleanedUp`), `AbortsReachTheChild`
(`AbortReachesChild`), `ValuesAreFinished` (`ValueMeansFinished`),
`OrphansWereAborted` (`OrphanWasAborted`) and `NoChildRemains` (`NoChildIsLeft`).
None of these is inductive alone: each speaks of the end of the call, and `IInv`
says, await by await, what the call knows of the child (`ChildKnown`,
`LaunchAborted`), whether a question or a `next()` is open (`QuestionOpen`,
`NotPulling`), and that timer, interrupt and stop are touched only on the way out
(`ArmedWhileRunning`, `InterruptsAtTheEnd`, `StopsAtTheEnd`).

The rest of `ToolLoop_proofs` is about what the host hears. `StreamsAreWellFormed`
(`StreamWellFormed`) rests on `StreamInv`, which for tools that await one input at
a time says where a turn stands with its stream: it awaits one input at most
(`AwaitsOne`), no two turns speak under one id (`OwnCorrelation`), a stream
that ended belongs to a turn that awaits, was aborted or is over
(`EndedOnlyAwaits`), and an answer under way has a stream that did not end
(`AnswerReopens`). `AbortAlwaysSilences` (`AbortSilences`) and
`RecordLossIsAlwaysReported` (`RecordLossIsReported`) are action properties, proved
step by step from `IInv`. `RunnerAdapter` is the refinement `StdioSpec => Spec`: the
runner drives the adapter through its handlers alone, so every theorem about
`ToolLoop` holds on stdio. With it `QueueHoldsTheTurns` proves `StdioInv`;
`RunnerInv` adds that a start under way is the queue's task and that what a running
turn loaded is what is stored, since nobody else saves before it does.

`ControlsAlwaysAnswered` (`ControlsAreAnswered`) in `RuntimeSessions_proofs` needs
`Flagged`: the flag of a handler's emitter, which makes it swallow what the runtime
answers in the adapter's place, is set only by a message the host was told. It is an
action property: the step in which a handler of controls gets through tells the host
exactly one thing if nothing was told before, and no controls if something was.

`CallCompositions_proofs` proves of an operation (`OperationAssumption`)
`FailuresAreTold` (`OpInv`) and `RunsWhatIsShown` (`ShownIsRun`). Some steps of the
handler tell the host two messages at once, which `RuntimeCall` does one by one; so
its `IInv` is proved again for these steps, and `OpHeld` says, step by step of the
handler, what was settled, what the activity is, what is known of the result and
what was shown. Of a request over HTTP (`HttpAssumption`) it proves
`RequestRunsCall`, the refinement `HttpSpec => Spec` by which the theorems about a
call hold behind HTTP, `LinesStayWhole` (`HttpInv`), and `HttpRefinesChannel`
(`HostIsChannel`), that the whole way from the handler's context to the host's sink
is a channel. The invariant `Held` treats what is in the response, on the
connection and in the reader's buffer as one sequence of pieces that follow each
other (`PiecesInOrder`, `NoneMissing`): a line is complete in the buffer only if it
begins there.

`ChildTransport_proofs` proves, for any number of lines and calls
(`CallsAssumption`, `BoundAssumption`), `LinesArrive` (`ChildInv`) and
`StreamRefinesChannel` (`StreamIsChannel`). `ChildInvariant` is what both rest on:
of the stream, that the calls of `next()` are answered in order, those that wait
are the last, and messages wait only while no call does (`CallsInOrder`,
`WaitersInOrder`); of the transport, that the chunk in hand is what was written
after the lines handled (`LinesHeld`), and that a failure closed it
(`FailureCloses`).

`ContextAssembly_proofs` proves, for any messages, memory, budget, cap and fields
(`ContextConstants`, `InputsAssumption`):

- `OutputsFit` (`CapHolds`): of six caps, each 72 hundredths of the one before less
  8, the last is 1 or at most a fifth of the first less 20 (`LastCap`); if the cap
  has room, what is left of the text then fits (`LastFits`), so the least attempt
  that fits exists. The invariant (`Reduced`) carries this from segment to segment.
- `NewestAlwaysFirst` (`NewestFirst`) and `ChargesFitTheBudget`: while segments are
  chosen, `used` is the cost of what was taken, all of it pinned or no older than
  anything that waits (`Charged`). So what is dropped next is compared with just
  what is no older, and what is taken later only adds to the cost.

Both need to sum: `SumTakes` and `CostGrows` say that a sum does not depend on the
order in which `FoldFunction` takes the values. They, and that a finite set of
segments has a newest one, are proved by looking at a smallest set for which the
claim fails (`LeastNat`, `SmallestSet`).

The other three are about the assembled request:

- `BudgetAlwaysKept` (`BudgetKept`): it costs what was charged;
- `TurnAlwaysLast` (`TurnStaysLast`): it holds the turn in progress, to the letter
  where need be, and ends with it, and the conversation keeps its order;
- `RunsAlwaysWhole` (`ToolRunsStayWhole`): no output is torn from its call.

They rest on `IInv`, which adds three parts to the invariant of the first two (`Held`).
`CutUp` says what the segments are made of: those of the memory stand first, and
each of the others is a run of messages of the request, from its start (`Start`) to
its end (`EndOf`), unchanged but for what a cut leaves of a summary or of an output
that need not be exact (`Carries`); together they are the messages read so far, each
in one segment. `PutTogether` says that the ids selected are those of the segments
taken, and that what was assembled is made of them. `Ranges` keeps the loops within
their sequences.

From there every message of the assembled request is followed back to the message of
the request, or of the memory, that it stands for:

- `LinedUp`: the segments that go out are the chosen ones, each once, in the order
  of `Precedes`, because a rank among finitely many is a place of its own (`Places1`).
- `MessagesSpread`: message p of the k-th segment stands at a place that is the sum
  of the lengths before it, and nothing else stands in the flattened sequence;
  `TokensSpread`: it costs the sum of what the segments cost.
- `SendsIs`, `SendsOnce`, `HeldIsSent`: message i goes to one place at most, two
  messages to two places, and every message of a chosen segment to one. With it the
  turn in progress is counted (`TurnStays`: an injection from the request into
  what was assembled) and the calls of the assembled request are those of the
  request, each once.
- `NeverPasses`, `MemoryIsOlder`: two messages of the conversation go out in the order
  they came in, and no memory stands behind a message that is newer than all system
  messages, since a segment's order is at least a thousand times its index and less
  than a thousand more (`IndexBounds`). So the messages behind one of the turn are,
  one for one, those that were behind it in the request (`TurnEnds`, a bijection),
  and the answers behind the last user message are answers to it (`AnswersAreNew`).
- `AssembledCosts`: when ids differ, the places and the segments taken are in
  one-to-one correspondence, and a sum does not change under it (`SumMoves`).
- `NoOrphans`: in a request whose outputs stand next to their calls no segment
  starts with an output. The run of calls in front of it starts with its segment
  (`RunStartsAnew`), so it takes every output up to this one (`RunTakesOutputs`),
  and a message is in one segment only (`HeldOnce`).

An attempt to prove `CapHolds` showed that it needs more than a cap above the
shortest form: with fields beside the text that take most of the cap, six attempts
are not enough (section 5). `CapHasRoom` and the inputs with long fields come from
there.
An attempt to prove where the memory stands showed the limit of 800 remembered
messages (`MemoryFits`).

Only model-checked:

- everything temporal, as the prover handles neither fairness nor ENABLED:
  `EveryTurnEnds`, `AnsweredStreamEnds`, `CallEnds`, `HostLearnsTheEnd`,
  `RunnerMoves`, `AwaitedEndIsTold`, `GroupDies`, `TimedCallEnds`.

## 5. What the model shows about the code

`interrupt_during_save`: the handler checks the abort signal for the last time
when the model's answer arrives. If the interrupt comes while `memory.save`
runs, the host gets `session.interrupt.result` with status `interrupted`, then
`reply` is suppressed, and then `session.completed` is emitted anyway
(`sdk-core/src/index.ts:2214`). The interrupt tests assert that an interrupted
turn emits no `session.completed`
(`tests/sdk-core-tool-loop-interrupt.test.mjs:212`). The exchange is saved as
well, which is why `MemoryComplete` excepts runs in which that happens: the
late save may overwrite what the next turn stored. On stdio it cannot, since the
next turn waits for the end of the interrupted one: `MemoryExact` has no
exception.

What the properties except, or what the models show without a run of its own:

- `PROTOCOL.md:348` says that an invocation must terminate with exactly one of
  `invoke.completed`, `invoke.failed` and `invoke.cancelled`. The runtime emits
  none for a handler that returns nothing and settled nothing
  (`sdk-core/src/index.ts:666`); threads calls complete by themselves in that case
  (`ThreadsCallTerminates`), and `FailureIsTold` excepts an operation whose output
  callback returns nothing.
- The README of `delegation` says that ephemeral child sessions are stopped in
  cleanup (`README.md:53`). An abort or a timeout during `launcher.launch` makes the
  call give up its promise (`delegation/src/index.ts:231`); a launcher that does not
  honour the signal itself then delivers a session that nobody stops. `launch` is
  also called when the signal was aborted just before. `OrphanWasAborted` shows
  that this is the only way to lose a child.
- The same README says that parent abort and timeout are propagated to the child's
  `interrupt` (`README.md:52`). The call first closes the child's stream and waits
  for that (`delegation/src/index.ts:454`). Where the stream is an async generator,
  `return()` waits for the pending `next()`, so a silent child is neither interrupted
  nor stopped and the call outlives its timeout. Streams of the session client have
  no `return` and are not affected. `interrupt` (`delegation/src/index.ts:202`) and
  `stop` (`delegation/src/index.ts:272`) are awaited without a race and without a
  timeout too: a child that leaves one unanswered keeps the call. `CallEnds` shows
  that these three awaits are the only places where a call can stay. Within
  `Delegation.Await` one detail is left out: with a signal that is aborted already,
  `withAbort` throws before it has attached a handler to the promise it was given
  (`delegation/src/index.ts:669`), so a later rejection of that promise is unhandled.
- Two answers to one turn in the same tick both move its correlation id
  (`sdk-core/src/index.ts:2248`) before the first is resolved
  (`sdk-core/src/index.ts:2256`): the host is told `resolved` for both, the turn goes
  on under the second one's id, and the stream of the first gets no end.
- An HTTP operation whose error response does not parse as it says loses the status
  with the exception of the parser (`sdk-http/src/index.ts:239`; the tests parse
  error bodies that are well formed, `tests/sdk-http.test.mjs:80`).
  `FailureShowsAnswer` is therefore about commands.
- A `session.message` refused because the session is busy deletes the record of the
  session, so the turns after it find no `providerRef`, `threadRef` or state. The
  table knows a session by its id alone, so a late handler forgets whatever the id
  stands for by then.
- A wait that a tool abandons keeps its request id taken for the rest of the session.
- A write of the HTTP server that returned false has no drain event to come once the
  connection is lost (`transport-http/src/index.ts:301`): if Node.js calls its
  callback without an error nothing settles it and the handler's chain stands.
- The chunks of a request's body are decoded one by one
  (`transport-http/src/index.ts:215`), so a character split over two is garbled.
- The child's stdin has no error listener (`child-process.ts:186`): a write to a child
  that is gone raises an error event nobody handles. A clean exit is a failure of the
  transport, and what of the child's output was not read by then is lost
  (`child-process.ts:172`).
- An output of the turn in progress may stay over its cap: its text is shortened
  against smaller caps, six times (`context-assembler/src/assembler.ts:724`), but the
  estimate counts its tool's name, call id and input too. When those take more than
  three quarters of the cap, or the cap is below the shortest head and tail with
  their notice, the last attempt is sent as it is. `CapHasRoom` is the cap for which
  six are enough.
- Segment ids of remembered messages come from event ids
  (`context-assembler/src/assembler.ts:457`): of two entries of one event, keeping one
  keeps both, the second uncharged. Remembered messages are ordered in thousandths
  of an index, and there is room for 800 (`context-assembler/src/assembler.ts:459`): more
  of them stand behind the first message of the request that follows. The memory
  goes where the last system message stood (`context-assembler/src/assembler.ts:430`):
  with a system message in the middle of the conversation it comes after messages that
  are newer, and with one during the turn it stands behind the user message it should
  precede. `ConversationInOrder` says where it stands, `TurnComesLast` when it stays
  out of the turn.

## 6. Not modelled

- The protocol package: types, and pure predicates that say whether a value has the
  shape of a message. Where a message does not validate, the modules that receive it
  take the error path.
- The contents of messages, the wording of errors, activities and logs.
- The JSON reducer's sampling of a value, the provider profiles of the validation,
  and the report of the assembler: computations over the contents of messages that
  decide no step modelled here.
- Writes to a child's stdin, runtimes without `handleStream`, and message handlers of
  the runtime that emit one message and keep no state (`describe`, `account`,
  `events`).
- Some details of what is modelled. The preview of an HTTP operation shows its method
  and URL only (`sdk-http/src/index.ts:262`) and a command's `displayCommand` may show
  another text than the command's (`sdk-cli/src/index.ts:307`): the model counts the
  whole request and the arguments as shown. A summary is cut only if its text is
  longer than four characters a token of its cap, and a little more than the cap is
  left (`context-assembler/src/assembler.ts:403`, `:1289`): one constant stands for
  both. An HTTP request whose URL does not parse rejects the handler without a response
  (`transport-http/src/index.ts:61`, outside the `try`).
- The test host and the examples.
