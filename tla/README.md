# Testurio in TLA+

Testurio (`src/`) is a TypeScript framework for end-to-end tests of distributed systems: a test
scenario starts mock servers, proxies, clients, message-queue adapters and data sources, runs
test cases on them, some in parallel, and takes everything down again.  All of it runs on one
Node.js event loop.  Nothing is preempted, but every `await` is a point where other test cases,
timers, sockets and broker callbacks go on, and nearly everything that can go wrong goes wrong
between two awaits.

The modules here model the code between two awaits as one atomic action and let TLC interleave
the actions; the theorems are checked by TLAPS.  Line numbers refer to `src/`.

To check: `tlc -config MCScenario_parallel.cfg MCScenario`, `tlapm ScenarioProofs.tla`, and so on;
PROJECT.json lists the runs with their modules and configurations, and for every definition the
source lines it models.

## 1. Inventory

`core/` is `packages/core/src/`.  "Modelled" names the module; the last column is what makes the
component correct.

| Component | State it keeps | Operations | Modelled | Must hold |
|---|---|---|---|---|
| Scenario execution: `core/execution/` | map of components, `initialized`, results; per test case its builder, pending components, steps | `run`, `runInit`, `runStop`, `startComponents`, `stopComponents`, `executeTestCase`, `executeSteps` (register, Phase 1.5, execute, clear) | Scenario | nothing left running; a test case's hooks, components and errors are its own; `run()` returns |
| Component base: `core/components/base/` | component state, hooks, pending deferreds, `unhandledErrors` | `start`, `stop`, `registerHook`, `clearHooks`, `awaitHook`, `resolveHook`, `rejectHook`, `executeHandlers` | Scenario (state, hooks, errors), ComponentHooks (hooks, waits), Handlers | no lost or doubled resolution; a timeout ends every wait |
| Subscriber: `core/components/subscriber/` | one entry per test case (adapter, topics), creations in flight, topics derived from hooks, `_isStopping` | auto-subscribe, `onMessage`, `waitMessage`, `subscribe`, `unsubscribe`, the adapter callbacks, `clearHooks`, `doStop` | Subscriber | one adapter per test case, gone when the component stops; waits end |
| AsyncServer: `core/components/async-server/` | connections, links in both directions, consumed connection hooks, disconnect handlers, client and backend pairs | new connections, messages, events, `onClose` of both sides, steps by link, `doStop` | AsyncServer (connections, links, proxy), AsyncServerSteps (steps and hooks) | nothing lost or reordered by the proxy; links name live connections; waits end |
| AsyncClient: `core/components/async-client/` | connection, hooks | connect, disconnect, messages, events, `waitEvent`, `waitDisconnect` | AsyncClient | the loss of a connection ends the waits on it; `stop` closes |
| Client and retry: `core/components/sync-client/`, `base/retry.ts` | hooks, requests in flight | request (fire-and-forget or polled), `onResponse`, `waitResponse`, the retry loop | SyncClient | waits end with their request; the loop ends within its budget |
| Server: `core/components/sync-server/` | hooks, server and client adapter | requests, proxying, `waitRequest`, `doStart`, `doStop` | SyncServer | every request taken is answered once, also when stop comes |
| HTTP: `core/protocols/http/` | routes noted, routes compiled, requests under way | register, compile, match, answer | HttpRoutes, SyncServer | params are those of the path of the hook |
| Handlers of all components: `*.hook-builder.ts`, `executeHandlers`, `executeServerHandlers`, `validation/` | the chain of a step, recorded assertions | assert, transform, drop, mock, proxy, timeout, delay, validate | Handlers | a wait that passed was asserted; values go on as made; failures are told |
| Publisher and the publisher adapters | adapter, batches being encoded or confirmed | `publish`, `publishBatch`, start, stop | Publisher | a step that passed was accepted whole, in order |
| DataSource and its adapters (PostgreSQL, MongoDB, ClickHouse, Redis) | native client, its flags | `init`, `dispose`, `exec` with retry and deadline | DataSource | clients are released, and not while a step awaits the callback that has them |
| Kafka subscriber: `adapter-kafka/src/kafka.subscriber.adapter.ts` | consumer, topics known, active, with their parameters | `subscribe` with restart, `unsubscribe`, message filter, crash and disconnect listeners, `close` | KafkaSubscriber | one group member; active topics delivered; offsets kept; `close` releases |
| RabbitMQ subscriber | channel, queue, patterns held | `subscribe`, `unsubscribe`, messages, acks, `close` | RabbitSubscriber | patterns held are bound; a message is handed once under a pattern it matches |
| Redis subscriber | client, channels or patterns held | the same | RedisSubscriber | what is held is subscribed; `close` quits the client |
| Adapter factories | lists of adapters, shared connection or client | `createPublisher`, `createSubscriber`, `dispose` | MQAdapters | `dispose` closes what was opened |
| Codecs: `codec-protobuf/`, `core/codecs/` | bindings with their matchers | encode, decode | Codecs | decoded as encoded |
| TCP: `protocol-tcp/` | receive buffer, sockets, adapters | connect, send, framing, close, stop | TcpFraming, TcpTransport | frames do not depend on how chunks fall; the end is told |
| WebSocket: `protocol-ws/` | sockets, connections | the same | WsTransport | the same |
| gRPC streams and unary calls: `protocol-grpc/` | calls, connections | the same | GrpcTransport; SyncServer for unary calls | the same |
| Reporters: `core/recording/reporter.ts`, `reporter-allure/` | current steps, result files | the callbacks of a run | Reporting | files tell the results of their own test case |
| `expect()`: `base/expect/` | none; the pairs under comparison | toEqual, toStrictEqual, toMatchObject, diff | Expect | holds or shows a difference as equality says |
| InteractionRecorder, AssertionCollector | interactions | record | no: nothing in the framework calls them | |
| CLI generators: `packages/cli/` | none | conversion of schemas to source text | no: a batch conversion | |

How they interact: TestScenario calls `start`, `stop`, `registerHook`, `afterHooksRegistered`,
`executeStep`, `clearHooks` and `getUnhandledErrors` of every component; components call the
adapters and get callbacks (`onMessage`, `onClose`, `onError`, `onDisconnect`) at any time, from
the test case executing, from an earlier one or from nobody's.  Test cases of different groups
share the components and the component map and nothing else.

What is hard: components shared by parallel test cases whose cleanup contains awaits;
`Promise.all` and `Promise.allSettled`, which reject with the first failure or wait for the last;
start and stop that fail, hang or are called in the wrong state; state read before an await and
used after it (adapters being created, backends being connected, consumers being replaced,
messages being encoded or decoded); `close()` that only asks for an end that is reported later; handlers of
one message awaited while the next one arrives; errors collected by the wrong test case.
PROJECT.json lists each of these at its line ("hazards") with the properties for it.

## 2. The modules

A component's module is parameterised by CONSTANTS, with a named ASSUME where there is something
to assume, and has one type invariant, one action per piece of code between two awaits and its
properties at its end.  `MC*` modules instantiate them with the programs, hooks and groups of the
instances; the `.cfg` files choose among those.

| Module | Models | Checked through | Proofs |
|---|---|---|---|
| `Scenario` | `TestScenario.run()`: life cycle, groups, test cases, hooks, errors | `MCScenario` | `ScenarioProofs` |
| `Subscriber` | the message-queue subscriber under several test cases and `stop()` | `MCSubscriber` | `SubscriberProofs` |
| `AsyncServer` | connections, links and proxying | `MCAsyncServer` | `AsyncServerProofs` |
| `ComponentHooks` | what the step-executing components share; extended by the next four, Publisher and DataSource | | |
| `AsyncClient`, `SyncClient`, `SyncServer`, `AsyncServerSteps` | the steps of the four protocol components | | |
| `Steps` | one of these four with its test cases | `MCSteps` | `StepsProofs` |
| `Handlers` | chains of handlers on the messages of a step, for all six components with handlers | `MCResults` | `ResultsProofs` |
| `HttpRoutes`, `DataSource` | routes of an HTTP Server; data sources | | |
| `Results` | one of these three | `MCResults` | `ResultsProofs` |
| `AsyncTransport` | the abstract transport: what arrives at each end is in order, once, and not after its `onClose`; decoding hands it on at once or, when it is awaited, later | | |
| `TcpTransport` (with `TcpFraming`), `WsTransport`, `GrpcTransport` | the three transports, which implement it | | |
| `Transports` | one of these three with the codec of its adapter, and its mapping to `AsyncTransport` | `MCTransports` | `TransportsProofs` |
| `KafkaSubscriber`, `RabbitSubscriber`, `RedisSubscriber`, `Publisher`, `MQAdapters`, `Codecs` | the brokers' adapters, their factories, the codecs | `MCKafkaSubscriber` | |
| `Brokers` | one of these with its callers | `MCBrokers` | `BrokersProofs` |
| `Reporting` | the callbacks of the reporters, and the files AllureReporter writes | `MCReports` | `ReportingProofs` |
| `Expect` | deep comparison | `MCReports` | |

The modules describe neighbouring layers.  Scenario's `DoStartOk`, `DoStopOk`, `HandlerBegins`
stand for any component; `ComponentHooks` follows the same `executeSteps` from the side of one
component.  The calls `CreateOk`, `SubscribeOk`, `CloseEnds` of Subscriber are the `call`s of the
three broker adapters.  The sockets of AsyncServer, AsyncServerSteps and AsyncClient are
`AsyncTransport`s, and `Transports` shows that TCP, WebSocket and gRPC streams implement it.
Which hook takes a message is decided in the components' modules, what its handlers do with it in
Handlers.  `Steps`, `Transports`, `Brokers`, `Results` and `MCReports` choose one of their components in
the initial state, and each behaviour is one of that component alone; variables of one name play
the same part, and those of the others are absent.

Definitions under a comment `\* fault:` and those that no `Next` uses but that stand beside the
one they vary are no part of a model: each is a plausible mistake (a dropped guard, a missing
await, a map not updated) and is the mutant of a property: with it in place TLC finds the property
violated.

### Scenario

State: `phase` and `at` follow `run()` through start, tests and stop; `cst` is every component's
`state`; `pc[t]` follows `executeTestCase` and `executeSteps` of each test case; `hooks` and
`errs` are each component's `hooks` and `unhandledErrors`, reduced to the test case they belong
to; `registered` is the key set of the component map all builders share; `pending` and `own` are
the components a body passed to `use()`.

- `BeginRun`, `InitHandlerThrows`, `RunAgain`: `run()` and `runInit`, which returns at once when
  `initialized` is still set.  `StartNext` .. `InitPendingSettled`: `startComponents` (non-network
  components and Servers one by one, Clients in parallel) and the components of the init handler.
- `ExecuteTestCase`, `BuildThrows`: clearing all errors, building the test case;
  `StartPending`, `PendingSettled`: its own components; `RegisterHooks` .. `Phase3Done`: the
  phases of `executeSteps`, whose last one runs in a `finally`; `CollectErrors`: the verdict;
  `CleanupNext` .. `FinishTestCase`: its components stopped, hooks cleared again, reporters told.
- `HandlerBegins`, `HandlerPasses`, `HandlerFails`: a hook's handlers run while anything else does.
- A hook of `hooks` is its test case with the step that waits on it, or 0 for the hooks no step
  waits on.  `WaitBegins`, `WaitEnds`: a wait step takes its own hook out in its `finally`, while the
  test case executes (subscriber.component.ts:378-382, async-client.component.ts:251-255).
  `rejectHook` takes out the hook of a wait, too: `HandlerDrops` when a handler of its own fails,
  `RejectWaits` when a component in `Lossy` loses its connection (or request), for the waits of all
  test cases on it.
- `TestsEnd`: `Promise.all` over the groups, which rejects with the first group that throws while
  the other groups go on; `StopClients` .. `StopTimeout`: `stopComponents` with its one-second
  limit per component; `StopHandlerThrows`; `EndRun`.

### Subscriber

State: `entry`, `topics` are the `subscribers` map, `ast` the adapter of a test case as its owner
and as the broker see it, `call` the adapter call in flight (`create` is a promise of
`_materializing`), `hooks`, `resolved`, `rejected` the hooks with their deferreds.  A hook is
named by its test case and step.  The steps are made as `SubscriberStepBuilder` makes them
(`waitMessage(topic)`, `subscribe(topics)`, ...) and executed by the `Execute...` actions;
callbacks are `HandleMessage`, `HandleAdapterError`, `HandleAdapterDisconnect`; `ClearHooks` is
called twice, by `executeSteps` and by `executeTestCase`; `DoStop`, `StopDrained`, `StopClosed` are
the pieces of `doStop`.  `OtherComponentFails` is `Promise.all` in Phase 1.5 rejecting because of
another component, which leaves this one's call running.

### AsyncServer and AsyncServerSteps

AsyncServer: `client` and `backend` are the sockets of a pair as the process sees them ("closing"
from `close()` until `onClose`), `ready` the pair's deferred, `conns`, `pairs`, `linkTo`, `linkOf`,
`consumed`, `watching` the maps of the component, `fate` what became of each message of a client.
Resolving `ready` runs the continuations of all messages awaiting it before any other event, so
that is one action (`BackendConnected`).  Messages have one of four hooks: none, inspecting,
proxy, drop.

AsyncServerSteps has the other half: hooks registered and cleared while connections come and go,
`handling` the messages whose handlers run, `claim` which hook took which message, and the steps by
link.  The socket's `fate` of a proxied message is AsyncServer's.

### ComponentHooks and the steps

`ComponentHooks` has one component's `cst`, `hooks`, `resolved`, `rejected`, and per test case `pc`
and `at`: `RegisterHooks` (Phase 1), the steps, whose waits begin with `WaitBegins` (which fails a
strict wait that was resolved before) and end by resolution, rejection or timeout, `ClearHooks`
(Phase 3).  AsyncClient adds connections numbered in the order of `createClient`; SyncClient adds
requests under way (`flying`) and the polls of `runWithRetry` in units of time (`left`, `sleeping`,
`spent`); SyncServer adds requests from "new" to "answered" and the stop of both adapters.

### Handlers

`chain` is `step.handlers`.  A message comes as `ClientMessage`, `ServerRequest`, `AsyncServerMessage`,
`BackendEvent`, `Response` or `ExecResult`, takes one action per handler (`Assert`, `Transform`,
`Drop`, `Validate`, ...) and comes to an end that depends on the component and the step:
`ServerPasses`, `AsyncServerPasses`, `EventPasses`, `ServerThrows`, `StepEnds`, `HookEnds`.  `executeHandlers` and `executeServerHandlers` differ in what
a handler's null, undefined and response mean; both are operators here.  Handlers are user
functions, so every result is possible; other messages take their steps in between.

### Transports

An action is one callback of a Node socket or one call of a component.  TCP carries bytes, cut
anywhere, through the frames of `TcpFraming` (length prefix or delimiter); WebSocket carries frames
and a closing handshake; a gRPC stream ends per direction.  `sent` is what an end wrote, `got` what
arrived at it; `Transports` maps these, `closed` and what codecs make of them to AsyncTransport;
`Contract` is AsyncTransport's `Spec`: the refinement.

The adapters of TCP and WebSocket await their codec (tcp.adapters.ts:191-196, 270-294;
ws.adapters.ts:153-180, 244-259).  `codec` is "default" or "custom".  With the JSON codec the await
takes microtasks only, and what arrives is handed to `onMessage` in the same action (`Arrivals`).
A custom codec may return any Promise (codec.types.ts:85, 99): `send` checks `isConnected` and
begins to encode, `Encoded` writes later, whatever happened to the connection, or nothing comes of
it (`EncodedInVain`); `Decoded` hands a message on, or tells `onError`, at any time, in any order
and also after `onClose`, since nothing queues what is being decoded.  `handed` are the positions of
`got` that `onMessage` was called with.

AsyncServer and AsyncClient are modelled on transports with the default codec.

### Brokers

KafkaSubscriber: a restart is `ConsumerDisconnected`, `ConsumerConnected`, `ActiveReplayed`,
`NewSubscribed`, `Joined`; any of them may fail, the join by its timeout.  Listeners belong to the
consumer that was there when they were registered, the first one.  RabbitSubscriber: topics are
patterns of words, `broker` the bindings; `matchesPattern` is the adapter's own matching.  RedisSubscriber:
the client reconnects and subscribes again by itself.  Publisher: a batch is encoded message by
message or all at once, and confirmed by the broker or not, as each adapter does it.  MQAdapters:
creators are calls of `create...`; `dispose` goes through its lists step by step, for Kafka's
subscribers all at once and whatever becomes of each (`Promise.allSettled`, kafka.adapter.ts:171).
What Kafka's `close()` does is KafkaSubscriber's, in short: after a restart (`Restarted`) it
disconnects nothing, and a `disconnect()` that rejects leaves the consumer connected (`refused`) and
the adapter in its list.  Codecs: a message
is the type it was encoded with; `lastIndex` is the state a global RegExp keeps.

### Results and reports

DataSource: `alive` are the native clients that hold sockets, `current` the adapter's, `loop` the
attempts of each exec; `withTimeout` ends the step and leaves the loop as it is.  HttpRoutes: `routes` of the protocol and `compiled` of the adapter; `Picked`
is what `filter` leaves of a sequence.
Reporting: `metadata` stamped on steps, `results` of `executeSteps`, `allure` the state of
AllureReporter, `files` what it wrote.  Expect: a `heap` of objects that may share parts and hold
themselves; the guard against cycles is a set of pairs.

## 3. What the runs check

Passing runs:

| Run | Instance | Shows |
|---|---|---|
| `scenario_sequential` | one group of two test cases, one brings a component; traffic on the server; starts, stops, reporters and the stop handler may fail; `run()` called twice | `TypeOK`; `ErrorsFailTheirTest`: a handler failing under an executing test case fails that test case |
| `scenario_parallel` | two groups, three test cases, a data source whose stop may hang, two servers, a client, a component of a test case and one of the init handler; starts, stops, reporters may fail; fairness | `HooksScoped`, `HooksLostOnlyByOwner`: hooks live and die with their test case, whatever the others do, but for those of waits, which also go with their wait or when a failing handler or a lost connection rejects them; `UsedComponentsUp`; `DynamicCleanedUp`; `NothingLeftRunning`; `RunEnds` |
| `subscriber_stop` | two test cases (two waits for overlapping topics; subscribe, unsubscribe, subscribe), failing calls, an abort, disconnects, two messages, `stop()` at any moment | `TypeOK`; `StoppedClean`: no adapter survives `stop()`; `OneLiveAdapter`; `WaitersSettled` |
| `subscriber_live` | a wait against subscribe and unsubscribe, one of them may be aborted; fairness | `StopAndTestsEnd` |
| `async_server` | a proxied connection with four messages (two plain, proxy, drop), backends and clients that fail or leave at any moment; and a mock server with three connections, two contending onConnection hooks, a waitConnection hook, three waitDisconnect hooks | `BackendLossCloses`, `NothingLost`, `ForwardedInOrder`; `LinksLive`, `LinkPartingTold` |
| `transports` | TCP with both framings, WebSocket, gRPC: one connection, two messages from the client and one from the server, of one and two bytes, cut anywhere; the default codec and one that is awaited, whose calls may fail; send, close, failure and stop at any moment; fairness of callbacks and of codecs | `Contract` (the refinement of AsyncTransport), `Delivered`, `PeerTold`, `StopEnds` |
| `steps` | AsyncClient, Client, Server, proxy Server, AsyncServer, each with its pairs of programs of two parallel test cases; failures everywhere; fairness | `WaitsTold`, `RetryInBudget`, `StopReleases`, `TestsEnd`, `AnswersCome` |
| `brokers` | Kafka twice (topics come and go; explicit topics that stay), RabbitMQ, Redis, publishers of the three, factories of the three with two creators, for RabbitMQ one after the other, codecs with two bindings; failures, losses, `close()` and `dispose()` at any moment, a Kafka consumer replaced before or refusing its disconnect; fairness of calls | `HeldIsDelivered`, `RightMessages`, `PublishedWhole`, `Releases`, `CallsSettle` |
| `results` | every step of every component with every chain of up to three handlers (and a second message where the chain has one); three routes over two runs with two test cases; the four data sources over two starts with retries and deadlines | `PassedMeansAsserted`, `GoesOnAsMade`, `FailuresTold`; `ParamsAsDeclared`; `ClientsReleased`; `AttemptsAwaited`: a callback is called only for a step that waits for it, on a client that lives, or for a test case that failed |
| `reports` | two test cases in sequence or in parallel, of two steps, or of one step with another reporter before or after that may throw from any callback, or one test case in two runs with the same reporters; every heap of three objects of the kinds compared, for three matchers | `Reported`: what the result files and the container say is what `run()` found; `ExpectTells` |

Violated as the code stands:

| Run | Property | What happens |
|---|---|---|
| `kafka_leak` | `CloseReleases` | after a restart `close()` disconnects nothing (kafka.subscriber.adapter.ts:370) |
| `http_params` | `ParamsPopulated` | a hook of a test case notes its route after the adapter compiled the routes, and its handler gets no params, or another route's (http.adapters.ts:33, http.protocol.ts:134) |

Section 5 lists the other places where the code does not keep what it says.

### Bounds, and why they are enough

- Two groups and three test cases give every pair of a test case with a predecessor, a successor
  and a parallel one; the properties speak of pairs of test cases and of one component.
- Two restarts (three consumers) let a restart replay what a restart replayed, and make the
  consumer that listeners know differ from both the last and the current one.
- Four messages let two plain messages surround handled ones, before and after the backend is up.
- Connections of a transport share the server's stop and nothing else, so one connection with all
  the ways to part from the server is enough.  A frame of one byte and one of two, cut at every
  byte, give every way a length field, a delimiter or a payload can be split; the width of a length
  field is arithmetic of `readLength`, which is defined for every width.
- In `steps` two test cases of up to four steps on one component: waits of one type in one test
  case, in two, strict or not.  Two connections are one reconnect.
- Chains of three handlers hold a handler that changes a value, one that ends the chain early, and
  an assertion on either side; the second message meets what the first left of the hook, and comes to
  chains of one handler only (`Second`).
- In `scenario_parallel` one step of two parallel test cases waits on the client, whose connection may
  be lost; in `scenario_sequential` one waits on the server whose handlers fail.  `Waits` and `Lossy`
  say so; what a hook's removal can do to another test case needs two test cases and one wait.
- Two messages of one end are in decoding or encoding at once, which is what overtaking needs; gRPC
  streams have no codec.
- Two creators share or do not share a connection; two bindings are one asked before the other.
- `MaxRuns`, `MaxMsgs`, `MaxMessages`, `MaxEvents`, `MaxConns`, `MaxConsumers`, `MaxStarts`,
  `MaxTook`, `MaxChain`, `MaxBindings`, `MaxCalls`, `NSteps`, `Busy`, `prefetch`, `MAX_DEPTH` (the
  code's own) and the sets `Flaky...`, `Hanging`, `Lossy`, `Waits`, `Aborts`, `Cases`, `Second`,
  `Codecs`, `Overlapping` are the only bounds, all
  CONSTANTS.  Data (payloads, headers, topics' contents) is reduced to identities.
- `CHECK_DEADLOCK FALSE` everywhere: after `run()`, `stop()`, `close()` or the last message the
  system has come to its end and rests.

### Fairness, and why the code justifies it

Weak fairness is assumed only for what the process or its timers do on their own: continuations
that are ready run (the event loop); calls of a client library end, since they settle or the code
races them with a timer (`awaitHook`, the join timeout); sockets that were closed report their end
and deliver what has arrived; the promises of a custom codec settle one way or the other
(`CodecSettles`), which `Delivered` relies on.  Nothing is assumed of clients, brokers or
test bodies: no message has to come, no connection to end by itself, no callback of exec to
settle.  A poll whose interval is zero is assumed to take time in the end, since the loop's only
clock is what its attempts take (`SyncClient!Progress`).  `Results` assumes none at all: what it checks are invariants.  In Scenario no fairness is assumed for
`stop()` of the components in `Hanging`: `stopComponents` has its own timeout for them.  For
components a test case brought in there is none (test-scenario.ts:310-319), so `Hanging` is limited
to configured ones; `run()` does hang when such a component's `stop()` does.

## 4. What is proved

TLAPS checks these for every value of the constants that satisfies the module's ASSUME:

| Theorem | States |
|---|---|
| `SubscriberProofs!TypeCorrect` | `Spec => []TypeOK` |
| `SubscriberProofs!StopLeavesNothing` | `Spec => []StoppedClean` |
| `SubscriberProofs!AdapterUnique` | `Spec => OneLiveAdapter` |
| `ScenarioProofs!ScenarioTypeCorrect` | `Spec => []TypeOK` |
| `ScenarioProofs!HooksAlwaysScoped` | `Spec => []HooksScoped` |
| `ScenarioProofs!HooksKept` | `Spec => HooksLostOnlyByOwner` |
| `ResultsProofs!HandlersTypeCorrect` | `Spec => []TypeOK` |
| `ResultsProofs!PassedStepsAsserted` | `Spec => []PassedMeansAsserted` |
| `ResultsProofs!ValuesGoOnAsMade` | `Spec => []GoesOnAsMade` |
| `ResultsProofs!FailuresAlwaysTold` | `Spec => []FailuresTold` |
| `AsyncServerProofs!AsyncServerTypeCorrect` | `Spec => []TypeOK` |
| `AsyncServerProofs!LostBackendCloses` | `Spec => []BackendLossCloses` |
| `AsyncServerProofs!ProxyLosesNothing` | `Spec => []NothingLost` |
| `AsyncServerProofs!ProxyKeepsOrder` | `Spec => []ForwardedInOrder` |
| `AsyncServerProofs!LinksStayLive` | `OneLinkEach` implies `Spec => []LinksLive` |
| `AsyncServerProofs!PartingAlwaysTold` | `OneLinkEach` implies `Spec => PartingTold` |
| `SubscriberProofs!WaitsRejected` | `WaitsSubscribed` implies `Spec => []WaitersSettled` |
| `ScenarioProofs!RunStopsComponents` | `StopsAll` implies `Spec => []NothingLeftRunning` |
| `ScenarioProofs!ErrorsDecide` | `OneGroup` implies `Spec => []ErrorsFailTheirTest` |
| `ScenarioProofs!UsedStayUp` | `OwnComponents` implies `Spec => []UsedComponentsUp` |
| `ScenarioProofs!ConfiguredStayUp` | the part of `UsedComponentsUp` about configured components, for any number of runs and without hypothesis |
| `ScenarioProofs!BroughtGoDown` | `OwnComponents` and `FlakyAlone` imply `Spec => []DynamicCleanedUp` |
| `TransportsProofs!KeepsContract` | `Separable` (TCP) and `~EarlyGreeting` (WebSocket) imply `Spec => Contract` (the refinement) |
| `StepsProofs!WaitsAreTold` | `Spec => []WaitsTold` |
| `StepsProofs!PollsKeepBudget` | `Spec => []RetryInBudget` |
| `StepsProofs!StoppedReleases` | `OneConnects` implies `Spec => []StopReleases` |
| `StepsProofs!ProxyForwards` | the proxy's part of `StopReleases`, without hypothesis |
| `BrokersProofs!HeldDelivered` | `Spec => []HeldIsDelivered` |
| `BrokersProofs!MessagesRight` | `Spec => []RightMessages` |
| `BrokersProofs!BatchesWhole` | the part `PassedIsAccepted` of `PublishedWhole`, without hypothesis |
| `BrokersProofs!BatchesInOrder` | `InOrderEncoded` implies `Spec => []PublishedWhole` |
| `BrokersProofs!DisposeReleasesAll` | `OneConnection` implies `Spec => []Releases` |
| `ResultsProofs!ParamsRight` | `ResultsSpec => []ParamsAsDeclared` |
| `ResultsProofs!SourceReleases` | `ResultsSpec => []ClientsReleased` |
| `ResultsProofs!CallbacksAwaited` | `ResultsSpec => []AttemptsAwaited` |
| `ReportingProofs!FilesTellResults` | `Spec => []Reported` |

`StoppedClean` speaks of the stopped component only and is not inductive.  `StopInv` adds what
the code relies on: an open adapter has an entry, a creation is a call in flight, an adapter that
is closing without an entry is awaited by its test case, and from the moment the drain is over
none is open or being created.  That last part is kept by `CreateOk` because the drain waits for
the creations in flight, and by `AddTopics` because `_isStopping` refuses new ones.

Scenario's `TypeOK` is inductive with two additions (`TypeInv`): the index of the ordered stop is
above 0 while a stop is awaited, so that both `StopSettled` and `StopTimeout` may decrement it,
and a test case that began belongs to a group of this run, so that a throwing reporter rejects an
existing group.  It is proved in three parts, the variables of `run()`, of the components and of
the test cases, each with one step per action that writes them.

`HooksScoped` is inductive with two additions (`HooksInv`): the range of `pc`, and that a test
case before its registration has no hooks; `CanRun` makes a second `run()` begin only where no
test case is between the two.  `HooksLostOnlyByOwner` follows from `HooksInv` step by step:
`FinishTestCase` clears over the whole map but only its own, `DoStopOk` clears all but under
"stopping", and `WaitEnds`, `HandlerDrops` and `RejectWaits` take hooks of waits only.  So the hooks
that no step waits on, and the persistent ones of the init handler, go by their owner or a stop alone;
of a hook that is waited on it says no more than that only its wait, its own handler or its
component's loss may take it besides.

Handlers has some twenty actions, for six components, but only five things happen to a message: it
comes, a handler returns, a handler throws, the chain passes, the chain fails.  `MessageSteps`
reduces `Next` to those five, and each invariant is then shown for them:

- `TypeInv` is `TypeOK` with what a behaviour fixes (component, step, chain) and with the errors
  that belong to each `pc`.
- `ValueInv`: the value a message has is what its results so far make of it (`Made`), and what went
  out was so when it was sent; results are only appended, so it stays so.
- `AssertInv`: every assertion before the position of a message is recorded as held or lies behind
  a result that cut the chain short, and a wait that was resolved, or a step that passed, has a
  message that is over without an error.  The order in `ServerPasses` matters here: the wait is
  resolved when the chain is over, not when the message comes.
- `FailInv`: an error of a message that is over was thrown into the step that awaits it or is
  among the tracked ones, and nothing else is.

`Messages` and the lengths of chains are arbitrary, so the theorems cover what the run bounds: any
number of messages at once in chains of any length.

The properties of AsyncServer rest on four invariants, each one connection at a time:

- `PairInv`: `ready` is pending exactly while the backend connects, a client whose backend failed
  or is gone is not open, and a pair is forgotten only with one of its ends.  The last part is what
  makes a failure to forward impossible while both ends are open.
- `MsgInv`: a message waits only while `ready` is pending, so `ready.resolve()` leaves none behind;
  one that failed left an error and an end that is not open; the relayed events are all there were.
- `OrderInv`: `ForwardedInOrder` with the messages that wait: those sent, then those waiting, then
  those not yet received.  A message that handlers held back may overtake and be overtaken.
- `LinkInv`: `LinksLive`, and a connection yet to come has no link.

`LinksLive` and `PartingTold` need `OneLinkEach`: hooks of both kinds that may take the same
connection give it the same link (section 5 has what happens otherwise).  It is a condition on the
test, not on the code; TLC's instance satisfies it.

`WaitersSettled` needs `WaitInv`, which follows each wait of a stopping component: while `doStop`
drains, whatever wait is there or begins has a hook that will be rejected or was; once the hooks
were rejected (`Told`), those left unsettled belong to test cases that do not wait, and a step that
begins to wait then finds its hook settled.  `derived[t]` holds the topics of every hook of `t`,
which is why no hook is passed over.

Scenario has four more properties, each with an invariant about another actor:

- `NothingLeftRunning`: `StoppingInv`, that a component is "starting" only while `run()` awaits it,
  that no Client is "started" once Clients were stopped, and that above `at` of the ordered stop
  nothing is.  A `stop()` that is overdue counts as "stopping", not as running.
- `ErrorsFailTheirTest`: `OneActive` (the test cases of the one group are one after the other),
  `RegisteredInv` (a component whose handler runs is still registered, or belongs to the handler's
  own test case, so that `CollectErrors` sees its errors) and `ReportedInv` (the error of an
  executing test case is among `errs` until it is collected, and the verdict then is not "passed").
- `UsedComponentsUp`: `ConfigUp` (what is configured is up from its start until every group is over
  or one was rejected, in every `run()`: after a stop handler that throws it stays up and the next
  `run()` finds it so), `InitUp` (the same of what the init handler brought in, in the first
  `run()`) and `OwnUp` (what a test case brought in is up from its start to its cleanup, since
  nobody else's cleanup names it).  `ConfigUp` needs no hypothesis, the other two `OwnComponents`.
- `DynamicCleanedUp`: `OwnDown`, what is known of each of a test case's components at every stage
  of their starts and of the cleanup.

The refinement is proved per transport; from its invariant each action is shown to be a step of
AsyncTransport or to leave the mapped variables alone.

- `WsInv` and `GrpcInv` say, for each end, that what it read is a beginning of what its peer sent
  (`InOrder`), that with what is under way it still is (`UnderWay`), and that nothing is missing
  while neither end has closed (`Whole`); an end that has called `onClose` reads no more.
- `CodecInv`: with the default codec `handed` is all of `got`, in its order; with any codec what is
  being encoded is among what its end sends.  An awaited decoding is a step of AsyncTransport by
  itself; each kind of step on a connection (`Sending`, `Arriving`, `Closing`) becomes one with what
  the default codec makes of it.
- `TcpInv` speaks of bytes.  What an end holds in its buffer and what is on the wire to it begin the
  stream of frames of the messages it has not read (`Begun`), and are all of it while its peer's
  socket is up (`Entire`).  That a chunk keeps this, wherever it was cut, is a fact about
  `processIncomingBuffer`: of a buffer that begins a stream of frames its loop takes a number of
  whole frames, in order, and leaves the beginning of the rest (`Parsed`).  It is proved by induction
  over the rounds of the loop from two lemmas about one frame: the length field is read alike from
  every buffer that holds it (`LengthWritten`: what `readLength` gets of 1, 2, 4 or 8 bytes is what
  `writeLength` put there, if it fits), and the first occurrence of the delimiter in a buffer that
  holds a frame is the end of that frame (`FirstOccurrence`, by `Separable`).

`StepsInv` has a part for each component: types with what the shape of the programs gives (the wait
a test case is in has a pending hook), and

- `AcBereft`, `AsTold`: the hooks that were there when a connection was lost (`bereft`) or whose
  message or link is over (`told`) are settled, and settled hooks stay so.  `AcSockets`: the only
  open socket is `conn`, and the only one that is connecting has a caller that waits for it; a second
  connect step beside it would leave one behind.
- `ScServed`: the hooks of a request that is over are settled.  `ScBudget`: what is `left` of a poll
  and what it `spent` make up the timeout of its policy; sleeps are cut to what is left (`Delay`).
- `SsServed`: a request that was forwarded or answered has settled the wait that took it.
  `SpOrder`: a proxy is "stopped" after every request it took was answered, and its client adapter
  closes only then, so that none is refused for want of it.

`BrokersInv` has a part for each adapter:

- `KMember` (Kafka): no consumer but the current one is connected.  `EHeld`: when it runs, it
  fetches all that is active, and at each stage of a restart what was replayed so far.  `EOffsets`:
  a consumer has subscribed a topic with the offset first given, or not yet.
- `RabbitInv`: the bindings at the broker are the patterns held, but for the one that the call under
  way has bound or unbound and not yet noted.  `RMsgs`: what was handed, what is being decoded and
  what is still in the queue are different messages.
- `RedisInv`: what the server has subscribed is what is held, but for what the call under way has
  applied, in every connection.
- `PublisherInv`: a step passed when nothing of its batch is in encoding or unconfirmed, and the
  rest is in the log (`PSets`); what is in the log is in the order of the batch, and before what is
  still in encoding (`InOrder`).
- `FactoryInv`: what is open is in the list that `dispose` will go over, or is the shared client or
  connection; what `dispose` has gone over is closed, or is a Kafka consumer that was replaced or
  refused to disconnect.  That exception is the code's (section 5), and `Releases` states it.
- `CodecInv`: what is on the wire was encoded by the first binding that takes its key, the one
  `decode` will find, unless a global RegExp is asked.

`ResultsInv` has two parts:

- `RtInv` (HttpRoutes): the routes compiled hold every route of the init handler with only earlier
  ones of it before it (`Ordered`), and each of its hooks comes after the hooks of its earlier routes
  (`HooksOrdered`), whatever test cases append and whichever of their hooks are filtered out.  So
  when the first hook that matches is the init handler's, the first compiled route that fits is its
  own.  `FilterKeeps` is the lemma about `filter` this rests on.
- `DsInv` (DataSource): a client that lives is the adapter's own or was forgotten, and a source that
  is "stopped" has none of its own; an `init()` makes one only when there is none.  `DsAttempts`: a
  retry loop that is under way has a step of its test case waiting for it, on a source that is up, or
  its test case failed, be it by the deadline; `stop()` comes only when no test case executes.

`Reported` speaks of the files of this run as it ends; `ReportInv` says what they are all along, and
why nothing that happens later makes them untrue:

- `FilesInv`: files are only appended, none is of a run to come, a result file belongs to a test
  case that is over, whose results and verdict change no more until the next run, and a container
  is there only once `run()` is idle again.  So an old file is either true or of an earlier run.
- `UuidsInv`: while `run()` goes on, the uuids AllureReporter keeps are different result files of this
  run.  `onStart` is what makes it so in a second run, unless the other reporter throws from it: then
  `run()` rejects, and no container is written.
- `CompleteInv`: `run()` has results only when no reporter rejected a test case, and then the uuids
  are of just the test cases that are over, which are all of its groups'.  This is what makes the
  container complete, also beside a reporter that threw elsewhere.

A result file is `convertTestCase` of the results, which goes over steps and over the keys of each
payload.  `StepsConverted` is the lemma about it: the files written only grow, by attachments of
this test case, and each converted step tells the status of its own result and names attachments
with the keys of its own payload.  It is an induction over the steps, from the one about a single
step (`StepConverted`) and from what `SetToSeq` gives of a finite set (`Listed`); that payloads are
finite is `ReportingAssumption`, and `extractPayload` has a fixed list of keys.

The proofs have one step per action of `Next` (or per kind of step); what several steps need is a
lemma.

### Hypotheses

Some theorems have a hypothesis on the constants.  Each one marks off a case in which the code
does not keep the property (section 5 has the counterexamples), and TLC's instances satisfy it.

| Hypothesis | Without it |
|---|---|
| `OneLinkEach` (AsyncServer) | two hooks give one connection two links, and its end removes one |
| `WaitsSubscribed` (Subscriber): the topics of hooks are subscribed to, and every wait has one | with `autoSubscribe: false` a hook without entry is not rejected by `doStop` (subscriber.component.ts:612-640), and its wait sits out its timeout |
| `StopsAll` (Scenario): one Client at most, and the stop handler does not throw | the failure of one Client forgets the start of another; a throwing stop handler skips `stopComponents` |
| `OneGroup` (Scenario) | a test case of another group clears the errors of the one executing (test-scenario.ts:409) |
| `OwnComponents` (Scenario): one `run()`, and no component is brought in by two test cases | a body that throws after `use()` leaves its component registered and never started (test-case-builder.ts:141), and a later test case takes it for started |
| `FlakyAlone` (Scenario): a component that may fail to start is the only one its test case brings in | those that started before it are not in the list to clean up (test-scenario.ts:295, 304) |
| `~EarlyGreeting` (Transports, WebSocket) | a frame in one segment with the answer of the handshake comes before the component listens |
| `Separable` (Transports, TCP): a length field, or a delimiter that a message with it holds at its end only | a message with the delimiter in it is cut in two; one whose end begins a delimiter that overlaps itself (`a` and `aa`) is cut a byte early, and the rest goes to the next; with neither field nor delimiter each chunk is a message (framing.ts:78-82) |
| `OneConnects` (Steps): no two test cases that execute at the same time connect | two connect steps at once leave the first connection open for good (async-client.component.ts:475-490) |
| `InOrderEncoded` (Brokers) | RabbitMQ gets each message when its encoding ends (rabbitmq.publisher.adapter.ts:107-115) |
| `OneConnection` (Brokers): the adapters of RabbitMQ are made one after the other | two creators dial at once, and one connection is overwritten (rabbitmq.adapter.ts:47-48) |

Not provable with the installed provers and left to TLC: liveness under fairness (`RunEnds`,
`StopAndTestsEnd`, `Delivered`, `PeerTold`, `StopEnds`, `TestsEnd`, `AnswersCome`, `CallsSettle`)
and Expect, whose comparison is RECURSIVE (`ExpectTells`; no module that reaches
Expect can hold a theorem).  The library's induction theorems take an operator, which no prover here
instantiates; what the loop of `TcpFraming` and the conversion of steps in `Reporting` compute is
proved from the set form `Induction` instead, itself a consequence of the well-foundedness of `<` on
the naturals.

## 5. Deviations

Where the instances of section 3 leave something out, the code does not keep the property there.
The properties are in the modules; the middle column says what to set to see TLC's
counterexample, starting from the constants of the passing run of that module.  Two of them are
runs of their own (`kafka_leak`, `http_params`).

| Property | Instance | The code does | It says |
|---|---|---|---|
| Scenario: `NothingLeftRunning` | `Clients <- TwoClients` | one of two Clients fails to start while the other is starting; the stop of that one is refused (base.component.ts:340) and ignored (test-scenario.ts:147): it comes up and stays | core-concepts.md:76 "manages their lifecycle ... and stops them in reverse order" |
| Scenario: `NothingLeftRunning` | `StopMayThrow = TRUE` | a throwing stop handler (test-scenario.ts:257) skips `stopComponents`; `initialized` stays set | test-scenario.ts:375 "Always run cleanup" |
| Scenario: `DynamicCleanedUp` | `Brings <- BringsTwo` | the second of two components of a test case fails to start: the first is not in the list to clean up (test-scenario.ts:295, 304) | test-case-builder.ts:110 "automatically cleaned up after the test case completes" |
| Scenario: `NoForeignErrors` | `Busy = {back}` | errors of all components are collected whatever their test case (test-scenario.ts:428) | base.component.ts:133 "attribute per-TC errors to the right TC" |
| Scenario: `ErrorsFailTheirTest` | two groups | errors of all components are cleared at the start of a test case (test-scenario.ts:409), and that of another group's passes | the same line |
| Subscriber: `StartedWorks` | `MaxStarts = 2` | `_isStopping` (subscriber.component.ts:612) is never reset | mq-subscriber.test.ts:67 "should allow restart after stop" |
| Subscriber: `AdapterDiesWithTest` | `Aborts` not empty | an adapter still being created when another component aborts Phase 1.5 opens after both `clearHooks` (subscriber.component.ts:587) and stays until `stop()` | subscriber.component.ts:71 "per-TC cleanup at TC end" |
| AsyncServer: `NoOrphanBackend` | `EarlyClose = TRUE` | the client leaves while its backend is connecting; the backend connects and is never closed (async-server.component.ts:1047, 1086) | async-server.component.ts:1044 "In proxy mode, close backend connection" |
| AsyncServer: `NoOrphanBackend` | `SlowClose = TRUE` | `doStop` forgets the pairs after 10 ms; a later `onClose` finds none (async-server.component.ts:1129-1132) | async-server.component.ts:1123 "triggers onClose which closes backend connections" |
| AsyncServer: `LinksLive` | an onConnection and a waitConnection hook that accept one connection for two links | the connection gets both links, its end removes the second only (async-server.component.ts:141-142, 1038): the first names a dead connection | |
| AsyncServer: `LinkKept` | two hooks of the same link (part "links") | a link given to a second connection is removed by the end of the first (async-server.component.ts:1038) | docs-site/api/core.md:206 "Link connection when it arrives" |
| AsyncServer: `RejectionObserved` | as it is (part "proxy") | `ready.reject` without a waiting message is observed by nobody (async-server.component.ts:1114) | base.component.ts:276 guards the other deferreds against it |
| AsyncServer: `InspectedPassesThrough` | a message with hook "observe" | a message that a hook without `proxy()` matched is not forwarded (async-server.component.ts:469) | docs-site/examples/proxy.md:81 "Observe messages at the proxy without modifying them" |
| AsyncServerSteps: `ClaimedOnce` | `SlowHandlers = TRUE` | while the handlers of a waitMessage run a second message takes the same hook (async-server.component.ts:424, 450) | |
| AsyncServerSteps: `LinksLive` | `SlowHandlers = TRUE` | a message whose handlers outlive its connection links it (async-server.component.ts:452) | |
| AsyncClient: `StaleCloseHarms` | `SlowClose = TRUE` | the `onClose` of a connection that was replaced rejects the waits of the new one (async-client.component.ts:503) | its message, "Connection closed while waiting for event" |
| AsyncClient: `Released` | two test cases that both connect | two connect steps at once dial twice, and the connection of the first is overwritten and never closed (async-client.component.ts:475-490) | |
| SyncClient: `OwnResponse` | as it is | a response goes to every hook of its operation, also of a later request or another test case (sync-client.component.ts:157) | sync-client.step-builder.ts:58 "bound to the same `messageType` (and `traceId` if set)" |
| DataSource: `NoLateAttempt` | as it is | the retry loop goes on after the deadline of its step (datasource.component.ts:127) | datasource.component.ts:106 "the entire retry loop (or single attempt) is terminated" |
| DataSource: `NothingAbandoned` | as it is | Redis `init()` forgets a client that goes on reconnecting (redis.adapter.ts:103); a `dispose()` that rejects forgets its client | |
| HttpRoutes: `ParamsPopulated` | run `http_params` | see section 3 | http.types.ts:99 "params are always populated by the adapter" |
| Handlers: `EveryAssertionHeld` | as it is | assertions after a handler that returned null are skipped and the wait passes (base.component.ts:218) | |
| KafkaSubscriber: `ActiveDelivered` | `Unsubscribes = TRUE` | a topic unsubscribed before a restart stays known (kafka.subscriber.adapter.ts:110, 211): subscribing again delivers nothing | docs-site/advanced/custom-adapter.md:55 |
| KafkaSubscriber: `OffsetsPreserved` | "auto" in `Params` | an explicit subscribe after an auto-subscribe changes the offset used at the next restart (kafka.subscriber.adapter.ts:113, 212) | docs-site/api/adapter-kafka.md:65 |
| KafkaSubscriber: `CloseReleases` | run `kafka_leak` | see section 3 | docs-site/advanced/custom-adapter.md:58 |
| KafkaSubscriber: `RestartTransparent` | as it is | the restart calls the component's disconnect handler, which rejects the pending waits (kafka.subscriber.adapter.ts:183, 200) | kafka.subscriber.adapter.ts:5 "transparent restart" |
| KafkaSubscriber: `CrashSurfaced` | `Failing = TRUE` | the consumer of a restart has no crash listener (kafka.subscriber.adapter.ts:175) | kafka.subscriber.adapter.ts:174 |
| KafkaSubscriber: `NothingAfterUnsubscribe` | `Unsubscribes = TRUE` | the filter is applied before an await, the message delivered after it (kafka.subscriber.adapter.ts:316, 334, 352) | kafka.subscriber.adapter.ts:156 |
| Publisher: `RedisAccepted` | kind "redis" | `publishBatch` does not read the results of its pipeline (pubsub.publisher.adapter.ts:99): refused commands pass | |
| Brokers: `Releases` | "rabbitmq" in `Overlapping` | two creators dial at once and the first connection is overwritten (rabbitmq.adapter.ts:47-48) | |
| MQAdapters: `DisposeReleases`, whose exception it is | as it is | `dispose()` of the Kafka factory resolves with a consumer connected: after a restart `close()` disconnects nothing (kafka.subscriber.adapter.ts:364-376), and a `disconnect()` that rejects is swallowed by `Promise.allSettled` (kafka.adapter.ts:171-175) | |
| Transports: `Contract` in the form for `codec = "default"` | `Codecs` with "custom" | nothing queues what is being decoded (tcp.adapters.ts:270-294, ws.adapters.ts:153-172): a message may overtake an earlier one or reach `onMessage` after `onClose`; two `send()` may be written in either order | |
| Codecs: `DecodedAlways` | matcher "global" | a RegExp with the g flag says no after each yes (protobuf.codec.ts:225): the key is refused or taken by a later binding | |
| Reporting: `AttachmentsNamed` | as it is | what `onStepComplete` writes belongs to no result, as `onTestCaseComplete` converts the steps again (allure-reporter.ts:128-132) | |
| Reporting: `StampedIsReported` | as it is | a hook step is over before its message comes, so what is stamped on it then is in no report (step-executor.ts:154) | result-converter.ts:171-176 "both should be surfaced" |
| Reporting: `ContainerLast`, `OneResultPerStep` | `Parts = {"throws"}` | a reporter that throws from `onStepComplete` makes a passed step count twice, as failed too (step-executor.ts:113-124); one that rejects a group lets results come after the container | |
| Expect: `ExpectTells` | `Cases <- WithSets` | the guard against cycles says equal for a pair that an earlier comparison of Set elements found unequal (deep-equal.ts:30-34) | |
| Expect: `StrictShown` | `Cases <- WithUndefined` | a failed toStrictEqual shows no difference for a key that is undefined on one side and missing on the other; nor does the diff of [] and [undefined] | deep-equal.ts:9 "no undefined-vs-missing leniency" |
| Expect: `ExpectTells` | `Cases <- WithDates`, `MixedKinds` | toMatchObject takes every two Dates for plain objects without keys that match (collection.ts:48-51); objects of different kinds with the same keys are equal | |
| Expect: `ComparisonEnds` | heaps with cycles | `matchObjectShape` has no guard against cycles (collection.ts:51-62) | |

Further places, met while modelling, where the code does something its user may not expect and no
property is stated: `send()` of a WebSocket adapter resolves though the socket closed while its
codec encoded, and the library drops the message (ws.adapters.ts:244-251); with `autoAck: false` nothing ever acknowledges to RabbitMQ, so that after
`prefetch` messages its queue stands (rabbitmq.subscriber.adapter.ts:76), and with an asynchronous
codec the messages of a queue are handed on in the order their decoding ends; `close()` of the RabbitMQ subscriber after the broker closed its channel
rejects, keeps its topics, and calls the disconnect handler twice; `close()` of the Redis subscriber
never quits when its unsubscribe is refused (pubsub.subscriber.adapter.ts:206-226), and its
`_isConnected` stays FALSE after the client reconnected; `dispose()` of the Redis factory quits
clients that have quit; `dispose()` of the Kafka factory leaves its publishers open when the admin
client cannot connect; a refused request of a Server is only the adapter's error; the Server's
onResponse hooks match requests and never responses (sync-server.component.ts:379); a handler
result of the shape `{type, payload}` is taken for a message or a response by Server; `drop()` on a
wait fails the wait; `validate()` of a Subscriber hook on several topics uses the schema of the
first (subscriber.hook-builder.ts:77); events of an AsyncServer's backend are not validated; the
Publisher validates the items of a batch, not their payloads (publisher.component.ts:124-126);
onRequest('getUser') without method and path matches no HTTP request, whose type is its method and
path (docs-site/examples/http.md:62); an error of a predicate whose message begins "Assertion
failed" is not recorded; a MongoDB data source that saw `connectionPoolClosed` is never connected
again, and PostgreSQL or Redis may say connected without a client.

## 6. What is left out

- Scenario: the abort signal (nothing in the repository passes one), `failFast = false` (`run()`
  always sets it), the before and after builders of a test case, the interactions list.
  `clearHooks` of Phase 3 goes over the components in one order in the code and in any order here.
- Steps: timeouts are a choice at any moment; that a wait ends before or at its timeout is all the
  properties use.  Predicates of hooks are the type of a message (and its link).
- Handlers: which of a user's handlers returns what is any choice, delays take no time of their
  own, predicates of assertions are true, false or an error.
- Transports with a custom codec: AsyncServer and AsyncClient over one, whose messages may come in any
  order and after the end of their connection (`AsyncTransport` with `awaits`).
- HTTP and gRPC: bodies, headers, status codes, metadata, credentials, TLS, the loading of schemas.
- Brokers: payloads, headers, keys, the codec's bytes, which are left to protobufjs and JSON.  A
  consumer's commits are the broker's.
- Reporters: the wording of the console and the layout of files.  `expect()`: matchers on one
  number, string or truth value.
- InteractionRecorder and AssertionCollector are exported and called by nothing in the framework.
- The CLI generators convert schemas to source text in one pass, without state or concurrency.

## 7. Plan

Next: `UsedComponentsUp` over several runs for what the test cases bring in, which needs bodies that
do not throw (a component that was registered and never started is taken for started by a later
`use()`).  After that: an abstract mailbox of a test case that the three broker subscribers
implement; dynamic components shared by two test cases in Scenario; `toHaveProperty` in Expect.
