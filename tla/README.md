# A formal model of ddd-kernel

TLA+ specifications of the parts of ddd-kernel that run concurrently, the TLC
configurations that check them on small instances, and TLAPS proofs of what
matters most for every instance.  Every definition is translated from the
implementation in `src/src`; `PROJECT.json` maps each one to its lines.

Run a check with `tlc -config <Name>.cfg <Module>.tla` and a proof with
`tlapm <Module>.tla`.

## 1. The system

ddd-kernel is a TypeScript library that an application composes at startup.
Everything runs on one event loop: between two `await`s a function is atomic,
at an `await` anything else may run.  This is the grain of all modules here: one
action per stretch between two `await`s, and a nondeterministic outcome for
every promise the kernel does not own.

| Component | State | Operations | Talks to |
|---|---|---|---|
| Consumer middleware pipeline (`adapters/pubsub/Consumer*`, `*ConsumerMiddleware`, `InMemoryIdempotencyStore`) | the kernel's live middleware array; per delivery a stack of frames; claimed and handled keys | `execute`, `claim`/`commit`/`release`, retry loop, `registerConsumerMiddleware` | called by a transport (AMQP, in memory); calls the handler and the store |
| AMQP delivery and retries (`AmqpMessageBusAdapter`: `consume` and what it calls) | `delayConsumers`, consumer contexts, message headers; at the broker queues, consumers, the channel | `handle`, `retry`, `registerDelayedConsumer`, `removeDelayConsumer`, `sendToDlx`, `consume` | broker; the application's handler |
| AMQP connection and publishing (same file) | `connection`, `channelInstance` | `connect`, `reconnect`, `channel`, `publish`, `close` | broker; `init()` of every consumer |
| AMQP dead letters (same file, `consumeDlx`) | none; a connection per call | `consumeDlx`, `retryDlxMessage`, `getMessagesToRetry` | broker; a handler the caller passes |
| Kernel lifecycle (`Kernel.ts` 340-630) | consumers, schedulers, shutdown hooks, runtimes | `register*`, `remove*`, `run*`, `runSchedulerNowAndSchedule`, `shutdown` | consumers, schedulers, runtimes, logger |
| Scheduler (`infrastructure/scheduler`) | a semaphore of one permit, cron tasks | `init`, `runOnce`, error policy | node-cron, the job |
| Kernel environment (`Kernel.ts` 128-330, 450-466) | `process.env`, the parsed environment of each kernel | validation, parsing, `.env` loading | dotenv, the application |
| Active kernel and dependency injection (`Kernel.ts`, `DependencyInjection.ts`) | `activeKernel`, the static instance, a container per kernel, `services.yaml` | `dependencyInjection`, `compile`, overrides, `getService` | node-dependency-injection |
| Publisher hooks, in-memory pub/sub | hook list; topic to handlers | `publish`, `subscribe`, `close`, `publishAndRun` | hooks, handlers |
| Express server | `serverInstance`, registrations | `run`, `close`, `register*` | hooks, Node's HTTP server |
| WebSocket hub and realtime server | clients per recipient | `register`, `unregister`, `send`, `broadcast` | sockets |
| HTTP errors (`HttpErrorHandler`) | none | a chain of handlers, until one claims the error | routing-controllers, Express |
| Route prefix, domain objects, repositories, loggers | none, or a map | pure functions and small sequential objects | - |

What is hard about it: deliveries of one event race for a claim and may fail at
every store call; a retry queue deletes itself while another message is about to
be published to it; the channel may close between any two frames; `shutdown()` may
come during the startup and twice; timers, direct calls and error reports of a job
overlap; two kernels share `process.env`, `services.yaml` and one static container while
they start; `close()` of a server waits for connections that others hold open.
`PROJECT.json` lists these hazards at their lines, with the properties that watch them.

### What makes each component correct

- Pipeline: one handler at a time per key; a key is recorded only after a success;
  a claim is given back by its holder only; retry loops are bounded and compose;
  every delivery is settled; an event whose duplicate was refused is not lost.
- AMQP: an event is handled or dead-lettered, once, within the retry budget; what
  `delayConsumers` says about the broker is true when it is used; no message stops
  the queue.
- Kernel and scheduler: a job does not overlap itself and its permit always comes
  back; `shutdown()` closes what was started, in reverse order, and no timer goes
  on unlisted.
- AMQP connection: a consumer has a live channel again after a break; every call settles.
- Dead letters: a letter is in the queue, with a live call, or retried; a call settles
  and tries what it found.
- Startup: a kernel's values are what its schema documents; a class resolves to what
  services and overrides declare, however it is asked for; a start that fails can be
  repaired.
- Hooks and in-memory pub/sub: which hooks run on which failure; who gets a message
  when handlers come and go during a publish.
- Server and hub: registrations run in order; `close()` finds what `run()` opened and
  resolves when the connections ended; a client that is gone is not kept, one that
  stays misses nothing; every error is answered with its documented status.

## 2. Modules

| Module | Role |
|---|---|
| `ConsumerPipeline` | deliveries in the middleware frames, idempotency store, retry, late registration, crash |
| `KeyedHandling` | abstract specification: the life of one key, without deliveries or a store |
| `ConsumerPipelineProofs` | theorems about the pipeline, its refinement of `KeyedHandling`, and what follows from that; the budget of attempts |
| `AmqpDelivery` | the handler side of `AmqpMessageBusAdapter` together with the broker |
| `AmqpDeadLetters` | `consumeDlx()`; EXTENDS `AmqpDelivery`, whose consumer fills the queue it reads |
| `AmqpDeliveryProofs` | theorems about the two: nothing is lost on the way to the dead letters, nor there |
| `SchedulerRuns` | `Scheduler.runOnce()` and its permit; no clock, no list |
| `KernelLifecycle` | startup, registration and `shutdown()`; EXTENDS `SchedulerRuns` and starts its calls from cron tasks and from `runSchedulerNowAndSchedule()` |
| `KernelLifecycleProofs` | theorems about the two: the semaphore, the order and completeness of `shutdown()`, the cron tasks it can find |
| `KernelEnvironment` | `process.env`, the `.env` files, schemas and the values kernels parse |
| `DependencyInjection` | operators on a container: what `compile()` registers, what `getService()` finds |
| `KernelStartup` | the two in one program of several kernels that start, fail and start again |
| `KernelStartupProofs` | which container is current; why a failed start stays failed; loads conform to the schema; a compiled container resolves every token as it is declared |
| `AmqpConnection` | the connection and channel fields of `AmqpMessageBusAdapter`, and all that runs over them |
| `AmqpConnectionProofs` | every consumer on an open channel again; no open channel without an owner |
| `PublisherHookPipeline` | what wraps every `publish()`: before, after and error hooks, the error policy |
| `InMemoryPubSub` | both in-memory adapters; EXTENDS `PublisherHookPipeline` and supplies its publish step |
| `InMemoryPubSubProofs` | theorems about the two |
| `ExpressKernelServer` | registrations, `run()` and `close()` of the HTTP server |
| `ExpressKernelServerProofs` | the order of the pipeline; what `close()` leaves |
| `HttpErrors` | operators: the error handlers and the chain inside `HttpErrorHandler` |
| `HttpConnections` | connections of a listening server: requests, failures (EXTENDS `HttpErrors`), upgrades, the WebSocket hub, `close()` |
| `HttpConnectionsProofs` | the hub keeps who is there and nobody else; clients of one identity see one stream; every failure is answered as documented |
| `MC...` | model values, and a symmetry set, for TLC |

Definitions whose comment starts with `Mutant:` are deliberately wrong variants of
the definition that follows; no specification uses them.  `PROJECT.json` pairs each
with the property that refutes it.

### ConsumerPipeline

`status[d]` and `depth[d]` say where delivery `d` is: `calling` frame *i* is
`run(i)` of `ConsumerMiddlewarePipeline` before it looks up `middlewares[i]`;
`returned` and `threw` mean that control is back in frame *i* from below; frame 0 is
`execute()` itself.  `At(d, s, kind)` is the guard of each middleware's step.

- `Claim`, `ClaimRefused`, `ClaimFails`, `Commit`, `CommitFails`, `Release`,
  `ReleaseFails` are `IdempotencyConsumerMiddleware.handle` over
  `InMemoryIdempotencyStore`.  A store call that fails may have taken effect.
  `claim()` is awaited outside the `try`, so its failure releases nothing;
  `commit()` inside, so its failure runs the `catch` of the same frame.
- `EnterRetry`, `RetryReturns`, `RetryAgain`, `RetryGivesUp` are the loop of
  `RetryConsumerMiddleware`.  With `maxAttempts` 0 the handler is skipped.
  `CallbacksMayStop` covers a `shouldRetry` that refuses and an `onRetry` or a
  delay that throws.
- `PassThrough`, `PassBack` are the correlation middleware, which touches only
  the event.
- `RegisterMiddleware` appends to the array the pipelines already run on.
- `Crash` restarts the process; a store that is not `Durable` comes back empty.
- `Ack`, `Fail`, `Redeliver` are what a transport does with the outcome; they stand
  for any transport, with redelivery of everything not acknowledged.

`runs` and `successes` are history variables.  The idempotency middleware is assumed to be
registered at most once and before the first delivery (`ListAssumption`), as the
guides show; retry and correlation may be anywhere and may come later.

### AmqpDelivery

A call of `handle()` is identified by event, channel and header (`Tasks`): on one
channel an event carries the headers unset, 2, 3, 4, ... once each, which the code
brings about by skipping 1 (`NextHeader`).  `pc` follows the awaits of `retry()`,
`registerDelayedConsumer()` and `sendToDlx()`.

The broker is what the declarations in the code ask for: a retry queue is
auto-deleted with its last consumer, is consumed with `noAck`, and hands a copy at
once to one of its consumers (which then waits on a timer in the process:
`sleeping`).  A publish to a queue that is not there is dropped.  `bindQueue` or
`consume` on a missing queue makes the broker close the channel (`CloseChannel`);
this happens without any outside fault, when one consumer cancels between another
call's `assertQueue` and `bindQueue`.  `Wake` waits for the registrar's own
publish: the registrar publishes as soon as the broker confirms its consumer, before
any timer of that consumer was set.

`Malformed` events do not parse; `Invalid` ones parse and make no domain event.  The
latter never reach the handler, are never copied, and take the way of `Withdraw`.

`ChannelLost` closes the channel at any step; `Reconnect` opens the next one and
consumes again but, as the code, keeps `delayConsumers`.  What a rejected promise
in an event callback does to the process is Node's matter (by default it ends it);
here the process goes on, which keeps more behaviours.

### AmqpConnection

The fields `connection` and `channelInstance` and the calls that share them: startup (which
awaits `init()` of one consumer after the other), `publish()`, `reconnect()`, `close()`.  A
connection has the number of its dial; `link[k]` is its state and that of its one channel.
`Channel` is the check at the top of `channel()`; `Dials` and `Creates` are
`connect()`, which stores each field when it has it; `Asserted` returns what the field
holds after the await, which need not be what was asserted on.  A step is one answer of the
network with everything that runs before the next answer can: what a resolved promise
continues at once is not a step of its own.  `BeginDials` counts in `overlaps` how often a
dial began while another was under way, which is what costs channels.

`ChannelBreaks` emits "close", or "error" and "close", and each calls `reconnect()`.
`Close` makes the channel emit "close" as well, so that a reconnect starts under it
(`ChannelClosed`), whose connection may be the one `CloseConnection` then closes, or may
come up after the fields were emptied.  What `areQueuesBound()` does to this state is to
make the broker close the channel, if it asks for a queue that is not declared yet.

### AmqpDeadLetters

`DeliveryStep` is a step of `AmqpDelivery`; a message that its `SendToDlx` publishes joins
`letters`, where its index stands for the place the broker gives it and gives it back.
`Connect`, `CheckQueue`, `Gets`, `GetsNothing`, `Retried`, `PutsBack` are one call of
`consumeDlx()`, from answer to answer: its connection, `checkQueue()`, and as many rounds
of `get()`, handler, and `ack()` or `nack()` as it decided at the start.  `LinkLost`
breaks the connection of a call at any step: the broker queues what it held again
although its handler runs on, and the next thing the call asks for throws (`Rejects`).

### KernelLifecycle and SchedulerRuns

`boot` is the application's startup, `runConsumers()`, `runSchedulers()`,
`runRuntimes()` awaited in the order of `docs/reference/kernel.md`; each element's
`init()` or `run()` may fail and end it.  A runtime is live as soon as its `run()`
is called but has a shutdown hook only once that settled.  Consumers and schedulers
are registered before they are run and once each, hooks at any time; `remove...()`
may come at any time, and the properties that then make no sense ask for
`~removed`.

`Shutdown(d)` is one call of `shutdown()`: three loops, each over a copy of its list
taken when the loop starts, last element first.  `Close` passes over what has no
closing method, and rejects on the first failure.  Several calls may run together.

`SchedulerRuns` is `runOnce()`: `tryAcquire`, the job, the error policy, and the
`finally` that releases.  `RunNow`, `RanNow`, `PushNow` are
`runSchedulerNowAndSchedule()`.  `timers[s]` counts the cron tasks of a scheduler; `early` are the
schedulers for which it was called before `runSchedulers()` was through, whose entry the
loop then finds and gives a second task, to which `TimersListed` holds them.

### KernelEnvironment, DependencyInjection and KernelStartup

`LoadStatic` and `Load` are the two `loadEnvironmentVariables()`, which run without an
await.  `Configured` is dotenv: blank variables count as set.  `Throws` and
`Validated` are the checks and the parsed values of a schema.  A parsed value is written as the
string it prints as, so that `Number('03000')` is "3000" and meets the choice 3000.  What
`trim()`, `toLowerCase()` and `Number()` make of the strings of an instance are constants
(`Blanks`, `LowerCase`, `NumberOf`), which the proofs leave open.  A load that throws has changed
`process.env` all the same.

A container holds sequences of definitions and aliases in the order the code's Maps
have them, since `find...ServiceId()` takes the last that fits.  A class is the directory and
base name of its file, which is all `idNamesService()` compares.  `Compiled` loads, makes
parents aliases of their last concrete child, and applies the overrides in turn
(`ApplyOverride`); a `useFactory` asks the container as it is then, and makes the call fail when
there is nothing to get.  A call that follows a failed one works on the container that one left.  What
node-dependency-injection does with the alias of an alias is a parameter
(`AliasOfAlias`; the run takes it not to follow one, and the same instance with it following
was explored and holds).

`KernelStartup` puts `Start`, `LoadServices` and `CompileSettles` between the awaits of
`dependencyInjection()`, for several kernels at a time; `LoadServices` reads or writes
`services.yaml`, which all share, and `LoadFails` is a `compile()` that rejects before it has
looked at parents and overrides.  With `MakeContainer` the application makes the container
that it passes as `options.di`, with `DependencyInjection.configure()`, which makes it the static
instance at once, or with `new`; the first `dependencyInjection()` of that kernel then keeps it
and calls no `configure()`.  `apart` and `overtaken` are history: the kernels whose container was
made with `new`, and those over whose container another was configured before they had started, or by
the application.  `ActiveIsConfigured` exempts the active kernel if it is one of them, or was
started again, whatever the other kernels do.

### PublisherHookPipeline and InMemoryPubSub

`stage[p]` is the promise a publish awaits and `at[p]` the hook in whose method it is.
`Loop` is the for-of loop, whose array is live: a hook registered meanwhile is seen by every
loop that has not ended, so a publish may call its `afterPublish` and not its
`beforePublish`.  A hook without the method counts as one whose promise settles at once.
`Throw` goes to the `catch` (`threw`) from `publish()` and the after hooks, and past it
(`failed`) from the before and the error hooks.

`InMemoryPubSub` models one topic of `InMemoryPubSub`, and one event name of
`InMemoryEventBus`; `adapter` says which and never changes.  `entries` is what an iterator
of the collection sees: a JavaScript Set keeps the place of a deleted element (`Gone`) so that no
iterator skips another, and what is added comes last and is still visited.  `captured` is
the lookup before the hooks, which may find no collection and then stays empty.
`subscribe()` is atomic; `close()` may be called again and again.

### ExpressKernelServer

A server bears the name of the `run()` that made it.  `Hooks` are the loops of
hooks in the body of `run()`, which awaits each hook, and cut it into legs; `Applied` is what it
applies at once between two of them.  `app[r]` collects what the application of `r` got, a hook when it settled (that is when it has
done its work).  The items of the constructor's options are registered by steps before
`run()`.  `run()` copies the routes of the kernel and the controllers behind them when it is called,
whatever the order they were registered in, and reads everything else live.  The kernel takes a route at
any time (`Register` has no guard for it); `kernel.removeRoutes()`, which nothing in `src`
calls, is left out.
Of node and Express the module takes: `listen()` binds the port, finds it taken, or throws at
once (`ListenThrows`: `port` is what the application passed, and a number out of range is
one), which rejects `run()` with `appInstance` set already; Express (version 5) calls the
callback of `listen()` in the first two cases; `close()` of a server that does not listen ends
with an error; "close" comes when the connections have ended.  `replaced` counts the `run()`s
that put a server into the field over another, which only calls that overlap do.

### HttpErrors and HttpConnections

`ErrorHandled` sends one error through the error handlers: those registered, each of which may
be a `HttpErrorHandler` with handlers of the application, or the default one; then Express.
A handler may decline, answer, answer and decline, claim without an answer, or throw; a second
head throws as well, and so does `formatValidationErrors()` of an error whose `errors` are not a
list it can map (`malformed`), after the status was set: what Express answers then is that
status, if it is one of an error (`FinalHandler`).

`socket[s]` is what a connection is for.  `Upgrade` runs the 'upgrade' listeners of every
`attach()`, `RegisterAgain` is an application that registers a client by itself, also
when it has closed already.  `Ignore` is also an upgrade whose `url` makes `new URL()` throw out of the
listener (`WebSocketRealtimeServer.ts:21`), in an application that handles the uncaught
exception; in one that does not, the process ends, which is not modelled.  `clients` is the Map of the hub, with no entry for an identity without
clients; `received` is what a client that is OPEN was sent, in order.  `Close` and `Closed` are
`close()` of the server: node calls back when the last connection has ended.

## 3. Runs

| Run | Instance and bounds | Shows |
|---|---|---|
| `PipelineClaims` | three deliveries, two of one event; correlation, idempotency, retry, and one late retry (`MaxMiddlewares` 4); 2 attempts; `claim` and `release` may fail | `MutualExclusion`, `OnceAndKnown`, `AttemptsBounded`, `ReleasedByHolder` |
| `PipelineRestart` | two deliveries of one event; retry on both sides of the claim; a late correlation; `commit` may fail; one crash that empties the store | `NoSilentDrop`, refinement of `KeyedHandling` (`ImplementsPromise`), `EventuallyHandled` |
| `AmqpRetries` | three events, two retry levels, one channel | `NothingLost`, `ListedHasConsumer`, `OneOutcome`, `RetryBudget` in every order in which queues, consumers and entries come and go |
| `AmqpReconnects` | three events, one of which makes no domain event, one level, channel lost at any step and reopened | `EveryEventSettles`, `QueueDrains` |
| `AmqpBlackHole` | two events, the channel lost once | violation: `NothingDiscarded` |
| `AmqpDeadLetters` | three events that go to the dead letters on their first failure; two calls of `consumeDlx()`, one without `messagesToRetry` and one for two; their connections may break | `LettersKept`, `ResolvedTriedAll`, `CallsSettle` |
| `AmqpLosesChannels` | startup of two consumers, a publish; one upset at any point: a channel breaks with one or two events, a dial fails, or `close()` | `ConsumersResume`, `OrphansNeedOverlap`, `CallsSettle` |
| `KernelUpAndDown` | two consumers, a scheduler with two calls under way, a runtime, a hook, one `shutdown()` at any point | `PermitAccounted`, `JobNeverOverlaps`, `ReverseOrder`, `ShutdownClosesAll`, `TimersListed` |
| `KernelStartup` | two kernels, each with a schema, three loads, with another schema or not, over three `.env` files, with blank, mixed-case, numeric and unreadable values; two calls of `dependencyInjection()`, containers of `options.di` or not, three source trees, `services.yaml` there or not; none, one or two of six overrides | `ResolvesAsDeclared`, `ActiveIsConfigured`, `LoadsConform`, `NoWayBack` |
| `PubSubDelivery` | both adapters; one publish, two handlers, three subscriptions (two of one handler), two hooks registered at any time; hooks, handlers and the policy may fail | `ReachedExactly`, `OpenIsSubscribed`, `ClosedIsSilent`, `HooksComplete`, `TypeOK` |
| `HttpServerUpAndDown` | two calls of `run()` and two of `close()`; a hook before the controllers, a route of the kernel and a controller, registered at any time; hooks may fail, the port be taken and `listen()` throw | `PipelineInOrder`, `ClosedIsDown`, `CallsSettle` |
| `HttpConnections` | two connections with a request each, two identities, two calls of `attach()`, a client registered at most twice, two broadcasts; ten errors, two of them malformed, five kinds of handlers, error handlers of the application or none | `HubMirrorsSockets`, `SameStream`, `FailuresAnswered`, `CloseSettles` |

The type invariants of the pipeline and of AMQP delivery are proved (section 4) and not checked
again here.

Why the bounds suffice.  The pipeline's properties relate two deliveries of one key;
the third delivery shows that another key is not affected, and two attempts that a
retry loop both repeats and gives up.  In AMQP two calls can race for one retry queue
and the third holds the entry they race over; two levels give a queue
whose name differs from the next one, and headers 0, 2, 3.  For the connection, one break
already gives two reconnects that meet startup and each other; two consumers let the
channel change between them.  Two upsets at a time were explored without the publish
(4.4 million states): the invariants hold.  In the kernel two consumers
are needed for an order; two calls of one scheduler for an overlap.  Two `shutdown()`
calls at a time were explored with one consumer and hold as well.  One publish is enough in
memory: publishes write nothing another reads.  Two handlers show that one is not
disturbed by the other's coming and going.  Two calls of `run()` and of `close()` are
the fewest that overlap, and a hook before the controllers, a route and a controller are the
fewest that a registration in a hook can put in the wrong place.
Two calls of `consumeDlx()` are the fewest that take letters from each other, and three letters
let one come back before the others; the instance with two events and two channels
(1.04 million states) was explored and holds.  In the startup a second kernel changes what
the first reads; two overrides are the fewest that act on one another.  A second load meets what
the first left in `process.env`, a third what both did.  Of what loads set, a start reads
`CONTAINER_BUILD` alone, and once: loads come before the first call (`MaxCallsFirst` 0), and after one
TLC starts only the kernel without overrides (`OneCallWithLoads`), since the starts of the other are
explored in both environments without a load.  Two connections of one identity are what the
hub can confuse, and two `attach()` what makes an upgrade meet two listeners.
The proofs below remove the bounds altogether for every safety property of these runs.

### Disagreements between the code and its documentation

- `AmqpBlackHole` (a run that shows the violation; `PROJECT.json` quotes the lines that say
  otherwise): after a reconnect `delayConsumers` still lists the old channel's retry queues;
  the next failing message is published to a queue that does not exist.
- Malformed messages: `JSON.parse` runs before the `try` of `handle()`; a malformed
  message is neither acknowledged nor dead-lettered and `prefetch(1)` stops the queue
  behind it.  With `Malformed = {e1}` TLC refutes `EveryEventSettles`.
- Messages that make no event: a content from which `instanceDomainEvent()`, or the event's
  constructor, makes no event fails in `handle()` and again inside the `try` of `retry()`.
  The `catch` cancels the retry consumer just registered and leaves its name in
  `delayConsumers`: this message and the valid ones that fail later with the same delay are
  acknowledged and gone.  With `Invalid = {e2}` TLC refutes `NothingLost`.
- Schedulers run on: nothing keeps the task `cron.schedule()` returned, and a `Scheduler`
  has no closing method, so `shutdown()` passes over it, whereas `docs/reference/kernel.md:234`
  says that it "stops registered consumers, schedulers".  `TimersListed` says what does hold.
- An application without a server: `run()` sets the field of the application before `listen()`, so that
  one that throws leaves it set; `close()` finds no server and resolves, and the getter `app`, which
  the tests expect to throw "HTTP server is not running." after `close()`
  (`tests/adapters/ui/express/ExpressKernelServer.test.mjs:1021`), returns the application of a
  server that never came up.  TLC refutes `appInstance # None => serverInstance # None`;
  `ClosedIsDown` says what does hold.
- `docs/reference/kernel.md:58` falls back to `local` when `NODE_ENV` is blank
  (`process.env.NODE_ENV || 'local'`); the code uses `??`, so a blank one names a file of its
  own (`EnvironmentFile`).
- `docs/reference/express-kernel-server.md:212` has handlers of the application prepended; they run after
  those for syntax errors and large payloads, which they cannot replace.

More that the models show and no document contradicts:

- A channel error leaves two new connections, one of which nobody closes (`overlaps`), and
  `close()` is followed by a reconnect; with two queues racing, the adapter can make the
  broker close its channel by itself.
- With a store that survives a restart, the claim of a process that died is never given
  back, since the store contract has no lease (`EventuallyHandled` therefore runs with the
  in-memory store).
- `consumeDlx()` opens a connection per call and does not close it.  A letter that fails goes
  back to its place at the head and takes a round of those behind it, which is what
  `ResolvedTriedAll` allows for.
- A default does not help a required variable that is missing.
- The first call of `dependencyInjection()` fixes the options of a kernel: one that failed for
  want of `services.yaml` cannot be repaired by calling again with `containerBuild`
  (`NoWayBack`).
- A token resolves as it is declared if its name is its own, which is what `Unambiguous` says of
  `ResolvesAsDeclared`.  `idNamesService()` compares base names and `getOverrideId()` (line 76)
  puts the bare name into the id of a value, so a class `Repo` and a string `'Repo'`
  that are both replaced by values share one service, and the later value is delivered for both.
- A container that a failed call left is compiled again as it is, and two things may stay in it
  (`Leftover`): the alias of a parent (line 315), if `services.yaml` gave its child another one
  between the calls; and the replacement of a token for which a factory asks before the override of that
  token has come, so that the factory gets another service than it did in the first call.
- Any `SyntaxError` an application throws is answered 400; `HttpErrorHandler` does not look at
  `headersSent`, the default handler does.
- An upgrade to another path is left open and keeps `close()` from resolving, as do clients
  that stay (the second disjunct of `CloseSettles`).

### Fairness

- Pipeline, `FairSpec`: weak fairness of each delivery's process.  The event loop
  resumes every continuation that is ready and a handler or store promise settles.
  `EventuallyHandled` adds what lies outside the kernel (`Helpful`): the transport
  redelivers, and neither the handler nor `commit()` fails every time for ever.
- AMQP, `FairSpec`: weak fairness of each call of `handle()`, of the broker's delivery
  and of `Reconnect`.  The code tries to reconnect once; fairness of `Reconnect`
  assumes that the broker can then be reached.
- AMQP connection and HTTP server: weak fairness of "some promise that can settle does".
  What is under way is finite, so `CallsSettle` is a `<>[]`.  A dial is answered, one way
  or the other; HTTP connections are assumed to end.
- Dead letters, `DlxFairSpec`: weak fairness of each call's step: the broker answers and the
  handler settles.  Nothing is assumed of the consumer that refills the queue, nor of
  the network, so a call settles even if letters never end.
- HTTP connections: a request is answered or fails, keep-alive and closing timers of node and ws
  expire, node calls back.  Nothing makes a client go.
- In-memory adapters, kernel and startup are checked for safety only: their steps wait for
  the application.

## 4. Proofs

All are for arbitrary constants that satisfy the modules' ASSUMEs.

They assume what the modules assume of their constants.  Most of it says that a bound is a number
and a name is not one of the reserved values (`NoneAssumption`, most of `IdsAssumption`).  What says more: the idempotency middleware is
registered at most once, and not late (`ListAssumption`), `NODE_ENV` is a name and `local` a file
(`NamesAssumption`), the default of a boolean is a boolean and that of a number prints as what
parses to it, as their types demand (`DefaultAssumption`), `toLowerCase()` leaves "true" and
"false" alone (`LowerCaseAssumption`), a resolver of recipients returns an array (`RecipientsAssumption`), the error
handlers are those the modules name (`HandlersAssumption`), the id of a class is its own and not that of
an override (`IdsAssumption`), services and overrides have the shape their types give them, and no
`useClass` is an abstract class (`ServicesAssumption`, `OverridesAssumption`): TypeScript
lets none be passed for a constructor.

**ConsumerPipelineProofs.**  `TypeCorrect`; then the argument for
`MutualExclusionHolds`.  `MutualExclusion` is not inductive: a delivery is in the
handler because of a frame far above it.  The invariant `IInv` says that the
idempotency middleware keeps its place in the list although the list grows
(`ListInv`), and that a delivery past that place owns its key (`OwnerInv`): the key
is claimed and no other delivery of it is past it.  Every action either
stays on one side of that place, or goes through `Claim`, `Commit` or `Release`.
`Refinement` shows that each step is one of `KeyedHandling`'s, or a stutter, under the
mapping `Phase`; it assumes that the idempotency middleware is registered and
`MaxAttempts # 0` (with 0 attempts a handler that never ran is recorded as handled).
`PromiseInv` is an invariant of `KeyedHandling` alone, under that mapping, and gives
`OnceAndKnownHolds` and `HandledMeansSucceededHolds`.  `ReleasedByHolderHolds` follows from
`OwnerInv`.

`NoSilentDropHolds` has two hypotheses, and TLC refutes it without any part of them.
`MaxAttempts # 0`, since with 0 an event is acknowledged for which no handler ran.
`KeepsNoClaims`: of the store's calls only `commit()` fails, and a store that outlives the
process sees no crash.  Otherwise a claim stays in the store with nobody working on it, and
every redelivery is refused as a duplicate and acknowledged.  The invariant
`DropInv` says that a claimed key has a delivery past its claim, and that a delivery which came
back without a success left another behind that has not; the one that holds the
claim is such a one.

`AttemptsBoundedHolds` is about nested loops.  `AttemptInv` gives each delivery a budget: `bound[i]`
is what the frames above frame *i* have used of the runs, a retry frame adds the
attempts that are over times what is below it (`Spent`, `Below`), and no frame is entered that does not fit
in the rest.  A retry middleware that is registered late multiplies `Below` for every frame above
it, on both sides.  The property is about deliveries `InFlight`, since `runs` of one that waits for redelivery is
over and the list may have changed.  The hypothesis `MaxAttempts # 0` cannot go:
with 0 a late retry makes the bound 0 while the handler runs.

**AmqpDeliveryProofs.**  `InvariantHolds` proves one inductive invariant, whose parts
are named and commented there: work on one event on one channel proceeds one call at a
time and header by header (`OneByOne`, `FutureUntouched`, `ReadyUnseen`); a consumer lives until
the message it got is finished (`ViaRegistered`, `ConsumersRegistered`), so that
an entry of `delayConsumers` can always be matched with a consumer although the
entries do not say whose they are.  The two that need it, `NothingLostHolds` and
`ListedHasConsumerHolds`, assume `Invalid = {}`: section 3 says why.
`NothingLostHolds`, `ListedHasConsumerHolds`, `RetryBudgetHolds`,
`OneOutcomeHolds` and `TypeCorrect` follow.  Losing the channel ends `FirstChannel`, to
which the safety properties are restricted: the retry queues are consumed without
acknowledgement, and their copies die with the channel.

Of the dead letters, `LettersKeptHolds`: an event in the dead-letter queue stays there,
or with a call that is alive, until a handler succeeded with it.  With the lengths and
ranges of `DlxTypeOK` the property is inductive.  `HeldMove` is the one step that moves letters: those of a
call go back or, acknowledged, are among `retried`.  Of the consumer it is enough
to know that it appends a letter whenever it adds an event to `dlx`.

`ResolvedTriedAllHolds` is a counting argument.  For a call without `messagesToRetry`,
`RoundsSuffice` bounds the letters it has yet to try, and those that came back and wait, by the rounds it
has left and the letters that ever came back.  A round takes the head of the queue, which is
either a letter that came back, or the least of those never taken; and then it is one this call found
unless all of those were taken, since what was written later is behind
them (`CallShape`).  A letter that comes back adds one on both sides.  A call that has
resolved has no round left.  `Least` is the least-number principle, from the
well-foundedness of `<` on the naturals.

**AmqpConnectionProofs.**  `TypeCorrect`, and `LinksInv`: a connection without a channel belongs to the one
call that creates it, and whoever dials has done nothing yet.
`OrphansNeedOverlapHolds` by `CountInv` and `OneDial`.  A dial turns into one open channel or
none, so the two are counted together: a break takes a channel and begins a dial, and only a dial
that begins beside another adds to the sum (`DialsCount`, `BreaksCount`); so there are never
more than one and the overlaps.  Without an overlap only one call dials at a time, and none does while a
channel is open.  `ConsumersResumeHolds` by `ResumeInv`, which says what the
reconnects amount to: each consumer is consumed on an open channel, or there is a call that
has not come to it and will (`Carries`: it dials, or works on a channel that is open); and if the field
names a channel that is broken, some call dials.  A loss takes the consumers of its channel,
and the calls on it, but begins a call that dials and starts with the first consumer; a call that
fails on a channel that broke had such a one beside it already.

**KernelLifecycleProofs.**  `JobNeverOverlapsHolds` and `PermitAccountedHolds`, by `OnePermit`: a call
that is under way holds the permit.  Then a second `Begin` has none to take, and the `End`
of one call cannot free what another holds.  `KernelTypeCorrect` types the rest.
`DownInv` follows each `shutdown()` through its three loops: what it has yet to close in this
loop is the beginning of a list that has since only grown (`TodoOf`), what it closed was
behind that (`ClosedOf`, `OrderOf`), and what was due and is still open is in the copy, or in a list whose
loop is to come (`DueOf`).  `ReverseOrderHolds` and `ShutdownClosesAllHolds` follow.
`TimersListedHolds` by `TimersInv`: while `runSchedulers()` runs, a scheduler has at most one cron
task for each entry the loop has passed, and one that `runSchedulerNowAndSchedule()` made for it early.
An entry that was pushed early is passed once, so that what it has too many stays one.

**KernelStartupProofs.**  `CurrentContainer` (`ActiveIsConfigured`): a kernel becomes active at its
`CompileSettles`, long after its container became the static one, so the invariant is about all kernels
whose container waits for a first call or for one to settle (`StartingIsConfigured`): each is the
static one, or its kernel is an exception already, since whoever configures another adds it to
`overtaken`.  `RetryKeepsOptions` (`NoWayBack`) looks at
every step (`StuckSteps`): a kernel that failed has an instance (`StartedOnce`), whose options a
later call leaves; without `services.yaml` and with options that do not write it, no step
but the construction of another kernel leads out.  `LoadsConformHolds` is about the two
steps that load: what passes the checks of a schema, blank or filled by a default, is
parsed as the schema documents (`ValueConforms`), whatever is blank, upper case or a number, and
everything else is taken as it is.  That a default is parsed as itself is `DefaultAssumption`.

`ResolvesAsDeclaredHolds` needs what compile() makes of a container, for any services, references and
overrides, and not of one that is empty: most of the module is about that.  `Containers` is its type: ids
occur once, and the ids that have aliases are those of services or of tokens, never those of what an override
defines, so that a replacement is delivered without a detour.  Each operator has a lemma that says what it leaves alone:
`ApplyOverride` keeps the services and their places (`SameServices`), and all that is redirected is
what names its token (`Redirected`, `KnownFacts`).  Then compile() is followed override by override
(`Stage`): a token of this call's overrides, asked for by itself or by any id that names it, leads to the
place of its replacement (`Delivers`), a token that no call replaced still leads to its last child
or itself (`Untouched`), and a factory gets what is declared of what it asks for (`FactoryGets`).
That one override takes nothing from another token (`KeepsDelivers`) is where names of their
own are needed.  `CompiledResolves` is the result for one call.  `AllSound` adds what it assumes
of the kernels: the container is empty before the first call, has the overrides of the instance only,
whichever options a call came with, and no abstract service that one of them replaces a token by.

**InMemoryPubSubProofs.**  `TypeCorrect` for the hook pipeline and the adapters together.
`SubscriberInv` relates subscriptions and entries, and gives `OpenIsSubscribedHolds` and
`ClosedIsSilentHolds`.  For `ReachedExactlyHolds` the invariant `WalkInv` adds
what holds half-way: a handler left alone has been called once for each of its entries
the iterator has passed (`Passed`), and was expected once for each it will see (`Seen`).  A
change of another handler leaves both sets alone, since entries are appended or
marked `Gone` and never move; a step of the iterator passes exactly the first entry ahead.
`HooksCompleteHolds` by `HooksInv`: a loop stands at the last hook it called, and ends
only when it has called as many as the loop before it, since the list of hooks does not shrink.

**ExpressKernelServerProofs.**  `PipelineInOrderHolds` by `BuildInv`: what a `run()` has applied is
described by the next item it comes to, a place in the order of kinds and a
number within the kind (`Reached`).  All that it applied is before that, sorted, and contains the items it was called
with of all earlier kinds.  Lists only grow at their end, so that no registration disturbs this;
each leg moves the place on (`AtHook`).  `ClosedIsDownHolds` by `DownInv`: the servers that are up and
not in the field (`Lost`) are no more than were replaced in it, since a `run()` puts its server over
another or over none, and a `close()` that empties the field has its own server closed; and while the
field is empty an application is one whose `listen()` threw.  `TypeCorrect` is part of it.

**HttpConnectionsProofs.**  `HubMirrorsSocketsHolds`, with `RegisteredAreClients` as the
strengthening: only sockets that are or were clients carry identities, so that a connection
that ends as something else has nothing in the hub.  `RegisterIInv` and `UnregisterIInv`
are the two steps that change the Map; one identity at a time (`Mirrored`).
`SameStreamHolds` by `StreamInv`, which is the property for every two clients and the acknowledgement: what
is sent to one of two clients registered for the same identity once (`Alike`) is sent to both, in as many copies
as the recipients name it, so that one stream stays the end of the other.

`FailuresAnsweredHolds` walks two chains.  `Handled` says what is known of an error after each handler
of `HttpErrorHandler` (`Chain`): nobody answered a request that was already begun, and where the
application's handlers decline, those that are over have declined, so that the first that does not decline answers
with the documented status (`Answer`).  `Passed` says the same of the error handlers around it, between which
the error may become another: a status that cannot be sent throws, and the next one answers 500, which
is what `Documented` says of it.  A malformed error leaves a status that was only set, which Express
answers if it is one of an error, and else 500.

**Recursion.**  What a recursive function such as `Compiled`, `Power` or `HandleError` computes
is proved without the induction theorems of the library, whose operator parameters no backend here can
instantiate.  `Least` is the least-number principle for a set of numbers, from the well-foundedness of
`<`; `UpTo` is induction with a set in the place of a predicate, and `Recursion` says that a
function given by its first value and a step exists.  The lemmas whose names end in `Steps`, and
`PowerDef`, unfold the functions of the model with these.

**Only model-checked.**  Liveness (`EventuallyHandled`, `EveryEventSettles`, `QueueDrains`,
the three `CallsSettle`, `CloseSettles`) is out of the prover's reach.

## 5. Not modelled, and the plan

Worth proving next, across components: that the deliveries of `AmqpDelivery` are those a transport of
`ConsumerPipeline` may make.

Not modelled, in parts that are:

- Aliases that `services.yaml` itself may define, and how the container wires constructors.  What it does when
  it is compiled again is `LoadFails`, or a load as the first.
- One container given to two kernels, one that the application compiled or put definitions into
  itself, an `options.di` that is a stub, and two calls of one kernel's
  `dependencyInjection()` at a time.
- `ExpressControllerResolver`, which hands a class of the container to routing-controllers,
  and `RoutePrefix`, a string concatenation.

Left out for good: domain objects and repositories, which are sequential and delegate to an
array, a Map or MongoDB; loggers (formatting); type declarations and the
example; and what node-cron, amqplib, express, ws, dotenv and node-dependency-injection do
inside.
