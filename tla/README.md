# Formal models of web-template-go

`web-template-go` is a Kratos server template: a process with HTTP, gRPC and
optional WebSocket, MQTT and RabbitMQ servers, optional outgoing dependencies,
a sample use case, and a tool that scaffolds new modules from a proto. Most of
its lines are constructors and settings. What can really go wrong lies in a few
places: two caches shared by concurrent requests, the order in which resources
are opened and closed, a remote call whose outcome is unknown, and a source-tree
editor that stops half way. These are modelled here in TLA+, checked with TLC on
small instances, and their safety properties proved with TLAPS for all instances.

    tlc -workers 2 -config MCReadinessCache.cfg MCReadinessCache
    tlapm ReadinessCacheProofs.tla

`PROJECT.json` lists the runs, the theorems, the source lines behind every
definition, the hazards and the faults each property was tried against. A
definition commented `Fault:` is such a fault: the same operation with a
plausible bug, used by no specification.

## Inventory

| component | state | operations | who it meets | what is hard | correct when |
|---|---|---|---|---|---|
| readiness cache, `internal/service/system.go` | `cacheAt`, `cacheReady`, `cacheChecks` under an RWMutex | `readinessSnapshot`, by any number of HTTP handlers | the database clients, by pings with a time-out and no lock held | overlapping misses store out of order; a hit and a store are two steps each | no answer is older than the TTL; status and checks agree; the map is not raced; every request is answered |
| RabbitMQ publisher, `internal/pkg/messagingx/rabbitmq.go` | `clients`, exchange to connection, under an RWMutex | `Publish`, `getOrCreateClient`, cleanup | use case above, broker below, process cleanup | double-checked creation; dial under the write lock; cleanup without the lock | one connection per exchange, all closed, none used after closing |
| greeter use case and adapters, `internal/biz/greeter.go`, `internal/data/greeter.go` | none of its own; the outcome of a call is spread over instances | `CreateGreeter`, `SaveGreeter`, `PublishGreeterCreated` | another instance over gRPC, the publisher | timeout or lost reply with the save done; publish before the answer | events and "ok" only for confirmed saves, events once per instance; a blank name has no effect |
| process life cycle, `cmd/server/main.go`, `wire_gen.go` | which resources are open, what is deferred | `loadBootstrap`, `wireApp`, `app.Run`, cleanups | all providers | failure at any provider, signals, panics | closed in reverse order on every path; used only while all is open |
| database providers, `internal/pkg/dbx` | a pool each | open, ping, close | life cycle, readiness | ping fails after opening | the provider closes what it does not return |
| registrar, remote client, tracing, metrics (`discoveryx`, `grpcx`, `tracingx`, `metricsx`) | a handle each | constructor and cleanup | life cycle | the same | the same |
| servers, `internal/server` | listeners, sessions in libraries | constructors, handlers | life cycle, services | soft failures of the optional servers; publisher and consumer read the same settings differently | run only while all is open; a consumer only beside a publisher; drained before the cleanups |
| readiness probe, `deploy/k8s/deployment.yaml` | failures in a row, whether the pod is ready | a request every 5 s, given up after 2 s | readiness cache | sequential pings, one of which outlives its context, and a cache against the probe's timeout; other clients and given-up probes write the cache | an outage takes the pod out, its end brings it back, both within a bound; a short outage, or one that is over, does not take it out |
| scaffold, `internal/scaffold/proto.go` | the source tree | `RunProto`, 13 steps | Kratos CLI, make, the developer | failure between any two steps, reruns, modules that share names | success means compiled, wired, configured; names once; running again for a module loses none of the code in it (a run for another module of its base name may) |
| configuration, logger, generated API, MQTT publisher, other manifests | immutable, or none | construction | all | nothing concurrent | - |

A request meets the components in this order: server → service → use case →
remote client or local save → publisher. `/readyz` goes from the server to the
readiness cache and from there to the database clients. `wireApp` builds all of
them and hands `main` one cleanup, which runs after `app.Run` has returned.

## Modules

| module | extends / instantiates | models |
|---|---|---|
| `RWMutex` | - | `sync.RWMutex` as the two caches use it (library code, from its use) |
| `ReadinessService` | - | abstract: one answer to each request, whole, and nothing in it that was last true a TTL before the request |
| `ReadinessCache` | `RWMutex`, `ReadinessService` | `readinessSnapshot`; refines `ReadinessService` |
| `ReadinessReports` | `ReadinessCache` | the same with a history of reported outages |
| `ReadinessProbe` | - | the kubelet's probe, `readinessSnapshot` from ping to ping, outages; behaviours without end |
| `ReadinessFlaps` | `ReadinessProbe` | the same with a history of how long there has been trouble |
| `SharedConnections` | - | abstract: one connection per exchange, opened when first wanted, open while anybody uses it, closed once at the end |
| `ExchangePublisher` | `RWMutex`, `SharedConnections` | requests that publish, `Publish`, `getOrCreateClient`, the cleanup, shutdown around them; refines `SharedConnections` |
| `ScopedResources` | - | abstract: an owner that opens resources in rank order, uses them when all are open, and closes them in the opposite order |
| `Bootstrap` | `ScopedResources` | `main`, `wireApp` and the providers; refines `ScopedResources` |
| `GreeterFlow` | - | `CreateGreeter` and its adapters over a chain of instances |
| `GreeterProcess` | `GreeterFlow`, `ExchangePublisher` | one process of the chain: the greeter on its publisher, with shutdown; implements the publisher's specification |
| `Scaffold` | - | `RunProto` and the developer between runs |
| `ScaffoldPaths` | - | `NormalizeProtoPath`, `cleanRelativeDir`, `singularize`, the registration text, as functions with their reference definitions |
| `MC*` | one of the above (`MCScaffold`: two) | definitions for TLC (symmetry, typed proto paths, bounded inputs) |
| `*Proofs` | one of the above | theorems |

### RWMutex

Readers enter while no writer holds or has announced itself. A writer announces
itself (the inner `sync.Mutex` taken, new readers held off) and then waits for
the readers to leave. That second step is what makes a forgotten `RUnlock` a
deadlock, and a read lock taken while a writer waits block. A release action
says who releases; the properties of the users show that the mode always fits.

### ReadinessCache

`pc[r]` is the next statement of request `r`. `Begin` reads `time.Now()` before
the lock is asked for, as line 125 does. `ReadReady` and `CopyChecks` are the
two reads of a hit. `Check` is one dependency's ping: its request and its result
are the two ends of an interval of at most `PingTimeout`, and `Tick` cannot pass
that deadline. `StampCache` and `StoreChecks` are the two halves of the store.
`Fail` and `Recover` are the world. A ping is answered by what the dependency is
when the answer is made, or "down" when time is up, also for one that works.
A dependency whose client is nil is "skipped". `seen` and `cacheSeen` record
when a check was observed; no action reads them.

`Stamp(r) == now[r]` is the line the whole cache depends on: the entry carries
the time at the START of its request. Stamped at the store instead, an entry
made by slow pings would be served for up to the TTL plus the time of its pings.
`PingTimeout` is the longest that any of the clients waits.

`ReadinessService` is what the callers get without pings, lock and cache. A request
asks and is told a list; what the list may say of a dependency depends on the world
and on when the request came (`MaySay`), and the status on the list. `Service` maps
a request to one that waits while it runs, and its answer to the step in which it
has both halves; every other step of the cache is invisible. The refinement is
stronger than the three promises together: the answer is one step, made of one list,
and no action of the cache may make up another.

### ReadinessProbe

`ReadinessCache` asks what one answer may say; this module asks what the answers
do to the pod. Against a probe that counts seconds the statements of a handler
take no time, so a handler is a sequence of pings: `Begin` (a miss), `NextPing`,
`LastPing` (which stores and answers). `at[h]` is the ping it is in and `age[h]`
the time since its `now`, with which it will stamp the entry. A ping lasts up to
`Latency` if its dependency works throughout, up to the dependency's `PingTimeout`
if it was down for some of it (`MayTakeLonger`). That time is the client's and not
always the second of the ping's context: `NewRedisClient` leaves
`ContextTimeoutEnabled` unset, so that go-redis gives up a read at its `ReadTimeout`
(3 s by default), after up to a second for a new connection.

`ProbeHits`, `ProbeMisses` and `ProbeTimesOut` are the kubelet; `Record` is its rule
(three failures in a row, one success). A probe that is given up after two seconds
leaves its handler behind, which goes on beside the next one and stores what it has
seen: with Postgres and Redis hanging, five seconds after it began, and a sixth with
MongoDB, a period or more. So every probe that misses gets a handler of its own from
`Probers`, and `probe` is the one whose answer counts. A client may ask at any time, and its handler writes the entry
the next probe reads. Times are ages, capped where no guard looks any further, so that
there is no clock to run out and no bound on how many probes and outages there are.

`ReadinessFlaps` adds one clock, the time since the pod was last calm. Outages that
a probe cannot tell apart are one trouble; `OnlyLastingTroubleTakesPodOut` says that the
pod goes out only when the trouble has lasted for `failureThreshold - 1` periods, less
the pings of one probe (`HasLasted`), and is not over for longer than an entry or a
probe lives (`IsRecent`). This bounds from below what a pod is taken out for.

`OutageBound` is the entry's TTL, plus the wait for the next probe, plus two more
periods, plus the last probe's timeout. `RecoveryBound` is the TTL, the wait for a
probe and its pings. Neither grows with the ping timeouts: an entry is as old as its
handler, so what a handler brings after more than a TTL is never used.

### ExchangePublisher

A request arrives, may publish, and is answered; it may publish after the stop
signal, being accepted before it. One action per statement that touches shared state, among them both lookups, the
dial and its failure under the write lock, the insertion, and the cleanup's
loop. A connection is a count, so that a leak is visible as a second one. The
cleanup takes no lock, as in the code; `BeginCleanup` waits for the requests in
flight, because `app.Run` does (below, External code).

`SharedConnections` has no map, no lock and no look-up. A user enters, takes an open
connection, drops it, leaves; a connection is opened by somebody inside when there is
none, and closed when nobody can come any more. `Connections` maps callers to users,
a caller at `send` to one that holds its exchange's connection, and the five steps of
`getOrCreateClient` to `Connect`, `Take` or nothing. What the refinement adds to the
invariants is their order: that a connection is given out while it is open and not
just used then, and that nothing reopens.

### Bootstrap and ScopedResources

`config` chooses a mode for each provider in `Init`, so that one run covers all
configurations. `Open` and `Ping...` are separate: between them the resource
exists and the provider's cleanup does not. `Refused` starts the cleanup at the
provider before the one that failed, which is how `wireApp` unrolls its error
paths. The cleanup position goes on down through `main`'s deferred calls of
tracing and metrics. `Close` of a disabled provider does nothing. `Scoped` maps
`open` to itself and the phases to "closing": the refinement says that nothing
is opened out of order or while in use, and that each close is of the last one
still open, on success, failure, signal and panic alike.

`New...Server` are the constructors of the transport servers as the sets of what
they may return, at most one server each: nil comes of disabled or, silently, of
incomplete settings. `Run` is given those that are not nil. The consumer shares its
settings with the publisher: disabled ones leave out both, and what the publisher
refuses never comes to the consumer.

### GreeterFlow

`pc[c][n]` is where call `c` is at instance `n`. Instance `n` saves by calling
`n + 1`, the last saves locally. `GiveUp` is the caller's timeout or a lost
reply: the callee carries on. `Publish` answers "ok" whether the broker took the
event or not. Names are reduced to blank or not, which is all the code tests.

### GreeterProcess

Its variables are those of `GreeterFlow` and of `ExchangePublisher`, and its
actions conjunctions of theirs: `Deliver` is a call of the chain and an arrival at
the publisher's process, `BeginPublish` happens when `CreateGreeter` stands at its
publish, `DialFails` and `Send` return through it, `Finish` needs the reply to be
made. `Here` is this process's place in the chain; the other instances are as
`GreeterFlow` has them. Because the actions are made of the components', every step of
the process is one of the greeter's and one of the publisher's, or leaves it alone: that
is how the module is written and no result. What it is for are the questions that
neither component answers. `ImplementsPublisher` is one for its fairness: the publisher
takes for granted that a handler ends, and here a handler waits for other instances, of
which only the first is known to run. `CleanupLeavesNoCallBehind` and
`AcceptedCallsAreAnswered` relate the two: a call of the greeter, its handler at the
publisher, the stop.

### Scaffold

`run.step` is the next step of `RunProto`; every file the tool edits is a
variable, and `Abort` may follow any step because nothing is undone. `Mentions`
models `strings.Contains` on registrations by what it does: a call's text is
found inside another's when its directory ends the other's. `Constructor` keeps
the fact that services are named by the base name and use cases and repos by its
singular. Stub files are named by the base name alone and hold the module they were made
for: biz and data stubs are overwritten, a service stub that exists is kept, and
`ServiceStub` may make none, which `RunProto` does not mind. `config` is the state of
`configs/config.yaml`: missing (nothing is injected, and no error), without a
`remote_grpc` section (one is appended at the top level), or with one. `latest` is
history, for `SuccessIsComplete`: which module of a base name was run for last. `Edit` and `RemoveProto` are the developer between runs; `edited` tracks
whether a stub holds code somebody wrote.

`ScaffoldPaths` has the functions the pipeline's inputs come from. A path is a
sequence of names. `CleanPath` is compared with `Meaning`, which says by counting
which names a later `..` undoes; `Accepts` with the set of paths that lead below
`api/` to a named proto in a package and a version; `Singularize` with the English
plural it should undo, its exceptions (house, prize, axe, movie) stated; `Mentions`
of `Scaffold` with `strings.Contains` on the registration texts. These are ASSUMEs,
which TLC evaluates in each scaffold run, and `MCScaffold` takes its protos and its
singulars from the functions.

## Runs

| run | instance | shows |
|---|---|---|
| `readiness_cache` | 2 requests, 2 dependencies, TTL 2, ping timeout 1, clock to 3 | freshness, outages reported in time, whole answers, no race on the map |
| `readiness_service` | 2 requests, 1 dependency, TTL 1, ping timeout 1, clock to 2 | the cache implements `ReadinessService`, every request is answered |
| `readiness_reports` | 2 requests, 1 dependency | **violation**, see Findings |
| `exchange_publisher` | 3 callers, 2 exchanges | the publisher's invariants, every call and the shutdown complete, `SharedConnections` is implemented |
| `readiness_probe` | 2 dependencies with pings of up to 1 s and 4 s, 2 handlers of probes, 1 client, half seconds, no end | outage and recovery reach the pod within their bounds; only trouble that lasts, and is not long over, takes it out |
| `bootstrap` | all 2187 configurations of 8 providers, every set of servers, 2 requests | no leak, no use outside, servers have their resources, refinement, a stop ends |
| `greeter_flow` | 2 calls, 3 instances | event and answer properties, every call is answered |
| `greeter_slow_publish` | 1 call, 2 instances, no fault but a slow broker | **violation**, see Findings |
| `greeter_process` | 2 calls, the second of 3 instances | the publisher's fairness holds under this greeter, accepted calls are answered, none is left behind |
| `scaffold_namesakes` | `order/v1/order.proto`, `shop/order/v1/order.proto` | what success means, no duplicates, edits kept |
| `scaffold_registration` | as `scaffold_namesakes` | **violation**, see Findings |
| `scaffold_versions` | `order/v1/order.proto`, `order/v2/order.proto` | **violation**, see Findings |

### Why these bounds

- *Readiness.* Overlap, overwriting and a hit on another's entry are all between
  two requests; a request may begin again, so one actor gives many. Two
  dependencies with a disabled one between them give a snapshot taken over time,
  "skipped", and "one of them down". A clock to 3 with a TTL of 2 lets an entry
  be made by a slow request, expire, and be replaced. Requests are symmetric and
  the run has only invariants. The run for the refinement and for liveness has no
  symmetry, and one dependency that can use its whole timeout: progress does not
  depend on how many pings there are, only on each being bounded, and whether an
  answer may be given is decided for each dependency by itself; with two the abstract
  lists make the run too long. A clock to 2 lets an entry expire and be made again.
- *Probe.* The manifest's numbers in half seconds: TTL 4, first probe after 10, period
  10, probe timeout 4, threshold 3 (the default; the manifest is silent). A half second
  is the finest division the order of these events needs: all given times are whole
  seconds, and half a second is a working dependency's `Latency`. Two dependencies, as
  Postgres and Redis are: a ping that ends after 2 and one that may take 8, so that two
  can fail one after the other and a handler still runs when the next probe is sent; a
  third dependency adds length only. That a working process answers within the probe's
  timeout is an assumption, see External code. The outage that is timed is that of the first dependency, the worst
  case: it is pinged first, so what was seen of it is oldest when an entry is stored. The
  other fails and recovers freely. Two handlers of probes are enough: one is over,
  after at most 2 + 8, when the next probe is sent, or at the same moment after that.
  One client is one handler at a time, but begins again and again. Handlers of probes are symmetric. The run has a VIEW, which
  caps a handler's age at the TTL, all that `Store` reads of it, and forgets which
  handler answered a probe that is over; of these only the type invariant speaks.
- *Publisher.* Two callers race for one exchange while a third is in a lookup,
  waits, or works on the other exchange.
- *Bootstrap.* All configurations; two requests so that a stop meets one that has
  ended and one that has not.
- *Greeter.* Three instances have a first, a middle (callee and caller) and a
  last one. Calls share no state in this module; two show that.
- *Process.* Two calls need the same connection; the middle of three instances is
  called by one and calls another, and either may time out.
- *Scaffold paths.* All sequences of up to five of seven names (empty, `.`, `..`,
  `api`, a version, a proto, a bare `.proto`): long enough for `api/`, three names
  and a detour. All words of up to four of eight letters: the rules look at three.
- *Scaffold.* Two modules that share file names, stubs and constructors, the worst way
  to collide. Two with different files but one singular (`order.proto` and
  `orders.proto`) share less, and the theorems hold for every set of protos. Runs and
  edits may repeat without bound; the state is finite because each list holds a name
  once. For the stubs two versions of one module are enough, the case the template's own
  naming (`order/v1`) asks for.

Every property of a passing run was tried against a fault it must catch;
`PROJECT.json` pairs them.

### Fairness

Weak fairness of the program's own steps: goroutines run, pings, dials and sends
return because each has a deadline, deferred calls are made. Strong fairness of
taking a lock: it is disabled and enabled again while others hold it, and
`sync.RWMutex` admits the readers that wait at every `Unlock`, while its writers
queue on a `sync.Mutex`, which is starvation-free. None for the world: clients
need not call, dependencies need not recover, the clock need not move, nobody
has to stop the process. In `ExchangePublisher` a
handler is fair as a whole: it publishes or ends. In `GreeterProcess` this process
and the first instance are fair, no other: a call is answered here because its own
remote call ends at its timeout, and the process can stop because of that. In `GreeterFlow` only the first instance is fair: a call
is answered because its own timer ends it, though all others hang. No run
disables the deadlock check: a model that really ends (the process exited, all
calls answered) says so with an action that stutters in that state.

## Findings

1. *`/readyz` can take back an outage it has reported.* A request that started
   early and pings slowly stores after a later one that saw the outage, and the
   next request, within the TTL of the older stamp, answers ready. README.md:143
   has it that 503 is returned when an enabled dependency is not available. The
   damage is bounded: `FreshReply` and `OutageReportedWithinTTL` hold, and are
   proved. A store that keeps the newer stamp would remove it.
2. *A slow publish breaks the main flow of the caller.* README.md:236: a failed
   publish is only logged. `CreateGreeter` waits for it before it answers, and
   the wait for the publisher's lock and dial does not end with the context. The
   run shows a greeting saved and not announced, and its caller timed out with an
   error. The instance that saves keeps the promise itself: where the save is local no
   answer but that to a blank name is an error (`AnswersTellOfTheSave`, proved).
3. *A service is taken for registered because another is.* CONTRIBUTING.md:54 says
   the service is registered in both servers. The test is a substring test, and
   `shop.order.v1.RegisterOrderServer(srv, order)` contains the call for
   `order.v1`. The run for the second module goes on without a registration.
4. *A second version of a module gets no service stub.* CONTRIBUTING.md:53 says that
   service, biz and data stubs are generated, README.md:200 that the service stub is
   `internal/service/order.go`. Stub files are named by the base name alone.
   `kratos proto server` keeps a file that exists, and `RunProto` does not ask for whom
   it was made, nor whether there is one: the run for `order/v2` succeeds with the
   service of `order/v1`, whose biz and data stubs it has overwritten. What success does
   mean is `SuccessIsComplete`, proved.

## Proofs

Every invariant and action property of a passing run is a theorem, for all values of
the constants that satisfy the named assumptions; `*Proofs.tla` hold them.

| module | assumptions | inductive invariant `IInv`: type invariant and |
|---|---|---|
| `ReadinessCacheProofs` | `NoRequest` is no request, `Enabled` are dependencies, TTL and timeout at least 1 | `LockInv`: who holds the lock at which step; `ClockInv`: nothing from the future; `UpInv`: an "up" is older than the present outage; `CacheInv`: outside a store the cache is one whole snapshot begun at `cacheAt`; `RequestInv`: what a request has gathered when it comes to a step |
| `ReadinessProbeProofs` | the names and settings of `ProbeAssumption`: positive times, any timeout for each dependency above what it needs when it works, a probe shorter than the period, the pings of a working process over within it | `ProbeInv`: a probe's handler began with it; `AgeInv`: a ping is not older than its handler, and takes long only in an outage; `OutageInv`, `HealthInv`: whoever has seen the state before the outage, or its end, is as old as that |
| `ReadinessFlapsProofs` | the same | the same and `FlapInv`: since a failed probe was sent there has been trouble, but for its pings |
| `ExchangePublisherProofs` | `NoCaller` is no caller | `LockInv`; `ServingInv`: open connections are the entries and what the lock's holder has dialled; `CleanupInv`: then, what the loop has still to visit |
| `BootstrapProofs` | none | `OpenInv`: which prefix of the enabled providers is open in each phase; `ServerInv` and `FlightInv`: servers and requests only while running or stopping |
| `GreeterFlowProofs` | at least one instance | `ChainInv`: calls go down the chain and answers come up, "ok" from the end of the chain, "error" for a blank name or a remote save; `EventInv`; `BlankInv` |
| `GreeterProcessProofs` | at least one instance, `Here` among them, `NoCall` is no call | `DownTheChain`: a call is not further than its saves have taken it; `HandlerPerCall`: the transport has a handler for every call the greeter is busy with; `DrainedFirst` |
| `ScaffoldProofs` | `NoProto` is no path, `Singular` covers the base names | `RunInv`: what a run has done when it comes to a step; `EditInv`: edited stubs belong to protos that exist |

No promise is inductive by itself. `FreshReply`, for one, says something of
finished requests only; to keep it when a hit finishes one has to know that the
cache was whole and as young as its stamp when it was read, which needs the
lock, the order of pings, and that a stamp is never newer than what it stamps.
Each proof has `Init => IInv`, a step per action under `IInv /\ [Next]_vars`, and
`IInv => ...`. The clock's bound `MaxTime` plays no part in any argument.

In `ReadinessProbe` the promise is a bound on a clock, and the invariant has one
inequality for every place where knowledge of the world is kept: an entry, a handler's
pings so far, the kubelet's count. `downFor <= cacheAge`, for one: an entry that says
ready, however it came there, was begun before the outage. Each side grows by one
when time passes, and each event hands one inequality to the next: begin (age 0),
ping, store, answer, count. The count is where the threshold's periods come in,
`failures * Period`, the only products. Two facts are about time alone: a handler that
meets no trouble is done within its pings' latencies (`ProbeMakesGoodTime`), and so a
probe that is given up has met some. `HealthInv`
speaks of a pod that has a failed probe and not just of one that is out: to
`ReadinessFlaps` each failure counts.

`CacheImplementsService` maps each step of `ReadinessCache` to `Ask`, `Answer`, a step
of the world or a stutter. The core is `FinishMapsToAnswer`: the list a request
ends with is one the world allows, which is `RequestInv` for a miss and `CacheInv` for
a hit. It needs one invariant more than the promises, `SkippedInv`: a list says
"skipped" of just the dependencies that are not enabled.

`PublisherImplementsSharedConnections` does the same for the publisher. `Take` needs
that the connection is open when a caller comes to `send`, which is `ServingInv`;
`Connect` that there is none when a caller comes to dial, which is the second look
and the lock (`LockInv`); `Close`, that what the loop visits is open, `CleanupInv`.
`ProcessSharesConnections` takes the result over to `GreeterProcess`.

`ProcessImplementsScopedResources` proves the refinement: initial states map to
initial states, each step of `Bootstrap` to one of `ScopedResources` or to a
stutter. Its core is that the last open provider is the one `toClean` points to,
which follows from `OpenInv`, disabled providers being skipped on both ways.

The theorems of the greeter and of its publisher, taken over by INSTANCE, are theorems
about the process (`ProcessKeepsGreeterPromises`, `ProcessKeepsPublisherPromises`,
`TypesAreRight`): two lemmas without content of their own, `ProcessIsFlow` and
`ProcessIsPublisher`, say that its steps are theirs.
`CleanupLeavesNoCallBehind` is about both: it needs that a call which is neither
absent nor answered has a handler, and that no step of another instance brings an
answered call back, which is `DownTheChain`.

Only model-checked: the liveness properties (`EveryRequestAnswered`,
`EveryPublishReturns`, `ShutdownCompletes`, `StopExits`, `EveryCallAnswered`,
`AcceptedCallsAreAnswered`, and the fairness in `ImplementsPublisher`), because fairness and ENABLED are beyond the proof system
used; and the functions of `ScaffoldPaths`, which are folds over their input.

## External code: what is assumed of it

- `kratos.App.Run` returns after all servers have stopped, and HTTP and gRPC
  servers stop after their requests in flight. `newApp` sets no `StopTimeout`.
  The optional servers may not wait for their handlers; those handlers use no
  resource of `wireApp`.
- If a registration fails, `Run` returns with an error; that it has stopped the
  servers by then is part of the first assumption.
- Redis: a ping may take its client's `ReadTimeout` and a connection, whatever its
  context says; Postgres and MongoDB end theirs with the context.
- The kubelet: a probe every period counted from the last, no two at a time, an
  answer after the timeout ignored, `failureThreshold` 3 by default.
- The dependencies, in `ReadinessProbe`: all pings of a working process together take
  less than the probe's timeout. With three dependencies that each take seven tenths
  of a second nothing is down, `/readyz` would say so, and no probe waits for it: the
  pod never becomes ready. The code does not exclude this; the model names it
  (`ProbeAssumption`).
- The AMQP, SQL, Redis and MongoDB clients: dial, ping and send return, a closed
  client is closed. Reconnecting is theirs.
- gRPC: a call ends at its timeout at the caller; the callee may carry on. A
  circuit breaker is one way to be refused.
- `kratos proto server` leaves a file that exists alone and need not make the one the
  run expects; a file is written whole
  by `os.WriteFile`; one scaffold run at a time.

## Not modelled

- Handlers of the WebSocket, MQTT and RabbitMQ servers, which log or broadcast, and
  the sessions and subscriptions of the transport library.
- MQTT publisher: not wired into the process.
- Configuration overrides: `applyEnvOverrides`, called in main.go:89, is defined in no
  file of the repository. `LoadBootstrap` stands for the configuration with whatever
  it does.
- Logger, generated code, the other manifests: nothing that changes after
  construction.
- The text of generated files, the case of letters (`upperCamel`, `lowerCamel` are
  taken to be injective), the place of an insertion in an edited file.
- A failing Kratos registration after start: part of `app.Run`, seen from here as
  `ServerFails`.
- The ping that `gorm.Open` makes by itself: its failure is one to open (`OpenFails`).
  What gorm does with the pool it gives up is inside the library.
- The error of `gdb.DB()` right after a successful open: gorm returns the pool it
  has just been given.
- Killing the process: nothing is persisted by it.

## Plan

Done, in this order: the readiness cache, the publisher, the life cycle with its
refinement, the greeter flow, the scaffold's pipeline; the composition of greeter
and publisher with both refinements; the readiness probe; the transport servers'
constructors; the scaffold's path and name functions; the proofs of all invariants;
the abstract services of the cache and the publisher with their refinements; how
much trouble a pod rides out; ping timeouts by dependency; the successes of the
scaffold that leave something out.

1. The process life cycle with `GreeterProcess` as its running phase: one stop for
   both `Bootstrap` and the publisher.
2. `ScaffoldText`: provider sets and imports as token sequences, for the empty
   set, the last parenthesis, and dotted qualifiers.
