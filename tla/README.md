# TravelGraph: a formal model

TLA+ specifications of the TravelGraph platform, the TLC runs that check them on
small instances, and TLAPS proofs for every instance. Paths are relative to the
repository; `router/` stands for `src/router/crates/travelgraph-router/src/`,
`booking/` for `src/services/booking-service/src/main/kotlin/com/travelgraph/booking/`.

## 1. The system

TravelGraph is a federated GraphQL router (Rust) in front of five Spring
subgraphs (Kotlin, PostgreSQL), with a schema registry and composer beside them.

| Component | State it keeps | Operations | Hard behaviour | Correct means |
|---|---|---|---|---|
| Circuit breaker, `router/reliability/circuit.rs` | window of outcomes, Closed/Open/HalfOpen | `check`, `record` | callers come back in any order, late, or never | opens on recent evidence only, keeps its recovery period, is probed and closes again |
| Reliable dispatch, `router/reliability/tower_dispatch.rs` | the attempt loop of each call | send, time out, back off, retry | timeouts race late processing; clients hang up | no mutation applied twice, one reply, nothing sent while open, every call ends |
| Executor, merger, planner, `router/{execute,merge}.rs`, `router/plan/` | per request | plan, fetch roots in parallel, fetch entities, merge by index | partial failures, misaligned lists | each object gets its own entity's fields; a failed extender costs only its fields |
| Request pipeline and cache, `router/{server,cache}.rs` | Redis entries with a time to live | rate limit, resolve, parse, cache read, cost limit, execute, cache write | stale writes, outages of Redis, hits that skip checks | bounded staleness, no entry crosses identities |
| Validation, limits, planner, usage, `router/{graphql/validate,limits/cost,plan/planner,usage}.rs` | per request | validate, measure depth and cost, cut the operation into texts, count fields | the parts are made of text after the whole has been measured; each stage picks its operation again | what is sent is within what was measured, can be executed by itself, and is what is counted |
| Rate limiter, `router/rate_limit.rs` | a bucket per client | find the bucket or make it, ask it | first requests race, whole seconds | burst and rate in any stretch of time; a wait as told is enough |
| Router start-up, `router/{main,config,server}.rs`, `src/k8s/base/router.yaml` | the supergraph file of the pod, the configuration | compose, fetch, load, connect, listen | each step may fail, and the pod may be replaced | listens in the end, and as configured |
| Booking service, `booking/` | table `bookings` | create, cancel | READ COMMITTED races, aborted transactions, lost replies, crashes | one booking per key, durable replies, no double booking, no overselling |
| Review service | table `reviews` | add | the same races | one review per user and property |
| Pricing service | none | quote | seasonal and weekend arithmetic, rounding | totals agree with nights |
| Property, user services | read-only tables | lookups, entity resolvers | none | - |
| Identity filter in every subgraph | a thread-local | set, read, clear | requests that change threads | no request sees another's identity |
| Schema publishers, registry | versions, snapshots | publish with retries, compose, latest | lost replies, overlapping compositions | a router that starts has what was published before it asked |
| Composer, schema checks of registry and CI | none | compare schema texts | none | breaking changes are refused |

The router calls subgraphs over HTTP through dispatch, one breaker per subgraph;
the executor calls dispatch; the pipeline calls planner, executor, merger and
cache; subgraphs publish their schemas to the registry when they start, and a router pod
starts on what the registry composes of them.
`PROJECT.json` lists every component with its status, and every hazard with its
line and the properties aimed at it.

## 2. Modules

| Module | Models | Extends / instantiates |
|---|---|---|
| `CircuitBreaker` | one breaker, its callers and the clock | |
| `SubgraphDispatch` | concurrent calls to one subgraph, the wire, the subgraph | `Breaker == INSTANCE CircuitBreaker` |
| `RemoteCall` | abstract: what dispatch promises its callers | instantiated by `SubgraphDispatch` |
| `BookingService` | create and cancel, query by query, over the table | |
| `IdempotentStore` | abstract: what a client may rely on | instantiated by `BookingService` |
| `RequestPipeline` | the `/graphql` handler for concurrent requests, the cache, persisted queries | |
| `QueryPlan` | the supergraph catalog and the plan of one root field | |
| `FederatedQuery` | one operation from its plan to its response: executor and merger | `QueryPlan` |
| `Operation` | one document from validation through limits and planner to the requests of the subgraphs and the usage | `QueryPlan` |
| `RateLimiter` | the buckets of the clients and the tasks that ask them | |
| `RouterStart` | a configuration from its sources, and what `build()` makes of it | |
| `Rollout` | publishers, registry, CI, router pods and their failures | `RouterStart` |
| `MC*` | bounds, symmetry and argument tables for TLC | the module they are named after |
| `*_proofs` | theorems | the module they are named after, `TLAPS` |

Operators whose comment begins with "Mutant" are deliberate faults; a property is
worth keeping only if one of them breaks it.

### CircuitBreaker

`samples`, `state`, `wait` are `Inner.samples`, `Inner.state` and the time left of
`State::Open.until`. Instants become distances from now: a sample has an age, which
stops growing at `Window + 1` because all stale samples are alike. `Admit`/`Reject`
are the outcomes of `check()`, `RecordHalfOpen`/`RecordClosed`/`RecordOpen` the arms
of `record()`; both prune first, as the code does. Each is one step: the code holds
the mutex throughout. `inflight` is the set of callers between their `check()` and
their `record()`; `Abandon` is a caller whose future is dropped there. `Tick` is the
clock. The failure ratio is the fraction `RatioNum / RatioDen`; the code compares
floating-point numbers, the model integers.

### SubgraphDispatch

`pc` is where a call's future stands: before `check()`, waiting for headers (under
`tokio::time::timeout`), waiting for the body (under nothing), sleeping in a backoff,
done or dropped. `Settle` is everything from the attempt's outcome to the next await:
record, then return or back off. The subgraph is the environment: `SubgraphApplies`
processes any request that has left the router, at any later time or never, and
`Headers` may bring any status, success only if the attempt was processed. `Drop` is
the client hanging up. `Inflight`, derived from `pc`, is the breaker's `inflight`.
Not modelled: a subgraph name without a breaker and a malformed URL (constant
configuration; the latter is a transport error like any other), headers, metrics.

### BookingService

`row` is the table, a row being named by the request that inserted it, and `pc` the
position of a request within `create()` or `cancel()`. Each repository call is a step
that sees what is committed by then (READ COMMITTED). `Insert` needs the key free,
uncommitted rows included; `InsertViolates` needs it committed; in between the insert
waits, as PostgreSQL's unique index makes it. `Reconcile` is the catch block: its
query runs in a transaction the failed insert has aborted, so it fails. `Begin` takes
one of `PoolSize` connections. `Crash` rolls open transactions back and loses the
replies of committed ones; `LoseReply` loses one. A date window is the set of its
nights, so half-open overlap is a common night. `seen` is a history variable: what was
committed when a request's transaction began. Not modelled: amounts and currencies,
violations of the other constraints, the seed rows, anonymous cancellations, and the time
after which the pool refuses a request that waits for a connection, which is one more way
to end. `IdempotentStore` is what `BookingService` refines: the record of each key, the
records that have been cancelled (`cancelled`), and who has been told of what.

### RequestPipeline

`pc` is the await at which a handler of `graphql_handler` (`router/server.rs`) stands:
the GET, the fetches of the root fields (`fetch`), the entity fetches (`stitch`), the
publication of field usage, the SET. `Begin` is everything up to the first of them
(`Resolve` is `PersistedQueryStore::resolve`), `Plan` the limits and the planner, which
come after a miss, and `Stitch` and `Published` end in the same tail (`Store`). `Published` is an action of the
environment, since the registry may never answer. `cache`
maps `CacheKey`s to responses; a response is named by the request that computed it and
whether it is free of errors, which is all that the properties tell apart. A SET travels
on its own (`writing`): `RedisSets` applies it, also after its handler has gone, `SetLost`
drops it, `SetOver` is the handler going on, with or without an error of Redis. `Drop` is
the client hanging up. What parses, is within the limits, has a plan or is a mutation is
a set of documents; an entry's time to live is a miss that may happen at any GET; the rate
limiter is a refusal that may happen to any request.

### QueryPlan and FederatedQuery

`QueryPlan` has no state. The catalog is a constant, the join directives of the composed
schema, and `TypeOwner`, `FieldOwner`, `Keyed` and `RootOwner` are what
`router/supergraph/catalog.rs` reads from it. A selected field is a record of response
key, name, the names below it, and whether an inline fragment surrounds it. `Guesses` is
`guess_entity_type`, with every type of the highest score, since the order of a `HashMap`
decides between them; `Share`, `InitialSelection` and `Extenders` are
`partition_for_entity` and its caller, `AsksForKey` is `client_requested_id_keys`.

`FederatedQuery` runs a plan. `initial[f]` and `entities[f][e]` are the outcomes of the
fetches of root field `f`; `InitialAnswers`, `InitialFails`, `EntityAnswers` and
`EntityFails` end one call each, in any order, as `join_all` lets them; `Merge` is
`merge::merge`. A value is the sequence of its leaves in depth-first order, null or an
object, because both walks of the code (`Refs` is `extract_entity_refs`, `Place` the index
of `walk_and_merge`) see no more than this. A field of an object carries the entity it is
of, so a misplaced answer shows. The subgraphs are external: `Accepts` is GraphQL's
validation; an entity fetch may lose any set of entities, each a null with an error, and
answers null for what is not of the type it was asked about. Not modelled here:
field arguments, variables, the text of queries (`Operation` has them), error messages,
partial data of an initial fetch other than null items.

### Operation

`stage` is how far `graphql_handler` is with the document in `request`: `Validate` is
`graphql/validate.rs`, `Limit` is `CostAnalyzer::analyze`, `Plan` is `plan_operation`, and
`Answer` comes when every call has ended. A selection is a tree of fields, inline fragments
and spreads, with arguments and directives; the planner writes trees to text and then works
on the text, so a text is the sequence of its tokens: a brace, a name, a type condition, a
variable, a literal. `Render` writes what `render_selection` and `render_field` write: no
directives, and of an inline fragment without a type condition (its name is `Dots`) the
braces only. `Quoted` is `render_value`: `Misquoted` maps the strings that escaping quotes
alone does not preserve (a backslash, a line break) to what is written for them. `Written`
is the reference: the text of a selection as GraphQL has it. `Misread` maps a literal to
what a scan of its bytes takes it for, a brace or a variable: `StripSelectionSet` and
`VariableNames` work on that, as `strip_selection_set` and `collect_variable_uses_in_str`
do. `CostedOperation`, `PlannedOperation` and `CountedOperations` are the three choices of
an operation. `cost.rs` and `planner.rs` each take the one of the name that is asked for, or
the only one; `usage.rs` counts every operation that has the planned one's name, or all of
them where it has none. `Selections` is the set of all selections of the documents, with
what is below them; `Height` says that each is finite, so that `Text`, `Depth`, `Within` and
the costs are functions defined by recursion on it. `Plus` saturates at `MaxU32`. `sent` is a history of the requests, with the variables they
declare and the values they carry; it is a set, so equal requests for one response key
count once; `usage` is what `collect_usage_events` makes of plan and
document. `Standalone` is the part of apollo-compiler's validation that concerns operations,
fragments and variables; a document it refuses goes no further. Not modelled: defaults of variables and directives of
operations, which the planner does not write either, and the wording of values.

### RateLimiter

Time is in ticks, `Second` of them to a second; a bucket is governor's theoretical arrival
time (`tats`). `LimiterFor` is one step because `DashMap::entry` holds its shard from the
look-up to the insertion, `Admit` and `Refuse` are another because governor's cell is
updated by compare-and-swap, and other tasks may come between the two. A bucket is made
without an arrival time (`Unset`); its first check counts it from then (`Tat`). `Crash` loses the
buckets and starts clock and histories again: a quota is that of one process. `admitted` and
`told` are histories. Not modelled: the clients' number, which nothing bounds.

### RouterStart and Rollout

`RouterStart` has no state. A boot is a file, an environment and a flag, each giving some
keys; `Parsed` fills in the defaults, `FromEnv` is `Config::load`, `Loaded` what `main`
makes of it, and `App` what `build()` returns: the cache, its address, whether texts
outside the manifest are executed, a breaker and a timeout for each subgraph.

`Rollout` has an instance of a service in `publisher`: `Post` and `AttemptFails` are
`publish()` with its 30 attempts (`MaxAttempts`), a request may arrive after its sender has
given it up: `posts[i]` is whether one is still waited for, and how many may yet come late
(`Publish`, `PublishLate`). `rows` is the table `schema_versions` - a row is who sent it and when it was
stored - and `LatestForEveryService` its query, which compares creation times only.
`Compose` reads it, `Composes` or `CompositionFails` end the composition later, and others
may run meanwhile; `snapshot` is the newest row of `supergraph_snapshots`, so a creation
time and the commit are one moment, and no two rows have the same time. `pod` is where a
router pod stands: the init container of `src/k8s/base/router.yaml` (`InitComposes`,
`FetchLatest`), then `LoadCatalog` and `Listen`; `StartFails`, `Crash` and `Replace` are
what sends it back, with the volume or without. `asked` is a history: the newest rows when
the pod asked, if no other composition was running. Not modelled: a file that is cut off
half way, the HTTP client, ports, tracing, the rolling update as Kubernetes orders it.

## 3. Runs

| Run | Instance | Shows |
|---|---|---|
| `breaker` | 3 callers, window 2, recovery 2, at least 2 samples, ratio 1/2, `MaxSamples` = 5 | types, the open period, evidence; decision, recovery |
| `dispatch` | 1 query with 2 retries, 1 mutation, window 2, recovery 2, timers of 1 tick | a query gives up last, a half-open breaker has a call in flight that may decide it; refinement of `RemoteCall` and of `CircuitBreaker`; every call returns |
| `dispatch_stall` | 1 query, 1 mutation | violated: a stalled body is not timed out |
| `booking` | any 4 of 8 callers: 4 requests (two with one key), an anonymous one, one for no night, 2 cancellations; pool of 3 | one booking per key, replies that last, double booking and overselling need a race; refinement of `IdempotentStore`; every request ends |
| `booking_survivor` | 2 requests with one key | violated: the loser of a key race gets the surviving booking |
| `booking_race` | 2 requests of one user with different keys and a common night | violated: an overlapping booking of the user is a conflict |
| `pipeline` | any 3 of 8 requests: one persisted query by the same user, by another one, with other variables, with a bypass, a repeated mutation, a document over the limits | replies stay with their identity, document and variables, limits hold, mutations execute, errors are not shared; every handler ends or is left waiting for the registry alone |
| `federated` | 2 root fields, 3 searches x 3 others over 4 types, 4 subgraphs and up to 3 leaves, one of them null | fields stay with their entity, the response is the selection without what was lost, no loss is silent, every operation is answered |
| `operations` | 29 documents over 5 types and 5 subgraphs, depth 4, cost 50, `MaxU32` = 80 | what is sent is within the limits, as it was written, self-contained, and what is counted |
| `operations_named` | a document with a named operation, as the load tests send it | violated: the operation that is asked for is in the text |
| `limiter` | 2 tasks of one client, 1 of another whose override is zero, 2 ticks to a second, 4 ticks | the quota in any stretch of time, and that the wait that is told is enough |
| `rollout` | an instance each of 2 services, 1 pod, 3 configurations, 2 attempts, 3 faults | routes are fresh, the router is as configured, the pod listens in the end |

**Bounds.** `MaxSamples` limits the samples in the window plus the callers in flight;
with at least 2 samples needed, 5 leave room for trips by old and new failures, for
stale samples and for stragglers. Three callers are enough for a probe, a straggler
and a caller that is rejected. Time is unbounded. Two retries give the loop a first, a
middle and a last attempt, and a query and a mutation are two calls that race for one
breaker and differ in what they may retry. The requests of `MCBookingService` are a double
click (same key and window), a second booking of the same user that overlaps it by one
night, and another user's booking on that night, for a property with one room: every
pair of checks can conflict. Four callers at a time are a race of three requests and a
cancellation, or of two and two; which four is chosen at the start. `MaxRequests` = 3 lets one request fill an entry, one read it
and one interfere, over a cache that a behaviour finds empty and that any of the eight
may touch. `MCFederatedQuery` takes a part of the platform's own schema: an entity with two
extenders, an entity that shares its field names, and two types without a key, of which one
has an id and one has none. A list with a null before two entities is the shortest on which a walk
that counts otherwise puts an answer at the wrong one, and the three searches ask for the key, do not, and use the forms that
the planner loses. The documents of `MCOperation` are those of the clients and the planner's
tests, beside forms that it does not expect: spreads, aliases of one key, a key that an
introspection field has too, inline fragments with and without a type, directives, a
string with a line break, object values, literals that look like structure, several
operations, prices that are null or negative, documents one over either limit and one whose cost would wrap. The limiter's 4 ticks hold
two seconds, a burst, a refusal and the wait that follows it; two tasks are a race for the
first bucket. In `MCRollout` one schema composes only with the other one, so the order of
publications matters, and 3 faults allow a lost reply, a composition by the CI that
overlaps, and a crash in the same behaviour. The configurations are the cluster's,
docker-compose's with the flag, and one whose manifest is cut, which never starts. The
proofs need none of these bounds.

**Deadlock** is checked where time or traffic goes on for ever (breaker, dispatch with
`Tick`) and in the limiter, where a task can always go on; it is switched off where every
request may have ended (booking, pipeline, federated) and where everything may be up with
no fault left (rollout). `Operation` says when it may stop (`Done`), so that a call nobody
ends would show.

**Fairness.** `CircuitBreaker`: the clock runs; requests keep arriving; outcomes keep
arriving, infinitely often possible means infinitely often done (strong fairness),
since a client that hangs up every time would starve the breaker of evidence.
`SubgraphDispatch`: the clock runs and ready futures are polled (tokio does both); a
subgraph that has sent headers sends the body or drops the connection. The last one is
an assumption about the environment that the code does not enforce: without it
(`StallSpec`) `AttemptTimesOut` is violated. `BookingService`: a transaction that can
go on does (weak fairness); nothing is assumed of `Crash` and `LoseReply`.
`RequestPipeline`: a handler that waits goes on (weak fairness of `Continue`). For the
fetches this rests on `SubgraphDispatch`; that Redis answers or drops the connection is an
assumption about the environment, since `cache.rs` gives its calls no time limit. Nothing is
assumed of the registry: the POST of the usage events has a limit for the connect only, and
so `EndsOrAwaitsRegistry` says that a handler ends or is in the end at that await, and at no
other.
`FederatedQuery`: each fetch ends (weak fairness of `Fetch`), which is what
`EveryCallReturns` says of `SubgraphDispatch`, with its assumption on the body; the merge
follows when the last one has ended.
`Rollout`: a pod that can go on does (weak fairness of `Proceeds`): the init container asks
every two seconds, 120 times, and exits with an error, after which the kubelet starts it
again, so it asks for ever; a process that failed to start is started again. A composition
ends (weak fairness): `waitFor` kills it after 60 seconds. Nothing is assumed of publishers,
of whom 30 failures make an instance that stays unpublished: `EveryPodListens` is about
behaviours in which the newest schemas compose from some time on. `Operation` and
`RateLimiter` state no fairness.

## 4. Findings

1. *The timeout covers the headers only* (`dispatch_stall`). `tower_dispatch.rs:188` awaits
   the body without a limit; `reliability/mod.rs:2` promises a per-attempt timeout.
2. *The reconciliation cannot work* (`booking_survivor`). `BookingService.kt:92` reads in an
   aborted transaction; the loser of an idempotency race gets an error instead of the
   surviving booking that line 30 promises. `ReviewService.kt:58` has the same pattern.
3. *Double booking* (`booking_race`). `BookingService.kt:56` looks for an overlapping booking of
   the user, line 88 inserts; nothing in the database keeps two requests with different keys
   apart, so two that overlap in time both pass, where line 55 says that an overlap is a
   conflict. The inventory check of line 66 has the same gap. `DoubleBookingNeedsRace` and
   `OversellNeedsRace`, proved, say that only the race leads there: whoever saw the other
   booking committed was refused.
4. *Named operations* (`operations_named`). `execute.rs:99` forwards the client's
   `operationName` with a text that `planner.rs:476` has made anonymous, so a subgraph has
   to refuse it; `plan/types.rs:61` calls the text self-contained, and
   `src/load-tests/lib/common.js:123` sends a name with every request.

Observations without a run of their own:

* `circuit.rs:112` says there are no requests while the breaker is open; callers admitted
  before come back then. The code handles them well (`OpenPeriodHonoured`).
* *Texts that are not what was written.* `planner.rs:385` writes an inline fragment without a type condition as
  braces within braces, which is no GraphQL, and `planner.rs:428` escapes the quotes of a
  string and nothing else, so that a backslash or a line break which the client had escaped
  ends the string or escapes what follows; `plan/types.rs:61` calls the text self-contained.
  Directives are not written either (`planner.rs:392-420`): a text without its `@skip` or
  `@include` runs, but answers more than was asked. `PartsSelfContained` is about requests
  without these (`Writable`); the run has some of each.
* *The usage comes before the cache and the reply.* `src/Context.md:12` puts the field usage
  tracker after the response cache; `server.rs:444` awaits the POST of the usage, on a client
  with a time limit for the connect only, before it stores the response (`server.rs:474`) and
  returns it. A registry that stalls holds every successful request (`EndsOrAwaitsRegistry`).
* `src/Context.md:12` also puts depth and cost limits before the cache; `server.rs:304` reads the
  cache and `server.rs:341` checks the limits. It does no harm: `OnlyAdmissibleServed` holds,
  because only what passed the limits is ever stored.
* *A user planned as a property.* `planner.rs:271` says that the entity types have disjoint
  field names. `id` and `name` are fields of `User` and of `Property`, so `me { id name }`
  is a tie that the order of a `HashMap` decides (`Guesses`, `planner.rs:281`). What is
  proved of responses presumes the right guess (`Recognised`).
* *Selected fields stripped.* `merge.rs:13` says that `id` is stripped when the client did
  not ask for it; `merge.rs:186` strips `__typename` always, `id` of a type without a key
  always, and a nested `id` below an entity whose own was not selected (`Conventional`).
* *Pods that do not wait for all services.* `router.yaml:47` says that it waits for all
  subgraph schemas; `RegistryServices.kt:28` composes what there is, and any success lets
  the pod go on (`FetchLatest`). A service that publishes later has no routes until the pod
  is replaced. An overlapping composition of older rows may also be saved last:
  `RoutesAreFresh` is about pods that asked alone.
* `src/docker-compose.yml:161-163` says that a fresh composition reaches the next request;
  the router reads the file once, when it starts (`server.rs:52`), as lines 204-206 of the
  same file say.
* *Scans of bytes.* `strip_selection_set` (`planner.rs:490`) counts braces within string
  values, and takes the braces of an object argument for a selection set where a field has
  none; `Legible` says which documents are safe. A spread below an entity's field is sent
  without its definition (`planner.rs:374`), and a variable below an extender's field
  without its declaration (`execute.rs:189`).
* *One level more than was measured.* An entity fetch wraps the fields of a root field's
  selection in `_entities` and an inline fragment (`execute.rs:189`); `cost.rs` counts an
  inline fragment as a level, so by its own measure what an extender gets may be one level
  deeper than what was admitted (the `+ 1` of `SentWithinDepth`).
* *Free fields.* A `@cost` of 0 or less on a root field makes every field of its name free
  (`cost.rs`, `FieldCost`), also below other root fields, where a subgraph may be asked for
  it in an entity fetch of its own: `SentWithinCost` is about operations without such fields
  (`Priced`).
* *Usage under a shared key.* `collect_usage_events` finds the type of a root field by its
  response key; an introspection field that is given the key of a planned field is counted
  as if it were of that field's type. `UsageIsOfThePlan` is about operations whose keys are
  distinct (`UsageCounted`).
* A type without a key and without an `id` (`Price`) still gets an injected `id`
  (`planner.rs:327`), and its subgraph refuses the query; fields within inline fragments at
  the top of an entity's selection are dropped (`planner.rs:331`).

## 5. Proofs

All proofs hold for every value of the constants that satisfies the named assumption of
the module (`ConfigAssumption`, `DispatchAssumption`, `BookingAssumption`,
`PipelineAssumption`, and for the federated query `CatalogAssumption`, `OwnersAssumption`,
`QueryAssumption` - response keys are distinct, a root field has values of the type that it
returns - and `NullAssumption`, that an object is not null; `LimiterAssumption`). For
`Rollout` these are `RolloutAssumption`, by which nothing at all does not compose, and
`BootAssumption`, what `load()` can find in a boot: the variables that it reads, a flag that
is there or not, switches that serde accepts as booleans. For `Operation` they are
`OperationAssumption` (a cost limit below `u32::MAX`, which a saturated sum could never
exceed, and scans that do not take variables for anything else), `SelectionAssumption` (selections are finite
trees), `CostAssumption` (a `@cost` is an integer or no override), `RequestAssumption` (a
document is a sequence of operations, those of sequences of selections) and
`TokenAssumption` (names, types, variables, braces, spreads and what else arguments consist of,
or are written as, are distinct tokens, and a scan reads a name, a type and a brace for what
they are). TLC evaluates every
one of them on its run.

* `CircuitBreaker_proofs`. `IInv` is `TypeOK` and `SamplesInOrder`: the order is what
  makes pruning from the front remove *all* stale samples (`PruneProperties`), and with
  it `FreshSamplesOnly`. `OpenPeriodHonoured` and `OpensOnEvidence` follow step by step.
* `SubgraphDispatch_proofs`. `CallInv` relates a call's position, its attempt counter,
  the set of attempts sent and the result; `AttemptsInOrder` is part of it. A mutation
  never backs off, so its attempt is 0 and it is sent once (`MutationsApplyOnce`).
  `DispatchUsesBreaker` shows that every step is a step of `CircuitBreaker`, which
  brings its theorems here; `DispatchKeepsPromise` is the refinement of `RemoteCall`.
  `HalfOpenHasItsProbe` needs no more than types: it is inductive, since the breaker is
  half open only by the admission of a call, which is in flight from that step on, and a
  call that leaves has either recorded its outcome, which ends the state, or been dropped.
* `BookingService_proofs`. `OneBookingPerKey` is not inductive: `IInv` strengthens it to
  all rows, uncommitted ones included (`KeyHeldOnce`, what the index enforces), and ties
  positions to rows. `ImplementsIdempotentStore` adds that nobody has a reply before the
  end (`RepliesComeLast`); a commit is the abstract `Create`, a reply the abstract
  `Tell`, the commit of a cancellation the abstract `Cancel`, or a stutter where another one
  came first. `RaceInv` says what each check has established and why it stays true: what a
  request saw was committed then, and a cancelled booking never becomes active again.

* `RequestPipeline_proofs`. What a client sees may come from the cache, so the invariant
  has to speak of every place a response can be: entries (`EntriesSound`), SETs under way
  (`WritesSound`) and answers (`RepliesSound`); `Position` says what a handler's place tells
  of its document. From it follow `NoCrossTalk` (`RepliesBelong`), `LimitsHold`
  (`OnlyAdmissibleServed`), `MutationsAlwaysExecute` and `SharingIsLimited`
  (`BypassIsFresh`, `ErrorsStayHome`).

* `FederatedQuery_proofs`. The executor counts the objects that have the key, the merger
  all objects. The planner injects the key wherever an entity fetch follows (`KeyIsAsked`),
  so at an object both counts agree (`PlacesAgree`); a count of members up to a place tells
  members apart (`CountInjective`), so the n-th representation is the n-th object's
  (`RefAtPlace`), and the n-th answer about its entity (`Alignment`). `IInv` keeps, for each
  fetch that has answered, what its answer was made of (`EntitiesSound`), and that nothing
  follows the response (`ResponseSound`). `FieldsAreOwn` (`OwnFields`) needs no more.
  `SelectionAnswered` and `LossesAreReported` add what the planner makes of a recognised
  entity and a conventional selection (`PlanOfEntity`) and that exactly the delivered fields
  remain after merge and strip (`KeysDelivered`).

* `RateLimiter_proofs`. That admissions keep the quota says nothing of the bucket, so `IInv`
  adds what ties them: one bucket for each client, which all of its tasks hold
  (`Bucketed`, where the race of first requests is decided), and that the theoretical
  arrival time is an interval ahead of every admission for each one since, and never
  further ahead of the clock than the tolerance and an interval (`Paced`). From it follow
  `QuotaIsKept` and, with the bound on what a refused client still has to wait (`Waiting`,
  at most an interval, hence at most a second), `RetryIsLetThrough`.

* `Rollout_proofs`. `Covers(a, b)` is that for each row of `b` there is one of its service in
  `a` that is no older. `Fresh` carries what a pod asked for along its way: the newest rows
  cover it for ever, the compositions that may yet be saved cover it while the pod waits,
  then the snapshot, the file and the catalog. `Saved` and `Fetched` keep that they
  compose and have one schema of each service, for which no two rows may be of one time
  (`Stamped`, `LatestIsSingle`). `RolloutTypes` holds of the reply to a publication too: a
  live request is of an instance that waits for it. `RouterIsAsConfigured` has the invariant
  `Built`, that a listening pod's router is what `build()` makes of its boot and its file;
  `LoadedAsSaid` computes the rest, that what the three sources say is what gets loaded.

* `Operation_proofs`. Nothing here is inductive over steps but `IInv`: that the stage is
  backed by its checks, that the plan is one of the planned operation, that only parts of it
  are sent, and that its usage is what is published. The work is about data: a selection is a tree,
  and the planner makes text of it. The prover's induction schemes cannot be applied to data, so the
  module first derives its own from `Height`: `TreeInduction` (a set of selections that has
  each one whose children it has is all of them, by a counterexample of least height) and
  `TreeRecursion` (a function defined by its values at the children exists, put together
  from its approximations up to each height), with the same for `FlattenSeq` and for sums
  (`Counting`, `StepByStep`). On these rest:
  `DepthIsLimited`, where `Nested(d)`, the texts that are balanced and have no name deeper than `d`,
  is closed under concatenation and braces, so that the text of a selection is as deep as
  the tree (`TextNested`), and the last brace that opens at depth 0 is that of the root
  field's own selection set (`Stripped`);
  `PartsAreSelfContained`, where the text of a tree that is writable is what the client wrote
  (`WrittenTexts`) and what is cut out of such texts and put together again is that of some of
  the selections (`PartAsWritten`, `FetchAsWritten`), where the variables of a text are those of
  the selections it was made of, and a scan of the bytes finds these if arguments are legible
  (`VariablesOf`);
  `UsageMatchesPlan`, where a valid document has one operation of the planned name
  (`OneOperation`), so what is counted is the operation that was planned; and
  `CostIsLimited`. There the requests, a set, are weighed against the costs, sums along
  trees: a set of requests takes of each root field its price and one for each field below it
  that an entity fetch is for (`Spent`), a request less takes less by what it weighs
  (`AllSpentLess`), so the weight of a set is at most what it takes (`SumIsBounded`), and that
  is at most the cost of the tree (`SpentWithinRoot`), where below the limit no sum has
  saturated (`FieldIsPaid`, `OperationIsPaid`).

Some lemmas state what no run checks any more because a stronger property of the run
implies or contains it: `SamplesInOrder`, `FreshSamplesOnly`, `AttemptsInOrder`,
`MutationAppliedOnce`, `OpenBreakerSheds`, `CommittedRowsPersist` and `BypassIsFresh` are
theorems for every instance.

Only model-checked: liveness (in `breaker`, `dispatch`, `booking`, `pipeline`,
`federated`, `rollout`), which is beyond the prover. Every invariant, action property and
refinement that a passing run checks is a theorem.

## 6. Plan

In order of importance, after the modules above:

1. `ReviewService`: the upsert race, in the manner of `BookingService`, with the average
   rating that is read beside it; and `IdentityContext`, the thread-local under a change of
   threads.
2. The time to live of cache entries by root field (`router/cache.rs:68`), which goes by
   response keys where the client may choose aliases.
3. `PriceCalculator` and the registry's `breakingChanges` against a reference.
4. Proofs: what `FederatedQuery` leaves to its constants, that the guess of a type is right
   where the selected names tell the types apart, from the catalog alone.

## 7. Not modelled

Lexing and parsing of GraphQL (a library), token verification and signatures, metrics and
tracing, messages of errors. The registry's and the CI's schema checks compare texts and
store nothing; the composer is a command-line tool around an external library, whose result
`Rollout` takes as given (`Composable`). The property, user and pricing services answer
queries from tables that nothing writes. Load tests, dashboards and the advisory AI review
have no part in an answer. `PROJECT.json` gives the reason for each.
