# Verification of tenant-core

TLA+ models of the stateful parts of tenant-core, the TLC runs that check them
on small instances, and TLAPS proofs that hold for every instance. The Go code
is the reference: every definition names the lines it models in `PROJECT.json`
("map").

## The system

A request passes through a middleware adapter, a resolver that finds the tenant
id, and `tenant.Manager`, which gets the tenant from a `Store` (usually a
`CachedStore` in front of another one). Rate limiters, RBAC and metrics hang off
that path. Beside it runs the path this project puts first: an administrator
bans a tenant, and every instance has to refuse it from then on.

| Part | Source | State and concurrency | Modelled in |
|---|---|---|---|
| PublishRetryQueue | `admin/retry_queue.go` | bounded queue, one worker, callers of Enqueue, Stop, context | `RetryQueue` |
| admin.Service | `admin/admin.go` | none of its own; its steps interleave with those of other callers | `BanPropagation` |
| BanChecker | `banchecker/banchecker.go` | sync.Map written by handler goroutines and the startup load | `BanChecker` |
| MemoryStore | `store/memory.go` | map under an RWMutex | `MemoryStore` |
| CachedStore | `store/cached.go` | cache under an RWMutex, singleflight, time to live | `CachedStore` |
| MemoryEventBus | `eventbus/memory.go` | handlers; one goroutine per event and handler | `BanPropagation` |
| RedisEventBus | `eventbus/redis/redis.go` | subscriptions, stopped flag, background goroutines | `Subscriptions`, `RedisEventBus` |
| NATSEventBus | `eventbus/nats/nats.go` | subscriptions, stopped flag, client callbacks | `Subscriptions`, `NATSEventBus` |
| RedisRateLimiter | `ratelimit/redis/redis.go` | counters in Redis, timeout, failure policy | `RedisRateLimiter` |
| TenantRateLimiter | `ratelimit/ratelimit.go` | sync.Map of limiters | `TenantRateLimiter` |
| MemoryMetrics | `metrics/memory.go` | sync.Map of atomic counters | `MemoryMetrics` |
| PrometheusMetrics | `metrics/prometheus/` | the vectors of the client library | `PrometheusMetrics` |
| Manager, resolver | `tenant.go`, `resolver/` | stateless | `TenantNames`, `RequestPath` |
| RBAC | `rbac/rbac.go` | definitions under an RWMutex | `RequestPath` |
| Middleware, tenantctx | `middleware/*`, `tenantctx/` | the tenant in the context of a request | `RequestPath`, `ReferenceServer` |
| Admin HTTP API | `admin/http.go`, `admin/auth.go` | stateless | its calls of the Service in `BanPropagation` |
| cachekey | `cachekey/` | pure function | `TenantNames` |
| Reference server | `cmd/server/main.go`, `health.go` | readiness flag, signal, Shutdown | `ReferenceServer` |
| Configuration, healthcheck, tenanttest, loadtest | `cmd/server/config.go`, `cmd/healthcheck/`, `tenanttest/`, `loadtest/` | none | not modelled, see below |

## Modules

A name `X_Slip` next to a definition `X` is `X` with a plausible mistake. No
specification uses it; it shows that a property notices the mistake.

### RetryQueue, BestEffortQueue

`RetryQueue` follows `retry_queue.go` step by step. An event is named by its
rank in the order of the Enqueue calls, since a `pendingEvent` is a pointer to a
fresh allocation. `wait[e]` is `nextAttemptAt` minus the present, so the clock
needs no bound. A round of the worker is `TickerFires` (read the clock),
`Collect` (under the lock), one `Publish` per event (outside the lock) and one
`Settle` per event (under the lock, which Enqueue therefore cannot take). A
`Settle` is one of the four outcomes in the code: the event is gone (`Skip`),
`Delivered`, `Reschedule`, `GiveUp`. `Stop` and `StopReturns` are the two halves
of Stop, called once and after Start as its comment demands. `sent`, `lost` and
`tries` are history variables: successful publications, CRITICAL log lines,
Publish calls.

`BestEffortQueue` is what a client may rely on: a bounded buffer in the order of
submission, which delivers an event at most once and never drops one silently.
`RetryQueue` implements it (`ImplementsPromise`); `BanPropagation` uses it in
place of the real queue.

### BanChecker

`apply` is a `Load` with its comparison and a later `Store`: the code does not
make them one step. Handler goroutines and the loader (`LoadInitialBannedList`)
run it concurrently. The loader stops at the first error. `applied` is a history
variable with the times of all reports applied, `overlapped` the tenants for
which two apply calls were ever between Load and Store at once.

### MemoryStore, BanPropagation

`MemoryStore` has one atomic action per method; a tenant is reduced to its state.
`BanPropagation` composes it with `admin.Service`, the bus, `BestEffortQueue` and
one instance's `BanChecker`: it extends `BanChecker`, whose steps `Receive`, `BeginLoad`,
`FetchState`, `LoadStep` and `StoreReport` feed with the events of the bus and the answers of
the store. A transition is SetState, time.Now, Publish and, on
failure, Enqueue, and each is a step of its own. The bus may fail a Publish it
has carried out, delivers in any order, and may lose events as Redis Pub/Sub and
core NATS do. `Create` and `Update` of the store change a tenant without an
event. `raced` are the tenants with two transitions between SetState and
time.Now at once, `missed` those with a change that got no event or whose event
was lost. The callers are whoever uses the Service, among them the handlers of the
Admin HTTP API, several of which may run at once. The error that a transition
returns, and the status the API makes of it, change nothing and are left out.

### CachedStore

A tenant is its version, the number of changes in the source. Get is `Lookup`,
then `Hit` or `Miss`; `Miss` starts or joins the singleflight of the key; the
leader does `Fetch` (or `FetchFails`), `Fill`, `Finish`. That those who joined
(`Passengers`) get the leader's result or error is singleflight's doing, hence
external. `MaxFetchDelay` bounds the
time from the source's answer to the end of the flight; nothing bounds the time
before the answer. `answer` keeps what each client got last, how long it had been
out of date, and the newest version any Get had returned when the call began;
`sparedUntil` until when the answers returned so far spare the source.
`Callers` declares what `CachedStore` and `MemoryMetrics` share: the goroutines and the
tenants.

### Subscriptions, RedisEventBus, NATSEventBus, EventBuses

Both buses open, register and close subscriptions by the same protocol, which is
`Subscriptions`: confirm with the broker without the lock, register under it
unless the bus is stopped, else close again. `RedisEventBus` adds the background
goroutine of each registered subscription, which can still read what go-redis has
buffered after Close. `NATSEventBus` adds callbacks, which start as soon as the
client has sent the subscription, hence before it is registered, and of which one
may be in progress when Unsubscribe returns. `EventBuses` is a bus with the backend
that was configured, `backend`. A Close or Unsubscribe that
fails is only logged by Stop; the model takes the subscription to have ended all the
same.

### RedisRateLimiter, TenantRateLimiter, RateLimiters

`RedisRateLimiter`: a call of Allow reads the clock and sends the script (`Allow`);
Redis runs it (`allowScript`) within `MaxDelay` of that reading, also after Allow has
given up (`Failed`, timeout or error, answered by the failure policy). The go-redis
client may lose a command or send it again. The clock is that of the fastest
instance, so clock differences between instances count as delay. It is finer than
the milliseconds of PEXPIRE, to which the time to live is cut (`PExpire`). `runs` is a
history variable.

`TenantRateLimiter`: `getLimiter` is `Load`, `Build` (limitFunc and NewLimiter) and
`LoadOrStore`, each a step, while `ChangePlan` changes what limitFunc answers. A
limiter is named after the goroutine that built it. `rate.Limiter` is external, a
token bucket with whole tokens. `RateLimiters` puts the two beside each other.

### MemoryMetrics, PrometheusMetrics

A method of `MemoryMetrics` is the sequence of its atomic operations, in the order
of the code (`todo`), after `GetOrCreate`. `total` is what the updates add up to,
`snapshot` what a Snapshot has read. `PrometheusMetrics` has a vector per metric, a map
from label values to a series that is created when it is first used.

### TenantNames, RequestPath

`TenantNames` has `SubdomainResolver.Resolve` and `cachekey.Key` as operators on
sequences of characters, and `Names(host, id)`, which says what a host names without
computing it: the reference definition `Resolve` is checked and proved against.

`RequestPath` composes them with `middleware.Wrap`, the Manager, the store behind its
cache and RBAC. A request is `Arrive` (Wrap and the resolver), `GetHit`,
`GetMiss` or `GetFails` (Manager.Resolve) and then a handler with the tenant in its
context, which asks `rbac.Can` and answers (`GetUsers`) and may write to its tenant
(`WriteTenant`; the application's, hence external). Pointers are explicit: `object` maps an
id to the tenant in the store, and a request to the copy that its Get made; `slice` are
the arrays behind Roles, which a copy shares with the original; `cache` holds the object
that is handed to every request. The cache is `CachedStore` without its timing: an entry
may expire at any moment. `DefineRole`, `Update` and `SetState` run in between, called
by anybody: what leads to a SetState and follows it is in `BanPropagation`. `held` is a
history variable, the roles a tenant was ever given. `GetFails` is ErrTenantNotFound, the
only error of MemoryStore.Get; Wrap answers 404 to any error of the store. chi, echo and
gin do what Wrap does with the types of their frameworks.

### ReferenceServer

`main` with its steps from the start of the listening goroutine to the exit, that
goroutine, and requests to the probes and to the tenant routes. `readyzHandler`
loads `ready` and answers in two steps. `http.Server.Shutdown` closes the listener,
then waits for the requests in progress or its context. A signal has its default
effect before NotifyContext and after `stop()`. What a tenant route answers is a
free choice; a handler may take for ever. `late` marks the requests accepted after
main took notice of the signal.

## Runs

| Run | Bounds | Distinct states | Shows |
|---|---|---|---|
| `retry_queue` | 4 events, 3 places, 1 retry | 28,765 | safety, refinement and liveness of the queue |
| `ban_checker` | 2 tenants, 2 handlers and the loader, 2 time stamps | 230,796 | `NewestWins`, `LoadCovers` |
| `ban_checker_stale` | 1 tenant, 1 handler and the loader | | finding 1 |
| `ban_propagation` | 2 callers, 3 changes, 2 handlers, no retry queue | 550,821 | `Agreement` |
| `ban_propagation_retry` | 1 caller, 2 changes, queue of 1 | 332,377 | `Agreement`, `BanTakesEffect` |
| `ban_propagation_race` | 2 callers, 2 changes | | finding 2 |
| `event_bus` | Redis or NATS, 2 Subscribe, 2 Stop, 2 messages | 106,367 | nothing leaks, stopped for good, Stop returns, goroutines end |
| `request_services` | 3 goroutines; per service: see below | 831,599 | 11 properties of the cache, the rate limiters and the metrics |
| `rate_limiter_late` | 2 requests, limit 1, delay 1 | | finding 3 |
| `request_path` | 2 requests, 4 ids, 6 hosts, 2 changes; handlers write to State | 461,158 | `HostNamesTenant`, `KeysIsolated`, `StoreIsolated`, `GrantsBacked` |
| `store_copy` | the same; handlers write to Roles | | finding 4 |
| `reference_server` | 3 requests | 194,316 | `CleanMeansAnswered`, `DrainingIsNotReady`, `FailureIsReal`, `SignalEndsProcess` |

Deadlock checking is off everywhere: each of these systems may stop (the worker
has ended, every call has returned, the bounds are used up).

**Why the bounds suffice.** Four events in a queue of three let Enqueue drop an
event that waits, one that is being published and one the bus has already
accepted, and let an event leave from the front, the middle and the end of the
queue; one retry exercises both sides of the retry limit (that the backoff doubles
matters to no property: the proofs take any duration). Two handlers and a loader give
every overlap of apply in pairs and in threes; two time stamps give older, equal and newer reports. Three changes of one
tenant are what an order inversion needs (a state, a newer one, and the event of
an older one arriving late); tenants are independent of each other in
`BanPropagation`, so one is enough. In `ban_propagation_retry` the state Disabled
is left out: the table treats it as Active.

`request_services` is about five services that share no state: each behaviour is about
one of them, `kind`. CachedStore (TTL 2, delay 1, 2 changes, 3 units of time): three
clients are a leader, a joiner and one that returned earlier, and the clock runs past the
end of an entry's life. RedisRateLimiter (limit 1, a window of a millisecond and a
half, delay 1, one command sent again): the key expires within its window and after
it. TenantRateLimiter (one tenant, limits 1 and 2, burst 2): three goroutines build a
limiter at once while the plan changes. MemoryMetrics (2 updates): two updates and a
Snapshot interleave. PrometheusMetrics (2 tenants, 2 calls of each method). In
`request_path` the ids `a`, `ab` and `a:b` and the hosts with a port, a colon elsewhere,
two labels, no label and an unknown tenant are those that Resolve and Key could confuse;
two requests share a cached tenant, or hold copies of different age; two changes
are a definition or an update under a request that already holds its tenant, which has
one role or two. In `reference_server`, three requests let one hang, one be answered and
one arrive late; a request does not depend on another one, except through Shutdown.

Symmetry is used for callers, handlers, requests and calls, which no definition
tells apart, and only in runs without liveness.

**Fairness.** `RetryQueue`: time passes, the worker goroutine is scheduled, and
its select does not choose the ticker for ever while stopCh is closed (Go chooses
at random among ready cases, hence SF on `Exit`). That Publish returns is not
part of it: `StopEventuallyReturns` and `EventuallySettled` state it as their
hypothesis `BusAnswers`, while `EnqueueNotBlocked` holds without. `BanPropagation`:
goroutines are scheduled and the queue settles its events, which
`EventuallySettled` shows. `event_bus`: goroutines that call Stop are scheduled, and the
background goroutines of Redis; nothing is assumed of Subscribe, which may wait for the
broker for ever. `ReferenceServer`: the
goroutine of main is scheduled and the timer of Shutdown's context fires; nothing is
assumed of the handlers.

**What the properties say.** `NewestWins`: as long as apply calls for a tenant do
not overlap, the table holds the newest report, whatever the order of arrival.
`Agreement`: once nothing about a tenant is in flight, `IsBanned` of the checker
equals the store's answer, provided no event was missed and neither apply calls
nor transitions of that tenant overlapped. These provisos are the code's limits
and not the model's: findings 1 and 2 show what happens without them.
`NoTimeTravel`: a Get never returns something older than a Get that had returned
before it began. `SourceSpared`: of two Gets one after the other, the second asks the
source only when ttl has passed since the first one's answer was fetched, or the entry it
hit has expired; only Gets that overlap can ask more often, and a fill by one of them never
shortens the life of an entry. `WindowBudget`: with
FailClosed the requests of a window that pass are at most the limit times the number
of lives its key can have while they are on their way. `BucketBudget`: however many
goroutines meet a new tenant at once, it gets one bucket's worth of requests.
`AverageNotTooLow`: a Snapshot that races with ObserveLatency may give too high an average,
but none below the shortest duration. `HostNamesTenant`: a handler has the tenant of its
own Host header, and no tenant of the store is turned away. `KeysIsolated`: the ids
that reach a handler have no colon, so keys of two tenants never meet, although `Key`
alone is not injective. `StoreIsolated`: what a handler does to its tenant leaves the
store alone; true of State, and finding 4 for Roles. `GrantsBacked`: rbac answers yes
only by the tenant's definitions of that moment, through a role the store gave it at
some time; that it still has the role is not promised by a cached tenant. `NoLeak`: after Stop has returned, the only open subscriptions
are those a Subscribe call is about to close.

## Findings

1. *ban_checker_stale.* The comment of `apply` guarantees that "a stale snapshot
   can never overwrite a more recent event". An event stored between the Load and
   the Store of the snapshot's apply is overwritten.
2. *ban_propagation_race.* Two overlapping transitions of a tenant can be stamped
   in the opposite order of their SetState. The checker then keeps the wrong state
   until the next transition, although nothing failed and nothing was lost: an active
   tenant stays refused, or, with the calls exchanged, a banned one is let through.
3. *rate_limiter_late.* LimitFunc promises "at most limit requests per window". The
   key of a window lives for one window from its first increment; a request that
   read the clock in the window and reaches Redis after that starts the count anew,
   so up to twice the limit of one window pass, with no failure involved. The
   limitation the code documents is another one (two windows, `limit` each).
4. *store_copy.* MemoryStore.Get returns a copy "so the caller can never mutate the
   store's internal state through the received pointer". The copy's Roles is the
   array of the stored tenant; a write to one of its elements changes the store.

Smaller observations, visible in the models. `CachedStore`: an entry's life
starts when it is stored and not when the source was read, so a change can take
ttl plus that delay to show (`BoundedStaleness` states it; GETTING_STARTED says "up
to `ttl`"); and a Get that misses just before a flight of the same key ends starts
a flight of its own, so concurrent Gets may ask the source twice (ARCHITECTURE says
of singleflight that it "guarantees that only one real call goes out to the source for a
given key"; `SourceSpared` is what the cache does guarantee).
`RetryQueue`: the comment in `retryDue` says of an event of the round "With a
single worker goroutine it can never have moved", but Enqueue drops `pending[0]`
while the worker publishes; the code is right because it looks the event up again
(`NothingVanishes` fails with `indexOf_Stale`). `ReferenceServer`: a probe served
between the start of the listening goroutine and `ready.Store(true)` is answered
503, a window that `health.go` calls effectively absent.

## Proofs

All from the named assumptions on the constants and for any number of events, tenants,
goroutines, calls, messages and requests, and for hosts, ids and keys of any length.
`QueueAssumption`, `CachedAssumption`, `MemoryAssumption`, `PrometheusAssumption`,
`LocalAssumption`, `LimiterAssumption`, `CheckerAssumption` and `PropagationAssumption`
say that bounds and durations are natural numbers (a queue has a place, a window and a
millisecond are not 0) and that the value for "nothing" is none of the others; `NoneAssumption` and
`CallersAssumption` are of the second kind; the buses need none. Where something is
counted, the goroutines, requests or tenants that do it are finitely many.
`PathAssumption` takes the base domain to have no colon: with one, no host would name a
tenant, since Resolve cuts the host at its first colon.

- `RetryQueueProofs`: the safety and action properties of the queue, and
  `QueueImplementsPromise`, after lemmas on ordered sequences.
  None of them is inductive alone. `RoundInv` adds what holds between `Publish` and
  `Settle`: an event the bus has accepted may still be in `pending`, but then it is
  in `ok`; an event of the round may no longer be in `pending`; and `tries` is
  ahead of `attempts` by one exactly for the events whose result is not applied.
  The refinement maps Enqueue to Submit, a successful Publish to Deliver, Delivered
  and GiveUp to Release, and every other step to a stutter.
- `BanPropagationProofs`, the checker (`CheckerSpec`): `NewestWins` and `LoadCovers` from
  `CheckerInv`: a goroutine that is alone with its tenant between Load and Store holds
  something not older than the table, and the loader has fetched, is applying or has
  applied every id it has passed.
- `BanPropagationProofs`, the propagation (`PropagationSpec`): `PropagationRefinesChecker`,
  by which all this holds of the checker in the composition, and `AgreementHolds`. Agreement
  speaks of the end, when nothing is under way, and so is far from inductive. The
  invariant follows the *reports* about a tenant: a verdict with a time stamp, in the table,
  in apply between Load and Store, in the hand of the loader, on the bus, with a caller of
  transition or in the retry queue (`Reported`), or the answer that the loader is still to
  fetch (`Expected`). `RightInv`: for a tenant that is `Followed` (started or starting, no
  race, no overlap, nothing missed), a transition is between SetState and time.Now, or some
  report says what the store says and so does every report that is not older (`Right`). When all
  has settled the table is the only place left, which is Agreement. Most steps only move
  reports (`MovesReports`): none is new, and one that is gone gave way to one not older;
  `MovesKeep` shows once for all of them that the invariant survives. The others are
  SetState, Create, Update, Stamp, BeginLoad and FetchState, and need that no report is from the
  future (`ClockInv`: the new stamp is the newest), that one transition at a time is being
  stamped and holds what it wrote (`StampInv`), that a tenant that does not exist has no
  reports (`MissingInv`), and that the queue has delivered, dropped or still holds what it was
  given (`QueueInv`).
- `ShutdownProofs`, the buses (`BusSpec`): an open subscription is in the hands of its
  Subscribe call or registered, and nothing is registered after a Stop (`RegisteredInv`);
  from it `NoLeak`, `NotReusable` and, with the history of messages (`DeliveryInv`),
  `NothingNewAfterStop`, and for Redis `OnlyRegisteredHandled`.
- `ShutdownProofs`, the server (`ServerSpec`): `CleanMeansAnswered`, `DrainingIsNotReady`
  and `FailureIsReal` with `ServerInv`: nothing is cut off while the process lives, `ready`
  is set only while main waits for the signal, and hence a late probe has read FALSE,
  whenever it answers.
- `RequestPathProofs`: `ResolveSound` and `ResolveComplete` (Resolve answers an id exactly
  when the host names it) and `KeyInjective`, from the positions of the characters.
  `ReferenceInv` says that the cache and the contexts refer to copies with the right id and
  never to an object that Get has still to fill; from it and the lemmas on names follow
  `HostsNameTenants` and `KeysAreIsolated`. `StoreIsIsolated` and
  `GrantsAreBacked` assume that no handler writes to Roles, and the second uses `RolesInv`:
  no tenant uses an array that Update has still to make. TypeOK and ReferenceInv are
  proved in the parts that the steps touch (`StoreTypes`, `RequestRefs` and so on), which
  keeps each obligation small.
- `RateLimiterProofs` (`LimitersSpec`). `RedisInv`: a command reaches Redis no later than
  `MaxDelay` after the end of its window (`DelayInv`); so a key expires within a TTL of
  that (`KeyInv`, hence `KeysExpire`), and k keys that have come and gone took k full TTLs
  since the window began and let through at most k times the limit (`BudgetInv`, hence
  `WindowBudget`). `WindowBudget` is not inductive: it forgets how many keys there were
  and when the present one began. `DeniedOnlyWhenSpent` follows from the part of `KeyInv`
  by which a counter never exceeds the scripts that ran. `LocalInv`: what the stored
  limiter has given out and the tokens it holds are together at most the burst and what it
  has earned since it was stored (`BucketInv`, hence `BucketBudget`); a candidate that is
  being built is not the stored limiter, and requests take from the stored one
  (`CandidateInv`).
- `CachedStoreProofs` (`CachedSpec`): `NoTimeTravel` and `BoundedStaleness` from `CachedInv`. Nothing that was returned is newer than the
  cache's entry (`CacheInv`), an entry that a Get has looked up is at least as new as what
  had been returned by then (`LookupInv`), and a leader puts nothing older in place of an
  entry (`FetchedInv`), since nobody else replaces it meanwhile: a key has one leader
  (`FlightInv`). `SourceSpared` from `SparedInv`: whatever was returned, the cache holds an
  entry that lives at least as long as that answer spares the source, since no entry is
  replaced by one that expires earlier; a Get that looked the entry up keeps it.
- `MemoryMetricsProofs`, `MetricsProofs` (`MemorySpec`, `PrometheusSpec`): `NothingUncounted`
  because `total` is always what is stored plus what the updates in progress have still
  to add (`CountedInv`, a sum over the goroutines, written as the size of a set);
  `AverageNotTooLow` because the sum suffices for every observation that is counted or about
  to be (`LatencyInv`), also at the moment when a Snapshot has read the count and not yet
  the sum (`ReadInv`). Both need that everyone uses the counters that were stored
  (`OwnerInv`). `MemoryMetricsProofs` has what needs no facts about finite sets.
  `SeriesMatchMode` is inductive with the types (`PrometheusInv`).

The strengthenings `RoundInv`, `CheckerInv`, `PropagationInv`, `RegisteredInv`, `ServerInv`,
`ReferenceInv` and `RolesInv` were found with TLC on the bounds above before they
were proved (`PropagationInv` on those of `ban_propagation` and `ban_propagation_retry`).
`RedisInv`, `LocalInv`, `CachedInv`, `MemoryInv`, `PrometheusInv` and the invariant of
`EventBuses` were checked with TLC on the same bounds once they were written (in `RedisInv`
and `MemoryInv` a quantifier over Nat was given a bound for this; `MemoryInv` and
`PrometheusInv` without symmetry, 4.6 million states). Since the proofs cover every
instance, the runs do not repeat them. The same goes for `Bounded` and `NotReusable`.

The proofs about the rate limiters, the cache, the metrics and the buses are about the
specification of the component; `request_services` checks the same definitions on
behaviours of one service at a time.

Only model-checked: the liveness properties, which are outside the prover's reach. Every
invariant and action property that a passing run checks is also proved.

Each proof module begins with `USE Zenon, SMTT(30)`: a leaf is given to Zenon first, whose
encoding is several times cheaper than that of the SMT solver, and leaves that need
arithmetic, records or sequences say `SMT`. `RateLimiterProofs` and `RequestPathProofs` take in a
library of theorems (`INSTANCE`) only where the lemmas that use it begin, since every
obligation after it carries all of its statements.

## Not modelled

- `cmd/server/config.go`: each parser compares one environment variable with a range
  or a default before anything else runs, a pure function without state. The product of
  CACHE_TTL_SECONDS and a second is not checked for overflow.
- `cmd/healthcheck`: one HTTP request and an exit code. `tenanttest`: a test helper.
  `loadtest`: benchmark servers, not part of the library.
- Message contents, JSON, log texts and error values; panics of handlers (safeCall
  recovers them; apply does not panic) and of constructors that are given nil.
- Clock skew between instances and equal clock readings in `BanPropagation`. Nothing in
  the code bounds or detects skew: with it the order of stamps is arbitrary, and the
  outcome that of finding 2.
- The reconnection of the Redis and NATS clients, of which only the loss of messages
  remains; fractions of tokens in `rate.Limiter`; overflow of metrics.
- What a client of the Admin API is answered, and which identity an Authenticator accepts;
  a request that is not authenticated changes nothing. FromContext without a tenant, which no handler behind an adapter meets.
- A second Stop of the retry queue and a Stop before Start, which its comments exclude.
- Data races on a cached tenant that two handlers write to: `RequestPath` takes a write to
  be atomic. Nothing in the repository says that handlers may or may not write.
