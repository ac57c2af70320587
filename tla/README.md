# Verification of gf-nexus

TLA+ models of [gf-nexus](https://github.com/krustd/gf-nexus), checked with TLC on small instances
and, for every value of the constants, with proofs checked by TLAPS. Paths below are relative to
`src/`.

gf-nexus is three Go programs: a configuration centre (`nexus-config`), a service registry
on etcd (`nexus-registry`), and a gateway (`nexus-gateway`) that uses both. The models follow a
configuration from the administrator's request to the moment the gateway acts on it, a service
instance from its registration to the request that picks it, and a request through the gateway's
checks, circuit breaker and proxies.

## 1. Inventory

### nexus-config, the configuration centre

| Component | State | Operations | Interacts with |
|---|---|---|---|
| Store, `storage/sqlite/sqlite.go` | tables `config_item` (a draft and a published value with MD5s, one format), `gray_rule`, `config_namespace` | SaveDraft, PublishConfig, DeleteConfig, SaveGrayRule, DeleteGrayRule, DeleteNamespace, reads | called by both servers, a statement at a time; only DeleteNamespace is a transaction |
| Admin API, `admin/handler.go` | none; a request keeps the row it read | the operations of the store; a publication reads the row again and calls Notify | store, notifier |
| Notifier, `server/notifier.go` | a list of channels of capacity 1 per (namespace, key), an RWMutex | Subscribe, Unsubscribe, Notify, WaitForChange | admin requests send, poll handlers wait |
| Config server, `server/handler.go` | the locals of each handler goroutine | `/config/get`, `/config/poll` with the gray release (`calculateVersion`, `hitGray`) | store, notifier, SDK clients over HTTP |
| SDK client, `sdk/client.go`, `sdk/cache.go` | cache, listeners, `stopCh` | Start (fetch, then the poll loop), pollOnce, notifyListeners, Stop | config server; the application's listeners, each run in a new goroutine |
| Formats, `common/format.go` | none | parsing | the application |
| Web console, `web/` | form state | the Admin API | Admin API |

What is hard: requests interleave between SQL statements; a publication races the gap between a
poll's comparison and its subscription; a full channel drops a notification; a notification may
carry a superseded version; the timer, the client's departure and a notification compete in one
`select`; responses are lost and retried while the old handler runs on; the server restarts
between an update and its notification; listeners run unordered.

What makes it correct: rows and caches hold values with their own MD5s (clients compare nothing
else); a publication stays with its row; drafts reach gray clients only; channels are neither
leaked nor used after close; a subscribed poll is not forgotten and does not answer from the past;
handlers and Stop return; every client converges to the version that is right for it.

### nexus-registry

| Component | State | Operations | Correct when |
|---|---|---|---|
| `nexus.go`, `registry/etcd/etcd.go` | the current instance; leases and keepalive cancel functions per key | Setup, SetupMulti, Shutdown; Register, Deregister, Discover, Watch, Close | a registered live instance is in etcd, that of a departed program is not |
| `registry/resolver.go` | the instance list of a service | NewResolver (fetch, then watch), Resolve, watchLoop, handleEvent, fullRefresh, Close | the list follows etcd and ends up equal to it |
| `registry/balancer/balancer.go` | a counter; nodes with current weights and a fingerprint | Pick of round robin, random, smooth weighted round robin | picks are fair, and among nodes with the IDs and weights of the list, unless it changes under them |

Hard: the gap between fetch and watch, a watch that ends, a keepalive that ends, calls that fail
after they took effect, a program that crashes and comes back while its old lease still runs,
in-place changes of a list that readers hold, and read twice within one pick.

### nexus-gateway

| Component | State | Operations | Correct when |
|---|---|---|---|
| Dynamic configuration, `gateway.go`, `config/dynamic.go` | atomic pointer, callbacks | Store, Load, OnChange; the SDK listener; the initial Store | holder, JWT keys and strategy end on the newest configuration |
| Circuit breaker, `middleware/circuitbreaker.go` | a state machine with counters per service | Allow, RecordSuccess, RecordFailure | trips and recovers as configured, under late results |
| Rate limiter, `middleware/ratelimit.go` | one token bucket | allow | never more than capacity plus refill |
| IP filter, `middleware/ipfilter.go` | unsynchronised cached entries | the handler | a request is judged by its own configuration |
| JWT, `middleware/jwt.go` | key map, swapped atomically | UpdateKeys, the handler | the keys are those of the newest configuration |
| Resolver pool, `gateway/resolver_pool.go` | resolvers by service, the picker factory | GetOrCreate, UpdateStrategy, Close | no resolver is leaked or created twice; all follow the strategy |
| Request path, `gateway/gateway.go`, `proxy.go`, `grpc_proxy.go` | gRPC connections, descriptor cache | the handler, getOrCreateConn, resolveMethod, Close | one connection per address; outcomes reach the breaker |

Hard: a change of the configuration runs in goroutines that nothing orders, and against the
gateway's own start; a request loads the configuration again in each middleware and meets several
of them; results arrive after the circuit has changed its state; connections and resolvers are
created under locks that are held through network calls.

The CORS, logging, request id, trace and metrics code keeps no state, and `hello-service` is a
demonstration; neither is modelled. `PROJECT.json` lists every component with its status, and
under `hazards` what is hard to test, each at its line, with the properties that would catch it.

## 2. The modules

```
ConfigTypes ── ConfigStore ─────┬── ConfigCenter ── MCConfigCenter (center_*)
     │              └── MCConfigStore (store, store_format)
     ├──────── ConfigNotifier ──┘
     └──────── ConfigRelease   (abstract; ConfigCenter implements it)

GatewayTypes ─┬── GatewayConfig ── MCGatewayConfig (gateway_config, gateway_keys)
              └── RequestPath ──── MCRequestPath (requests)

Directory (abstract; EtcdRegistry implements it) ──┬── ResolverPool ── MCResolverPool (pool, pool_gap)
Balancer ──────────────────────────────────────────┘
EtcdRegistry ── MCEtcdRegistry (registry)

ConfigStoreProofs     EXTENDS ConfigStore
ConfigCenterProofs    EXTENDS ConfigCenter, ConfigStoreProofs
ConfigDeliveryProofs  EXTENDS ConfigCenterProofs
RegistryProofs        EXTENDS EtcdRegistry
FoldLemmas            (sums and folds over data of any size)
GatewayConfigProofs, RequestPathProofs, PoolProofs
                      EXTEND GatewayConfig, RequestPath, ResolverPool, each with FoldLemmas
```

How the three programs meet: ConfigCenter's client runs listeners in any order, and GatewayConfig
begins there: its `Deliver` is a poll's answer that starts one. EtcdRegistry's keys, seen without
their leases, are a Directory, and ResolverPool reads and watches a Directory: what is checked of
the pool holds for every order of changes that hosts can produce. RequestPath takes any instance and any
answer of the proxies, which includes those ResolverPool and the backends give.

### The configuration centre

**ConfigTypes** has the constants, the record types of the rows and of `ConfigVersion`, the query
of GetPublishedConfig (`Published`) and `HitGray`. Every table, channel and cache is indexed by a
(namespace, key) pair and only DeleteNamespace looks at two of them, so the modules follow one
pair. Values are members of a small set; `Md5` is an injective function on it (collisions are not
modelled); a client's `Bucket` is the hash of its id modulo 100.

**ConfigStore** models the store and the Admin API. `item` and `grayRule` are the rows, `apc[a]`
and `aread[a]` the place of an admin request and the row it read. Each SQL statement is a step:
`SaveDraftRead`/`SaveDraftWrite`, `PublishRead`/`PublishUpdate`/`PublishReread`,
`SaveGrayRuleRead`/`SaveGrayRuleWrite`; deletions are one statement (or one transaction) and one
step. GORM updates `WHERE id = ?` with the id that was read, so `RowIs` compares ids; ids are
AUTOINCREMENT and come from one counter. An update that finds no row is not an error
(`SaveDraftMisses`), a create that finds one is refused by the unique index. `StorageError` is a
failing statement. The value of a request is chosen in the writing statement, the first that uses
it.

**ConfigNotifier** models the channels and the lock. `Notify` is `NotifyBegin`, one `NotifySend`
per channel and `NotifyEnd`: sends interleave with other notifications and with receives, while
`Subscribe` and `Unsubscribe` wait for `WriteLockFree`. A send to a full channel is skipped. Go's
loop walks the list in order; the model takes any order, which allows more. A handler has at most
one subscription, so a channel has its handler's name.

**ConfigCenter** composes both with the server's handlers and the SDK clients. `hpc[h]` is the
place of a handler goroutine; the reads of the item and of the gray rule are separate steps
(`PollItem`, `PollCompare`; `RereadItem`, `RereadAnswer`), and a failed read takes the path of the
code (`PollMissing`, `RereadMissing`, "no rule"). `Expire` stands for the 30 s timer and for
`ctx.Done()`, which return the same. A client is in one of the places of `cpc`; `conn[c]` names
the handler it waits for, so a handler whose client gave up runs on without anyone to answer.
`spawned` counts listener goroutines, which run in any order. `LoseConnection` is a lost request
or response or a client timeout, `ServerRestart` the death and restart of the process: rows
survive, goroutines, channels and connections do not.

History variables, read by properties only: `saved` (what was saved as a draft of which row, in
which format), `released` (values ever published), `maxGray` (the largest percentage ever enabled)
and `inForce[h]` (the MD5s published since handler h subscribed).

**ConfigRelease** is what the centre promises, with three variables: the values released, how far
gray rules have reached, and what each client holds. `ConfigCenter!Abstract` maps `released`,
`maxGray` and `cache` to them. Each step of the program either releases one value, widens the gray group, hands
one client one version it may see at that moment, or stutters; a client never loses what it holds.

### The gateway's configuration and access checks

**GatewayTypes** has the error codes with their HTTP statuses and the dynamic configuration with
its defaults, as far as some property tells its fields apart.

**GatewayConfig** follows a published version into the gateway. `pc` has the goroutine of `Setup`
(`Main`) and those of the SDK's listeners, `version` the version each works on. `Setup` is
`Fetch` (Client.Start), `GetConfig`, `StoreConfig`, `CopyCallbacks`, `NewLoad`, `OnChange`; a
listener is `Drop` or `StoreConfig`, `CopyCallbacks`, `UpdateKeys`, `UpdateStrategy`. No lock of
the code spans two of these. A request runs through `Arrive`, `FilterCompare`, `FilterRefresh`,
`FilterKeep`, `FilterMatch` (IPFilter, whose cache all requests share without a lock), `JWTLoad`
and `JWTVerify`. While another request writes the cached entries, a match is a data race and may
yield either result (`FilterRace`). A token has a key id, the family of its signing algorithm and a
signer; whether a signature is valid is the jwt library's matter: it is, if the key is the signer's.
`mixed`, `latest`, `calm` and `raced` are history.

### The request path

**RequestPath** has the token bucket, one service's circuit, the two proxies and the recording of
the answer. Time passes in whole seconds (`Tick`), so a bucket holds whole tokens. `Limit` is `allow` under the
bucket's lock; `CheckEnabled`, `Allow`, `CheckAgain`, `RecordSuccess` and `RecordFailure` are the
breaker's calls, each of which loads the configuration anew: `Reconfigure` may come in between. Allow,
RecordSuccess and RecordFailure load it just before they take the circuit's lock (`circuitbreaker.go:75, 106, 132`); in the model the
load and the locked part are one step, so "the configuration in force" is the one that call has loaded.
`ProxyHTTP` yields any outcome of the HTTP proxy. For gRPC, `ProxyGRPC`, `LockConns`, `Dial` and
`DialFails` are getOrCreateConn lock by lock, `MethodCached`, `MethodMissing`, `Reflect` and
`ReflectFails` are resolveMethod, and `Invoke` is the call. An error with a gRPC status is written
with `WriteJsonExit`, which leaves the handler (`grpc_proxy.go:182`): such a request is never
recorded, so the breaker does not open on a gRPC service that answers `Unavailable`. Half-open lets every
request through, though the comment in `circuitbreaker.go:97` speaks of a limited number. No
property builds on either. `spell`, `failures`, `stragglers`, `extended` and `dials` are history.

### The registry

**Directory** is the abstract specification: at most one instance under each ID, one entry changed at a time,
and only to an instance that some host offers.

**EtcdRegistry** has hosts (programs that call Setup or SetupMulti, again and again) and etcd's
leases and keys. `Grant`, `Put` and `KeepAlive` are the three calls of Register; `RegisterFails`
is one that fails, with or without having taken effect. `TakeRegistration` is the first half of
Deregister, under the lock, `FinishDeregister` the second, which may fail; `Close`, `CloseRevoke`
and `CloseDone` are Close. A lease that nobody keeps alive may run out (`LeaseExpire`), a client
may be cut off for longer than the TTL (`Partition`), a program may die anywhere (`Crash`), and its
leases then run on until they expire. etcd's part is modelled from how the code uses it, and marked external.

**Balancer** has the three pickers. Round robin and random read one cell of the slice:
`Picks(picker, slice)` is the set of what they may return. The weighted one has nodes, `Rebuild`, a
`Fingerprint`, and `Turn`, in which every node gains its weight (`Raised`) and the best one pays for it
(`Charge`); its steps are put together in ResolverPool. The round-robin counter is kept modulo `PickCycle`, a multiple of every list's length; the 64-bit overflow is left out. No run
needs a resolver with round robin: the cell it reads is one of those random may read, and the theorems hold for all three.

**ResolverPool** joins resolvers, pool and requests. A resolver lives in a slot: `list` is its
instance list and `room` the capacity of the array the list is in; `pipe` has the events that are under way to it, in
order. `Fetch` and `Watch` are NewResolver; a change between them is missed, which the history
variable `missed` records. `HandleEvent`, `FullRefresh` and `LoopReturn` are watchLoop; a closed
resolver's loop may still handle events, as Go's `select` may choose them. `Lookup` and
`Relookup` are GetOrCreate's two looks. `Resolve` takes the slice under the read lock, and the
picker uses it later: meanwhile `WriteList` changes the cells that request sees, as long as the array is
the same (`shared`).

`Pick` is a pick that reads one cell. A weighted pick takes the picker's mutex and reads its slice one cell at a
time (`ReadCell`), first for the fingerprint; when that is the picker's, `KeepNodes` takes a turn of the nodes there
are, otherwise `Differs` begins the second reading and `RebuildNodes` makes the nodes of it and records them under
the first one's fingerprint (`balancer.go:67-70`). `HandleEvent` needs the resolver's lock only and may come
between any two of these steps. `cells` is what the present reading has read, `fp` the fingerprint computed; `disturbed`
(picks whose slice changed since they took the mutex) and the picker's `torn` (it did while the nodes were
made) are history. One event is handled in one step, though removing the first of three or more instances
moves several cells one after another; with the two IDs of the runs it moves one at most. An ID and a weight are
read with one access to a cell, as in the code, where a cell is a pointer to an instance that nobody changes.

## 3. What the runs check

| Run | Instance | Properties | Result |
|---|---|---|---|
| `store` | 3 admins, 6 requests of all kinds, 2 values, 2 formats, 1 storage error | StoreTypeOK, RowsIntact, PublishedFromOwnDraft | hold; 335 557 states |
| `store_format` | 1 admin, 3 requests | ReleasedFormat | violated (finding) |
| `center_publish` | 2 admins, 4 requests (save, publish, delete), 2 clients, 2 handlers, no fault | TypeOK, NoSendOnClosedChannel, ListenersAreWaiting, SubscribedIsWoken, FreshAnswer | hold; 659 114 states |
| `center_gray` | 2 admins, 4 requests (rules, deletion of rules and of the namespace too), 1 client, 2 handlers, percentages 50 and 80 around the client's bucket 60, 1 fault | CachesIntact, DraftsStayPrivate, ImplementsRelease | hold; 740 946 states |
| `center_liveness` | 1 admin, 4 requests, 1 client that may stop, 1 handler, 1 fault | HandlersReturn, StopReturns, Convergence | hold; 124 093 states |
| `center_listeners` | 1 admin, 4 requests, 1 client with a listener | ListenerEndsOnCache | violated (finding) |
| `gateway_config` | 3 versions (one is not YAML), 2 listeners, 2 deliveries, 2 requests | TypeOK, QuietConfigInForce, CalmRequestsJudged | hold; 1 233 975 states |
| `gateway_keys` | 2 versions, 1 listener, 1 delivery, no request | KeysFollowConfig | violated (finding) |
| `requests` | 3 configurations (limit and breaker, limit only, breaker only), 2 requests at a time, 5 in all, 1 gRPC instance, 3 seconds, 1 change | TypeOK, BurstBounded, ExtensionsBounded, ConnectionsOwned, OpensOnRecentFailures | hold; 1 968 647 states |
| `registry` | a program that may return at another address, a program with two instances, 4 leases, 1 fault | TypeOK, RegisteredIsListed, DepartedAreDropped, ImplementsDirectory | hold; 125 692 states |
| `pool` | 2 resolvers, 2 requests, 3 instances of 2 IDs (one comes back with another weight), 3 changes, 1 change of strategy (weighted, then random), 1 fault | TypeOK, ListFollows, PoolOwnsResolvers, WeightedFair, SlicesStayWhole, PicksFromList | hold; 1 375 661 states |
| `pool_gap` | 1 resolver, 1 request, 1 change | PooledListIsCurrent | violated (finding) |

**What the properties say**, beyond their comments in the modules:

- *QuietConfigInForce* has an exception, and it matters: when two changes overlap, the callbacks of
  the older may run last, and keys and strategy then differ from the configuration held. The next
  change that comes alone mends it; the property says that it mends all three, at any point of Setup.
- *CalmRequestsJudged* compares the verdict of all the code's caches and key maps with `Verdict`,
  which states from the configuration alone what should become of a caller.
- *ExtensionsBounded*: a late failure in the open state sets `openedAt` anew and postpones the
  probe. It happens once at most for each request in flight when the circuit opened, or let through
  by a breaker that was disabled then: a trickle of late failures cannot hold the circuit open for ever.
- *OpensOnRecentFailures* counts failures second by second, independently of the code's window.
- *RegisteredIsListed* is about predecessors: the lease of a crashed program expires under the
  key its successor has put again.
- *ListFollows* folds the pending events into a list and compares it with the directory on every ID
  whose changes the resolver was told of. It holds because registry and resolvers use one prefix.
  The gateway never passes its registry's configured prefix to a resolver, which assumes `/nexus/services`: with another
  one no delete event matches (`resolver.go:143`), and instances that left stay listed. The
  constants `RegistryPrefix` and `ResolverPrefix` are there to show it.
- *SlicesStayWhole* is the price of the in-place changes: a request may see an instance twice, or
  one that has left, but no empty cell, and never misses one that was there throughout. It speaks of
  the array at each instant: a picker that reads cell by cell while an instance moves forward may still miss it.
- *PicksFromList* says what is left of "nodes follow the list" when the slice is read twice. The number of
  nodes is always that of the slice's cells. Their IDs and weights are the slice's with two exceptions: the slice changed
  under this pick, or it changed under the pick that made the nodes, which are then recorded under a fingerprint that
  is not theirs. Both are needed: without either, TLC finds the property violated in run `pool`.
  Three changes are enough for that: "n2" with weight 1 is fingerprinted, put with weight 2, rebuilt, and put back with
  weight 1, and the nodes of weight 2 stay for as long as the list does. The address is not part of the fingerprint
  (`balancer.go:105`), and the property says nothing of it: an instance that comes back under its ID and weight
  at another address is picked at the old one. The program's own configuration file puts the address into
  the ID (`registry/config.go:107`); callers of SetupMulti name their IDs themselves.

**The bounds and why they suffice.** In the configuration centre, `MaxOps` and `MaxFaults` bound the requests and the faults of
a behaviour; nothing else is bounded. Six requests are enough for save, publish, delete, save and
publish again with one more in between, which is what a publication crossing from one row
to its successor takes. Four requests are enough for two publications of different values
(save, publish, save, publish), the smallest history in which one supersedes the other, and with
two admins they overlap. Two handlers are enough for a departed client's old handler next to its
retry, and for one waiting while another subscribes. A second client adds a second channel to one
notification. Deadlock is checked where a client polls for ever. It is not in
`store` and `store_format`, where the administrators stop after `MaxOps` requests, nor in
`center_liveness`, where the client may have stopped. Handlers and the store's administrators are interchangeable
(symmetry); the runs with liveness properties use none.

In the gateway and the registry the bounds are `MaxDeliveries`, `MaxTime`, `MaxArrivals`,
`MaxChanges`, `MaxLeases`, `MaxUpdates`, `MaxFaults` and `PickCycle`. Two deliveries are enough for changes that
overlap each other or Setup, and for one that comes alone after another. Two requests are
enough for every race in the IP filter, the connection map and the pool's double check. Three seconds with a
window and a cooldown of one are enough for a window to run out and for an open circuit to be probed and
opened again; five requests are enough to trip it, probe it and meet stragglers. Four leases are
enough for a program to register, crash and register again beside one with two instances. Three
changes are enough for an instance to come, change its weight or leave, and come again; two
slots, for a closed resolver in use beside its successor. These models stop when their bounds are
used up, so deadlock is not checked in them.

**Mutants.** Every property has a mutated definition beside the code's (a dropped lock, an MD5
from the wrong column, a channel left registered, a timer that is missing...) under which TLC finds it violated;
they are listed in `PROJECT.json`.

**Fairness.** `FairSpec` gives weak fairness to what the Go scheduler and the timers run anyway:
an admin request that was begun, a handler (its wait ends at the latest with the 30 s timer), a
client's loop (its `http.Client` has a timeout: a lost connection ends in `RequestError`), a
listener goroutine. No fairness makes an administrator send a request, a client start or stop, or a
fault happen. A handler's fairness is one condition for the whole goroutine: no branch of its
`select` is promised to win. The registry's `FairSpec` has weak fairness for `LeaseExpire` only: etcd ends a lease that
nobody keeps alive. No program is assumed to go on, to shut down or to start again. The other specifications have safety
properties and no fairness.

**Four findings.** *ReleasedFormat*: the format has one column, so saving a draft changes the
format of what is already released (`sqlite.go:118`), although the README promises drafts and
releases kept apart. *ListenerEndsOnCache*: `go listener(version)` (`client.go:215`) orders
nothing, so an application may end on a superseded version while the SDK's cache holds the newer
one; the gateway stores what its listener is given. *KeysFollowConfig*: a version stored between
`gateway.New`'s Load (`gateway/gateway.go:28`) and its OnChange (line 45) reaches the holder, not
the JWT keys and the strategy, until the next publication. *PooledListIsCurrent*: `NewResolver` fetches (`resolver.go:54`) and then
watches without naming a revision (`etcd.go:169`), so an instance that comes or leaves in
between is missed until its own next change.

The converse is worth noting: *Convergence* holds for the cache. The design leaves gaps
on purpose or not (a publication before the subscription, a dropped notification, gray rules and
drafts that notify nobody, a restart), and the repeated comparison of MD5s in each poll closes all
of them, at the cost of a delay of at most one poll. It speaks of MD5s, as the code does.

## 4. What is proved

All theorems hold for every number of processes, requests, values and faults, and for every value of the bounds.
They assume only what the modules assume of their constants. In the configuration centre: `Md5` is a function
and injective, percentages lie in 0..100, buckets in 0..99. In the gateway: a readable version has
all sections, with a filter and a list of keys; rates, bursts, thresholds, windows and least numbers of
requests are natural numbers, as `ApplyDynamicDefaults` leaves them; the set of requests is finite. In the
registry: each instance a host offers has an ID of its own, and hosts do not share IDs. In the pool: every
instance has an ID and an integer weight, and the order of etcd's keys, `KeyOrder`, names each ID once. And `None` is
none of the things it stands beside. TLC evaluates these assumptions in each run. One theorem has hypotheses of its
own: ListsFollow assumes that registry and resolver use one prefix (with two, the property is false, see section 3)
and that the protocol a resolver asks for does not tell instances of one ID apart. The gateway's resolvers
ask for any protocol, so for them the second one is always true.

| Theorem | States |
|---|---|
| StoreTypeCorrect, StoreRowsIntact, StorePublishedFromOwnDraft | the invariants of run `store`, for `StoreSpec` |
| TypeCorrect | TypeOK for `Spec` |
| NeverSendsOnClosedChannel, ListenersMatchWaiters | the channel invariants |
| ClientCachesIntact, DraftsReachOnlyGrayClients | the delivery invariants |
| SubscribedHandlersAreWoken | SubscribedIsWoken |
| AnswersAreFresh | the action property FreshAnswer |
| CenterImplementsRelease | ConfigCenter implements ConfigRelease |
| GatewayConfigTypes, QuietGatewayFollows, CalmRequestsAreJudged | TypeOK, QuietConfigInForce and CalmRequestsJudged of GatewayConfig |
| RequestPathTypes, ConnectionsAreOwned, ExtensionsAreBounded, BurstIsBounded | TypeOK, ConnectionsOwned, ExtensionsBounded and BurstBounded of RequestPath |
| OpensOnFailures | the action property OpensOnRecentFailures of RequestPath |
| RegistryTypes, RegisteredStaysListed | TypeOK and RegisteredIsListed of EtcdRegistry |
| RegistryImplementsDirectory | EtcdRegistry implements Directory |
| PoolTypesOK, PoolOwnsItsResolvers | TypeOK and PoolOwnsResolvers of ResolverPool |
| ListsFollow | ListFollows: a resolver's list and the events still under way to it add up to the directory |
| SlicesAreWhole | SlicesStayWhole, under in-place changes of the array |
| WeightedIsFair | WeightedFair, for any weights |
| WeightedPicksFromList | the action property PicksFromList, for slices of any length that change between any two reads |

**Arguments.** *Types* (`TypeInv`) need more than TypeOK: a handler or request that is about to
use a local has set it (`HandlerLocals`, `ReadsTyped`), and a row has both published columns or
neither. *Rows* (`IntactInv`): an administrator carries a pair it read together, so the pair it
writes is one. *Own draft* (`OwnDraftInv`): what a publication carries under an id was
saved under that id, and ids below `nextId` are never given again, hence a publication from
before a deletion meets no row with its id. *Channels* (`NotifierInv`): whoever has channels left
to send to holds the read lock, so nobody can subscribe or unsubscribe meanwhile. *Delivery*
(`DeliveryInv`): one predicate says what is fit to be served, and the invariant states it at
every place a version passes through: the row, what an administrator carries, the notification, the channel, a
handler's locals, the reply, the cache. `released` and `maxGray` only grow, so what was fit stays fit.
*Waking* (`WakeInv`): the published column changes only in a step after which that request is
about to re-read and notify; entering Notify puts every waiting handler among those to be sent
to, because exactly those are registered; a send either fills the channel or was to a full one.
*Freshness* joins the two: after a re-read a handler holds something in force since it
subscribed, and a client that no rule reached is served the published columns of it.

The proofs about `ConfigCenter` reuse the lemmas of `ConfigStoreProofs` for each store step.

*Refinement* (CenterImplementsRelease): `cache` changes only in the step that takes an answer, and
`DeliveryInv` says of every answer that its client may hold it at that moment; `released` and
`maxGray` change in the publishing update and the enabling of a rule only.

*The gateway's configuration* (`ConfigInv`): unless changes overlapped, at most one goroutine is
busy, and it carries the newest version; for each of its places `Progress` says what it has
already brought in force. When nobody is busy, everything is (`Settled`), but for the callback's part while
Setup has still to load. *Calm requests* (`CalmInv`): a request is calm only while nobody is busy,
so `ConfigInv` gives it the newest configuration at each load. The cache of the IP filter is the hard
part: unless requests raced, at most one is between its comparison and its match while the cache
changes (`FilterOK`); whoever matches finds its own section and the entries parsed from it, and between two
requests the entries are those of the section beside them. `TokenJudged` says that a key map finds
the key of a token exactly when the last usable entry of that kid, in a list of any length, is its signer's.

*Request path*: the connection lock is held exactly by a request that dials,
hence the second look cannot be overtaken (`ConnectionInv`). Each renewal of an open circuit uses up a request in
flight: `extended + Cardinality(InFlight) <= stragglers` (`ExtensionInv`). The tokens left and the requests passed
never exceed burst plus refill (`BurstInv`), an argument about products of unknowns that is
broken into monotonicity lemmas. *Opening* (`WindowInv`): the code keeps one counter per window, the
property a sum over seconds. The counter never exceeds the sum since the window began, because each
failure adds one to both, and a window that is begun anew starts from zero. A failure that opens the circuit
was counted in a window no older than the configured one, so the sum over the last window is at
least the counter.

*Registry* (`RegistryInv`, `ListInv`): no two registrations, pending or recorded, have
a lease in common, a lease has one key, and its keepalive ends before it is revoked; so what ends
a lease takes away the key of that registration only, and one entry at most, which is both
RegisteredIsListed and the refinement. *Pool* (`PoolInv`): whoever creates a resolver holds the
lock, and the pool is empty meanwhile, so neither a second resolver nor a change of strategy can
come between.

*Lists* (`ListInv`, `FollowInv` in PoolProofs): for every ID, the last event under way decides what the
list will say of it, and if there is none the list says it already. Handling the first event of the pipe leaves what is decided
unchanged, a new event decides its own ID, and a refresh decides all. ListFollows folds the events, so the
fold is shown to agree with what is decided. *Slices* (`SliceInv`): in-place
changes are one replacement, one append within the array's room, or one removal that moves the cells behind it forward by
one; a request that took its slice before sees, cell by cell, an instance of the list
before or after, and what stayed in the list is still in a cell (`MovesForward`). *Weights*
(`PickerInv`): after `k` picks of a cycle, a node that was picked `served` times has the current weight
`k * weight - served * total`. The current weights add up to zero, and none falls to `-total` or below;
after `total` picks every node has therefore been picked as often as its weight says. *Readings* (`ReadInv`): what a pick
has read agrees with its slice, cell by cell, unless it is `disturbed`; the lengths agree always, as a slice keeps its length.
Together with the slice, the fingerprint a pick carries to its second reading obeys the same rule. `Recorded`, in `PickerInv`,
says that a picker's fingerprint is that of its nodes unless they are `torn`, and has as many parts as there are nodes
in any case; equal fingerprints then give PicksFromList. `ReadInv` rests on the mutex: one request reads at a time.

*Folds* (FoldLemmas). The library's induction theorems take an operator, which the provers cannot
instantiate. Induction is instead about sets: a set of numbers that has 0 and the
successor of each of its members has all numbers (from the least element of the complement), and likewise for a set of
subsets of a finite set. A fold over a sequence or over a function's domain is then a function on subsets that exists
and agrees with the community modules' definition (`RecursionExists`, `FoldExists`, `FoldIsSum`); what the proofs need of
it follows: the effect of a first and of a last element (`RunHead`, `RunLast`), and that sums do not depend
on an order, are monotonic, and change by as much as one element does (`TotalAdds`,
`TotalMonotonic`, `TotalUpdate`, `FoldOnPart`).

**Only model-checked.** HandlersReturn, StopReturns, Convergence and DepartedAreDropped: they are liveness
properties under fairness, which is out of the prover's reach. Every invariant and every action property that a
passing run checks is a theorem. The four findings are counterexamples of TLC.

## 5. Not modelled

- *nexus-config*: CreateNamespace and the read-only admin requests (no other operation reads the
  namespace row); `NotifyConfigChange`, cache `Delete` and `Clear` (nothing calls them); a second
  `Stop` on one client, which closes a closed channel; malformed requests; MD5 collisions; parsing; the package
  facade and the web console. The time of the configuration centre is abstracted to "the timer may fire while a handler
  waits", which allows all durations.
- *nexus-registry*: concurrent Register calls in one process (Setup and SetupMulti make them in
  turn), the loading of its TOML file, GetInstances, and revisions of etcd.
- *nexus-gateway*: the static TOML configuration, failures of Setup (the program ends), CORS, headers, bodies and
  URLs, the health and metrics routes, logging and tracing, the claims of a token, the overflow of
  the round-robin counter, fractions of tokens and of seconds.
- *hello-service*, a demonstration of calls to the above, and all generated code.

Three hazards in the list have no property, each with its reason in `PROJECT.json`: what a client
should do with a deleted item, what becomes of the gray rule of a deleted configuration, and gRPC failures the breaker
is not told of. In none of them does a document say what should happen.

## 6. Where it could go on

- A resolver that fetches at a revision and watches from it would make PooledListIsCurrent an
  invariant; registering the callback before the load would do so for KeysFollowConfig. Both
  violation runs are ready to become passing ones.
- A picker that builds its nodes and their fingerprint from one copy of the slice, the address included, would make
  the exceptions of PicksFromList superfluous.
- A step for each cell that a removal moves, and one between the breaker's load of the configuration and its lock.
