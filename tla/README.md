# A TLA+ verification of the Gloo Gateway control plane

Gloo Gateway is an Envoy control plane. It watches Kubernetes, translates
Gateways, routes and upstreams to *Proxies*, translates Proxies to xDS snapshots
that Envoy nodes are served, and writes statuses back. This directory models the
parts of it whose correctness depends on the order of events: queues and
reconcile loops, status reporting under leader election, discovery, admission and
reconciliation of the Edge configuration, and the way a snapshot gets to the xDS
cache. Paths below are relative to the repository.

## The system and its parts

    Gateway API objects --controllers--> AsyncQueue --> ProxySyncer ------------+
    Edge API objects --webhook--> store --event loop--> translate, reconcile ---+--> Proxies
                        ^ validator <------+                                    |
                                                                                v
    cluster, Consul --> hybrid client --> Upstreams --+
    UDS plugins, FDS -------------------> Upstreams --+--> Gloo loop: translate,
    EDS plugins (Consul) ---------------> Endpoints --+    sanitize, xDS cache --> Envoy
                                                           |
                                                           +--> reports --> status loops (leader)

| Part | State | Operations | What makes it hard |
|---|---|---|---|
| Proxy syncer (`projects/gateway2/proxy_syncer`) | two one-slot queues, `secretsWarmed`, `totalResyncs`, the proxy store | Enqueue, resync, reconcile | concurrent kicks, kicks swallowed before the secrets are warm, partial reconciles |
| Status factory (`projects/gateway2/status`) | registries and queued proxies per sync | queue, handle reports | reports of overtaken syncs |
| Edge status reporting (`projects/gateway/pkg/syncer`, `projects/gloo/pkg/syncer`) | reports and statuses per proxy, last written status, retry timer, startup action | sync, update statuses, write, retry, perform action | four goroutines, stale snapshots, election at any time |
| Leader election (`pkg/bootstrap/leaderelector`) | lease, `elected` channel, `Identity`, recovery timer | callbacks, loop, timer | late callbacks, crash, restart, second failure |
| Function discovery (`projects/discovery/pkg/fds`) | tracked upstreams, tokens, results | track, detect, save, loop | cancellation anywhere, tokens, optimistic writes |
| Endpoint and upstream discovery (`projects/gloo/pkg/discovery`) | lists per plugin, lock, readiness | receive, reconcile, resync, cancel | two critical sections, goroutines of a cancelled sync, sends under a lock |
| Envoy sync (`projects/gloo/pkg/syncer`, `.../sanitizer`, `projects/gloo/pkg/xds`) | xDS cache, node keys | garbage collection, sanitize, make consistent | maps shared between snapshots, failing List |
| Hybrid upstream client and Consul watch (`projects/gloo/pkg/upstreams`) | lists per source, one-slot output, index per data centre | list, watch, aggregate, tick, query, merge | list and watch are two calls, indexes go backwards, goroutines after a cancel |
| Consul endpoints (`projects/gloo/pkg/plugins/consul`) | services, a watch per service, previous specs and hash | refresh, query, pass on, publish, resolve again | two modes, cancelled watches with updates on their way |
| Admission (`projects/gateway/pkg/validation`, `projects/gloo/pkg/validation`) | a snapshot in the validator, one in the server | validate an edit or a list, sync | accepted edits not stored yet, syncs with older snapshots |
| Proxy reconciler (`projects/gateway/pkg/reconciler`) | the stored Proxy | strip, keep what is rejected, write | what is kept comes from the stored Proxy, sync after sync |

The parts that are not modelled are listed under *Not modelled*.

## Modules and the code they model

`PROJECT.json` maps every definition to lines of source.

**AsyncQueue** is the one-slot queue. `Enqueue` is two steps, `EnqueueDrain` and
`EnqueueSend`, because the code uses two selects; `Dequeue` is the receive.
**QueueClients** lets any number of producers and one reader use it.
`unserved` and `current` are history variables: whether an Enqueue has not been
followed by a receive yet, and the items sent since the last Enqueue started.

**StatusSyncerFactory** is the factory that is shared by the proxy syncer and the
Gloo loop; each entry point holds its lock and is one step.

**KubeGatewaySync** composes two instances of AsyncQueue, the factory, the
controllers, the proxy syncer and the Gloo loop. Everything that a Gateway is
translated from is one version number. A resync is several steps (list, queue the
statuses, write proxy by proxy, delete proxy by proxy), so that the Gloo loop and
the controllers interleave with it. Failing calls are actions; `incomplete`
records that the last resync met one. `SelfManaged` names Gateways for which no
Service is deployed: their deletion kicks nobody, so the properties except them.

**StatusReporting** has the translation loop, the gateway status loop, and the
goroutine that runs the startup action. Of Gloo's own status loop it has the write of
a proxy's status, one step that is taken some time after the sync; that loop's signal,
retry and startup action are left out. A status is the function from proxies to the
report and verdict it is computed from. `inputStatus` has the statuses that were on the
resources of the last sync that reached `setCurrentProxies`, which the loop compares with.
`epoch` identifies the map `inputResourceLastStatus`, which a sync replaces while
the status loop may still hold the old one.

**LeaderElection** has the callbacks, the election loop, and the recovery timer of
each replica. The lease and the elector of client-go are external: callbacks run
in goroutines that may be late, and a leader that cannot renew stops before its
lease can expire. A restarted process is a new identity, so `Restart` waits until
the lease is no longer the old one's. `Observe` covers every change of holder an
elector can see, a released lease included.

**FdsUpdater** has, for each updater, `Run`, one `detectSingle` per plugin,
`saveUpstream` with its single retry, and the discovery loops.

**EndpointDiscovery** has the goroutine per sync and plugin of `StartEds`, the
lock, the readers of the error channels, and readiness. A goroutine ends when its sync
is cancelled (`Exit`) or its plugin closes a channel (`PluginCloses`). `overtaken` records a
late goroutine of a cancelled sync. **UpstreamDiscovery** has `StartUds` with its
two critical sections, and `Resync`, which goes over the plugins in any order.

**XdsSnapshot** has the snapshot of `envoy_snapshot.go` with `Consistent` and
`MakeConsistent`. **EnvoySync** has `syncEnvoy`: garbage collection of
nodes, and for each proxy a translation (any snapshot of the shape
`generateXDSSnapshot` gives: listeners without filter chains and route
configurations without virtual hosts are left out, their counterparts are not),
the two sanitizers in their order, `MakeConsistent`, and the write to the cache.
Go maps are shared between the translated and the sanitized snapshot; the one
exception, the new map that route replacement makes, is in `Published`.
The two settings the code branches on, route replacement and garbage collection,
are chosen once and for all in `Init`. The fixed keys that are never collected (fallback
node, extensions) are left out. `healthy` is a history variable: the clusters and routes of
a translation that had no error. **MCEnvoySync** gives the listeners of each proxy.

**LatestValue** is the abstract specification of a stage between sources and a
reader: values are seen in order, some may be skipped, the newest is seen in the end
while the stage is open. UpstreamDiscovery and UpstreamWatch are shown to implement
it (`StoresLatest`, `ReceivesLatest`), with `written` and `seen` mapped to the newest
list of each source and the one that is stored or received.

**UpstreamWatch** composes **HybridUpstreams** (`Watch` of the hybrid client: a List
and a Watch per source, an aggregator goroutine each, the ticker, the one-slot
channel) and **ConsulWatcher** (one goroutine with blocking queries per data centre,
the merge, the conversion to upstreams). A list is the version of its source. An
index that goes backwards is a `Register` with a smaller index; `missed` records that
it came back to the very value the query waits for, which no client can notice.
`MaxEvents` bounds all that happens to the watch: changes, failing queries and the
cancellation. In the refinement a source is the cluster or one data centre (`Origins`),
and `Written` and `Seen` are its newest version and the one the reader has.

**ConsulEndpoints** has `WatchEndpoints` of the Consul plugin in both modes. Watches are
numbered as they are made; services that get theirs in one pass of the loop are numbered
in a fixed order (`New`), which shows in nothing but the numbers. Instances of services
in `HostNamed` have host names, which are looked up each time endpoints are built. Any of
the lookups may fail; the resolver then gives its last answer for that name
(`previousResolutions`), and without one the service is left out and the others are
published. The history variables `forgotten`, `overtaken`, `dropped` and `unresolved` name
the services for which the code leaves old endpoints behind, or none; see below. In a
watch, queries that fail and an index that goes back are left out: they are as in ConsulWatcher.

**GatewayConfig** composes **AdmissionValidator**, **ProxyReconciler** and, under both,
**GatewayTranslation**. An edit is asked about (`Ask`, `AskList`) and, if allowed, stored
later (`Commit`) or not at all (`Lose`). It may also be stored without having passed
validation (`Bypass`): with the annotation that skips it, when the webhook cannot be
reached, or when it is set to `alwaysAccept` and allows what validation refuses
(validating_admission_webhook.go:371). The last is the default, and `AdmittedValid` says
nothing of such edits: it is about a webhook that enforces. The event loop takes the newest
store when it is free (a forced snapshot, or one that only a written Proxy makes, would hand
on the same objects and is left out) and hands it to the validation server, the gateway
syncer and the validator, in that order. Contents of a VirtualService are a domain, an
Upstream it routes to, and a fault only Gloo finds. `MCGatewayConfig` gives the contents.
The reconciler's sort by name puts a listener behind as many others as precede it
(`Precedes`), which is the same for a stable sort and needs no recursion.

Definitions whose comment starts
with *Mutant* are not part of a specification: each is a plausible slip in the
definition after it, used to see that the property notices.

## Runs

Run `tlc -config <cfg> <module>`.

| Run | cfg | Shows |
|---|---|---|
| queue | QueueClients.cfg | three producers: every kick is served, no overtaken item is delivered |
| kube_gateway_sync | KubeGatewaySync.cfg | no change forgotten, an idle syncer has the newest proxies stored, reports find their registry, only the newest sync is applied; the store and the statuses converge |
| status_reporting | StatusReporting.cfg | a quiet status loop has written the newest statuses, gets there through failures, and only the leader writes |
| leader_election | LeaderElection.cfg | one replica with recovery, one without: until its first loss, who believes to lead holds the lease or is about to be told; without recovery losers stop; with it, a lost leadership is resolved by another election or the timer |
| fds | FdsUpdater.cfg | tokens are conserved, each tracked upstream has one live updater, edits of the owner survive, detection ends while no updater is cancelled |
| eds | EndpointDiscovery.cfg | the newest endpoints are stored, readiness means that endpoints of all plugins are stored, and comes; a cancel ends all goroutines unless an error is sent to nobody |
| uds | UpstreamDiscovery.cfg | the newest upstreams are stored, over failures of other plugins; implements LatestValue |
| envoy_sync | MCEnvoySync.cfg | what is served is consistent, no replaced route leads to a missing cluster, known nodes without a proxy are emptied, what had no error is served as it was translated |
| upstream_watch | UpstreamWatch.cfg | the reader gets the newest upstreams of the cluster and of two data centres, never goes back, and a cancelled watch ends; implements LatestValue |
| consul_eds | ConsulEndpoints.cfg | in both modes the reader gets the newest endpoints of every service, but for the cases named, and the ticker brings back what did not resolve |
| gateway_config | GatewayConfig.cfg | edits that are admitted are valid together unless the validator was `exposed`; once all is synced, validation is off exactly while the store has a resource the translation refuses; the Proxy converges to the accepted configuration unless its write failed; a rejected VirtualService is served as before while no listener has moved |

One more run ends in a counterexample. It states what a comment of the code says:

| Run | cfg | The comment | What happens |
|---|---|---|---|
| startup_action | StatusReportingStartup.cfg | gateway translator_syncer.go:435 | one startup action is kept, for the last resource only |

### Other behaviour the models have

These follow from the same models and from the code they translate. No run is
kept for them, and the properties above are stated so as to be true beside them.

- `queue.go:49` says of a send that finds the slot taken "Should never happen". With
  two producers it does: both drain before either sends. It is harmless, as
  `NoKickLost` and `KickServed` show.
- `status_syncer.go:134` means to drop the registry of a finished iteration, but tests
  the number of iterations in the map, which never shrinks: `registryPerSync` grows.
- The gateway syncer's `UpdateStatusForAllProxies` reads proxy statuses before Gloo's
  status loop has written those of the same sync; it sees them in the next sync.
- An updater of function discovery that is cancelled while a plugin probes leaves
  `detectSingle` blocked in the send of its result, with its token.
- With route replacement `MakeConsistent` changes the route map of the translated
  snapshot, which is no longer the one served: routes without a listener stay, and
  listeners without a route get no placeholder. Hence the premise in `ServedConsistent`.
- A proxy that is deleted before its nodes have asked leaves its snapshot in the cache
  until the first sync after they do. Hence `known` in `StaleNodesEmptied`.
- A failing List of proxies makes `translateProxies` go on with none: every known node
  gets the empty snapshot (gloo translator_syncer.go:180) until the next sync
  (`BeginSyncListError`). The properties hold beside it, as they are about the proxies a
  sync has seen.
- `Reset` in `identity.go:42` has a value receiver. A replica with recovery that lost
  its leadership goes on saying that it leads for as long as its process lives.
  Hence `elected[r] = 0` in `LeadersHoldLease`.
- A Reconcile of endpoints that fails sends its error with the lock held
  (`discovery.go:201`). If the sync has been cancelled its reader may be gone
  (`run.go:59`), and no plugin delivers endpoints any more. `CancelClosesAll` names
  this as the one thing that keeps goroutines from ending.
- While the current sync has a plugin whose `WatchEndpoints` failed, or that has closed its
  channel, before it delivered, readiness does not come: it counts all plugins.
  `BecomesReady` names this, and the send to nobody above, as what can keep it.
- After a Reconcile that failed readiness is signalled all the same, though the endpoints are
  in `endpointsByEds` only. Hence `failed` in `ReadyMeansStored`.

Of the Edge configuration:

- A sync with a snapshot from before an accepted edit takes the edit out of the
  validator's snapshot again, and the accepted deletion of an Upstream does not reach the
  server's snapshot before the next sync. In both windows edits can be admitted that are
  not valid together; `exposed` marks them, and edits that bypass the webhook or are lost.
- An accepted edit that is never stored, and the accepted part of a list that is refused,
  stay in the validator's snapshot until a sync finds another store.
- `latestSnapshotErr` comes from the translation to Proxies only. If Gloo rejects
  what is stored, "allow writes if storage is already broken" does not apply, and every
  edit that does not repair all of it is refused.
- A conflict of domains is an error on the Gateways too, so all their listeners stay as
  they are. A Gateway that moves to another port while a VirtualService is rejected loses
  the kept host, which is looked up by the listener's name. Hence the premise in
  `RejectedStayServed`.
- A kept virtual host can share its domain with that of a VirtualService accepted later.
- When the last VirtualService is deleted the stored Proxy is deleted.
- A Proxy that could not be written is written with the next snapshot (`unwritten`).

Of Consul:

- In blocking mode the endpoints of a service that is removed stay published until
  another service has an update (`forgotten`); and nothing is published, not even an empty
  list, while there has never been a service.
- An update of a cancelled watch can win the select in `aggregateEndpoints` and arrive
  after that of the new watch of the same service (`overtaken`), or when there is none,
  which the loop logs as a logic error.
- A query of `refreshSpecs` that fails drops the endpoints of its service until the next
  change (`dropped`).
- A service whose name does not resolve, and never has, is left out with a warning while the
  others are published (`unresolved`). The ticker tries again, so `EndpointsConverge` does
  not except it.

### Two races that StatusesSettled excepts

`covered` is true when the last round of the status loop began after the startup
action had run and compared with the statuses in the cluster. Otherwise a status
can stay behind in two ways. First, the startup action holds an old report; it can
be fetched before, and write after, the status loop has written a newer one.
Second, the loop compares with the status of the snapshot until it has written once
since the last sync; when the cluster has moved on since that snapshot was taken
and the new status equals the snapshot's, the write is skipped.

### Bounds

Two of each kind of thing that can race (producers, Gateways, replicas, plugins, syncs) and
one failing call (two for UpstreamDiscovery) are the smallest numbers for which each race
exists: overtaking needs two syncs, a lost wake-up two producers, a late callback two terms,
competition two updaters and one token. `MaxChanges = 2` lets a Gateway be made and then
changed or deleted, or two be made, within one resync; the proofs cover the safety part for
any number. StatusReporting uses two resources because the startup action needs two to lose
one. FdsUpdater has one plugin, as two updaters compete for the token just as two plugins
do; two plugins of one updater that save at the same time are beyond this run. EnvoySync has
two upstreams, one with endpoints of its own, so that one can have an error and the other
none, and a listener in one of the two proxies: references are looked up one by one.
`MaxEnvoySyncs = 2` suffices as a sync depends on the cache and the node keys only.
UpstreamWatch has two data centres, one of which does not change: the merge needs a second
one, and the first has all the events. ConsulEndpoints has two services, one with host
names, two changes and two failures, so that one can go and come back while the other is
queried, and a lookup fails before there is an answer and after. GatewayConfig has two
Gateways, two VirtualServices and an Upstream, three edits and one fault: two edits
conflict, a third comes between them or repairs. Three terms of leadership let one replica
lose the lease twice, with a term of the other between. CHECK_DEADLOCK is off where a bound
makes the system stop; the runs of QueueClients and KubeGatewaySync keep it on.

### Fairness

Goroutines that can run do run (weak fairness of each loop). Strong fairness is
assumed in three places where Go's runtime gives it: a ready case of a `select` is
chosen at random, so the reader of the queue is not passed over forever; a mutex
is handed over to those waiting; and receivers of a channel (the semaphore) are
served in order. UpstreamDiscovery, UpstreamWatch, ConsulEndpoints and GatewayConfig
assume less: that of the goroutines of a loop or component that can run, some one does.

Of the environment three things are assumed: the lease of a process that no longer
leads expires; the Gloo loop is given the newest stored proxies in the end
(KubeGatewaySync); and the API server goes on to store edits that were allowed, unless
they are given up (GatewayConfig). Nobody has to change the cluster, be elected, or
make an edit, and calls may fail up to the bound.

## Proofs

`tlapm <module>` checks them. They hold for all values of the constants that satisfy the
modules' assumptions. Every invariant and every action property that a run checks is a
theorem. So are the type invariants of all modules with a proof; of these the ones of
FdsUpdater, UpstreamWatch, GatewayConfig and ConsulEndpoints are checked by a run too. No
run repeats `NoKickLost` and `UpstreamsSettled`: `KickServed` and `StoresLatest`, which the
runs check, also fail whenever one of the two does, as nothing that is fair is left to do
then.

A proof module may be about several components. Most are extended side by side, which is why
QueueClients, LeaderElection, EnvoySync and ConsulEndpoints have specifications with names
of their own (`ClientSpec`, `LeaderSpec`, `EnvoySpec`, `EndpointsSpec`). UpstreamDiscovery
is instantiated, with constants and variables of the same name as parameters; the
assumptions of a module that is instantiated are not facts, and `UdsAssumptions` states them
as a hypothesis.

**KubeGatewaySyncProofs**: `TypeCorrect`, `KicksNotLost`, `StoreSettled`,
`RegistryAlwaysKnown`, and `NewestOnly`. None of the properties is inductive by
itself. The invariant `IInv` adds

- `ResyncInv`: where the resync is determines what the store holds of it (proxies
  written are in the version listed, those still to be written are in `todo`),
  which is what makes the store right when the loop is back in its select;
- `OrderInv`: the sync number of a proxy only grows on its way back: reported, stored,
  last queued, `totalResyncs`;
- `QueuedInv`: a proxy is queued for its newest sync, or its entry is zero and nothing
  older is left of it in the store or in the report.

`Inductive` shows that every action preserves `IInv`, action by action. `KicksNotLost`
needs that an Enqueue in flight keeps the queue raised, which is a fact about
AsyncQueue. `NewestOnly` follows from `QueuedInv` and `OrderInv`: a report passes the
factory's comparison only with the newest number.

The same module has QueueClients: `SlotCorrect`, `KicksKept`, `NoneOvertaken`, for any
number of producers. Together the three are inductive.

And it has ConsulEndpoints: `EndpointsTypes` and `ConsulSettled` (of `EndpointsSettled`), for
any finite set of services. `EndpointsIInv` follows the newest instances of a service from the
catalog to the reader, differently in the two modes:

- `CatalogInv`: a list of services that the loop has not read is out of date only if
  `WatchServices` has another to send;
- `LoopInv`: the previous hash is that of the previous specs without what did not resolve,
  and the reader has that list unless it is still in the channel;
- `QueryInv`, without blocking queries: a refresh has the instances of those it has queried,
  and leaves them in the previous specs, but for the queries that failed (`dropped`);
- `MapInv` and `SpecsInv`, with them: the watches that are not cancelled are those in the map,
  there is one for each registered service once the newest list was read, and the
  previous specs are what the map has, but for watches that ended (`forgotten`);
- `NewestInv`: a watch whose last query saw the newest index has the newest instances in the
  tuple to send, else in the one that was passed on, else in the map, unless a cancelled
  watch came in between (`overtaken`).

The exceptions of `EndpointsSettled` (`overtaken`, `dropped`, `forgotten`, `unresolved`) are
each where one of these facts would not be kept, and the proof needs no other. Nothing is
assumed on the order in which a watch's goroutines run after it was cancelled.

**StatusReportingProofs**: `TypeCorrect`, `LeaderWritesOnly`, `SettledCorrect`. The
types say that the goroutine of the startup action has left its wait only once this
replica was elected, which is what `LeaderWritesOnly` needs.
`RoundInv` follows a round of the status loop: what is still to be written is in the
cluster as the loop believes, what is done is written or will be retried, and a sync
that changes what statuses are made of raises `syncNeeded`.

The same module has LeaderElection: `LeaderTypes`, `LeadersCorrect`. `FirstTerm` is needed
besides the types: a replica that leads holds the lease, and one that still has its first
`elected` channel, and has closed it or is about to, is leading or on its way out of
that term; with recovery, a term is not over before the channel has been replaced.

And it has UpstreamDiscovery: `UdsTypes`, `UdsSettled`, and `StoresInOrder`, the
safety part of the refinement of LatestValue. `Ordered`: stored, recorded and newest
versions of a plugin are in this order. `Owed`: a recorded list that is
not stored is left to the Resync that runs or to a goroutine that waits to run one, or the
last Resync failed. `Resyncing`
describes a Resync under way.

**FdsUpdaterProofs**: `TokensCorrect`, `UpdatersCorrect`, `EditsCorrect`, three
arguments about different variables, and `FdsTypes`, which rests on them.
`Goroutines`: an updater that has not started its
detections has none, so starting them neither takes nor returns a token. `TrackInv`: an
upstream with an active updater is among the tracked ones, and updaters that were not
created are not cancelled.
`WriteInv`: a copy, or an object that
was read again, is behind what is stored, and no edit lies between if it has the same
resource version; so a write that is not refused takes no edit back.
`ResultsInv`, for the types: `detectType` has received no more results than there are
plugins that have reported or given up (`Reported`), each of which is counted once. The
theorems hold for any number of plugins of one updater that save at the same time, which the
run, with one plugin, does not show.

**EndpointDiscoveryProofs**: `TypeCorrect` (with mutual exclusion), `ReadyCorrect`,
`SettledCorrect`. The invariant says that who has the lock is in the critical section
(`Locked`), that a goroutine waits for it with a list of its own sync (`Carries`), that the
store mirrors the map while the lock is free, unless the last Reconcile failed (`Mirrored`,
`Faulty`), that once ready every plugin has a list in the map (`Delivered`, which
`ReadyCorrect` needs), and that the newest list of a plugin is pending, in the hands of its
goroutine, or in the map unless it was overtaken (`OnItsWay`).

The same module has EnvoySync: `MakesConsistent`, `EnvoyTypes`, `ServedCorrect`, `RoutesCorrect`,
`CollectedCorrect`, `ErrorsCorrect`. `MakesConsistent`: whatever the snapshot, provided
the name of every item is a key of its map (`NewResources` indexes items by their
names), `MakeConsistent` ends in a snapshot that `Consistent` accepts. The premise is
needed: an item whose name is referenced but is no key would suppress the placeholder. The
other theorems follow one snapshot through the sanitizers (`Removed`, `Replaced`,
`PublishedGood`); the invariant says that all served snapshots are good in this sense. For
`ErrorsCorrect` the same way is followed for what had no error (`RemovedBacks`, `LinkedKeeps`,
`ConsistentBacks`, `PublishedHealthy`): each stage keeps it with its endpoints.

**GatewayAdmissionProofs** and **GatewayConfigProofs**: `TypeCorrect`, `AdmissionCorrect`,
`DisabledCorrect`, `RejectedCorrect`, and `ProxyCorrect`, the safety part of
`ConfigConverges`: a store that is synced, with its Proxy written, is served. The first
module has the invariant `IInv` and all steps but the reconciler's, the second those and
the theorems. `IInv` adds to the types

- `Separate`: the edits that were allowed and not stored yet are of different objects, so
  the store with all of them (`Admitted`) does not depend on the order they are stored in;
- `AdmittedInv`: unless it is exposed, the validator's snapshot is that store, and valid.
  `AdmittedValid` alone is not kept by a step, as the next edit is validated against the
  validator's snapshot and not against the store;
- `ErrInv`: validation is disabled while the translation refuses the validator's own
  snapshot, and between syncs while it refuses that of the event loop;
- `ProxyInv`: a listener that is stored twice is the same, and the Proxy is up to date
  with the event loop's snapshot once it was written.

The reconciler is followed through its stages, from what it strips (`StrippedListeners`) to what
it stores (`ReconciledContent`). That the sort loses and repeats nothing (`SortedListeners`)
is shown by counting: the ranks of a finite set of listeners are different, so
they are all the numbers up to its size (`RankOnto`).

**UpstreamWatchProofs** and **UpstreamOrderProofs**: `TypeCorrect`, `SettledCorrect` (of
`ReceivedSettled`), and `ReceivesInOrder`, the safety part of the refinement of LatestValue
in `ReceivesLatest`. For the first two `IInv` follows the newest list on its way: from the
cluster (`GlooInv`), from the answer of a query to the merge of the data centres
(`QueryInv`), from the merge to the loop of the hybrid client (`MergedInv`), and from there
to the reader (`SlotInv`); `PhaseInv` says how far `Watch` is. Each is a disjunction over
the places where the list can be, and where all of the channels are empty the last place is
left. For the refinement `OrderInv` lines up the places between a source and the reader,
five for the cluster and ten for a data centre: versions get older from the source to the
reader, places that hold nothing apart. A step moves a value to the next place, empties a
place, or makes the source newer, which all keep the order (`Shifted`, `Grown`); the
refinement then needs only that the loop's list is not older than the reader's.

Assumptions: those named in the modules (`SelfManagedAssumption`, `BoundsAssumption`,
`DataCentersAssumption`, and so on), which TLC evaluates in the runs. They say that bounds
are numbers, that values standing for nothing are none of the others, that sets whose
elements are counted or listed are finite, and that the first configuration in GatewayConfig
is valid.

Model-checked only is liveness (`KickServed`, `StoreConverges`, `StatusConverges`,
`StatusesConverge`, `LoserStepsDown`, `FailureResolved`, `DetectionEnds`, `BecomesReady`,
`CancelClosesAll`, `CancelEndsWatch`, `ConfigConverges`, `EndpointsConverge`, and the
liveness in `StoresLatest` and `ReceivesLatest`), which is out of the prover's reach. The
safety part is proved where there is one: `ProxyCorrect` for `ConfigConverges`, `StoreSettled`
for `StoreConverges`, `ConsulSettled` for `EndpointsConverge`, the steps of the two refinements.
`StartupCatchesUp` is refuted by its run.

## Not modelled

- The content of translations (Edge, Gateway API, Gloo and its plugins): pure functions
  over large inputs. Models see the version of the input, the shape of the output or,
  in GatewayTranslation, which objects conflict.
- TCP, hybrid and aggregate listeners in the proxy reconciler; an aggregate listener has
  no case in the copying of rejected hosts. Virtual hosts of a listener are a set, so that a
  host is not copied twice (proxy_reconciler.go:263) cannot be seen. Dry runs and secrets in
  admission, and requests that come before the validator has its first snapshot.
- The gRPC notification stream of the validation server, `MakeNotificationChannel` and
  the robust client: no code but tests calls them.
- Patches of Gateway and Route statuses by the proxy syncer, the deployer, CLI,
  Ingress and Knative: one-shot I/O.
- Resource versions in xDS, and the protocol between cache and Envoy. The version of
  clusters is hashed before the sanitizers remove some, so the removal alone may not be
  announced to a node.
- Vault renewal and the SDS server: one loop each around a library (the renewal timer, the
  file watcher) in which the timing is decided.
- StatusReporting is run with one proxy. `HashStatuses` leaves out the names of proxies,
  so that replacing one by another with an equal status goes unnoticed; the run
  cannot show it.
