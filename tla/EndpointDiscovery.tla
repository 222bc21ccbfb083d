-------------------------- MODULE EndpointDiscovery --------------------------
(***************************************************************************)
(* Endpoint discovery (projects/gloo/pkg/discovery/discovery.go StartEds   *)
(* and run.go).  Every snapshot of upstreams cancels the context of the    *)
(* sync before and starts, per plugin, a goroutine that stores each list   *)
(* of endpoints under the lock of EndpointDiscovery, and one goroutine     *)
(* that reads the errors of this sync.  Syncs are numbered.                *)
(*                                                                         *)
(* A list is the sync whose upstreams it is for and the version of the     *)
(* endpoints in the cluster.                                               *)
(***************************************************************************)
EXTENDS Naturals, FiniteSets

CONSTANTS Plugins, MaxSyncs, MaxChanges, MaxErrors

ASSUME EdsBoundsAssumption == {MaxSyncs, MaxChanges, MaxErrors} \subseteq Nat
ASSUME EdsPluginsAssumption == IsFiniteSet(Plugins)

Syncs == 1..MaxSyncs
NoList == <<0, 0>>
Free == <<0, "free">>

VARIABLES
  sync,            \* the current sync; those before are cancelled
  pc, list,        \* of a goroutine: where it is, the list it received
  pending,         \* the plugin has a list to send to the goroutine
  reader,          \* the goroutine that reads the errors of a sync
  lock,            \* who holds EndpointDiscovery.lock
  endpointsByEds,  \* newest list per plugin; NoList when there is no entry
  ready,           \* ready is closed
  store,           \* lists whose endpoints the cluster client has
  version,         \* versions of the endpoints, per plugin
  errors,          \* errors so far
  failed,          \* history: the last Reconcile failed
  overtaken        \* history: plugins whose list was stored by an old sync

vars == <<sync, pc, list, pending, reader, lock, endpointsByEds, ready, store, version,
          errors, failed, overtaken>>

Lists == (0..MaxSyncs) \X (0..MaxChanges)
Workers == Syncs \X Plugins

TypeOK ==
  /\ sync \in 0..MaxSyncs
  /\ pc \in [Workers -> {"off", "select", "lock", "reconcile", "sendErr", "exited"}]
  /\ list \in [Workers -> Lists] /\ pending \in [Workers -> BOOLEAN]
  /\ reader \in [Syncs -> BOOLEAN]
  /\ lock \in Workers \cup {Free}
  /\ \A w \in Workers : pc[w] \in {"reconcile", "sendErr"} => lock = w
  /\ endpointsByEds \in [Plugins -> Lists] /\ ready \in BOOLEAN
  /\ store \in [Plugins -> Lists] /\ version \in [Plugins -> 0..MaxChanges]
  /\ errors \in 0..MaxErrors /\ failed \in BOOLEAN /\ overtaken \in SUBSET Plugins

Init ==
  /\ sync = 0 /\ pc = [w \in Workers |-> "off"] /\ list = [w \in Workers |-> NoList]
  /\ pending = [w \in Workers |-> FALSE] /\ reader = [s \in Syncs |-> FALSE]
  /\ lock = Free
  /\ endpointsByEds = [e \in Plugins |-> NoList] /\ ready = FALSE
  /\ store = [e \in Plugins |-> NoList] /\ version = [e \in Plugins |-> 0]
  /\ errors = 0 /\ failed = FALSE /\ overtaken = {}

Cancelled(s) == s < sync

\* Endpoints change: the plugin has another list for the sync that runs.
Change(e) ==
  /\ version[e] < MaxChanges
  /\ version' = [version EXCEPT ![e] = @ + 1]
  /\ pending' = [w \in Workers |->
                   pending[w] \/ (w = <<sync, e>> /\ pc[w] \notin {"off", "exited"})]
  /\ UNCHANGED <<sync, pc, list, reader, lock, endpointsByEds, ready, store, errors,
                 failed, overtaken>>

\* Sync and StartEds: a plugin whose WatchEndpoints fails is skipped.
Sync(broken) ==
  /\ sync < MaxSyncs
  /\ errors + Cardinality(broken) <= MaxErrors
  /\ sync' = sync + 1 /\ errors' = errors + Cardinality(broken)
  /\ reader' = [reader EXCEPT ![sync'] = TRUE]
  /\ pc' = [w \in Workers |-> IF w[1] = sync' /\ w[2] \notin broken THEN "select" ELSE pc[w]]
  /\ pending' = [w \in Workers |-> pending[w] \/ (w[1] = sync' /\ w[2] \notin broken)]
  /\ overtaken' = {}
  /\ UNCHANGED <<list, lock, endpointsByEds, ready, store, version, failed>>

Receive(s, e) ==
  /\ pc[<<s, e>>] = "select" /\ pending[<<s, e>>]
  /\ pc' = [pc EXCEPT ![<<s, e>>] = "lock"]
  /\ list' = [list EXCEPT ![<<s, e>>] = <<s, version[e]>>]
  /\ pending' = [pending EXCEPT ![<<s, e>>] = FALSE]
  /\ UNCHANGED <<sync, reader, lock, endpointsByEds, ready, store, version, errors,
                 failed, overtaken>>

\* An error of the plugin is handed over if the reader waits, else dropped.
PluginError(s, e) ==
  /\ pc[<<s, e>>] = "select" /\ errors < MaxErrors
  /\ errors' = errors + 1
  /\ UNCHANGED <<sync, pc, list, pending, reader, lock, endpointsByEds, ready, store,
                 version, failed, overtaken>>

\* Mutant: the goroutine waits for the context of the process.
ExitWithProcess(s, e) == FALSE /\ UNCHANGED vars

Exit(s, e) ==
  /\ pc[<<s, e>>] = "select" /\ Cancelled(s)
  /\ pc' = [pc EXCEPT ![<<s, e>>] = "exited"]
  /\ pending' = [pending EXCEPT ![<<s, e>>] = FALSE]
  /\ UNCHANGED <<sync, list, reader, lock, endpointsByEds, ready, store, version, errors,
                 failed, overtaken>>

\* A plugin that gives up closes one of its channels, and the goroutine returns
\* though the sync goes on.
PluginCloses(s, e) ==
  /\ pc[<<s, e>>] = "select" /\ errors < MaxErrors
  /\ errors' = errors + 1
  /\ pc' = [pc EXCEPT ![<<s, e>>] = "exited"]
  /\ pending' = [pending EXCEPT ![<<s, e>>] = FALSE]
  /\ UNCHANGED <<sync, list, reader, lock, endpointsByEds, ready, store, version, failed,
                 overtaken>>

\* The lock, and the entry in endpointsByEds, whatever the context says.
Lock(s, e) ==
  /\ pc[<<s, e>>] = "lock" /\ lock = Free
  /\ lock' = <<s, e>>
  /\ endpointsByEds' = [endpointsByEds EXCEPT ![e] = list[<<s, e>>]]
  /\ overtaken' = IF Cancelled(s) THEN overtaken \cup {e} ELSE overtaken \ {e}
  /\ pc' = [pc EXCEPT ![<<s, e>>] = "reconcile"]
  /\ UNCHANGED <<sync, list, pending, reader, ready, store, version, errors, failed>>

\* Mutant: ready after the first list.
ReleaseReady(s, e) ==
  /\ ready' = TRUE /\ lock' = Free
  /\ pc' = [pc EXCEPT ![<<s, e>>] = "select"]
  /\ list' = [list EXCEPT ![<<s, e>>] = NoList]

\* Mutant: an off-by-one in the number of plugins.
ReleaseOffByOne(s, e) ==
  /\ ready' = (ready \/ Cardinality({x \in Plugins : endpointsByEds[x] # NoList})
                          = Cardinality(Plugins) + 1)
  /\ lock' = Free
  /\ pc' = [pc EXCEPT ![<<s, e>>] = "select"]
  /\ list' = [list EXCEPT ![<<s, e>>] = NoList]

\* signalReady once every plugin has an entry, then the lock is released; the list
\* goes out of scope.
Release(s, e) ==
  /\ ready' = (ready \/ \A x \in Plugins : endpointsByEds[x] # NoList)
  /\ lock' = Free
  /\ pc' = [pc EXCEPT ![<<s, e>>] = "select"]
  /\ list' = [list EXCEPT ![<<s, e>>] = NoList]

\* Mutant: only the endpoints of this plugin are reconciled.
ReconcileOwn(s, e) ==
  /\ pc[<<s, e>>] = "reconcile"
  /\ store' = [store EXCEPT ![e] = endpointsByEds[e]] /\ failed' = FALSE
  /\ Release(s, e)
  /\ UNCHANGED <<sync, pending, reader, endpointsByEds, version, errors, overtaken>>

\* Reconcile of the aggregated endpoints succeeds.
Reconcile(s, e) ==
  /\ pc[<<s, e>>] = "reconcile"
  /\ store' = endpointsByEds /\ failed' = FALSE
  /\ Release(s, e)
  /\ UNCHANGED <<sync, pending, reader, endpointsByEds, version, errors, overtaken>>

\* It fails after some of the writes: the error goes to aggregatedErrs ...
ReconcileError(s, e, done) ==
  /\ pc[<<s, e>>] = "reconcile" /\ errors < MaxErrors
  /\ errors' = errors + 1 /\ failed' = TRUE
  /\ store' = [x \in Plugins |-> IF x \in done THEN endpointsByEds[x] ELSE store[x]]
  /\ pc' = [pc EXCEPT ![<<s, e>>] = "sendErr"]
  /\ UNCHANGED <<sync, list, pending, reader, lock, endpointsByEds, ready, version, overtaken>>

\* ... which has no buffer and, once the sync is cancelled, maybe no reader.
SendError(s, e) ==
  /\ pc[<<s, e>>] = "sendErr" /\ reader[s]
  /\ Release(s, e)
  /\ UNCHANGED <<sync, pending, reader, endpointsByEds, store, version, errors, failed,
                 overtaken>>

ReaderExits(s) ==
  /\ reader[s] /\ Cancelled(s)
  /\ reader' = [reader EXCEPT ![s] = FALSE]
  /\ UNCHANGED <<sync, pc, list, pending, lock, endpointsByEds, ready, store, version,
                 errors, failed, overtaken>>

Worker(s, e) ==
  Receive(s, e) \/ Exit(s, e) \/ Lock(s, e) \/ Reconcile(s, e) \/ SendError(s, e)

Next ==
  \/ \E broken \in SUBSET Plugins : Sync(broken)
  \/ \E e \in Plugins : Change(e)
  \/ \E s \in Syncs : ReaderExits(s)
  \/ \E s \in Syncs, e \in Plugins :
       \/ Worker(s, e) \/ PluginError(s, e) \/ PluginCloses(s, e)
       \/ \E done \in SUBSET Plugins : ReconcileError(s, e, done)

\* Goroutines run on, and a mutex is handed to those that wait for it.
Spec ==
  /\ Init /\ [][Next]_vars
  /\ \A s \in Syncs : WF_vars(ReaderExits(s))
  /\ \A s \in Syncs, e \in Plugins : WF_vars(Worker(s, e)) /\ SF_vars(Lock(s, e))

-----------------------------------------------------------------------------
\* Nobody is on the way, every plugin has sent what it had.
Quiet ==
  /\ sync > 0
  /\ \A w \in Workers : pc[w] \in {"off", "exited"} \/ (pc[w] = "select" /\ ~pending[w])

\* When nothing is on the way, the cluster has the newest endpoints of every
\* plugin that is watched, whichever plugin reconciled last, unless that
\* Reconcile failed or a goroutine of a cancelled sync came late (overtaken).
EndpointsSettled ==
  Quiet /\ ~failed =>
    \A e \in Plugins : pc[<<sync, e>>] = "select" /\ e \notin overtaken =>
      store[e] = <<sync, version[e]>>

\* The first translation waits for ready (setup_syncer.go:670).  From then on the
\* cluster client has a list of every plugin, whichever plugin delivered last and
\* whichever sync it delivered for, unless the last Reconcile failed: ready is
\* closed after a failed Reconcile too.
ReadyMeansStored == ready /\ ~failed => \A e \in Plugins : store[e] # NoList

\* Readiness comes, also when a sync is cancelled before all plugins have delivered,
\* when plugins report errors and when Reconcile fails.  Two things can keep it: a
\* plugin of the current sync that cannot be watched or has closed its channel, and
\* an error of Reconcile that is sent to nobody.
BecomesReady ==
  []<>\/ sync = 0 \/ ready
      \/ \E e \in Plugins : pc[<<sync, e>>] \in {"off", "exited"}
      \/ \E w \in Workers : pc[w] = "sendErr" /\ ~reader[w[1]]

\* discovery.go:172: "launch a goroutine for all the EDS plugins with a single
\* cancel to close them all": after the cancel they all end.  One thing can keep
\* them: an error of Reconcile that met the cancel is sent to nobody, with the
\* lock held.
CancelClosesAll ==
  []<>\/ \A s \in Syncs, e \in Plugins : Cancelled(s) => pc[<<s, e>>] \in {"off", "exited"}
      \/ \E w \in Workers : pc[w] = "sendErr" /\ ~reader[w[1]]
=============================================================================
