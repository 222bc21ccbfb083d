-------------------------- MODULE UpstreamDiscovery --------------------------
(***************************************************************************)
(* Upstream discovery (projects/gloo/pkg/discovery/discovery.go StartUds   *)
(* and Resync): a goroutine per plugin records the newest list under the   *)
(* lock, releases it, and then reconciles the lists of all plugins under   *)
(* the lock again.  A list is its version.                                 *)
(***************************************************************************)
EXTENDS Naturals

CONSTANTS Plugins, MaxLists, MaxErrors

ASSUME UdsBoundsAssumption == MaxLists \in Nat /\ MaxErrors \in Nat
ASSUME NobodyAssumption == "nobody" \notin Plugins

VARIABLES
  newest,   \* what each plugin discovered last
  pending,  \* ... and has not been received
  pc,       \* of a goroutine: "select", "resync" (waits for the lock), "sendErr"
  resync,   \* the goroutine inside Resync and the plugins it has yet to do
  latestDesiredUpstreams,
  store,    \* the upstreams in the cluster, per plugin
  errors, failed  \* failures so far; history: the last Resync failed

vars == <<newest, pending, pc, resync, latestDesiredUpstreams, store, errors, failed>>

NoOne == [by |-> "nobody", todo |-> {}]
Versions == 0..MaxLists   \* 0: no list, no upstreams

TypeOK ==
  /\ newest \in [Plugins -> Versions] /\ pending \in [Plugins -> BOOLEAN]
  /\ pc \in [Plugins -> {"select", "resync", "sendErr"}]
  /\ resync.todo \in SUBSET {p \in Plugins : latestDesiredUpstreams[p] # 0}
  /\ resync.by \in Plugins => pc[resync.by] = "resync"
  /\ latestDesiredUpstreams \in [Plugins -> Versions] /\ store \in [Plugins -> Versions]
  /\ errors \in 0..MaxErrors /\ failed \in BOOLEAN

Init ==
  /\ newest = [p \in Plugins |-> 0] /\ pending = [p \in Plugins |-> FALSE]
  /\ pc = [p \in Plugins |-> "select"] /\ resync = NoOne
  /\ latestDesiredUpstreams = [p \in Plugins |-> 0] /\ store = [p \in Plugins |-> 0]
  /\ errors = 0 /\ failed = FALSE

Discover(p) ==
  /\ newest[p] < MaxLists
  /\ newest' = [newest EXCEPT ![p] = @ + 1] /\ pending' = [pending EXCEPT ![p] = TRUE]
  /\ UNCHANGED <<pc, resync, latestDesiredUpstreams, store, errors, failed>>

\* A list arrives: lock, setLabels, record it, unlock.
Receive(p) ==
  /\ pc[p] = "select" /\ pending[p] /\ resync = NoOne
  /\ pending' = [pending EXCEPT ![p] = FALSE]
  /\ latestDesiredUpstreams' = [latestDesiredUpstreams EXCEPT ![p] = newest[p]]
  /\ pc' = [pc EXCEPT ![p] = "resync"]
  /\ UNCHANGED <<newest, resync, store, errors, failed>>

\* Resync gets the lock, which it keeps until it returns.
BeginResync(p) ==
  /\ pc[p] = "resync" /\ resync = NoOne
  /\ resync' = [by |-> p, todo |-> {q \in Plugins : latestDesiredUpstreams[q] # 0}]
  /\ UNCHANGED <<newest, pending, pc, latestDesiredUpstreams, store, errors, failed>>

\* One Reconcile, with the selector of q; the map has no order.
Reconcile(q) ==
  /\ q \in resync.todo
  /\ store' = [store EXCEPT ![q] = latestDesiredUpstreams[q]]
  /\ resync' = [resync EXCEPT !.todo = @ \ {q}]
  /\ UNCHANGED <<newest, pending, pc, latestDesiredUpstreams, errors, failed>>

\* A Reconcile fails: Resync returns, the plugins not done yet are left, and
\* the error is sent.
ReconcileError(q) ==
  /\ q \in resync.todo /\ errors < MaxErrors
  /\ errors' = errors + 1 /\ failed' = TRUE
  /\ pc' = [pc EXCEPT ![resync.by] = "sendErr"] /\ resync' = NoOne
  /\ UNCHANGED <<newest, pending, latestDesiredUpstreams, store>>

\* Mutant: Resync returns without releasing the lock.
ResyncDoneLocked == resync # NoOne /\ resync.todo = {} /\ UNCHANGED vars

ResyncDone ==
  /\ resync # NoOne /\ resync.todo = {}
  /\ failed' = FALSE
  /\ pc' = [pc EXCEPT ![resync.by] = "select"] /\ resync' = NoOne
  /\ UNCHANGED <<newest, pending, latestDesiredUpstreams, store, errors>>

\* An error of the plugin itself.
PluginError(p) ==
  /\ pc[p] = "select" /\ errors < MaxErrors
  /\ errors' = errors + 1 /\ pc' = [pc EXCEPT ![p] = "sendErr"]
  /\ UNCHANGED <<newest, pending, resync, latestDesiredUpstreams, store, failed>>

\* The reader of aggregatedErrs takes it.
SendError(p) ==
  /\ pc[p] = "sendErr" /\ pc' = [pc EXCEPT ![p] = "select"]
  /\ UNCHANGED <<newest, pending, resync, latestDesiredUpstreams, store, errors, failed>>

Work ==
  \/ ResyncDone
  \/ \E p \in Plugins : Receive(p) \/ BeginResync(p) \/ Reconcile(p) \/ SendError(p)

Next ==
  \/ Work
  \/ \E p \in Plugins : Discover(p) \/ ReconcileError(p) \/ PluginError(p)

Spec == Init /\ [][Next]_vars /\ WF_vars(Work)

-----------------------------------------------------------------------------
\* Whoever resynced last, the cluster has the newest list of every plugin
\* when nothing is on the way and the last Resync did not fail: a plugin whose
\* own Resync failed is caught up by the Resync of another.
UpstreamsSettled ==
  (~failed /\ \A p \in Plugins : pc[p] = "select" /\ ~pending[p]) => store = newest

\* What is in the cluster, compared with what the plugins discovered.
Stage == INSTANCE LatestValue WITH
           Sources <- Plugins, written <- newest, seen <- store,
           open <- [p \in Plugins |-> ~failed]

\* The stage between the plugins and the cluster is a LatestValue: although a
\* goroutine can be overtaken between its two critical sections, the cluster
\* never goes back to an older list of a plugin, and has the newest one in
\* the end if failures stop.
StoresLatest == Stage!Spec
=============================================================================
