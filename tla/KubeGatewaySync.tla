-------------------------- MODULE KubeGatewaySync --------------------------
(***************************************************************************)
(* From a change of the cluster to its status, for Kubernetes Gateways:    *)
(*                                                                         *)
(*   controllers --Kick--> AsyncQueue --> ProxySyncer --> proxy store      *)
(*        secrets controller --> AsyncQueue --^  |             |           *)
(*                                 StatusSyncerFactory <-- Gloo loop       *)
(*                                                                         *)
(* (projects/gateway2/proxy_syncer/proxy_syncer.go with queue.go, the      *)
(* reconcilers of projects/gateway2/controller and secrets, and the        *)
(* factory of projects/gateway2/status).  Controllers, the proxy syncer    *)
(* and the Gloo translation loop are separate goroutines.                  *)
(*                                                                         *)
(* Everything a Gateway's translation reads (the Gateway, its routes,      *)
(* options, services) is one version number, 0 when the Gateway does not   *)
(* exist; List and translation read it in one step.                        *)
(***************************************************************************)
EXTENDS StatusSyncerFactory, Sequences

CONSTANTS Controllers,      \* reconcilers that call Kick, one goroutine each
          SelfManaged,      \* Gateways the deployer creates no Service for
          MaxChanges,       \* bound on changes of the cluster
          MaxSecretEvents,  \* bound on changes of secrets
          MaxErrors         \* bound on failing API calls

ASSUME SelfManagedAssumption == SelfManaged \subseteq Gateways
ASSUME BoundsAssumption ==
  MaxChanges \in Nat /\ MaxSecretEvents \in Nat /\ MaxErrors \in Nat

VARIABLES
  cluster, changes,          \* the informer cache, and its version counter
  dirty,                     \* controllers with a queued reconcile request
  secretDirty, secretEvents, \* the same for the secrets controller
  genericQ, genericPend,     \* inputs.genericEvent
  secretQ, secretPend,       \* inputs.secretEvent
  pc, secretsWarmed, totalResyncs,   \* Start and its closure resyncProxies
  gwl, proxies, todo,        \* ... listed, translated, still to be written
  store,                     \* the proxy client: [sync, ver] of each proxy
  glooPc, reported,          \* Gloo loop: the sync ids in its snapshot
  errors,                    \* failed calls so far
  incomplete,                \* history: the last resync met an error
  lastQueued                 \* history: newest sync a proxy was queued for

envVars == <<cluster, changes, dirty, secretDirty, secretEvents>>
queueVars == <<genericQ, genericPend, secretQ, secretPend>>
syncerVars == <<pc, secretsWarmed, totalResyncs, gwl, proxies, todo, errors, incomplete>>
glooVars == <<glooPc, reported>>
vars == <<envVars, queueVars, syncerVars, store, glooVars, lastQueued, factoryVars>>

G == INSTANCE AsyncQueue WITH Producers <- Controllers, Values <- {"kick"},
       NoItem <- "none", queue <- genericQ, pend <- genericPend
S == INSTANCE AsyncQueue WITH Producers <- {"secrets"}, Values <- {"inputs"},
       NoItem <- "none", queue <- secretQ, pend <- secretPend

Absent == [sync |-> 0, ver |-> 0]
Exists(g) == cluster[g] # 0
Listed == {g \in Gateways : gwl[g] # 0}

EnvTypeOK ==
  /\ cluster \in [Gateways -> 0..MaxChanges] /\ changes \in 0..MaxChanges
  /\ dirty \in SUBSET Controllers
  /\ secretDirty \in BOOLEAN /\ secretEvents \in 0..MaxSecretEvents

SyncerTypeOK ==
  /\ pc \in {"select", "listing", "queueing", "writing"}
  /\ secretsWarmed \in BOOLEAN /\ totalResyncs \in Nat
  /\ gwl \in [Gateways -> 0..MaxChanges]
  /\ proxies \in SUBSET Gateways /\ todo \in SUBSET Gateways
  /\ errors \in 0..MaxErrors /\ incomplete \in BOOLEAN

StoreTypeOK ==
  /\ store \in [Gateways -> [sync : Nat, ver : 0..MaxChanges]]
  /\ glooPc \in {"idle", "translating"} /\ reported \in [Gateways -> Nat]
  /\ lastQueued \in [Gateways -> Nat]

\* Every variable has its type; sync numbers in the factory are positive.
TypeOK ==
  EnvTypeOK /\ G!QueueTypeOK /\ S!QueueTypeOK /\ SyncerTypeOK /\ StoreTypeOK
  /\ FactoryTypeOK

Init ==
  /\ cluster = [g \in Gateways |-> 0] /\ changes = 0
  /\ dirty = {} /\ secretDirty = FALSE /\ secretEvents = 0
  /\ G!QueueInit /\ S!QueueInit
  /\ pc = "select" /\ secretsWarmed = FALSE /\ totalResyncs = 0
  /\ gwl = [g \in Gateways |-> 0] /\ proxies = {} /\ todo = {}
  /\ store = [g \in Gateways |-> Absent]
  /\ glooPc = "idle" /\ reported = [g \in Gateways |-> 0]
  /\ errors = 0 /\ incomplete = FALSE
  /\ lastQueued = [g \in Gateways |-> 0]
  /\ FactoryInit

-----------------------------------------------------------------------------
(* The cluster and its controllers.                                        *)

\* A Gateway, or something it is translated from, is created or updated: the
\* controller that watches that kind gets a request.
UpdateGateway(g, c) ==
  /\ changes < MaxChanges
  /\ changes' = changes + 1
  /\ cluster' = [cluster EXCEPT ![g] = changes + 1]
  /\ dirty' = dirty \cup {c}
  /\ UNCHANGED <<secretDirty, secretEvents, queueVars, syncerVars, store,
                 glooVars, lastQueued, factoryVars>>

\* A Gateway is deleted.  gatewayReconciler returns on NotFound without a
\* kick; it is the deletion of the Service the deployer made for it that
\* gives a request to the services controller.
DeleteGateway(g, c) ==
  /\ changes < MaxChanges /\ Exists(g)
  /\ changes' = changes + 1
  /\ cluster' = [cluster EXCEPT ![g] = 0]
  /\ dirty' = IF g \in SelfManaged THEN dirty ELSE dirty \cup {c}
  /\ UNCHANGED <<secretDirty, secretEvents, queueVars, syncerVars, store,
                 glooVars, lastQueued, factoryVars>>

SecretChange ==
  /\ secretEvents < MaxSecretEvents
  /\ secretEvents' = secretEvents + 1
  /\ secretDirty' = TRUE
  /\ UNCHANGED <<cluster, changes, dirty, queueVars, syncerVars, store,
                 glooVars, lastQueued, factoryVars>>

\* Reconcile of controller c calls Kick: first half of Enqueue.  (A
\* reconcile that fails before the kick is requeued and changes nothing.)
Kick(c) ==
  /\ c \in dirty
  /\ G!EnqueueDrain(c, "kick")
  /\ dirty' = dirty \ {c}
  /\ UNCHANGED <<cluster, changes, secretDirty, secretEvents, secretQ, secretPend,
                 syncerVars, store, glooVars, lastQueued, factoryVars>>

KickSend(c) ==
  /\ G!EnqueueSend(c)
  /\ UNCHANGED <<envVars, secretQ, secretPend, syncerVars, store, glooVars,
                 lastQueued, factoryVars>>

ReconcileSecrets ==
  /\ secretDirty
  /\ S!EnqueueDrain("secrets", "inputs")
  /\ secretDirty' = FALSE
  /\ UNCHANGED <<cluster, changes, dirty, secretEvents, genericQ, genericPend,
                 syncerVars, store, glooVars, lastQueued, factoryVars>>

SecretSend ==
  /\ S!EnqueueSend("secrets")
  /\ UNCHANGED <<envVars, genericQ, genericPend, syncerVars, store, glooVars,
                 lastQueued, factoryVars>>

-----------------------------------------------------------------------------
(* The proxy syncer.                                                       *)

\* case <-genericEvent.Next(): resyncProxies returns at once before the
\* secrets are warm, and the kick is gone.
TakeGenericEvent ==
  /\ pc = "select"
  /\ G!Dequeue
  /\ IF secretsWarmed
     THEN pc' = "listing" /\ totalResyncs' = totalResyncs + 1
     ELSE UNCHANGED <<pc, totalResyncs>>
  /\ UNCHANGED <<envVars, secretQ, secretPend, secretsWarmed, gwl, proxies, todo,
                 errors, incomplete, store, glooVars, lastQueued, factoryVars>>

\* Mutant: warming up does not resync by itself.
TakeSecretEventOnlyWarms ==
  /\ pc = "select"
  /\ S!Dequeue
  /\ secretsWarmed' = TRUE
  /\ UNCHANGED <<envVars, genericQ, genericPend, pc, totalResyncs, gwl, proxies, todo,
                 errors, incomplete, store, glooVars, lastQueued, factoryVars>>

\* case <-secretEvent.Next()
TakeSecretEvent ==
  /\ pc = "select"
  /\ S!Dequeue
  /\ secretsWarmed' = TRUE
  /\ pc' = "listing" /\ totalResyncs' = totalResyncs + 1
  /\ UNCHANGED <<envVars, genericQ, genericPend, gwl, proxies, todo,
                 errors, incomplete, store, glooVars, lastQueued, factoryVars>>

\* The List call fails and the resync is given up.
ListError ==
  /\ pc = "listing" /\ errors < MaxErrors
  /\ errors' = errors + 1
  /\ incomplete' = TRUE
  /\ pc' = "select"
  /\ UNCHANGED <<envVars, queueVars, secretsWarmed, totalResyncs, gwl, proxies, todo,
                 store, glooVars, lastQueued, factoryVars>>

\* List all Gateways and translate each; TranslateProxy answers nil for
\* those whose routes cannot be read (failed).
ListGateways(failed) ==
  /\ pc = "listing"
  /\ failed \subseteq {g \in Gateways : Exists(g)}
  /\ failed # {} => errors < MaxErrors
  /\ errors' = IF failed = {} THEN errors ELSE errors + 1
  /\ incomplete' = (failed # {})
  /\ gwl' = cluster
  /\ proxies' = {g \in Gateways : Exists(g)} \ failed
  /\ pc' = "queueing"
  /\ UNCHANGED <<envVars, queueVars, secretsWarmed, totalResyncs, todo,
                 store, glooVars, lastQueued, factoryVars>>

\* queueStatusForProxies, before any proxy of this resync can be seen.  The
\* statuses of Gateways and routes that are patched next are not modelled.
QueueStatus ==
  /\ pc = "queueing"
  /\ QueueStatusForProxies(proxies, totalResyncs)
  /\ lastQueued' = [g \in Gateways |-> IF g \in proxies THEN totalResyncs ELSE lastQueued[g]]
  /\ todo' = proxies
  /\ pc' = "writing"
  /\ UNCHANGED <<envVars, queueVars, secretsWarmed, totalResyncs, gwl, proxies,
                 errors, incomplete, store, glooVars>>

\* reconcileProxies: the reconciler writes the desired proxies one by one
\* ("always update"), each annotated with the number of this resync, ...
WriteProxy(g) ==
  /\ pc = "writing" /\ g \in todo
  /\ store' = [store EXCEPT ![g] = [sync |-> totalResyncs, ver |-> gwl[g]]]
  /\ todo' = todo \ {g}
  /\ UNCHANGED <<envVars, queueVars, pc, secretsWarmed, totalResyncs, gwl, proxies,
                 errors, incomplete, glooVars, lastQueued, factoryVars>>

\* ... then deletes, one by one, the proxies that are not desired ...
Unused == {g \in Gateways : store[g] # Absent} \ proxies

\* Mutant: a delete that fails is tried again and again.
DeleteProxyRetried(g) ==
  /\ pc = "writing" /\ todo = {} /\ g \in Unused
  /\ UNCHANGED vars

DeleteProxy(g) ==
  /\ pc = "writing" /\ todo = {} /\ g \in Unused
  /\ store' = [store EXCEPT ![g] = Absent]
  /\ UNCHANGED <<envVars, queueVars, syncerVars, glooVars, lastQueued, factoryVars>>

\* Mutant: nothing is deleted.
ReconcileDoneKeepsUnused ==
  /\ pc = "writing" /\ todo = {}
  /\ pc' = "select"
  /\ UNCHANGED <<envVars, queueVars, secretsWarmed, totalResyncs, gwl, proxies, todo,
                 errors, incomplete, store, glooVars, lastQueued, factoryVars>>

ReconcileDone ==
  /\ pc = "writing" /\ todo = {} /\ Unused = {}
  /\ pc' = "select"
  /\ UNCHANGED <<envVars, queueVars, secretsWarmed, totalResyncs, gwl, proxies, todo,
                 errors, incomplete, store, glooVars, lastQueued, factoryVars>>

\* ... and gives up at the first error, which is only logged.
ReconcileError ==
  /\ pc = "writing" /\ (todo # {} \/ Unused # {}) /\ errors < MaxErrors
  /\ errors' = errors + 1
  /\ incomplete' = TRUE
  /\ todo' = {}
  /\ pc' = "select"
  /\ UNCHANGED <<envVars, queueVars, secretsWarmed, totalResyncs, gwl, proxies,
                 store, glooVars, lastQueued, factoryVars>>

-----------------------------------------------------------------------------
(* The Gloo translation loop, which also runs for reasons of its own.      *)

GlooSnapshot ==
  /\ glooPc = "idle"
  /\ reported' = [g \in Gateways |-> store[g].sync]
  /\ glooPc' = "translating"
  /\ UNCHANGED <<envVars, queueVars, syncerVars, store, lastQueued, factoryVars>>

\* onProxyTranslated at the end of syncEnvoy calls the factory.
GlooReports ==
  /\ glooPc = "translating"
  /\ HandleProxyReports(reported)
  /\ glooPc' = "idle"
  /\ UNCHANGED <<envVars, queueVars, syncerVars, store, reported, lastQueued>>

Syncer ==
  \/ TakeGenericEvent \/ TakeSecretEvent
  \/ \E failed \in SUBSET Gateways : ListGateways(failed)
  \/ QueueStatus
  \/ \E g \in Gateways : WriteProxy(g) \/ DeleteProxy(g)
  \/ ReconcileDone

Next ==
  \/ \E g \in Gateways, c \in Controllers : UpdateGateway(g, c) \/ DeleteGateway(g, c)
  \/ SecretChange \/ ReconcileSecrets \/ SecretSend
  \/ \E c \in Controllers : Kick(c) \/ KickSend(c)
  \/ Syncer \/ ListError \/ ReconcileError
  \/ GlooSnapshot \/ GlooReports

\* Every goroutine of the process runs on; the cluster owes nothing.  The
\* Gloo loop is run again when a proxy it has seen was replaced.
Fairness ==
  /\ \A c \in Controllers : WF_vars(Kick(c)) /\ WF_vars(KickSend(c))
  /\ WF_vars(ReconcileSecrets) /\ WF_vars(SecretSend)
  /\ WF_vars(Syncer)
  /\ WF_vars(GlooSnapshot /\ reported' # reported)
  /\ WF_vars(GlooReports)

Spec == Init /\ [][Next]_vars /\ Fairness

-----------------------------------------------------------------------------
\* A change the syncer is never told of: a self-managed Gateway went away.
Untold(g) == g \in SelfManaged /\ ~Exists(g)

\* A kick that will start a resync is on its way, or one is about to list.
ResyncDue == dirty # {} \/ G!Raised \/ pc = "listing"

\* No change is forgotten: once the secrets are warm, a Gateway that differs
\* from what the last resync listed has a resync coming, unless the last one
\* failed, whose kick is gone (resyncProxies, Enqueue, the reconcilers).
NoLostKick ==
  secretsWarmed /\ ~incomplete =>
    \A g \in Gateways : cluster[g] # gwl[g] => Untold(g) \/ ResyncDue

\* When the syncer is idle with nothing coming, the proxy store holds exactly
\* the proxies of the cluster's Gateways in their newest version.
SettledStore ==
  /\ secretsWarmed /\ ~incomplete /\ pc = "select" /\ ~ResyncDue
  => \A g \in Gateways : Untold(g) \/ store[g].ver = cluster[g]

\* A proxy that the Gloo loop can see has its plugin registry and its
\* iteration queued, so no report can miss them: queueing precedes writing.
RegistryKnown ==
  \A g \in Gateways : store[g].sync # 0 =>
    /\ store[g].sync \in registryPerSync
    /\ store[g].sync \in DOMAIN resyncsPerIteration

\* Status plugins move a proxy only to the newest sync it was queued for; a
\* report of a translation that a resync has overtaken is never applied.
OnlyNewestApplied ==
  [][\A g \in Gateways : applied'[g] # applied[g] => applied'[g] = lastQueued[g]]_vars

\* Once the cluster stops changing the store converges to it, whatever the
\* interleaving of kicks, drains, early returns and resyncs.
StoreConverges ==
  <>[](secretsWarmed /\ ~incomplete =>
         \A g \in Gateways : Untold(g) \/ store[g].ver = cluster[g])

\* And status plugins have run for the sync of every stored proxy.
StatusConverges ==
  <>[](~incomplete => \A g \in Gateways : store[g].sync # 0 => applied[g] = store[g].sync)
=============================================================================
