----------------------- MODULE KubeGatewaySyncProofs -----------------------
(***************************************************************************)
(* Proofs about KubeGatewaySync for any sets of Gateways and controllers   *)
(* and any bounds.  The safety properties follow from the conjunction of   *)
(* TypeOK, NoLostKick, RegistryKnown and the three groups of facts below,  *)
(* which together are inductive.                                           *)
(*                                                                         *)
(* After them come QueueClients, for any number of producers, and          *)
(* ConsulEndpoints, for any finite set of services.                        *)
(***************************************************************************)
EXTENDS KubeGatewaySync, QueueClients, ConsulEndpoints, TLAPS

\* Where the elements of a sequence are after others are appended.
LEMMA Appended ==
  ASSUME NEW D, NEW n \in Nat, NEW m \in Nat, NEW a \in [1..n -> D], NEW b \in [1..m -> D]
  PROVE  /\ a \o b \in Seq(D) /\ DOMAIN (a \o b) = 1..(n + m)
         /\ \A i \in 1..n : i \in 1..(n + m) /\ (a \o b)[i] = a[i]
         /\ \A k \in 1..m : n + k \in 1..(n + m) /\ (a \o b)[n + k] = b[k]
<1>1. a \in Seq(D) /\ b \in Seq(D) OBVIOUS
<1>2. Len(a) = n /\ Len(b) = m BY <1>1
<1>3. a \o b \in Seq(D) /\ Len(a \o b) = n + m BY <1>1, <1>2
<1>4. \A i \in 1..(n + m) : (a \o b)[i] = IF i <= n THEN a[i] ELSE b[i - n]
  BY <1>1, <1>2
<1>5. \A k \in 1..m : n + k \in 1..(n + m) /\ ~(n + k <= n) /\ (n + k) - n = k
  OBVIOUS
<1>6. \A i \in 1..n : i \in 1..(n + m) /\ i <= n OBVIOUS
<1>7. \A k \in 1..m : (a \o b)[n + k] = b[(n + k) - n] BY <1>4, <1>5, ZenonT(30)
<1>8. \A k \in 1..m : (a \o b)[n + k] = b[k] BY <1>5, <1>7, ZenonT(30)
<1>9. DOMAIN (a \o b) = 1..(n + m) BY <1>3
<1> QED BY <1>3, <1>4, <1>5, <1>6, <1>8, <1>9, ZenonT(30)

\* Where a resync stands: what is translated, written and still to write.
ResyncInv ==
  /\ pc # "select" => totalResyncs # 0
  /\ pc \in {"queueing", "writing"} =>
       /\ proxies \subseteq Listed
       /\ ~incomplete => proxies = Listed
  /\ pc = "writing" =>
       /\ todo \subseteq proxies
       /\ \A g \in proxies \ todo : store[g].ver = gwl[g]
  /\ pc = "select" /\ ~incomplete => \A g \in Gateways : store[g].ver = gwl[g]

\* Sync numbers grow along the pipeline: report, store, queue, syncer.
OrderInv ==
  /\ \A g \in Gateways :
       /\ lastQueued[g] <= totalResyncs
       /\ reported[g] <= lastQueued[g]
       /\ store[g].sync <= lastQueued[g]
       /\ store[g].sync # 0 => reported[g] <= store[g].sync
  /\ pc = "writing" => \A g \in todo :
       /\ lastQueued[g] = totalResyncs
       /\ totalResyncs \in registryPerSync
       /\ totalResyncs \in DOMAIN resyncsPerIteration

\* A proxy is either queued for its newest sync, or nothing older is left.
QueuedInv ==
  \A g \in Gateways :
    \/ resyncsPerProxy[g] = lastQueued[g]
    \/ /\ resyncsPerProxy[g] = 0
       /\ store[g].sync \in {0, lastQueued[g]}
       /\ reported[g] \in {0, lastQueued[g]}

IInv == TypeOK /\ NoLostKick /\ ResyncInv /\ RegistryKnown /\ OrderInv /\ QueuedInv

-----------------------------------------------------------------------------
(* Frames: the steps of the environment and of the controllers touch only   *)
(* the cluster and the queues.                                              *)

Outside ==
  \/ \E g \in Gateways, c \in Controllers : UpdateGateway(g, c) \/ DeleteGateway(g, c)
  \/ SecretChange \/ ReconcileSecrets \/ SecretSend
  \/ \E c \in Controllers : Kick(c) \/ KickSend(c)

pipeline == <<syncerVars, store, glooVars, lastQueued, factoryVars>>

\* Controllers and the cluster leave the syncer, the store, the factory and
\* the Gloo loop alone.
LEMMA OutsideFrame == Outside => UNCHANGED pipeline
BY ZenonT(30) DEF Outside, pipeline, UpdateGateway, DeleteGateway, SecretChange,
                  ReconcileSecrets, SecretSend, Kick, KickSend

\* The initial state satisfies the inductive invariant.
LEMMA InitIInv == Init => IInv
<1> SUFFICES ASSUME Init PROVE IInv
  OBVIOUS
<1> USE DEF Init
<1>1. G!QueueTypeOK /\ S!QueueTypeOK
  BY DEF G!QueueTypeOK, G!QueueInit, S!QueueTypeOK, S!QueueInit
<1>2. FactoryTypeOK
  BY DEF FactoryTypeOK, FactoryInit
<1>3. EnvTypeOK /\ SyncerTypeOK
  <2>1. secretDirty \in BOOLEAN /\ secretsWarmed \in BOOLEAN /\ incomplete \in BOOLEAN
    BY ZenonT(30)
  <2>2. /\ cluster \in [Gateways -> 0..MaxChanges] /\ gwl \in [Gateways -> 0..MaxChanges]
        /\ changes \in 0..MaxChanges /\ secretEvents \in 0..MaxSecretEvents
        /\ errors \in 0..MaxErrors /\ totalResyncs \in Nat
    BY BoundsAssumption
  <2> QED BY <2>1, <2>2 DEF EnvTypeOK, SyncerTypeOK
<1>6. StoreTypeOK
  BY BoundsAssumption DEF StoreTypeOK, Absent
<1>4. NoLostKick /\ ResyncInv /\ RegistryKnown
  BY DEF NoLostKick, ResyncInv, RegistryKnown, Absent
<1>5. OrderInv /\ QueuedInv
  BY DEF OrderInv, QueuedInv, Absent, FactoryInit
<1> QED BY <1>1, <1>2, <1>3, <1>4, <1>5, <1>6 DEF IInv, TypeOK

-----------------------------------------------------------------------------
(* Types.                                                                   *)

\* Both queues keep at most one item; only Enqueue and receives touch them.
LEMMA QueueTypeStep ==
  ASSUME TypeOK, [Next]_vars
  PROVE  G!QueueTypeOK' /\ S!QueueTypeOK'
<1> USE DEF TypeOK, G!QueueTypeOK, S!QueueTypeOK
<1>1. ASSUME NEW c \in Controllers, Kick(c) \/ KickSend(c)
      PROVE  G!QueueTypeOK' /\ S!QueueTypeOK'
  BY <1>1 DEF Kick, KickSend, G!EnqueueDrain, G!EnqueueSend
<1>2. CASE ReconcileSecrets \/ SecretSend
  BY <1>2 DEF ReconcileSecrets, SecretSend, S!EnqueueDrain, S!EnqueueSend
<1>3. CASE TakeGenericEvent \/ TakeSecretEvent
  BY <1>3, ZenonT(30) DEF TakeGenericEvent, TakeSecretEvent, G!Dequeue, S!Dequeue
<1>4. CASE UNCHANGED queueVars
  BY <1>4 DEF queueVars
<1>5. UNCHANGED queueVars \/ TakeGenericEvent \/ TakeSecretEvent
      \/ ReconcileSecrets \/ SecretSend \/ (\E c \in Controllers : Kick(c) \/ KickSend(c))
  BY ZenonT(30) DEF Next, vars, Syncer, UpdateGateway, DeleteGateway, SecretChange, ListError,
                    ListGateways, QueueStatus, WriteProxy, DeleteProxy, ReconcileDone,
                    ReconcileError, GlooSnapshot, GlooReports
<1> QED BY <1>1, <1>2, <1>3, <1>4, <1>5

\* The cluster and the request sets keep their types.
LEMMA EnvTypeStep ==
  ASSUME TypeOK, [Next]_vars
  PROVE  EnvTypeOK'
<1> USE BoundsAssumption DEF TypeOK, EnvTypeOK
<1>1. ASSUME NEW g \in Gateways, NEW c \in Controllers,
             UpdateGateway(g, c) \/ DeleteGateway(g, c)
      PROVE  EnvTypeOK'
  BY <1>1 DEF UpdateGateway, DeleteGateway
<1>2. CASE SecretChange
  BY <1>2 DEF SecretChange
<1>3. CASE ReconcileSecrets \/ \E c \in Controllers : Kick(c)
  BY <1>3, ZenonT(30) DEF ReconcileSecrets, Kick
<1>4. CASE UNCHANGED envVars
  BY <1>4 DEF envVars
<1>5. \/ UNCHANGED envVars \/ SecretChange
      \/ ReconcileSecrets \/ \E c \in Controllers : Kick(c)
      \/ \E g \in Gateways, c \in Controllers : UpdateGateway(g, c) \/ DeleteGateway(g, c)
  BY ZenonT(30) DEF Next, vars, Syncer, SecretSend, KickSend, TakeGenericEvent,
                    TakeSecretEvent, ListError, ListGateways, QueueStatus, WriteProxy,
                    DeleteProxy, ReconcileDone, ReconcileError, GlooSnapshot, GlooReports
<1> QED BY <1>1, <1>2, <1>3, <1>4, <1>5, ZenonT(30)

\* The pipeline behind the queues keeps its types.  The number of a resync
\* under way is positive, which the keys of the factory rely on.
LEMMA PipelineTypeStep ==
  ASSUME TypeOK, ResyncInv, [Next]_vars
  PROVE  SyncerTypeOK' /\ StoreTypeOK' /\ FactoryTypeOK'
<1> DEFINE Goal == SyncerTypeOK' /\ StoreTypeOK' /\ FactoryTypeOK'
<1> USE BoundsAssumption DEF TypeOK, EnvTypeOK, SyncerTypeOK, StoreTypeOK, FactoryTypeOK
<1>1. CASE UNCHANGED pipeline
  BY <1>1, ZenonT(30) DEF pipeline, syncerVars, glooVars, factoryVars
<1>2. CASE TakeGenericEvent
  BY <1>2 DEF TakeGenericEvent, glooVars, factoryVars
<1>3. CASE TakeSecretEvent
  BY <1>3 DEF TakeSecretEvent, glooVars, factoryVars
<1>4. CASE ListError
  BY <1>4 DEF ListError, glooVars, factoryVars
<1>5. ASSUME NEW failed \in SUBSET Gateways, ListGateways(failed)
      PROVE  Goal
  <2>1. incomplete' \in BOOLEAN
    BY <1>5, ZenonT(30) DEF ListGateways
  <2>2. errors' \in 0..MaxErrors
    BY <1>5 DEF ListGateways
  <2> QED BY <1>5, <2>1, <2>2, ZenonT(30) DEF ListGateways, glooVars, factoryVars
<1>6. CASE QueueStatus
  <2>1. totalResyncs \in Nat \ {0} /\ proxies \subseteq Gateways
    BY <1>6, ZenonT(30) DEF QueueStatus, ResyncInv
  <2>2. SyncerTypeOK' /\ StoreTypeOK'
    BY <1>6, ZenonT(30) DEF QueueStatus, glooVars
  <2>3. FactoryTypeOK'
    BY <1>6, <2>1, ZenonT(30) DEF QueueStatus, QueueStatusForProxies
  <2> QED BY <2>2, <2>3, ZenonT(30)
<1>7. ASSUME NEW g \in Gateways, WriteProxy(g)
      PROVE  Goal
  BY <1>7, ZenonT(30) DEF WriteProxy, glooVars, factoryVars
<1>8. ASSUME NEW g \in Gateways, DeleteProxy(g)
      PROVE  Goal
  BY <1>8 DEF DeleteProxy, Absent, syncerVars, glooVars, factoryVars
<1>9. CASE ReconcileDone
  BY <1>9, ZenonT(30) DEF ReconcileDone, glooVars, factoryVars
<1>10. CASE ReconcileError
  BY <1>10 DEF ReconcileError, glooVars, factoryVars
<1>11. CASE GlooSnapshot
  BY <1>11, ZenonT(30) DEF GlooSnapshot, syncerVars, factoryVars
<1>12. CASE GlooReports
  <2>1. SyncerTypeOK' /\ StoreTypeOK'
    BY <1>12, ZenonT(30) DEF GlooReports, syncerVars
  <2>2. FactoryTypeOK'
    BY <1>12, ZenonT(30) DEF GlooReports, HandleProxyReports, ToReport
  <2> QED BY <2>1, <2>2
<1>13. Outside \/ UNCHANGED vars => UNCHANGED pipeline
  BY OutsideFrame, ZenonT(30) DEF vars, pipeline
<1> QED
  BY <1>1, <1>2, <1>3, <1>4, <1>5, <1>6, <1>7, <1>8, <1>9, <1>10, <1>11, <1>12, <1>13,
     ZenonT(30) DEF Next, Syncer, Outside

-----------------------------------------------------------------------------
(* No change is forgotten.                                                  *)

\* Each change leaves a request, each request a kick in flight, each kick a
\* resync about to list, and a complete listing catches up with the cluster.
LEMMA NoLostKickStep ==
  ASSUME TypeOK, NoLostKick, [Next]_vars
  PROVE  NoLostKick'
<1> USE DEF NoLostKick, ResyncDue, Untold, Exists, G!Raised
<1>1. ASSUME NEW g \in Gateways, NEW c \in Controllers,
             UpdateGateway(g, c) \/ DeleteGateway(g, c)
      PROVE  NoLostKick'
  <2>1. CASE c \in dirty'
    BY <2>1, ZenonT(30)
  <2>2. CASE c \notin dirty'
    BY <1>1, <2>2, ZenonT(30) DEF UpdateGateway, DeleteGateway, queueVars, syncerVars, TypeOK,
                                  EnvTypeOK
  <2> QED BY <2>1, <2>2, ZenonT(30)
<1>2. ASSUME NEW c \in Controllers, Kick(c)
      PROVE  NoLostKick'
  <2>1. genericPend'[c] = "kick"
    BY <1>2, ZenonT(30) DEF Kick, G!EnqueueDrain, TypeOK, G!QueueTypeOK
  <2> QED BY <2>1, ZenonT(30)
<1>3. ASSUME NEW c \in Controllers, KickSend(c)
      PROVE  NoLostKick'
  <2>1. genericQ' # <<>>
    BY <1>3, ZenonT(30) DEF KickSend, G!EnqueueSend
  <2> QED BY <2>1
<1>4. CASE TakeGenericEvent
  BY <1>4, ZenonT(30) DEF TakeGenericEvent
<1>5. CASE TakeSecretEvent
  BY <1>5, ZenonT(30) DEF TakeSecretEvent
<1>6. CASE ListError
  BY <1>6, ZenonT(30) DEF ListError
<1>7. ASSUME NEW failed \in SUBSET Gateways, ListGateways(failed)
      PROVE  NoLostKick'
  BY <1>7, ZenonT(30) DEF ListGateways, envVars
<1>8. ASSUME UNCHANGED <<envVars, genericQ, genericPend, secretsWarmed, gwl>>,
             incomplete' = incomplete \/ incomplete' = TRUE,
             pc' = pc \/ pc # "listing"
      PROVE  NoLostKick'
  BY <1>8 DEF envVars
<1>9. CASE QueueStatus \/ ReconcileDone \/ ReconcileError
           \/ \E g \in Gateways : WriteProxy(g) \/ DeleteProxy(g)
  <2>1. UNCHANGED <<envVars, genericQ, genericPend, secretsWarmed, gwl>>
    BY <1>9, ZenonT(30) DEF QueueStatus, ReconcileDone, ReconcileError, WriteProxy,
                            DeleteProxy, queueVars, syncerVars
  <2>2. incomplete' = incomplete \/ incomplete' = TRUE
    BY <1>9, ZenonT(30) DEF QueueStatus, ReconcileDone, ReconcileError, WriteProxy,
                            DeleteProxy, syncerVars
  <2>3. pc' = pc \/ pc # "listing"
    BY <1>9, ZenonT(30) DEF QueueStatus, ReconcileDone, ReconcileError, WriteProxy,
                            DeleteProxy
  <2> QED BY <1>8, <2>1, <2>2, <2>3, ZenonT(30)
<1>10. CASE SecretChange \/ ReconcileSecrets \/ SecretSend
            \/ GlooSnapshot \/ GlooReports \/ UNCHANGED vars
  BY <1>10, ZenonT(30) DEF SecretChange, ReconcileSecrets, SecretSend, GlooSnapshot,
                           GlooReports, vars, envVars, queueVars, syncerVars
<1> QED
  BY <1>1, <1>2, <1>3, <1>4, <1>5, <1>6, <1>7, <1>9, <1>10, ZenonT(30) DEF Next, Syncer

-----------------------------------------------------------------------------
(* The store follows the listing.                                           *)

\* A resync that meets no error leaves the store equal to what it listed.
LEMMA ResyncInvStep ==
  ASSUME TypeOK, ResyncInv, [Next]_vars
  PROVE  ResyncInv'
<1> USE DEF ResyncInv, Listed
<1>1. CASE UNCHANGED <<syncerVars, store>>
  BY <1>1, ZenonT(30) DEF syncerVars
<1>2. CASE TakeGenericEvent
  BY <1>2 DEF TakeGenericEvent, TypeOK, SyncerTypeOK
<1>3. CASE TakeSecretEvent
  BY <1>3 DEF TakeSecretEvent, TypeOK, SyncerTypeOK
<1>4. CASE ListError
  BY <1>4, ZenonT(30) DEF ListError
<1>5. ASSUME NEW failed \in SUBSET Gateways, ListGateways(failed)
      PROVE  ResyncInv'
  BY <1>5, ZenonT(30) DEF ListGateways, Exists
<1>6. CASE QueueStatus
  BY <1>6, ZenonT(30) DEF QueueStatus
<1>7. ASSUME NEW g \in Gateways, WriteProxy(g)
      PROVE  ResyncInv'
  BY <1>7, ZenonT(30) DEF WriteProxy, TypeOK, StoreTypeOK
<1>8. ASSUME NEW g \in Gateways, DeleteProxy(g)
      PROVE  ResyncInv'
  BY <1>8, ZenonT(30) DEF DeleteProxy, Unused, syncerVars, TypeOK, StoreTypeOK
<1>9. CASE ReconcileDone
  <2>1. /\ todo = {} /\ pc = "writing" /\ pc' = "select"
        /\ UNCHANGED <<store, gwl, incomplete>>
    BY <1>9, ZenonT(30) DEF ReconcileDone
  <2>2. ASSUME NEW g \in Gateways, ~incomplete
        PROVE  store[g].ver = gwl[g]
    <3>1. CASE g \in proxies
      BY <2>1, <3>1, ZenonT(30)
    <3>2. CASE g \notin proxies
      <4>1. store[g] = Absent
        BY <1>9, <3>2, ZenonT(30) DEF ReconcileDone, Unused
      <4>2. gwl[g] = 0
        BY <2>1, <2>2, <3>2, ZenonT(30)
      <4> QED BY <4>1, <4>2 DEF Absent
    <3> QED BY <3>1, <3>2, ZenonT(30)
  <2> QED BY <2>1, <2>2, ZenonT(30)
<1>10. CASE ReconcileError
  BY <1>10, ZenonT(30) DEF ReconcileError
<1>11. Outside \/ GlooSnapshot \/ GlooReports \/ UNCHANGED vars
         => UNCHANGED <<syncerVars, store>>
  BY OutsideFrame, ZenonT(30) DEF vars, pipeline, GlooSnapshot, GlooReports
<1> QED
  BY <1>1, <1>2, <1>3, <1>4, <1>5, <1>6, <1>7, <1>8, <1>9, <1>10, <1>11, ZenonT(30)
  DEF Next, Syncer, Outside

-----------------------------------------------------------------------------
(* Sync numbers and the status factory.                                     *)

\* All sync numbers kept for a proxy are natural numbers.
LEMMA SyncNumbers ==
  ASSUME TypeOK, NEW g \in Gateways
  PROVE  /\ totalResyncs \in Nat /\ lastQueued[g] \in Nat /\ reported[g] \in Nat
         /\ store[g].sync \in Nat /\ resyncsPerProxy[g] \in Nat
BY ZenonT(30) DEF TypeOK, SyncerTypeOK, StoreTypeOK, FactoryTypeOK

\* HandleProxyReports forgets neither a registry nor an iteration: the only
\* deletion is guarded by a map that is empty, and then nothing is reported.
LEMMA ReportsKeepRegistry ==
  ASSUME NEW rep, HandleProxyReports(rep)
  PROVE  /\ registryPerSync' = registryPerSync
         /\ DOMAIN resyncsPerIteration' = DOMAIN resyncsPerIteration
<1>1. DOMAIN resyncsPerIteration = {} => ToReport(rep) = {}
  BY DEF ToReport
<1> QED BY <1>1, ZenonT(30) DEF HandleProxyReports

\* Queueing adds a registry and, for a non-empty list, an iteration.
LEMMA QueueAddsRegistry ==
  ASSUME NEW ps, NEW n, QueueStatusForProxies(ps, n)
  PROVE  /\ registryPerSync' = registryPerSync \cup {n}
         /\ DOMAIN resyncsPerIteration \subseteq DOMAIN resyncsPerIteration'
         /\ ps # {} => n \in DOMAIN resyncsPerIteration'
BY DEF QueueStatusForProxies

\* What is written was queued before, and nothing queued is forgotten.
LEMMA RegistryKnownStep ==
  ASSUME TypeOK, RegistryKnown, OrderInv, [Next]_vars
  PROVE  RegistryKnown'
<1> USE DEF RegistryKnown
<1>1. CASE UNCHANGED <<store, factoryVars>>
  BY <1>1, ZenonT(30) DEF factoryVars
<1>2. CASE QueueStatus
  BY <1>2, QueueAddsRegistry, ZenonT(30) DEF QueueStatus
<1>3. ASSUME NEW g \in Gateways, WriteProxy(g)
      PROVE  RegistryKnown'
  BY <1>3, ZenonT(30) DEF WriteProxy, factoryVars, OrderInv, TypeOK, StoreTypeOK
<1>4. ASSUME NEW g \in Gateways, DeleteProxy(g)
      PROVE  RegistryKnown'
  BY <1>4, ZenonT(30) DEF DeleteProxy, Absent, factoryVars, TypeOK, StoreTypeOK
<1>5. CASE GlooReports
  BY <1>5, ReportsKeepRegistry, ZenonT(30) DEF GlooReports
<1>6. \/ UNCHANGED <<store, factoryVars>> \/ QueueStatus \/ GlooReports
      \/ \E g \in Gateways : WriteProxy(g) \/ DeleteProxy(g)
  BY OutsideFrame, ZenonT(30) DEF Next, Syncer, Outside, vars, pipeline, TakeGenericEvent,
                                  TakeSecretEvent, ListError, ListGateways, ReconcileDone,
                                  ReconcileError, GlooSnapshot
<1> QED BY <1>1, <1>2, <1>3, <1>4, <1>5, <1>6, ZenonT(30)

\* Sync numbers stay ordered along the pipeline.
LEMMA OrderInvStep ==
  ASSUME TypeOK, ResyncInv, OrderInv, [Next]_vars
  PROVE  OrderInv'
<1> USE DEF OrderInv
<1>1. CASE UNCHANGED pipeline
  BY <1>1, ZenonT(30) DEF pipeline, syncerVars, glooVars, factoryVars
<1>2. CASE TakeGenericEvent \/ TakeSecretEvent
  BY <1>2 DEF TakeGenericEvent, TakeSecretEvent, glooVars, factoryVars, TypeOK, SyncerTypeOK,
              StoreTypeOK
<1>3. CASE ListError \/ ReconcileDone \/ ReconcileError
  BY <1>3, ZenonT(30) DEF ListError, ReconcileDone, ReconcileError, glooVars, factoryVars
<1>4. ASSUME NEW failed \in SUBSET Gateways, ListGateways(failed)
      PROVE  OrderInv'
  BY <1>4, ZenonT(30) DEF ListGateways, glooVars, factoryVars
<1>5. CASE QueueStatus
  <2>0. lastQueued' = [g \in Gateways |-> IF g \in proxies THEN totalResyncs ELSE lastQueued[g]]
    BY <1>5, ZenonT(30) DEF QueueStatus
  <2>1. \A g \in Gateways :
          /\ lastQueued[g] <= lastQueued'[g]
          /\ lastQueued'[g] <= totalResyncs
          /\ g \in proxies => lastQueued'[g] = totalResyncs
    BY <2>0, SyncNumbers
  <2>2. \A g \in Gateways : /\ reported'[g] <= lastQueued'[g]
                            /\ store'[g].sync <= lastQueued'[g]
                            /\ store'[g].sync # 0 => reported'[g] <= store'[g].sync
    <3> SUFFICES ASSUME NEW g \in Gateways
                 PROVE  /\ reported[g] <= lastQueued'[g] /\ store[g].sync <= lastQueued'[g]
                        /\ store[g].sync # 0 => reported[g] <= store[g].sync
      BY <1>5, ZenonT(30) DEF QueueStatus, glooVars
    <3>1. lastQueued'[g] \in Nat
      BY <1>5, SyncNumbers, ZenonT(30) DEF QueueStatus
    <3> QED BY <2>1, <3>1, SyncNumbers
  <2>3. todo' # {} => /\ totalResyncs \in registryPerSync'
                      /\ totalResyncs \in DOMAIN resyncsPerIteration'
    BY <1>5, QueueAddsRegistry, ZenonT(30) DEF QueueStatus
  <2> QED BY <1>5, <2>1, <2>2, <2>3, ZenonT(30) DEF QueueStatus, TypeOK, SyncerTypeOK
<1>6. ASSUME NEW g \in Gateways, WriteProxy(g)
      PROVE  OrderInv'
  <2>1. lastQueued[g] = totalResyncs
    BY <1>6 DEF WriteProxy
  <2>2. \A h \in Gateways : store'[h].sync = IF h = g THEN totalResyncs ELSE store[h].sync
    BY <1>6, ZenonT(30) DEF WriteProxy, TypeOK, StoreTypeOK
  <2> QED BY <1>6, <2>1, <2>2, ZenonT(30) DEF WriteProxy, glooVars, factoryVars, TypeOK,
                                              SyncerTypeOK, StoreTypeOK
<1>7. ASSUME NEW g \in Gateways, DeleteProxy(g)
      PROVE  OrderInv'
  <2>1. \A h \in Gateways : store'[h].sync = IF h = g THEN 0 ELSE store[h].sync
    BY <1>7, ZenonT(30) DEF DeleteProxy, Absent, TypeOK, StoreTypeOK
  <2> QED BY <1>7, <2>1 DEF DeleteProxy, syncerVars, glooVars, factoryVars, TypeOK,
                            StoreTypeOK
<1>8. CASE GlooSnapshot
  BY <1>8 DEF GlooSnapshot, syncerVars, factoryVars, TypeOK, StoreTypeOK
<1>9. CASE GlooReports
  BY <1>9, ReportsKeepRegistry, ZenonT(30) DEF GlooReports, syncerVars
<1>10. Outside \/ UNCHANGED vars => UNCHANGED pipeline
  BY OutsideFrame, ZenonT(30) DEF vars, pipeline
<1> QED
  BY <1>1, <1>2, <1>3, <1>4, <1>5, <1>6, <1>7, <1>8, <1>9, <1>10, ZenonT(30)
  DEF Next, Syncer, Outside

\* A proxy leaves resyncsPerProxy only with the report of its newest sync,
\* and then nothing older is stored or under translation.
LEMMA QueuedInvStep ==
  ASSUME TypeOK, ResyncInv, OrderInv, QueuedInv, [Next]_vars
  PROVE  QueuedInv'
<1> USE DEF QueuedInv
<1>1. CASE UNCHANGED <<store, reported, lastQueued, resyncsPerProxy>>
  BY <1>1, ZenonT(30)
<1>2. CASE QueueStatus
  BY <1>2, ZenonT(30) DEF QueueStatus, QueueStatusForProxies, glooVars, TypeOK, FactoryTypeOK,
                          StoreTypeOK
<1>3. ASSUME NEW g \in Gateways, WriteProxy(g)
      PROVE  QueuedInv'
  <2>1. lastQueued[g] = totalResyncs
    BY <1>3, ZenonT(30) DEF WriteProxy, OrderInv
  <2> QED BY <1>3, <2>1, ZenonT(30) DEF WriteProxy, glooVars, factoryVars, TypeOK, StoreTypeOK
<1>4. ASSUME NEW g \in Gateways, DeleteProxy(g)
      PROVE  QueuedInv'
  BY <1>4, ZenonT(30) DEF DeleteProxy, Absent, glooVars, factoryVars, TypeOK, StoreTypeOK
<1>5. CASE GlooSnapshot
  BY <1>5, ZenonT(30) DEF GlooSnapshot, factoryVars, TypeOK, StoreTypeOK
<1>6. CASE GlooReports
  <2>1. UNCHANGED <<store, reported, lastQueued>>
    BY <1>6, ZenonT(30) DEF GlooReports
  <2>2. ASSUME NEW g \in ToReport(reported)
        PROVE  /\ resyncsPerProxy'[g] = 0
               /\ store[g].sync \in {0, lastQueued[g]}
               /\ reported[g] \in {0, lastQueued[g]}
    <3>1. g \in Gateways /\ resyncsPerProxy[g] <= reported[g]
      BY <2>2, ZenonT(30) DEF ToReport
    <3>2. resyncsPerProxy'[g] = 0
      BY <1>6, <3>1, ZenonT(30) DEF GlooReports, HandleProxyReports
    <3>3. reported[g] = lastQueued[g] \/ reported[g] = 0
      BY <3>1, SyncNumbers DEF OrderInv
    <3>4. reported[g] # 0
      BY <2>2, ZenonT(30) DEF ToReport
    <3>5. store[g].sync = 0 \/ store[g].sync = lastQueued[g]
      BY <3>1, <3>3, <3>4, SyncNumbers DEF OrderInv
    <3> QED BY <3>2, <3>3, <3>5, ZenonT(30)
  <2>3. \A g \in Gateways \ ToReport(reported) : resyncsPerProxy'[g] = resyncsPerProxy[g]
    BY <1>6, ZenonT(30) DEF GlooReports, HandleProxyReports
  <2> QED BY <2>1, <2>2, <2>3, ZenonT(30)
<1>7. \/ UNCHANGED <<store, reported, lastQueued, resyncsPerProxy>>
      \/ QueueStatus \/ GlooSnapshot \/ GlooReports
      \/ \E g \in Gateways : WriteProxy(g) \/ DeleteProxy(g)
  BY OutsideFrame, ZenonT(30) DEF Next, Syncer, Outside, vars, pipeline, glooVars,
                                  factoryVars, TakeGenericEvent, TakeSecretEvent, ListError,
                                  ListGateways, ReconcileDone, ReconcileError
<1> QED BY <1>1, <1>2, <1>3, <1>4, <1>5, <1>6, <1>7

-----------------------------------------------------------------------------
(* The theorems.                                                            *)

\* The conjunction is an invariant of the specification.
THEOREM Inductive == Spec => []IInv
<1>1. IInv /\ [Next]_vars => IInv'
  BY ZenonT(30), QueueTypeStep, EnvTypeStep, PipelineTypeStep, NoLostKickStep, ResyncInvStep,
     RegistryKnownStep, OrderInvStep, QueuedInvStep DEF IInv, TypeOK
<1> QED BY <1>1, InitIInv, PTL DEF Spec

\* Every reachable state is well typed (all of the model's state).
THEOREM TypeCorrect == Spec => []TypeOK
BY Inductive, PTL DEF IInv

\* However many controllers kick at once, no change of the cluster is
\* forgotten by the queues and the early returns of resyncProxies.
THEOREM KicksNotLost == Spec => []NoLostKick
BY Inductive, PTL DEF IInv

\* An idle proxy syncer has stored the newest proxies of the cluster.
THEOREM StoreSettled == Spec => []SettledStore
<1>1. IInv => SettledStore
  <2> SUFFICES ASSUME IInv, secretsWarmed, ~incomplete, pc = "select", ~ResyncDue,
                      NEW g \in Gateways
               PROVE  Untold(g) \/ store[g].ver = cluster[g]
    BY ZenonT(30) DEF SettledStore
  <2>1. store[g].ver = gwl[g]
    BY ZenonT(30) DEF IInv, ResyncInv
  <2>2. Untold(g) \/ cluster[g] = gwl[g]
    BY ZenonT(30) DEF IInv, NoLostKick
  <2> QED BY <2>1, <2>2, ZenonT(30)
<1> QED BY <1>1, Inductive, PTL

\* Every proxy visible to the Gloo loop has its registry and iteration.
THEOREM RegistryAlwaysKnown == Spec => []RegistryKnown
BY Inductive, PTL DEF IInv

\* HandleProxyReports never applies the status of an overtaken sync.
THEOREM NewestOnly == Spec => OnlyNewestApplied
<1> DEFINE A == \A g \in Gateways : applied'[g] # applied[g] => applied'[g] = lastQueued[g]
<1>1. IInv /\ [Next]_vars => [A]_vars
  <2> SUFFICES ASSUME IInv, Next PROVE A
    BY ZenonT(30)
  <2>1. CASE GlooReports
    <3> SUFFICES ASSUME NEW g \in Gateways, applied'[g] # applied[g]
                 PROVE  applied'[g] = lastQueued[g]
      BY ZenonT(30)
    <3>1. g \in ToReport(reported) /\ applied'[g] = reported[g]
      BY <2>1, ZenonT(30) DEF GlooReports, HandleProxyReports, IInv, TypeOK, FactoryTypeOK
    <3>2. resyncsPerProxy[g] <= reported[g] /\ reported[g] # 0
      BY <3>1, ZenonT(30) DEF ToReport
    <3>3. reported[g] <= lastQueued[g]
      BY ZenonT(30) DEF IInv, OrderInv
    <3>4. resyncsPerProxy[g] = lastQueued[g] \/ reported[g] \in {0, lastQueued[g]}
      BY ZenonT(30) DEF IInv, QueuedInv
    <3> QED BY <3>1, <3>2, <3>3, <3>4, SyncNumbers DEF IInv
  <2>2. ~GlooReports => UNCHANGED applied
    BY OutsideFrame, ZenonT(30) DEF Next, Syncer, Outside, pipeline, factoryVars,
                                    TakeGenericEvent, TakeSecretEvent, ListError,
                                    ListGateways, QueueStatus, QueueStatusForProxies,
                                    WriteProxy, DeleteProxy, ReconcileDone, ReconcileError,
                                    GlooSnapshot
  <2> QED BY <2>1, <2>2, ZenonT(30)
<1> QED BY <1>1, Inductive, PTL DEF Spec, OnlyNewestApplied

-----------------------------------------------------------------------------
\* The queue of GatewayInputChannels by itself, for any set of producers and
\* items.  Together with the type invariant, its promises are inductive.

SlotIInv == ClientTypeOK /\ NoKickLost /\ NoOvertakenItem

\* Enqueue's halves and the receive preserve the three facts together.
LEMMA SlotStep == SlotIInv /\ [ClientNext]_clientVars => SlotIInv'
<1> SUFFICES ASSUME SlotIInv, [ClientNext]_clientVars PROVE SlotIInv'
  OBVIOUS
<1> USE NoItemAssumption DEF SlotIInv, ClientTypeOK, QueueTypeOK, NoKickLost,
        NoOvertakenItem, Raised
<1>1. ASSUME NEW p \in Producers, NEW v \in Values, Start(p, v)
      PROVE  SlotIInv'
  <2>1. pend'[p] = v /\ queue' = <<>>
    BY <1>1, ZenonT(30) DEF Start, EnqueueDrain
  <2>2. ClientTypeOK'
    BY <1>1, ZenonT(30) DEF Start, EnqueueDrain
  <2> QED BY <2>1, <2>2, ZenonT(30)
<1>2. ASSUME NEW p \in Producers, Finish(p)
      PROVE  SlotIInv'
  <2>1. pend[p] \in Values /\ queue' # <<>>
    BY <1>2, ZenonT(30) DEF Finish, EnqueueSend
  <2>2. ClientTypeOK'
    BY <1>2, <2>1, ZenonT(30) DEF Finish, EnqueueSend
  <2>3. NoOvertakenItem'
    BY <1>2, <2>1, ZenonT(30) DEF Finish, EnqueueSend
  <2> QED BY <2>1, <2>2, <2>3, ZenonT(30)
<1>3. CASE Receive
  BY <1>3, ZenonT(30) DEF Receive, Dequeue
<1>4. CASE UNCHANGED clientVars
  BY <1>4, ZenonT(30) DEF clientVars
<1> QED BY <1>1, <1>2, <1>3, <1>4, ZenonT(30) DEF ClientNext

\* Nothing is queued at first; the three facts hold throughout.
LEMMA QueueSafe == ClientSpec => []SlotIInv
<1>1. ClientInit => SlotIInv
  <2> SUFFICES ASSUME ClientInit PROVE SlotIInv
    OBVIOUS
  <2>1. unserved = FALSE /\ unserved \in BOOLEAN
    BY ZenonT(30) DEF ClientInit
  <2>2. queue = <<>> /\ QueueTypeOK
    BY ZenonT(30) DEF ClientInit, QueueInit, QueueTypeOK
  <2>3. ClientTypeOK
    BY <2>1, <2>2 DEF ClientInit, ClientTypeOK
  <2> QED BY <2>1, <2>2, <2>3 DEF SlotIInv, NoKickLost, NoOvertakenItem
<1> QED BY <1>1, SlotStep, PTL DEF ClientSpec

\* The slot holds at most one item, although Enqueue sends without checking
\* that its own drain left it empty.
THEOREM SlotCorrect == ClientSpec => []ClientTypeOK
BY QueueSafe, PTL DEF SlotIInv

\* Whatever the number of controllers, a kick is coalesced and never lost.
THEOREM KicksKept == ClientSpec => []NoKickLost
BY QueueSafe, PTL DEF SlotIInv

\* The reader gets no item that a later Enqueue overtook.
THEOREM NoneOvertaken == ClientSpec => []NoOvertakenItem
BY QueueSafe, PTL DEF SlotIInv

-----------------------------------------------------------------------------
(* Consul endpoints.  The indices that the catalog has reached so far      *)
(* bound all that is on its way from the catalog to the reader.            *)

Amounts == 0..Index
WatchRecords == [service : Services, live : BOOLEAN, lastIndex : Amounts,
                 tuple : Amounts \cup {NoList}, passed : Amounts \cup {NoList}]
MapEntries == [watch : Nat, endpoints : Amounts \cup {NoList}]
Refreshes == [todo : SUBSET Services, specs : [Services -> Amounts]]
SentLists == [specs : [Services -> Amounts], dns : [Services -> Amounts]]
Resolutions == [Services -> [1..(MaxConsulChanges + 1) -> Amounts]]

\* The loop has the services that are registered.
Fetched == serviceMetaChan = NoList /\ watchedIndex = LastChange

\* Some service has changed last, and a list of services that is not read yet is
\* out of date only if WatchServices has more to send.
CatalogInv ==
  /\ blocking \in BOOLEAN /\ consulChanges \in 0..MaxConsulChanges
  /\ dns \in [Services -> 1..Index]
  /\ catalog \in [Services -> [index : 1..Index, up : BOOLEAN]]
  /\ \E s \in Services : \A t \in Services : catalog[t].index <= catalog[s].index
  /\ serviceMetaChan \in (SUBSET Services) \cup {NoList} /\ watchedIndex \in Amounts
  /\ serviceMetaChan # NoList /\ watchedIndex = LastChange => serviceMetaChan = Registered

\* The previous hash is of the previous specs, but for what did not resolve; the
\* reader has that list, or it is in the channel.
LoopInv ==
  /\ previousSpecs \in [Services -> Amounts]
  /\ previousResolutions \in Resolutions /\ unresolved \subseteq Services
  /\ previousHash \in SentLists \cup {NoList} /\ received \in SentLists \cup {NoList}
  /\ previousHash = NoList => previousSpecs = NoEndpoints
  /\ previousHash # NoList =>
       \A s \in Services \ unresolved : previousHash.specs[s] = previousSpecs[s]
  /\ refresh # NoList => allEndpointsListChan = NoList
  /\ allEndpointsListChan \in {previousHash, NoList}
  /\ allEndpointsListChan = NoList => received = previousHash

\* Without blocking queries: a refresh has the instances of the services that it has
\* queried, and leaves them in the previous specs.
QueryInv ==
  /\ refresh \in Refreshes \cup {NoList} /\ dropped \subseteq Services
  /\ blocking => refresh = NoList /\ dropped = {}
  /\ ~blocking /\ Fetched /\ refresh = NoList =>
       \A s \in Services \ dropped : previousSpecs[s] = Instances(s)
  /\ ~blocking /\ Fetched /\ refresh # NoList =>
       \A s \in Services \ dropped :
         s \in refresh.todo \/ refresh.specs[s] = Instances(s)
  /\ ~blocking /\ watchedIndex # 0 /\ serviceMetaChan = NoList /\ refresh = NoList =>
       previousHash # NoList

\* With blocking queries: the map has the live watches.
MapInv ==
  /\ ~blocking => watches = <<>> /\ forgotten = {} /\ overtaken = {}
  /\ watches \in Seq(WatchRecords) /\ dcEndpointWatches \in [Services -> MapEntries]
  /\ forgotten \subseteq Services /\ overtaken \subseteq Services
  /\ \A s \in Services :
       /\ dcEndpointWatches[s].watch = 0 => dcEndpointWatches[s] = NoWatch
       /\ dcEndpointWatches[s].watch # 0 =>
            /\ dcEndpointWatches[s].watch \in DOMAIN watches
            /\ watches[dcEndpointWatches[s].watch].service = s
  /\ \A i \in DOMAIN watches :
       watches[i].live <=> dcEndpointWatches[watches[i].service].watch = i

\* What the watch of s adds to the specs.
Contribution(s) ==
  IF dcEndpointWatches[s].endpoints = NoList THEN 0 ELSE dcEndpointWatches[s].endpoints

\* The map has an entry for each service that is registered, and the previous specs
\* what the entries add, but for the watches that have ended.
SpecsInv ==
  \A s \in Services :
    /\ blocking /\ Fetched => (dcEndpointWatches[s].watch # 0 <=> s \in Registered)
    /\ s \in forgotten => dcEndpointWatches[s].endpoints = NoList
    /\ blocking /\ s \notin forgotten => previousSpecs[s] = Contribution(s)

\* A watch that has seen the newest index has the newest instances in the first of
\* its places that is not empty, and the last place is the map.
Newest(w) ==
  w.live /\ w.lastIndex = catalog[w.service].index =>
    /\ w.tuple # NoList => w.tuple = Instances(w.service)
    /\ w.tuple = NoList /\ w.passed # NoList => w.passed = Instances(w.service)
    /\ w.tuple = NoList /\ w.passed = NoList /\ w.service \notin overtaken =>
         dcEndpointWatches[w.service].endpoints = Instances(w.service)
NewestInv == \A i \in DOMAIN watches : Newest(watches[i])

EndpointsIInv == CatalogInv /\ LoopInv /\ QueryInv /\ MapInv /\ SpecsInv /\ NewestInv

\* The types of what is derived from the catalog, and what NoList is not.
LEMMA CatalogFacts ==
  ASSUME CatalogInv
  PROVE  /\ Index \in Nat /\ Amounts \subseteq Nat /\ 0 \in Amounts /\ NoList \notin Amounts
         /\ NoList \notin SentLists /\ NoList \notin Refreshes
         /\ NoList \notin SUBSET Services
         /\ NoEndpoints \in [Services -> Amounts]
         /\ \A s \in Services : Instances(s) \in Amounts
         /\ LastChange \in 1..Index /\ \A s \in Services : catalog[s].index <= LastChange
<1>1. Index \in Nat /\ Amounts \subseteq Nat /\ 0 \in Amounts
  BY EndpointsBoundsAssumption DEF CatalogInv, Index, Amounts
<1>2. NoList \notin Amounts /\ NoList \notin SUBSET Services
  BY <1>1, NoListAssumption, ZenonT(30)
<1>3. [Services -> Amounts] \subseteq Numbers BY <1>1, ZenonT(30) DEF Numbers
<1>4. SentLists \subseteq [specs : Numbers, dns : Numbers] BY <1>3, ZenonT(30) DEF SentLists
<1>5. Refreshes \subseteq [todo : SUBSET Services, specs : Numbers] BY <1>3 DEF Refreshes
<1>6. NoEndpoints \in [Services -> Amounts] BY <1>1 DEF NoEndpoints
<1>7. ASSUME NEW s \in Services PROVE Instances(s) \in Amounts
  BY <1>1 DEF CatalogInv, Instances, Amounts
<1>8. LastChange \in 1..Index /\ \A s \in Services : catalog[s].index <= LastChange
  <2>1. PICK s \in Services : \A t \in Services : catalog[t].index <= catalog[s].index
    BY ZenonT(30) DEF CatalogInv
  <2>2. catalog[s].index \in 1..Index BY ZenonT(30) DEF CatalogInv
  <2>3. LastChange \in {catalog[t].index : t \in Services}
        /\ \A t \in Services : catalog[t].index <= LastChange
    BY <2>1, ZenonT(30) DEF LastChange
  <2> QED BY <2>3, ZenonT(30) DEF CatalogInv
<1> QED BY <1>1, <1>2, <1>4, <1>5, <1>6, <1>7, <1>8, NoListAssumption, ZenonT(30)

\* The fields of a watch.
LEMMA WatchFacts ==
  ASSUME MapInv
  PROVE  /\ Len(watches) \in Nat /\ DOMAIN watches = 1..Len(watches)
         /\ \A i \in DOMAIN watches :
              /\ watches[i] \in WatchRecords
              /\ watches[i].service \in Services /\ watches[i].lastIndex \in Amounts
              /\ watches[i].tuple \in Amounts \cup {NoList}
              /\ watches[i].passed \in Amounts \cup {NoList}
<1>1. watches \in Seq(WatchRecords) BY ZenonT(30) DEF MapInv
<1>2. Len(watches) \in Nat /\ DOMAIN watches = 1..Len(watches) BY <1>1
<1>3. \A i \in DOMAIN watches : watches[i] \in WatchRecords BY <1>1
<1> QED BY <1>2, <1>3, ZenonT(30) DEF WatchRecords

\* The loop starts with nothing.
LEMMA EndpointsInitInv == EndpointsInit => EndpointsIInv
<1> SUFFICES ASSUME EndpointsInit PROVE EndpointsIInv OBVIOUS
<1>1. Index = 1 BY DEF EndpointsInit, Index
<1>2. CatalogInv
  <2>1. \E s \in Services : \A t \in Services : catalog[t].index <= catalog[s].index
    BY ServicesAssumption DEF EndpointsInit
  <2> QED BY <1>1, <2>1, EndpointsBoundsAssumption DEF EndpointsInit, CatalogInv, Amounts
<1>3. LastChange # watchedIndex BY <1>2, CatalogFacts, <1>1 DEF EndpointsInit
<1>4. LoopInv
  <2>1. previousResolutions \in Resolutions
    BY <1>2, CatalogFacts, ZenonT(30) DEF EndpointsInit, Resolutions
  <2> QED BY <1>2, <2>1, CatalogFacts, ZenonT(30) DEF EndpointsInit, LoopInv
<1>5. QueryInv BY <1>2, <1>3, ZenonT(30) DEF EndpointsInit, QueryInv, Fetched
<1>6. MapInv
  <2>1. NoWatch \in MapEntries /\ NoWatch.watch = 0 BY DEF NoWatch, MapEntries
  <2>2. watches \in Seq(WatchRecords) /\ DOMAIN watches = {} BY DEF EndpointsInit
  <2> QED BY <2>1, <2>2, ZenonT(30) DEF EndpointsInit, MapInv
<1>7. SpecsInv
  <2>1. \A s \in Services : dcEndpointWatches[s].endpoints = NoList /\ previousSpecs[s] = 0
    BY DEF EndpointsInit, NoWatch, NoEndpoints
  <2> QED BY <1>3, <2>1, ZenonT(30) DEF EndpointsInit, SpecsInv, Fetched, Contribution
<1>8. NewestInv BY DEF EndpointsInit, NewestInv
<1> QED BY <1>2, <1>4, <1>5, <1>6, <1>7, <1>8 DEF EndpointsIInv

\* Nothing derived from the catalog changes while the catalog does not.
LEMMA SameCatalog ==
  ASSUME CatalogInv, UNCHANGED <<blocking, externalVars>>
  PROVE  /\ Amounts' = Amounts /\ WatchRecords' = WatchRecords /\ MapEntries' = MapEntries
         /\ Refreshes' = Refreshes /\ SentLists' = SentLists /\ Resolutions' = Resolutions
         /\ LastChange' = LastChange /\ Registered' = Registered
         /\ \A s \in Services : Instances(s)' = Instances(s)
         /\ UNCHANGED metaVars => CatalogInv' /\ (Fetched' <=> Fetched)
<1>1. UNCHANGED <<blocking, catalog, dns, consulChanges>> BY ZenonT(30) DEF externalVars
<1>2. Index' = Index BY <1>1, ZenonT(30) DEF Index
<1>3. Amounts' = Amounts BY <1>2, ZenonT(30) DEF Amounts
<1>4. /\ WatchRecords' = WatchRecords /\ MapEntries' = MapEntries
      /\ Refreshes' = Refreshes /\ SentLists' = SentLists /\ Resolutions' = Resolutions
  BY <1>3, ZenonT(30) DEF WatchRecords, MapEntries, Refreshes, SentLists, Resolutions
<1>5. LastChange' = LastChange /\ Registered' = Registered
  BY <1>1, ZenonT(30) DEF LastChange, Registered
<1>6. \A s \in Services : Instances(s)' = Instances(s) BY <1>1, ZenonT(30) DEF Instances
<1>7. UNCHANGED metaVars => CatalogInv' /\ (Fetched' <=> Fetched)
  BY <1>1, <1>2, <1>3, <1>5, ZenonT(30) DEF CatalogInv, Fetched, metaVars
<1> QED BY <1>3, <1>4, <1>5, <1>6, <1>7, ZenonT(30)

\* A change in Consul or in the DNS: what is on its way stays what it is.
LEMMA ConsulStep ==
  ASSUME EndpointsIInv,
         \/ \E s \in HostNamed : ChangeDns(s)
         \/ \E s \in Services, up \in BOOLEAN : ChangeService(s, up)
  PROVE  EndpointsIInv'
<1>1. /\ UNCHANGED <<blocking, metaVars, watches, dcEndpointWatches, refresh, loopVars,
                     received, historyVars>>
      /\ consulChanges < MaxConsulChanges /\ consulChanges' = consulChanges + 1
      /\ dns' = dns \/ \E s \in Services : dns' = [dns EXCEPT ![s] = @ + 1]
  BY HostNamedAssumption, ZenonT(30) DEF ChangeDns, ChangeService
<1>2. /\ Index \in Nat /\ Index' = Index + 1 /\ consulChanges' \in 0..MaxConsulChanges
      /\ dns' \in [Services -> 1..Index']
  <2>1. /\ Index \in Nat /\ Index' = Index + 1 /\ consulChanges' \in 0..MaxConsulChanges
    BY <1>1, EndpointsBoundsAssumption DEF Index, EndpointsIInv, CatalogInv
  <2>2. \A n \in 1..Index : n \in 1..Index' /\ n + 1 \in 1..Index' BY <2>1
  <2>3. dns \in [Services -> 1..Index] BY ZenonT(30) DEF EndpointsIInv, CatalogInv
  <2> QED BY <1>1, <2>1, <2>2, <2>3, ZenonT(30)
<1>3. /\ 1..Index \subseteq 1..Index' /\ Index' \in 1..Index' /\ Amounts \subseteq Amounts'
      /\ Index' \notin Amounts /\ Index' \in Nat
      /\ \A k \in 1..Index' : k <= Index'
  BY <1>2 DEF Amounts
<1>4. CatalogInv /\ watchedIndex \in Amounts BY ZenonT(30) DEF EndpointsIInv, CatalogInv
<1>5. /\ catalog' \in [Services -> [index : 1..Index', up : BOOLEAN]]
      /\ \A t \in Services : catalog'[t] = catalog[t] \/ catalog'[t].index = Index'
      /\ catalog' = catalog \/ \E s \in Services : catalog'[s].index = Index'
  <2>1. \A x \in [index : 1..Index, up : BOOLEAN] : x \in [index : 1..Index', up : BOOLEAN]
    BY <1>3
  <2>2. CASE \E s \in HostNamed : ChangeDns(s)
    BY <1>4, <2>1, <2>2, ZenonT(30) DEF ChangeDns, CatalogInv
  <2>3. ASSUME NEW s \in Services, NEW up \in BOOLEAN, ChangeService(s, up)
        PROVE  /\ catalog' \in [Services -> [index : 1..Index', up : BOOLEAN]]
               /\ \A t \in Services : catalog'[t] = catalog[t] \/ catalog'[t].index = Index'
               /\ \E r \in Services : catalog'[r].index = Index'
    <3>1. catalog' = [catalog EXCEPT ![s] = [index |-> Index', up |-> up]]
      BY <1>2, <2>3, ZenonT(30) DEF ChangeService
    <3>2. [index |-> Index', up |-> up] \in [index : 1..Index', up : BOOLEAN]
      BY <1>3, ZenonT(30)
    <3> QED BY <1>4, <2>1, <3>1, <3>2, ZenonT(30) DEF CatalogInv
  <2> QED BY <2>2, <2>3, ZenonT(30)
<1>6. /\ \E s \in Services : \A t \in Services : catalog'[t].index <= catalog'[s].index
      /\ watchedIndex = LastChange' => catalog' = catalog
  <2>1. CASE catalog' = catalog BY <1>4, <2>1, ZenonT(30) DEF CatalogInv
  <2>2. ASSUME NEW s \in Services, catalog'[s].index = Index'
        PROVE  (\A t \in Services : catalog'[t].index <= catalog'[s].index)
               /\ watchedIndex # LastChange'
    <3>1. \A t \in Services : catalog'[t].index <= catalog'[s].index
      BY <1>3, <1>5, <2>2, ZenonT(30)
    <3>2. /\ LastChange' \in {catalog'[t].index : t \in Services}
          /\ catalog'[s].index <= LastChange'
      BY <3>1, ZenonT(30) DEF LastChange
    <3>3. LastChange' \in 1..Index' BY <1>5, <3>2, ZenonT(30)
    <3>4. LastChange' = Index' BY <1>3, <2>2, <3>2, <3>3
    <3> QED BY <1>3, <1>4, <3>1, <3>4, ZenonT(30)
  <2> QED BY <1>5, <2>1, <2>2, ZenonT(30)
<1>7. /\ Fetched' => Fetched /\ Registered' = Registered
      /\ Fetched' => \A t \in Services : Instances(t)' = Instances(t)
  <2>1. catalog' = catalog =>
          /\ LastChange' = LastChange /\ Registered' = Registered
          /\ \A t \in Services : Instances(t)' = Instances(t)
    BY ZenonT(30) DEF LastChange, Registered, Instances
  <2> QED BY <1>1, <1>6, <2>1, ZenonT(30) DEF Fetched, metaVars
<1>8. \A t \in Services :
        catalog'[t].index \in Amounts => catalog'[t] = catalog[t] /\ Instances(t)' = Instances(t)
  BY <1>3, <1>5, ZenonT(30) DEF Instances
<1>9. CatalogInv'
  <2>1. /\ serviceMetaChan' \in (SUBSET Services) \cup {NoList} /\ watchedIndex' \in Amounts'
        /\ blocking' \in BOOLEAN
    BY <1>1, <1>3, <1>4, ZenonT(30) DEF CatalogInv, metaVars
  <2>2. serviceMetaChan' # NoList /\ watchedIndex' = LastChange' => serviceMetaChan' = Registered'
    <3>1. catalog' = catalog => LastChange' = LastChange /\ Registered' = Registered
      BY ZenonT(30) DEF LastChange, Registered
    <3> QED BY <1>1, <1>4, <1>6, <3>1, ZenonT(30) DEF CatalogInv, metaVars
  <2> QED BY <1>2, <1>5, <1>6, <2>1, <2>2, ZenonT(30) DEF CatalogInv
<1>10. /\ SentLists \subseteq SentLists' /\ Refreshes \subseteq Refreshes'
       /\ WatchRecords \subseteq WatchRecords' /\ MapEntries \subseteq MapEntries'
       /\ [Services -> Amounts] \subseteq [Services -> Amounts']
       /\ Resolutions \subseteq Resolutions'
  <2>1. Resolutions \subseteq Resolutions' BY <1>3, ZenonT(30) DEF Resolutions
  <2>2. [Services -> Amounts] \subseteq [Services -> Amounts'] BY <1>3, ZenonT(30)
  <2>3. SentLists \subseteq SentLists' BY <2>2, ZenonT(30) DEF SentLists
  <2> QED BY <1>3, <2>1, <2>2, <2>3 DEF Refreshes, WatchRecords, MapEntries
<1>11. LoopInv' BY <1>1, <1>10, ZenonT(30) DEF EndpointsIInv, LoopInv, loopVars
<1>12. QueryInv'
  BY <1>1, <1>7, <1>10, ZenonT(30) DEF EndpointsIInv, QueryInv, metaVars, loopVars,
                                       historyVars
<1>13. watches' \in Seq(WatchRecords')
  <2>1. watches' = watches /\ watches \in Seq(WatchRecords)
    BY <1>1, ZenonT(30) DEF EndpointsIInv, MapInv
  <2> QED BY <1>10, <2>1
<1>14. dcEndpointWatches' \in [Services -> MapEntries']
  BY <1>1, <1>10, ZenonT(30) DEF EndpointsIInv, MapInv
<1>15. MapInv' BY <1>1, <1>13, <1>14, ZenonT(30) DEF EndpointsIInv, MapInv, historyVars
<1>16. SpecsInv'
  BY <1>1, <1>7, ZenonT(30) DEF EndpointsIInv, SpecsInv, Contribution, metaVars, loopVars,
                                historyVars
<1>17. NewestInv'
  <2> SUFFICES ASSUME NEW i \in DOMAIN watches PROVE Newest(watches[i])'
    BY <1>1, ZenonT(30) DEF NewestInv
  <2>1. watches[i].service \in Services /\ watches[i].lastIndex \in Amounts
    BY WatchFacts, ZenonT(30) DEF EndpointsIInv
  <2> QED BY <1>1, <1>8, <2>1, ZenonT(30) DEF EndpointsIInv, NewestInv, Newest, historyVars
<1> QED BY <1>9, <1>11, <1>12, <1>15, <1>16, <1>17, ZenonT(30) DEF EndpointsIInv

\* The watches are not affected by a step that leaves them, the map and the catalog
\* as they are.
LEMMA WatchesStay ==
  ASSUME CatalogInv, MapInv, NewestInv,
         UNCHANGED <<blocking, externalVars, watches, dcEndpointWatches, forgotten, overtaken>>
  PROVE  MapInv' /\ NewestInv'
<1>1. catalog' = catalog BY ZenonT(30) DEF externalVars
<1>2. MapInv' BY SameCatalog, ZenonT(30) DEF MapInv
<1>3. NewestInv' BY <1>1, ZenonT(30) DEF NewestInv, Newest, Instances
<1> QED BY <1>2, <1>3

\* The loop publishes endpoints: they are in the channel, or the reader has them.
LEMMA PublishStep ==
  ASSUME CatalogInv, LoopInv, allEndpointsListChan = NoList,
         NEW specs \in [Services -> Amounts], Publish(specs), refresh' = NoList,
         UNCHANGED <<blocking, externalVars, received>>
  PROVE  LoopInv' /\ previousSpecs' = specs /\ previousHash' # NoList
<1> PICK failing \in SUBSET Lookups(specs) : PublishWith(specs, failing)
  BY ZenonT(30) DEF Publish
<1> DEFINE E == Endpoints(specs, failing)
<1>1. /\ 0 \in Amounts /\ \A s \in Services : dns[s] \in Amounts
      /\ \A n \in Amounts : n # 0 => n \in 1..(MaxConsulChanges + 1)
  <2>1. Index \in Nat /\ Index <= MaxConsulChanges + 1 /\ MaxConsulChanges + 1 \in Nat
    BY EndpointsBoundsAssumption DEF CatalogInv, Index
  <2>2. dns \in [Services -> 1..Index] BY ZenonT(30) DEF CatalogInv
  <2> QED BY <2>1, <2>2 DEF Amounts
<1>2. \A s \in Lookups(specs) : s \in Services /\ specs[s] \in 1..(MaxConsulChanges + 1)
  BY <1>1, HostNamedAssumption, ZenonT(30) DEF Lookups
<1>3. /\ previousResolutions \in Resolutions
      /\ \A s \in Lookups(specs) : Answer(s, specs[s], failing) \in Amounts
  BY <1>1, <1>2, ZenonT(30) DEF LoopInv, Resolutions, Answer
<1>4. previousResolutions' \in Resolutions
  <2>1. \A s \in Services : previousResolutions[s] \in [1..(MaxConsulChanges + 1) -> Amounts]
    BY <1>3, ZenonT(30) DEF Resolutions
  <2>2. \A s \in Lookups(specs) :
          [previousResolutions[s] EXCEPT ![specs[s]] = dns[s]]
            \in [1..(MaxConsulChanges + 1) -> Amounts]
    BY <1>1, <1>2, <2>1, ZenonT(30)
  <2> QED BY <2>1, <2>2, ZenonT(30) DEF PublishWith, Resolutions
<1>5. /\ E.specs = [s \in Services |-> IF s \in Unresolved(specs, failing) THEN 0
                                       ELSE specs[s]]
      /\ E \in SentLists
  BY <1>1, <1>3, ZenonT(30) DEF Endpoints, SentLists
<1>6. E # NoList BY <1>5, CatalogFacts, ZenonT(30)
<1>7. received = previousHash BY ZenonT(30) DEF LoopInv
<1>8. /\ previousSpecs' = specs /\ previousHash' = E
      /\ allEndpointsListChan' = IF previousHash = E THEN NoList ELSE E
      /\ unresolved' = Unresolved(specs, failing)
  BY ZenonT(30) DEF PublishWith
<1>9. /\ unresolved' \subseteq Services
      /\ \A s \in Services \ unresolved' : previousHash'.specs[s] = previousSpecs'[s]
  BY <1>2, <1>5, <1>8, ZenonT(30) DEF Unresolved
<1> HIDE DEF E
<1>10. LoopInv'
  BY <1>4, <1>5, <1>6, <1>7, <1>8, <1>9, SameCatalog, ZenonT(30) DEF LoopInv
<1> QED BY <1>6, <1>8, <1>10

\* WatchServices sends the services that are registered.
LEMMA SendServicesStep == ASSUME EndpointsIInv, SendServices PROVE EndpointsIInv'
<1>1. CatalogInv BY ZenonT(30) DEF EndpointsIInv
<1>2. /\ UNCHANGED <<blocking, externalVars, watches, dcEndpointWatches, refresh, loopVars,
                     received, historyVars>>
      /\ serviceMetaChan' = Registered /\ watchedIndex' = LastChange
  BY ZenonT(30) DEF SendServices
<1>3. Registered \in SUBSET Services /\ Registered # NoList /\ LastChange \in Amounts
  BY <1>1, CatalogFacts DEF Registered, Amounts
<1>4. ~Fetched' BY <1>2, <1>3, ZenonT(30) DEF Fetched
<1>5. CatalogInv'
  BY <1>1, <1>2, <1>3, SameCatalog, ZenonT(30) DEF CatalogInv, externalVars, Index
<1>6. LoopInv' BY <1>1, <1>2, SameCatalog, ZenonT(30) DEF EndpointsIInv, LoopInv, loopVars
<1>7. QueryInv'
  BY <1>1, <1>2, <1>3, <1>4, SameCatalog, ZenonT(30) DEF EndpointsIInv, QueryInv, historyVars
<1>8. SpecsInv'
  BY <1>2, <1>4, ZenonT(30) DEF EndpointsIInv, SpecsInv, Contribution, loopVars, historyVars
<1>9. MapInv' /\ NewestInv' BY <1>2, WatchesStay, ZenonT(30) DEF EndpointsIInv, historyVars
<1> QED BY <1>5, <1>6, <1>7, <1>8, <1>9, ZenonT(30) DEF EndpointsIInv

\* The reader takes the list.
LEMMA ReadStep == ASSUME EndpointsIInv, Read PROVE EndpointsIInv'
<1>1. /\ CatalogInv /\ allEndpointsListChan # NoList /\ allEndpointsListChan = previousHash
      /\ refresh = NoList
  BY ZenonT(30) DEF EndpointsIInv, LoopInv, Read
<1>2. /\ UNCHANGED <<blocking, externalVars, metaVars, watches, dcEndpointWatches, refresh,
                     previousSpecs, previousHash, previousResolutions, unresolved,
                     historyVars>>
      /\ received' = previousHash /\ allEndpointsListChan' = NoList
  BY <1>1, ZenonT(30) DEF Read
<1>3. LoopInv' BY <1>1, <1>2, SameCatalog, ZenonT(30) DEF EndpointsIInv, LoopInv
<1>4. QueryInv'
  BY <1>1, <1>2, SameCatalog, ZenonT(30) DEF EndpointsIInv, QueryInv, historyVars, metaVars
<1>5. SpecsInv'
  BY <1>1, <1>2, SameCatalog, ZenonT(30) DEF EndpointsIInv, SpecsInv, Contribution,
                                             historyVars
<1>6. MapInv' /\ NewestInv' BY <1>2, WatchesStay, ZenonT(30) DEF EndpointsIInv, historyVars
<1> QED BY <1>1, <1>2, <1>3, <1>4, <1>5, <1>6, SameCatalog, ZenonT(30) DEF EndpointsIInv

\* The ticker: the specs are published again.
LEMMA PollStep == ASSUME EndpointsIInv, Poll PROVE EndpointsIInv'
<1>1. /\ CatalogInv /\ LoopInv /\ refresh = NoList /\ allEndpointsListChan = NoList
      /\ previousSpecs \in [Services -> Amounts]
  BY ZenonT(30) DEF EndpointsIInv, LoopInv, Poll, Selecting
<1>2. /\ UNCHANGED <<blocking, externalVars, metaVars, watches, dcEndpointWatches, refresh,
                     received, historyVars>>
      /\ Publish(previousSpecs)
  BY ZenonT(30) DEF Poll
<1>3. LoopInv' /\ previousSpecs' = previousSpecs /\ previousHash' # NoList
  BY <1>1, <1>2, PublishStep, ZenonT(30)
<1>4. QueryInv'
  BY <1>1, <1>2, <1>3, SameCatalog, ZenonT(30)
  DEF EndpointsIInv, QueryInv, historyVars, metaVars
<1>5. SpecsInv'
  BY <1>1, <1>2, <1>3, SameCatalog, ZenonT(30)
  DEF EndpointsIInv, SpecsInv, Contribution, historyVars
<1>6. MapInv' /\ NewestInv' BY <1>2, WatchesStay, ZenonT(30) DEF EndpointsIInv, historyVars
<1> QED BY <1>1, <1>2, <1>3, <1>4, <1>5, <1>6, SameCatalog, ZenonT(30) DEF EndpointsIInv

\* A refresh starts, with the services that are registered unless there are others
\* to come.
LEMMA RefreshStep == ASSUME EndpointsIInv, Refresh PROVE EndpointsIInv'
<1>1. /\ CatalogInv /\ ~blocking /\ refresh = NoList /\ allEndpointsListChan = NoList
      /\ serviceMetaChan \in SUBSET Services /\ serviceMetaChan # NoList
  BY ZenonT(30) DEF EndpointsIInv, CatalogInv, Refresh, Selecting
<1>2. /\ UNCHANGED <<blocking, externalVars, watchedIndex, watches, dcEndpointWatches,
                     loopVars, received, forgotten, overtaken>>
      /\ refresh' = [todo |-> serviceMetaChan, specs |-> NoEndpoints]
      /\ serviceMetaChan' = NoList /\ dropped' = {}
  BY ZenonT(30) DEF Refresh
<1>3. /\ refresh' \in Refreshes /\ refresh' # NoList
      /\ refresh'.todo = serviceMetaChan /\ refresh'.specs = NoEndpoints
  <2>1. NoEndpoints \in [Services -> Amounts] /\ NoList \notin Refreshes
    BY <1>1, CatalogFacts, ZenonT(30)
  <2>2. /\ refresh'.todo = serviceMetaChan /\ refresh'.specs = NoEndpoints
        /\ refresh' \in Refreshes
    BY <1>1, <1>2, <2>1 DEF Refreshes
  <2> QED BY <2>1, <2>2, ZenonT(30)
<1>4. CatalogInv'
  BY <1>1, <1>2, SameCatalog, ZenonT(30) DEF CatalogInv, externalVars, Index
<1>5. LoopInv'
  BY <1>1, <1>2, SameCatalog, ZenonT(30) DEF EndpointsIInv, LoopInv, loopVars
<1>6. QueryInv'
  <2>1. Fetched' => serviceMetaChan = Registered
    BY <1>1, <1>2, SameCatalog, ZenonT(30) DEF CatalogInv, Fetched
  <2>2. \A s \in Services : s \in Registered \/ NoEndpoints[s] = Instances(s)
    BY ZenonT(30) DEF Registered, Instances, NoEndpoints
  <2> QED BY <1>1, <1>2, <1>3, <2>1, <2>2, SameCatalog, ZenonT(30) DEF QueryInv
<1>7. SpecsInv' BY <1>1, <1>2, ZenonT(30) DEF EndpointsIInv, SpecsInv, Contribution
<1>8. MapInv' /\ NewestInv' BY <1>2, WatchesStay, ZenonT(30) DEF EndpointsIInv
<1> QED BY <1>4, <1>5, <1>6, <1>7, <1>8, ZenonT(30) DEF EndpointsIInv

\* A query of a refresh returns the instances of its service, or fails.
LEMMA QuerySpecsStep ==
  ASSUME EndpointsIInv, NEW s \in Services, QuerySpecs(s) \/ QuerySpecsFails(s)
  PROVE  EndpointsIInv'
<1>1. /\ CatalogInv /\ refresh # NoList /\ refresh \in Refreshes /\ ~blocking
      /\ Instances(s) \in Amounts
  BY CatalogFacts, ZenonT(30) DEF EndpointsIInv, QueryInv, QuerySpecs, QuerySpecsFails
<1>2. UNCHANGED <<blocking, externalVars, metaVars, watches, dcEndpointWatches, loopVars,
                  received, forgotten, overtaken>>
  BY ZenonT(30) DEF QuerySpecs, QuerySpecsFails, historyVars
<1>3. /\ refresh' \in Refreshes /\ dropped' \subseteq Services
      /\ refresh'.todo = refresh.todo \ {s}
      /\ \A t \in Services \ {s} : refresh'.specs[t] = refresh.specs[t]
      /\ refresh'.specs[s] = Instances(s) \/ s \in dropped'
      /\ dropped \subseteq dropped'
  <2>1. /\ refresh.todo \in SUBSET Services /\ refresh.specs \in [Services -> Amounts]
        /\ dropped \subseteq Services
    BY <1>1, ZenonT(30) DEF Refreshes, EndpointsIInv, QueryInv
  <2>2. CASE QuerySpecs(s)
    <3> DEFINE specs == [refresh.specs EXCEPT ![s] = Instances(s)]
    <3>1. refresh' = [todo |-> refresh.todo \ {s}, specs |-> specs] /\ dropped' = dropped
      BY <2>2, ZenonT(30) DEF QuerySpecs, historyVars
    <3>2. /\ specs \in [Services -> Amounts] /\ specs[s] = Instances(s)
          /\ \A t \in Services \ {s} : specs[t] = refresh.specs[t]
      BY <1>1, <2>1, ZenonT(30)
    <3> HIDE DEF specs
    <3>3. refresh'.todo = refresh.todo \ {s} /\ refresh'.specs = specs BY <3>1, ZenonT(30)
    <3> QED BY <2>1, <3>1, <3>2, <3>3, ZenonT(30) DEF Refreshes
  <2>3. CASE QuerySpecsFails(s)
    <3>1. /\ refresh' = [refresh EXCEPT !.todo = refresh.todo \ {s}]
          /\ dropped' = dropped \cup {s}
      BY <2>3, ZenonT(30) DEF QuerySpecsFails
    <3>2. /\ refresh'.todo = refresh.todo \ {s} /\ refresh'.specs = refresh.specs
          /\ refresh' \in Refreshes
      BY <1>1, <2>1, <3>1 DEF Refreshes
    <3> QED BY <2>1, <3>1, <3>2, ZenonT(30)
  <2> QED BY <2>2, <2>3
<1>4. refresh' # NoList BY <1>1, <1>3, CatalogFacts, ZenonT(30)
<1>5. LoopInv'
  BY <1>1, <1>2, <1>4, SameCatalog, ZenonT(30) DEF EndpointsIInv, LoopInv, loopVars
<1>6. QueryInv'
  <2>1. ~blocking' /\ (Fetched' <=> Fetched) BY <1>1, <1>2, SameCatalog, ZenonT(30)
  <2>2. ASSUME Fetched, NEW t \in Services \ dropped'
        PROVE  t \in refresh'.todo \/ refresh'.specs[t] = Instances(t)
    BY <1>1, <1>3, <2>2, ZenonT(30) DEF EndpointsIInv, QueryInv
  <2> QED BY <1>1, <1>2, <1>3, <1>4, <2>1, <2>2, SameCatalog, ZenonT(30) DEF QueryInv
<1>7. SpecsInv' BY <1>1, <1>2, ZenonT(30) DEF EndpointsIInv, SpecsInv, Contribution
<1>8. MapInv' /\ NewestInv' BY <1>2, WatchesStay, ZenonT(30) DEF EndpointsIInv
<1> QED BY <1>1, <1>2, <1>5, <1>6, <1>7, <1>8, SameCatalog, ZenonT(30) DEF EndpointsIInv

\* All queries of a refresh have returned: what it has is published.
LEMMA RefreshedStep == ASSUME EndpointsIInv, Refreshed PROVE EndpointsIInv'
<1>1. /\ CatalogInv /\ LoopInv /\ refresh # NoList /\ refresh.todo = {} /\ ~blocking
      /\ refresh.specs \in [Services -> Amounts] /\ allEndpointsListChan = NoList
  BY ZenonT(30) DEF EndpointsIInv, LoopInv, QueryInv, Refreshes, Refreshed
<1>2. /\ UNCHANGED <<blocking, externalVars, metaVars, watches, dcEndpointWatches, received,
                     historyVars>>
      /\ refresh' = NoList /\ Publish(refresh.specs)
  BY ZenonT(30) DEF Refreshed
<1>3. LoopInv' /\ previousSpecs' = refresh.specs /\ previousHash' # NoList
  BY <1>1, <1>2, PublishStep, ZenonT(30)
<1>4. QueryInv'
  BY <1>1, <1>2, <1>3, SameCatalog, ZenonT(30) DEF EndpointsIInv, QueryInv, historyVars
<1>5. SpecsInv'
  BY <1>1, <1>2, ZenonT(30) DEF EndpointsIInv, SpecsInv, Contribution, historyVars
<1>6. MapInv' /\ NewestInv' BY <1>2, WatchesStay, ZenonT(30) DEF EndpointsIInv, historyVars
<1> QED BY <1>1, <1>2, <1>3, <1>4, <1>5, <1>6, SameCatalog, ZenonT(30) DEF EndpointsIInv

\* A step of one watch that leaves its service and whether it is cancelled.
LEMMA OneWatch ==
  ASSUME MapInv, NEW i \in DOMAIN watches, NEW w \in WatchRecords, Watch(i, w),
         w.service = watches[i].service, w.live = watches[i].live
  PROVE  /\ watches' \in Seq(WatchRecords) /\ DOMAIN watches' = DOMAIN watches
         /\ watches'[i] = w /\ blocking
         /\ \A j \in DOMAIN watches : j # i => watches'[j] = watches[j]
         /\ \A j \in DOMAIN watches : /\ watches'[j].service = watches[j].service
                                      /\ watches'[j].live = watches[j].live
<1>1. watches' = [watches EXCEPT ![i] = w] BY ZenonT(30) DEF Watch
<1>2. watches \in Seq(WatchRecords) /\ DOMAIN watches = 1..Len(watches)
  BY WatchFacts, ZenonT(30) DEF MapInv
<1>3. watches' \in Seq(WatchRecords) /\ DOMAIN watches' = DOMAIN watches BY <1>1, <1>2
<1>4. watches'[i] = w /\ \A j \in DOMAIN watches : j # i => watches'[j] = watches[j]
  BY <1>1, <1>2, ZenonT(30)
<1>5. DOMAIN <<>> = {} OBVIOUS
<1>6. blocking BY <1>5, ZenonT(30) DEF MapInv
<1> QED BY <1>3, <1>4, <1>6, ZenonT(30)

\* A step that leaves the map, and what it says of the watches.
LEMMA MapStays ==
  ASSUME MapInv, blocking, UNCHANGED <<blocking, dcEndpointWatches, forgotten, overtaken>>,
         Amounts' = Amounts, WatchRecords' = WatchRecords, MapEntries' = MapEntries,
         watches' \in Seq(WatchRecords), DOMAIN watches' = DOMAIN watches,
         \A j \in DOMAIN watches : /\ watches'[j].service = watches[j].service
                                   /\ watches'[j].live = watches[j].live
  PROVE  MapInv'
<1>1. ASSUME NEW s \in Services
      PROVE  /\ dcEndpointWatches'[s].watch = 0 => dcEndpointWatches'[s] = NoWatch
             /\ dcEndpointWatches'[s].watch # 0 =>
                  /\ dcEndpointWatches'[s].watch \in DOMAIN watches'
                  /\ watches'[dcEndpointWatches'[s].watch].service = s
  <2>1. /\ dcEndpointWatches[s].watch = 0 => dcEndpointWatches[s] = NoWatch
        /\ dcEndpointWatches[s].watch # 0 =>
             /\ dcEndpointWatches[s].watch \in DOMAIN watches
             /\ watches[dcEndpointWatches[s].watch].service = s
    BY ZenonT(30) DEF MapInv
  <2> QED BY <2>1, ZenonT(30)
<1>2. ASSUME NEW j \in DOMAIN watches'
      PROVE  watches'[j].live <=> dcEndpointWatches'[watches'[j].service].watch = j
  <2>1. watches[j].live <=> dcEndpointWatches[watches[j].service].watch = j
    BY ZenonT(30) DEF MapInv
  <2> QED BY <2>1, ZenonT(30)
<1>3. /\ dcEndpointWatches' \in [Services -> MapEntries']
      /\ forgotten' \subseteq Services /\ overtaken' \subseteq Services
  BY ZenonT(30) DEF MapInv
<1> QED BY <1>1, <1>2, <1>3, ZenonT(30) DEF MapInv

\* A blocking query returns, its result is passed on, or both goroutines of a
\* cancelled watch return.
LEMMA WatchStep ==
  ASSUME EndpointsIInv, NEW i \in DOMAIN watches, Query(i) \/ SendTuple(i) \/ Return(i)
  PROVE  EndpointsIInv'
<1> DEFINE w == watches[i]
           s == w.service
<1>1. /\ CatalogInv /\ MapInv /\ w \in WatchRecords /\ s \in Services
      /\ w.tuple \in Amounts \cup {NoList} /\ w.passed \in Amounts \cup {NoList}
  BY WatchFacts, ZenonT(30) DEF EndpointsIInv
<1>2. /\ UNCHANGED <<blocking, externalVars, metaVars, dcEndpointWatches, refresh, loopVars,
                     received, historyVars>>
  BY ZenonT(30) DEF Query, SendTuple, Return, watchesOnly
<1>3. /\ Instances(s) \in Amounts /\ NoList \notin Amounts /\ catalog[s].index \in Amounts
  <2>1. catalog[s].index \in 1..Index BY <1>1, ZenonT(30) DEF CatalogInv
  <2>2. catalog[s].index \in Amounts BY <2>1 DEF Amounts
  <2> QED BY <1>1, <2>2, CatalogFacts, ZenonT(30)
<1>4. PICK v \in WatchRecords :
        /\ Watch(i, v) /\ v.service = s /\ v.live = w.live
        /\ Newest(w) => Newest(v)
  <2>1. CASE Query(i)
    <3> DEFINE v == [w EXCEPT !.lastIndex = catalog[s].index, !.tuple = Instances(s)]
    <3>1. Watch(i, v) BY <2>1, ZenonT(30) DEF Query
    <3>2. /\ v \in WatchRecords /\ v.service = s /\ v.live = w.live
          /\ v.tuple = Instances(s)
      BY <1>1, <1>3, ZenonT(30) DEF WatchRecords
    <3> HIDE DEF v
    <3>3. Newest(v) BY <1>3, <3>2, ZenonT(30) DEF Newest
    <3> QED BY <3>1, <3>2, <3>3
  <2>2. CASE SendTuple(i)
    <3> DEFINE v == [w EXCEPT !.tuple = NoList, !.passed = w.tuple]
    <3>1. Watch(i, v) /\ w.tuple # NoList BY <2>2, ZenonT(30) DEF SendTuple
    <3>2. /\ v \in WatchRecords /\ v.service = s /\ v.live = w.live
          /\ v.tuple = NoList /\ v.passed = w.tuple /\ v.lastIndex = w.lastIndex
      BY <1>1, ZenonT(30) DEF WatchRecords
    <3> HIDE DEF v
    <3>3. Newest(w) => Newest(v) BY <3>1, <3>2, ZenonT(30) DEF Newest
    <3> QED BY <3>1, <3>2, <3>3
  <2>3. CASE Return(i)
    <3> DEFINE v == [w EXCEPT !.tuple = NoList, !.passed = NoList]
    <3>1. Watch(i, v) /\ ~w.live BY <2>3, ZenonT(30) DEF Return
    <3>2. v \in WatchRecords /\ v.service = s /\ v.live = w.live
      BY <1>1, ZenonT(30) DEF WatchRecords
    <3> HIDE DEF v
    <3>3. Newest(v) BY <3>1, <3>2, ZenonT(30) DEF Newest
    <3> QED BY <3>1, <3>2, <3>3
  <2> QED BY <2>1, <2>2, <2>3
<1>5. /\ watches' \in Seq(WatchRecords) /\ DOMAIN watches' = DOMAIN watches
      /\ watches'[i] = v /\ blocking
      /\ \A j \in DOMAIN watches : j # i => watches'[j] = watches[j]
      /\ \A j \in DOMAIN watches : /\ watches'[j].service = watches[j].service
                                   /\ watches'[j].live = watches[j].live
  BY <1>1, <1>4, OneWatch, ZenonT(30)
<1>6. MapInv'
  BY <1>1, <1>2, <1>5, SameCatalog, MapStays, ZenonT(30) DEF historyVars
<1>7. LoopInv' BY <1>1, <1>2, SameCatalog, ZenonT(30) DEF EndpointsIInv, LoopInv, loopVars
<1>8. QueryInv'
  BY <1>1, <1>2, <1>5, SameCatalog, ZenonT(30) DEF EndpointsIInv, QueryInv, historyVars
<1>9. SpecsInv'
  BY <1>1, <1>2, SameCatalog, ZenonT(30) DEF EndpointsIInv, SpecsInv, Contribution,
                                             historyVars, loopVars
<1>10. NewestInv'
  <2>1. \A x \in WatchRecords : Newest(x)' <=> Newest(x)
    BY <1>2, ZenonT(30) DEF Newest, historyVars, externalVars, Instances
  <2>2. \A j \in DOMAIN watches : Newest(watches[j]) /\ watches[j] \in WatchRecords
    BY WatchFacts, ZenonT(30) DEF EndpointsIInv, NewestInv
  <2>3. \A j \in DOMAIN watches' : Newest(watches'[j]) /\ watches'[j] \in WatchRecords
    BY <1>4, <1>5, <2>2, ZenonT(30)
  <2> QED BY <2>1, <2>3, ZenonT(30) DEF NewestInv
<1> QED BY <1>1, <1>2, <1>6, <1>7, <1>8, <1>9, <1>10, SameCatalog, ZenonT(30)
        DEF EndpointsIInv

\* The loop receives from a watch: what it has is stored in the map, if the service
\* has a watch there, and all endpoints in the map are published.
LEMMA ReceiveTupleStep ==
  ASSUME EndpointsIInv, NEW i \in DOMAIN watches, ReceiveTuple(i)
  PROVE  EndpointsIInv'
<1> DEFINE w == watches[i]
           s == w.service
           v == [w EXCEPT !.passed = NoList]
<1>1. /\ CatalogInv /\ LoopInv /\ MapInv /\ w \in WatchRecords /\ s \in Services
      /\ refresh = NoList /\ allEndpointsListChan = NoList
      /\ w.passed \in Amounts /\ w.passed # NoList
  BY WatchFacts, ZenonT(30) DEF EndpointsIInv, ReceiveTuple, Selecting
<1>2. /\ UNCHANGED <<blocking, externalVars, metaVars, refresh, received, dropped>>
      /\ Watch(i, v)
  BY ZenonT(30) DEF ReceiveTuple
<1>3. /\ v \in WatchRecords /\ v.service = s /\ v.live = w.live /\ v.tuple = w.tuple
      /\ v.passed = NoList /\ v.lastIndex = w.lastIndex
  BY <1>1 DEF WatchRecords
<1> HIDE DEF v
<1>4. /\ watches' \in Seq(WatchRecords) /\ DOMAIN watches' = DOMAIN watches
      /\ watches'[i] = v /\ blocking
      /\ \A j \in DOMAIN watches : j # i => watches'[j] = watches[j]
      /\ \A j \in DOMAIN watches : /\ watches'[j].service = watches[j].service
                                   /\ watches'[j].live = watches[j].live
  BY <1>1, <1>2, <1>3, OneWatch, ZenonT(30)
<1>5. /\ catalog' = catalog /\ \A t \in Services : Instances(t)' = Instances(t)
      /\ Amounts' = Amounts /\ WatchRecords' = WatchRecords /\ MapEntries' = MapEntries
      /\ Registered' = Registered /\ CatalogInv' /\ (Fetched' <=> Fetched)
  BY <1>1, <1>2, SameCatalog, ZenonT(30) DEF externalVars
<1>6. QueryInv'
  BY <1>1, <1>2, <1>4, SameCatalog, ZenonT(30) DEF EndpointsIInv, QueryInv
<1>7. \A j \in DOMAIN watches : /\ Newest(watches[j]) /\ watches[j].service \in Services
                                /\ j # 0
  <2>1. \A j \in 1..Len(watches) : j # 0 BY <1>1, WatchFacts
  <2> QED BY <1>1, <2>1, WatchFacts, ZenonT(30) DEF EndpointsIInv, NewestInv
<1>8. CASE dcEndpointWatches[s] = NoWatch
  <2>1. UNCHANGED <<dcEndpointWatches, loopVars, forgotten, overtaken>>
    BY <1>8, ZenonT(30) DEF ReceiveTuple
  <2>2. ~w.live
    <3>1. NoWatch.watch = 0 BY ZenonT(30) DEF NoWatch
    <3> QED BY <1>1, <1>7, <1>8, <3>1, ZenonT(30) DEF MapInv
  <2>3. LoopInv' BY <1>1, <1>2, <2>1, SameCatalog, ZenonT(30) DEF LoopInv, loopVars
  <2>4. MapInv' BY <1>1, <1>2, <1>4, <1>5, <2>1, MapStays, ZenonT(30)
  <2>5. SpecsInv'
    BY <1>2, <1>5, <2>1, ZenonT(30) DEF EndpointsIInv, SpecsInv, Contribution, loopVars
  <2>6. ASSUME NEW j \in DOMAIN watches PROVE Newest(watches[j])'
    <3>1. CASE j = i BY <1>3, <1>4, <2>2, <3>1, ZenonT(30) DEF Newest
    <3>2. CASE j # i
      <4>1. /\ Newest(watches[j]) /\ watches'[j] = watches[j] /\ catalog' = catalog
            /\ Instances(watches[j].service)' = Instances(watches[j].service)
        BY <1>4, <1>5, <1>7, <3>2, ZenonT(30)
      <4> QED BY <2>1, <4>1, ZenonT(30) DEF Newest
    <3> QED BY <3>1, <3>2
  <2>7. NewestInv' BY <1>4, <2>6, ZenonT(30) DEF NewestInv
  <2> QED BY <1>5, <1>6, <2>3, <2>4, <2>5, <2>7, ZenonT(30) DEF EndpointsIInv
<1>9. CASE dcEndpointWatches[s] # NoWatch
  <2>1. /\ dcEndpointWatches' = [dcEndpointWatches EXCEPT ![s].endpoints = w.passed]
        /\ Publish(Collected) /\ forgotten' = {}
        /\ overtaken' = IF dcEndpointWatches[s].watch = i THEN overtaken \ {s}
                        ELSE overtaken \cup {s}
    BY <1>9, ZenonT(30) DEF ReceiveTuple
  <2>2. /\ dcEndpointWatches \in [Services -> MapEntries]
        /\ overtaken \subseteq Services /\ dcEndpointWatches[s].watch # 0
    BY <1>1, <1>9, ZenonT(30) DEF MapInv
  <2>3. /\ dcEndpointWatches' \in [Services -> MapEntries]
        /\ \A t \in Services : t # s => dcEndpointWatches'[t] = dcEndpointWatches[t]
        /\ \A t \in Services : dcEndpointWatches'[t].watch = dcEndpointWatches[t].watch
        /\ dcEndpointWatches'[s].endpoints = w.passed
    BY <1>1, <2>1, <2>2 DEF MapEntries
  <2>4. /\ Collected \in [Services -> Amounts]
        /\ \A t \in Services : Collected[t] = Contribution(t)'
    <3>1. 0 \in Amounts BY <1>1, CatalogFacts, ZenonT(30)
    <3>2. \A t \in Services : dcEndpointWatches'[t].endpoints \in Amounts \cup {NoList}
      BY <2>3, ZenonT(30) DEF MapEntries
    <3> QED BY <3>1, <3>2, ZenonT(30) DEF Collected, Contribution
  <2>5. LoopInv' /\ previousSpecs' = Collected
    BY <1>1, <1>2, <2>1, <2>4, PublishStep, ZenonT(30)
  <2>6. MapInv'
    <3>1. ASSUME NEW t \in Services
          PROVE  /\ dcEndpointWatches'[t].watch = 0 => dcEndpointWatches'[t] = NoWatch
                 /\ dcEndpointWatches'[t].watch # 0 =>
                      /\ dcEndpointWatches'[t].watch \in DOMAIN watches'
                      /\ watches'[dcEndpointWatches'[t].watch].service = t
      <4>1. dcEndpointWatches'[t].watch = dcEndpointWatches[t].watch BY <2>3, ZenonT(30)
      <4>2. dcEndpointWatches[t].watch = 0 =>
              dcEndpointWatches[t] = NoWatch /\ dcEndpointWatches'[t] = dcEndpointWatches[t]
        BY <1>1, <2>2, <2>3, ZenonT(30) DEF MapInv
      <4>3. dcEndpointWatches[t].watch # 0 =>
              /\ dcEndpointWatches[t].watch \in DOMAIN watches
              /\ watches[dcEndpointWatches[t].watch].service = t
        BY <1>1, ZenonT(30) DEF MapInv
      <4> QED BY <1>4, <4>1, <4>2, <4>3, ZenonT(30)
    <3>2. ASSUME NEW j \in DOMAIN watches'
          PROVE  watches'[j].live <=> dcEndpointWatches'[watches'[j].service].watch = j
      <4>1. /\ watches'[j].service = watches[j].service /\ watches'[j].live = watches[j].live
            /\ watches[j].service \in Services /\ j \in DOMAIN watches
        BY <1>4, <1>7, ZenonT(30)
      <4>2. watches[j].live <=> dcEndpointWatches[watches[j].service].watch = j
        BY <1>1, <4>1, ZenonT(30) DEF MapInv
      <4> QED BY <2>3, <4>1, <4>2, ZenonT(30)
    <3>3. forgotten' \subseteq Services /\ overtaken' \subseteq Services /\ blocking'
      BY <1>1, <1>2, <1>4, <2>1, <2>2, ZenonT(30)
    <3> QED BY <1>4, <1>5, <2>3, <3>1, <3>2, <3>3, ZenonT(30) DEF MapInv
  <2>7. SpecsInv'
    BY <1>2, <1>5, <2>1, <2>3, <2>4, <2>5, ZenonT(30) DEF EndpointsIInv, SpecsInv
  <2>8. ASSUME NEW j \in DOMAIN watches PROVE Newest(watches[j])'
    <3>1. CASE j = i
      <4>1. PICK t \in Services : t = s BY <1>1, ZenonT(30)
      <4>2. /\ w.live /\ w.lastIndex = catalog[t].index /\ w.tuple # NoList =>
                w.tuple = Instances(t)
            /\ w.live /\ w.lastIndex = catalog[t].index /\ w.tuple = NoList =>
                w.passed = Instances(t)
        BY <1>1, <1>7, <4>1, ZenonT(30) DEF Newest
      <4>3. /\ watches'[j] = v /\ v.service = t /\ catalog' = catalog
            /\ Instances(t)' = Instances(t) /\ dcEndpointWatches'[t].endpoints = w.passed
        BY <1>3, <1>4, <1>5, <2>3, <3>1, <4>1, ZenonT(30)
      <4> HIDE DEF w, s
      <4> QED BY <1>3, <4>2, <4>3, ZenonT(30) DEF Newest
    <3>2. CASE j # i /\ watches[j].service = s
      <4>1. watches[j].live => dcEndpointWatches[s].watch = j
        BY <1>1, <3>2, ZenonT(30) DEF MapInv
      <4>2. watches[j].live => s \in overtaken' BY <2>1, <3>2, <4>1, ZenonT(30)
      <4>3. /\ Newest(watches[j]) /\ watches'[j] = watches[j] /\ catalog' = catalog
            /\ Instances(watches[j].service)' = Instances(watches[j].service)
        BY <1>4, <1>5, <1>7, <3>2, ZenonT(30)
      <4> HIDE DEF w, s
      <4> QED BY <3>2, <4>2, <4>3, ZenonT(30) DEF Newest
    <3>3. CASE j # i /\ watches[j].service # s
      <4>1. watches[j].service \in overtaken' <=> watches[j].service \in overtaken
        BY <2>1, <3>3, ZenonT(30)
      <4>2. /\ dcEndpointWatches'[watches[j].service] = dcEndpointWatches[watches[j].service]
            /\ Instances(watches[j].service)' = Instances(watches[j].service)
            /\ watches'[j] = watches[j] /\ Newest(watches[j])
        BY <1>4, <1>5, <1>7, <2>3, <3>3, ZenonT(30)
      <4> QED BY <1>5, <4>1, <4>2, ZenonT(30) DEF Newest
    <3> QED BY <3>1, <3>2, <3>3
  <2>9. NewestInv' BY <1>4, <2>8, ZenonT(30) DEF NewestInv
  <2> QED BY <1>5, <1>6, <2>5, <2>6, <2>7, <2>9, ZenonT(30) DEF EndpointsIInv
<1> QED BY <1>8, <1>9

\* A list has the new services once each.
LEMMA NewServices ==
  ASSUME serviceMetaChan \in SUBSET Services
  PROVE  /\ \E n \in Nat : New \in [1..n -> serviceMetaChan \ Known]
         /\ \A s \in serviceMetaChan \ Known : \E k \in DOMAIN New : New[k] = s
         /\ \A j, k \in DOMAIN New : New[j] = New[k] => j = k
<1> DEFINE Unwatched == serviceMetaChan \ Known
<1>1. New \in Orders(Unwatched) BY ServicesAssumption, ZenonT(30) DEF New
<1> HIDE DEF Unwatched
<1>2. PICK n \in 0..Cardinality(Unwatched) : New \in [1..n -> Unwatched]
  <2>1. New \in UNION {[1..n -> Unwatched] : n \in 0..Cardinality(Unwatched)}
    BY <1>1, ZenonT(30) DEF Orders
  <2> QED BY <2>1, ZenonT(30)
<1>3. n \in Nat OBVIOUS
<1>4. /\ \A s \in Unwatched : \E k \in DOMAIN New : New[k] = s
      /\ \A j, k \in DOMAIN New : New[j] = New[k] => j = k
  BY <1>1, ZenonT(30) DEF Orders
<1> QED BY <1>2, <1>3, <1>4, ZenonT(30) DEF Unwatched

\* The loop has another list of services: watches are made and cancelled.
LEMMA UpdateWatchesStep == ASSUME EndpointsIInv, UpdateWatches PROVE EndpointsIInv'
<1> DEFINE Unwatched == serviceMetaChan \ Known
           n == Len(watches)
           place(s) == CHOOSE k \in DOMAIN New : New[k] = s
           Kept(i) == [watches[i] EXCEPT !.live = @ /\ watches[i].service \notin Gone]
<1>1. /\ CatalogInv /\ LoopInv /\ MapInv /\ blocking /\ serviceMetaChan \in SUBSET Services
      /\ serviceMetaChan # NoList /\ refresh = NoList /\ allEndpointsListChan = NoList
      /\ forgotten \subseteq Services /\ overtaken \subseteq Services
      /\ dcEndpointWatches \in [Services -> MapEntries]
  BY ZenonT(30) DEF EndpointsIInv, UpdateWatches, Selecting, CatalogInv, MapInv
<1>2. /\ UNCHANGED <<blocking, externalVars, watchedIndex, refresh, loopVars, received,
                     overtaken, dropped>>
      /\ serviceMetaChan' = NoList /\ forgotten' = forgotten \cup Gone
      /\ watches' = [i \in DOMAIN watches |-> Kept(i)] \o [k \in DOMAIN New |-> NewWatch(New[k])]
      /\ dcEndpointWatches' = UpdatedMap
  BY ZenonT(30) DEF UpdateWatches
<1>3. PICK m \in Nat : New \in [1..m -> Unwatched] BY <1>1, NewServices, ZenonT(30)
<1>4. /\ \A s \in Unwatched : place(s) \in 1..m /\ New[place(s)] = s
      /\ \A k \in 1..m : place(New[k]) = k
  <2>1. \A s \in Unwatched : place(s) \in DOMAIN New /\ New[place(s)] = s
    BY <1>1, NewServices, ZenonT(30)
  <2>2. \A j, k \in DOMAIN New : New[j] = New[k] => j = k BY <1>1, NewServices, ZenonT(30)
  <2> QED BY <1>3, <2>1, <2>2, ZenonT(30)
<1>5. dcEndpointWatches' =
        [s \in Services |->
           IF s \in Gone THEN NoWatch
           ELSE IF s \in Unwatched THEN [watch |-> n + place(s), endpoints |-> NoList]
           ELSE dcEndpointWatches[s]]
  <2>1. \A s \in Services : s \in Unwatched <=> \E k \in DOMAIN New : New[k] = s
    <3> HIDE DEF Unwatched
    <3>1. \A s \in Unwatched : \E k \in DOMAIN New : New[k] = s BY <1>3, <1>4, ZenonT(30)
    <3>2. \A k \in DOMAIN New : New[k] \in Unwatched BY <1>3, ZenonT(30)
    <3> QED BY <3>1, <3>2, ZenonT(30)
  <2> HIDE DEF Unwatched
  <2> QED BY <1>2, <2>1, ZenonT(30) DEF UpdatedMap
<1> HIDE DEF place
<1>6. /\ n \in Nat /\ DOMAIN watches = 1..n /\ NoList \notin Amounts /\ 0 \in Amounts
      /\ \A i \in 1..n : watches[i] \in WatchRecords /\ watches[i].service \in Services
  BY <1>1, WatchFacts, CatalogFacts, ZenonT(30)
<1>7. /\ \A i \in 1..n :
           /\ Kept(i) \in WatchRecords /\ Kept(i).service = watches[i].service
           /\ Kept(i).live <=> watches[i].live /\ watches[i].service \notin Gone
           /\ Kept(i).lastIndex = watches[i].lastIndex /\ Kept(i).tuple = watches[i].tuple
           /\ Kept(i).passed = watches[i].passed
      /\ \A s \in Services : NewWatch(s) \in WatchRecords
  BY <1>6, ZenonT(30) DEF WatchRecords, NewWatch
<1> HIDE DEF Kept
<1>8. /\ watches' \in Seq(WatchRecords) /\ DOMAIN watches' = 1..(n + m)
      /\ \A i \in 1..n : i \in 1..(n + m) /\ watches'[i] = Kept(i)
      /\ \A k \in 1..m : n + k \in 1..(n + m) /\ watches'[n + k] = NewWatch(New[k])
  <2> DEFINE old == [i \in DOMAIN watches |-> Kept(i)]
             fresh == [k \in DOMAIN New |-> NewWatch(New[k])]
  <2>1. old \in [1..n -> WatchRecords] /\ \A i \in 1..n : old[i] = Kept(i)
    BY <1>6, <1>7, ZenonT(30)
  <2>2. fresh \in [1..m -> WatchRecords] /\ \A k \in 1..m : fresh[k] = NewWatch(New[k])
    <3>1. \A k \in 1..m : New[k] \in Services BY <1>1, <1>3, ZenonT(30)
    <3> QED BY <1>3, <1>7, <3>1, ZenonT(30)
  <2>3. watches' = old \o fresh BY <1>2, ZenonT(30)
  <2> HIDE DEF old, fresh, n
  <2>4. n \in Nat /\ m \in Nat BY <1>3, <1>6, ZenonT(30)
  <2>5. old \in [1..n -> WatchRecords] /\ fresh \in [1..m -> WatchRecords]
    BY <2>1, <2>2, ZenonT(30)
  <2>6. /\ old \o fresh \in Seq(WatchRecords) /\ DOMAIN (old \o fresh) = 1..(n + m)
        /\ \A i \in 1..n : i \in 1..(n + m) /\ (old \o fresh)[i] = old[i]
        /\ \A k \in 1..m : n + k \in 1..(n + m) /\ (old \o fresh)[n + k] = fresh[k]
    BY <2>4, <2>5, Appended
  <2> QED BY <2>1, <2>2, <2>3, <2>6, ZenonT(30)
<1>9. \A i \in DOMAIN watches' : i \in 1..n \/ \E k \in 1..m : i = n + k
  <2>1. \A i \in 1..(n + m) : i \in 1..n \/ (i - n \in 1..m /\ i = n + (i - n)) BY <1>3, <1>6
  <2> QED BY <1>8, <2>1, ZenonT(30)
<1>10. ASSUME NEW s \in Services
       PROVE  /\ dcEndpointWatches'[s] \in MapEntries
              /\ s \in Gone => dcEndpointWatches'[s] = NoWatch
              /\ s \in Unwatched => /\ dcEndpointWatches'[s].watch = n + place(s)
                            /\ dcEndpointWatches'[s].watch \notin 0..n
                            /\ dcEndpointWatches'[s].endpoints = NoList
              /\ s \notin Gone \cup Unwatched => dcEndpointWatches'[s] = dcEndpointWatches[s]
              /\ s \in Unwatched => dcEndpointWatches[s] = NoWatch
              /\ s \in Known <=> dcEndpointWatches[s].watch # 0
  <2>1. NoWatch.watch = 0 /\ NoWatch \in MapEntries BY ZenonT(30) DEF NoWatch, MapEntries
  <2>2. s \in Known <=> dcEndpointWatches[s].watch # 0
    BY <1>1, <2>1, ZenonT(30) DEF MapInv, Known
  <2>3. s \in Unwatched => n + place(s) \in Nat /\ n + place(s) \notin 0..n
    BY <1>3, <1>4, <1>6
  <2> HIDE DEF n
  <2>4. s \in Unwatched => /\ dcEndpointWatches'[s] = [watch |-> n + place(s), endpoints |-> NoList]
                   /\ s \notin Gone /\ dcEndpointWatches[s] = NoWatch
    BY <1>5, ZenonT(30) DEF Gone, Known
  <2>5. /\ s \in Gone => dcEndpointWatches'[s] = NoWatch
        /\ s \notin Gone \cup Unwatched => dcEndpointWatches'[s] = dcEndpointWatches[s]
    BY <1>5, ZenonT(30)
  <2> HIDE DEF Unwatched
  <2>6. s \in Unwatched => /\ dcEndpointWatches'[s].watch = n + place(s)
                   /\ dcEndpointWatches'[s].endpoints = NoList
                   /\ dcEndpointWatches'[s] \in MapEntries
    BY <2>3, <2>4 DEF MapEntries
  <2>7. dcEndpointWatches'[s] \in MapEntries BY <1>1, <2>1, <2>5, <2>6, ZenonT(30)
  <2> QED BY <2>2, <2>3, <2>4, <2>5, <2>6, <2>7, ZenonT(30)
<1>11. \A s \in Services : /\ s \in Gone => s \notin serviceMetaChan
                           /\ s \notin Gone => (s \in Known \cup Unwatched <=> s \in serviceMetaChan)
                           /\ s \in Gone => s \notin Unwatched /\ s \in Known
                           /\ s \in Unwatched => s \notin Known
  BY ZenonT(30) DEF Gone
<1>12. /\ Amounts' = Amounts /\ WatchRecords' = WatchRecords /\ MapEntries' = MapEntries
       /\ Registered' = Registered /\ LastChange' = LastChange /\ catalog' = catalog
       /\ \A s \in Services : Instances(s)' = Instances(s)
  BY <1>1, <1>2, SameCatalog, ZenonT(30) DEF externalVars
<1>13. \A k \in 1..m : /\ watches'[n + k].service = New[k] /\ watches'[n + k].live
                       /\ watches'[n + k].lastIndex = 0 /\ New[k] \in Services
  <2>1. \A k \in 1..m : New[k] \in Services BY <1>1, <1>3, ZenonT(30)
  <2>2. \A s \in Services : /\ NewWatch(s).service = s /\ NewWatch(s).live
                            /\ NewWatch(s).lastIndex = 0
    BY ZenonT(30) DEF NewWatch
  <2> HIDE DEF n
  <2>3. ASSUME NEW k \in 1..m
        PROVE  /\ watches'[n + k].service = New[k] /\ watches'[n + k].live
               /\ watches'[n + k].lastIndex = 0
    <3>1. watches'[n + k] = NewWatch(New[k]) BY <1>8, ZenonT(30)
    <3>2. New[k] \in Services BY <2>1, ZenonT(30)
    <3> QED BY <2>2, <3>1, <3>2, ZenonT(30)
  <2> QED BY <2>1, <2>3, ZenonT(30)
<1> HIDE DEF Unwatched, n
<1>14. ASSUME NEW i \in 1..n, watches'[i].live
       PROVE  watches[i].live /\ watches[i].service \notin Gone \cup Unwatched
  <2>1. watches[i].live /\ watches[i].service \notin Gone /\ watches[i].service \in Services
    BY <1>6, <1>7, <1>8, <1>14, ZenonT(30)
  <2>2. dcEndpointWatches[watches[i].service].watch = i
    BY <1>1, <1>6, <2>1, ZenonT(30) DEF MapInv
  <2>3. i # 0 BY <1>6
  <2> QED BY <1>10, <1>11, <2>1, <2>2, <2>3, ZenonT(30)
<1>15. MapInv'
  <2>1. ASSUME NEW s \in Services
        PROVE  /\ dcEndpointWatches'[s].watch = 0 => dcEndpointWatches'[s] = NoWatch
               /\ dcEndpointWatches'[s].watch # 0 =>
                    /\ dcEndpointWatches'[s].watch \in DOMAIN watches'
                    /\ watches'[dcEndpointWatches'[s].watch].service = s
    <3>1. CASE s \in Gone
      <4>1. NoWatch.watch = 0 BY ZenonT(30) DEF NoWatch
      <4> QED BY <1>10, <3>1, <4>1, ZenonT(30)
    <3>2. CASE s \in Unwatched
      <4>1. 0 \in 0..n BY <1>6
      <4>2. place(s) \in 1..m /\ New[place(s)] = s BY <1>4, <3>2, ZenonT(30)
      <4>3. n + place(s) \in DOMAIN watches' /\ watches'[n + place(s)].service = s
        BY <1>8, <1>13, <4>2, ZenonT(30)
      <4> QED BY <1>10, <3>2, <4>1, <4>3, ZenonT(30)
    <3>3. CASE s \notin Gone \cup Unwatched
      <4>1. dcEndpointWatches[s].watch = 0 => dcEndpointWatches[s] = NoWatch
        BY <1>1, ZenonT(30) DEF MapInv
      <4>2. dcEndpointWatches[s].watch # 0 =>
              /\ dcEndpointWatches[s].watch \in 1..n
              /\ watches[dcEndpointWatches[s].watch].service = s
        BY <1>1, <1>6, ZenonT(30) DEF MapInv
      <4>3. \A i \in 1..n : i \in DOMAIN watches' /\ watches'[i].service = watches[i].service
        BY <1>7, <1>8, ZenonT(30)
      <4>4. dcEndpointWatches'[s] = dcEndpointWatches[s] BY <1>10, <3>3, ZenonT(30)
      <4> QED BY <4>1, <4>2, <4>3, <4>4, ZenonT(30)
    <3> QED BY <3>1, <3>2, <3>3, ZenonT(30)
  <2>2. ASSUME NEW i \in 1..n
        PROVE  watches'[i].live <=> dcEndpointWatches'[watches'[i].service].watch = i
    <3> DEFINE s == watches[i].service
    <3>1. /\ watches'[i].service = s /\ s \in Services
          /\ watches'[i].live <=> watches[i].live /\ s \notin Gone
      BY <1>6, <1>7, <1>8, ZenonT(30)
    <3>2. watches[i].live <=> dcEndpointWatches[s].watch = i
      BY <1>1, <1>6, ZenonT(30) DEF MapInv
    <3>3. i # 0 /\ i \in 0..n BY <1>6
    <3>4. NoWatch.watch = 0 BY ZenonT(30) DEF NoWatch
    <3> HIDE DEF s
    <3>5. CASE s \in Gone BY <1>10, <3>1, <3>3, <3>4, <3>5, ZenonT(30)
    <3>6. CASE s \in Unwatched
      <4>1. ~watches[i].live BY <1>10, <3>1, <3>2, <3>3, <3>4, <3>6, ZenonT(30)
      <4> QED BY <1>10, <3>1, <3>3, <3>6, <4>1, ZenonT(30)
    <3>7. CASE s \notin Gone \cup Unwatched BY <1>10, <3>1, <3>2, <3>7, ZenonT(30)
    <3> QED BY <3>5, <3>6, <3>7, ZenonT(30)
  <2>3. ASSUME NEW k \in 1..m
        PROVE  watches'[n + k].live
               <=> dcEndpointWatches'[watches'[n + k].service].watch = n + k
    <3>1. New[k] \in Unwatched /\ New[k] \in Services /\ place(New[k]) = k
      BY <1>3, <1>4, <1>13, ZenonT(30)
    <3>2. dcEndpointWatches'[New[k]].watch = n + k BY <1>10, <3>1, ZenonT(30)
    <3> QED BY <1>13, <3>2, ZenonT(30)
  <2>4. \A i \in DOMAIN watches' :
          watches'[i].live <=> dcEndpointWatches'[watches'[i].service].watch = i
    <3> SUFFICES ASSUME NEW i \in DOMAIN watches'
                 PROVE  watches'[i].live <=> dcEndpointWatches'[watches'[i].service].watch = i
      OBVIOUS
    <3>1. CASE i \in 1..n BY <2>2, <3>1, ZenonT(30)
    <3>2. ASSUME NEW k \in 1..m, i = n + k
          PROVE  watches'[i].live <=> dcEndpointWatches'[watches'[i].service].watch = i
      BY <2>3, <3>2, ZenonT(30)
    <3> QED BY <1>9, <3>1, <3>2, ZenonT(30)
  <2>5. dcEndpointWatches' \in [Services -> MapEntries] BY <1>5, <1>10, ZenonT(30)
  <2>6. forgotten' \subseteq Services /\ overtaken' \subseteq Services /\ blocking'
    BY <1>1, <1>2, ZenonT(30) DEF Gone, Known
  <2> QED BY <1>8, <1>12, <2>1, <2>4, <2>5, <2>6, ZenonT(30) DEF MapInv
<1>16. SpecsInv'
  <2>1. Fetched' => serviceMetaChan = Registered
    BY <1>1, <1>2, <1>12, ZenonT(30) DEF CatalogInv, Fetched
  <2>2. NoWatch.watch = 0 /\ NoWatch.endpoints = NoList BY ZenonT(30) DEF NoWatch
  <2>3. ASSUME NEW s \in Services
        PROVE  dcEndpointWatches'[s].watch # 0 <=> s \in serviceMetaChan
    <3>1. 0 \in 0..n BY <1>6
    <3> QED BY <1>10, <1>11, <2>2, <3>1, ZenonT(30)
  <2>4. ASSUME NEW s \in Services, s \in forgotten'
        PROVE  dcEndpointWatches'[s].endpoints = NoList
    BY <1>2, <1>10, <2>2, <2>4, ZenonT(30) DEF EndpointsIInv, SpecsInv
  <2>5. ASSUME NEW s \in Services, s \notin forgotten'
        PROVE  previousSpecs[s] = Contribution(s)'
    <3>1. previousSpecs[s] = Contribution(s) /\ s \notin Gone
      BY <1>1, <1>2, <2>5, ZenonT(30) DEF EndpointsIInv, SpecsInv
    <3> QED BY <1>10, <2>2, <3>1, ZenonT(30) DEF Contribution
  <2>6. UNCHANGED <<previousSpecs, blocking>> BY <1>2, ZenonT(30) DEF loopVars
  <2> QED BY <1>12, <2>1, <2>3, <2>4, <2>5, <2>6, ZenonT(30) DEF SpecsInv
<1>17. NewestInv'
  <2>1. ASSUME NEW i \in 1..n PROVE Newest(watches[i])'
    <3> DEFINE s == watches[i].service
    <3>1. /\ watches'[i].service = s /\ watches'[i].lastIndex = watches[i].lastIndex
          /\ watches'[i].tuple = watches[i].tuple /\ watches'[i].passed = watches[i].passed
          /\ Newest(watches[i]) /\ s \in Services /\ overtaken' = overtaken
      BY <1>2, <1>6, <1>7, <1>8, ZenonT(30) DEF EndpointsIInv, NewestInv
    <3>2. watches'[i].live => watches[i].live /\ dcEndpointWatches'[s] = dcEndpointWatches[s]
      BY <1>10, <1>14, <3>1, ZenonT(30)
    <3> QED BY <1>12, <3>1, <3>2, ZenonT(30) DEF Newest
  <2>2. ASSUME NEW i, NEW k \in 1..m, i = n + k PROVE Newest(watches[i])'
    <3>1. catalog[New[k]].index \in 1..Index BY <1>1, <1>13, ZenonT(30) DEF CatalogInv
    <3>2. catalog[New[k]].index # 0 BY <3>1
    <3> QED BY <1>12, <1>13, <2>2, <3>2, ZenonT(30) DEF Newest
  <2> QED BY <1>9, <2>1, <2>2, ZenonT(30) DEF NewestInv
<1>18. CatalogInv'
  BY <1>1, <1>2, <1>12, ZenonT(30) DEF CatalogInv, externalVars, Index
<1>19. LoopInv' /\ QueryInv'
  BY <1>1, <1>2, SameCatalog, ZenonT(30) DEF EndpointsIInv, LoopInv, QueryInv, loopVars
<1> QED BY <1>15, <1>16, <1>17, <1>18, <1>19, ZenonT(30) DEF EndpointsIInv

\* Every step preserves the inductive invariant.
LEMMA EndpointsNextInv ==
  EndpointsIInv /\ [EndpointsNext]_endpointsVars => EndpointsIInv'
<1> SUFFICES ASSUME EndpointsIInv, [EndpointsNext]_endpointsVars PROVE EndpointsIInv'
  OBVIOUS
<1>1. CASE Work
  <2>1. ASSUME NEW i \in DOMAIN watches,
               Query(i) \/ SendTuple(i) \/ ReceiveTuple(i) \/ Return(i)
        PROVE  EndpointsIInv'
    BY <2>1, WatchStep, ReceiveTupleStep, ZenonT(30)
  <2> QED BY <1>1, <2>1, SendServicesStep, ReadStep, PollStep, RefreshStep, RefreshedStep,
             UpdateWatchesStep, QuerySpecsStep, ZenonT(30) DEF Work
<1>2. CASE \/ \E s \in HostNamed : ChangeDns(s)
           \/ \E s \in Services, up \in BOOLEAN : ChangeService(s, up)
  BY <1>2, ConsulStep, ZenonT(30)
<1>3. CASE UNCHANGED endpointsVars
  <2>1. /\ CatalogInv
        /\ UNCHANGED <<blocking, externalVars, metaVars, watches, dcEndpointWatches, refresh,
                       loopVars, received, historyVars>>
    BY <1>3, ZenonT(30) DEF EndpointsIInv, endpointsVars
  <2>2. CatalogInv' BY <2>1, SameCatalog, ZenonT(30)
  <2>3. LoopInv' BY <2>1, SameCatalog, ZenonT(30) DEF EndpointsIInv, LoopInv, loopVars
  <2>4. QueryInv'
    BY <2>1, SameCatalog, ZenonT(30) DEF EndpointsIInv, QueryInv, metaVars, loopVars,
                                         historyVars
  <2>5. SpecsInv'
    BY <2>1, SameCatalog, ZenonT(30) DEF EndpointsIInv, SpecsInv, Contribution, loopVars,
                                         historyVars
  <2>6. MapInv' /\ NewestInv' BY <2>1, WatchesStay, ZenonT(30) DEF EndpointsIInv, historyVars
  <2> QED BY <2>2, <2>3, <2>4, <2>5, <2>6, ZenonT(30) DEF EndpointsIInv
<1> QED BY <1>1, <1>2, <1>3, QuerySpecsStep, ZenonT(30) DEF EndpointsNext

\* The inductive invariant holds throughout.
LEMMA EndpointsInductive == EndpointsSpec => []EndpointsIInv
BY EndpointsInitInv, EndpointsNextInv, PTL DEF EndpointsSpec

\* Type correctness of WatchEndpoints: a service has one watch that is not cancelled,
\* the one in dcEndpointWatches, or none.
THEOREM EndpointsTypes == EndpointsSpec => []EndpointsTypeOK
<1>1. EndpointsIInv => EndpointsTypeOK
  <2> SUFFICES ASSUME EndpointsIInv PROVE EndpointsTypeOK OBVIOUS
  <2>1. Amounts \subseteq 0..(MaxConsulChanges + 1) /\ Amounts = 0..Index
    BY EndpointsBoundsAssumption DEF EndpointsIInv, CatalogInv, Amounts, Index
  <2>2. SentLists \subseteq EndpointLists BY <2>1 DEF SentLists, EndpointLists
  <2>3. \A s \in Services : dcEndpointWatches[s].watch \in 0..Len(watches)
    <3>1. \A i \in DOMAIN watches : i \in 0..Len(watches) /\ 0 \in 0..Len(watches)
      BY WatchFacts DEF EndpointsIInv
    <3>2. 0 \in 0..Len(watches) BY WatchFacts DEF EndpointsIInv
    <3> QED BY <3>1, <3>2, ZenonT(30) DEF EndpointsIInv, MapInv
  <2>4. /\ previousSpecs \in [Services -> 0..Index] /\ received \in SentLists \cup {NoList}
        /\ previousHash \in SentLists \cup {NoList}
        /\ allEndpointsListChan \in SentLists \cup {NoList}
    BY <2>1, ZenonT(30) DEF EndpointsIInv, LoopInv
  <2>5. serviceMetaChan \in (SUBSET Services) \cup {NoList} /\ watchedIndex \in 0..Index
    BY <2>1, ZenonT(30) DEF EndpointsIInv, CatalogInv
  <2>6. \A i \in DOMAIN watches :
          watches[i].live <=> dcEndpointWatches[watches[i].service].watch = i
    BY ZenonT(30) DEF EndpointsIInv, MapInv
  <2>7. forgotten \cup overtaken \cup dropped \cup unresolved \subseteq Services
    BY ZenonT(30) DEF EndpointsIInv, MapInv, QueryInv, LoopInv
  <2> QED BY <2>2, <2>3, <2>4, <2>5, <2>6, <2>7, ZenonT(30) DEF EndpointsTypeOK
<1> QED BY <1>1, EndpointsInductive, PTL

\* When nothing is on its way, the reader has the newest instances of every service
\* but the ones that the code excuses and those that did not resolve when the
\* endpoints were built last; without blocking queries it has a list.
THEOREM ConsulSettled == EndpointsSpec => []EndpointsSettled
<1>1. EndpointsIInv => EndpointsSettled
  <2> SUFFICES ASSUME EndpointsIInv, Quiet
               PROVE  /\ \A s \in Services \ (Excused \cup unresolved) : Current(s)
                      /\ blocking \/ received # NoList
    BY ZenonT(30) DEF EndpointsSettled
  <2>1. /\ CatalogInv /\ Fetched /\ refresh = NoList /\ allEndpointsListChan = NoList
        /\ received = previousHash
    BY ZenonT(30) DEF EndpointsIInv, LoopInv, Quiet, Selecting, Fetched
  <2>2. /\ NoList \notin Amounts /\ watchedIndex # 0
        /\ \A s \in Services : Instances(s) \in Amounts
    <3>1. LastChange # 0 BY <2>1, CatalogFacts
    <3> QED BY <2>1, <3>1, CatalogFacts, ZenonT(30) DEF Fetched
  <2>3. \A s \in Services \ unresolved : Current(s) <=> Instances(s) = previousSpecs[s]
    BY <2>1, ZenonT(30) DEF EndpointsIInv, LoopInv, Current, NoEndpoints
  <2>4. CASE ~blocking
    BY <2>1, <2>2, <2>3, <2>4, ZenonT(30) DEF EndpointsIInv, QueryInv, Fetched, Excused
  <2>5. CASE blocking
    <3> SUFFICES ASSUME NEW s \in Services \ (Excused \cup unresolved)
                 PROVE  previousSpecs[s] = Instances(s)
      BY <2>3, <2>5, ZenonT(30)
    <3>1. /\ s \notin overtaken /\ (s \notin forgotten \/ s \in Registered)
          /\ dcEndpointWatches[s].watch # 0 <=> s \in Registered
          /\ s \in forgotten => dcEndpointWatches[s].endpoints = NoList
          /\ s \notin forgotten => previousSpecs[s] = Contribution(s)
      BY <2>1, <2>5, ZenonT(30) DEF EndpointsIInv, SpecsInv, Excused
    <3>2. CASE s \in Registered
      <4> DEFINE i == dcEndpointWatches[s].watch
      <4>1. i \in DOMAIN watches /\ watches[i].service = s /\ watches[i].live
        BY <3>1, <3>2, ZenonT(30) DEF EndpointsIInv, MapInv
      <4>2. /\ watches[i].tuple = NoList /\ watches[i].passed = NoList
            /\ watches[i].lastIndex = catalog[s].index /\ Newest(watches[i])
        BY <4>1, ZenonT(30) DEF Quiet, EndpointsIInv, NewestInv
      <4>3. dcEndpointWatches[s].endpoints = Instances(s)
        BY <3>1, <4>1, <4>2, ZenonT(30) DEF Newest
      <4> QED BY <2>2, <3>1, <4>3, ZenonT(30) DEF Contribution
    <3>3. CASE s \notin Registered
      <4>1. dcEndpointWatches[s] = NoWatch
        BY <3>1, <3>3, ZenonT(30) DEF EndpointsIInv, MapInv
      <4>2. Instances(s) = 0 BY <3>3, ZenonT(30) DEF Registered, Instances
      <4>3. NoWatch.endpoints = NoList BY ZenonT(30) DEF NoWatch
      <4> QED BY <3>1, <3>3, <4>1, <4>2, <4>3, ZenonT(30) DEF Contribution
    <3> QED BY <3>2, <3>3
  <2> QED BY <2>4, <2>5, ZenonT(30)
<1> QED BY <1>1, EndpointsInductive, PTL
=============================================================================
