------------------------ MODULE StatusSyncerFactory ------------------------
(***************************************************************************)
(* The factory shared by the proxy syncer, which queues the proxies of     *)
(* every resync, and the Gloo translation loop, which hands back reports   *)
(* (projects/gateway2/status/status_syncer.go).  Both entry points hold    *)
(* the factory's lock, so each is one step.                                *)
(*                                                                         *)
(* A proxy is named by the Gateway it was translated from.  Go maps keep   *)
(* their meaning: resyncsPerProxy reads 0 for a missing key, and a key of  *)
(* resyncsPerIteration outside its DOMAIN is a nil list.                   *)
(***************************************************************************)
EXTENDS Naturals

CONSTANT Gateways

VARIABLES registryPerSync,       \* syncs whose plugin registry is kept
          resyncsPerProxy,       \* newest queued sync of a proxy, 0 if none
          resyncsPerIteration,   \* sync -> proxies still to be reported
          applied                \* sync whose plugins last ran for a proxy

factoryVars == <<registryPerSync, resyncsPerProxy, resyncsPerIteration, applied>>

FactoryTypeOK ==
  /\ registryPerSync \in SUBSET (Nat \ {0})
  /\ resyncsPerProxy \in [Gateways -> Nat]
  /\ DOMAIN resyncsPerIteration \in SUBSET (Nat \ {0})
  /\ resyncsPerIteration \in [DOMAIN resyncsPerIteration -> SUBSET Gateways]
  /\ applied \in [Gateways -> Nat]

FactoryInit ==
  /\ registryPerSync = {}
  /\ resyncsPerProxy = [g \in Gateways |-> 0]
  /\ resyncsPerIteration = [n \in {} |-> {}]
  /\ applied = [g \in Gateways |-> 0]

\* Mutant: queueing a resync drops the registries of those before it.
QueueStatusDropsOld(proxies, n) ==
  /\ resyncsPerProxy' =
       [g \in Gateways |-> IF g \in proxies THEN n ELSE resyncsPerProxy[g]]
  /\ resyncsPerIteration' =
       IF proxies = {} THEN resyncsPerIteration
       ELSE [m \in DOMAIN resyncsPerIteration \cup {n} |->
               IF m = n THEN proxies ELSE resyncsPerIteration[m]]
  /\ registryPerSync' = {n}
  /\ UNCHANGED applied

\* Queue the set of proxies of resync n.  An empty list adds no key.
QueueStatusForProxies(proxies, n) ==
  /\ resyncsPerProxy' =
       [g \in Gateways |-> IF g \in proxies THEN n ELSE resyncsPerProxy[g]]
  /\ resyncsPerIteration' =
       IF proxies = {} THEN resyncsPerIteration
       ELSE [m \in DOMAIN resyncsPerIteration \cup {n} |->
               IF m = n THEN proxies ELSE resyncsPerIteration[m]]
  /\ registryPerSync' = registryPerSync \cup {n}
  /\ UNCHANGED applied

\* Mutant: reports of superseded syncs are not skipped.
ToReportSuperseded(rep) ==
  {g \in Gateways : rep[g] # 0 /\ rep[g] \in DOMAIN resyncsPerIteration}

\* Mutant: the comparison of the sync counts is off by one.
ToReportStrict(rep) ==
  {g \in Gateways : /\ rep[g] # 0
                    /\ resyncsPerProxy[g] < rep[g]
                    /\ rep[g] \in DOMAIN resyncsPerIteration}

\* The reported proxies (rep[g] is the sync id in their annotation, 0 when
\* there is no such proxy) that are not superseded and whose sync is known.
ToReport(rep) ==
  {g \in Gateways : /\ rep[g] # 0
                    /\ resyncsPerProxy[g] <= rep[g]
                    /\ rep[g] \in DOMAIN resyncsPerIteration}

\* Take each reported proxy off its queues, run the status plugins of the
\* registry that produced it, and drop the registries of these syncs when
\* no iteration is left in the map.
HandleProxyReports(rep) ==
  LET done == ToReport(rep) IN
  /\ resyncsPerIteration' =
       [n \in DOMAIN resyncsPerIteration |->
          resyncsPerIteration[n] \ {g \in done : rep[g] = n}]
  /\ resyncsPerProxy' =
       [g \in Gateways |-> IF g \in done THEN 0 ELSE resyncsPerProxy[g]]
  /\ applied' =
       [g \in Gateways |-> IF g \in done /\ rep[g] \in registryPerSync
                           THEN rep[g] ELSE applied[g]]
  /\ registryPerSync' =
       IF DOMAIN resyncsPerIteration = {}
       THEN registryPerSync \ {rep[g] : g \in done}
       ELSE registryPerSync
=============================================================================
