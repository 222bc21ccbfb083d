------------------------------ MODULE EnvoySync ------------------------------
(***************************************************************************)
(* syncEnvoy (projects/gloo/pkg/syncer/envoy_translator_syncer.go): for    *)
(* every proxy of the API snapshot, translate, sanitize, make consistent   *)
(* and store in the xDS cache what Envoy nodes are served; nodes whose     *)
(* proxy is gone get the empty snapshot.                                   *)
(*                                                                         *)
(* Translation is abstract: any snapshot with the shape generateXDSSnapshot*)
(* gives it.  Cluster u stands for upstream u; it references the endpoints *)
(* <<u>> if u is in Eds.  Listener l references the routes <<l>>, which    *)
(* route to one upstream.                                                  *)
(***************************************************************************)
EXTENDS XdsSnapshot

CONSTANTS Proxies,      \* proxies, each the cache key of its Envoy nodes
          Upstreams, Eds,
          Listeners,    \* Listeners[k]: the listeners of proxy k
          Fallback,     \* name of the fallback cluster and listener
          NoSnapshot,   \* no entry in the cache
          MaxEnvoySyncs, MaxListErrors

AllListeners == UNION {Listeners[k] : k \in Proxies}

ASSUME EdsAssumption ==
  /\ Eds \subseteq Upstreams /\ Fallback \notin Upstreams \cup AllListeners
  /\ \A u \in Upstreams : NoRef # <<u>>
ASSUME EnvoyBoundsAssumption ==
  MaxEnvoySyncs \in Nat /\ MaxListErrors \in Nat

VARIABLES
  replaceInvalidRoutes, disableProxyGC,  \* settings the process started with
  stored,     \* proxies in the proxy client
  statusKeys, \* nodes that the cache knows of: they have asked once
  cache,      \* snapshots in the cache
  snapProxies, todo,  \* proxies of this sync, and those not translated yet
  known,      \* history: the nodes known when the last sync began
  healthy,    \* history: what had no error in the translations of this sync
  syncs, listErrors

settings == <<replaceInvalidRoutes, disableProxyGC>>
envoyVars == <<settings, stored, statusKeys, cache, known, healthy, snapProxies, todo, syncs,
               listErrors>>

NoItems == [n \in {} |-> n]
EmptySnapshot ==
  [clusters |-> NoItems, listeners |-> NoItems, endpoints |-> NoItems, routes |-> NoItems]

ServiceName(u) == IF u \in Eds THEN <<u>> ELSE NoRef

\* What Translate may return.  An EDS cluster has its endpoints, endpoints may
\* have no cluster.  A listener without filter chains is left out and its
\* routes are not; routes without virtual hosts are left out and their listener
\* is not.
Translation(C, E, L, dest) ==
  [clusters |-> [u \in C |-> ServiceName(u)],
   endpoints |-> [n \in {<<u>> : u \in (C \cap Eds) \cup E} |-> [name |-> n]],
   listeners |-> [l \in L |-> {<<l>>}],
   routes |-> [n \in {<<l>> : l \in DOMAIN dest} |-> [name |-> n, dest |-> {dest[n[1]]}]]]

Translations(k) ==
  {Translation(C, E, L, dest) :
     C \in SUBSET Upstreams, E \in SUBSET Eds, L \in SUBSET Listeners[k],
     dest \in UNION {[R -> Upstreams] : R \in SUBSET Listeners[k]}}

Without(items, keys) == [n \in DOMAIN items \ keys |-> items[n]]
With(items, n, item) == [k \in DOMAIN items \cup {n} |-> IF k = n THEN item ELSE items[k]]

\* The clusters of a translation without error, and the routes without error to such
\* clusters that a listener references.
Healthy(s, errored, erroredRoutes) ==
  LET up == DOMAIN s.clusters \ errored
  IN  [clusters |-> up,
       routes |-> {s.routes[n] : n \in {m \in (DOMAIN s.routes \cap RouteRefs(s)) \ erroredRoutes :
                                         s.routes[m].dest \subseteq up}}]
NoneHealthy == [k \in Proxies |-> [clusters |-> {}, routes |-> {}]]

EnvoyTypeOK ==
  /\ {stored, statusKeys, known, snapProxies, todo} \subseteq SUBSET Proxies
  /\ todo \subseteq snapProxies
  /\ \A k \in Proxies :
       cache[k] # NoSnapshot =>
         /\ DOMAIN cache[k].clusters \subseteq Upstreams \cup {Fallback}
         /\ DOMAIN cache[k].listeners \subseteq AllListeners \cup {Fallback}
         /\ Fallback \in DOMAIN cache[k].clusters <=> Fallback \in DOMAIN cache[k].listeners
  /\ {replaceInvalidRoutes, disableProxyGC} \subseteq BOOLEAN
  /\ syncs \in 0..MaxEnvoySyncs /\ listErrors \in 0..MaxListErrors

EnvoyInit ==
  /\ replaceInvalidRoutes \in BOOLEAN /\ disableProxyGC \in BOOLEAN
  /\ stored = {} /\ statusKeys = {} /\ cache = [k \in Proxies |-> NoSnapshot]
  /\ known = {} /\ healthy = NoneHealthy
  /\ snapProxies = {} /\ todo = {} /\ syncs = 0 /\ listErrors = 0

-----------------------------------------------------------------------------
(* Sanitizers.  Maps are shared between the snapshots they pass on.        *)

\* Mutant: the endpoints of all clusters go with those of the errored ones.
RemoveAllEndpoints(s, errored) ==
  LET gone == errored \cap DOMAIN s.clusters
  IN  [s EXCEPT !.clusters = Without(@, gone),
                !.endpoints = IF gone = {} THEN @ ELSE NoItems]

\* UpstreamRemovingSanitizer: clusters of errored upstreams go, with the
\* endpoints they reference.
RemoveUpstreams(s, errored) ==
  LET gone == errored \cap DOMAIN s.clusters
  IN  [s EXCEPT !.clusters = Without(@, gone),
                !.endpoints = Without(@, {s.clusters[u] : u \in gone})]

\* A route to a cluster that is not there, or with an error of its own.
Invalid(s, n, erroredRoutes) ==
  n \in erroredRoutes \/ s.routes[n].dest \ DOMAIN s.clusters # {}

\* RouteReplacingSanitizer: such a route goes to the fallback cluster, which
\* is inserted with its listener when it is needed.
ReplaceRoutes(s, erroredRoutes) ==
  LET bad == {n \in DOMAIN s.routes : Invalid(s, n, erroredRoutes)}
  IN  [s EXCEPT
         !.routes = [n \in DOMAIN @ |->
            IF n \in bad THEN [@[n] EXCEPT !.dest = {Fallback}] ELSE @[n]],
         !.listeners = IF bad = {} THEN @ ELSE With(@, Fallback, {}),
         !.clusters = IF bad = {} THEN @ ELSE With(@, Fallback, NoRef)]

\* Mutant: the two sanitizers in the other order.
SanitizeSwapped(s, errored, erroredRoutes) ==
  RemoveUpstreams(IF replaceInvalidRoutes THEN ReplaceRoutes(s, erroredRoutes) ELSE s, errored)

SanitizeSnapshot(s, errored, erroredRoutes) ==
  LET removed == RemoveUpstreams(s, errored)
  IN  IF replaceInvalidRoutes THEN ReplaceRoutes(removed, erroredRoutes) ELSE removed

\* MakeConsistent is called on the snapshot of the translator.  The sanitized
\* one has the same maps, so it is made consistent too, except that route
\* replacement has put its routes in a map of their own.
Published(s, errored, erroredRoutes) ==
  LET sanitized == SanitizeSnapshot(s, errored, erroredRoutes)
      consistent == MakeConsistent(sanitized)
  IN  IF replaceInvalidRoutes /\ DOMAIN s.routes # {}
      THEN [consistent EXCEPT !.routes = sanitized.routes]
      ELSE consistent

-----------------------------------------------------------------------------
\* Gateways add and delete proxies between syncs.
ChangeProxies(S) ==
  /\ S # stored /\ stored' = S
  /\ UNCHANGED <<settings, statusKeys, cache, known, healthy, snapProxies, todo, syncs,
                 listErrors>>

\* An Envoy node asks for the first time.
Connect(k) ==
  /\ k \notin statusKeys /\ statusKeys' = statusKeys \cup {k}
  /\ UNCHANGED <<settings, stored, cache, known, healthy, snapProxies, todo, syncs, listErrors>>

\* Mutant: nodes whose proxy is gone keep their snapshot.
NotCollected(proxies) == UNCHANGED cache

\* Garbage collection: the nodes the cache knows of that have no proxy.
Collected(proxies) ==
  LET gone == IF disableProxyGC THEN {} ELSE statusKeys \ proxies
  IN  cache' = [k \in Proxies |-> IF k \in gone THEN EmptySnapshot ELSE cache[k]]

\* List, and garbage collection.
BeginSync ==
  /\ todo = {} /\ syncs < MaxEnvoySyncs /\ syncs' = syncs + 1
  /\ known' = statusKeys /\ healthy' = NoneHealthy
  /\ snapProxies' = stored /\ todo' = stored
  /\ Collected(stored)
  /\ UNCHANGED <<settings, stored, statusKeys, listErrors>>

\* The List of translateProxies fails: the sync goes on without proxies.
BeginSyncListError ==
  /\ todo = {} /\ syncs < MaxEnvoySyncs /\ syncs' = syncs + 1
  /\ listErrors < MaxListErrors /\ listErrors' = listErrors + 1
  /\ known' = statusKeys /\ healthy' = NoneHealthy
  /\ snapProxies' = {} /\ todo' = {}
  /\ Collected({})
  /\ UNCHANGED <<settings, stored, statusKeys>>

\* One iteration of the loop over proxies.
TranslateProxy(k, s, errored, erroredRoutes) ==
  /\ k \in todo /\ todo' = todo \ {k}
  /\ cache' = [cache EXCEPT ![k] = Published(s, errored, erroredRoutes)]
  /\ healthy' = [healthy EXCEPT ![k] = Healthy(s, errored, erroredRoutes)]
  /\ UNCHANGED <<settings, stored, statusKeys, known, snapProxies, syncs, listErrors>>

EnvoyNext ==
  \/ \E S \in SUBSET Proxies : ChangeProxies(S)
  \/ \E k \in Proxies : Connect(k)
  \/ BeginSync \/ BeginSyncListError
  \/ \E k \in Proxies, errored \in SUBSET Upstreams :
       \E s \in Translations(k) : \E erroredRoutes \in SUBSET DOMAIN s.routes :
         TranslateProxy(k, s, errored, erroredRoutes)

EnvoySpec == EnvoyInit /\ [][EnvoyNext]_envoyVars

-----------------------------------------------------------------------------
Snapshots == {cache[k] : k \in Proxies} \ {NoSnapshot}

\* Without route replacement every snapshot served is consistent, through
\* removed upstreams, dropped listeners and routes and stray endpoints; with it
\* the endpoints are (MakeConsistent, and the maps the snapshots share).
ServedConsistent ==
  \A s \in Snapshots :
    /\ Listed(EndpointRefs(s), s.endpoints)
    /\ ~replaceInvalidRoutes => Consistent(s)

\* With route replacement no route that is served leads to a cluster that is
\* not served with it, whichever upstreams and routes had errors.
NoDanglingRoutes ==
  replaceInvalidRoutes =>
    \A s \in Snapshots : \A n \in DOMAIN s.routes : s.routes[n].dest \subseteq DOMAIN s.clusters

\* Between syncs no node that was known when the last sync began is left with
\* the configuration of a proxy that sync did not see, whatever happened to the
\* proxies and the nodes since.
StaleNodesEmptied ==
  ~disableProxyGC /\ todo = {} =>
    \A k \in known \ snapProxies : cache[k] = EmptySnapshot

\* Errors are contained: a proxy is served every cluster whose upstream has no error,
\* with the endpoints it was translated with and no placeholder for them, and every
\* route without error to such clusters as it was translated, through both sanitizers
\* and MakeConsistent, whatever else in the proxy had errors and whichever other
\* proxies the sync translates.
ErrorsContained ==
  \A k \in snapProxies \ todo :
    /\ \A u \in healthy[k].clusters :
         /\ u \in DOMAIN cache[k].clusters /\ cache[k].clusters[u] = ServiceName(u)
         /\ u \in Eds => /\ <<u>> \in DOMAIN cache[k].endpoints
                         /\ cache[k].endpoints[<<u>>] = [name |-> <<u>>]
    /\ \A r \in healthy[k].routes :
         r.name \in DOMAIN cache[k].routes /\ cache[k].routes[r.name] = r
=============================================================================
