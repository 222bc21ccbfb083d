---------------------------- MODULE XdsSnapshot ----------------------------
(***************************************************************************)
(* The Envoy snapshot of projects/gloo/pkg/xds/envoy_snapshot.go.  Each    *)
(* kind of resource is a map from keys to items:                           *)
(*   clusters[c]   what the cluster references by EDS, or NoRef            *)
(*   listeners[l]  the route configurations the listener references        *)
(*   endpoints[n]  [name |-> what the item calls itself]                   *)
(*   routes[n]     [name |-> ..., dest |-> clusters it routes to]          *)
(***************************************************************************)
EXTENDS FiniteSets, Naturals

CONSTANT NoRef

\* resource.GetResourceReferences of clusters and of listeners.
EndpointRefs(s) == {s.clusters[c] : c \in DOMAIN s.clusters} \ {NoRef}
RouteRefs(s) == UNION {s.listeners[l] : l \in DOMAIN s.listeners}

SelfNames(items) == {items[n].name : n \in DOMAIN items}

\* As many items as references, and every item referenced.
Listed(refs, items) ==
  Cardinality(refs) = Cardinality(DOMAIN items) /\ DOMAIN items \subseteq refs

Consistent(s) == Listed(EndpointRefs(s), s.endpoints) /\ Listed(RouteRefs(s), s.routes)

\* Placeholders are named after the parent, not after the reference.
EndpointPlaceholders(s) ==
  [n \in EndpointRefs(s) |-> [name |-> CHOOSE c \in DOMAIN s.clusters : s.clusters[c] = n]]
RoutePlaceholders(s) ==
  [n \in RouteRefs(s) |->
     [name |-> <<CHOOSE l \in DOMAIN s.listeners : n \in s.listeners[l], "invalid-envoy">>,
      dest |-> {}]]

\* Add a placeholder for each reference no item is named for, then delete the
\* items nobody references.
Linked(refs, items, placeholders) ==
  LET added == refs \ SelfNames(items)
  IN  [n \in (DOMAIN items \cup added) \cap refs |->
         IF n \in added THEN placeholders[n] ELSE items[n]]

\* Mutant: what no listener references is kept.
MakeConsistentKeepsRoutes(s) ==
  [s EXCEPT
     !.endpoints = Linked(EndpointRefs(s), s.endpoints, EndpointPlaceholders(s)),
     !.routes = Linked(RouteRefs(s) \cup DOMAIN s.routes, s.routes, RoutePlaceholders(s))]

MakeConsistent(s) ==
  [s EXCEPT
     !.endpoints = Linked(EndpointRefs(s), s.endpoints, EndpointPlaceholders(s)),
     !.routes = Linked(RouteRefs(s), s.routes, RoutePlaceholders(s))]
=============================================================================
