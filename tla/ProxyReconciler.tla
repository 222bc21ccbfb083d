---------------------------- MODULE ProxyReconciler ----------------------------
(***************************************************************************)
(* projects/gateway/pkg/reconciler/proxy_reconciler.go: the Proxy that is  *)
(* stored for a snapshot.  Listeners and virtual hosts whose sources have  *)
(* errors are stripped, and the versions of them in the stored Proxy are   *)
(* kept instead.  The listeners are HTTP listeners; the stored Proxy is    *)
(* their list, sorted by name.                                             *)
(***************************************************************************)
EXTENDS GatewayTranslation, Sequences

\* The reports of the translation with the results of the proxy validation.
Rejected(gw, vs) == TranslationErrors(gw, vs) \cup ProxyErrors(Translate(gw, vs))

Accepted(objects, rejected) == {o \in objects : o.source \notin rejected}

\* stripInvalidListenersAndVirtualHosts.
Strip(listeners, rejected) ==
  {[l EXCEPT !.hosts = Accepted(@, rejected)] : l \in Accepted(listeners, rejected)}

\* The stable sort by name of listeners that are given with their places: the
\* k-th one has k - 1 before it.
Precedes(a, b) ==
  \/ a.listener.name < b.listener.name
  \/ a.listener.name = b.listener.name /\ a.place < b.place
SortByName(placed) ==
  [k \in 1..Cardinality(placed) |->
     (CHOOSE a \in placed : Cardinality({b \in placed : Precedes(b, a)}) = k - 1).listener]

\* The first listener with the name, or none.
Named(original, name) ==
  LET at == {i \in DOMAIN original : original[i].name = name}
  IN  IF at = {} THEN {} ELSE {original[CHOOSE i \in at : \A j \in at : i <= j]}

\* Mutant: every stored virtual host is kept.
WithKeptAll(listener, original, rejected) ==
  [listener EXCEPT !.hosts = @ \cup Hosts(Named(original, listener.name))]

\* copyRejectedVirtualHosts: the stored virtual hosts that are rejected now.
WithKept(listener, original, rejected) ==
  [listener EXCEPT !.hosts = @ \cup
     {h \in Hosts(Named(original, listener.name)) : h.source \in rejected}]

\* transitionFunc: the desired listeners come before those of `original` that are
\* rejected.  No two desired ones have the same name: their Gateways would share
\* a port.
Transition(original, desired, rejected) ==
  SortByName(
    {[place |-> 0, listener |-> WithKept(l, original, rejected)] : l \in desired}
      \cup {[place |-> i, listener |-> original[i]] :
               i \in {j \in DOMAIN original : original[j].source \in rejected}})

\* Mutant: nothing is kept.
ReconciledStripped(original, gw, vs) ==
  Transition(<<>>, Strip(Translate(gw, vs), Rejected(gw, vs)), Rejected(gw, vs))

\* ReconcileProxies: what is stored in place of `original`.
Reconciled(original, gw, vs) ==
  IF Translate(gw, vs) = {} THEN <<>>
  ELSE Transition(original, Strip(Translate(gw, vs), Rejected(gw, vs)), Rejected(gw, vs))
=============================================================================
