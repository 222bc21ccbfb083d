-------------------------- MODULE GatewayTranslation --------------------------
(***************************************************************************)
(* What the gateway translator (projects/gateway/pkg/translator) and the   *)
(* validation of a Proxy by Gloo say of a snapshot, reduced to what the    *)
(* admission validator and the proxy reconciler tell apart.                *)
(*                                                                         *)
(* A snapshot has Gateways (`gw`), VirtualServices (`vs`) and Upstreams    *)
(* (`us`).  A Gateway binds a port; a VirtualService has a domain, may     *)
(* route to an Upstream (`dest`) and may have a fault that only Gloo finds *)
(* (`bad`).  Every VirtualService belongs to every Gateway.  A listener is *)
(* named after its port and knows the Gateway it comes from, a virtual     *)
(* host the VirtualService: their metadata sources.                        *)
(***************************************************************************)
EXTENDS Naturals, FiniteSets

CONSTANT Absent   \* no such object

Present(objects) == {x \in DOMAIN objects : objects[x] # Absent}

\* validateVirtualServiceDomains: the VirtualServices that share a domain.
Conflicting(vs) ==
  {v \in Present(vs) : \E w \in Present(vs) \ {v} : vs[w].domain = vs[v].domain}

\* validateGateways: the Gateways that share a port.
SamePort(gw) == {g \in Present(gw) : \E h \in Present(gw) \ {g} : gw[h] = gw[g]}

\* The resources with errors in the reports of Translate, which needs a Gateway
\* to run.  A conflict of domains is reported on the Gateways too.
TranslationErrors(gw, vs) ==
  SamePort(gw)
    \cup (IF Conflicting(vs) = {} \/ Present(gw) = {} THEN {} ELSE Conflicting(vs) \cup Present(gw))

Host(v, vs) == [source |-> v, config |-> vs[v]]
Listener(g, gw, vs) ==
  [name |-> gw[g], source |-> g, hosts |-> {Host(v, vs) : v \in Present(vs)}]

\* Translate: the listeners of the Proxy.  Without VirtualServices there are
\* none, and no Proxy.
Translate(gw, vs) ==
  IF Present(vs) = {} THEN {} ELSE {Listener(g, gw, vs) : g \in Present(gw)}

Hosts(listeners) == UNION {l.hosts : l \in listeners}

\* Validation of a Proxy by Gloo: the sources of its faulty virtual hosts get
\* errors, those of routes to Upstreams that do not exist get warnings.
ProxyErrors(listeners) == {h.source : h \in {x \in Hosts(listeners) : x.config.bad}}
ProxyWarnings(listeners, us) ==
  {h.source : h \in {x \in Hosts(listeners) : x.config.dest \notin us \cup {Absent}}}
=============================================================================
