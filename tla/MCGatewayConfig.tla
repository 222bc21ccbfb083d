---------------------------- MODULE MCGatewayConfig ----------------------------
(***************************************************************************)
(* An instance of GatewayConfig.  Two of the VirtualServices' contents     *)
(* share a domain, one needs an Upstream, one has a fault.                 *)
(***************************************************************************)
EXTENDS GatewayConfig

Plain == [domain |-> 1, dest |-> Absent, bad |-> FALSE]
MCConfigs ==
  {Plain, [Plain EXCEPT !.bad = TRUE, !.domain = 2]}
    \cup {[Plain EXCEPT !.domain = 2, !.dest = u] : u \in Upstreams}
MCPorts == {1, 2}
=============================================================================
