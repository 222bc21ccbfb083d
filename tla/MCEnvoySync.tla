---------------------------- MODULE MCEnvoySync ----------------------------
(***************************************************************************)
(* EnvoySync with two proxies, of which one has a listener.                *)
(***************************************************************************)
EXTENDS EnvoySync

MCListeners == [k \in Proxies |-> IF k = "a" THEN {"l"} ELSE {}]
=============================================================================
