-------------------------- MODULE AdmissionValidator --------------------------
(***************************************************************************)
(* The validator behind the admission webhook (projects/gateway/pkg        *)
(* /validation/validator.go) and the validation server that it asks about  *)
(* Proxies (projects/gloo/pkg/validation/server.go).  Each works under a   *)
(* lock of its own, on a snapshot of its own.                              *)
(*                                                                         *)
(* An edit is the wish to make an object of a kind equal to something, or  *)
(* Absent.                                                                 *)
(***************************************************************************)
EXTENDS GatewayTranslation

CONSTANTS AllowWarnings,
          NoSnapshot

VARIABLES
  server,              \* latestSnapshot of the server: the Upstreams in it
  latestSnapshot,      \* of the validator: Gateways and VirtualServices
  latestSnapshotErr

ValidationInit ==
  server = NoSnapshot /\ latestSnapshot = NoSnapshot /\ latestSnapshotErr = FALSE

\* Sync of the server.
ServerSync(snap) ==
  /\ server' = snap.us
  /\ UNCHANGED <<latestSnapshot, latestSnapshotErr>>

GatewayPart(snap) == [gw |-> snap.gw, vs |-> snap.vs]

\* Mutant: errors are kept until the process ends.
ValidatorSyncKeepsErr(snap) ==
  /\ latestSnapshot' = GatewayPart(snap)
  /\ latestSnapshotErr' = (latestSnapshotErr \/ TranslationErrors(snap.gw, snap.vs) # {})
  /\ UNCHANGED server

\* Sync of the validator; gatewayUpdate compares the hashes of the objects that
\* the gateway translator reads.
ValidatorSync(snap) ==
  /\ IF latestSnapshot = GatewayPart(snap)
     THEN UNCHANGED <<latestSnapshot, latestSnapshotErr>>
     ELSE /\ latestSnapshot' = GatewayPart(snap)
          /\ latestSnapshotErr' = (TranslationErrors(snap.gw, snap.vs) # {})
  /\ UNCHANGED server

\* UpsertToResourceList and RemoveFromResourceList.
Apply(snap, e) ==
  CASE e.kind = "vs" -> [snap EXCEPT !.vs[e.name] = e.to]
    [] e.kind = "gw" -> [snap EXCEPT !.gw[e.name] = e.to]
    [] OTHER -> snap
ApplyToUpstreams(us, e) ==
  IF e.kind # "us" THEN us ELSE IF e.to = Absent THEN us \ {e.name} ELSE us \cup {e.name}

\* ValidateGloo: the Proxy against the server's snapshot with the edit applied.
GlooAccepts(listeners, us) ==
  ProxyErrors(listeners) = {} /\ (AllowWarnings \/ ProxyWarnings(listeners, us) = {})

\* validateProxiesAndExtensions of a clone with the edit applied.
Passes(snap, e) ==
  LET gw == Apply(snap, e).gw
      vs == Apply(snap, e).vs
  IN  /\ TranslationErrors(gw, vs) = {}
      /\ Translate(gw, vs) # {} =>
           /\ server # NoSnapshot
           /\ GlooAccepts(Translate(gw, vs), ApplyToUpstreams(server, e))

\* validateSnapshot: broken storage lets every edit pass.
Allows(snap, e) == snap # NoSnapshot /\ (latestSnapshotErr \/ Passes(snap, e))

\* Mutant: an accepted edit is not applied to the snapshot.
AfterForgets(snap, e) == snap

\* The snapshot after an edit was validated, outside of a dry run.
After(snap, e) ==
  IF ~latestSnapshotErr /\ Allows(snap, e) THEN Apply(snap, e) ELSE snap

\* ValidateModifiedGvk and ValidateDeletedGvk.
Validate(e) ==
  /\ latestSnapshot' = After(latestSnapshot, e)
  /\ UNCHANGED <<server, latestSnapshotErr>>

\* ValidateList, of two edits: what was accepted stays applied when the other
\* edit fails.
AllowsList(e, f) ==
  Allows(latestSnapshot, e) /\ Allows(After(latestSnapshot, e), f)
ValidateList(e, f) ==
  /\ latestSnapshot # NoSnapshot
  /\ latestSnapshot' = After(After(latestSnapshot, e), f)
  /\ UNCHANGED <<server, latestSnapshotErr>>
=============================================================================
