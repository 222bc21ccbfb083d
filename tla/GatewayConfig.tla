----------------------------- MODULE GatewayConfig -----------------------------
(***************************************************************************)
(* The way of the Edge API's configuration: edits are validated by the     *)
(* admission webhook and then stored by the API server; the event loop     *)
(* (api_event_loop.sk.go) hands each snapshot of the store to its syncers  *)
(* one after the other (setup_syncer.go): the validation server, the       *)
(* gateway syncer, which stores the Proxy, and the admission validator.    *)
(* The webhook goes on answering while a sync runs.                        *)
(***************************************************************************)
EXTENDS ProxyReconciler, AdmissionValidator

CONSTANTS Gateways, Services, Upstreams, Configs,
          Ports,         \* the names of listeners
          FirstGateway, FirstService, FirstConfig,   \* what is there at the start
          MaxEdits,      \* bound on the edits that are stored or on their way
          MaxFaults      \* bound on edits past the webhook, lost edits, failing writes

\* A resource is a Gateway or a VirtualService, not both.
ASSUME ObjectsAssumption ==
  /\ IsFiniteSet(Gateways) /\ Gateways \cap Services = {}
  /\ Ports \subseteq Nat
  /\ Absent \notin Ports /\ Absent \notin Configs /\ Absent # "some"
\* There is a valid configuration at the start.
ASSUME FirstAssumption ==
  /\ FirstGateway \in Gateways /\ FirstService \in Services
  /\ 1 \in Ports /\ FirstConfig \in Configs
  /\ ~FirstConfig.bad /\ FirstConfig.dest \in Upstreams \cup {Absent}
ASSUME EditBoundsAssumption == MaxEdits \in Nat /\ MaxFaults \in Nat

VARIABLES
  store,                 \* the objects in the cluster (external)
  pending,               \* edits that were allowed and are not stored yet
  snap, loop,            \* the snapshot of the event loop, and the syncer that is next
  proxy,                 \* the listeners of the stored Proxy
  edits, faults,
  exposed,               \* history: the validator may have judged by another store
  unwritten              \* history: the newest snapshot has not been reconciled

validationVars == <<server, latestSnapshot, latestSnapshotErr>>
vars == <<store, pending, snap, loop, proxy, validationVars, edits, faults, exposed,
          unwritten>>

GatewaySnapshots ==
  [gw : [Gateways -> Ports \cup {Absent}], vs : [Services -> Configs \cup {Absent}]]
Snapshots ==
  [gw : [Gateways -> Ports \cup {Absent}], vs : [Services -> Configs \cup {Absent}],
   us : SUBSET Upstreams]
Listeners ==
  [name : Ports, source : Gateways, hosts : SUBSET [source : Services, config : Configs]]

ASSUME SnapshotAssumption ==
  /\ NoSnapshot \notin Snapshots /\ NoSnapshot \notin GatewaySnapshots
  /\ \A us \in SUBSET Upstreams : us # NoSnapshot

Edits ==
  [kind : {"vs"}, name : Services, to : Configs \cup {Absent}] \cup
  [kind : {"gw"}, name : Gateways, to : Ports \cup {Absent}] \cup
  [kind : {"us"}, name : Upstreams, to : {"some", Absent}]

Init ==
  /\ store = [gw |-> [g \in Gateways |-> IF g = FirstGateway THEN 1 ELSE Absent],
              vs |-> [v \in Services |-> IF v = FirstService THEN FirstConfig ELSE Absent],
              us |-> Upstreams]
  /\ pending = {} /\ snap = NoSnapshot /\ loop = "wait" /\ proxy = <<>>
  /\ ValidationInit
  /\ edits = 0 /\ faults = 0 /\ exposed = FALSE /\ unwritten = FALSE

Stored(s, e) == [Apply(s, e) EXCEPT !.us = ApplyToUpstreams(@, e)]
\* What becomes of an object that is now `now`, when the allowed edit of it, if
\* there is one, is stored.
Upcoming(kind, name, now) ==
  LET asked == {e \in pending : e.kind = kind /\ e.name = name}
  IN  IF asked = {} THEN now ELSE (CHOOSE e \in asked : TRUE).to
\* The store once all that was allowed is stored (edits of different objects).
Admitted ==
  [gw |-> [g \in Gateways |-> Upcoming("gw", g, store.gw[g])],
   vs |-> [v \in Services |-> Upcoming("vs", v, store.vs[v])],
   us |-> {u \in Upstreams :
             Upcoming("us", u, IF u \in store.us THEN "some" ELSE Absent) # Absent}]

\* A configuration that the webhook, asked about all of it at once, lets pass.
Valid(s) ==
  /\ TranslationErrors(s.gw, s.vs) = {}
  /\ GlooAccepts(Translate(s.gw, s.vs), s.us)

\* An Upstream of the server's snapshot is gone, or about to go.
DeletionUnseen == server # NoSnapshot /\ server \ Admitted.us # {}

\* An edit that changes something, of an object without an edit on its way.
Sensible(e) ==
  Stored(store, e) # store /\ \A f \in pending : <<f.kind, f.name>> # <<e.kind, e.name>>

\* Validation allows an edit.  (One that the webhook denies changes nothing; one that
\* it lets pass with alwaysAccept is a Bypass.)
Ask(e) ==
  /\ edits < MaxEdits /\ edits' = edits + 1
  /\ Sensible(e) /\ Allows(latestSnapshot, e) /\ Validate(e)
  /\ pending' = pending \cup {e}
  /\ exposed' = (exposed \/ latestSnapshotErr \/ (DeletionUnseen /\ e.kind # "us"))
  /\ UNCHANGED <<store, snap, loop, proxy, faults, unwritten>>

\* The webhook answers for a list of two objects to create or change.
AskList(e, f) ==
  /\ edits + 1 < MaxEdits /\ edits' = edits + 2
  /\ Sensible(e) /\ Sensible(f) /\ <<f.kind, f.name>> # <<e.kind, e.name>>
  /\ Absent \notin {e.to, f.to}
  /\ ValidateList(e, f)
  /\ pending' = IF AllowsList(e, f) THEN pending \cup {e, f} ELSE pending
  /\ exposed' = (exposed \/ latestSnapshotErr \/ DeletionUnseen
                   \/ (~AllowsList(e, f) /\ latestSnapshot' # latestSnapshot))
  /\ UNCHANGED <<store, snap, loop, proxy, faults, unwritten>>

\* The API server stores an allowed edit.
Commit(e) ==
  /\ e \in pending /\ pending' = pending \ {e} /\ store' = Stored(store, e)
  /\ UNCHANGED <<snap, loop, proxy, validationVars, edits, faults, exposed, unwritten>>

\* An allowed edit is not stored after all.
Lose(e) ==
  /\ e \in pending /\ pending' = pending \ {e}
  /\ faults < MaxFaults /\ faults' = faults + 1 /\ exposed' = TRUE
  /\ UNCHANGED <<store, snap, loop, proxy, validationVars, edits, unwritten>>

\* An edit is stored without having passed validation: it carries the annotation
\* that skips it, the webhook could not be reached, or it is set to alwaysAccept and
\* allows what validation refuses.
Bypass(e) ==
  /\ edits < MaxEdits /\ edits' = edits + 1 /\ faults < MaxFaults /\ faults' = faults + 1
  /\ Sensible(e) /\ store' = Stored(store, e) /\ exposed' = TRUE
  /\ UNCHANGED <<pending, snap, loop, proxy, validationVars, unwritten>>

\* Mutant: the hash that tells snapshots apart leaves the Upstreams out.
EmitUnlessUpstreams ==
  /\ loop = "wait"
  /\ IF snap = NoSnapshot THEN snap' = store
     ELSE snap' = store /\ GatewayPart(snap) # GatewayPart(store)
  /\ loop' = "server" /\ unwritten' = TRUE
  /\ UNCHANGED <<store, pending, proxy, validationVars, edits, faults, exposed>>

\* The emitter has a new snapshot.  Each kind of object has a watch of its own,
\* so the snapshot may be new in some kinds only.
Emit ==
  /\ loop = "wait"
  /\ IF snap = NoSnapshot THEN snap' = store
     ELSE \E new \in SUBSET {"gw", "vs", "us"} :
            /\ snap' = [k \in DOMAIN snap |-> IF k \in new THEN store[k] ELSE snap[k]]
            /\ snap' # snap
  /\ loop' = "server" /\ unwritten' = TRUE
  /\ UNCHANGED <<store, pending, proxy, validationVars, edits, faults, exposed>>

SyncServer ==
  /\ loop = "server" /\ loop' = "gateway" /\ ServerSync(snap)
  /\ UNCHANGED <<store, pending, snap, proxy, edits, faults, exposed, unwritten>>

SyncGateway ==
  /\ loop = "gateway" /\ loop' = "validator"
  /\ proxy' = Reconciled(proxy, snap.gw, snap.vs) /\ unwritten' = FALSE
  /\ UNCHANGED <<store, pending, snap, validationVars, edits, faults, exposed>>

\* The write of the Proxy fails: the other syncers run, and nothing tries again.
SyncGatewayFails ==
  /\ loop = "gateway" /\ loop' = "validator"
  /\ Reconciled(proxy, snap.gw, snap.vs) # proxy
  /\ faults < MaxFaults /\ faults' = faults + 1
  /\ UNCHANGED <<store, pending, snap, proxy, validationVars, edits, exposed, unwritten>>

SyncValidator ==
  /\ loop = "validator" /\ loop' = "wait" /\ ValidatorSync(snap)
  /\ exposed' = ~(latestSnapshot' = GatewayPart(Admitted) /\ (exposed => Valid(Admitted)))
  /\ UNCHANGED <<store, pending, snap, proxy, edits, faults, unwritten>>

Loop == Emit \/ SyncServer \/ SyncGateway \/ SyncValidator
Storing == \E e \in pending : Commit(e)

Next ==
  \/ \E e \in Edits : Ask(e) \/ Bypass(e)
  \/ \E e \in Edits, f \in Edits : AskList(e, f)
  \/ \E e \in pending : Lose(e)
  \/ Storing \/ Loop \/ SyncGatewayFails

Spec == Init /\ [][Next]_vars /\ WF_vars(Storing) /\ WF_vars(Loop)
-----------------------------------------------------------------------------
\* The variables have the types of the fields they stand for; no listener of the
\* Proxy has two virtual hosts of one VirtualService (their name is its name).
TypeOK ==
  /\ store \in Snapshots /\ snap \in Snapshots \cup {NoSnapshot}
  /\ pending \subseteq Edits
  /\ loop \in {"wait", "server", "gateway", "validator"}
  /\ proxy \in Seq(Listeners)
  /\ \A i \in DOMAIN proxy : \A h, k \in proxy[i].hosts : h.source = k.source => h = k
  /\ server \in (SUBSET Upstreams) \cup {NoSnapshot}
  /\ latestSnapshot \in GatewaySnapshots \cup {NoSnapshot}
  /\ latestSnapshotErr \in BOOLEAN /\ exposed \in BOOLEAN /\ unwritten \in BOOLEAN
  /\ edits \in 0..MaxEdits /\ faults \in 0..MaxFaults

\* Edits that were each allowed are valid together, also when many are allowed
\* before a sync (validator.go applies what it accepts to its snapshot), unless
\* the validator was exposed: an edit passed it by or was lost, a sync replaced
\* its snapshot by one without edits it had allowed, or the deletion of an
\* Upstream, which it allowed, had not reached the server.
AdmittedValid == ~exposed => Valid(Admitted)

\* When all is stored and synced, validation is disabled exactly while the store
\* has a resource that the translation refuses (InvalidSnapshotErrMessage:
\* correcting it enables validation again).
Synced == loop = "wait" /\ snap = store /\ pending = {}
DisabledWhileBroken ==
  Synced => (latestSnapshotErr <=> TranslationErrors(store.gw, store.vs) # {})

\* For a snapshot, a Proxy has a listener for every accepted Gateway,
\* with the virtual hosts of the accepted VirtualServices as they are in it
\* and, besides, only hosts of rejected ones; all other listeners are kept
\* for rejected Gateways.  What was deleted is not served by an accepted Gateway.
UpToDate(p, s) ==
  LET rejected == Rejected(s.gw, s.vs)
      listeners == {p[i] : i \in DOMAIN p}
  IN  /\ Strip(Accepted(listeners, rejected), rejected)
            = Strip(Translate(s.gw, s.vs), rejected)
      /\ \A x \in Hosts(Accepted(listeners, rejected)) : s.vs[x.source] # Absent

\* Every allowed edit is stored and synced in the end, and the Proxy is then up
\* to date unless its write failed: the event loop does not try again.
ConfigConverges == []<>(Synced /\ (unwritten \/ UpToDate(proxy, store)))

\* The ports on which the Proxy serves a VirtualService, with the content served.
Serving(p, v) ==
  UNION {{<<p[i].name, h.config>> : h \in {x \in p[i].hosts : x.source = v}} :
           i \in DOMAIN p}

\* As long as its Gateways stay where they are, a VirtualService that is rejected
\* is served as before: an invalid edit does not change traffic, whatever else
\* changes with it (proxy_reconciler.go, transitionFunc).
RejectedStayServed ==
  [][\A v \in Services :
       /\ snap # NoSnapshot
       /\ v \in Rejected(snap.gw, snap.vs)
       /\ \A i \in DOMAIN proxy : snap.gw[proxy[i].source] = proxy[i].name
       => Serving(proxy', v) = Serving(proxy, v)]_proxy
=============================================================================
