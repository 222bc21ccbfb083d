---------------------- MODULE GatewayAdmissionProofs ----------------------
(***************************************************************************)
(* The inductive invariant of GatewayConfig, and every step but that of    *)
(* the reconciler: edits, the validator and the event loop, for any        *)
(* Gateways, VirtualServices, Upstreams, contents, ports and bounds.       *)
(***************************************************************************)
EXTENDS GatewayConfig, TLAPS

(***************************************************************************)
(* Edits, and the store with the allowed ones.                             *)
(***************************************************************************)
\* Upcoming and Admitted for any store st and any allowed edits E.
UpcomingOf(E, kind, name, now) ==
  LET asked == {e \in E : e.kind = kind /\ e.name = name}
  IN  IF asked = {} THEN now ELSE (CHOOSE e \in asked : TRUE).to
AdmittedOf(st, E) ==
  [gw |-> [g \in Gateways |-> UpcomingOf(E, "gw", g, st.gw[g])],
   vs |-> [v \in Services |-> UpcomingOf(E, "vs", v, st.vs[v])],
   us |-> {u \in Upstreams :
             UpcomingOf(E, "us", u, IF u \in st.us THEN "some" ELSE Absent) # Absent}]

\* The allowed edits are of different objects.
Separate(E) == \A e, f \in E : e.kind = f.kind /\ e.name = f.name => e = f

\* The edit of an object decides what becomes of it; other edits do not.
LEMMA UpcomingHit ==
  ASSUME NEW E, Separate(E), NEW e \in E, NEW now
  PROVE  UpcomingOf(E, e.kind, e.name, now) = e.to
<1> DEFINE asked == {f \in E : f.kind = e.kind /\ f.name = e.name}
<1>1. asked = {e} BY DEF Separate
<1> QED BY <1>1 DEF UpcomingOf

\* A resource with no request in flight keeps its value.
LEMMA UpcomingMiss ==
  ASSUME NEW E, NEW kind, NEW name, NEW now, \A e \in E : <<e.kind, e.name>> # <<kind, name>>
  PROVE  UpcomingOf(E, kind, name, now) = now
<1>1. {e \in E : e.kind = kind /\ e.name = name} = {} OBVIOUS
<1> QED BY <1>1 DEF UpcomingOf

\* A request for one resource says nothing of another.
LEMMA UpcomingOther ==
  ASSUME NEW E, NEW e, NEW kind, NEW name, NEW now, <<e.kind, e.name>> # <<kind, name>>
  PROVE  /\ UpcomingOf(E \cup {e}, kind, name, now) = UpcomingOf(E, kind, name, now)
         /\ UpcomingOf(E \ {e}, kind, name, now) = UpcomingOf(E, kind, name, now)
<1> DEFINE asked(F) == {f \in F : f.kind = kind /\ f.name = name}
<1>1. asked(E \cup {e}) = asked(E) /\ asked(E \ {e}) = asked(E) OBVIOUS
<1>2. \A F : UpcomingOf(F, kind, name, now)
              = IF asked(F) = {} THEN now ELSE (CHOOSE f \in asked(F) : TRUE).to
  BY DEF UpcomingOf
<1> HIDE DEF asked
<1> QED BY <1>1, <1>2

\* What an edit does to a snapshot, kind by kind.
LEMMA StoredIs ==
  ASSUME NEW st \in Snapshots, NEW e \in Edits
  PROVE  /\ Stored(st, e) \in Snapshots
         /\ GatewayPart(Stored(st, e)) = Apply(GatewayPart(st), e)
         /\ e.kind = "gw" => /\ e.name \in Gateways /\ e.to \in Ports \cup {Absent}
                            /\ Stored(st, e) = [gw |-> [st.gw EXCEPT ![e.name] = e.to],
                                                vs |-> st.vs, us |-> st.us]
         /\ e.kind = "vs" => /\ e.name \in Services /\ e.to \in Configs \cup {Absent}
                            /\ Stored(st, e) = [gw |-> st.gw, us |-> st.us,
                                                vs |-> [st.vs EXCEPT ![e.name] = e.to]]
         /\ e.kind = "us" => /\ e.name \in Upstreams /\ e.to \in {"some", Absent}
                            /\ Stored(st, e) = [gw |-> st.gw, vs |-> st.vs,
                                                us |-> ApplyToUpstreams(st.us, e)]
         /\ e.kind \in {"gw", "vs", "us"}
<1> USE DEF Snapshots
<1>1. CASE e \in [kind : {"gw"}, name : Gateways, to : Ports \cup {Absent}]
  <2>1. Stored(st, e) = [gw |-> [st.gw EXCEPT ![e.name] = e.to], vs |-> st.vs, us |-> st.us]
    BY <1>1, ZenonT(30) DEF Stored, Apply, ApplyToUpstreams
  <2>2. Apply(GatewayPart(st), e) = [gw |-> [st.gw EXCEPT ![e.name] = e.to], vs |-> st.vs]
    BY <1>1 DEF Apply, GatewayPart
  <2> QED BY <1>1, <2>1, <2>2 DEF GatewayPart
<1>2. CASE e \in [kind : {"vs"}, name : Services, to : Configs \cup {Absent}]
  <2>1. Stored(st, e) = [gw |-> st.gw, vs |-> [st.vs EXCEPT ![e.name] = e.to], us |-> st.us]
    BY <1>2 DEF Stored, Apply, ApplyToUpstreams
  <2>2. Apply(GatewayPart(st), e) = [gw |-> st.gw, vs |-> [st.vs EXCEPT ![e.name] = e.to]]
    BY <1>2 DEF Apply, GatewayPart
  <2> QED BY <1>2, <2>1, <2>2 DEF GatewayPart
<1>3. CASE e \in [kind : {"us"}, name : Upstreams, to : {"some", Absent}]
  <2>1. Stored(st, e) = [gw |-> st.gw, vs |-> st.vs, us |-> ApplyToUpstreams(st.us, e)]
    BY <1>3 DEF Stored, Apply
  <2>2. Apply(GatewayPart(st), e) = GatewayPart(st) BY <1>3 DEF Apply
  <2>3. ApplyToUpstreams(st.us, e) \in SUBSET Upstreams BY <1>3 DEF ApplyToUpstreams
  <2> QED BY <1>3, <2>1, <2>2, <2>3 DEF GatewayPart
<1> QED BY <1>1, <1>2, <1>3, ZenonT(30) DEF Edits

\* The store with the allowed edits is a snapshot.
LEMMA AdmittedTyped ==
  ASSUME NEW st \in Snapshots, NEW E, E \subseteq Edits
  PROVE  AdmittedOf(st, E) \in Snapshots
<1>1. \A kind, name, now :
        \/ UpcomingOf(E, kind, name, now) = now
        \/ \E e \in E : e.kind = kind /\ UpcomingOf(E, kind, name, now) = e.to
  BY ZenonT(30) DEF UpcomingOf
<1>2. /\ \A e \in E : e.kind = "gw" => e.to \in Ports \cup {Absent}
      /\ \A e \in E : e.kind = "vs" => e.to \in Configs \cup {Absent}
  BY StoredIs
<1>3. \A g \in Gateways : UpcomingOf(E, "gw", g, st.gw[g]) \in Ports \cup {Absent}
  <2> TAKE g \in Gateways
  <2>1. st.gw[g] \in Ports \cup {Absent} BY DEF Snapshots
  <2> DEFINE next == UpcomingOf(E, "gw", g, st.gw[g])
  <2>2. next = st.gw[g] \/ \E e \in E : e.kind = "gw" /\ next = e.to BY <1>1
  <2> HIDE DEF next
  <2>3. CASE next = st.gw[g] BY <2>1, <2>3 DEF next
  <2>4. CASE \E e \in E : e.kind = "gw" /\ next = e.to BY <1>2, <2>4, Zenon DEF next
  <2> QED BY <2>2, <2>3, <2>4
<1>4. \A v \in Services : UpcomingOf(E, "vs", v, st.vs[v]) \in Configs \cup {Absent}
  <2> TAKE v \in Services
  <2>1. st.vs[v] \in Configs \cup {Absent} BY DEF Snapshots
  <2> QED BY <1>1, <1>2, <2>1
<1> QED BY <1>3, <1>4 DEF AdmittedOf, Snapshots

\* What the parts of the store with the allowed edits are.
LEMMA AdmittedParts ==
  ASSUME NEW st, NEW E
  PROVE  /\ \A g \in Gateways : AdmittedOf(st, E).gw[g] = UpcomingOf(E, "gw", g, st.gw[g])
         /\ \A v \in Services : AdmittedOf(st, E).vs[v] = UpcomingOf(E, "vs", v, st.vs[v])
         /\ \A u \in Upstreams : u \in AdmittedOf(st, E).us <=>
              UpcomingOf(E, "us", u, IF u \in st.us THEN "some" ELSE Absent) # Absent
BY DEF AdmittedOf

\* Snapshots are compared part by part.
LEMMA SameSnapshot ==
  ASSUME NEW s \in Snapshots, NEW t \in Snapshots,
         \A g \in Gateways : s.gw[g] = t.gw[g],
         \A v \in Services : s.vs[v] = t.vs[v],
         \A u \in Upstreams : u \in s.us <=> u \in t.us
  PROVE  s = t
<1>1. s.gw = t.gw /\ s.vs = t.vs /\ s.us = t.us BY ZenonT(30) DEF Snapshots
<1> QED BY <1>1 DEF Snapshots

\* Whether an Upstream is there after an edit.
LEMMA UpstreamAfter ==
  ASSUME NEW us, NEW e \in Edits, NEW u
  PROVE  u \in ApplyToUpstreams(us, e) <=>
           IF e.kind = "us" /\ e.name = u THEN e.to # Absent ELSE u \in us
BY DEF ApplyToUpstreams

\* What the parts of the store with an edit are.
LEMMA StoredParts ==
  ASSUME NEW st \in Snapshots, NEW e \in Edits
  PROVE  /\ \A g \in Gateways : Stored(st, e).gw[g] =
               IF <<e.kind, e.name>> = <<"gw", g>> THEN e.to ELSE st.gw[g]
         /\ \A v \in Services : Stored(st, e).vs[v] =
               IF <<e.kind, e.name>> = <<"vs", v>> THEN e.to ELSE st.vs[v]
         /\ \A u \in Upstreams : u \in Stored(st, e).us <=>
               IF <<e.kind, e.name>> = <<"us", u>> THEN e.to # Absent ELSE u \in st.us
<1>1. CASE e.kind = "gw" BY <1>1, StoredIs DEF Snapshots
<1>2. CASE e.kind = "vs" BY <1>2, StoredIs DEF Snapshots
<1>3. CASE e.kind = "us" BY <1>3, StoredIs, UpstreamAfter DEF Snapshots
<1> QED BY <1>1, <1>2, <1>3, StoredIs, ZenonT(30)

\* An edit that is allowed comes on top of the others.
LEMMA AdmitAdd ==
  ASSUME NEW st \in Snapshots, NEW E, E \subseteq Edits, NEW e \in Edits, Separate(E \cup {e}),
         \A f \in E : <<f.kind, f.name>> # <<e.kind, e.name>>
  PROVE  AdmittedOf(st, E \cup {e}) = Stored(AdmittedOf(st, E), e)
<1> DEFINE s == AdmittedOf(st, E \cup {e})
           t == AdmittedOf(st, E)
<1>1. s \in Snapshots /\ t \in Snapshots /\ Stored(t, e) \in Snapshots
  BY AdmittedTyped, StoredIs
<1>2. \A kind, name, now :
        UpcomingOf(E \cup {e}, kind, name, now) =
          IF <<e.kind, e.name>> = <<kind, name>> THEN e.to ELSE UpcomingOf(E, kind, name, now)
  BY UpcomingHit, UpcomingOther
<1>3. \A g \in Gateways : s.gw[g] = Stored(t, e).gw[g]
  <2> TAKE g \in Gateways
  <2>1. /\ s.gw[g] = UpcomingOf(E \cup {e}, "gw", g, st.gw[g])
        /\ t.gw[g] = UpcomingOf(E, "gw", g, st.gw[g])
    BY AdmittedParts
  <2>2. Stored(t, e).gw[g] = IF <<e.kind, e.name>> = <<"gw", g>> THEN e.to ELSE t.gw[g]
    BY <1>1, StoredParts
  <2> HIDE DEF s, t
  <2> QED BY <1>2, <2>1, <2>2
<1>4. \A v \in Services : s.vs[v] = Stored(t, e).vs[v]
  <2> TAKE v \in Services
  <2>1. /\ s.vs[v] = UpcomingOf(E \cup {e}, "vs", v, st.vs[v])
        /\ t.vs[v] = UpcomingOf(E, "vs", v, st.vs[v])
    BY AdmittedParts
  <2>2. Stored(t, e).vs[v] = IF <<e.kind, e.name>> = <<"vs", v>> THEN e.to ELSE t.vs[v]
    BY <1>1, StoredParts
  <2> HIDE DEF s, t
  <2> QED BY <1>2, <2>1, <2>2
<1>5. \A u \in Upstreams : u \in s.us <=> u \in Stored(t, e).us
  <2> TAKE u \in Upstreams
  <2> DEFINE now == IF u \in st.us THEN "some" ELSE Absent
  <2>1. /\ u \in s.us <=> UpcomingOf(E \cup {e}, "us", u, now) # Absent
        /\ u \in t.us <=> UpcomingOf(E, "us", u, now) # Absent
    BY AdmittedParts, ZenonT(30)
  <2>2. u \in Stored(t, e).us <=> IF <<e.kind, e.name>> = <<"us", u>> THEN e.to # Absent ELSE u \in t.us
    BY <1>1, StoredParts, ZenonT(30)
  <2> HIDE DEF s, t, now
  <2> QED BY <1>2, <2>1, <2>2, ZenonT(30)
<1> QED BY <1>1, <1>3, <1>4, <1>5, SameSnapshot, ZenonT(30)

\* Storing an allowed edit changes nothing of what is to come.
LEMMA AdmitCommit ==
  ASSUME NEW st \in Snapshots, NEW E, E \subseteq Edits, NEW e \in E, Separate(E)
  PROVE  AdmittedOf(Stored(st, e), E \ {e}) = AdmittedOf(st, E)
<1> DEFINE s == AdmittedOf(Stored(st, e), E \ {e})
           t == AdmittedOf(st, E)
<1>0. e \in Edits OBVIOUS
<1>1. s \in Snapshots /\ t \in Snapshots
  <2>1. Stored(st, e) \in Snapshots /\ E \ {e} \subseteq Edits BY <1>0, StoredIs
  <2> QED BY <2>1, AdmittedTyped
<1>2. \A now : UpcomingOf(E, e.kind, e.name, now) = e.to BY UpcomingHit
<1>3. \A f \in E \ {e} : <<f.kind, f.name>> # <<e.kind, e.name>> BY DEF Separate
<1>4. \A now : UpcomingOf(E \ {e}, e.kind, e.name, now) = now BY <1>3, UpcomingMiss
<1>5. \A kind, name, now : <<e.kind, e.name>> # <<kind, name>> =>
        UpcomingOf(E \ {e}, kind, name, now) = UpcomingOf(E, kind, name, now)
  BY UpcomingOther
<1>6. \A g \in Gateways : s.gw[g] = t.gw[g]
  <2> TAKE g \in Gateways
  <2>1. /\ s.gw[g] = UpcomingOf(E \ {e}, "gw", g, Stored(st, e).gw[g])
        /\ t.gw[g] = UpcomingOf(E, "gw", g, st.gw[g])
    BY AdmittedParts
  <2>2. Stored(st, e).gw[g] = IF <<e.kind, e.name>> = <<"gw", g>> THEN e.to ELSE st.gw[g]
    BY <1>0, StoredParts, ZenonT(30)
  <2> HIDE DEF s, t
  <2>3. CASE <<e.kind, e.name>> = <<"gw", g>> BY <1>2, <1>4, <2>1, <2>2, <2>3, ZenonT(30)
  <2>4. CASE <<e.kind, e.name>> # <<"gw", g>> BY <1>5, <2>1, <2>2, <2>4, ZenonT(30)
  <2> QED BY <2>3, <2>4
<1>7. \A v \in Services : s.vs[v] = t.vs[v]
  <2> TAKE v \in Services
  <2>1. /\ s.vs[v] = UpcomingOf(E \ {e}, "vs", v, Stored(st, e).vs[v])
        /\ t.vs[v] = UpcomingOf(E, "vs", v, st.vs[v])
    BY AdmittedParts
  <2>2. Stored(st, e).vs[v] = IF <<e.kind, e.name>> = <<"vs", v>> THEN e.to ELSE st.vs[v]
    BY <1>0, StoredParts, ZenonT(30)
  <2> HIDE DEF s, t
  <2>3. CASE <<e.kind, e.name>> = <<"vs", v>> BY <1>2, <1>4, <2>1, <2>2, <2>3, ZenonT(30)
  <2>4. CASE <<e.kind, e.name>> # <<"vs", v>> BY <1>5, <2>1, <2>2, <2>4, ZenonT(30)
  <2> QED BY <2>3, <2>4
<1>8. \A u \in Upstreams : u \in s.us <=> u \in t.us
  <2> TAKE u \in Upstreams
  <2> DEFINE now(us) == IF u \in us THEN "some" ELSE Absent
  <2>1. /\ u \in s.us <=> UpcomingOf(E \ {e}, "us", u, now(Stored(st, e).us)) # Absent
        /\ u \in t.us <=> UpcomingOf(E, "us", u, now(st.us)) # Absent
    BY AdmittedParts, ZenonT(30)
  <2>2. u \in Stored(st, e).us <=> IF <<e.kind, e.name>> = <<"us", u>> THEN e.to # Absent ELSE u \in st.us
    BY <1>0, StoredParts, ZenonT(30)
  <2> HIDE DEF s, t
  <2>3. CASE <<e.kind, e.name>> = <<"us", u>>
    BY <1>2, <1>4, <2>1, <2>2, <2>3, ObjectsAssumption
  <2>4. CASE <<e.kind, e.name>> # <<"us", u>>
    <3>1. now(Stored(st, e).us) = now(st.us) BY <2>2, <2>4
    <3> HIDE DEF now
    <3> QED BY <1>5, <2>1, <2>4, <3>1, ZenonT(30)
  <2> QED BY <2>3, <2>4
<1> QED BY <1>1, <1>6, <1>7, <1>8, SameSnapshot, ZenonT(30)

-----------------------------------------------------------------------------
(***************************************************************************)
(* What the validator lets pass.                                           *)
(***************************************************************************)
\* More Upstreams do not make a Proxy worse.
LEMMA WarningsFewer ==
  ASSUME NEW listeners, NEW us, NEW more, us \subseteq more, ProxyWarnings(listeners, us) = {}
  PROVE  ProxyWarnings(listeners, more) = {}
BY DEF ProxyWarnings

\* An Upstream that no route needs can go.
LEMMA WarningsMeet ==
  ASSUME NEW listeners, NEW us, NEW other,
         ProxyWarnings(listeners, us) = {}, ProxyWarnings(listeners, other) = {}
  PROVE  ProxyWarnings(listeners, us \cap other) = {}
BY DEF ProxyWarnings

\* No listeners, no complaints.
LEMMA NothingAccepted ==
  ASSUME NEW us PROVE GlooAccepts({}, us)
<1>1. Hosts({}) = {} BY DEF Hosts
<1> QED BY <1>1 DEF GlooAccepts, ProxyErrors, ProxyWarnings

\* The store stays valid with an edit that passes, if every Upstream the server
\* knows is there.  For an edit of an Upstream that is not needed: the server
\* judges it by the routes of a store that was valid.
LEMMA PassedValid ==
  ASSUME NEW s \in Snapshots, NEW e \in Edits, Valid(s), Passes(GatewayPart(s), e),
         server # NoSnapshot /\ e.kind # "us" => server \subseteq s.us
  PROVE  Valid(Stored(s, e))
<1> DEFINE t == Stored(s, e)
           L == Translate(t.gw, t.vs)
<1>1. t.gw = Apply(GatewayPart(s), e).gw /\ t.vs = Apply(GatewayPart(s), e).vs
  <2>1. GatewayPart(t) = Apply(GatewayPart(s), e) BY StoredIs, ZenonT(30)
  <2>2. GatewayPart(t).gw = t.gw /\ GatewayPart(t).vs = t.vs BY ZenonT(30) DEF GatewayPart
  <2> QED BY <2>1, <2>2, ZenonT(30)
<1>2. /\ TranslationErrors(t.gw, t.vs) = {}
      /\ L # {} => server # NoSnapshot /\ GlooAccepts(L, ApplyToUpstreams(server, e))
  BY <1>1, ZenonT(30) DEF Passes
<1>3. t.us = ApplyToUpstreams(s.us, e)
  <2>1. CASE e.kind # "us" BY <2>1, StoredIs DEF ApplyToUpstreams
  <2>2. CASE e.kind = "us" BY <2>2, StoredIs
  <2> QED BY <2>1, <2>2, ZenonT(30)
<1>4. CASE L = {} BY <1>2, <1>4, NothingAccepted, ZenonT(30) DEF Valid
<1>5. CASE L # {} /\ e.kind # "us"
  <2>1. t.us = s.us /\ ApplyToUpstreams(server, e) = server
    BY <1>3, <1>5, ZenonT(30) DEF ApplyToUpstreams
  <2>2. GlooAccepts(L, t.us) BY <1>2, <1>5, <2>1, WarningsFewer, ZenonT(30) DEF GlooAccepts
  <2> QED BY <1>2, <2>2, ZenonT(30) DEF Valid
<1>6. CASE L # {} /\ e.kind = "us"
  <2>1. t.gw = s.gw /\ t.vs = s.vs BY <1>6, StoredIs
  <2>2. GlooAccepts(L, s.us) BY <2>1, ZenonT(30) DEF Valid
  <2>3. s.us \cap ApplyToUpstreams(server, e) \subseteq t.us
    BY <1>3, <1>6, ZenonT(30) DEF ApplyToUpstreams
  <2>4. GlooAccepts(L, t.us)
    BY <1>2, <1>6, <2>2, <2>3, WarningsMeet, WarningsFewer, ZenonT(30) DEF GlooAccepts
  <2> QED BY <1>2, <2>4 DEF Valid
<1> QED BY <1>4, <1>5, <1>6, ZenonT(30)

\* The validator's snapshot stays one, and its error says whether the translation
\* refuses it, through every edit that is validated.
LEMMA AfterTyped ==
  ASSUME NEW s \in GatewaySnapshots, NEW e \in Edits
  PROVE  After(s, e) \in GatewaySnapshots
<1>1. Apply(s, e) \in GatewaySnapshots
  <2>1. CASE e \in [kind : {"gw"}, name : Gateways, to : Ports \cup {Absent}]
    BY <2>1 DEF Apply, GatewaySnapshots
  <2>2. CASE e \in [kind : {"vs"}, name : Services, to : Configs \cup {Absent}]
    BY <2>2 DEF Apply, GatewaySnapshots
  <2>3. CASE e \in [kind : {"us"}, name : Upstreams, to : {"some", Absent}]
    BY <2>3 DEF Apply
  <2> QED BY <2>1, <2>2, <2>3 DEF Edits
<1> QED BY <1>1 DEF After

Refused(s) == TranslationErrors(s.gw, s.vs) # {}

\* The snapshot that the validator keeps stays as broken or as whole as it was.
LEMMA AfterRefused ==
  ASSUME NEW s, NEW e, latestSnapshotErr <=> Refused(s)
  PROVE  latestSnapshotErr <=> Refused(After(s, e))
<1>1. CASE ~latestSnapshotErr /\ Allows(s, e)
  <2>1. Passes(s, e) BY <1>1 DEF Allows
  <2>2. ~Refused(Apply(s, e)) BY <2>1, ZenonT(30) DEF Passes, Refused
  <2> QED BY <1>1, <2>2 DEF After
<1>2. CASE ~(~latestSnapshotErr /\ Allows(s, e)) BY <1>2 DEF After
<1> QED BY <1>1, <1>2

-----------------------------------------------------------------------------
(***************************************************************************)
(* The inductive invariant.                                                *)
(***************************************************************************)
\* Unless it is exposed, the validator's snapshot is the store with all that was
\* allowed, and that is valid.
AdmittedInv ==
  ~exposed => /\ Valid(Admitted)
              /\ latestSnapshot = NoSnapshot \/ latestSnapshot = GatewayPart(Admitted)

\* Validation is disabled while the translation refuses the validator's own
\* snapshot, and between syncs while it refuses the event loop's.
ErrInv ==
  /\ loop # "wait" => snap # NoSnapshot
  /\ latestSnapshot # NoSnapshot => (latestSnapshotErr <=> Refused(latestSnapshot))
  /\ loop = "wait" /\ snap # NoSnapshot => (latestSnapshotErr <=> Refused(snap))

\* A Gateway's listener that is stored twice is the same, and the Proxy is up to
\* date with the event loop's snapshot once it was written.
OneListenerEach(p) ==
  \A i, j \in DOMAIN p : p[i].source = p[j].source => p[i] = p[j]
ProxyInv ==
  /\ OneListenerEach(proxy)
  /\ ~unwritten /\ snap # NoSnapshot => UpToDate(proxy, snap)

IInv == TypeOK /\ Separate(pending) /\ AdmittedInv /\ ErrInv /\ ProxyInv

\* The Proxy stays up to date while it and the event loop's snapshot stay.
LEMMA ProxyStays ==
  ASSUME ProxyInv, UNCHANGED <<snap, proxy, unwritten>>
  PROVE  ProxyInv'
<1>1. OneListenerEach(proxy)' BY ZenonT(30) DEF ProxyInv, OneListenerEach
<1>2. ~unwritten' /\ snap' # NoSnapshot => UpToDate(proxy, snap)'
  BY ZenonT(30) DEF ProxyInv, UpToDate
<1> QED BY <1>1, <1>2, ZenonT(30) DEF ProxyInv

\* What is admitted is read off the store and the requests in flight alone.
LEMMA AdmittedIs ==
  /\ Admitted = AdmittedOf(store, pending)
  /\ Admitted' = AdmittedOf(store', pending')
BY ZenonT(30) DEF Admitted, Upcoming, AdmittedOf, UpcomingOf

\* The validator has no snapshot at first; the store is valid.
LEMMA InitIInv == Init => IInv
<1> SUFFICES ASSUME Init PROVE IInv
  OBVIOUS
<1>1. store \in Snapshots
  BY ObjectsAssumption, FirstAssumption, ZenonT(30) DEF Init, Snapshots
<1>2. TypeOK
  <2>1. 0 \in 0..MaxEdits /\ 0 \in 0..MaxFaults BY EditBoundsAssumption
  <2>2. latestSnapshotErr \in BOOLEAN /\ exposed \in BOOLEAN /\ unwritten \in BOOLEAN
    BY ZenonT(30) DEF Init, ValidationInit
  <2> QED BY <1>1, <2>1, <2>2 DEF Init, ValidationInit, TypeOK
<1>3. Separate(pending) /\ ProxyInv
  BY DEF Init, Separate, ProxyInv, OneListenerEach
<1>4. AdmittedOf(store, {}) = store
  <2>1. AdmittedOf(store, {}) \in Snapshots BY <1>1, AdmittedTyped
  <2>2. \A kind, name, now : UpcomingOf({}, kind, name, now) = now BY UpcomingMiss
  <2>3. \A u \in Upstreams : u \in AdmittedOf(store, {}).us <=> u \in store.us
    <3> TAKE u \in Upstreams
    <3> DEFINE now == IF u \in store.us THEN "some" ELSE Absent
    <3>1. u \in AdmittedOf(store, {}).us <=> now # Absent BY <2>2, AdmittedParts
    <3> QED BY <3>1, ObjectsAssumption, ZenonT(30)
  <2>4. /\ \A g \in Gateways : AdmittedOf(store, {}).gw[g] = store.gw[g]
        /\ \A v \in Services : AdmittedOf(store, {}).vs[v] = store.vs[v]
    BY <2>2, AdmittedParts
  <2> QED BY <1>1, <2>1, <2>3, <2>4, SameSnapshot, ZenonT(30)
<1>5. Valid(store)
  <2>1. Present(store.gw) = {FirstGateway} /\ Present(store.vs) = {FirstService}
    BY ObjectsAssumption, FirstAssumption, ZenonT(30) DEF Init, Present
  <2>2. TranslationErrors(store.gw, store.vs) = {}
    BY <2>1, ZenonT(30) DEF TranslationErrors, SamePort, Conflicting
  <2>3. Hosts(Translate(store.gw, store.vs)) = {Host(FirstService, store.vs)}
    <3> DEFINE l == Listener(FirstGateway, store.gw, store.vs)
    <3>1. l.hosts = {Host(v, store.vs) : v \in {FirstService}}
      BY <2>1, ZenonT(30) DEF Listener
    <3>2. Translate(store.gw, store.vs) = {l} BY <2>1 DEF Translate
    <3> HIDE DEF l
    <3> QED BY <3>1, <3>2, ZenonT(30) DEF Hosts
  <2>4. Host(FirstService, store.vs).config = FirstConfig
    BY FirstAssumption, ZenonT(30) DEF Host, Init
  <2>5. store.us = Upstreams BY ZenonT(30) DEF Init
  <2>6. ProxyErrors(Translate(store.gw, store.vs)) = {}
    BY <2>3, <2>4, FirstAssumption, ZenonT(30) DEF ProxyErrors
  <2>7. ProxyWarnings(Translate(store.gw, store.vs), store.us) = {}
    BY <2>3, <2>4, <2>5, FirstAssumption, ZenonT(30) DEF ProxyWarnings
  <2> QED BY <2>2, <2>6, <2>7, ZenonT(30) DEF Valid, GlooAccepts
<1>6. AdmittedInv BY <1>4, <1>5, AdmittedIs, ZenonT(30) DEF Init, ValidationInit, AdmittedInv
<1>7. ErrInv BY ZenonT(30) DEF Init, ValidationInit, ErrInv
<1> QED BY <1>2, <1>3, <1>6, <1>7 DEF IInv

\* The webhook allows an edit: the validator's snapshot follows.
LEMMA AskStep ==
  ASSUME IInv, NEW e \in Edits, Ask(e)
  PROVE  IInv'
<1> USE DEF IInv
<1>1. latestSnapshot # NoSnapshot /\ latestSnapshot \in GatewaySnapshots
  BY ZenonT(30) DEF Ask, Allows, TypeOK
<1>2. latestSnapshot' = After(latestSnapshot, e) /\ UNCHANGED <<server, latestSnapshotErr>>
  BY ZenonT(30) DEF Ask, Validate
<1>3. After(latestSnapshot, e) \in GatewaySnapshots BY <1>1, AfterTyped
<1>4. TypeOK'
  <2>1. exposed' \in BOOLEAN BY DEF Ask
  <2>2. edits' \in 0..MaxEdits BY EditBoundsAssumption DEF Ask, TypeOK
  <2> QED BY <1>2, <1>3, <2>1, <2>2, ZenonT(30) DEF Ask, TypeOK
<1>5. Separate(pending)' BY ZenonT(30) DEF Ask, Sensible, Separate
<1>6. AdmittedInv'
  <2> SUFFICES ASSUME ~exposed' PROVE Valid(Admitted') /\ latestSnapshot' = GatewayPart(Admitted')
    BY DEF AdmittedInv
  <2>1. ~exposed /\ ~latestSnapshotErr /\ ~(DeletionUnseen /\ e.kind # "us")
    BY ZenonT(30) DEF Ask
  <2>2. latestSnapshot = GatewayPart(Admitted) /\ Valid(Admitted)
    BY <1>1, <2>1 DEF AdmittedInv
  <2>3. Admitted \in Snapshots BY AdmittedIs, AdmittedTyped, ZenonT(30) DEF TypeOK
  <2>4. Admitted' = Stored(Admitted, e)
    <3>1. pending' = pending \cup {e} /\ store' = store BY DEF Ask
    <3>2. \A f \in pending : <<f.kind, f.name>> # <<e.kind, e.name>>
      BY ZenonT(30) DEF Ask, Sensible
    <3>3. Separate(pending \cup {e}) BY <1>5, <3>1 DEF Separate
    <3> QED BY <3>1, <3>2, <3>3, AdmittedIs, AdmitAdd, ZenonT(30) DEF TypeOK
  <2>5. Passes(GatewayPart(Admitted), e) BY <2>1, <2>2, ZenonT(30) DEF Ask, Allows
  <2>6. Valid(Stored(Admitted, e))
    BY <2>1, <2>2, <2>3, <2>5, PassedValid, ZenonT(30) DEF DeletionUnseen
  <2>7. After(latestSnapshot, e) = Apply(GatewayPart(Admitted), e)
    BY <2>1, <2>2, ZenonT(30) DEF Ask, After
  <2> QED BY <1>2, <2>3, <2>4, <2>6, <2>7, StoredIs, ZenonT(30)
<1>7. ErrInv'
  <2>1. latestSnapshotErr <=> Refused(After(latestSnapshot, e))
    BY <1>1, AfterRefused DEF ErrInv
  <2> QED BY <1>2, <2>1, ZenonT(30) DEF Ask, ErrInv, Refused
<1>8. ProxyInv' BY ZenonT(30) DEF Ask, ProxyInv, OneListenerEach, UpToDate
<1> QED BY <1>4, <1>5, <1>6, <1>7, <1>8

\* The same for a list of two: the second is judged with the first applied.  When
\* the second fails the first stays applied, and the validator is exposed.
LEMMA AskListStep ==
  ASSUME IInv, NEW e \in Edits, NEW f \in Edits, AskList(e, f)
  PROVE  IInv'
<1> USE DEF IInv
<1> DEFINE once == After(latestSnapshot, e)
           twice == After(once, f)
<1>1. latestSnapshot # NoSnapshot /\ latestSnapshot \in GatewaySnapshots
  BY ZenonT(30) DEF AskList, ValidateList, TypeOK
<1>2. latestSnapshot' = twice /\ UNCHANGED <<server, latestSnapshotErr>>
  BY ZenonT(30) DEF AskList, ValidateList
<1>3. once \in GatewaySnapshots /\ twice \in GatewaySnapshots BY <1>1, AfterTyped
<1>4. TypeOK'
  <2>1. exposed' \in BOOLEAN BY ZenonT(30) DEF AskList
  <2>2. edits' \in 0..MaxEdits BY EditBoundsAssumption DEF AskList, TypeOK
  <2>3. pending' \subseteq Edits BY ZenonT(30) DEF AskList, TypeOK
  <2> HIDE DEF once, twice
  <2> QED BY <1>2, <1>3, <2>1, <2>2, <2>3, ZenonT(30) DEF AskList, TypeOK
<1>5. Separate(pending \cup {e}) /\ Separate((pending \cup {e}) \cup {f})
  BY ZenonT(30) DEF AskList, Sensible, Separate
<1>6. Separate(pending)'
  <2>1. pending' = pending \/ pending' = pending \cup {e, f} BY ZenonT(30) DEF AskList
  <2>2. pending \cup {e, f} = (pending \cup {e}) \cup {f} OBVIOUS
  <2> QED BY <1>5, <2>1, <2>2, ZenonT(30) DEF Separate
<1>7. AdmittedInv'
  <2> SUFFICES ASSUME ~exposed' PROVE Valid(Admitted') /\ latestSnapshot' = GatewayPart(Admitted')
    BY DEF AdmittedInv
  <2>1. /\ ~exposed /\ ~latestSnapshotErr /\ ~DeletionUnseen
        /\ AllowsList(e, f) \/ latestSnapshot' = latestSnapshot
    BY ZenonT(30) DEF AskList
  <2>2. latestSnapshot = GatewayPart(Admitted) /\ Valid(Admitted)
    BY <1>1, <2>1, ZenonT(30) DEF AdmittedInv
  <2>3. Admitted \in Snapshots BY AdmittedIs, AdmittedTyped, ZenonT(30) DEF TypeOK
  <2>4. CASE ~AllowsList(e, f)
    <3>1. pending' = pending /\ store' = store BY <2>4, ZenonT(30) DEF AskList
    <3> QED BY <2>1, <2>2, <2>4, <3>1, AdmittedIs, ZenonT(30)
  <2>5. CASE AllowsList(e, f)
    <3> DEFINE a == Stored(Admitted, e)
    <3>1. pending' = (pending \cup {e}) \cup {f} /\ store' = store
      BY <2>5, ZenonT(30) DEF AskList
    <3>2. AdmittedOf(store, pending \cup {e}) = a
      <4>1. \A x \in pending : <<x.kind, x.name>> # <<e.kind, e.name>>
        BY ZenonT(30) DEF AskList, Sensible
      <4> QED BY <1>5, <4>1, AdmittedIs, AdmitAdd, ZenonT(30) DEF TypeOK
    <3>3. Admitted' = Stored(a, f)
      <4>1. \A x \in pending \cup {e} : <<x.kind, x.name>> # <<f.kind, f.name>>
        BY ZenonT(30) DEF AskList, Sensible
      <4>2. pending \cup {e} \subseteq Edits /\ store \in Snapshots BY ZenonT(30) DEF TypeOK
      <4>3. AdmittedOf(store, (pending \cup {e}) \cup {f}) = Stored(AdmittedOf(store, pending \cup {e}), f)
        BY <1>5, <4>1, <4>2, AdmitAdd
      <4> QED BY <3>1, <3>2, <4>3, AdmittedIs, ZenonT(30)
    <3>4. a \in Snapshots /\ GatewayPart(a) = Apply(GatewayPart(Admitted), e)
      BY <2>3, StoredIs, ZenonT(30)
    <3>5. Passes(GatewayPart(Admitted), e) /\ once = GatewayPart(a)
      BY <2>1, <2>2, <2>5, <3>4, ZenonT(30) DEF AllowsList, Allows, After
    <3>6. Passes(GatewayPart(a), f) /\ twice = Apply(GatewayPart(a), f)
      <4>1. Allows(once, f) BY <2>5 DEF AllowsList
      <4> HIDE DEF once
      <4> QED BY <2>1, <3>5, <4>1, ZenonT(30) DEF Allows, After
    <3>7. Valid(a) BY <2>1, <2>2, <2>3, <3>5, PassedValid, ZenonT(30) DEF DeletionUnseen
    <3>8. Admitted.us \subseteq a.us
      <4>1. e.to # Absent BY ZenonT(30) DEF AskList
      <4>2. a.us \in SUBSET Upstreams /\ Admitted.us \in SUBSET Upstreams
        BY <2>3, <3>4, ZenonT(30) DEF Snapshots
      <4> QED BY <2>3, <4>1, <4>2, StoredParts, ZenonT(30)
    <3>9. Valid(Stored(a, f))
      <4>1. server # NoSnapshot => server \subseteq a.us
        BY <2>1, <3>8, ZenonT(30) DEF DeletionUnseen
      <4> HIDE DEF a
      <4> QED BY <3>4, <3>6, <3>7, <4>1, PassedValid, ZenonT(30)
    <3> HIDE DEF a
    <3>10. GatewayPart(Stored(a, f)) = Apply(GatewayPart(a), f) BY <3>4, StoredIs, ZenonT(30)
    <3> QED BY <1>2, <3>3, <3>6, <3>9, <3>10, ZenonT(30)
  <2> QED BY <2>4, <2>5, ZenonT(30)
<1>8. ErrInv'
  <2>1. latestSnapshotErr <=> Refused(once) BY <1>1, AfterRefused, ZenonT(30) DEF ErrInv
  <2>2. latestSnapshotErr <=> Refused(twice) BY <2>1, AfterRefused
  <2> HIDE DEF twice
  <2> QED BY <1>2, <2>2, ZenonT(30) DEF AskList, ErrInv, Refused
<1>9. ProxyInv'
  <2>1. UNCHANGED <<proxy, snap, unwritten>> BY ZenonT(30) DEF AskList
  <2> QED BY <2>1, ProxyStays, ZenonT(30)
<1> QED BY <1>4, <1>6, <1>7, <1>8, <1>9

\* An allowed edit is stored: what is to come does not change.
LEMMA CommitStep ==
  ASSUME IInv, NEW e \in pending, Commit(e)
  PROVE  IInv'
<1> USE DEF IInv
<1>0. e \in Edits BY ZenonT(30) DEF TypeOK
<1>1. store' \in Snapshots BY <1>0, StoredIs, ZenonT(30) DEF Commit, TypeOK
<1>2. TypeOK' BY <1>1, ZenonT(30) DEF Commit, TypeOK, validationVars
<1>3. Separate(pending)' BY ZenonT(30) DEF Commit, Separate
<1>4. AdmittedInv'
  <2>1. Admitted' = Admitted BY AdmittedIs, AdmitCommit, ZenonT(30) DEF Commit, TypeOK
  <2> QED BY <2>1, ZenonT(30) DEF AdmittedInv, Commit, validationVars
<1>5. ErrInv'
  <2>1. UNCHANGED <<snap, loop, latestSnapshot, latestSnapshotErr>>
    BY DEF Commit, validationVars
  <2> QED BY <2>1 DEF ErrInv, Refused
<1>6. ProxyInv'
  <2>1. UNCHANGED <<snap, proxy, unwritten>> BY DEF Commit
  <2> QED BY <2>1, ProxyStays, ZenonT(30)
<1> QED BY <1>2, <1>3, <1>4, <1>5, <1>6

\* An edit gets lost, or passes the webhook by: the validator is exposed.
LEMMA FaultStep ==
  ASSUME IInv, NEW e \in Edits, Lose(e) \/ Bypass(e)
  PROVE  IInv'
<1> USE DEF IInv
<1>1. store' \in Snapshots BY StoredIs, ZenonT(30) DEF Lose, Bypass, TypeOK
<1>2. pending' \subseteq pending BY ZenonT(30) DEF Lose, Bypass
<1>3. TypeOK'
  <2>1. edits' \in 0..MaxEdits /\ faults' \in 0..MaxFaults
    BY EditBoundsAssumption, SMTT(20) DEF Lose, Bypass, TypeOK
  <2>2. exposed' = TRUE /\ UNCHANGED <<snap, loop, proxy, validationVars, unwritten>>
    BY ZenonT(30) DEF Lose, Bypass
  <2>3. exposed' \in BOOLEAN BY <2>2
  <2> QED BY <1>1, <1>2, <2>1, <2>2, <2>3, ZenonT(30) DEF TypeOK, validationVars
<1>4. Separate(pending)' BY <1>2 DEF Separate
<1>5. AdmittedInv' BY ZenonT(30) DEF Lose, Bypass, AdmittedInv
<1>6. UNCHANGED <<snap, loop, proxy, validationVars, unwritten>>
  BY ZenonT(30) DEF Lose, Bypass
<1>7. ErrInv'
  <2>1. UNCHANGED <<snap, loop, latestSnapshot, latestSnapshotErr>> BY <1>6 DEF validationVars
  <2> QED BY <2>1 DEF ErrInv, Refused
<1>8. ProxyInv'
  <2>1. UNCHANGED <<snap, proxy, unwritten>> BY <1>6
  <2> QED BY <2>1, ProxyStays, ZenonT(30)
<1> QED BY <1>3, <1>4, <1>5, <1>7, <1>8

\* A new snapshot, of parts of the store.
LEMMA EmitStep == ASSUME IInv, Emit PROVE IInv'
<1> USE DEF IInv
<1>1. snap' \in Snapshots
  <2>1. CASE snap = NoSnapshot BY <2>1, ZenonT(30) DEF Emit, TypeOK
  <2>2. CASE snap # NoSnapshot
    <3>1. PICK new \in SUBSET {"gw", "vs", "us"} :
            snap' = [k \in DOMAIN snap |-> IF k \in new THEN store[k] ELSE snap[k]]
      BY <2>2, ZenonT(30) DEF Emit
    <3>2. snap \in Snapshots /\ store \in Snapshots BY <2>2, ZenonT(30) DEF TypeOK
    <3>3. snap' = [gw |-> IF "gw" \in new THEN store.gw ELSE snap.gw,
                   vs |-> IF "vs" \in new THEN store.vs ELSE snap.vs,
                   us |-> IF "us" \in new THEN store.us ELSE snap.us]
      BY <3>1, <3>2, ZenonT(30) DEF Snapshots
    <3> QED BY <3>2, <3>3, ZenonT(30) DEF Snapshots
  <2> QED BY <2>1, <2>2
<1>2. snap' # NoSnapshot BY <1>1, SnapshotAssumption, ZenonT(30)
<1>3. UNCHANGED <<store, pending, proxy, validationVars, edits, faults, exposed>>
      /\ loop' = "server" /\ unwritten' = TRUE
  BY ZenonT(30) DEF Emit
<1>4. unwritten' \in BOOLEAN BY <1>3, ZenonT(30)
<1>5. TypeOK' BY <1>1, <1>3, <1>4, ZenonT(30) DEF TypeOK, validationVars
<1>6. Separate(pending)' BY <1>3, ZenonT(30) DEF Separate
<1>7. AdmittedInv' BY <1>3, AdmittedIs, ZenonT(30) DEF AdmittedInv, validationVars
<1>8. ErrInv' BY <1>2, <1>3, ZenonT(30) DEF ErrInv, Refused, validationVars
<1>9. ProxyInv' BY <1>3, ZenonT(30) DEF ProxyInv, OneListenerEach
<1> QED BY <1>5, <1>6, <1>7, <1>8, <1>9

\* The validation server gets the snapshot.
LEMMA ServerStep == ASSUME IInv, SyncServer PROVE IInv'
<1> USE DEF IInv
<1>1. snap \in Snapshots BY ZenonT(30) DEF SyncServer, ErrInv, TypeOK
<1>2. /\ UNCHANGED <<store, pending, snap, proxy, edits, faults, exposed, unwritten>>
      /\ UNCHANGED <<latestSnapshot, latestSnapshotErr>>
      /\ server' = snap.us /\ loop = "server" /\ loop' = "gateway"
  BY ZenonT(30) DEF SyncServer, ServerSync
<1>3. TypeOK' BY <1>1, <1>2, ZenonT(30) DEF TypeOK, Snapshots
<1>4. Separate(pending)' BY <1>2, ZenonT(30) DEF Separate
<1>5. AdmittedInv' BY <1>2, AdmittedIs, ZenonT(30) DEF AdmittedInv
<1>6. ErrInv' BY <1>2, ZenonT(30) DEF ErrInv, Refused
<1>7. ProxyInv' BY <1>2, ZenonT(30) DEF ProxyInv, OneListenerEach, UpToDate
<1> QED BY <1>3, <1>4, <1>5, <1>6, <1>7

\* The validator takes the snapshot over: it is exposed unless that is what it
\* had, or all that was allowed.
LEMMA ValidatorStep == ASSUME IInv, SyncValidator PROVE IInv'
<1> USE DEF IInv
<1>1. snap \in Snapshots /\ GatewayPart(snap) \in GatewaySnapshots /\ snap # NoSnapshot
      /\ GatewayPart(snap) # NoSnapshot
  <2>1. snap \in Snapshots /\ snap # NoSnapshot
    BY ZenonT(30) DEF SyncValidator, ErrInv, TypeOK
  <2>2. GatewayPart(snap) \in GatewaySnapshots
    BY <2>1, ZenonT(30) DEF Snapshots, GatewaySnapshots, GatewayPart
  <2> QED BY <2>1, <2>2, SnapshotAssumption, ZenonT(30)
<1>2. /\ UNCHANGED <<store, pending, snap, proxy, edits, faults, unwritten, server>>
      /\ loop' = "wait" /\ latestSnapshot' = GatewayPart(snap)
  BY ZenonT(30) DEF SyncValidator, ValidatorSync
<1>3. Refused(GatewayPart(snap)) <=> Refused(snap) BY ZenonT(30) DEF Refused, GatewayPart
<1>4. latestSnapshotErr' \in BOOLEAN /\ (latestSnapshotErr' <=> Refused(snap))
  <2>1. CASE latestSnapshot = GatewayPart(snap)
    <3>1. latestSnapshotErr' = latestSnapshotErr
      BY <2>1, ZenonT(30) DEF SyncValidator, ValidatorSync
    <3> QED BY <1>1, <1>3, <2>1, <3>1, ZenonT(30) DEF ErrInv, TypeOK
  <2>2. CASE latestSnapshot # GatewayPart(snap)
    <3>1. latestSnapshotErr' = Refused(snap)
      BY <2>2, ZenonT(30) DEF SyncValidator, ValidatorSync, Refused
    <3>2. Refused(snap) \in BOOLEAN BY DEF Refused
    <3> QED BY <3>1, <3>2
  <2> QED BY <2>1, <2>2, ZenonT(30)
<1>5. exposed' \in BOOLEAN BY ZenonT(30) DEF SyncValidator
<1>6. TypeOK' BY <1>1, <1>2, <1>4, <1>5, ZenonT(30) DEF TypeOK
<1>7. Separate(pending)' BY <1>2, ZenonT(30) DEF Separate
<1>8. AdmittedInv'
  <2>1. Admitted' = Admitted BY <1>2, AdmittedIs, ZenonT(30)
  <2> SUFFICES ASSUME ~exposed' PROVE Valid(Admitted) /\ latestSnapshot' = GatewayPart(Admitted)
    BY <2>1, ZenonT(30) DEF AdmittedInv
  <2>2. latestSnapshot' = GatewayPart(Admitted) /\ (exposed => Valid(Admitted))
    BY ZenonT(30) DEF SyncValidator
  <2> QED BY <2>2, ZenonT(30) DEF AdmittedInv
<1>9. ErrInv' BY <1>1, <1>2, <1>3, <1>4, ZenonT(30) DEF ErrInv, Refused
<1>10. ProxyInv' BY <1>2, ZenonT(30) DEF ProxyInv, OneListenerEach, UpToDate
<1> QED BY <1>6, <1>7, <1>8, <1>9, <1>10
=============================================================================
