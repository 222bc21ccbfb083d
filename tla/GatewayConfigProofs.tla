------------------------ MODULE GatewayConfigProofs ------------------------
(***************************************************************************)
(* GatewayConfig: what ReconcileProxies stores (the sort loses no          *)
(* listener, the list is well formed and up to date, a rejected            *)
(* VirtualService is served as before), and the theorems.                  *)
(***************************************************************************)
EXTENDS GatewayAdmissionProofs, FiniteSetTheorems

\* What the sort may rely on: a listener is known by its name and its place.
Sortable(A) ==
  /\ IsFiniteSet(A)
  /\ \A a \in A : a.listener.name \in Nat /\ a.place \in Nat
  /\ \A a, b \in A : a.listener.name = b.listener.name /\ a.place = b.place => a = b

\* For every number of listeners that can come before, one has that many.
LEMMA RankOnto ==
  ASSUME NEW A, Sortable(A)
  PROVE  \A k \in 1..Cardinality(A) :
           \E a \in A : Cardinality({b \in A : Precedes(b, a)}) = k - 1
<1> DEFINE Below(a) == {b \in A : Precedes(b, a)}
           n == Cardinality(A)
           rank == [a \in A |-> Cardinality(Below(a))]
<1>0. IsFiniteSet(A) BY DEF Sortable
<1>1. n \in Nat BY <1>0, FS_CardinalityType
<1>2. \A a \in A : IsFiniteSet(Below(a)) /\ Cardinality(Below(a)) \in Nat
  <2> TAKE a \in A
  <2>1. Below(a) \in SUBSET A OBVIOUS
  <2>2. IsFiniteSet(Below(a)) BY <1>0, <2>1, FS_Subset
  <2> QED BY <2>2, FS_CardinalityType
<1>3. \A a \in A : Cardinality(Below(a)) \in 0..n-1
  <2> TAKE a \in A
  <2>1. a \notin Below(a) BY DEF Precedes, Sortable
  <2>2. Below(a) \in SUBSET (A \ {a}) BY <2>1
  <2>3. IsFiniteSet(A \ {a}) /\ Cardinality(A \ {a}) = n - 1 BY <1>0, FS_RemoveElement
  <2>4. Cardinality(Below(a)) <= n - 1 BY <2>2, <2>3, FS_Subset
  <2> HIDE DEF Below, n
  <2> QED BY <1>1, <1>2, <2>4
<1>4. ASSUME NEW a \in A, NEW b \in A, Precedes(a, b)
      PROVE  Cardinality(Below(a)) < Cardinality(Below(b))
  <2>1. a \notin Below(a) BY DEF Precedes, Sortable
  <2>2. \A c \in A : Precedes(c, a) => Precedes(c, b) BY <1>4 DEF Precedes, Sortable
  <2>3. Below(a) \cup {a} \in SUBSET Below(b) BY <1>4, <2>2, ZenonT(30)
  <2>4. Cardinality(Below(a) \cup {a}) = Cardinality(Below(a)) + 1
    BY <1>2, <2>1, FS_AddElement, ZenonT(30)
  <2>5. Cardinality(Below(a) \cup {a}) <= Cardinality(Below(b)) BY <1>2, <2>3, FS_Subset
  <2> HIDE DEF Below
  <2> QED BY <1>2, <2>4, <2>5
<1>5. rank \in Injection(A, 0..n-1)
  <2>1. rank \in [A -> 0..n-1] BY <1>3
  <2>2. \A a, b \in A : a = b \/ Precedes(a, b) \/ Precedes(b, a)
    BY DEF Precedes, Sortable
  <2>3. \A a, b \in A : rank[a] = rank[b] => a = b
    <3> SUFFICES ASSUME NEW a \in A, NEW b \in A, a # b PROVE rank[a] # rank[b]
      BY ZenonT(30)
    <3> HIDE DEF Below
    <3>1. CASE Precedes(a, b) BY <1>2, <1>4, <3>1
    <3>2. CASE Precedes(b, a) BY <1>2, <1>4, <3>2
    <3> QED BY <2>2, <3>1, <3>2, ZenonT(30)
  <2> QED BY <2>1, <2>3, ZenonT(30) DEF Injection, IsInjective
<1>6. IsFiniteSet(0..n-1) /\ Cardinality(0..n-1) = n
  <2> HIDE DEF n
  <2>1. n - 1 \in Int /\ 0 \in Int BY <1>1
  <2> QED BY <1>1, <2>1, FS_Interval
<1>7. rank \in Surjection(A, 0..n-1) BY <1>5, <1>6, FS_Injection, ZenonT(30)
<1>8. \A k \in 1..n : k - 1 \in 0..n-1 BY <1>1
<1>9. \A m \in 0..n-1 : \E a \in A : rank[a] = m BY <1>7, ZenonT(30) DEF Surjection
<1> QED BY <1>8, <1>9, ZenonT(30)

\* The sort loses no listener and doubles none.
LEMMA SortedListeners ==
  ASSUME NEW A, Sortable(A)
  PROVE  /\ DOMAIN SortByName(A) = 1..Cardinality(A) /\ Cardinality(A) \in Nat
         /\ \A k \in DOMAIN SortByName(A) : \E a \in A : SortByName(A)[k] = a.listener
         /\ \A a \in A : \E k \in DOMAIN SortByName(A) : SortByName(A)[k] = a.listener
<1> DEFINE Below(a) == {b \in A : Precedes(b, a)}
           at(k) == CHOOSE a \in A : Cardinality(Below(a)) = k - 1
           n == Cardinality(A)
<1>0. IsFiniteSet(A) BY DEF Sortable
<1>1. n \in Nat BY <1>0, FS_CardinalityType
<1>2. SortByName(A) = [k \in 1..n |-> at(k).listener] BY DEF SortByName
<1>3. \A k \in 1..n : \E a \in A : Cardinality(Below(a)) = k - 1 BY RankOnto, ZenonT(30)
<1> HIDE DEF Below, n
<1>4. \A k \in 1..n : at(k) \in A /\ Cardinality(Below(at(k))) = k - 1 BY <1>3
<1>5. \A a \in A : \E k \in 1..n : at(k) = a
  <2> HIDE DEF at
  <2>1. [k \in 1..n |-> at(k)] \in Injection(1..n, A)
    <3>1. [k \in 1..n |-> at(k)] \in [1..n -> A] BY <1>4, ZenonT(30)
    <3>2. \A k, m \in 1..n : at(k) = at(m) => k = m
      <4> TAKE k, m \in 1..n
      <4> HAVE at(k) = at(m)
      <4>1. k - 1 = m - 1 BY <1>4
      <4> QED BY <4>1, <1>1
    <3> QED BY <3>1, <3>2, ZenonT(30) DEF Injection, IsInjective
  <2>2. Cardinality(1..n) = n BY <1>1, FS_Interval
  <2>3. [k \in 1..n |-> at(k)] \in Surjection(1..n, A)
    BY <1>0, <2>1, <2>2, FS_Injection, ZenonT(30) DEF n
  <2> QED BY <2>3, ZenonT(30) DEF Surjection
<1> HIDE DEF at
<1>6. DOMAIN SortByName(A) = 1..n /\ \A k \in 1..n : SortByName(A)[k] = at(k).listener
  BY <1>2
<1> QED BY <1>1, <1>4, <1>5, <1>6, ZenonT(30) DEF n

\* The values of a function on a finite set are finitely many.
LEMMA FiniteRange ==
  ASSUME NEW S, IsFiniteSet(S), NEW f, DOMAIN f = S, f = [x \in S |-> f[x]]
  PROVE  IsFiniteSet({f[x] : x \in S})
<1>1. f \in Surjection(S, {f[x] : x \in S}) BY ZenonT(30) DEF Surjection
<1> QED BY <1>1, FS_Surjection

\* A set of natural numbers has a least element.
LEMMA LeastNatural ==
  ASSUME NEW S, S \subseteq Nat, S # {}
  PROVE  \E i \in S : \A j \in S : i <= j
<1>1. PICK i \in S : \A j \in S : <<j, i>> \notin OpToRel(<, Nat)
  BY WFMin, NatLessThanWellFounded, ZenonT(30)
<1>2. \A j \in S : ~(j < i) BY <1>1, ZenonT(30) DEF OpToRel
<1> QED BY <1>2

-----------------------------------------------------------------------------
(***************************************************************************)
(* The Proxy that the reconciler writes for Gateways gw and                *)
(* VirtualServices vs.                                                     *)
(***************************************************************************)
IsGateways(gw) == gw \in [Gateways -> Ports \cup {Absent}]
IsServices(vs) == vs \in [Services -> Configs \cup {Absent}]

\* The listener of an accepted Gateway, with the accepted VirtualServices.
Desired(g, gw, vs, rejected) ==
  [name |-> gw[g], source |-> g, hosts |-> {Host(v, vs) : v \in Present(vs) \ rejected}]

\* stripInvalidListenersAndVirtualHosts leaves the accepted Gateways' listeners.
LEMMA StrippedListeners ==
  ASSUME NEW gw, NEW vs, NEW R, Present(vs) # {}
  PROVE  Strip(Translate(gw, vs), R) = {Desired(g, gw, vs, R) : g \in Present(gw) \ R}
<1>1. ASSUME NEW g
      PROVE  [Listener(g, gw, vs) EXCEPT !.hosts = Accepted(@, R)] = Desired(g, gw, vs, R)
  <2>1. Accepted({Host(v, vs) : v \in Present(vs)}, R) = {Host(v, vs) : v \in Present(vs) \ R}
    BY DEF Accepted, Host
  <2>2. \A n, H, K : [[name |-> n, source |-> g, hosts |-> H] EXCEPT !.hosts = K]
                       = [name |-> n, source |-> g, hosts |-> K]
    OBVIOUS
  <2>3. Listener(g, gw, vs).hosts = {Host(v, vs) : v \in Present(vs)}
    BY ZenonT(30) DEF Listener
  <2> QED BY <2>1, <2>2, <2>3, Zenon DEF Listener, Desired
<1>2. Accepted(Translate(gw, vs), R) = {Listener(g, gw, vs) : g \in Present(gw) \ R}
  BY DEF Accepted, Translate, Listener
<1> QED BY <1>1, <1>2 DEF Strip

\* Two accepted Gateways have different ports.
LEMMA PortsDiffer ==
  ASSUME NEW gw, NEW vs, NEW g \in Present(gw) \ Rejected(gw, vs), NEW h \in Present(gw),
         gw[g] = gw[h]
  PROVE  g = h
BY ZenonT(30) DEF Rejected, TranslationErrors, SamePort

\* Only what is there is rejected.
LEMMA RejectedPresent ==
  ASSUME NEW gw, NEW vs, IsGateways(gw), IsServices(vs)
  PROVE  /\ Rejected(gw, vs) \subseteq Present(gw) \cup Present(vs)
         /\ Present(gw) \subseteq Gateways /\ Present(vs) \subseteq Services
         /\ \A v \in Services \cap Rejected(gw, vs) : v \in Present(vs) /\ Translate(gw, vs) # {}
<1>1. Present(gw) \subseteq Gateways /\ Present(vs) \subseteq Services
  BY ZenonT(30) DEF Present, IsGateways, IsServices
<1>2. ProxyErrors(Translate(gw, vs)) \subseteq Present(vs)
  BY DEF ProxyErrors, Hosts, Translate, Listener, Host
<1>3. TranslationErrors(gw, vs) \subseteq Present(gw) \cup Present(vs)
  BY ZenonT(30) DEF TranslationErrors, SamePort, Conflicting
<1>4. ASSUME NEW v \in TranslationErrors(gw, vs) \ Gateways PROVE Translate(gw, vs) # {}
  <2>1. Present(gw) # {} /\ Conflicting(vs) # {}
    BY <1>1, <1>4, ZenonT(30) DEF TranslationErrors, SamePort
  <2>2. Present(vs) # {} BY <2>1, ZenonT(30) DEF Conflicting
  <2> QED BY <2>1, <2>2, ZenonT(30) DEF Translate
<1>5. ProxyErrors({}) = {} BY ZenonT(30) DEF ProxyErrors, Hosts
<1> QED BY <1>1, <1>2, <1>3, <1>4, <1>5, ObjectsAssumption, ZenonT(30) DEF Rejected

\* The listener that the reconciler writes for an accepted Gateway.
Written(g, original, gw, vs, rejected) ==
  [name |-> gw[g], source |-> g,
   hosts |-> {Host(v, vs) : v \in Present(vs) \ rejected} \cup
               {h \in Hosts(Named(original, gw[g])) : h.source \in rejected}]

\* WithKept makes it out of the desired listener and the Proxy as it was.
LEMMA WrittenListeners ==
  ASSUME NEW gw, NEW vs, NEW R, NEW original, NEW g
  PROVE  WithKept(Desired(g, gw, vs, R), original, R) = Written(g, original, gw, vs, R)
<1>1. \A n, H, K : [[name |-> n, source |-> g, hosts |-> H] EXCEPT !.hosts = K]
                     = [name |-> n, source |-> g, hosts |-> K]
  OBVIOUS
<1>2. /\ Desired(g, gw, vs, R).hosts = {Host(v, vs) : v \in Present(vs) \ R}
      /\ Desired(g, gw, vs, R).name = gw[g]
  BY ZenonT(30) DEF Desired
<1> QED BY <1>1, <1>2, Zenon DEF WithKept, Written, Desired

\* Virtual hosts are kept from one stored listener of the name, if there is one.
LEMMA NamedListener ==
  ASSUME NEW original, NEW S, original \in Seq(S), NEW n
  PROVE  \/ Named(original, n) = {} /\ \A i \in DOMAIN original : original[i].name # n
         \/ \E i \in DOMAIN original : original[i].name = n /\ Named(original, n) = {original[i]}
<1> DEFINE at == {i \in DOMAIN original : original[i].name = n}
<1>1. CASE at = {} BY <1>1, ZenonT(30) DEF Named
<1>2. CASE at # {}
  <2> DEFINE k == CHOOSE i \in at : \A j \in at : i <= j
  <2>1. at \subseteq Nat OBVIOUS
  <2>2. \E i \in at : \A j \in at : i <= j BY <1>2, <2>1, LeastNatural, ZenonT(30)
  <2>3. Named(original, n) = {original[k]} BY <1>2, ZenonT(30) DEF Named
  <2> HIDE DEF at
  <2>4. k \in at BY <2>2
  <2> HIDE DEF k
  <2> QED BY <2>3, <2>4, ZenonT(30) DEF at
<1> QED BY <1>1, <1>2, ZenonT(30)

\* The places that transitionFunc sorts.
Placed(original, gw, vs, rejected) ==
  {[place |-> 0, listener |-> Written(g, original, gw, vs, rejected)] :
     g \in Present(gw) \ rejected}
  \cup {[place |-> i, listener |-> original[i]] :
           i \in {j \in DOMAIN original : original[j].source \in rejected}}

\* The new Proxy is those places, sorted by the name of the listener.
LEMMA ReconciledPlaces ==
  ASSUME NEW gw, NEW vs, NEW original, Translate(gw, vs) # {}
  PROVE  Reconciled(original, gw, vs)
           = SortByName(Placed(original, gw, vs, Rejected(gw, vs)))
<1> DEFINE R == Rejected(gw, vs)
           D == {Desired(g, gw, vs, R) : g \in Present(gw) \ R}
<1>1. Present(vs) # {} BY DEF Translate
<1>2. Strip(Translate(gw, vs), R) = D BY <1>1, StrippedListeners
<1>3. {[place |-> 0, listener |-> WithKept(l, original, R)] : l \in D}
        = {[place |-> 0, listener |-> Written(g, original, gw, vs, R)] : g \in Present(gw) \ R}
  BY WrittenListeners
<1> HIDE DEF R, D
<1> QED BY <1>2, <1>3, ZenonT(30) DEF Reconciled, Transition, Placed, R

\* They can be sorted: accepted Gateways have ports of their own.
LEMMA PlacedSortable ==
  ASSUME NEW gw, NEW vs, IsGateways(gw), NEW original, original \in Seq(Listeners)
  PROVE  Sortable(Placed(original, gw, vs, Rejected(gw, vs)))
<1> DEFINE R == Rejected(gw, vs)
           P == Present(gw) \ R
           K == {j \in DOMAIN original : original[j].source \in R}
           f == [g \in P |-> [place |-> 0, listener |-> Written(g, original, gw, vs, R)]]
           k == [i \in K |-> [place |-> i, listener |-> original[i]]]
           A == {f[g] : g \in P}
           B == {k[i] : i \in K}
<1>1. Placed(original, gw, vs, R) = A \cup B BY ZenonT(30) DEF Placed
<1>2. IsFiniteSet(A)
  <2>1. P \in SUBSET Gateways BY DEF Present, IsGateways
  <2>2. IsFiniteSet(P) BY <2>1, ObjectsAssumption, FS_Subset, ZenonT(30)
  <2> QED BY <2>2, FiniteRange, ZenonT(30)
<1>3. IsFiniteSet(B)
  <2>1. K \in SUBSET (1..Len(original)) OBVIOUS
  <2>2. IsFiniteSet(1..Len(original)) BY FS_Interval
  <2>3. IsFiniteSet(K) BY <2>1, <2>2, FS_Subset, ZenonT(30)
  <2> HIDE DEF K
  <2>4. DOMAIN k = K /\ k = [i \in K |-> k[i]] OBVIOUS
  <2> HIDE DEF k
  <2> QED BY <2>3, <2>4, FiniteRange
<1>4. IsFiniteSet(A \cup B) BY <1>2, <1>3, FS_Union, ZenonT(30)
<1>5. \A g \in P : f[g].place = 0 /\ f[g].listener.name = gw[g] /\ gw[g] \in Nat
  BY ObjectsAssumption, ZenonT(30) DEF Written, Present, IsGateways
<1>6. \A i \in K : k[i].place = i /\ i \in Nat \ {0} /\ k[i].listener.name \in Nat
  <2>1. \A i \in DOMAIN original : i \in Nat \ {0} /\ original[i] \in Listeners OBVIOUS
  <2>2. \A l \in Listeners : l.name \in Nat BY ObjectsAssumption, ZenonT(30) DEF Listeners
  <2> QED BY <2>1, <2>2, ZenonT(30)
<1>7. \A g, h \in P : gw[g] = gw[h] => g = h BY PortsDiffer, ZenonT(30)
<1> HIDE DEF f, k, P, K
<1>8. \A a \in A \cup B : a.listener.name \in Nat /\ a.place \in Nat BY <1>5, <1>6
<1>9. \A a, b \in A \cup B : a.listener.name = b.listener.name /\ a.place = b.place => a = b
  BY <1>5, <1>6, <1>7
<1> QED BY <1>1, <1>4, <1>8, <1>9, ZenonT(30) DEF Sortable

\* What is stored: a listener for every accepted Gateway, and the stored ones of
\* rejected Gateways as they are.
Content(p, original, gw, vs, R) ==
  /\ \A m \in DOMAIN p :
       \/ \E g \in Present(gw) \ R : p[m] = Written(g, original, gw, vs, R)
       \/ \E i \in DOMAIN original : original[i].source \in R /\ p[m] = original[i]
  /\ \A g \in Present(gw) \ R :
       \E m \in DOMAIN p : p[m] = Written(g, original, gw, vs, R)
  /\ \A i \in DOMAIN original :
       original[i].source \in R => \E m \in DOMAIN p : p[m] = original[i]

\* That is the content of the Proxy that transitionFunc makes.
LEMMA ReconciledContent ==
  ASSUME NEW gw, NEW vs, IsGateways(gw), IsServices(vs), Translate(gw, vs) # {},
         NEW original, original \in Seq(Listeners)
  PROVE  LET p == Reconciled(original, gw, vs)
         IN  /\ Content(p, original, gw, vs, Rejected(gw, vs))
             /\ \E n \in Nat : p = [m \in 1..n |-> p[m]]
<1> DEFINE R == Rejected(gw, vs)
           A == Placed(original, gw, vs, R)
           p == SortByName(A)
           W(g) == Written(g, original, gw, vs, R)
<1>1. Reconciled(original, gw, vs) = p BY ReconciledPlaces, ZenonT(30)
<1>2. Sortable(A) BY PlacedSortable, ZenonT(30)
<1>3. \A a \in A : \/ \E g \in Present(gw) \ R : a.listener = W(g)
                   \/ \E i \in DOMAIN original : original[i].source \in R /\ a.listener = original[i]
  BY DEF Placed
<1>4. \A g \in Present(gw) \ R : \E a \in A : a.listener = W(g)
  <2> TAKE g \in Present(gw) \ R
  <2>1. [place |-> 0, listener |-> W(g)] \in A BY ZenonT(30) DEF Placed
  <2> QED BY <2>1, ZenonT(30)
<1>5. \A i \in DOMAIN original : original[i].source \in R => \E a \in A : a.listener = original[i]
  <2> TAKE i \in DOMAIN original
  <2> HAVE original[i].source \in R
  <2>1. [place |-> i, listener |-> original[i]] \in A BY ZenonT(30) DEF Placed
  <2> QED BY <2>1, ZenonT(30)
<1> HIDE DEF A
<1>6. /\ DOMAIN p = 1..Cardinality(A) /\ Cardinality(A) \in Nat
      /\ \A m \in DOMAIN p : \E a \in A : p[m] = a.listener
      /\ \A a \in A : \E m \in DOMAIN p : p[m] = a.listener
  BY <1>2, SortedListeners, ZenonT(30)
<1>7. p = [m \in 1..Cardinality(A) |-> p[m]] BY DEF SortByName
<1> HIDE DEF p, R, W
<1>8. Content(p, original, gw, vs, R)
  <2>1. \A m \in DOMAIN p : \/ \E g \in Present(gw) \ R : p[m] = W(g)
                           \/ \E i \in DOMAIN original : original[i].source \in R /\ p[m] = original[i]
    BY <1>3, <1>6, ZenonT(30)
  <2>2. \A g \in Present(gw) \ R : \E m \in DOMAIN p : p[m] = W(g) BY <1>4, <1>6, ZenonT(30)
  <2>3. \A i \in DOMAIN original :
          original[i].source \in R => \E m \in DOMAIN p : p[m] = original[i]
    BY <1>5, <1>6, ZenonT(30)
  <2> QED BY <2>1, <2>2, <2>3, ZenonT(30) DEF Content, W
<1> QED BY <1>1, <1>6, <1>7, <1>8, ZenonT(30) DEF R

\* Every listener has one virtual host of a VirtualService at most.
OneHostEach(p) ==
  \A i \in DOMAIN p : \A h, k \in p[i].hosts : h.source = k.source => h = k

\* The reconciler stores a well-formed list.
LEMMA ReconciledTyped ==
  ASSUME NEW gw, NEW vs, IsGateways(gw), IsServices(vs),
         NEW original, original \in Seq(Listeners),
         OneHostEach(original), OneListenerEach(original),
         NEW p, p = Reconciled(original, gw, vs)
  PROVE  p \in Seq(Listeners) /\ OneHostEach(p) /\ OneListenerEach(p)
<1>1. CASE Translate(gw, vs) = {}
  BY <1>1 DEF Reconciled, OneHostEach, OneListenerEach
<1>2. CASE Translate(gw, vs) # {}
  <2> DEFINE R == Rejected(gw, vs)
             W(g) == Written(g, original, gw, vs, R)
             O == DOMAIN original
             P == Present(gw) \ R
  <2>0. Content(p, original, gw, vs, R) /\ \E n \in Nat : p = [m \in 1..n |-> p[m]]
    BY <1>2, ReconciledContent
  <2>1. \A m \in DOMAIN p : \/ \E g \in P : p[m] = W(g)
                           \/ \E i \in O : original[i].source \in R /\ p[m] = original[i]
    BY <2>0, ZenonT(30) DEF Content
  <2>2. \A i \in O : original[i] \in Listeners OBVIOUS
  <2>3. ASSUME NEW g \in P
        PROVE  W(g) \in Listeners /\ \A h, k \in W(g).hosts : h.source = k.source => h = k
    <3> DEFINE mine == {Host(v, vs) : v \in Present(vs) \ R}
               kept == {h \in Hosts(Named(original, gw[g])) : h.source \in R}
    <3>1. W(g).name = gw[g] /\ W(g).source = g /\ W(g).hosts = mine \cup kept
      BY ZenonT(30) DEF Written
    <3>2. g \in Gateways /\ gw[g] \in Ports BY ZenonT(30) DEF Present, IsGateways
    <3>3. \A h \in mine : h \in [source : Services, config : Configs] /\ h.source \notin R
      BY DEF Present, IsServices, Host
    <3>4. \A h, k \in mine : h.source = k.source => h = k BY SMTT(20) DEF Host
    <3>5. /\ kept \subseteq [source : Services, config : Configs]
          /\ \A h, k \in kept : h.source = k.source => h = k
      <4>1. CASE Named(original, gw[g]) = {} BY <4>1, ZenonT(30) DEF Hosts
      <4>2. ASSUME NEW i \in O, Named(original, gw[g]) = {original[i]}
            PROVE  <3>5
        <5>1. Hosts(Named(original, gw[g])) = original[i].hosts BY <4>2, ZenonT(30) DEF Hosts
        <5>2. original[i].hosts \subseteq [source : Services, config : Configs]
          BY <2>2, ZenonT(30) DEF Listeners
        <5> QED BY <5>1, <5>2 DEF OneHostEach
      <4> QED BY <4>1, <4>2, NamedListener, ZenonT(30)
    <3>6. \A h \in kept : h.source \in R BY ZenonT(30)
    <3> HIDE DEF mine, kept
    <3>7. \A h, k \in mine \cup kept : h.source = k.source => h = k
      BY <3>3, <3>4, <3>5, <3>6, ZenonT(30)
    <3>8. W(g) = [name |-> gw[g], source |-> g, hosts |-> mine \cup kept]
      BY ZenonT(30) DEF Written, mine, kept
    <3> HIDE DEF W
    <3>9. W(g) \in Listeners BY <3>2, <3>3, <3>5, <3>8 DEF Listeners
    <3> QED BY <3>1, <3>7, <3>9, ZenonT(30)
  <2>4. \A g \in P : W(g).source = g /\ g \notin R BY ZenonT(30) DEF Written
  <2> HIDE DEF W, R, P
  <2>5. \A m \in DOMAIN p : p[m] \in Listeners BY <2>1, <2>2, <2>3, ZenonT(30)
  <2>6. p \in Seq(Listeners)
    <3>1. PICK n \in Nat : p = [m \in 1..n |-> p[m]] BY <2>0, ZenonT(30)
    <3> QED BY <3>1, <2>5
  <2>7. OneHostEach(p) BY <2>1, <2>3 DEF OneHostEach
  <2>8. OneListenerEach(p) BY <2>1, <2>4 DEF OneListenerEach
  <2> QED BY <2>6, <2>7, <2>8, ZenonT(30)
<1> QED BY <1>1, <1>2, ZenonT(30)

\* The stored Proxy is up to date with the snapshot that it was written for.
LEMMA ReconciledUpToDate ==
  ASSUME NEW s, IsGateways(s.gw), IsServices(s.vs),
         NEW original, original \in Seq(Listeners)
  PROVE  UpToDate(Reconciled(original, s.gw, s.vs), s)
<1> DEFINE gw == s.gw
           vs == s.vs
           R == Rejected(gw, vs)
           p == Reconciled(original, gw, vs)
           listeners == {p[i] : i \in DOMAIN p}
           P == Present(gw) \ R
           W(g) == Written(g, original, gw, vs, R)
           D(g) == Desired(g, gw, vs, R)
<1>1. CASE Translate(gw, vs) = {}
  <2>1. listeners = {} BY <1>1 DEF Reconciled
  <2>2. Accepted({}, R) = {} /\ Hosts({}) = {} BY ZenonT(30) DEF Accepted, Hosts
  <2>3. Strip({}, R) = {} BY <2>2, ZenonT(30) DEF Strip
  <2> HIDE DEF listeners, R
  <2>4. /\ Strip(Accepted(listeners, R), R) = Strip(Translate(gw, vs), R)
        /\ \A x \in Hosts(Accepted(listeners, R)) : vs[x.source] # Absent
    BY <1>1, <2>1, <2>2, <2>3, ZenonT(30)
  <2> QED BY <2>4, ZenonT(30) DEF UpToDate, listeners, R
<1>2. CASE Translate(gw, vs) # {}
  <2>1. Content(p, original, gw, vs, R) BY <1>2, ReconciledContent, ZenonT(30)
  <2>2. \A g : W(g).source = g BY ZenonT(30) DEF Written
  <2>3. Accepted(listeners, R) = {W(g) : g \in P}
    <3> HIDE DEF p, R
    <3> QED BY <2>1, <2>2 DEF Content, Accepted
  <2>4. \A g : [W(g) EXCEPT !.hosts = Accepted(@, R)] = D(g)
    <3> TAKE g
    <3> DEFINE mine == {Host(v, vs) : v \in Present(vs) \ R}
               kept == {h \in Hosts(Named(original, gw[g])) : h.source \in R}
    <3>1. \A n, H, K : [[name |-> n, source |-> g, hosts |-> H] EXCEPT !.hosts = K]
                         = [name |-> n, source |-> g, hosts |-> K]
      OBVIOUS
    <3>2. Accepted(mine \cup kept, R) = mine BY DEF Accepted, Host
    <3>3. W(g).hosts = mine \cup kept BY ZenonT(30) DEF Written
    <3> QED BY <3>1, <3>2, <3>3, ZenonT(40) DEF Written, Desired
  <2>5. Strip(Translate(gw, vs), R) = {D(g) : g \in P}
    <3>1. Present(vs) # {} BY <1>2, ZenonT(30) DEF Translate
    <3> QED BY <3>1, StrippedListeners
  <2>6. \A l \in {W(g) : g \in P} : l.source \notin R BY <2>2, ZenonT(30)
  <2>7. Accepted({W(g) : g \in P}, R) = {W(g) : g \in P} BY <2>6, ZenonT(30) DEF Accepted
  <2>8. Strip(Accepted(listeners, R), R) = {D(g) : g \in P}
    <3> HIDE DEF W, D, P, R, p, listeners
    <3> QED BY <2>3, <2>4, <2>7, ZenonT(30) DEF Strip
  <2>9. \A x \in Hosts(Accepted(listeners, R)) : vs[x.source] # Absent
    <3> SUFFICES ASSUME NEW g \in P, NEW x \in W(g).hosts PROVE vs[x.source] # Absent
      BY <2>3, ZenonT(30) DEF Hosts
    <3>1. CASE x \in {Host(v, vs) : v \in Present(vs)} BY <3>1 DEF Host, Present
    <3>2. CASE x \in Hosts(Named(original, gw[g])) /\ x.source \in R
      <4>0. PICK i \in DOMAIN original : x \in original[i].hosts
        BY <3>2, NamedListener DEF Hosts
      <4>1. x.source \in Services
        <5>1. original[i] \in Listeners OBVIOUS
        <5> QED BY <4>0, <5>1, ZenonT(30) DEF Listeners
      <4> QED BY <3>2, <4>1, RejectedPresent, ZenonT(30) DEF Present
    <3> QED BY <3>1, <3>2, ZenonT(30) DEF Written
  <2> HIDE DEF W, D, P, R, p
  <2> QED BY <2>5, <2>8, <2>9, ZenonT(30) DEF UpToDate, R, p
<1> QED BY <1>1, <1>2, ZenonT(30)

\* A rejected VirtualService is served as before when no listener moves.
LEMMA ReconciledServing ==
  ASSUME NEW gw, NEW vs, IsGateways(gw), IsServices(vs),
         NEW original, original \in Seq(Listeners), OneListenerEach(original),
         NEW v \in Services, v \in Rejected(gw, vs),
         \A i \in DOMAIN original : gw[original[i].source] = original[i].name
  PROVE  Serving(Reconciled(original, gw, vs), v) = Serving(original, v)
<1> DEFINE R == Rejected(gw, vs)
           p == Reconciled(original, gw, vs)
           W(g) == Written(g, original, gw, vs, R)
<1>1. Translate(gw, vs) # {} BY RejectedPresent, ZenonT(30)
<1>2. Content(p, original, gw, vs, R) BY <1>1, ReconciledContent, ZenonT(30)
<1>3. \A q, x : x \in Serving(q, v) <=>
        \E i \in DOMAIN q : \E h \in q[i].hosts : h.source = v /\ x = <<q[i].name, h.config>>
  BY DEF Serving
<1>4. \A g : /\ W(g).name = gw[g]
            /\ \A h : h \in W(g).hosts /\ h.source = v <=>
                     h \in Hosts(Named(original, gw[g])) /\ h.source = v
  BY DEF Written, Host
<1>5. \A i \in DOMAIN original : /\ original[i].source \in Present(gw)
                                 /\ original[i].name \in Ports
  <2> TAKE i \in DOMAIN original
  <2>1. original[i] \in Listeners OBVIOUS
  <2> QED BY <2>1, ObjectsAssumption, ZenonT(30) DEF Listeners, Present, IsGateways
<1>6. \A i, j \in DOMAIN original : original[i].source \notin R /\ original[i].name = original[j].name
        => original[i] = original[j]
  BY <1>5, PortsDiffer, SMTT(20) DEF OneListenerEach
<1> HIDE DEF R, p, W
<1>7. ASSUME NEW x \in Serving(p, v) PROVE x \in Serving(original, v)
  <2>1. PICK m \in DOMAIN p : \E h \in p[m].hosts : h.source = v /\ x = <<p[m].name, h.config>>
    BY <1>3, <1>7
  <2>2. CASE \E i \in DOMAIN original : p[m] = original[i] BY <1>3, <2>1, <2>2, ZenonT(30)
  <2>3. ASSUME NEW g \in Present(gw) \ R, p[m] = W(g) PROVE x \in Serving(original, v)
    <3>1. PICK h \in Hosts(Named(original, gw[g])) : h.source = v /\ x = <<gw[g], h.config>>
      BY <1>4, <2>1, <2>3, ZenonT(30)
    <3>2. PICK i \in DOMAIN original : original[i].name = gw[g] /\ h \in original[i].hosts
      BY <3>1, NamedListener DEF Hosts
    <3> QED BY <1>3, <3>1, <3>2, ZenonT(30)
  <2> QED BY <1>2, <2>2, <2>3, ZenonT(30) DEF Content, W
<1>8. ASSUME NEW x \in Serving(original, v) PROVE x \in Serving(p, v)
  <2>1. PICK i \in DOMAIN original :
          \E h \in original[i].hosts : h.source = v /\ x = <<original[i].name, h.config>>
    BY <1>3, <1>8
  <2>2. CASE original[i].source \in R
    <3>1. PICK m \in DOMAIN p : p[m] = original[i] BY <1>2, <2>2, ZenonT(30) DEF Content
    <3> QED BY <1>3, <2>1, <3>1, ZenonT(30)
  <2>3. CASE original[i].source \notin R
    <3> DEFINE g == original[i].source
    <3>1. g \in Present(gw) \ R /\ gw[g] = original[i].name BY <1>5, <2>3, ZenonT(30)
    <3>2. PICK m \in DOMAIN p : p[m] = W(g) BY <1>2, <3>1, ZenonT(30) DEF Content, W
    <3>3. Hosts(Named(original, gw[g])) = original[i].hosts
      BY <1>6, <2>3, <3>1, NamedListener DEF Hosts
    <3>4. PICK h \in original[i].hosts : h.source = v /\ x = <<original[i].name, h.config>>
      BY <2>1, ZenonT(30)
    <3>5. h \in W(g).hosts /\ W(g).name = original[i].name
      BY <1>4, <3>1, <3>3, <3>4, ZenonT(30)
    <3> QED BY <1>3, <3>2, <3>4, <3>5, ZenonT(30)
  <2> QED BY <2>2, <2>3, ZenonT(30)
<1> QED BY <1>7, <1>8, ZenonT(30) DEF p

-----------------------------------------------------------------------------
\* The reconciler stores the Proxy, or its write fails.
LEMMA GatewayStep == ASSUME IInv, SyncGateway \/ SyncGatewayFails PROVE IInv'
<1> USE DEF IInv
<1>1. snap \in Snapshots /\ snap # NoSnapshot
  BY SnapshotAssumption, ZenonT(30) DEF SyncGateway, SyncGatewayFails, ErrInv, TypeOK
<1>2. /\ UNCHANGED <<store, pending, snap, validationVars, edits, exposed>>
      /\ loop = "gateway" /\ loop' = "validator"
  BY ZenonT(30) DEF SyncGateway, SyncGatewayFails
<1>3. faults' \in 0..MaxFaults
  BY EditBoundsAssumption DEF SyncGateway, SyncGatewayFails, TypeOK
<1>4. unwritten' \in BOOLEAN
  <2>1. CASE SyncGateway
    <3>1. unwritten' = FALSE BY <2>1, ZenonT(30) DEF SyncGateway
    <3> QED BY <3>1, ZenonT(30)
  <2>2. CASE SyncGatewayFails BY <2>2, ZenonT(30) DEF SyncGatewayFails, TypeOK
  <2> QED BY <2>1, <2>2, ZenonT(30)
<1>5. Separate(pending)' BY <1>2, ZenonT(30) DEF Separate
<1>6. AdmittedInv' BY <1>2, AdmittedIs, ZenonT(30) DEF AdmittedInv, validationVars
<1>7. ErrInv' BY <1>1, <1>2, ZenonT(30) DEF ErrInv, Refused, validationVars
<1>8. CASE SyncGateway
  <2>1. proxy' = Reconciled(proxy, snap.gw, snap.vs) BY <1>8, ZenonT(30) DEF SyncGateway
  <2>2. IsGateways(snap.gw) /\ IsServices(snap.vs)
    BY <1>1, ZenonT(30) DEF Snapshots, IsGateways, IsServices
  <2>3. proxy \in Seq(Listeners) /\ OneHostEach(proxy) /\ OneListenerEach(proxy)
    BY ZenonT(30) DEF TypeOK, ProxyInv, OneHostEach
  <2>4. proxy' \in Seq(Listeners) /\ OneHostEach(proxy') /\ OneListenerEach(proxy')
    BY <2>1, <2>2, <2>3, ReconciledTyped, ZenonT(30)
  <2>5. TypeOK' BY <1>2, <1>3, <1>4, <2>4, ZenonT(30) DEF TypeOK, OneHostEach, validationVars
  <2>6. UpToDate(proxy', snap) BY <2>1, <2>2, <2>3, ReconciledUpToDate, ZenonT(30)
  <2>7. ProxyInv' BY <1>2, <2>4, <2>6, ZenonT(30) DEF ProxyInv, OneListenerEach, UpToDate
  <2> QED BY <1>5, <1>6, <1>7, <2>5, <2>7, ZenonT(30)
<1>9. CASE SyncGatewayFails
  <2>1. proxy' = proxy /\ unwritten' = unwritten BY <1>9, ZenonT(30) DEF SyncGatewayFails
  <2>2. TypeOK' BY <1>2, <1>3, <1>4, <2>1, ZenonT(30) DEF TypeOK, validationVars
  <2>3. ProxyInv' BY <1>2, <2>1, ZenonT(30) DEF ProxyInv, OneListenerEach, UpToDate
  <2> QED BY <1>5, <1>6, <1>7, <2>2, <2>3, ZenonT(30)
<1> QED BY <1>8, <1>9, ZenonT(30)

\* Every step keeps the inductive invariant.
LEMMA NextIInv == IInv /\ [Next]_vars => IInv'
<1> SUFFICES ASSUME IInv, [Next]_vars PROVE IInv'
  BY ZenonT(30)
<1>1. CASE UNCHANGED vars
  <2>1. Admitted' = Admitted BY <1>1, AdmittedIs, ZenonT(30) DEF vars
  <2>2. TypeOK' BY <1>1, ZenonT(30) DEF vars, validationVars, IInv, TypeOK
  <2>3. Separate(pending)' /\ AdmittedInv'
    BY <1>1, <2>1, ZenonT(30) DEF vars, validationVars, IInv, Separate, AdmittedInv
  <2>4. ErrInv' BY <1>1, ZenonT(30) DEF vars, validationVars, IInv, ErrInv, Refused
  <2>5. ProxyInv' BY <1>1, ZenonT(30) DEF vars, IInv, ProxyInv, OneListenerEach, UpToDate
  <2> QED BY <2>2, <2>3, <2>4, <2>5, ZenonT(30) DEF IInv
<1>2. ASSUME NEW e \in pending, Lose(e) PROVE IInv'
  BY <1>2, FaultStep, ZenonT(30) DEF IInv, TypeOK
<1> QED
  BY ZenonT(30), <1>1, <1>2, AskStep, AskListStep, CommitStep, FaultStep, EmitStep,
     ServerStep, GatewayStep, ValidatorStep DEF Next, Storing, Loop

\* The inductive invariant always holds.
LEMMA Inductive == Spec => []IInv
BY InitIInv, NextIInv, PTL DEF Spec

-----------------------------------------------------------------------------
\* Type correctness; the stored Proxy never has two virtual hosts of one
\* VirtualService in a listener, whatever was kept from earlier Proxies.
THEOREM TypeCorrect == Spec => []TypeOK
BY Inductive, PTL DEF IInv

\* However many edits are allowed between two syncs, and in whichever order they
\* are stored, they are valid together unless the validator was exposed.
THEOREM AdmissionCorrect == Spec => []AdmittedValid
<1>1. IInv => AdmittedValid BY ZenonT(30) DEF IInv, AdmittedInv, AdmittedValid
<1> QED BY <1>1, Inductive, PTL

\* Validation is disabled exactly while the synced store is refused; no order of
\* edits, syncs and lost writes leaves it disabled for good.
THEOREM DisabledCorrect == Spec => []DisabledWhileBroken
<1>1. IInv => DisabledWhileBroken
  <2> SUFFICES ASSUME IInv, Synced
               PROVE  latestSnapshotErr <=> TranslationErrors(store.gw, store.vs) # {}
    BY ZenonT(30) DEF DisabledWhileBroken
  <2>1. snap = store /\ snap # NoSnapshot /\ loop = "wait"
    BY SnapshotAssumption, ZenonT(30) DEF IInv, TypeOK, Synced
  <2> QED BY <2>1, ZenonT(30) DEF IInv, ErrInv, Refused
<1> QED BY <1>1, Inductive, PTL

ProxySettled == Synced /\ ~unwritten => UpToDate(proxy, store)

\* A store that is synced, with its Proxy written, is served: every accepted
\* Gateway with the accepted VirtualServices as they are, and nothing deleted.
THEOREM ProxyCorrect == Spec => []ProxySettled
<1>1. IInv => ProxySettled
  <2> SUFFICES ASSUME IInv, Synced, ~unwritten PROVE UpToDate(proxy, store)
    BY ZenonT(30) DEF ProxySettled
  <2>1. snap = store /\ snap # NoSnapshot
    BY SnapshotAssumption, ZenonT(30) DEF IInv, TypeOK, Synced
  <2> QED BY <2>1, ZenonT(30) DEF IInv, ProxyInv
<1> QED BY <1>1, Inductive, PTL

\* Rejection does not change traffic: while no listener moves, a rejected
\* VirtualService is served on the same ports with the same content.
THEOREM RejectedCorrect == Spec => RejectedStayServed
<1>1. IInv /\ [Next]_vars =>
        [\A v \in Services :
           /\ snap # NoSnapshot
           /\ v \in Rejected(snap.gw, snap.vs)
           /\ \A i \in DOMAIN proxy : snap.gw[proxy[i].source] = proxy[i].name
           => Serving(proxy', v) = Serving(proxy, v)]_proxy
  <2> SUFFICES ASSUME IInv, [Next]_vars, proxy' # proxy,
                      NEW v \in Services, snap # NoSnapshot, v \in Rejected(snap.gw, snap.vs),
                      \A i \in DOMAIN proxy : snap.gw[proxy[i].source] = proxy[i].name
               PROVE  Serving(proxy', v) = Serving(proxy, v)
    BY ZenonT(30)
  <2>1. SyncGateway
    BY ZenonT(30) DEF Next, Storing, Loop, vars, Ask, AskList, Commit, Lose, Bypass, Emit,
                      SyncServer, SyncGatewayFails, SyncValidator
  <2>2. proxy' = Reconciled(proxy, snap.gw, snap.vs) BY <2>1 DEF SyncGateway
  <2>3. IsGateways(snap.gw) /\ IsServices(snap.vs)
    <3>1. snap \in Snapshots BY ZenonT(30) DEF IInv, TypeOK
    <3> QED BY <3>1, ZenonT(30) DEF Snapshots, IsGateways, IsServices
  <2>4. proxy \in Seq(Listeners) /\ OneListenerEach(proxy)
    BY ZenonT(30) DEF IInv, TypeOK, ProxyInv
  <2> QED BY <2>2, <2>3, <2>4, ReconciledServing
<1> QED BY <1>1, Inductive, PTL DEF Spec, RejectedStayServed
=============================================================================
