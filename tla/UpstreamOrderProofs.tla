-------------------------- MODULE UpstreamOrderProofs --------------------------
(***************************************************************************)
(* UpstreamWatch refines LatestValue, as far as safety goes, for any data  *)
(* centres and any number of events: along the way from a source to the    *)
(* reader, through the queries, the aggregator, the watch of Consul and    *)
(* the loop of Watch, versions get older, so the reader never goes back.   *)
(***************************************************************************)
EXTENDS UpstreamWatchProofs

\* The Consul watch moves the versions of a data centre one stage at a time.
LEMMA ConsulOrder == ASSUME IInv, OrderInv, ConsulWork \/ ConsulError PROVE OrderInv'
<1>1. UNCHANGED <<storeVars, watchVars, catalog>>
  BY ZenonT(30) DEF ConsulWork, ConsulError, C!Query, C!SendQueryError, C!SendTuple,
                    C!MergeServices, C!SendOutput, C!QueryFails
<1>2. InOrder(GlooStages', 5)
  <2>1. GlooStages' = GlooStages
    BY <1>1 DEF GlooStages, InSlot, storeVars, watchVars
  <2> QED BY <2>1 DEF OrderInv
<1>3. ASSUME NEW e \in DataCenters PROVE InOrder(ConsulStages(e)', 10)
  <2> DEFINE f == ConsulStages(e)
             g == ConsulStages(e)'
  <2>1. /\ f[4] = g[4] /\ f[3] = g[3] /\ f[2] = g[2] /\ f[1] = g[1] /\ f[10] = g[10]
        /\ f[5] = Part(upstreams, e) /\ g[5] = Part(upstreams', e)
        /\ f[6] = Part(output, e) /\ g[6] = Part(output', e)
        /\ f[7] = servicesByDataCenter[e] /\ g[7] = servicesByDataCenter'[e]
        /\ f[8] = aggregated[e] /\ g[8] = aggregated'[e]
        /\ f[9] = tuple[e] /\ g[9] = tuple'[e] /\ f[10] = catalog[e].services
    BY <1>1, EachConsul, NextConsul DEF InSlot, watchVars
  <2>2. InOrder(f, 10) /\ 10 \in Nat
    BY DEF OrderInv
  <2>3. 1..10 = {1, 2, 3, 4, 5, 6, 7, 8, 9, 10}
    OBVIOUS
  <2> HIDE DEF f, g
  <2> SUFFICES InOrder(g, 10)
    BY DEF g
  <2>4. ASSUME NEW d \in DataCenters, C!Query(d) PROVE InOrder(g, 10)
    <3>1. /\ tuple'[e] = tuple[e] \/ tuple'[e] = catalog[e].services
          /\ UNCHANGED <<upstreams, output, servicesByDataCenter, aggregated>>
      BY <2>4, ZenonT(30) DEF C!Query, IInv, TypeOK, ConsulTypeOK, FullLists
    <3>2. /\ g[5] = f[5] /\ g[6] = f[6] /\ g[7] = f[7] /\ g[8] = f[8]
          /\ g[9] = f[9] \/ g[9] = f[10]
      BY <2>1, <3>1
    <3>3. \A i \in 1..10 : g[i] = NoList \/ g[i] = f[i] \/ (i = 9 /\ g[i] = f[10])
      BY <2>1, <2>3, <3>2, ZenonT(30)
    <3>4. Moves(f, g, 9, 10)
      BY <3>3, 9 + 1 = 10, 9 < 10 DEF Moves
    <3> QED BY <2>2, <3>4, Moved, 9 \in Nat
  <2>5. ASSUME NEW d \in DataCenters, C!SendTuple(d) PROVE InOrder(g, 10)
    <3>1. /\ \/ aggregated'[e] = tuple[e] /\ tuple'[e] = NoList
             \/ aggregated'[e] = aggregated[e] /\ tuple'[e] = tuple[e]
          /\ UNCHANGED <<upstreams, output, servicesByDataCenter>>
      BY <2>5, ZenonT(30) DEF C!SendTuple, IInv, TypeOK, ConsulTypeOK, FullLists
    <3>2. /\ g[5] = f[5] /\ g[6] = f[6] /\ g[7] = f[7]
          /\ (g[8] = f[8] /\ g[9] = f[9]) \/ (g[8] = f[9] /\ g[9] = NoList)
      BY <2>1, <3>1, ZenonT(30)
    <3>3. \A i \in 1..10 : g[i] = NoList \/ g[i] = f[i] \/ (i = 8 /\ g[i] = f[9])
      BY <2>1, <2>3, <3>2, ZenonT(30)
    <3>4. Moves(f, g, 8, 10)
      BY <3>3, 8 + 1 = 9, 8 < 10 DEF Moves
    <3> QED BY <2>2, <3>4, Moved, 8 \in Nat
  <2>6. ASSUME C!SendOutput PROVE InOrder(g, 10)
    <3>1. /\ upstreams' = output /\ output' = NoList
          /\ UNCHANGED <<tuple, aggregated, servicesByDataCenter>>
      BY <2>6 DEF C!SendOutput
    <3>2. g[5] = f[6] /\ g[6] = NoList /\ g[7] = f[7] /\ g[8] = f[8] /\ g[9] = f[9]
      BY <2>1, <3>1 DEF Part
    <3>3. \A i \in 1..10 : g[i] = NoList \/ g[i] = f[i] \/ (i = 5 /\ g[i] = f[6])
      BY <2>1, <2>3, <3>2, ZenonT(30)
    <3>4. Moves(f, g, 5, 10)
      BY <3>3, 5 + 1 = 6, 5 < 10 DEF Moves
    <3> QED BY <2>2, <3>4, Moved, 5 \in Nat
  <2>7. ASSUME NEW d \in DataCenters, C!SendQueryError(d) \/ C!QueryFails(d)
        PROVE  InOrder(g, 10)
    <3>1. UNCHANGED <<upstreams, output, tuple, aggregated, servicesByDataCenter>>
      BY <2>7 DEF C!SendQueryError, C!QueryFails
    <3>2. \A i \in 1..10 : g[i] = f[i]
      BY <2>1, <2>3, <3>1, ZenonT(30)
    <3> QED BY <2>2, <3>2, ZenonT(30) DEF InOrder
  <2>8. ASSUME NEW d \in DataCenters, C!MergeServices(d) PROVE InOrder(g, 10)
    <3>1. /\ \/ servicesByDataCenter'[e] = aggregated[e] /\ aggregated'[e] = NoList
             \/ /\ servicesByDataCenter'[e] = servicesByDataCenter[e]
                /\ aggregated'[e] = aggregated[e]
          /\ output' = servicesByDataCenter' /\ UNCHANGED <<upstreams, tuple>>
      BY <2>8 DEF C!MergeServices, IInv, TypeOK, ConsulTypeOK, FullLists
    <3>2. servicesByDataCenter' # NoList
      BY <2>8, MergeStep, NextIInv, NoListNat, ZenonT(30)
      DEF C!MergeServices, IInv, TypeOK, ConsulTypeOK, FullLists, Lists
    <3>3. g[6] = g[7]
      BY <2>1, <3>1, <3>2, ZenonT(30) DEF Part
    <3>4. CASE g[7] = f[7] /\ g[8] = f[8]
      <4>1. g[5] = f[5] /\ g[6] = f[7] /\ g[9] = f[9]
        BY <2>1, <3>1, <3>3, <3>4, ZenonT(30)
      <4>2. \A i \in 1..10 : g[i] = NoList \/ g[i] = f[i] \/ (i = 6 /\ g[i] = f[7])
        BY <2>1, <2>3, <3>4, <4>1, ZenonT(30)
      <4>3. Moves(f, g, 6, 10)
        BY <4>2, 6 + 1 = 7, 6 < 10 DEF Moves
      <4> QED BY <2>2, <4>3, Moved, 6 \in Nat
    <3>5. CASE g[7] = f[8] /\ g[8] = NoList
      <4> DEFINE m == [i \in 1..10 |-> IF i \in {6, 7} THEN 8 ELSE i]
      <4>1. m \in [1..10 -> 1..10] /\ \A i, j \in 1..10 : i <= j => m[i] <= m[j]
        OBVIOUS
      <4>2. \A i \in 1..10 : g[i] = NoList \/ g[i] = f[m[i]]
        <5>1. m[1] = 1 /\ m[2] = 2 /\ m[3] = 3 /\ m[4] = 4 /\ m[5] = 5 /\ m[6] = 8 /\ m[7] = 8
              /\ m[9] = 9 /\ m[10] = 10
          OBVIOUS
        <5>2. g[5] = f[5] /\ g[6] = f[8] /\ g[7] = f[8] /\ g[9] = f[9]
          BY <2>1, <3>1, <3>3, <3>5, ZenonT(30)
        <5> HIDE DEF m
        <5> TAKE i \in 1..10
        <5>3. CASE i \in {1, 2, 3, 4, 5} BY <2>1, <5>1, <5>2, <5>3
        <5>4. CASE i \in {6, 7, 8, 9, 10} BY <2>1, <3>5, <5>1, <5>2, <5>4, ZenonT(30)
        <5> QED BY <2>3, <5>3, <5>4
      <4>3. Picks(f, g, m, 10)
        BY <4>1, <4>2, ZenonT(30) DEF Picks
      <4> HIDE DEF m
      <4> QED BY <2>2, <4>3, Shifted
    <3> QED BY <2>1, <3>1, <3>4, <3>5, ZenonT(30)
  <2> QED BY <2>4, <2>5, <2>6, <2>7, <2>8 DEF ConsulWork, ConsulError
<1> QED BY <1>2, <1>3 DEF OrderInv

\* The lists of the sources are the newest there are, and nothing is on its way.
LEMMA ListOrder ==
  ASSUME IInv, OrderInv, NEW s \in Sources, H!ListSource(s),
         UNCHANGED <<storeVars, events, consulVars>>
  PROVE  OrderInv'
<1>0. /\ UNCHANGED <<received, held, store>>
      /\ UNCHANGED <<upstreams, output, servicesByDataCenter, aggregated, tuple, catalog>>
  BY DEF H!ListSource, storeVars, consulVars
<1>1. current' = [current EXCEPT ![s] = IF s = "gloo" THEN store ELSE InConsul]
  BY DEF H!ListSource
<1>2. held["gloo"] = NoList /\ held["consul"] = NoList /\ InSlot' = InSlot
  BY ZenonT(30) DEF H!ListSource, IInv, PhaseInv, InSlot, Sources
<1>3. CASE s = "gloo"
  <2>1. current'["gloo"] = store /\ current'["consul"] = current["consul"]
    BY <1>1, <1>3 DEF IInv, TypeOK, HybridTypeOK, Sources
  <2>2. ASSUME NEW d \in DataCenters PROVE ConsulStages(d)' = ConsulStages(d)
    BY <1>0, <1>2, <2>1, ZenonT(30) DEF ConsulStages
  <2>3. InOrder(GlooStages', 5)
    <3> DEFINE f == GlooStages
               g == GlooStages'
               m == [i \in 1..5 |-> IF i \in {3, 4, 5} THEN 5 ELSE i]
    <3>1. g[1] = f[1] /\ g[2] = f[2] /\ g[3] = f[5] /\ g[4] = NoList /\ g[5] = f[5]
      BY <1>0, <1>2, <2>1, ZenonT(30) DEF GlooStages, Part
    <3>2. m \in [1..5 -> 1..5] /\ \A i, j \in 1..5 : i <= j => m[i] <= m[j]
      OBVIOUS
    <3>3. m[1] = 1 /\ m[2] = 2 /\ m[3] = 5 /\ m[4] = 5 /\ m[5] = 5
      OBVIOUS
    <3> HIDE DEF f, g, m
    <3>4. \A i \in 1..5 : g[i] = NoList \/ g[i] = f[m[i]]
      BY <3>1, <3>3, Indices, ZenonT(30)
    <3>5. Picks(f, g, m, 5)
      BY <3>2, <3>4, ZenonT(30) DEF Picks
    <3>6. InOrder(f, 5)
      BY DEF OrderInv, f
    <3> QED BY <3>5, <3>6, Shifted, 5 \in Nat DEF g
  <2> QED BY <2>2, <2>3 DEF OrderInv
<1>4. CASE s = "consul"
  <2>1. current'["gloo"] = current["gloo"] /\ current'["consul"] = InConsul
    BY <1>1, <1>4 DEF IInv, TypeOK, HybridTypeOK, Sources
  <2>2. GlooStages' = GlooStages
    BY <1>0, <1>2, <2>1, ZenonT(30) DEF GlooStages
  <2>3. ASSUME NEW d \in DataCenters PROVE InOrder(ConsulStages(d)', 10)
    <3> DEFINE f == ConsulStages(d)
               g == ConsulStages(d)'
               m == [i \in 1..10 |-> IF i \in 1..2 THEN i ELSE 10]
    <3>1. /\ tuple[d] = NoList /\ aggregated[d] = NoList /\ servicesByDataCenter[d] = NoList
          /\ output = NoList /\ upstreams = NoList
      BY <1>4, ZenonT(30) DEF H!ListSource, IInv, MergedInv, Unwatched, Nothing
    <3>2. Part(InConsul, d) = catalog[d].services
      BY SourceLists, NoListNat, ZenonT(30) DEF IInv, TypeOK, Part, InConsul
    <3>3. g[1] = f[1] /\ g[2] = f[2] /\ g[3] = f[10] /\ g[10] = f[10]
      BY <1>0, <1>2, <2>1, <3>2, EachConsul, NextConsul
    <3>4. /\ g[4] = NoList /\ g[5] = NoList /\ g[6] = NoList /\ g[7] = NoList /\ g[8] = NoList
          /\ g[9] = NoList
      BY <1>0, <1>2, <3>1, EachConsul, NextConsul, ZenonT(30) DEF Part
    <3>5. m \in [1..10 -> 1..10] /\ \A i, j \in 1..10 : i <= j => m[i] <= m[j]
      OBVIOUS
    <3>6. m[1] = 1 /\ m[2] = 2 /\ m[3] = 10 /\ m[10] = 10
      OBVIOUS
    <3> HIDE DEF f, g, m
    <3>7. \A i \in 1..10 : g[i] = NoList \/ g[i] = f[m[i]]
      BY <3>3, <3>4, <3>6, Indices, ZenonT(30)
    <3>8. Picks(f, g, m, 10)
      BY <3>5, <3>7, ZenonT(30) DEF Picks
    <3>9. InOrder(f, 10)
      BY DEF OrderInv, f
    <3> QED BY <3>8, <3>9, Shifted, 10 \in Nat DEF g
  <2> QED BY <2>2, <2>3 DEF OrderInv
<1> QED BY <1>3, <1>4 DEF Sources

\* The other steps of the hybrid client move lists one stage at a time: what
\* changes is one stage and, maybe, the one it takes its value from.
LEMMA StagesMove ==
  ASSUME OrderInv, NEW k \in Nat, Moves(GlooStages, GlooStages', k, 5),
         NEW l \in Nat, \A d \in DataCenters : Moves(ConsulStages(d), ConsulStages(d)', l, 10)
  PROVE  OrderInv'
<1>1. InOrder(GlooStages', 5)
  BY Moved, 5 \in Nat DEF OrderInv
<1>2. ASSUME NEW d \in DataCenters PROVE InOrder(ConsulStages(d)', 10)
  <2>1. InOrder(ConsulStages(d), 10) /\ Moves(ConsulStages(d), ConsulStages(d)', l, 10)
    BY DEF OrderInv
  <2> QED BY <2>1, Moved, 10 \in Nat
<1> QED BY <1>1, <1>2 DEF OrderInv

\* Stages that are as before or empty are moved.
LEMMA Kept ==
  ASSUME NEW f, NEW g, NEW n \in Nat, \A i \in 1..n : g[i] = NoList \/ g[i] = f[i]
  PROVE  Moves(f, g, 0, n)
BY DEF Moves

\* Stage k takes the value of the next one.
LEMMA GlooMoves ==
  ASSUME NEW f, NEW g, NEW k \in 1..4,
         \A i \in 1..5 : g[i] = NoList \/ g[i] = f[i] \/ (i = k /\ g[i] = f[k + 1])
  PROVE  Moves(f, g, k, 5)
BY DEF Moves

\* The same along the stages of a data center.
LEMMA ConsulMoves ==
  ASSUME NEW f, NEW g, NEW k \in 1..9,
         \A i \in 1..10 : g[i] = NoList \/ g[i] = f[i] \/ (i = k /\ g[i] = f[k + 1])
  PROVE  Moves(f, g, k, 10)
BY DEF Moves

\* Stages of a source whose variables do not change.
LEMMA SameGloo ==
  ASSUME received' = received, InSlot' = InSlot, store' = store,
         current'["gloo"] = current["gloo"], held'["gloo"] \in {held["gloo"], NoList}
  PROVE  Moves(GlooStages, GlooStages', 0, 5)
<1>1. \A i \in {1, 2, 3, 4, 5} : GlooStages'[i] = NoList \/ GlooStages'[i] = GlooStages[i]
  BY DEF GlooStages
<1> QED BY <1>1, Indices, Kept, 5 \in Nat, ZenonT(30)

\* The same for the stages of a data center.
LEMMA SameConsul ==
  ASSUME received' = received, InSlot' = InSlot, NEW d \in DataCenters,
         current'["consul"] = current["consul"], held'["consul"] \in {held["consul"], NoList},
         UNCHANGED consulVars
  PROVE  Moves(ConsulStages(d), ConsulStages(d)', 0, 10)
<1>1. \A i \in {1, 2, 3, 4, 5, 6, 7, 8, 9, 10} :
        ConsulStages(d)'[i] = NoList \/ ConsulStages(d)'[i] = ConsulStages(d)[i]
  <2> DEFINE f == ConsulStages(d)
             g == ConsulStages(d)'
  <2>1. /\ g[1] = f[1] /\ g[2] = f[2] /\ g[3] = f[3] /\ g[5] = f[5] /\ g[6] = f[6]
        /\ g[7] = f[7] /\ g[8] = f[8] /\ g[9] = f[9] /\ g[10] = f[10]
    BY StageStays, ZenonT(30) DEF consulVars
  <2>2. g[4] = f[4] \/ g[4] = NoList
    BY EachConsul, NextConsul DEF Part
  <2> HIDE DEF f, g
  <2>3. \A i \in {1, 2, 3, 4, 5, 6, 7, 8, 9, 10} : g[i] = NoList \/ g[i] = f[i]
    BY <2>1, <2>2, ZenonT(30)
  <2> QED BY <2>3, ZenonT(30) DEF f, g
<1> QED BY <1>1, Indices, Kept, 10 \in Nat, ZenonT(30)

\* An aggregator takes what is offered.
LEMMA AggregateOrder ==
  ASSUME IInv, OrderInv, NEW s \in Sources, Aggregate(s)
  PROVE  OrderInv'
<1>0. /\ received' = received /\ InSlot' = InSlot /\ store' = store /\ current' = current
      /\ UNCHANGED <<output, servicesByDataCenter, aggregated, tuple, catalog>>
  BY ZenonT(30) DEF Aggregate, H!Aggregate, InSlot
<1>1. /\ held' = [held EXCEPT ![s] = IF s = "consul" THEN upstreams
                                     ELSE IF unread THEN store ELSE NoList]
      /\ upstreams' = IF s = "consul" THEN NoList ELSE upstreams
  BY ZenonT(30) DEF Aggregate, H!Aggregate
<1>2. CASE s = "gloo"
  <2>1. held'["consul"] = held["consul"] /\ held'["gloo"] \in {store, NoList}
    BY <1>1, <1>2 DEF IInv, TypeOK, HybridTypeOK, Sources
  <2>2. UNCHANGED consulVars
    BY <1>2, ZenonT(30) DEF Aggregate, H!Aggregate, consulVars
  <2>3. \A d \in DataCenters : Moves(ConsulStages(d), ConsulStages(d)', 0, 10)
    BY <1>0, <2>1, <2>2, SameConsul, ZenonT(30)
  <2>4. \A i \in {1, 2, 3, 4, 5} : \/ GlooStages'[i] = NoList \/ GlooStages'[i] = GlooStages[i]
                                   \/ i = 4 /\ GlooStages'[i] = GlooStages[4 + 1]
    BY <1>0, <2>1 DEF GlooStages
  <2>5. Moves(GlooStages, GlooStages', 4, 5)
    BY <2>4, Indices, GlooMoves, 4 \in 1..4
  <2> QED BY <2>3, <2>5, StagesMove, 0 \in Nat, 4 \in Nat
<1>3. CASE s = "consul"
  <2>1. held'["gloo"] = held["gloo"] /\ held'["consul"] = upstreams /\ upstreams' = NoList
    BY <1>1, <1>3, ZenonT(30) DEF IInv, TypeOK, HybridTypeOK, Sources
  <2>2. Moves(GlooStages, GlooStages', 0, 5)
    BY <1>0, <2>1, SameGloo, ZenonT(30)
  <2>3. ASSUME NEW d \in DataCenters PROVE Moves(ConsulStages(d), ConsulStages(d)', 4, 10)
    <3> DEFINE f == ConsulStages(d)
               g == ConsulStages(d)'
    <3>1. /\ g[1] = f[1] /\ g[2] = f[2] /\ g[3] = f[3] /\ g[6] = f[6]
          /\ g[7] = f[7] /\ g[8] = f[8] /\ g[9] = f[9] /\ g[10] = f[10]
      BY <1>0, StageStays, ZenonT(30)
    <3>2. g[4] = f[5] /\ g[5] = NoList /\ 4 + 1 = 5
      BY <2>1, EachConsul, NextConsul DEF Part
    <3> HIDE DEF f, g
    <3>3. \A i \in 1..10 : g[i] = NoList \/ g[i] = f[i] \/ (i = 4 /\ g[i] = f[4 + 1])
      BY <3>1, <3>2, Indices, ZenonT(30)
    <3> QED BY <3>3, ConsulMoves, 4 \in 1..9 DEF f, g
  <2> QED BY <2>2, <2>3, StagesMove, 0 \in Nat, 4 \in Nat
<1> QED BY <1>2, <1>3 DEF Sources

\* The loop takes what an aggregator holds.
LEMMA CollectOrder ==
  ASSUME IInv, OrderInv, NEW s \in Sources, H!Collect(s),
         UNCHANGED <<storeVars, events, consulVars>>
  PROVE  OrderInv'
<1>0. received' = received /\ InSlot' = InSlot /\ store' = store
  BY ZenonT(30) DEF H!Collect, storeVars, InSlot
<1>1. /\ held'[s] = NoList /\ current'[s] = held[s]
      /\ \A t \in Sources \ {s} : held'[t] = held[t] /\ current'[t] = current[t]
  BY ZenonT(30) DEF H!Collect, IInv, TypeOK, HybridTypeOK
<1>2. CASE s = "gloo"
  <2>1. /\ held'["gloo"] = NoList /\ current'["gloo"] = held["gloo"]
        /\ held'["consul"] = held["consul"] /\ current'["consul"] = current["consul"]
    BY <1>1, <1>2, ZenonT(30) DEF Sources
  <2>2. \A d \in DataCenters : Moves(ConsulStages(d), ConsulStages(d)', 0, 10)
    BY <1>0, <2>1, SameConsul, ZenonT(30)
  <2>3. \A i \in {1, 2, 3, 4, 5} : \/ GlooStages'[i] = NoList \/ GlooStages'[i] = GlooStages[i]
                                   \/ i = 3 /\ GlooStages'[i] = GlooStages[3 + 1]
    BY <1>0, <2>1 DEF GlooStages
  <2>4. Moves(GlooStages, GlooStages', 3, 5)
    BY <2>3, Indices, GlooMoves, 3 \in 1..4
  <2> QED BY <2>2, <2>4, StagesMove, 0 \in Nat, 3 \in Nat, ZenonT(30)
<1>3. CASE s = "consul"
  <2>1. /\ held'["consul"] = NoList /\ current'["consul"] = held["consul"]
        /\ held'["gloo"] = held["gloo"] /\ current'["gloo"] = current["gloo"]
    BY <1>1, <1>3, ZenonT(30) DEF Sources
  <2>2. Moves(GlooStages, GlooStages', 0, 5)
    BY <1>0, <2>1, SameGloo, ZenonT(30)
  <2>3. ASSUME NEW d \in DataCenters PROVE Moves(ConsulStages(d), ConsulStages(d)', 3, 10)
    <3> DEFINE f == ConsulStages(d)
               g == ConsulStages(d)'
    <3>1. /\ g[1] = f[1] /\ g[2] = f[2] /\ g[5] = f[5] /\ g[6] = f[6]
          /\ g[7] = f[7] /\ g[8] = f[8] /\ g[9] = f[9] /\ g[10] = f[10]
      BY <1>0, StageStays, ZenonT(30) DEF consulVars
    <3>2. g[3] = f[4] /\ g[4] = NoList /\ 3 + 1 = 4
      BY <2>1, EachConsul, NextConsul DEF Part
    <3> HIDE DEF f, g
    <3>3. \A i \in 1..10 : g[i] = NoList \/ g[i] = f[i] \/ (i = 3 /\ g[i] = f[3 + 1])
      BY <3>1, <3>2, Indices, ZenonT(30)
    <3> QED BY <3>3, ConsulMoves, 3 \in 1..9 DEF f, g
  <2> QED BY <2>2, <2>3, StagesMove, 0 \in Nat, 3 \in Nat, ZenonT(30)
<1> QED BY <1>2, <1>3 DEF Sources

\* A sync puts what the loop has into the slot, or leaves the slot alone.
LEMMA SyncOrder ==
  ASSUME IInv, OrderInv, H!FirstSync \/ H!Tick, UNCHANGED <<storeVars, events, consulVars>>
  PROVE  OrderInv'
<1>0. /\ UNCHANGED <<received, current, held, store>>
      /\ UNCHANGED <<upstreams, output, servicesByDataCenter, aggregated, tuple, catalog>>
  BY ZenonT(30) DEF H!FirstSync, H!Tick, storeVars, consulVars
<1>1. InSlot' = InSlot \/ InSlot' = current
  BY DEF H!FirstSync, H!Tick, H!SyncFunc, InSlot
<1>2. \A i \in {1, 2, 3, 4, 5} : \/ GlooStages'[i] = NoList \/ GlooStages'[i] = GlooStages[i]
                                 \/ i = 2 /\ GlooStages'[i] = GlooStages[2 + 1]
  BY <1>0, <1>1 DEF GlooStages, Part
<1>3. Moves(GlooStages, GlooStages', 2, 5)
  BY <1>2, Indices, GlooMoves, 2 \in 1..4
<1>4. ASSUME NEW d \in DataCenters PROVE Moves(ConsulStages(d), ConsulStages(d)', 2, 10)
  <2> DEFINE f == ConsulStages(d)
             g == ConsulStages(d)'
  <2>1. /\ g[1] = f[1] /\ g[3] = f[3] /\ g[4] = f[4] /\ g[5] = f[5] /\ g[6] = f[6]
        /\ g[7] = f[7] /\ g[8] = f[8] /\ g[9] = f[9] /\ g[10] = f[10]
    BY <1>0, StageStays, ZenonT(30)
  <2>2. g[2] = f[2] \/ g[2] = f[3] \/ g[2] = NoList
    BY <1>0, <1>1, EachConsul, NextConsul DEF Part
  <2>3. 2 + 1 = 3 OBVIOUS
  <2> HIDE DEF f, g
  <2>4. \A i \in 1..10 : g[i] = NoList \/ g[i] = f[i] \/ (i = 2 /\ g[i] = f[2 + 1])
    BY <2>1, <2>2, <2>3, Indices, ZenonT(30)
  <2> QED BY <2>4, ConsulMoves, 2 \in 1..9, SMTT(20) DEF f, g
<1> QED BY <1>3, <1>4, StagesMove, 2 \in Nat, ZenonT(30)

\* The reader takes what is in the slot.
LEMMA ReadOrder ==
  ASSUME IInv, OrderInv, H!Read, UNCHANGED <<storeVars, events, consulVars>>
  PROVE  OrderInv'
<1>0. /\ UNCHANGED <<current, held, store>>
      /\ UNCHANGED <<upstreams, output, servicesByDataCenter, aggregated, tuple, catalog>>
  BY ZenonT(30) DEF H!Read, storeVars, consulVars
<1>1. received' = InSlot /\ InSlot' = NoList
  BY ZenonT(30) DEF H!Read, InSlot
<1>2. \A i \in {1, 2, 3, 4, 5} : \/ GlooStages'[i] = NoList \/ GlooStages'[i] = GlooStages[i]
                                 \/ i = 1 /\ GlooStages'[i] = GlooStages[1 + 1]
  BY <1>0, <1>1 DEF GlooStages, Part
<1>3. Moves(GlooStages, GlooStages', 1, 5)
  BY <1>2, Indices, GlooMoves, 1 \in 1..4
<1>4. ASSUME NEW d \in DataCenters PROVE Moves(ConsulStages(d), ConsulStages(d)', 1, 10)
  <2> DEFINE f == ConsulStages(d)
             g == ConsulStages(d)'
  <2>1. /\ g[3] = f[3] /\ g[4] = f[4] /\ g[5] = f[5] /\ g[6] = f[6]
        /\ g[7] = f[7] /\ g[8] = f[8] /\ g[9] = f[9] /\ g[10] = f[10]
    BY <1>0, StageStays, ZenonT(30)
  <2>2. g[1] = f[2] /\ g[2] = NoList /\ 1 + 1 = 2
    BY <1>0, <1>1, EachConsul, NextConsul DEF Part
  <2> HIDE DEF f, g
  <2>3. \A i \in 1..10 : g[i] = NoList \/ g[i] = f[i] \/ (i = 1 /\ g[i] = f[1 + 1])
    BY <2>1, <2>2, Indices, ZenonT(30)
  <2> QED BY <2>3, ConsulMoves, 1 \in 1..9 DEF f, g
<1> QED BY <1>3, <1>4, StagesMove, 1 \in Nat, ZenonT(30)

\* The other steps move nothing; a cancelled aggregator drops its list.
LEMMA OtherOrder ==
  ASSUME IInv, OrderInv, NEW s \in Sources,
         \/ WatchSource(s) \/ WatchFault \/ UNCHANGED vars
         \/ /\ H!CloseOut \/ H!CloseDone \/ H!AggregatorReturns(s)
            /\ UNCHANGED <<storeVars, events, consulVars>>
  PROVE  OrderInv'
<1>1. /\ received' = received /\ upstreamsOut' = upstreamsOut /\ store' = store
      /\ current' = current /\ UNCHANGED consulVars
  BY ZenonT(30) DEF WatchSource, H!WatchSource, WatchFault, H!WatchFails, H!CancelWatch,
                    H!CloseOut, H!CloseDone, H!AggregatorReturns, vars, watchVars, storeVars
<1>2. held' = held \/ held' = [held EXCEPT ![s] = NoList]
  BY ZenonT(30) DEF WatchSource, H!WatchSource, WatchFault, H!WatchFails, H!CancelWatch,
                    H!CloseOut, H!CloseDone, H!AggregatorReturns, vars, watchVars
<1>3. held'["gloo"] \in {held["gloo"], NoList} /\ held'["consul"] \in {held["consul"], NoList}
  BY <1>2, ZenonT(30) DEF IInv, TypeOK, HybridTypeOK, Sources
<1>4. InSlot' = InSlot
  BY <1>1, ZenonT(30) DEF InSlot
<1>5. Moves(GlooStages, GlooStages', 0, 5)
  BY <1>1, <1>3, <1>4, SameGloo, ZenonT(30)
<1>6. \A d \in DataCenters : Moves(ConsulStages(d), ConsulStages(d)', 0, 10)
  BY <1>1, <1>3, <1>4, SameConsul, ZenonT(30)
<1> QED BY <1>5, <1>6, StagesMove, 0 \in Nat, ZenonT(30)

\* Every step keeps the order.
LEMMA NextOrder == IInv /\ OrderInv /\ [Next]_vars => OrderInv'
<1> SUFFICES ASSUME IInv, OrderInv, [Next]_vars PROVE OrderInv'
  OBVIOUS
<1>1. "gloo" \in Sources BY DEF Sources
<1>2. CASE HybridWork
  BY <1>1, <1>2, OtherOrder, AggregateOrder, ListOrder, CollectOrder, SyncOrder, ReadOrder,
     ZenonT(30) DEF HybridWork
<1> QED BY <1>1, <1>2, OtherOrder, WriteOrder, RegisterOrder, ConsulOrder, ZenonT(30) DEF Next

\* The versions stay in order throughout.
LEMMA OrderInductive == Spec => []OrderInv
BY InitOrder, NextOrder, Inductive, PTL DEF Spec

\* Once the watch of Consul has opened, no list lacks a data centre again.
LEMMA StaysOpened == IInv /\ Opened /\ [Next]_vars => Opened'
<1> SUFFICES ASSUME IInv, Opened, [Next]_vars PROVE Opened'
  OBVIOUS
<1>1. phase \notin {"list", "watch", "start"}
  BY ZenonT(30) DEF Opened, IInv, PhaseInv, SlotInv
<1>2. servicesByDataCenter # NoList /\ Complete(servicesByDataCenter) /\ Complete(NoList)
  BY NoListNat, ZenonT(30) DEF Opened, Complete, IInv, TypeOK, ConsulTypeOK
<1>3. CASE ConsulWork \/ ConsulError
  <2>1. UNCHANGED watchVars
    BY <1>3, ZenonT(30) DEF ConsulWork, ConsulError
  <2>2. ASSUME NEW d \in DataCenters, C!MergeServices(d)
        PROVE  \A e \in DataCenters : servicesByDataCenter'[e] # NoList
    BY <2>2, ZenonT(30) DEF Opened, C!MergeServices, IInv, TypeOK, ConsulTypeOK, FullLists
  <2>3. \A e \in DataCenters : servicesByDataCenter'[e] # NoList
    BY <1>3, <2>2, ZenonT(30) DEF Opened, ConsulWork, ConsulError, C!Query, C!SendQueryError,
                                  C!SendTuple, C!SendOutput, C!QueryFails
  <2>4. output' \in {output, NoList, servicesByDataCenter'} /\ upstreams' \in {upstreams, output}
    BY <1>3, ZenonT(30) DEF ConsulWork, ConsulError, C!Query, C!SendQueryError, C!SendTuple,
                            C!SendOutput, C!QueryFails, C!MergeServices
  <2>5. Complete(output') /\ Complete(upstreams')
    BY <2>3, <2>4, ZenonT(30) DEF Opened, Complete
  <2> QED BY <2>1, <2>3, <2>5, ZenonT(30) DEF Opened, Complete, watchVars
<1>4. CASE WriteUpstream \/ RegisterService \/ WatchFault \/ UNCHANGED vars
  <2>1. /\ UNCHANGED <<servicesByDataCenter, output, upstreams, held, current, upstreamsOut,
                       received>>
    BY <1>4, ZenonT(30) DEF WriteUpstream, RegisterService, C!Register, WatchFault,
                            H!WatchFails, H!CancelWatch, vars, consulVars, watchVars
  <2> QED BY <2>1, ZenonT(30) DEF Opened, Complete
<1>5. ASSUME NEW s \in Sources, Aggregate(s) PROVE Opened'
  <2>1. /\ UNCHANGED <<servicesByDataCenter, output, current, upstreamsOut, received>>
        /\ upstreams' \in {upstreams, NoList}
    BY <1>5 DEF Aggregate, H!Aggregate
  <2>2. held'["consul"] \in {held["consul"], upstreams}
    BY <1>5, ZenonT(30) DEF Aggregate, H!Aggregate, IInv, TypeOK, HybridTypeOK, Sources
  <2>3. Complete(upstreams') /\ Complete(held'["consul"])
    BY <1>2, <2>1, <2>2, ZenonT(30) DEF Opened
  <2> QED BY <2>1, <2>3, ZenonT(30) DEF Opened, Complete
<1>6. ASSUME NEW s \in Sources, H!Collect(s) \/ H!AggregatorReturns(s), UNCHANGED consulVars
      PROVE  Opened'
  <2>1. UNCHANGED <<servicesByDataCenter, output, upstreams, upstreamsOut, received>>
    BY <1>6, ZenonT(30) DEF H!Collect, H!AggregatorReturns, consulVars
  <2>2. /\ held'["consul"] \in {held["consul"], NoList}
        /\ current'["consul"] \in {current["consul"], held["consul"]}
    BY <1>6 DEF H!Collect, H!AggregatorReturns, IInv, TypeOK, HybridTypeOK, Sources
  <2>3. Complete(held'["consul"]) /\ Complete(current'["consul"])
    BY <1>2, <2>2, ZenonT(30) DEF Opened
  <2> QED BY <2>1, <2>3, ZenonT(30) DEF Opened, Complete
<1>7. CASE H!Tick /\ UNCHANGED consulVars
  <2>1. /\ UNCHANGED <<servicesByDataCenter, output, upstreams, held, current, received>>
        /\ upstreamsOut' = upstreamsOut \/ upstreamsOut' = <<current>>
    BY <1>7, ZenonT(30) DEF H!Tick, H!SyncFunc, consulVars
  <2>2. upstreamsOut' # <<>> => Complete(Head(upstreamsOut')["consul"])
    BY <2>1 DEF Opened
  <2> QED BY <2>1, <2>2, ZenonT(30) DEF Opened, Complete
<1>8. CASE H!Read /\ UNCHANGED consulVars
  <2>1. /\ UNCHANGED <<servicesByDataCenter, output, upstreams, held, current>>
        /\ upstreamsOut # <<>> /\ upstreamsOut' = <<>> /\ received' = Head(upstreamsOut)
    BY <1>8, ZenonT(30) DEF H!Read, consulVars
  <2>2. received' # NoList
    BY <2>1 DEF IInv, SlotInv
  <2> QED BY <2>1, <2>2, ZenonT(30) DEF Opened, Complete
<1>9. CASE (H!CloseOut \/ H!CloseDone) /\ UNCHANGED consulVars
  <2>1. UNCHANGED <<servicesByDataCenter, output, upstreams, held, current, upstreamsOut,
                    received>>
    BY <1>9, ZenonT(30) DEF H!CloseOut, H!CloseDone, consulVars
  <2> QED BY <2>1, ZenonT(30) DEF Opened, Complete
<1>10. CASE HybridWork
  <2>1. \A s \in Sources : ~H!ListSource(s) /\ ~WatchSource(s) /\ ~H!FirstSync
    BY <1>1, ZenonT(30) DEF H!ListSource, WatchSource, H!WatchSource, H!FirstSync
  <2>2. ~H!FirstSync
    BY <1>1 DEF H!FirstSync
  <2> QED BY <1>5, <1>6, <1>7, <1>8, <1>9, <1>10, <2>1, <2>2, ZenonT(30) DEF HybridWork
<1> QED BY <1>3, <1>4, <1>10 DEF Next

\* The reader is never ahead of a source.
LEMMA SeenBehind ==
  ASSUME IInv, OrderInv, NEW s \in Origins
  PROVE  Seen[s] \in 0..Written[s]
<1>1. received = NoList \/ IsMerged(received)
  BY ZenonT(30) DEF IInv, SlotInv
<1>2. CASE s = "gloo"
  <2>1. Written[s] = store /\ store \in Nat /\ store # NoList /\ GlooStages[5] = store
    BY <1>2, NoListNat DEF Written, GlooStages, IInv, TypeOK, SourceTypeOK
  <2>2. received # NoList => GlooStages[1] \in Nat /\ GlooStages[1] # NoList
    BY <1>1, NoListNat, ZenonT(30) DEF GlooStages, Part, IsMerged
  <2>3. received # NoList => GlooStages[1] <= store
    BY <2>1, <2>2, FirstBehind, 5 \in Nat \ {0} DEF OrderInv
  <2>4. Seen[s] = IF received = NoList THEN 0 ELSE GlooStages[1]
    BY <1>2, ZenonT(30) DEF Seen, GlooStages, Part
  <2> QED BY <2>1, <2>2, <2>3, <2>4
<1>3. CASE s # "gloo"
  <2>0. s \in DataCenters
    BY <1>3 DEF Origins
  <2> DEFINE f == ConsulStages(s)
  <2>1. /\ Written[s] = catalog[s].services /\ catalog[s].services \in Nat
        /\ catalog[s].services # NoList /\ f[10] = catalog[s].services
    BY <1>3, <2>0, NoListNat, EachConsul DEF Written, IInv, TypeOK, SourceTypeOK
  <2>2. Opened => /\ received # NoList /\ received["consul"] # NoList
                  /\ received["consul"][s] \in Nat /\ received["consul"][s] # NoList
    BY <1>1, <2>0, NoListNat, ZenonT(30) DEF Opened, Complete, IsMerged, FullLists, Lists
  <2>3. /\ Opened => Seen[s] = f[1] /\ f[1] \in Nat /\ f[1] # NoList
        /\ ~Opened => Seen[s] = 0
    BY <1>3, <2>0, <2>2, EachConsul, ZenonT(30) DEF Seen, Part
  <2>4. InOrder(f, 10)
    BY <2>0, ZenonT(30) DEF OrderInv
  <2> HIDE DEF f
  <2>5. Opened => f[1] <= catalog[s].services
    BY <2>1, <2>3, <2>4, FirstBehind, 10 \in Nat \ {0}, SMTT(20)
  <2> QED BY <2>1, <2>3, <2>5
<1> QED BY <1>2, <1>3, ZenonT(30)

\* What the reader sees of a source lies between what it saw before and the newest,
\* whatever it reads, as long as no source is written.
LEMMA DeliverStep ==
  ASSUME IInv, IInv', OrderInv, OrderInv', Opened => Opened',
         store' = store, catalog' = catalog, received' \in {received, InSlot},
         received' = NoList => received = NoList, NEW s \in Origins
  PROVE  Stage!Deliver(s)
<1>1. Written'[s] = Written[s]
  BY ZenonT(30) DEF Written
<1>2. /\ received = NoList \/ IsMerged(received)
      /\ received' = NoList \/ IsMerged(received')
  BY ZenonT(30) DEF IInv, SlotInv, IsMerged
<1>3. CASE s = "gloo"
  <2>0. received' = NoList => received = NoList
    BY ZenonT(30)
  <2>1. Written[s] = store /\ store \in Nat /\ GlooStages[5] = store /\ GlooStages'[5] = store
    BY <1>3 DEF Written, GlooStages, IInv, TypeOK, SourceTypeOK
  <2>2. /\ Seen[s] = IF received = NoList THEN 0 ELSE GlooStages[1]
        /\ Seen'[s] = IF received' = NoList THEN 0 ELSE GlooStages'[1]
    BY <1>3, ZenonT(30) DEF Seen, GlooStages, Part
  <2>3. received' # NoList => GlooStages'[1] \in Nat /\ GlooStages'[1] # NoList
    BY <1>2, NoListNat, ZenonT(30) DEF GlooStages, Part, IsMerged
  <2>4. received # NoList => GlooStages[1] \in Nat /\ GlooStages[1] # NoList
    BY <1>2, NoListNat, ZenonT(30) DEF GlooStages, Part, IsMerged
  <2>5. GlooStages'[1] \in {GlooStages[1], GlooStages[2]}
    BY ZenonT(30) DEF GlooStages
  <2>6. InOrder(GlooStages, 5) /\ InOrder(GlooStages', 5)
    BY ZenonT(30) DEF OrderInv
  <2>7. received' # NoList => GlooStages'[1] <= store
    BY <2>1, <2>3, <2>6, FirstBehind, 5 \in Nat \ {0}
  <2>8. received # NoList => GlooStages[1] <= GlooStages'[1]
    BY <2>0, <2>3, <2>4, <2>5, <2>6, FirstTaken, 5 \in Nat \ {0, 1}
  <2> QED BY <1>1, <2>1, <2>2, <2>3, <2>4, <2>7, <2>8 DEF Stage!Deliver
<1>4. CASE s # "gloo"
  <2>0. s \in DataCenters
    BY <1>4, ZenonT(30) DEF Origins
  <2> DEFINE f == ConsulStages(s)
             g == ConsulStages(s)'
  <2>1. /\ Written[s] = catalog[s].services /\ catalog[s].services \in Nat
        /\ f[10] = catalog[s].services /\ g[10] = catalog[s].services
    <3>1. Written[s] = catalog[s].services
      BY <1>4, ZenonT(30) DEF Written
    <3>2. catalog \in [DataCenters -> [index : 1..(events + 2), services : 0..events]]
      BY ZenonT(30) DEF IInv, TypeOK, SourceTypeOK
    <3>3. catalog[s].services \in Nat
      BY <2>0, <3>2
    <3>4. f[10] = catalog[s].services
      BY <2>0, EachConsul, ZenonT(30)
    <3>5. catalog' = catalog /\ g[10] = catalog'[s].services
      BY <2>0, NextConsul, ZenonT(30)
    <3> QED BY <3>1, <3>3, <3>4, <3>5, ZenonT(30)
  <2>2. Opened => /\ received # NoList /\ received["consul"] # NoList
                  /\ received["consul"][s] \in Nat /\ received["consul"][s] # NoList
    BY <1>2, <2>0, NoListNat, ZenonT(30) DEF Opened, Complete, IsMerged, FullLists, Lists
  <2>3. Opened' => /\ received' # NoList /\ received'["consul"] # NoList
                   /\ received'["consul"][s] \in Nat /\ received'["consul"][s] # NoList
    BY <1>2, <2>0, NoListNat, ZenonT(30) DEF Opened, Complete, IsMerged, FullLists, Lists
  <2>4. /\ Opened => Seen[s] = f[1] /\ f[1] \in Nat /\ f[1] # NoList
        /\ ~Opened => Seen[s] = 0
    BY <1>4, <2>0, <2>2, EachConsul, ZenonT(30) DEF Seen, Part
  <2>5. /\ Opened' => Seen'[s] = g[1] /\ g[1] \in Nat /\ g[1] # NoList
        /\ ~Opened' => Seen'[s] = 0
    BY <1>4, <2>0, <2>3, NextConsul, ZenonT(30) DEF Seen, Part
  <2>6. g[1] \in {f[1], f[2]}
    BY <2>0, EachConsul, NextConsul
  <2>7. InOrder(f, 10) /\ InOrder(g, 10)
    BY <2>0, ZenonT(30) DEF OrderInv
  <2> HIDE DEF f, g
  <2>8. Opened' => g[1] <= catalog[s].services
    BY <2>1, <2>5, <2>7, FirstBehind, 10 \in Nat \ {0}
  <2>9. Opened => f[1] <= g[1]
    BY <2>4, <2>5, <2>6, <2>7, FirstTaken, 10 \in Nat \ {0, 1}
  <2> QED BY <1>1, <2>1, <2>4, <2>5, <2>8, <2>9 DEF Stage!Deliver
<1> QED BY <1>3, <1>4, ZenonT(30)

\* The safety part of the refinement: the reader never goes back to an older
\* version of a source, once the watch of Consul has opened, whatever the order of
\* the lists, the queries and the steps of the aggregators.
THEOREM ReceivesInOrder == Spec => Stage!Init /\ [][Stage!Next]_<<Written, Seen>>
<1>1. Init => Stage!Init
  <2> SUFFICES ASSUME Init PROVE Stage!Init
    OBVIOUS
  <2>1. received = NoList /\ ~Opened /\ store = 0
    BY ZenonT(30) DEF Init, H!HybridInit, Opened
  <2>2. \A d \in DataCenters : catalog[d].services = 0
    BY ZenonT(30) DEF Init, C!ConsulInit, C!PerDataCenter
  <2>3. \A s \in Origins : (IF s = "gloo" THEN store ELSE catalog[s].services) = 0
    BY <2>1, <2>2, ZenonT(30) DEF Origins
  <2> QED BY <2>1, <2>3, ZenonT(30) DEF Stage!Init, Written, Seen
<1>2. IInv /\ IInv' /\ OrderInv /\ OrderInv' /\ [Next]_vars => [Stage!Next]_<<Written, Seen>>
  <2> SUFFICES ASSUME IInv, IInv', OrderInv, OrderInv', [Next]_vars
               PROVE  Stage!Next
    BY ZenonT(30)
  <2>1. Opened => Opened'
    BY StaysOpened, ZenonT(30)
  <2>2. CASE WriteUpstream
    <3>1. /\ store' = store + 1 /\ catalog' = catalog /\ received' = received
          /\ UNCHANGED <<servicesByDataCenter, output, upstreams, held, current, upstreamsOut>>
      BY <2>2, ZenonT(30) DEF WriteUpstream, consulVars, watchVars
    <3>2. Opened' = Opened /\ Seen' = Seen
      BY <3>1, ZenonT(30) DEF Opened, Complete, Seen
    <3>3. Written'["gloo"] = Written["gloo"] + 1
      BY <3>1, ZenonT(30) DEF Written, Origins
    <3>4. \A s \in Origins : s # "gloo" => Written'[s] = Written[s]
      BY <3>1, ZenonT(30) DEF Written
    <3>5. \A s \in Origins : Seen[s] \in Seen[s]..Written[s]
      BY SeenBehind
    <3> QED BY <3>2, <3>3, <3>4, <3>5, ZenonT(30) DEF Stage!Next, Stage!Write, Stage!Deliver
  <2>3. CASE RegisterService
    <3>0. PICK d \in DataCenters : \E i \in 1..(catalog[d].index + 1) : C!Register(d, i)
      BY <2>3, ZenonT(30) DEF RegisterService
    <3>1. /\ store' = store /\ received' = received
          /\ \A e \in DataCenters \ {d} : catalog'[e] = catalog[e]
          /\ catalog'[d].services = catalog[d].services + 1
          /\ UNCHANGED <<servicesByDataCenter, output, upstreams, held, current, upstreamsOut>>
      <4>1. store' = store /\ received' = received
        BY <2>3, ZenonT(30) DEF RegisterService, storeVars, watchVars
      <4>2. UNCHANGED <<held, current, upstreamsOut>>
        BY <2>3, ZenonT(30) DEF RegisterService, watchVars
      <4>3. UNCHANGED <<servicesByDataCenter, output, upstreams>>
        BY <3>0, ZenonT(30) DEF C!Register
      <4>4. /\ \A e \in DataCenters \ {d} : catalog'[e] = catalog[e]
            /\ catalog'[d].services = catalog[d].services + 1
        BY <3>0, SMTT(20) DEF C!Register, IInv, TypeOK, SourceTypeOK
      <4> QED BY <4>1, <4>2, <4>3, <4>4, ZenonT(30)
    <3>2. Opened' = Opened /\ Seen' = Seen
      BY <3>1, ZenonT(30) DEF Opened, Complete, Seen
    <3>3. Written'[d] = Written[d] + 1
      BY <3>1, DataCentersAssumption, ZenonT(30) DEF Written, Origins
    <3>4. \A s \in Origins : s # d => Written'[s] = Written[s]
      BY <3>1, ZenonT(30) DEF Written, Origins
    <3>5. \A s \in Origins : Seen[s] \in Seen[s]..Written[s]
      BY SeenBehind
    <3> QED BY <3>2, <3>3, <3>4, <3>5, ZenonT(30) DEF Stage!Next, Stage!Write, Stage!Deliver
  <2>4. CASE ConsulWork \/ ConsulError \/ WatchFault \/ HybridWork \/ UNCHANGED vars
    <3>1. store' = store /\ catalog' = catalog
      BY <2>4, ZenonT(30) DEF ConsulWork, ConsulError, WatchFault, HybridWork, WatchSource,
                              Aggregate, vars, storeVars, consulVars, C!Query,
                              C!SendQueryError, C!SendTuple, C!MergeServices, C!SendOutput,
                              C!QueryFails
    <3>2. received' = received \/ H!Read
      BY <2>4, ZenonT(30) DEF ConsulWork, ConsulError, WatchFault, HybridWork, WatchSource,
                              Aggregate, vars, watchVars, H!WatchFails, H!CancelWatch,
                              H!WatchSource, H!Aggregate, H!ListSource, H!Collect,
                              H!AggregatorReturns, H!FirstSync, H!Tick, H!CloseOut,
                              H!CloseDone
    <3>3. received' \in {received, InSlot} /\ (received' = NoList => received = NoList)
      BY <3>2, ZenonT(30) DEF H!Read, InSlot, IInv, SlotInv
    <3> QED BY <2>1, <3>1, <3>3, DeliverStep, ZenonT(30) DEF Stage!Next
  <2> QED BY <2>2, <2>3, <2>4 DEF Next
<1> QED BY <1>1, <1>2, Inductive, OrderInductive, PTL DEF Spec
=============================================================================
