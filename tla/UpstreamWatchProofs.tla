------------------------- MODULE UpstreamWatchProofs -------------------------
(***************************************************************************)
(* UpstreamWatch for any data centres and any number of events: the types, *)
(* what the reader has when nothing is on its way, and the facts about     *)
(* versions on their way that UpstreamOrderProofs needs.                   *)
(***************************************************************************)
EXTENDS UpstreamWatch, TLAPS

\* A list of the hybrid client with the upstreams of both sources.
IsMerged(list) ==
  /\ list = [s \in Sources |-> IF s = "gloo" THEN list["gloo"] ELSE list["consul"]]
  /\ list["gloo"] \in Versions /\ list["consul"] \in FullLists

\* How far Watch is: every source is listed before the first sync, which comes
\* before the loop; the loop owes a sync or has made one of what it has now.
PhaseInv ==
  /\ phase \in {"start", "run", "closing", "done"} => todo = {}
  /\ \A s \in Sources : phase = "failed" \/ (phase = "list" /\ s \in todo) \/ current[s] # NoList
  /\ phase = "list" => \A s \in Sources : held[s] = NoList
  /\ phase \in {"list", "watch", "start"} => previousHash = NoList
  /\ phase = "run" => previousHash # NoList /\ (needsSync \/ current = previousHash)

\* The list that was hashed last is in the slot or with the reader.
SlotInv ==
  /\ previousHash = NoList \/ IsMerged(previousHash)
  /\ received = NoList \/ IsMerged(received)
  /\ \/ previousHash # NoList /\ upstreamsOut = <<previousHash>>
     \/ upstreamsOut = <<>> /\ received = previousHash

\* The newest Upstreams of the cluster, once they are watched.
GlooInv ==
  live /\ H!Watched("gloo") =>
    unread \/ held["gloo"] = store \/ (held["gloo"] = NoList /\ current["gloo"] = store)

\* The services a query returned last, unless they changed since.
QueryInv ==
  \A d \in DataCenters :
    \/ lastIndex[d] # catalog[d].index \/ d \in missed
    \/ tuple[d] = catalog[d].services
    \/ tuple[d] = NoList /\ aggregated[d] = catalog[d].services
    \/ tuple[d] = NoList /\ aggregated[d] = NoList
         /\ servicesByDataCenter[d] = catalog[d].services

\* What was merged last is on its way to the loop; nothing is merged before the
\* watch of Consul is called.
Unwatched == phase = "list" \/ (phase = "watch" /\ "consul" \in todo)
Nothing == [d \in DataCenters |-> NoList]
MergedInv ==
  /\ Unwatched => /\ tuple = Nothing /\ aggregated = Nothing /\ servicesByDataCenter = Nothing
                  /\ output = NoList /\ upstreams = NoList /\ held["consul"] = NoList
  /\ \/ output = servicesByDataCenter
     \/ output = NoList /\ upstreams = servicesByDataCenter
     \/ output = NoList /\ upstreams = NoList
          /\ (\/ held["consul"] = servicesByDataCenter
              \/ held["consul"] = NoList
                   /\ (\/ ~live \/ current["consul"] = servicesByDataCenter
                       \/ servicesByDataCenter = Nothing))

IInv == TypeOK /\ PhaseInv /\ SlotInv /\ GlooInv /\ QueryInv /\ MergedInv

-----------------------------------------------------------------------------
\* NoList is neither a version nor a list, and a merged list is none either.
LEMMA NoListApart ==
  /\ NoList \notin Versions
  /\ \A list : IsMerged(list) => list # NoList
BY NoListAssumption, MaxEventsAssumption DEF Versions, IsMerged

\* What the sources offer has the type of their lists, and so has what they list.
LEMMA SourceLists ==
  ASSUME SourceTypeOK
  PROVE  store \in Versions /\ InConsul \in FullLists
         /\ \A d \in DataCenters : catalog[d].services \in Versions
<1>1. store \in Versions /\ \A d \in DataCenters : catalog[d].services \in Versions
  BY MaxEventsAssumption DEF SourceTypeOK, Versions
<1> QED BY <1>1 DEF InConsul, FullLists, Lists

\* At first nothing is listed, watched or on its way.
LEMMA InitIInv == Init => IInv
<1> SUFFICES ASSUME Init PROVE IInv
  OBVIOUS
<1> USE DEF Init, C!ConsulInit, H!HybridInit, C!PerDataCenter
<1>0. unread \in BOOLEAN /\ needsSync \in BOOLEAN /\ live \in BOOLEAN
  BY ZenonT(30)
<1>1. SourceTypeOK
  BY <1>0, MaxEventsAssumption DEF SourceTypeOK, Versions
<1>2. ConsulTypeOK
  BY MaxEventsAssumption DEF ConsulTypeOK, FullLists, Lists
<1>3. HybridTypeOK
  BY <1>0 DEF HybridTypeOK, ListsOf, Lists
<1>4. PhaseInv /\ SlotInv
  BY DEF PhaseInv, SlotInv
<1>5. GlooInv
  BY DEF GlooInv, H!Watched
<1>6. QueryInv
  <2>1. \A d \in DataCenters : catalog[d] = [index |-> 2, services |-> 0] /\ lastIndex[d] = 0
    BY ZenonT(30)
  <2>2. \A d \in DataCenters : lastIndex[d] # catalog[d].index
    <3> TAKE d \in DataCenters
    <3>1. catalog[d].index = 2 /\ lastIndex[d] = 0
      BY <2>1, [index |-> 2, services |-> 0].index = 2
    <3> QED BY <3>1
  <2> HIDE DEF Init, C!ConsulInit
  <2> QED BY <2>2, ZenonT(30) DEF QueryInv
<1>7. MergedInv
  <2>1. tuple = Nothing /\ aggregated = Nothing /\ servicesByDataCenter = Nothing
    BY DEF Nothing
  <2>2. output = NoList /\ upstreams = NoList /\ held["consul"] = NoList
    BY DEF Sources
  <2> QED BY <2>1, <2>2 DEF MergedInv
<1> QED BY <1>1, <1>2, <1>3, <1>4, <1>5, <1>6, <1>7 DEF IInv, TypeOK

\* An Upstream is written: a watch of the store that is open has news.
LEMMA WriteStep == ASSUME IInv, WriteUpstream PROVE IInv'
<1> USE DEF WriteUpstream, Happens, consulVars, watchVars
<1>0. unread' \in BOOLEAN
  BY DEF H!Watched
<1>1. SourceTypeOK'
  BY <1>0, MaxEventsAssumption DEF IInv, TypeOK, SourceTypeOK, Versions
<1>2. ConsulTypeOK' /\ HybridTypeOK'
  BY DEF IInv, TypeOK, ConsulTypeOK, HybridTypeOK
<1>3. PhaseInv' /\ SlotInv'
  BY DEF IInv, PhaseInv, SlotInv
<1>4. GlooInv'
  BY ZenonT(30) DEF GlooInv, H!Watched
<1>5. QueryInv' /\ MergedInv'
  BY DEF IInv, QueryInv, MergedInv, Unwatched
<1> QED BY <1>1, <1>2, <1>3, <1>4, <1>5 DEF IInv, TypeOK

\* A registration makes the index differ from the one that was read last, or the
\* data centre is missed.
LEMMA RegisterStep == ASSUME IInv, RegisterService PROVE IInv'
<1>0. PICK d \in DataCenters : \E i \in 1..(catalog[d].index + 1) : C!Register(d, i)
  BY DEF RegisterService
<1>1. PICK i \in 1..(catalog[d].index + 1) : C!Register(d, i)
  BY <1>0
<1> USE DEF RegisterService, Happens, storeVars, watchVars
<1>2. /\ catalog' = [catalog EXCEPT ![d] = [index |-> i, services |-> @.services + 1]]
      /\ missed' = IF i = lastIndex[d] THEN missed \cup {d} ELSE missed \ {d}
      /\ UNCHANGED <<lastIndex, tuple, failing, aggregated, servicesByDataCenter, output,
                     upstreams>>
  BY <1>1, ZenonT(30) DEF C!Register
<1>3. SourceTypeOK'
  <2>1. catalog[d].index \in 1..(events + 2) /\ catalog[d].services \in 0..events
    BY DEF IInv, TypeOK, SourceTypeOK
  <2>2. [index |-> i, services |-> catalog[d].services + 1]
          \in [index : 1..(events' + 2), services : 0..events']
    BY <2>1, MaxEventsAssumption DEF IInv, TypeOK, SourceTypeOK, Versions
  <2>3. catalog \in [DataCenters -> [index : 1..(events' + 2), services : 0..events']]
    BY MaxEventsAssumption DEF IInv, TypeOK, SourceTypeOK, Versions
  <2>4. catalog' \in [DataCenters -> [index : 1..(events' + 2), services : 0..events']]
    BY <1>2, <2>2, <2>3
  <2> QED BY <2>4, MaxEventsAssumption DEF IInv, TypeOK, SourceTypeOK, Versions
<1>4. ConsulTypeOK' /\ HybridTypeOK'
  BY <1>2, ZenonT(30) DEF IInv, TypeOK, ConsulTypeOK, HybridTypeOK
<1>5. PhaseInv' /\ SlotInv' /\ GlooInv' /\ MergedInv'
  BY <1>2, ZenonT(30) DEF IInv, PhaseInv, SlotInv, GlooInv, MergedInv, Unwatched, H!Watched
<1>6. QueryInv'
  <2> SUFFICES ASSUME NEW e \in DataCenters
               PROVE  (\/ lastIndex[e] # catalog[e].index \/ e \in missed
                       \/ tuple[e] = catalog[e].services
                       \/ tuple[e] = NoList /\ aggregated[e] = catalog[e].services
                       \/ tuple[e] = NoList /\ aggregated[e] = NoList
                            /\ servicesByDataCenter[e] = catalog[e].services)'
    BY ZenonT(30) DEF QueryInv
  <2>1. CASE e = d
    BY <1>2, <2>1, ZenonT(30) DEF IInv, TypeOK, SourceTypeOK
  <2>2. CASE e # d
    <3>1. catalog'[e] = catalog[e] /\ (e \in missed' <=> e \in missed)
      BY <1>2, <2>2, ZenonT(30) DEF IInv, TypeOK, SourceTypeOK
    <3> QED BY <1>2, <3>1, ZenonT(30) DEF IInv, QueryInv
  <2> QED BY <2>1, <2>2, ZenonT(30)
<1> QED BY <1>3, <1>4, <1>5, <1>6, ZenonT(30) DEF IInv, TypeOK

\* What the goroutines of the Consul watch leave alone.
LEMMA ConsulFrame ==
  ASSUME IInv, UNCHANGED <<storeVars, events, catalog, watchVars>>
  PROVE  SourceTypeOK' /\ HybridTypeOK' /\ PhaseInv' /\ SlotInv' /\ GlooInv'
<1> USE DEF storeVars, watchVars
<1>1. SourceTypeOK' /\ HybridTypeOK'
  BY ZenonT(30) DEF IInv, TypeOK, SourceTypeOK, HybridTypeOK
<1>2. PhaseInv' /\ SlotInv' /\ GlooInv'
  BY ZenonT(30) DEF IInv, PhaseInv, SlotInv, GlooInv, H!Watched
<1> QED BY <1>1, <1>2

\* A query that returns has the services as they are.
LEMMA QueryStep ==
  ASSUME IInv, NEW d \in DataCenters, C!Query(d), UNCHANGED watchVars, ~Unwatched
  PROVE  ConsulTypeOK' /\ QueryInv' /\ MergedInv'
<1> USE DEF C!Query
<1>1. catalog[d].services \in Versions /\ catalog[d].index \in 0..(MaxEvents + 2)
  BY SourceLists, MaxEventsAssumption DEF IInv, TypeOK, SourceTypeOK, Versions
<1>2. tuple' \in FullLists /\ lastIndex' \in [DataCenters -> 0..(MaxEvents + 2)]
  BY <1>1, MaxEventsAssumption DEF IInv, TypeOK, ConsulTypeOK, FullLists, Lists
<1>3. ConsulTypeOK'
  BY <1>2, ZenonT(30) DEF IInv, TypeOK, ConsulTypeOK
<1>4. tuple'[d] = catalog'[d].services
      /\ \A e \in DataCenters \ {d} : tuple'[e] = tuple[e] /\ lastIndex'[e] = lastIndex[e]
  BY ZenonT(30) DEF IInv, TypeOK, ConsulTypeOK, FullLists
<1>5. QueryInv'
  BY <1>4, ZenonT(30) DEF IInv, QueryInv
<1>6. MergedInv'
  BY ZenonT(30) DEF IInv, MergedInv, Unwatched, watchVars
<1> QED BY <1>3, <1>5, <1>6, ZenonT(30)

\* An error that comes or goes concerns no list.
LEMMA ErrorStep ==
  ASSUME IInv, NEW d \in DataCenters, C!QueryFails(d) \/ C!SendQueryError(d),
         UNCHANGED watchVars
  PROVE  ConsulTypeOK' /\ QueryInv' /\ MergedInv'
<1> USE DEF C!QueryFails, C!SendQueryError
<1>1. failing' \subseteq DataCenters
  BY DEF IInv, TypeOK, ConsulTypeOK
<1> QED BY <1>1, ZenonT(30) DEF IInv, TypeOK, ConsulTypeOK, QueryInv, MergedInv, Unwatched,
                                watchVars

\* aggregateServices takes the tuple.
LEMMA TupleStep ==
  ASSUME IInv, NEW d \in DataCenters, C!SendTuple(d), UNCHANGED watchVars, ~Unwatched
  PROVE  ConsulTypeOK' /\ QueryInv' /\ MergedInv'
<1> USE DEF C!SendTuple
<1>1. tuple' \in FullLists /\ aggregated' \in FullLists
  BY DEF IInv, TypeOK, ConsulTypeOK, FullLists, Lists
<1>2. ConsulTypeOK'
  BY <1>1 DEF IInv, TypeOK, ConsulTypeOK
<1>3. /\ tuple'[d] = NoList /\ aggregated'[d] = tuple[d]
      /\ \A e \in DataCenters \ {d} : tuple'[e] = tuple[e] /\ aggregated'[e] = aggregated[e]
  BY ZenonT(30) DEF IInv, TypeOK, ConsulTypeOK, FullLists
<1>4. QueryInv'
  BY <1>3, SourceLists, NoListApart DEF IInv, TypeOK, QueryInv
<1>5. MergedInv'
  BY ZenonT(30) DEF IInv, MergedInv, Unwatched, watchVars
<1> QED BY <1>2, <1>4, <1>5

\* The services of a data centre are merged into those of the others.
LEMMA MergeStep ==
  ASSUME IInv, NEW d \in DataCenters, C!MergeServices(d), UNCHANGED watchVars, ~Unwatched
  PROVE  ConsulTypeOK' /\ QueryInv' /\ MergedInv'
<1> USE DEF C!MergeServices
<1>1. servicesByDataCenter' \in FullLists /\ aggregated' \in FullLists
  BY ZenonT(30) DEF IInv, TypeOK, ConsulTypeOK, FullLists, Lists
<1>2. ConsulTypeOK'
  BY <1>1 DEF IInv, TypeOK, ConsulTypeOK, Lists
<1>3. /\ servicesByDataCenter'[d] = aggregated[d] /\ aggregated'[d] = NoList
      /\ \A e \in DataCenters \ {d} : aggregated'[e] = aggregated[e]
                                      /\ servicesByDataCenter'[e] = servicesByDataCenter[e]
  BY ZenonT(30) DEF IInv, TypeOK, ConsulTypeOK, FullLists
<1>4. QueryInv'
  BY <1>3, SourceLists, NoListApart, ZenonT(30) DEF IInv, TypeOK, QueryInv
<1>5. MergedInv'
  BY ZenonT(30) DEF MergedInv, Unwatched, watchVars
<1> QED BY <1>2, <1>4, <1>5

\* The upstream client takes the merged list.
LEMMA OutputStep ==
  ASSUME IInv, C!SendOutput, UNCHANGED watchVars, ~Unwatched
  PROVE  ConsulTypeOK' /\ QueryInv' /\ MergedInv'
<1> USE DEF C!SendOutput
<1>1. ConsulTypeOK'
  BY DEF IInv, TypeOK, ConsulTypeOK, Lists
<1>2. QueryInv'
  BY ZenonT(30) DEF IInv, QueryInv
<1>3. MergedInv'
  BY ZenonT(30) DEF IInv, MergedInv, Unwatched, watchVars
<1> QED BY <1>1, <1>2, <1>3

\* The steps of the Consul watch, which exists once it was called.
LEMMA ConsulStep == ASSUME IInv, ConsulWork \/ ConsulError PROVE IInv'
<1> USE DEF ConsulWork, ConsulError
<1>1. UNCHANGED watchVars /\ ~Unwatched
  BY DEF H!Watched, Unwatched
<1>2. ConsulTypeOK' /\ QueryInv' /\ MergedInv'
  BY <1>1, QueryStep, ErrorStep, TupleStep, MergeStep, OutputStep, ZenonT(30)
<1>3. UNCHANGED <<storeVars, catalog>>
  BY ZenonT(30) DEF C!Query, C!SendQueryError, C!SendTuple, C!MergeServices, C!SendOutput,
                    C!QueryFails
<1>4. CASE ConsulWork
  BY <1>1, <1>2, <1>3, <1>4, ConsulFrame, ZenonT(30) DEF IInv, TypeOK
<1>5. CASE ConsulError
  <2>1. SourceTypeOK'
    BY <1>3, <1>5, MaxEventsAssumption DEF Happens, storeVars, IInv, TypeOK, SourceTypeOK,
                                           Versions
  <2>2. HybridTypeOK' /\ PhaseInv' /\ SlotInv' /\ GlooInv'
    BY <1>1, <1>3, ZenonT(30) DEF watchVars, storeVars, IInv, TypeOK, HybridTypeOK, PhaseInv,
                                  SlotInv, GlooInv, H!Watched
  <2> QED BY <1>2, <2>1, <2>2 DEF IInv, TypeOK
<1> QED BY <1>4, <1>5

\* What the hybrid client leaves alone when it only moves its own lists.
LEMMA HybridFrame ==
  ASSUME IInv, UNCHANGED <<storeVars, events, consulVars>>
  PROVE  SourceTypeOK' /\ ConsulTypeOK' /\ QueryInv'
<1> USE DEF storeVars, consulVars
<1>1. SourceTypeOK' /\ ConsulTypeOK'
  BY ZenonT(30) DEF IInv, TypeOK, SourceTypeOK, ConsulTypeOK
<1>2. QueryInv'
  BY ZenonT(30) DEF IInv, QueryInv
<1> QED BY <1>1, <1>2

\* The list of one more source is known.
LEMMA ListStep ==
  ASSUME IInv, NEW s \in Sources, H!ListSource(s), UNCHANGED <<storeVars, events, consulVars>>
  PROVE  IInv'
<1> USE DEF H!ListSource
<1>1. current' = [current EXCEPT ![s] = IF s = "gloo" THEN store ELSE InConsul]
  OBVIOUS
<1>2. (IF s = "gloo" THEN store ELSE InConsul) \in ListsOf(s) \ {NoList}
  BY SourceLists, NoListApart, NoListAssumption, ZenonT(30) DEF IInv, TypeOK, ListsOf, Lists
<1>3. /\ current' = [t \in Sources |-> current'[t]]
      /\ current'[s] \in ListsOf(s) \ {NoList}
      /\ \A t \in Sources \ {s} : current'[t] = current[t]
  BY <1>1, <1>2, ZenonT(30) DEF IInv, TypeOK, HybridTypeOK
<1>4. todo' \subseteq Sources /\ phase' \in {"list", "watch"}
  BY ZenonT(30) DEF IInv, TypeOK, HybridTypeOK
<1>5. HybridTypeOK'
  BY <1>3, <1>4, ZenonT(30) DEF IInv, TypeOK, HybridTypeOK
<1>6. PhaseInv' /\ SlotInv'
  BY <1>3, <1>4, ZenonT(30) DEF IInv, TypeOK, HybridTypeOK, PhaseInv, SlotInv
<1>7. GlooInv'
  BY ZenonT(30) DEF IInv, TypeOK, HybridTypeOK, GlooInv, H!Watched, Sources
<1>8. MergedInv'
  BY <1>4, ZenonT(30) DEF IInv, MergedInv, Unwatched, consulVars
<1> QED BY <1>5, <1>6, <1>7, <1>8, HybridFrame, ZenonT(30) DEF IInv, TypeOK

\* One more source is watched; the watch of the store opens with a read.
LEMMA WatchStep ==
  ASSUME IInv, NEW s \in Sources, WatchSource(s)
  PROVE  IInv'
<1> USE DEF WatchSource, H!WatchSource
<1>0. unread' \in BOOLEAN
  BY ZenonT(30) DEF IInv, TypeOK, SourceTypeOK
<1>1. SourceTypeOK' /\ ConsulTypeOK' /\ QueryInv'
  BY <1>0, ZenonT(30) DEF consulVars, IInv, TypeOK, SourceTypeOK, ConsulTypeOK, QueryInv
<1>2. todo' \subseteq Sources /\ phase' \in {"watch", "start"} /\ (phase' = "start" => todo' = {})
  BY ZenonT(30) DEF IInv, TypeOK, HybridTypeOK
<1>3. HybridTypeOK'
  BY <1>2, ZenonT(30) DEF IInv, TypeOK, HybridTypeOK
<1>4. PhaseInv' /\ SlotInv'
  BY <1>2, ZenonT(30) DEF IInv, PhaseInv, SlotInv
<1>5. GlooInv'
  BY <1>2, ZenonT(30) DEF IInv, GlooInv, H!Watched
<1>6. MergedInv'
  BY <1>2, ZenonT(30) DEF IInv, MergedInv, Unwatched, consulVars
<1> QED BY <1>1, <1>3, <1>4, <1>5, <1>6, ZenonT(30) DEF IInv, TypeOK

\* Watch returns an error, or the watch is cancelled: nothing moves.
LEMMA FaultStep == ASSUME IInv, WatchFault PROVE IInv'
<1> USE DEF WatchFault, H!WatchFails, H!CancelWatch
<1>0. live' \in BOOLEAN
  BY ZenonT(30) DEF IInv, TypeOK, HybridTypeOK
<1>1. SourceTypeOK'
  BY MaxEventsAssumption DEF Happens, storeVars, consulVars, IInv, TypeOK, SourceTypeOK,
                             Versions
<1>2. ConsulTypeOK' /\ QueryInv'
  BY ZenonT(30) DEF consulVars, IInv, TypeOK, ConsulTypeOK, QueryInv
<1>3. HybridTypeOK'
  BY <1>0, ZenonT(30) DEF IInv, TypeOK, HybridTypeOK
<1>4. PhaseInv' /\ SlotInv'
  BY ZenonT(30) DEF IInv, PhaseInv, SlotInv
<1>5. GlooInv' /\ MergedInv'
  BY DEF IInv, GlooInv, H!Watched, MergedInv, Unwatched, consulVars, storeVars
<1> QED BY <1>1, <1>2, <1>3, <1>4, <1>5, ZenonT(30) DEF IInv, TypeOK

\* An aggregator takes what the watch of its source has for it.
LEMMA AggregateStep ==
  ASSUME IInv, NEW s \in Sources, Aggregate(s)
  PROVE  IInv'
<1> USE DEF Aggregate, H!Aggregate
<1>1. held' = [held EXCEPT ![s] = IF s = "consul" THEN upstreams
                                  ELSE IF unread THEN store ELSE NoList]
  BY ZenonT(30)
<1>2. held'[s] \in ListsOf(s)
  BY <1>1, SourceLists, ZenonT(30) DEF IInv, TypeOK, HybridTypeOK, ConsulTypeOK, ListsOf,
                                       Lists, Sources
<1>3. /\ held' = [t \in Sources |-> held'[t]]
      /\ \A t \in Sources \ {s} : held'[t] = held[t]
  BY <1>1, ZenonT(30) DEF IInv, TypeOK, HybridTypeOK
<1>4. unread' \in BOOLEAN /\ upstreams' \in Lists(FullLists)
  BY ZenonT(30) DEF IInv, TypeOK, SourceTypeOK, ConsulTypeOK, Lists
<1>5. SourceTypeOK' /\ ConsulTypeOK' /\ QueryInv'
  BY <1>4, ZenonT(30) DEF IInv, TypeOK, SourceTypeOK, ConsulTypeOK, QueryInv
<1>6. HybridTypeOK'
  BY <1>2, <1>3, ZenonT(30) DEF IInv, TypeOK, HybridTypeOK
<1>7. PhaseInv' /\ SlotInv'
  BY ZenonT(30) DEF IInv, PhaseInv, SlotInv, H!Watched
<1>8. GlooInv' /\ MergedInv'
  <2>1. CASE s = "gloo"
    <3>1. unread /\ held'["gloo"] = store /\ held'["consul"] = held["consul"]
      BY <1>1, <1>3, <2>1, ZenonT(30) DEF IInv, TypeOK, HybridTypeOK, Sources
    <3> QED BY <2>1, <3>1, ZenonT(30) DEF IInv, GlooInv, H!Watched, MergedInv, Unwatched
  <2>2. CASE s = "consul"
    <3>1. /\ upstreams # NoList /\ held["consul"] = NoList /\ held'["consul"] = upstreams
          /\ held'["gloo"] = held["gloo"] /\ ~Unwatched
      BY <1>1, <1>3, <2>2, ZenonT(30) DEF IInv, TypeOK, HybridTypeOK, Sources, H!Watched,
                                          Unwatched
    <3> QED BY <2>2, <3>1, ZenonT(30) DEF IInv, GlooInv, H!Watched, MergedInv, Unwatched
  <2> QED BY <2>1, <2>2, ZenonT(30) DEF Sources
<1> QED BY <1>5, <1>6, <1>7, <1>8, ZenonT(30) DEF IInv, TypeOK

\* The loop takes a list from an aggregator.
LEMMA CollectStep ==
  ASSUME IInv, NEW s \in Sources, H!Collect(s), UNCHANGED <<storeVars, events, consulVars>>
  PROVE  IInv'
<1> USE DEF H!Collect
<1>1. /\ held' = [t \in Sources |-> held'[t]] /\ held'[s] = NoList
      /\ current' = [t \in Sources |-> current'[t]] /\ current'[s] = held[s]
      /\ \A t \in Sources \ {s} : held'[t] = held[t] /\ current'[t] = current[t]
  BY ZenonT(30) DEF IInv, TypeOK, HybridTypeOK
<1>2. \A t \in Sources : held'[t] \in ListsOf(t) /\ current'[t] \in ListsOf(t)
  BY <1>1, ZenonT(30) DEF IInv, TypeOK, HybridTypeOK, ListsOf, Lists
<1>3. HybridTypeOK'
  BY <1>1, <1>2, ZenonT(30) DEF IInv, TypeOK, HybridTypeOK
<1>4. PhaseInv' /\ SlotInv'
  BY <1>1, ZenonT(30) DEF IInv, PhaseInv, SlotInv
<1>5. GlooInv'
  <2>1. CASE s = "gloo"
    BY <1>1, <2>1, ZenonT(30) DEF IInv, GlooInv, H!Watched, storeVars, Sources
  <2>2. CASE s # "gloo"
    BY <1>1, <2>2, ZenonT(30) DEF IInv, GlooInv, H!Watched, storeVars, Sources
  <2> QED BY <2>1, <2>2, ZenonT(30)
<1>6. MergedInv'
  <2>1. CASE s = "consul"
    BY <1>1, <2>1, ZenonT(30) DEF IInv, MergedInv, Unwatched, consulVars, Sources
  <2>2. CASE s # "consul"
    BY <1>1, <2>2, ZenonT(30) DEF IInv, MergedInv, Unwatched, consulVars, Sources
  <2> QED BY <2>1, <2>2, ZenonT(30)
<1> QED BY <1>3, <1>4, <1>5, <1>6, HybridFrame, ZenonT(30) DEF IInv, TypeOK

\* The first sync and those of the ticker hash what the loop has and replace what
\* is in the slot.
LEMMA SyncStep ==
  ASSUME IInv, H!FirstSync \/ H!Tick, UNCHANGED <<storeVars, events, consulVars>>
  PROVE  IInv'
<1> USE DEF H!FirstSync, H!Tick, H!SyncFunc
<1>1. IsMerged(current)
  <2>1. \A s \in Sources : current[s] \in ListsOf(s) \ {NoList}
    BY ZenonT(30) DEF IInv, TypeOK, HybridTypeOK, PhaseInv
  <2>2. current["gloo"] \in Versions /\ current["consul"] \in FullLists
    BY <2>1, ZenonT(30) DEF ListsOf, Lists, Sources
  <2>3. current = [s \in Sources |-> IF s = "gloo" THEN current["gloo"] ELSE current["consul"]]
    <3>1. \A s \in Sources : current[s] = IF s = "gloo" THEN current["gloo"] ELSE current["consul"]
      BY ZenonT(30) DEF Sources
    <3>2. current = [s \in Sources |-> current[s]]
      BY ZenonT(30) DEF IInv, TypeOK, HybridTypeOK
    <3> QED BY <3>1, <3>2, ZenonT(30)
  <2> QED BY <2>2, <2>3, ZenonT(30) DEF IsMerged
<1>2. current # NoList
  BY <1>1, NoListApart, ZenonT(30)
<1>3. needsSync' \in BOOLEAN /\ Len(upstreamsOut') <= 1 /\ phase' = "run"
  <2>1. needsSync' \in BOOLEAN /\ phase' = "run"
    BY ZenonT(30)
  <2>2. upstreamsOut' = upstreamsOut \/ upstreamsOut' = <<current>>
    BY ZenonT(30)
  <2>3. Len(<<current>>) = 1 /\ Len(upstreamsOut) <= 1
    BY ZenonT(30) DEF IInv, TypeOK, HybridTypeOK
  <2>4. Len(upstreamsOut') <= 1
    <3>1. CASE upstreamsOut' = upstreamsOut BY <2>3, <3>1, ZenonT(30)
    <3>2. CASE upstreamsOut' = <<current>>
      <4>1. Len(upstreamsOut') = 1 BY <2>3, <3>2, ZenonT(30)
      <4> QED BY <4>1
    <3> QED BY <2>2, <3>1, <3>2, ZenonT(30)
  <2> QED BY <2>1, <2>4, ZenonT(30)
<1>4. HybridTypeOK'
  BY <1>3, ZenonT(30) DEF IInv, TypeOK, HybridTypeOK
<1>5. PhaseInv'
  BY <1>2, <1>3, ZenonT(30) DEF IInv, PhaseInv
<1>6. SlotInv'
  BY <1>1, <1>2, ZenonT(30) DEF IInv, SlotInv, IsMerged
<1>7. GlooInv' /\ MergedInv'
  BY <1>3 DEF IInv, GlooInv, H!Watched, MergedInv, Unwatched, consulVars, storeVars
<1> QED BY <1>4, <1>5, <1>6, <1>7, HybridFrame, ZenonT(30) DEF IInv, TypeOK

\* The reader takes what is in the slot.
LEMMA ReadStep ==
  ASSUME IInv, H!Read, UNCHANGED <<storeVars, events, consulVars>>
  PROVE  IInv'
<1> USE DEF H!Read
<1>1. upstreamsOut = <<previousHash>> /\ received' = previousHash /\ upstreamsOut' = <<>>
  BY DEF IInv, SlotInv
<1>2. HybridTypeOK'
  BY <1>1 DEF IInv, TypeOK, HybridTypeOK
<1>3. PhaseInv' /\ SlotInv'
  BY <1>1, ZenonT(30) DEF IInv, PhaseInv, SlotInv, IsMerged
<1>4. GlooInv' /\ MergedInv'
  BY ZenonT(30) DEF IInv, GlooInv, H!Watched, MergedInv, Unwatched, consulVars, storeVars
<1> QED BY <1>2, <1>3, <1>4, HybridFrame, ZenonT(30) DEF IInv, TypeOK

\* The loop and the aggregators of a cancelled watch return.
LEMMA CloseStep ==
  ASSUME IInv, NEW s \in Sources, H!CloseOut \/ H!CloseDone \/ H!AggregatorReturns(s),
         UNCHANGED <<storeVars, events, consulVars>>
  PROVE  IInv'
<1> USE DEF H!CloseOut, H!CloseDone, H!AggregatorReturns
<1>1. CASE H!CloseOut \/ H!CloseDone
  <2>1. HybridTypeOK'
    BY <1>1, ZenonT(30) DEF IInv, TypeOK, HybridTypeOK
  <2>2. PhaseInv' /\ SlotInv'
    BY <1>1, ZenonT(30) DEF IInv, PhaseInv, SlotInv
  <2>3. GlooInv' /\ MergedInv'
    BY <1>1 DEF IInv, GlooInv, H!Watched, MergedInv, Unwatched, consulVars, storeVars
  <2> QED BY <2>1, <2>2, <2>3, HybridFrame, ZenonT(30) DEF IInv, TypeOK
<1>2. CASE H!AggregatorReturns(s)
  <2>1. /\ held' = [t \in Sources |-> held'[t]] /\ held'[s] = NoList
        /\ \A t \in Sources \ {s} : held'[t] = held[t]
    BY <1>2, ZenonT(30) DEF IInv, TypeOK, HybridTypeOK
  <2>2. HybridTypeOK'
    BY <1>2, <2>1, ZenonT(30) DEF IInv, TypeOK, HybridTypeOK, ListsOf, Lists
  <2>3. PhaseInv' /\ SlotInv'
    BY <1>2, SMTT(20) DEF IInv, PhaseInv, SlotInv
  <2>4. GlooInv'
    BY <1>2, ZenonT(30) DEF GlooInv
  <2>5. MergedInv'
    BY <1>2, <2>1, ZenonT(30) DEF IInv, MergedInv, Unwatched, consulVars, Sources
  <2> QED BY <2>2, <2>3, <2>4, <2>5, HybridFrame, ZenonT(30) DEF IInv, TypeOK
<1> QED BY <1>1, <1>2, ZenonT(30)

\* Every step keeps the invariant.
LEMMA NextIInv == IInv /\ [Next]_vars => IInv'
<1> SUFFICES ASSUME IInv, [Next]_vars PROVE IInv'
  OBVIOUS
<1>1. CASE HybridWork
  <2>1. "gloo" \in Sources BY DEF Sources
  <2> QED BY ZenonT(30), <1>1, <2>1, WatchStep, AggregateStep, ListStep, CollectStep,
             CloseStep, SyncStep, ReadStep DEF HybridWork
<1>2. CASE UNCHANGED vars
  <2>1. UNCHANGED <<storeVars, events, catalog, watchVars, consulVars>>
    BY <1>2, ZenonT(30) DEF vars, consulVars
  <2>2. MergedInv'
    BY <2>1, ZenonT(30) DEF IInv, MergedInv, Unwatched, watchVars, consulVars
  <2> QED BY <2>1, <2>2, ConsulFrame, HybridFrame, ZenonT(30) DEF IInv, TypeOK
<1> QED BY <1>1, <1>2, WriteStep, RegisterStep, ConsulStep, FaultStep DEF Next

\* The inductive invariant holds throughout.
LEMMA Inductive == Spec => []IInv
BY InitIInv, NextIInv, PTL DEF Spec

\* Type correctness: the slot of the hybrid client never overflows.
THEOREM TypeCorrect == Spec => []TypeOK
BY Inductive, PTL DEF IInv

\* When nothing is on its way, the reader has the newest upstreams of every
\* source that is not missed.
THEOREM SettledCorrect == Spec => []ReceivedSettled
<1>1. IInv => ReceivedSettled
  <2> SUFFICES ASSUME IInv, H!Quiet, C!ConsulQuiet
               PROVE  /\ received["gloo"] = store
                      /\ \A d \in DataCenters :
                           received["consul"][d] = catalog[d].services \/ d \in missed
    BY ZenonT(30) DEF ReceivedSettled
  <2>1. phase = "run" /\ live /\ ~needsSync /\ upstreamsOut = <<>> /\ ~unread
    BY SourceLists, NoListApart, ZenonT(30) DEF H!Quiet, Sources, IInv, TypeOK
  <2>2. held["gloo"] = NoList /\ held["consul"] = NoList
    BY ZenonT(30) DEF H!Quiet, Sources
  <2>3. received = current
    BY <2>1, ZenonT(30) DEF IInv, PhaseInv, SlotInv
  <2>4. H!Watched("gloo")
    BY <2>1, ZenonT(30) DEF IInv, PhaseInv, H!Watched
  <2>5. current["gloo"] = store
    BY <2>1, <2>2, <2>4, SourceLists, NoListApart, ZenonT(30) DEF IInv, TypeOK, GlooInv
  <2>6. ASSUME NEW d \in DataCenters, d \notin missed
        PROVE  current["consul"][d] = catalog[d].services
    <3>1. servicesByDataCenter[d] = catalog[d].services /\ servicesByDataCenter[d] # NoList
      BY <2>6, SourceLists, NoListApart, ZenonT(30) DEF C!ConsulQuiet, IInv, TypeOK, QueryInv
    <3>2. servicesByDataCenter # Nothing /\ servicesByDataCenter # NoList
      BY <3>1, NoListAssumption, ZenonT(30) DEF Nothing, IInv, TypeOK, ConsulTypeOK
    <3>3. current["consul"] = servicesByDataCenter
      BY <2>1, <2>2, <3>2, ZenonT(30) DEF C!ConsulQuiet, IInv, MergedInv
    <3> QED BY <3>1, <3>3, ZenonT(30)
  <2> QED BY <2>3, <2>5, <2>6, ZenonT(30)
<1> QED BY <1>1, Inductive, PTL

-----------------------------------------------------------------------------
\* The versions of a source, from the reader back to the source.
Part(list, s) == IF list = NoList THEN NoList ELSE list[s]
InSlot == IF upstreamsOut = <<>> THEN NoList ELSE Head(upstreamsOut)
GlooStages ==
  <<Part(received, "gloo"), Part(InSlot, "gloo"), current["gloo"], held["gloo"], store>>
ConsulStages(d) ==
  <<Part(Part(received, "consul"), d), Part(Part(InSlot, "consul"), d),
    Part(current["consul"], d), Part(held["consul"], d), Part(upstreams, d),
    Part(output, d), servicesByDataCenter[d], aggregated[d], tuple[d], catalog[d].services>>

\* The nearer to the source, the newer.
InOrder(f, n) ==
  \A i, j \in 1..n : i <= j /\ f[i] # NoList /\ f[j] # NoList => f[i] <= f[j]

\* Stages with the values of others, further back the further back they are; in
\* particular, stage k with the value of the next one.  Values may be lost.
Picks(f, g, m, n) ==
  /\ m \in [1..n -> 1..n] /\ \A i, j \in 1..n : i <= j => m[i] <= m[j]
  /\ \A i \in 1..n : g[i] = NoList \/ g[i] = f[m[i]]
Moves(f, g, k, n) ==
  \A i \in 1..n : g[i] = NoList \/ g[i] = f[i] \/ (i = k /\ k < n /\ g[i] = f[k + 1])

OrderInv == InOrder(GlooStages, 5) /\ \A d \in DataCenters : InOrder(ConsulStages(d), 10)

\* NoList is no version and no list of Consul services.
LEMMA NoListNat == NoList \notin Nat /\ NoList \notin FullLists /\ Versions \subseteq Nat
BY NoListAssumption, MaxEventsAssumption DEF Versions

\* A stage that takes the value of the next one, or loses its own, stays in order;
\* so does the whole when the source gets a newer value.
LEMMA Shifted ==
  ASSUME NEW n \in Nat, NEW f, NEW g, InOrder(f, n), NEW m, Picks(f, g, m, n)
  PROVE  InOrder(g, n)
BY ZenonT(30) DEF InOrder, Picks

\* A newer version at the source keeps the stages before it in order.
LEMMA Grown ==
  ASSUME NEW n \in Nat \ {0}, NEW f, NEW g, InOrder(f, n),
         \A i \in 1..n : f[i] = NoList \/ f[i] \in Nat,
         \A i \in 1..(n - 1) : g[i] = f[i], f[n] \in Nat, g[n] = f[n] + 1
  PROVE  InOrder(g, n)
<1> SUFFICES ASSUME NEW i \in 1..n, NEW j \in 1..n, i <= j, g[i] # NoList, g[j] # NoList
             PROVE  g[i] <= g[j]
  BY ZenonT(30) DEF InOrder
<1>1. CASE j < n
  BY <1>1 DEF InOrder
<1>2. CASE i = n
  BY <1>2
<1>3. CASE i < n /\ j = n
  <2>1. f[n] # NoList /\ g[i] = f[i] /\ f[i] \in Nat
    BY <1>3, NoListNat
  <2>2. f[i] <= f[n]
    BY <1>3, <2>1, ZenonT(30) DEF InOrder
  <2> QED BY <1>3, <2>1, <2>2
<1> QED BY <1>1, <1>2, <1>3

\* The values of the stages are versions.
LEMMA StageValues ==
  ASSUME IInv
  PROVE  /\ \A i \in 1..5 : GlooStages[i] \in Lists(Nat)
         /\ \A d \in DataCenters : \A i \in 1..10 : ConsulStages(d)[i] \in Lists(Nat)
<1>1. Versions \subseteq Nat
  BY NoListNat
<1>2. InSlot = NoList \/ IsMerged(InSlot)
  BY DEF IInv, SlotInv, InSlot
<1>3. received = NoList \/ IsMerged(received)
  BY DEF IInv, SlotInv
<1>4. held["gloo"] \in Lists(Versions) /\ current["gloo"] \in Lists(Versions)
      /\ held["consul"] \in Lists(FullLists) /\ current["consul"] \in Lists(FullLists)
  BY ZenonT(30) DEF IInv, TypeOK, HybridTypeOK, ListsOf, Sources
<1>5. /\ GlooStages[1] \in Lists(Nat) /\ GlooStages[2] \in Lists(Nat)
      /\ GlooStages[3] \in Lists(Nat) /\ GlooStages[4] \in Lists(Nat)
      /\ GlooStages[5] \in Lists(Nat)
  BY <1>1, <1>2, <1>3, <1>4, SourceLists, ZenonT(30)
  DEF GlooStages, Part, Lists, IsMerged, IInv, TypeOK
<1>6. ASSUME NEW list \in Lists(FullLists), NEW d \in DataCenters
      PROVE  Part(list, d) \in Lists(Nat)
  BY <1>1 DEF Part, Lists, FullLists
<1>7. ASSUME NEW d \in DataCenters
      PROVE  \A i \in 1..10 : ConsulStages(d)[i] \in Lists(Nat)
  <2>1. Part(received, "consul") \in Lists(FullLists) /\ Part(InSlot, "consul") \in Lists(FullLists)
    BY <1>2, <1>3, ZenonT(30) DEF Part, IsMerged, Lists
  <2>2. upstreams \in Lists(FullLists) /\ output \in Lists(FullLists)
    BY ZenonT(30) DEF IInv, TypeOK, ConsulTypeOK
  <2>3. /\ servicesByDataCenter[d] \in Lists(Nat) /\ aggregated[d] \in Lists(Nat)
        /\ tuple[d] \in Lists(Nat) /\ catalog[d].services \in Lists(Nat)
    BY <1>1, SourceLists, ZenonT(30) DEF IInv, TypeOK, ConsulTypeOK, FullLists, Lists
  <2>4. /\ ConsulStages(d)[1] \in Lists(Nat) /\ ConsulStages(d)[2] \in Lists(Nat)
        /\ ConsulStages(d)[3] \in Lists(Nat) /\ ConsulStages(d)[4] \in Lists(Nat)
        /\ ConsulStages(d)[5] \in Lists(Nat) /\ ConsulStages(d)[6] \in Lists(Nat)
        /\ ConsulStages(d)[7] \in Lists(Nat) /\ ConsulStages(d)[8] \in Lists(Nat)
        /\ ConsulStages(d)[9] \in Lists(Nat) /\ ConsulStages(d)[10] \in Lists(Nat)
    BY <1>4, <1>6, <2>1, <2>2, <2>3, ZenonT(30) DEF ConsulStages
  <2>5. 1..10 = {1, 2, 3, 4, 5, 6, 7, 8, 9, 10}
    OBVIOUS
  <2> QED BY <2>4, <2>5, ZenonT(30)
<1>8. 1..5 = {1, 2, 3, 4, 5}
  OBVIOUS
<1> QED BY <1>5, <1>7, <1>8, ZenonT(30)

\* In particular when a stage k takes the value of the next one.
LEMMA Moved ==
  ASSUME NEW n \in Nat, NEW f, NEW g, InOrder(f, n), NEW k \in Nat, Moves(f, g, k, n)
  PROVE  InOrder(g, n)
<1> SUFFICES ASSUME NEW i \in 1..n, NEW j \in 1..n, i <= j, g[i] # NoList, g[j] # NoList
             PROVE  g[i] <= g[j]
  BY ZenonT(30) DEF InOrder
<1>1. g[i] = f[i] \/ (i = k /\ k < n /\ g[i] = f[k + 1])
  BY ZenonT(30) DEF Moves
<1>2. g[j] = f[j] \/ (j = k /\ k < n /\ g[j] = f[k + 1])
  BY ZenonT(30) DEF Moves
<1>3. CASE g[i] = f[i] /\ g[j] = f[j]
  BY <1>3, ZenonT(30) DEF InOrder
<1>4. CASE g[i] = f[i] /\ j = k /\ k < n /\ g[j] = f[k + 1]
  BY <1>4 DEF InOrder
<1>5. CASE i = k /\ k < n /\ g[i] = f[k + 1] /\ g[j] = f[k + 1]
  <2>1. k + 1 \in 1..n /\ f[k + 1] # NoList
    BY <1>5
  <2> QED BY <1>5, <2>1 DEF InOrder
<1>6. CASE i = k /\ k < n /\ g[i] = f[k + 1] /\ g[j] = f[j] /\ j # k
  BY <1>6 DEF InOrder
<1> QED BY <1>1, <1>2, <1>3, <1>4, <1>5, <1>6, ZenonT(30)

\* The stages by their numbers.
LEMMA Indices == 1..5 = {1, 2, 3, 4, 5} /\ 1..10 = {1, 2, 3, 4, 5, 6, 7, 8, 9, 10}
OBVIOUS

\* The first stage is behind the last one, and behind the one that it takes its value
\* from.
LEMMA FirstBehind ==
  ASSUME NEW n \in Nat \ {0}, NEW f, InOrder(f, n), f[1] \in Nat, f[n] \in Nat
  PROVE  f[1] <= f[n]
BY NoListNat DEF InOrder

\* What the reader takes from the stage before it is no older than what it had.
LEMMA FirstTaken ==
  ASSUME NEW n \in Nat \ {0, 1}, NEW f, InOrder(f, n), f[1] \in Nat,
         NEW v \in Nat, v \in {f[1], f[2]}
  PROVE  f[1] <= v
BY NoListNat DEF InOrder

\* The stages one by one, before and after a step.
LEMMA EachGloo ==
  /\ GlooStages[1] = Part(received, "gloo") /\ GlooStages[2] = Part(InSlot, "gloo")
  /\ GlooStages[3] = current["gloo"] /\ GlooStages[4] = held["gloo"] /\ GlooStages[5] = store
BY ZenonT(30) DEF GlooStages

\* The ten stages of a data center, one by one.
LEMMA EachConsul ==
  ASSUME NEW d \in DataCenters
  PROVE  /\ ConsulStages(d)[1] = Part(Part(received, "consul"), d)
         /\ ConsulStages(d)[2] = Part(Part(InSlot, "consul"), d)
         /\ ConsulStages(d)[3] = Part(current["consul"], d)
         /\ ConsulStages(d)[4] = Part(held["consul"], d)
         /\ ConsulStages(d)[5] = Part(upstreams, d) /\ ConsulStages(d)[6] = Part(output, d)
         /\ ConsulStages(d)[7] = servicesByDataCenter[d] /\ ConsulStages(d)[8] = aggregated[d]
         /\ ConsulStages(d)[9] = tuple[d] /\ ConsulStages(d)[10] = catalog[d].services
BY ZenonT(30) DEF ConsulStages

\* The same after a step.
LEMMA NextConsul ==
  ASSUME NEW d \in DataCenters
  PROVE  /\ ConsulStages(d)'[1] = Part(Part(received', "consul"), d)
         /\ ConsulStages(d)'[2] = Part(Part(InSlot', "consul"), d)
         /\ ConsulStages(d)'[3] = Part(current'["consul"], d)
         /\ ConsulStages(d)'[4] = Part(held'["consul"], d)
         /\ ConsulStages(d)'[5] = Part(upstreams', d) /\ ConsulStages(d)'[6] = Part(output', d)
         /\ ConsulStages(d)'[7] = servicesByDataCenter'[d]
         /\ ConsulStages(d)'[8] = aggregated'[d]
         /\ ConsulStages(d)'[9] = tuple'[d] /\ ConsulStages(d)'[10] = catalog'[d].services
BY ZenonT(30) DEF ConsulStages, Part

\* A stage stays what it is while the variable that it looks at does.
LEMMA StageStays ==
  ASSUME NEW d \in DataCenters
  PROVE  /\ received' = received => ConsulStages(d)'[1] = ConsulStages(d)[1]
         /\ InSlot' = InSlot => ConsulStages(d)'[2] = ConsulStages(d)[2]
         /\ current'["consul"] = current["consul"] =>
              ConsulStages(d)'[3] = ConsulStages(d)[3]
         /\ held' = held => ConsulStages(d)'[4] = ConsulStages(d)[4]
         /\ upstreams' = upstreams => ConsulStages(d)'[5] = ConsulStages(d)[5]
         /\ output' = output => ConsulStages(d)'[6] = ConsulStages(d)[6]
         /\ servicesByDataCenter' = servicesByDataCenter =>
              ConsulStages(d)'[7] = ConsulStages(d)[7]
         /\ aggregated' = aggregated => ConsulStages(d)'[8] = ConsulStages(d)[8]
         /\ tuple' = tuple => ConsulStages(d)'[9] = ConsulStages(d)[9]
         /\ catalog' = catalog => ConsulStages(d)'[10] = ConsulStages(d)[10]
BY ZenonT(30) DEF ConsulStages, Part

\* At first there are only the sources.
LEMMA InitOrder == Init => OrderInv
<1> SUFFICES ASSUME Init PROVE OrderInv
  OBVIOUS
<1>1. /\ received = NoList /\ InSlot = NoList /\ output = NoList /\ upstreams = NoList
      /\ \A s \in Sources : current[s] = NoList /\ held[s] = NoList
      /\ \A d \in DataCenters : /\ tuple[d] = NoList /\ aggregated[d] = NoList
                                /\ servicesByDataCenter[d] = NoList
  BY ZenonT(30) DEF Init, InSlot, C!ConsulInit, H!HybridInit, C!PerDataCenter
<1>2. current["gloo"] = NoList /\ current["consul"] = NoList
      /\ held["gloo"] = NoList /\ held["consul"] = NoList
  BY <1>1, ZenonT(30) DEF Sources
<1>3. \A x : Part(NoList, x) = NoList
  BY DEF Part
<1>4. \A i \in 1..5 : i = 5 \/ GlooStages[i] = NoList
  BY <1>1, <1>2, <1>3, Indices, EachGloo, ZenonT(30)
<1>5. \A d \in DataCenters : \A i \in 1..10 : i = 10 \/ ConsulStages(d)[i] = NoList
  BY <1>1, <1>2, <1>3, Indices, EachConsul
<1>6. GlooStages[5] \in Nat /\ \A d \in DataCenters : ConsulStages(d)[10] \in Nat
  BY EachGloo, EachConsul DEF Init, C!ConsulInit, C!PerDataCenter
<1>7. InOrder(GlooStages, 5)
  BY <1>4, <1>6 DEF InOrder
<1>8. \A d \in DataCenters : InOrder(ConsulStages(d), 10)
  BY <1>5, <1>6 DEF InOrder
<1> QED BY <1>7, <1>8 DEF OrderInv

\* A source that is written gets a newer version.
LEMMA WriteOrder == ASSUME IInv, OrderInv, WriteUpstream PROVE OrderInv'
<1> USE DEF WriteUpstream, consulVars, watchVars
<1>1. \A d \in DataCenters : ConsulStages(d)' = ConsulStages(d)
  BY ZenonT(30) DEF ConsulStages, InSlot
<1>2. \A i \in 1..5 : GlooStages[i] = NoList \/ GlooStages[i] \in Nat
  BY StageValues, ZenonT(30) DEF Lists
<1>3. \A i \in 1..(5 - 1) : GlooStages'[i] = GlooStages[i]
  BY Indices DEF GlooStages, InSlot
<1>4. GlooStages[5] \in Nat /\ GlooStages'[5] = GlooStages[5] + 1
  BY Indices DEF GlooStages, IInv, TypeOK, SourceTypeOK
<1>5. InOrder(GlooStages', 5)
  BY <1>2, <1>3, <1>4, Grown, SMTT(20) DEF OrderInv
<1> QED BY <1>1, <1>5, ZenonT(30) DEF OrderInv

\* A data center whose services change gets a newer version.
LEMMA RegisterOrder == ASSUME IInv, OrderInv, RegisterService PROVE OrderInv'
<1>0. PICK d \in DataCenters : \E i \in 1..(catalog[d].index + 1) : C!Register(d, i)
  BY ZenonT(30) DEF RegisterService
<1>1. PICK i \in 1..(catalog[d].index + 1) : C!Register(d, i)
  BY <1>0, ZenonT(30)
<1> USE DEF RegisterService, storeVars, watchVars
<1>2. /\ catalog' = [catalog EXCEPT ![d] = [index |-> i, services |-> @.services + 1]]
      /\ UNCHANGED <<tuple, aggregated, servicesByDataCenter, output, upstreams>>
  BY <1>1, ZenonT(30) DEF C!Register
<1>3. GlooStages' = GlooStages
  BY ZenonT(30) DEF GlooStages, InSlot
<1>4. ASSUME NEW e \in DataCenters PROVE InOrder(ConsulStages(e)', 10)
  <2>1. \A k \in 1..10 : ConsulStages(e)[k] = NoList \/ ConsulStages(e)[k] \in Nat
    BY StageValues, ZenonT(30) DEF Lists
  <2>2. \A k \in 1..(10 - 1) : ConsulStages(e)'[k] = ConsulStages(e)[k]
    <3>1. /\ InSlot' = InSlot /\ UNCHANGED <<received, current, held, upstreams, output>>
          /\ UNCHANGED <<servicesByDataCenter, aggregated, tuple>>
      BY <1>2, ZenonT(30) DEF InSlot
    <3>2. \A k \in 1..(10 - 1) : k \in {1, 2, 3, 4, 5, 6, 7, 8, 9} OBVIOUS
    <3> QED BY <3>1, <3>2, StageStays, ZenonT(30)
  <2>3. catalog[d].services \in Nat /\ catalog[e].services \in Nat
    BY SMTT(20) DEF IInv, TypeOK, SourceTypeOK
  <2>4. CASE e = d
    <3>1. ConsulStages(e)[10] \in Nat /\ ConsulStages(e)'[10] = ConsulStages(e)[10] + 1
      BY <1>2, <2>3, <2>4, ZenonT(30) DEF ConsulStages, IInv, TypeOK, SourceTypeOK
    <3>2. InOrder(ConsulStages(e), 10)
      BY ZenonT(30) DEF OrderInv
    <3>3. 10 \in Nat \ {0} OBVIOUS
    <3> QED BY <2>1, <2>2, <3>1, <3>2, <3>3, Grown, ZenonT(30)
  <2>5. CASE e # d
    <3>1. ConsulStages(e)' = ConsulStages(e)
      BY <1>2, <2>5, ZenonT(30) DEF ConsulStages, InSlot, IInv, TypeOK, SourceTypeOK
    <3> QED BY <3>1, ZenonT(30) DEF OrderInv
  <2> QED BY <2>4, <2>5, ZenonT(30)
<1> QED BY <1>3, <1>4, ZenonT(30) DEF OrderInv
=============================================================================
