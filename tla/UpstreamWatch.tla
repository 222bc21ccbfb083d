---------------------------- MODULE UpstreamWatch ----------------------------
(***************************************************************************)
(* The upstreams that the translation loop works with: the hybrid client   *)
(* over two sources, the Upstreams in the cluster ("gloo") and the         *)
(* services of Consul ("consul").                                          *)
(***************************************************************************)
EXTENDS Naturals, Sequences

CONSTANTS DataCenters, NoList,
          Stable,       \* bound: the data centres whose services do not change
          MaxEvents     \* bound on changes, failing queries and cancellations together

ASSUME MaxEventsAssumption == MaxEvents \in Nat
ASSUME DataCentersAssumption == "gloo" \notin DataCenters

VARIABLES store, unread,   \* Upstreams in the cluster; their watch has news
          events,          \* changes, failing queries and cancellations so far
          catalog, lastIndex, tuple, failing, aggregated, servicesByDataCenter, output,
          upstreams, missed,
          phase, todo, returned, held, current, previousHash, needsSync, upstreamsOut,
          received, live

Sources == {"gloo", "consul"}
InConsul == [d \in DataCenters |-> catalog[d].services]

C == INSTANCE ConsulWatcher
H == INSTANCE HybridUpstreams WITH
       latest <- [s \in Sources |-> IF s = "gloo" THEN store ELSE InConsul],
       offered <- [s \in Sources |-> IF s = "consul" THEN upstreams
                                     ELSE IF unread THEN store ELSE NoList]

storeVars == <<store, unread>>
consulVars == <<catalog, lastIndex, tuple, failing, aggregated, servicesByDataCenter,
                output, upstreams, missed>>
watchVars == <<phase, todo, returned, held, current, previousHash, needsSync,
               upstreamsOut, received, live>>
vars == <<storeVars, events, consulVars, watchVars>>

Init == store = 0 /\ unread = FALSE /\ events = 0 /\ C!ConsulInit /\ H!HybridInit

Happens == events < MaxEvents /\ events' = events + 1

\* Nothing changes any more once the watch is cancelled: nobody would see it.
\* An Upstream is written; the watch of the store, once it is open, has news.
WriteUpstream ==
  /\ live /\ Happens /\ store' = store + 1 /\ unread' = H!Watched("gloo")
  /\ UNCHANGED <<consulVars, watchVars>>

RegisterService ==
  /\ live /\ Happens
  /\ \E d \in DataCenters \ Stable : \E i \in 1..(catalog[d].index + 1) : C!Register(d, i)
  /\ UNCHANGED <<storeVars, watchVars>>

\* The goroutines of the Consul watch exist once it was called.
ConsulWork ==
  /\ H!Watched("consul") /\ live
  /\ \/ \E d \in DataCenters :
          C!Query(d) \/ C!SendQueryError(d) \/ C!SendTuple(d) \/ C!MergeServices(d)
     \/ C!SendOutput
  /\ UNCHANGED <<storeVars, events, watchVars>>

ConsulError ==
  /\ H!Watched("consul") /\ live /\ Happens
  /\ \E d \in DataCenters \ Stable : C!QueryFails(d)
  /\ UNCHANGED <<storeVars, watchVars>>

\* Watch of the cluster's Upstreams opens with a read.
WatchSource(s) ==
  /\ H!WatchSource(s)
  /\ unread' = (unread \/ s = "gloo")
  /\ UNCHANGED <<store, events, consulVars>>

Aggregate(s) ==
  /\ H!Aggregate(s)
  /\ unread' = (unread /\ s # "gloo")
  /\ upstreams' = IF s = "consul" THEN NoList ELSE upstreams
  /\ UNCHANGED <<store, events, catalog, lastIndex, tuple, failing, aggregated,
                 servicesByDataCenter, output, missed>>

HybridWork ==
  \/ \E s \in Sources : WatchSource(s) \/ Aggregate(s)
  \/ /\ \/ \E s \in Sources : H!ListSource(s) \/ H!Collect(s) \/ H!AggregatorReturns(s)
        \/ H!FirstSync \/ H!Tick \/ H!Read \/ H!CloseOut \/ H!CloseDone
     /\ UNCHANGED <<storeVars, events, consulVars>>

WatchFault ==
  /\ \/ H!WatchFails /\ UNCHANGED events
     \/ H!CancelWatch /\ Happens
  /\ UNCHANGED <<storeVars, consulVars>>

Next == WriteUpstream \/ RegisterService \/ ConsulWork \/ ConsulError \/ HybridWork \/ WatchFault

Spec == Init /\ [][Next]_vars /\ WF_vars(ConsulWork) /\ WF_vars(HybridWork)
-----------------------------------------------------------------------------
Versions == 0..MaxEvents
Lists(V) == {NoList} \cup V
FullLists == [DataCenters -> Lists(Versions)]
ListsOf(s) == Lists(IF s = "gloo" THEN Versions ELSE FullLists)

\* NoList is no value of any other kind.
ASSUME NoListAssumption ==
  /\ NoList \notin Nat /\ NoList \notin FullLists
  /\ \A v \in Versions, list \in FullLists :
       NoList # [s \in Sources |-> IF s = "gloo" THEN v ELSE list]

SourceTypeOK ==
  /\ events \in Versions /\ store \in 0..events /\ unread \in BOOLEAN
  /\ catalog \in [DataCenters -> [index : 1..(events + 2), services : 0..events]]
ConsulTypeOK ==
  /\ lastIndex \in [DataCenters -> 0..(MaxEvents + 2)]
  /\ tuple \in FullLists /\ aggregated \in FullLists /\ servicesByDataCenter \in FullLists
  /\ failing \subseteq DataCenters /\ missed \subseteq DataCenters
  /\ output \in Lists(FullLists) /\ upstreams \in Lists(FullLists)
HybridTypeOK ==
  /\ phase \in {"list", "watch", "start", "run", "closing", "done", "failed"}
  /\ todo \subseteq Sources /\ returned \subseteq Sources
  /\ held = [s \in Sources |-> held[s]] /\ current = [s \in Sources |-> current[s]]
  /\ \A s \in Sources : held[s] \in ListsOf(s) /\ current[s] \in ListsOf(s)
  /\ Len(upstreamsOut) <= 1 /\ needsSync \in BOOLEAN /\ live \in BOOLEAN

\* The variables have the types of the fields and locals of the two watches.
TypeOK == SourceTypeOK /\ ConsulTypeOK /\ HybridTypeOK

\* When no list is on its way between the sources and the reader, the reader has
\* the newest upstreams of every source (hybrid_client.go, watcher.go), unless
\* the index of a data centre came back to the very value that is waited for.
ReceivedSettled ==
  (H!Quiet /\ C!ConsulQuiet) =>
    /\ received["gloo"] = store
    /\ \A d \in DataCenters : received["consul"][d] = catalog[d].services \/ d \in missed

\* The watch of Consul opens with lists that lack the data centres that have not
\* answered yet; none of those is left on the way.
Complete(list) == list # NoList => \A d \in DataCenters : list[d] # NoList
Opened ==
  /\ \A d \in DataCenters : servicesByDataCenter[d] # NoList
  /\ Complete(output) /\ Complete(upstreams) /\ Complete(held["consul"])
  /\ Complete(current["consul"])
  /\ upstreamsOut # <<>> => Complete(Head(upstreamsOut)["consul"])
  /\ received # NoList /\ Complete(received["consul"])

\* The two watches are one stage between the cluster and the data centres on one
\* side and the reader on the other.
Origins == {"gloo"} \cup DataCenters
Written == [s \in Origins |-> IF s = "gloo" THEN store ELSE catalog[s].services]
Seen ==
  [s \in Origins |-> IF s = "gloo" THEN IF received = NoList THEN 0 ELSE received["gloo"]
                     ELSE IF Opened THEN received["consul"][s] ELSE 0]
Stage == INSTANCE LatestValue WITH
  Sources <- Origins, written <- Written, seen <- Seen,
  open <- [s \in Origins |-> live /\ phase # "failed" /\ s \notin missed]

\* The stage keeps the contract: the reader never goes back to an older version
\* of a source, once the watch of Consul has opened, and gets every change or a
\* later one while the watch lives.
ReceivesLatest == Stage!Spec

\* A cancelled watch ends: the loop and the aggregators return, also when
\* goroutines of the Consul watch are left in a send (watcher.go, line 197).
CancelEndsWatch == []<>(live \/ phase \in {"done", "failed"})
=============================================================================
