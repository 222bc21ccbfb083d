--------------------------- MODULE ConsulEndpoints ---------------------------
(***************************************************************************)
(* Endpoint discovery for Consul (projects/gloo/pkg/plugins/consul/eds.go).*)
(* One loop receives the services of Consul.  By default it queries all of *)
(* them for their instances each time; with edsBlockingQueries it keeps a  *)
(* watch per service, each made of a goroutine with blocking queries and   *)
(* one that passes the results on to the loop.  A ticker resolves the      *)
(* addresses again.  All channels are unbuffered.                          *)
(*                                                                         *)
(* A service stands for a service in a data centre, its instances for the  *)
(* index of their last change, 0 if there are none.  Their host name is    *)
(* another after each change: a name is looked up for the service and the  *)
(* index.  The actions are those of a WatchEndpoints whose ctx is not done.*)
(***************************************************************************)
EXTENDS Naturals, Sequences, FiniteSets

CONSTANTS Services,
          HostNamed,         \* services whose instances have host names, not IP addresses
          NoList,
          MaxConsulChanges,  \* bound on the changes of the catalog and of the DNS records
          MaxFailures        \* bound on the queries and the lookups that fail

Numbers == [Services -> Nat]

\* The services are finitely many: a list can have those in S in some order.
Orders(S) ==
  {o \in UNION {[1..n -> S] : n \in 0..Cardinality(S)} :
     /\ \A s \in S : \E k \in DOMAIN o : o[k] = s
     /\ \A j, k \in DOMAIN o : o[j] = o[k] => j = k}
ASSUME ServicesAssumption == Services # {} /\ \A S \in SUBSET Services : Orders(S) # {}
ASSUME EndpointsBoundsAssumption == MaxConsulChanges \in Nat /\ MaxFailures \in Nat
ASSUME NoListAssumption ==
  /\ NoList \notin Nat /\ \A S \in SUBSET Services : NoList # S
  /\ NoList \notin [todo : SUBSET Services, specs : Numbers]
  /\ NoList \notin [specs : Numbers, dns : Numbers]
ASSUME HostNamedAssumption == HostNamed \subseteq Services

VARIABLES
  blocking,              \* the setting edsBlockingQueries
  catalog,               \* catalog[s]: index of the last change, and whether s exists
  dns,                   \* dns[s]: version of the DNS records of the host names of s
  previousResolutions,   \* of the resolver: the last answer for each name, 0 if none
  watchedIndex, serviceMetaChan,   \* of WatchServices
  watches,               \* the watches made so far
  dcEndpointWatches,     \* dcEndpointWatches[s]: number of the watch, and its endpoints
  refresh,               \* refreshSpecs: queries left, and specs collected
  previousSpecs, previousHash, allEndpointsListChan,
  received,              \* what the reader has
  consulChanges, failures,
  forgotten,             \* history: services whose watch ended since the last update
  overtaken,             \* history: services with an update of a cancelled watch
  dropped,               \* history: services whose query failed in the last refresh
  unresolved             \* history: services left out of the endpoints built last, as
                         \* their lookup failed and had no answer before

externalVars == <<catalog, dns, consulChanges>>
metaVars == <<watchedIndex, serviceMetaChan>>
loopVars == <<previousSpecs, previousHash, allEndpointsListChan, previousResolutions,
              unresolved>>
historyVars == <<forgotten, overtaken, dropped>>
endpointsVars == <<blocking, externalVars, metaVars, watches, dcEndpointWatches, refresh,
                   loopVars, received, failures, historyVars>>

NoEndpoints == [s \in Services |-> 0]
Index == 1 + consulChanges
Instances(s) == IF catalog[s].up THEN catalog[s].index ELSE 0
LastChange == CHOOSE i \in {catalog[s].index : s \in Services} :
                \A s \in Services : catalog[s].index <= i
Registered == {s \in Services : catalog[s].up}
NoWatch == [watch |-> 0, endpoints |-> NoList]

EndpointsInit ==
  /\ blocking \in BOOLEAN
  /\ catalog \in [Services -> [index : {1}, up : BOOLEAN]]
  /\ dns = [s \in Services |-> 1] /\ consulChanges = 0 /\ failures = 0
  /\ watchedIndex = 0 /\ serviceMetaChan = NoList
  /\ watches = <<>> /\ dcEndpointWatches = [s \in Services |-> NoWatch]
  /\ refresh = NoList /\ previousSpecs = NoEndpoints /\ previousHash = NoList
  /\ allEndpointsListChan = NoList /\ received = NoList
  /\ forgotten = {} /\ overtaken = {} /\ dropped = {} /\ unresolved = {}
  /\ previousResolutions = [s \in Services |-> [i \in 1..(MaxConsulChanges + 1) |-> 0]]
-----------------------------------------------------------------------------
\* Instances of s change, or s appears or disappears.
ChangeService(s, up) ==
  /\ consulChanges < MaxConsulChanges /\ consulChanges' = consulChanges + 1
  /\ up \/ catalog[s].up
  /\ catalog' = [catalog EXCEPT ![s] = [index |-> Index + 1, up |-> up]]
  /\ UNCHANGED <<blocking, dns, metaVars, watches, dcEndpointWatches, refresh, loopVars,
                 received, failures, historyVars>>

ChangeDns(s) ==
  /\ consulChanges < MaxConsulChanges /\ consulChanges' = consulChanges + 1
  /\ dns' = [dns EXCEPT ![s] = @ + 1]
  /\ UNCHANGED <<blocking, catalog, metaVars, watches, dcEndpointWatches, refresh,
                 loopVars, received, failures, historyVars>>

\* WatchServices has news of the catalog (a change of the DNS records is none).
SendServices ==
  /\ serviceMetaChan = NoList /\ watchedIndex # LastChange
  /\ serviceMetaChan' = Registered /\ watchedIndex' = LastChange
  /\ UNCHANGED <<blocking, externalVars, watches, dcEndpointWatches, refresh, loopVars,
                 received, failures, historyVars>>
-----------------------------------------------------------------------------
\* The loop is in its select: it is neither refreshing nor sending.
Selecting == refresh = NoList /\ allEndpointsListChan = NoList

\* Resolve, and Resolve with the fallback: a lookup that fails has the last answer
\* for that name.
Answer(s, i, failing) == IF s \in failing THEN previousResolutions[s][i] ELSE dns[s]
Lookups(specs) == {s \in HostNamed : specs[s] # 0}

\* buildEndpointsFromSpecs leaves out what has no address.
Unresolved(specs, failing) ==
  {s \in Lookups(specs) : Answer(s, specs[s], failing) = 0}
Endpoints(specs, failing) ==
  [specs |-> [s \in Services |-> IF s \in Unresolved(specs, failing) THEN 0 ELSE specs[s]],
   dns |-> [s \in Services |-> IF s \in Lookups(specs)
                              THEN Answer(s, specs[s], failing) ELSE 0]]

\* The endpoints of the specs are built, with some lookups failing, and sent if
\* their hash is not the previous one.
PublishWith(specs, failing) ==
  /\ failures + Cardinality(failing) <= MaxFailures
  /\ failures' = failures + Cardinality(failing)
  /\ previousResolutions' =
       [s \in Services |-> IF s \in Lookups(specs) \ failing
                          THEN [previousResolutions[s] EXCEPT ![specs[s]] = dns[s]]
                          ELSE previousResolutions[s]]
  /\ unresolved' = Unresolved(specs, failing)
  /\ previousSpecs' = specs
  /\ previousHash' = Endpoints(specs, failing)
  /\ allEndpointsListChan' = IF previousHash = Endpoints(specs, failing) THEN NoList
                             ELSE Endpoints(specs, failing)
Publish(specs) == \E failing \in SUBSET Lookups(specs) : PublishWith(specs, failing)

Read ==
  /\ allEndpointsListChan # NoList
  /\ received' = allEndpointsListChan /\ allEndpointsListChan' = NoList
  /\ UNCHANGED <<blocking, externalVars, metaVars, watches, dcEndpointWatches, refresh,
                 previousSpecs, previousHash, previousResolutions, unresolved, failures,
                 historyVars>>

\* Mutant: the ticker compares the specs instead of the endpoints.
PollSpecs ==
  /\ Selecting /\ previousSpecs # NoEndpoints /\ previousHash.specs # previousSpecs
  /\ Publish(previousSpecs)
  /\ UNCHANGED <<blocking, externalVars, metaVars, watches, dcEndpointWatches, refresh,
                 received, historyVars>>

\* <-timer.C.
Poll ==
  /\ Selecting /\ previousSpecs # NoEndpoints
  /\ Publish(previousSpecs)
  /\ UNCHANGED <<blocking, externalVars, metaVars, watches, dcEndpointWatches, refresh,
                 received, historyVars>>
-----------------------------------------------------------------------------
\* Without blocking queries: refreshSpecs, in a goroutine per service.
Refresh ==
  /\ ~blocking /\ Selecting /\ serviceMetaChan # NoList
  /\ refresh' = [todo |-> serviceMetaChan, specs |-> NoEndpoints]
  /\ serviceMetaChan' = NoList /\ dropped' = {}
  /\ UNCHANGED <<blocking, externalVars, watchedIndex, watches, dcEndpointWatches,
                 loopVars, received, failures, forgotten, overtaken>>

QuerySpecs(s) ==
  /\ refresh # NoList /\ s \in refresh.todo
  /\ refresh' = [todo |-> refresh.todo \ {s},
                 specs |-> [refresh.specs EXCEPT ![s] = Instances(s)]]
  /\ UNCHANGED <<blocking, externalVars, metaVars, watches, dcEndpointWatches, loopVars,
                 received, failures, historyVars>>

\* A failed query does not keep the others from being published.
QuerySpecsFails(s) ==
  /\ refresh # NoList /\ s \in refresh.todo
  /\ failures < MaxFailures /\ failures' = failures + 1
  /\ refresh' = [refresh EXCEPT !.todo = @ \ {s}]
  /\ dropped' = dropped \cup {s}
  /\ UNCHANGED <<blocking, externalVars, metaVars, watches, dcEndpointWatches, loopVars,
                 received, forgotten, overtaken>>

Refreshed ==
  /\ refresh # NoList /\ refresh.todo = {}
  /\ refresh' = NoList /\ Publish(refresh.specs)
  /\ UNCHANGED <<blocking, externalVars, metaVars, watches, dcEndpointWatches, received,
                 historyVars>>
-----------------------------------------------------------------------------
NewWatch(s) ==
  [service |-> s, live |-> TRUE, lastIndex |-> 0, tuple |-> NoList, passed |-> NoList]

\* The services that have a watch; those that get one, in an order that shows in
\* the numbers of their watches only; those whose watch ends.
Known == {s \in Services : dcEndpointWatches[s] # NoWatch}
New == CHOOSE o \in Orders(serviceMetaChan \ Known) : TRUE
Gone == Known \ serviceMetaChan

\* The map with the new watches, and without those that end.
UpdatedMap ==
  [s \in Services |->
     IF s \in Gone THEN NoWatch
     ELSE IF \E k \in DOMAIN New : New[k] = s
     THEN [watch |-> Len(watches) + CHOOSE k \in DOMAIN New : New[k] = s,
           endpoints |-> NoList]
     ELSE dcEndpointWatches[s]]

\* Mutant: a watch is deleted from the map and not cancelled.
UpdateWatchesNoCancel ==
  /\ blocking /\ Selecting /\ serviceMetaChan # NoList /\ serviceMetaChan' = NoList
  /\ watches' = watches \o [k \in DOMAIN New |-> NewWatch(New[k])]
  /\ dcEndpointWatches' = UpdatedMap
  /\ UNCHANGED <<blocking, externalVars, watchedIndex, refresh, loopVars, received,
                 failures, historyVars>>

\* With blocking queries: watches are made for new services, and those of
\* services that are gone are cancelled and deleted.
UpdateWatches ==
  /\ blocking /\ Selecting /\ serviceMetaChan # NoList /\ serviceMetaChan' = NoList
  /\ watches' = [i \in DOMAIN watches |->
                   [watches[i] EXCEPT !.live = @ /\ watches[i].service \notin Gone]]
                \o [k \in DOMAIN New |-> NewWatch(New[k])]
  /\ dcEndpointWatches' = UpdatedMap
  /\ forgotten' = forgotten \cup Gone
  /\ UNCHANGED <<blocking, externalVars, watchedIndex, refresh, loopVars, received,
                 failures, overtaken, dropped>>

Watch(i, w) == watches' = [watches EXCEPT ![i] = w]
watchesOnly == <<blocking, externalVars, metaVars, dcEndpointWatches, refresh, loopVars,
                 received, failures, historyVars>>

\* watchEndpointsInDataCenter: a blocking query returns with another index.  (An
\* error is passed on and the query made again; that the index goes back is left to
\* ConsulWatcher.)
Query(i) ==
  LET w == watches[i] IN
  /\ w.live /\ w.tuple = NoList /\ catalog[w.service].index # w.lastIndex
  /\ Watch(i, [w EXCEPT !.lastIndex = catalog[w.service].index,
                        !.tuple = Instances(w.service)])
  /\ UNCHANGED watchesOnly

\* endpointsChan <- tuple, to aggregateEndpoints.
SendTuple(i) ==
  LET w == watches[i] IN
  /\ w.tuple # NoList /\ w.passed = NoList
  /\ Watch(i, [w EXCEPT !.tuple = NoList, !.passed = w.tuple])
  /\ UNCHANGED watchesOnly

\* The goroutines of a cancelled watch return (or stay in a send for good).
Return(i) ==
  LET w == watches[i] IN
  /\ ~w.live /\ (w.tuple # NoList \/ w.passed # NoList)
  /\ Watch(i, [w EXCEPT !.tuple = NoList, !.passed = NoList])
  /\ UNCHANGED watchesOnly

\* Mutant: the endpoints are collected before the update is stored.
CollectedBefore ==
  [s \in Services |-> IF dcEndpointWatches[s].endpoints = NoList THEN 0
                      ELSE dcEndpointWatches[s].endpoints]

\* The endpoints of all watches that have had an update.
Collected ==
  [s \in Services |-> IF dcEndpointWatches'[s].endpoints = NoList THEN 0
                      ELSE dcEndpointWatches'[s].endpoints]

\* dest <- services, to the loop, which drops it unless it has a watch of that
\* service, this one or a newer one.  The send of a cancelled watch may win the
\* select in aggregateEndpoints.
ReceiveTuple(i) ==
  LET w == watches[i]
      s == w.service
  IN  /\ Selecting /\ w.passed # NoList
      /\ Watch(i, [w EXCEPT !.passed = NoList])
      /\ IF dcEndpointWatches[s] = NoWatch
         THEN UNCHANGED <<dcEndpointWatches, loopVars, failures, forgotten, overtaken>>
         ELSE /\ dcEndpointWatches' = [dcEndpointWatches EXCEPT ![s].endpoints = w.passed]
              /\ Publish(Collected)
              /\ forgotten' = {}
              /\ overtaken' = IF dcEndpointWatches[s].watch = i THEN overtaken \ {s}
                              ELSE overtaken \cup {s}
      /\ UNCHANGED <<blocking, externalVars, metaVars, refresh, received, dropped>>
-----------------------------------------------------------------------------
Work ==
  \/ SendServices \/ Read \/ Poll \/ Refresh \/ Refreshed \/ UpdateWatches
  \/ \E s \in Services : QuerySpecs(s)
  \/ \E i \in DOMAIN watches : Query(i) \/ SendTuple(i) \/ ReceiveTuple(i) \/ Return(i)

EndpointsNext ==
  \/ Work \/ \E s \in HostNamed : ChangeDns(s)
  \/ \E s \in Services : QuerySpecsFails(s) \/ \E up \in BOOLEAN : ChangeService(s, up)

EndpointsSpec == EndpointsInit /\ [][EndpointsNext]_endpointsVars /\ WF_endpointsVars(Work)
-----------------------------------------------------------------------------
EndpointLists == [specs : [Services -> 0..(MaxConsulChanges + 1)],
                  dns : [Services -> 0..(MaxConsulChanges + 1)]]
\* The variables have the types of the locals of WatchEndpoints; a service has
\* one watch that is not cancelled, the one in the map, or none.
EndpointsTypeOK ==
  /\ previousSpecs \in [Services -> 0..Index] /\ received \in EndpointLists \cup {NoList}
  /\ previousHash \in EndpointLists \cup {NoList}
  /\ allEndpointsListChan \in EndpointLists \cup {NoList}
  /\ serviceMetaChan \in (SUBSET Services) \cup {NoList} /\ watchedIndex \in 0..Index
  /\ \A i \in DOMAIN watches :
       watches[i].live <=> dcEndpointWatches[watches[i].service].watch = i
  /\ \A s \in Services : dcEndpointWatches[s].watch \in 0..Len(watches)
  /\ forgotten \cup overtaken \cup dropped \cup unresolved \subseteq Services

\* The reader has the instances of s as they are in Consul.
Current(s) == Instances(s) = IF received = NoList THEN 0 ELSE received.specs[s]

\* Services about which the code does not keep the reader current: an update of a
\* cancelled watch came after the one of the new watch, a query failed, or the
\* watch of a service that is gone was cancelled before its last update came and
\* no other service has had an update since.
Excused == overtaken \cup dropped \cup (forgotten \ Registered)

\* Nothing is on its way to the reader.
Quiet ==
  /\ Selecting /\ watchedIndex = LastChange /\ serviceMetaChan = NoList
  /\ \A i \in DOMAIN watches : watches[i].tuple = NoList /\ watches[i].passed = NoList
  /\ \A i \in DOMAIN watches :
       watches[i].live => watches[i].lastIndex = catalog[watches[i].service].index

\* When nothing is on its way, the reader has the newest instances of every
\* service that is not excused, in both modes, unless its name did not resolve when
\* the endpoints were built last.  Without blocking queries it then has a list, also
\* if there is no service: discovery becomes ready.
EndpointsSettled ==
  Quiet => /\ \A s \in Services \ (Excused \cup unresolved) : Current(s)
           /\ blocking \/ received # NoList

\* Every change of a service reaches the reader, and so does every change of the
\* addresses of its instances, which nothing but the ticker notices.  A service left
\* out as its name did not resolve, or that has an old answer, does not stay so.
EndpointsConverge ==
  []<>(/\ \A s \in Services \ Excused : Current(s)
       /\ previousSpecs = NoEndpoints \/ received = Endpoints(previousSpecs, {}))
=============================================================================
