---------------------------- MODULE ConsulWatcher ----------------------------
(***************************************************************************)
(* The watch on the services of Consul (projects/gloo/pkg/upstreams/consul *)
(* /watcher.go) and the upstream client on top of it (upstream_client.go). *)
(* Per data centre one goroutine makes blocking queries and another passes *)
(* the results on; a third merges those of all data centres, and a fourth  *)
(* turns the merged list into upstreams.  All channels are unbuffered.     *)
(*                                                                         *)
(* The services of a data centre are a version.  A query with a wait index *)
(* returns when the index of the catalog differs from it (a timeout with   *)
(* the index unchanged makes the loop go round).                           *)
(*                                                                         *)
(* The actions are those of a watch whose ctx is not done.  Once it is, a  *)
(* goroutine that waits in a select returns, and one that sends a tuple,   *)
(* an error or a list of upstreams may stay where it is for good: these    *)
(* sends do not look at ctx.                                               *)
(***************************************************************************)
EXTENDS Naturals

CONSTANTS DataCenters,
          NoList         \* neither services nor a list

VARIABLES
  catalog,               \* catalog[d]: index and services (Consul's, external)
  lastIndex, tuple,      \* of the goroutine that queries d
  failing,               \* data centres whose query failed; the error is not sent yet
  aggregated,            \* aggregated[d]: what aggregateServices holds
  servicesByDataCenter, output,
  upstreams,             \* the list that the upstream client has to send
  missed                 \* history: the index came back to the one waited for

PerDataCenter(v) == [d \in DataCenters |-> v]

ConsulInit ==
  /\ catalog = PerDataCenter([index |-> 2, services |-> 0])
  /\ lastIndex = PerDataCenter(0) /\ tuple = PerDataCenter(NoList) /\ failing = {}
  /\ aggregated = PerDataCenter(NoList) /\ servicesByDataCenter = PerDataCenter(NoList)
  /\ output = NoList /\ upstreams = NoList /\ missed = {}

\* A registration changes the services of d.  The index grows, or, when the
\* servers lost their state, starts again below.
Register(d, index) ==
  /\ index = catalog[d].index + 1 \/ index \in 1..(catalog[d].index - 1)
  /\ catalog' = [catalog EXCEPT ![d] = [index |-> index, services |-> @.services + 1]]
  /\ missed' = IF index = lastIndex[d] THEN missed \cup {d} ELSE missed \ {d}
  /\ UNCHANGED <<lastIndex, tuple, failing, aggregated, servicesByDataCenter, output,
                 upstreams>>

Querying(d) == tuple[d] = NoList /\ d \notin failing

\* Mutant: an index that went backwards is waited for as if it had grown.
QueryOnlyForward(d) ==
  /\ Querying(d) /\ catalog[d].index > lastIndex[d]
  /\ tuple' = [tuple EXCEPT ![d] = catalog[d].services]
  /\ lastIndex' = [lastIndex EXCEPT ![d] = catalog[d].index]
  /\ missed' = missed \ {d}
  /\ UNCHANGED <<catalog, failing, aggregated, servicesByDataCenter, output, upstreams>>

\* The blocking query returns with another index than the last one.
Query(d) ==
  /\ Querying(d) /\ catalog[d].index # lastIndex[d]
  /\ tuple' = [tuple EXCEPT ![d] = catalog[d].services]
  /\ lastIndex' = [lastIndex EXCEPT
                     ![d] = IF catalog[d].index < @ THEN 0 ELSE catalog[d].index]
  /\ missed' = missed \ {d}
  /\ UNCHANGED <<catalog, failing, aggregated, servicesByDataCenter, output, upstreams>>

\* All attempts of a query fail.
QueryFails(d) ==
  /\ Querying(d) /\ failing' = failing \cup {d}
  /\ UNCHANGED <<catalog, lastIndex, tuple, aggregated, servicesByDataCenter, output,
                 upstreams, missed>>

\* The error is taken by AggregateErrs, which is there until ctx is done.
SendQueryError(d) ==
  /\ d \in failing /\ failing' = failing \ {d}
  /\ UNCHANGED <<catalog, lastIndex, tuple, aggregated, servicesByDataCenter, output,
                 upstreams, missed>>

\* servicesChan <- tuple, to aggregateServices.
SendTuple(d) ==
  /\ tuple[d] # NoList /\ aggregated[d] = NoList
  /\ aggregated' = [aggregated EXCEPT ![d] = tuple[d]]
  /\ tuple' = [tuple EXCEPT ![d] = NoList]
  /\ UNCHANGED <<catalog, lastIndex, failing, servicesByDataCenter, output, upstreams,
                 missed>>

\* Mutant: the list is the one of the data centre that sent last.
MergeOnlyNewest(d) ==
  /\ aggregated[d] # NoList /\ output = NoList
  /\ servicesByDataCenter' = [PerDataCenter(NoList) EXCEPT ![d] = aggregated[d]]
  /\ output' = servicesByDataCenter'
  /\ aggregated' = [aggregated EXCEPT ![d] = NoList]
  /\ UNCHANGED <<catalog, lastIndex, tuple, failing, upstreams, missed>>

\* The goroutine of the output merges what it receives.
MergeServices(d) ==
  /\ aggregated[d] # NoList /\ output = NoList
  /\ servicesByDataCenter' = [servicesByDataCenter EXCEPT ![d] = aggregated[d]]
  /\ output' = servicesByDataCenter'
  /\ aggregated' = [aggregated EXCEPT ![d] = NoList]
  /\ UNCHANGED <<catalog, lastIndex, tuple, failing, upstreams, missed>>

\* outputChan <- list, to the upstream client.
SendOutput ==
  /\ output # NoList /\ upstreams = NoList
  /\ upstreams' = output /\ output' = NoList
  /\ UNCHANGED <<catalog, lastIndex, tuple, failing, aggregated, servicesByDataCenter,
                 missed>>

\* Nothing is on its way, and every query waits.
ConsulQuiet ==
  /\ output = NoList /\ upstreams = NoList /\ failing = {}
  /\ \A d \in DataCenters :
       tuple[d] = NoList /\ aggregated[d] = NoList /\ lastIndex[d] = catalog[d].index
=============================================================================
