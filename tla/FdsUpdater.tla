----------------------------- MODULE FdsUpdater -----------------------------
(***************************************************************************)
(* Function discovery (projects/discovery/pkg/fds/updater.go, eventloop.go)*)
(* Every tracked upstream has an updater: a goroutine that asks all        *)
(* plugins, each in a goroutine of its own that needs a token of           *)
(* maxInParallelSemaphore, what the upstream is, saves the answers, and    *)
(* leaves one discovery loop per answer running.  A new snapshot cancels   *)
(* and replaces the updaters of the upstreams it still contains.           *)
(*                                                                         *)
(* Updaters are numbered in the order they are created; 0 is none.         *)
(***************************************************************************)
EXTENDS Naturals, Sequences, FiniteSets

CONSTANTS Upstreams, Plugins,
          Tokens,       \* maxconncurrency (zero, no semaphore, is left out)
          MaxUpdaters,  \* bound on updaters created
          MaxEdits      \* bound on edits of upstreams by others

ASSUME TokensAssumption == Tokens \in Nat \ {0}
ASSUME FdsBoundsAssumption == MaxUpdaters \in Nat /\ MaxEdits \in Nat
ASSUME PluginsAssumption == IsFiniteSet(Plugins) /\ IsFiniteSet(Upstreams)

Updaters == 1..MaxUpdaters
NoPlugin == "none"

VARIABLES
  prevUpstreams,   \* of FunctionDiscovery
  active,          \* activeUpstreams
  created,         \* updaters created so far
  upstream, cancelled,  \* of an updater: its upstream, its context
  main,            \* of an updater: where Run is
  received, found, \* of an updater: the variables of detectType
  det,             \* detectSingle of an updater and a plugin
  sem,             \* tokens in maxInParallelSemaphore
  saving,          \* saveUpstream of an updater for a plugin, and its object
  copy,            \* of an updater: u.upstream
  loops,           \* of an updater: its discovery loops
  store, edits     \* upstreams in the cluster; how often others changed them

detectVars == <<received, found, det, sem>>
saveVars == <<saving, copy, store>>
trackVars == <<prevUpstreams, active, created, upstream, cancelled>>
vars == <<trackVars, main, detectVars, saveVars, loops, edits>>

Contents == [rev : Nat, edit : Nat, spec : Plugins \cup {NoPlugin}, fns : SUBSET Plugins]
NotSaving == [pc |-> "idle", kind |-> "spec"]

TypeOK ==
  /\ prevUpstreams \in SUBSET Upstreams /\ active \in [Upstreams -> 0..created]
  /\ created \in 0..MaxUpdaters
  /\ upstream \in [1..created -> Upstreams] /\ cancelled \in [Updaters -> BOOLEAN]
  /\ main \in [Updaters -> {"none", "start", "detect", "save", "done"}]
  /\ received \in [Updaters -> 0..Cardinality(Plugins)]
  /\ \A i \in Updaters : found[i] \in Seq(Plugins)
  /\ det \in [Updaters \X Plugins ->
                {"none", "wait", "probe", "sendSpec", "sendNil", "return", "finished"}]
  /\ sem \in 0..Tokens
  /\ \A x \in Updaters \X Plugins : saving[x].pc \in {"idle", "write", "rewrite"}
  /\ copy \in [1..created -> Contents] /\ store \in [Upstreams -> Contents]
  /\ loops \in [Updaters -> SUBSET Plugins] /\ edits \in [Upstreams -> 0..MaxEdits]

Init ==
  /\ prevUpstreams = {} /\ active = [u \in Upstreams |-> 0] /\ created = 0
  /\ upstream = <<>> /\ cancelled = [i \in Updaters |-> FALSE]
  /\ main = [i \in Updaters |-> "none"]
  /\ received = [i \in Updaters |-> 0] /\ found = [i \in Updaters |-> <<>>]
  /\ det = [x \in Updaters \X Plugins |-> "none"] /\ sem = Tokens
  /\ saving = [x \in Updaters \X Plugins |-> NotSaving] /\ copy = <<>>
  /\ loops = [i \in Updaters |-> {}]
  /\ store = [u \in Upstreams |-> [rev |-> 0, edit |-> 0, spec |-> NoPlugin, fns |-> {}]]
  /\ edits = [u \in Upstreams |-> 0]

-----------------------------------------------------------------------------
(* Tracking.                                                               *)

\* An upstream is changed by its owner.
Edit(u) ==
  /\ edits[u] < MaxEdits
  /\ edits' = [edits EXCEPT ![u] = @ + 1]
  /\ store' = [store EXCEPT ![u].rev = @ + 1, ![u].edit = @ + 1]
  /\ UNCHANGED <<trackVars, main, detectVars, saving, copy, loops>>

\* Mutant: an upstream that stays is added again without being removed.
UpdateWithoutRemoving(S, order) ==
  /\ active' = [u \in Upstreams |->
       IF u \in S THEN created + (CHOOSE k \in DOMAIN order : order[k] = u) ELSE 0]
  /\ cancelled' = [i \in Updaters |->
       cancelled[i] \/ (i \in 1..created /\ upstream[i] \notin S)]

\* UpstreamRemoved for what is gone, UpstreamAdded for what is new, and both
\* (UpstreamUpdated) for what stays: each upstream in S gets a new updater.
Tracked(S, order) ==
  /\ active' = [u \in Upstreams |->
       IF u \in S THEN created + (CHOOSE k \in DOMAIN order : order[k] = u) ELSE 0]
  /\ cancelled' = [i \in Updaters |->
       cancelled[i] \/ \E u \in prevUpstreams : active[u] = i]

\* FunctionDiscovery.Update with the upstreams S of a snapshot; the updaters
\* are created in some order, each with the upstream as the snapshot has it.
Update(S, order) ==
  /\ created + Len(order) <= MaxUpdaters /\ S \cup prevUpstreams # {}
  /\ Tracked(S, order)
  /\ prevUpstreams' = S
  /\ created' = created + Len(order)
  /\ upstream' = upstream \o order
  /\ copy' = copy \o [k \in DOMAIN order |-> store[order[k]]]
  /\ main' = [i \in Updaters |-> IF i \in created + 1..created' THEN "start" ELSE main[i]]
  /\ UNCHANGED <<detectVars, saving, loops, store, edits>>

-----------------------------------------------------------------------------
(* Run and detectType.                                                     *)

\* Some plugins already recognise the upstream: their loops are started.
RunFunctional(i, ps) ==
  /\ main[i] = "start" /\ ps # {}
  /\ main' = [main EXCEPT ![i] = "done"] /\ loops' = [loops EXCEPT ![i] = ps]
  /\ UNCHANGED <<trackVars, detectVars, saveVars, edits>>

\* The upstream takes no service spec, or its address is not resolved.
RunImpossible(i) ==
  /\ main[i] = "start" /\ main' = [main EXCEPT ![i] = "done"]
  /\ UNCHANGED <<trackVars, detectVars, saveVars, loops, edits>>

\* detectType starts one detectSingle per plugin.
RunDetect(i) ==
  /\ main[i] = "start" /\ main' = [main EXCEPT ![i] = "detect"]
  /\ det' = [x \in Updaters \X Plugins |-> IF x[1] = i THEN "wait" ELSE det[x]]
  /\ UNCHANGED <<trackVars, received, found, sem, saveVars, loops, edits>>

TakeToken(i, p) ==
  /\ det[<<i, p>>] = "wait" /\ sem > 0
  /\ sem' = sem - 1 /\ det' = [det EXCEPT ![<<i, p>>] = "probe"]
  /\ UNCHANGED <<trackVars, main, received, found, saveVars, loops, edits>>

\* The context is done before it is our turn.
WaitCancelled(i, p) ==
  /\ det[<<i, p>>] = "wait" /\ cancelled[i]
  /\ det' = [det EXCEPT ![<<i, p>>] = "finished"]
  /\ UNCHANGED <<trackVars, main, received, found, sem, saveVars, loops, edits>>

\* DetectType, with its retry, finds a spec or not (or is cancelled).
Probe(i, p, answer) ==
  /\ det[<<i, p>>] = "probe" /\ det' = [det EXCEPT ![<<i, p>>] = answer]
  /\ UNCHANGED <<trackVars, main, received, found, sem, saveVars, loops, edits>>

\* The result channel has no buffer: detectSingle and detectType meet.  When
\* the last result is in, detectType returns what was found.
Deliver(i, p) ==
  /\ det[<<i, p>>] \in {"sendSpec", "sendNil"} /\ main[i] = "detect"
  /\ det' = [det EXCEPT ![<<i, p>>] = "return"]
  /\ received' = [received EXCEPT ![i] = @ + 1]
  /\ found' = [found EXCEPT ![i] = IF det[<<i, p>>] = "sendSpec" THEN Append(@, p) ELSE @]
  /\ main' = [main EXCEPT ![i] =
       IF received'[i] # Cardinality(Plugins) THEN "detect"
       ELSE IF found'[i] = <<>> THEN "done" ELSE "save"]
  /\ UNCHANGED <<trackVars, sem, saveVars, loops, edits>>

\* Mutant: the token is dropped.
GiveBackDrops(i, p) ==
  /\ det[<<i, p>>] = "return" /\ det' = [det EXCEPT ![<<i, p>>] = "finished"]
  /\ UNCHANGED <<trackVars, main, received, found, sem, saveVars, loops, edits>>

\* Mutant: the token is given back once more than it was taken.
GiveBackTwice(i, p) ==
  /\ det[<<i, p>>] = "return" /\ sem' = sem + 2
  /\ det' = [det EXCEPT ![<<i, p>>] = "finished"]
  /\ UNCHANGED <<trackVars, main, received, found, saveVars, loops, edits>>

\* Mutant: the token is kept until the discovery loops have ended.
GiveBackAfterLoops(i, p) ==
  /\ det[<<i, p>>] = "return" /\ main[i] = "done" /\ loops[i] = {}
  /\ sem' = sem + 1 /\ det' = [det EXCEPT ![<<i, p>>] = "finished"]
  /\ UNCHANGED <<trackVars, main, received, found, saveVars, loops, edits>>

\* The deferred send to the semaphore.
GiveBack(i, p) ==
  /\ det[<<i, p>>] = "return" /\ sem < Tokens
  /\ sem' = sem + 1 /\ det' = [det EXCEPT ![<<i, p>>] = "finished"]
  /\ UNCHANGED <<trackVars, main, received, found, saveVars, loops, edits>>

\* All detectSingle are done, the channel is closed: what was found so far.
ResultsClosed(i) ==
  /\ main[i] = "detect" /\ \A p \in Plugins : det[<<i, p>>] = "finished"
  /\ main' = [main EXCEPT ![i] = "save"]
  /\ UNCHANGED <<trackVars, detectVars, saveVars, loops, edits>>

DetectCancelled(i) ==
  /\ main[i] = "detect" /\ cancelled[i]
  /\ main' = [main EXCEPT ![i] = "done"]
  /\ UNCHANGED <<trackVars, detectVars, saveVars, loops, edits>>

-----------------------------------------------------------------------------
(* Saving.                                                                 *)

Mutated(content, p, kind) ==
  IF kind = "spec" THEN [content EXCEPT !.spec = p] ELSE [content EXCEPT !.fns = @ \cup {p}]

SaveEnds(i, p) == saving' = [saving EXCEPT ![<<i, p>>] = NotSaving]

\* Run saves the next result; the mutator may refuse it (deprecated gRPC).
SaveSpec(i) ==
  /\ main[i] = "save" /\ found[i] # <<>>
  /\ \A p \in Plugins : saving[<<i, p>>].pc = "idle"
  /\ LET p == Head(found[i]) IN
       /\ saving' \in {saving, [saving EXCEPT ![<<i, p>>] = [pc |-> "write", kind |-> "spec"]]}
       /\ loops' = [loops EXCEPT ![i] = @ \cup {p}]
  /\ found' = [found EXCEPT ![i] = Tail(@)]
  /\ UNCHANGED <<trackVars, main, received, det, sem, copy, store, edits>>

\* All results are saved, and the loops of their plugins run.
RunEnds(i) ==
  /\ main[i] = "save" /\ found[i] = <<>>
  /\ \A p \in Plugins : saving[<<i, p>>].pc = "idle"
  /\ main' = [main EXCEPT ![i] = "done"]
  /\ UNCHANGED <<trackVars, detectVars, saveVars, loops, edits>>

\* A discovery loop has functions to save.
SaveFunctions(i, p) ==
  /\ main[i] = "done" /\ p \in loops[i] /\ saving[<<i, p>>].pc = "idle"
  /\ p \notin copy[i].fns
  /\ saving' = [saving EXCEPT ![<<i, p>>] = [pc |-> "write", kind |-> "functions"]]
  /\ UNCHANGED <<trackVars, main, detectVars, copy, loops, store, edits>>

\* A loop ends: its context is done, or DetectFunctions returned an error.
LoopEnds(i, p) ==
  /\ main[i] = "done" /\ p \in loops[i] /\ saving[<<i, p>>].pc = "idle"
  /\ loops' = [loops EXCEPT ![i] = @ \ {p}]
  /\ UNCHANGED <<trackVars, main, detectVars, saveVars, edits>>

\* Write of a mutated object; the client refuses an old resource version.
Write(u, object) ==
  /\ object.rev = store[u].rev
  /\ store' = [store EXCEPT ![u] = [object EXCEPT !.rev = @ + 1]]

\* The first Write: on success u.upstream gets the change too, but not the
\* new resource version.
WriteFirst(i, p) ==
  /\ saving[<<i, p>>].pc = "write"
  /\ LET new == Mutated(copy[i], p, saving[<<i, p>>].kind) IN
       \/ new = copy[i] /\ UNCHANGED <<copy, store>>
       \/ new # copy[i] /\ Write(upstream[i], new) /\ copy' = [copy EXCEPT ![i] = new]
  /\ SaveEnds(i, p)
  /\ UNCHANGED <<trackVars, main, detectVars, loops, edits>>

\* Mutant: only the resource version is taken from what was read.
ReadAgainVersion(i, p) ==
  /\ saving[<<i, p>>].pc = "write" /\ Mutated(copy[i], p, saving[<<i, p>>].kind) # copy[i]
  /\ saving' = [saving EXCEPT ![<<i, p>>] =
       [pc |-> "rewrite", kind |-> saving[<<i, p>>].kind,
        object |-> [copy[i] EXCEPT !.rev = store[upstream[i]].rev]]]
  /\ UNCHANGED <<trackVars, main, detectVars, copy, loops, store, edits>>

\* It failed, for an old resource version or anything else: Read ...
ReadAgain(i, p) ==
  /\ saving[<<i, p>>].pc = "write" /\ Mutated(copy[i], p, saving[<<i, p>>].kind) # copy[i]
  /\ saving' = [saving EXCEPT ![<<i, p>>] =
       [pc |-> "rewrite", kind |-> saving[<<i, p>>].kind, object |-> store[upstream[i]]]]
  /\ UNCHANGED <<trackVars, main, detectVars, copy, loops, store, edits>>

\* ... and Write that, once.
WriteAgain(i, p) ==
  /\ saving[<<i, p>>].pc = "rewrite"
  /\ Write(upstream[i], Mutated(saving[<<i, p>>].object, p, saving[<<i, p>>].kind))
  /\ copy' = [copy EXCEPT ![i] = Mutated(@, p, saving[<<i, p>>].kind)]
  /\ SaveEnds(i, p)
  /\ UNCHANGED <<trackVars, main, detectVars, loops, edits>>

\* The Read or the second Write fails: saveUpstream gives up.  (So it would if what it
\* has read equalled its copy once mutated, which the first Write excludes.)
SaveFails(i, p) ==
  /\ saving[<<i, p>>].pc \in {"write", "rewrite"} /\ SaveEnds(i, p)
  /\ UNCHANGED <<trackVars, main, detectVars, copy, loops, store, edits>>

-----------------------------------------------------------------------------
Orders(S) == {o \in [1..Cardinality(S) -> S] : \A u \in S : \E k \in DOMAIN o : o[k] = u}

Detection(i, p) ==
  \/ TakeToken(i, p) \/ WaitCancelled(i, p) \/ Deliver(i, p) \/ GiveBack(i, p)
  \/ \E answer \in {"sendSpec", "sendNil"} : Probe(i, p, answer)

Saving(i, p) == WriteFirst(i, p) \/ ReadAgain(i, p) \/ WriteAgain(i, p) \/ SaveFails(i, p)

Run(i) ==
  \/ RunImpossible(i) \/ RunDetect(i) \/ ResultsClosed(i) \/ DetectCancelled(i)
  \/ SaveSpec(i) \/ RunEnds(i)
  \/ \E ps \in SUBSET Plugins : RunFunctional(i, ps)

Next ==
  \/ \E u \in Upstreams : Edit(u)
  \/ \E S \in SUBSET Upstreams : \E order \in Orders(S) : Update(S, order)
  \/ \E i \in 1..created :
       \/ Run(i)
       \/ \E p \in Plugins :
            \/ Detection(i, p) \/ Saving(i, p) \/ SaveFunctions(i, p) \/ LoopEnds(i, p)

\* Goroutines run on.  A semaphore hands a token to the goroutine that has
\* waited longest: nobody waits forever while tokens keep coming.
Spec ==
  /\ Init /\ [][Next]_vars
  /\ \A i \in Updaters :
       /\ WF_vars(Run(i) /\ i <= created)
       /\ \A p \in Plugins :
            /\ WF_vars(Saving(i, p)) /\ SF_vars(TakeToken(i, p)) /\ WF_vars(WaitCancelled(i, p))
            /\ WF_vars(Detection(i, p) /\ det[<<i, p>>] # "wait")

-----------------------------------------------------------------------------
Holding == {x \in Updaters \X Plugins : det[x] \in {"probe", "sendSpec", "sendNil", "return"}}

\* maxInParallelSemaphore: no token is lost or made up, so no more than
\* Tokens plugins ever probe at a time, over all updaters.
TokensConserved == sem + Cardinality(Holding) = Tokens

\* An upstream is discovered by one updater that is not cancelled, the one
\* in activeUpstreams; what is not tracked has none.
OneUpdater ==
  \A i \in 1..created : ~cancelled[i] <=> active[upstream[i]] = i

\* saveUpstream never undoes a change somebody else made to the upstream,
\* however stale its own copy is.
EditsKept == \A u \in Upstreams : store[u].edit = edits[u]

\* While no updater is cancelled every detection comes to an end: the tokens
\* go round.
DetectionEnds ==
  [](\A i \in Updaters : ~cancelled[i]) =>
    \A i \in Updaters : main[i] = "detect" ~> main[i] # "detect"
=============================================================================
