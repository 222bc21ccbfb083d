-------------------------- MODULE StatusReporting --------------------------
(***************************************************************************)
(* How the statuses of Edge Gateway resources (VirtualServices, Gateways,  *)
(* RouteTables) reach the cluster.  Four goroutines of one replica:        *)
(*                                                                         *)
(*   the translation loop: gateway Sync, then UpdateStatusForAllProxies    *)
(*     (projects/gloo/pkg/syncer/translator_syncer.go Sync and             *)
(*      projects/gateway/pkg/syncer/translator_syncer.go);                 *)
(*   the gateway status loop syncStatusOnEmit;                             *)
(*   the Gloo status loop, which writes the statuses of proxies;           *)
(*   the goroutine of WatchElectionResults, which runs the startup action  *)
(*     once (pkg/bootstrap/leaderelector/leader.go).                       *)
(*                                                                         *)
(* The status of a resource is the function from the current proxies to    *)
(* the report and the proxy status it is computed from.  Every proxy       *)
(* reports on every resource.  A proxy is its position in a sorted list.   *)
(***************************************************************************)
EXTENDS Naturals, Sequences

CONSTANTS N,           \* number of proxies
          Resources,   \* gateway resources with a status
          Reports,     \* translation reports
          Verdicts,    \* statuses that Gloo gives a proxy
          MaxSyncs,    \* bound on API snapshots
          MaxErrors    \* bound on failing API calls

ASSUME StatusBoundsAssumption == MaxSyncs \in Nat /\ MaxErrors \in Nat

Proxies == 1..N
NoStatus == "none"     \* a proxy that Gloo has not reported on
Absent == "absent"     \* no such proxy
NoAction == <<>>

VARIABLES
  mpc, snapshot, syncs,          \* translation loop, statuses in its snapshot
  proxyStore,                    \* proxy client: status of each proxy
  latestReports,                 \* Gloo statusSyncer.latestReports, per proxy
  reports, statuses, current,    \* proxyToLastStatus, currentGeneratedProxies
  inputStatus,                   \* statuses on the resources that reports is about
  lastStatus, epoch,             \* inputResourceLastStatus, and which map
  previousHash,                  \* previousProxyStatusHash
  syncNeeded, retry,             \* the channels of syncStatusOnEmit
  spc, local,                    \* status loop and the variables of syncStatus
  wasElected, action, wpc, fetched, \* election, startup action, its goroutine
  written,                       \* statuses in the cluster
  errors,                        \* failed calls so far
  covered                        \* history: see StatusesSettled

mainVars == <<mpc, snapshot, syncs, proxyStore, latestReports>>
sharedVars == <<reports, statuses, current, inputStatus, previousHash>>
loopVars == <<retry, spc, local, covered>>
electVars == <<wasElected, action, wpc, fetched>>
vars == <<mainVars, sharedVars, lastStatus, epoch, syncNeeded, loopVars, electVars,
          written, errors>>

\* StatusFromReport over what extractCurrentReports collects.
Status == [p \in current |-> <<reports[p], statuses[p]>>]
Reported == IF current = {} THEN {} ELSE Resources
NoneWritten == [p \in {} |-> <<>>]

Idle == [todo |-> {}, value |-> NoneWritten, base |-> [r \in Resources |-> NoneWritten],
         epoch |-> 0, err |-> FALSE]

StatusValues == UNION {[S -> (Reports \cup {NoStatus}) \X (Verdicts \cup {NoStatus})] :
                         S \in SUBSET Proxies}

TypeOK ==
  /\ mpc \in {"idle", "snapshot", "proxies", "unlisted"} /\ syncs \in 0..MaxSyncs
  /\ {snapshot, inputStatus} \subseteq [Resources -> StatusValues]
  /\ proxyStore \in [Proxies -> Verdicts \cup {NoStatus, Absent}]
  /\ latestReports \in [Proxies -> Verdicts \cup {NoStatus}]
  /\ reports \in [Proxies -> Reports \cup {NoStatus}]
  /\ statuses \in [Proxies -> Verdicts \cup {NoStatus}]
  /\ current \in SUBSET Proxies
  /\ DOMAIN lastStatus \in SUBSET Resources
  /\ lastStatus \in [DOMAIN lastStatus -> StatusValues]
  /\ syncNeeded \in BOOLEAN /\ retry \in BOOLEAN
  /\ spc \in {"wait", "write", "follower"}
  /\ local.todo \in SUBSET Resources /\ local.value \in StatusValues
  /\ wasElected \in BOOLEAN /\ wpc \in {"watch", "perform", "done"}
  /\ written \in [Resources -> StatusValues]
  /\ errors \in 0..MaxErrors /\ covered \in BOOLEAN

Init ==
  /\ mpc = "idle" /\ syncs = 0
  /\ snapshot = [r \in Resources |-> NoneWritten] /\ inputStatus = snapshot
  /\ proxyStore = [p \in Proxies |-> Absent]
  /\ latestReports = [p \in Proxies |-> NoStatus]
  /\ reports = [p \in Proxies |-> NoStatus] /\ statuses = [p \in Proxies |-> NoStatus]
  /\ current = {} /\ previousHash = <<Absent>>
  /\ lastStatus = [r \in {} |-> NoneWritten] /\ epoch = 0
  /\ syncNeeded = FALSE /\ retry = FALSE
  /\ spc = "wait" /\ local = Idle
  /\ wasElected = FALSE /\ action = NoAction /\ wpc = "watch" /\ fetched = NoAction
  /\ written = [r \in Resources |-> NoneWritten]
  /\ errors = 0 /\ covered = FALSE

-----------------------------------------------------------------------------
(* The translation loop.                                                   *)

\* The emitter hands over a snapshot; the statuses on its resources are not
\* updated afterwards.
TakeSnapshot ==
  /\ mpc = "idle" /\ syncs < MaxSyncs
  /\ syncs' = syncs + 1
  /\ snapshot' = written
  /\ mpc' = "snapshot"
  /\ UNCHANGED <<proxyStore, latestReports, sharedVars, lastStatus, epoch, syncNeeded,
                 loopVars, electVars, written, errors>>

\* ReconcileProxies: a changed proxy loses its status (TransitionFunction).
Reconciled(desired, changed, p) ==
  IF p \notin desired THEN Absent
  ELSE IF p \in changed \/ proxyStore[p] = Absent THEN NoStatus ELSE proxyStore[p]

\* Gateway Sync: the desired proxies are reconciled, then setCurrentProxies
\* and forceSync.  Invalid proxies are reported on but not written.
GatewaySync(desired, invalid, changed, rep) ==
  /\ mpc = "snapshot"
  /\ desired \cap invalid = {} /\ changed \subseteq desired
  /\ proxyStore' = [p \in Proxies |-> Reconciled(desired, changed, p)]
  /\ current' = desired \cup invalid
  /\ reports' = [p \in Proxies |-> IF p \in current' THEN rep[p] ELSE reports[p]]
  /\ inputStatus' = snapshot
  /\ lastStatus' = [r \in {} |-> NoneWritten] /\ epoch' = epoch + 1
  /\ syncNeeded' = TRUE
  /\ mpc' = "proxies"
  /\ UNCHANGED <<snapshot, syncs, latestReports, statuses, previousHash, loopVars,
                 electVars, written, errors>>

\* ReconcileProxies fails after some of the proxies: no reports are saved
\* and no sync is forced.
GatewaySyncError(desired, changed, done) ==
  /\ mpc = "snapshot" /\ errors < MaxErrors /\ changed \subseteq desired
  /\ errors' = errors + 1
  /\ proxyStore' = [p \in Proxies |->
       IF p \in done THEN Reconciled(desired, changed, p) ELSE proxyStore[p]]
  /\ mpc' = "proxies"
  /\ UNCHANGED <<snapshot, syncs, latestReports, sharedVars, lastStatus,
                 epoch, syncNeeded, loopVars, electVars, written>>

\* The List of translateProxies fails: Gloo goes on with no proxies at all.
ListProxiesError ==
  /\ mpc = "proxies" /\ errors < MaxErrors
  /\ errors' = errors + 1
  /\ mpc' = "unlisted"
  /\ UNCHANGED <<snapshot, syncs, proxyStore, latestReports, sharedVars, lastStatus, epoch,
                 syncNeeded, loopVars, electVars, written>>

\* hashStatuses: the statuses of the listed proxies in order, not the names.
HashStatuses ==
  LET Present(i, acc) == IF proxyStore[i] = Absent THEN acc ELSE Append(acc, proxyStore[i])
      upTo[i \in 0..N] == IF i = 0 THEN <<>> ELSE Present(i, upTo[i - 1])
  IN  upTo[N]

Listed == {p \in Proxies : proxyStore[p] # Absent}

\* The end of Gloo's Sync: its reports on the proxies it translated are saved
\* for its status loop, which is told to run.
SaveReports(verdict) ==
  /\ latestReports' = [p \in Proxies |->
       IF mpc = "proxies" /\ p \in Listed THEN verdict[p] ELSE NoStatus]
  /\ mpc' = "idle"

\* UpdateStatusForAllProxies, and the end of the sync.
UpdateStatusForAllProxies(verdict) ==
  /\ mpc \in {"proxies", "unlisted"}
  /\ IF HashStatuses # previousHash
     THEN /\ previousHash' = HashStatuses
          /\ statuses' = [p \in Proxies |-> IF p \in Listed THEN proxyStore[p] ELSE statuses[p]]
          /\ syncNeeded' = TRUE
     ELSE UNCHANGED <<previousHash, statuses, syncNeeded>>
  /\ SaveReports(verdict)
  /\ UNCHANGED <<snapshot, syncs, proxyStore, reports, current, inputStatus, lastStatus, epoch,
                 loopVars, electVars, written, errors>>

\* The List of handleUpdatedProxies fails and it returns.
UpdateStatusError(verdict) ==
  /\ mpc \in {"proxies", "unlisted"} /\ errors < MaxErrors
  /\ errors' = errors + 1
  /\ SaveReports(verdict)
  /\ UNCHANGED <<snapshot, syncs, proxyStore, sharedVars, lastStatus, epoch, syncNeeded,
                 loopVars, electVars, written>>

\* The Gloo status loop of the leader writes the status of a proxy.
GlooWriteReports(p) ==
  /\ wasElected
  /\ latestReports[p] # NoStatus /\ proxyStore[p] \notin {Absent, latestReports[p]}
  /\ proxyStore' = [proxyStore EXCEPT ![p] = latestReports[p]]
  /\ UNCHANGED <<mpc, snapshot, syncs, latestReports, sharedVars, lastStatus, epoch,
                 syncNeeded, loopVars, electVars, written, errors>>

-----------------------------------------------------------------------------
(* The gateway status loop.                                                *)

\* syncStatus up to the loop over resources: extractCurrentReports under the
\* lock, and the last known status of each resource, which is the one it had in the
\* snapshot of the reports unless a sync since setCurrentProxies has written another.
Begin ==
  /\ spc = "wait"
  /\ spc' = "write"
  /\ local' = [todo |-> Reported, value |-> Status, epoch |-> epoch, err |-> FALSE,
               base |-> [r \in Resources |->
                           IF r \in DOMAIN lastStatus THEN lastStatus[r] ELSE inputStatus[r]]]
  /\ covered' = /\ wpc = "done"
                /\ \A r \in Reported : local'.base[r] = written[r]

OnSyncNeeded ==
  /\ syncNeeded /\ syncNeeded' = FALSE
  /\ Begin
  /\ UNCHANGED <<mainVars, sharedVars, lastStatus, epoch, retry, electVars, written, errors>>

\* Mutant: the retry timer is armed again without a sync.
OnRetryRearms == retry /\ spc = "wait" /\ UNCHANGED vars

OnRetry ==
  /\ retry /\ retry' = FALSE
  /\ Begin
  /\ UNCHANGED <<mainVars, sharedVars, lastStatus, epoch, syncNeeded, electVars, written, errors>>

\* WriteReports: a status equal to the last known one is not written again.
WriteReports(r) ==
  IF local.base[r] = local.value THEN UNCHANGED written
  ELSE written' = [written EXCEPT ![r] = local.value]

\* Mutant: statuses are written without asking for the leader.
LeaderWritesUnchecked(r) ==
  /\ spc = "write" /\ r \in local.todo
  /\ WriteReports(r)
  /\ local' = [local EXCEPT !.todo = @ \ {r}]
  /\ UNCHANGED <<mainVars, sharedVars, lastStatus, epoch, syncNeeded, retry, spc, covered,
                 electVars, errors>>

\* The leader writes one resource and remembers what it wrote, in the map it
\* got when it started; that map may have been replaced since.
LeaderWrites(r) ==
  /\ spc = "write" /\ r \in local.todo /\ wasElected
  /\ WriteReports(r)
  /\ lastStatus' = IF local.epoch = epoch
                   THEN [x \in DOMAIN lastStatus \cup {r} |->
                           IF x = r THEN local.value ELSE lastStatus[x]]
                   ELSE lastStatus
  /\ local' = [local EXCEPT !.todo = @ \ {r}]
  /\ UNCHANGED <<mainVars, sharedVars, epoch, syncNeeded, retry, spc, covered,
                 electVars, errors>>

\* Mutant: a failed write is not reported by syncStatus.
LeaderWriteErrorIgnored(r) ==
  /\ spc = "write" /\ r \in local.todo /\ wasElected /\ errors < MaxErrors
  /\ local.base[r] # local.value
  /\ errors' = errors + 1
  /\ local' = [local EXCEPT !.todo = @ \ {r}]
  /\ UNCHANGED <<mainVars, sharedVars, lastStatus, epoch, syncNeeded, retry, spc, covered,
                 electVars, written>>

\* The write fails: the other resources are still written, a retry follows.
LeaderWriteError(r) ==
  /\ spc = "write" /\ r \in local.todo /\ wasElected /\ errors < MaxErrors
  /\ local.base[r] # local.value
  /\ errors' = errors + 1
  /\ local' = [local EXCEPT !.todo = @ \ {r}, !.err = TRUE]
  /\ UNCHANGED <<mainVars, sharedVars, lastStatus, epoch, syncNeeded, retry, spc, covered,
                 electVars, written>>

\* Not the leader when IsLeader was asked for the next resource ...
FollowerSkips ==
  /\ spc = "write" /\ local.todo # {} /\ ~wasElected
  /\ spc' = "follower"
  /\ UNCHANGED <<mainVars, sharedVars, lastStatus, epoch, syncNeeded, retry, local, covered,
                 electVars, written, errors>>

\* ... so the write becomes the startup action, replacing the one before.
SetAction(r) ==
  /\ spc = "follower" /\ r \in local.todo
  /\ action' = <<r, local.value, local.base[r]>>
  /\ local' = [local EXCEPT !.todo = @ \ {r}]
  /\ spc' = "write"
  /\ UNCHANGED <<mainVars, sharedVars, lastStatus, epoch, syncNeeded, retry, covered,
                 wasElected, wpc, fetched, written, errors>>

\* syncStatus returns; an error arms the retry timer.
Finish ==
  /\ spc = "write" /\ local.todo = {}
  /\ spc' = "wait"
  /\ retry' = local.err
  /\ local' = Idle
  /\ UNCHANGED <<mainVars, sharedVars, lastStatus, epoch, syncNeeded, covered, electVars,
                 written, errors>>

-----------------------------------------------------------------------------
(* Leader election and the startup action.                                 *)

Elect ==
  /\ ~wasElected /\ wasElected' = TRUE
  /\ UNCHANGED <<mainVars, sharedVars, lastStatus, epoch, syncNeeded, loopVars, action,
                 wpc, fetched, written, errors>>

\* The channel is closed: GetAction.
GetAction ==
  /\ wasElected /\ wpc = "watch"
  /\ fetched' = action
  /\ wpc' = IF action = NoAction THEN "done" ELSE "perform"
  /\ UNCHANGED <<mainVars, sharedVars, lastStatus, epoch, syncNeeded, loopVars, wasElected,
                 action, written, errors>>

\* The closure runs its WriteReports; an error would only be logged.
PerformAction(ok) ==
  /\ wpc = "perform" /\ wpc' = "done"
  /\ ~ok => errors < MaxErrors
  /\ errors' = IF ok THEN errors ELSE errors + 1
  /\ written' = IF ok /\ fetched[2] # fetched[3]
                THEN [written EXCEPT ![fetched[1]] = fetched[2]] ELSE written
  /\ UNCHANGED <<mainVars, sharedVars, lastStatus, epoch, syncNeeded, loopVars, wasElected,
                 action, fetched>>

Main ==
  \/ TakeSnapshot
  \/ \E desired, invalid, changed \in SUBSET Proxies, rep \in [Proxies -> Reports] :
       GatewaySync(desired, invalid, changed, rep)
  \/ \E desired, changed, done \in SUBSET Proxies : GatewaySyncError(desired, changed, done)
  \/ ListProxiesError
  \/ \E verdict \in [Proxies -> Verdicts] :
       UpdateStatusForAllProxies(verdict) \/ UpdateStatusError(verdict)

StatusLoop ==
  \/ OnSyncNeeded \/ OnRetry \/ FollowerSkips \/ Finish
  \/ \E r \in Resources : LeaderWrites(r) \/ SetAction(r)

Watcher == GetAction \/ \E ok \in BOOLEAN : PerformAction(ok)

Next ==
  \/ Main \/ StatusLoop \/ Elect \/ Watcher
  \/ \E p \in Proxies : GlooWriteReports(p)
  \/ \E r \in Resources : LeaderWriteError(r)

\* The goroutines run on; whether and when this replica is elected, and
\* whether another snapshot comes, is not up to it.
Fairness ==
  /\ WF_vars(Main /\ mpc # "idle") /\ WF_vars(StatusLoop) /\ WF_vars(Watcher)
  /\ \A p \in Proxies : WF_vars(GlooWriteReports(p))

Spec == Init /\ [][Next]_vars /\ Fairness

-----------------------------------------------------------------------------
\* Nothing is due in the status loop.
Quiet == spc = "wait" /\ ~syncNeeded /\ ~retry

UpToDate == \A r \in Reported : written[r] = Status

\* A quiet status loop has written the newest status of every resource, when
\* its last round began after the startup action had run and compared with
\* the statuses that are in the cluster (covered).  Otherwise a status may
\* stay behind: see the README on the two races.
StatusesSettled == Quiet /\ covered => UpToDate

\* And the loop does get there, through failed writes and forced syncs.
StatusesConverge == <>[](covered => UpToDate)

\* Statuses in the cluster are changed by the leader only (IsLeader, and a
\* startup action that runs after the election).
OnlyLeaderWrites == [][written' # written => wasElected]_vars

\* gateway/pkg/syncer/translator_syncer.go:435: the startup action is stored
\* so "that statuses are updated even if no changes occur after election
\* completes".
StartupCatchesUp == <>[](wasElected => UpToDate)
=============================================================================
