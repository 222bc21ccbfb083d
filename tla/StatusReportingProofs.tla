----------------------- MODULE StatusReportingProofs -----------------------
(***************************************************************************)
(* StatusReporting for any proxies, resources, reports and bounds: the     *)
(* types, who writes, and what a quiet status loop has written; then       *)
(* LeaderElection, which says who may write, and UpstreamDiscovery.        *)
(***************************************************************************)
EXTENDS StatusReporting, LeaderElection, TLAPS

Actions == Resources \X StatusValues \X StatusValues

\* Where the verdicts on proxies are on their way.
MainTypes ==
  /\ mpc \in {"idle", "snapshot", "proxies", "unlisted"} /\ syncs \in 0..MaxSyncs
  /\ snapshot \in [Resources -> StatusValues] /\ inputStatus \in [Resources -> StatusValues]
  /\ proxyStore \in [Proxies -> Verdicts \cup {NoStatus, Absent}]
  /\ latestReports \in [Proxies -> Verdicts \cup {NoStatus}]
  /\ reports \in [Proxies -> Reports \cup {NoStatus}]
  /\ statuses \in [Proxies -> Verdicts \cup {NoStatus}]
  /\ current \in SUBSET Proxies /\ errors \in 0..MaxErrors

\* What the status loop has in hand.
LoopTypes ==
  /\ DOMAIN lastStatus \in SUBSET Resources
  /\ lastStatus \in [DOMAIN lastStatus -> StatusValues]
  /\ spc \in {"wait", "write", "follower"}
  /\ local = [todo |-> local.todo, value |-> local.value, base |-> local.base,
              epoch |-> local.epoch, err |-> local.err]
  /\ local.todo \in SUBSET Resources /\ local.value \in StatusValues
  /\ local.base \in [Resources -> StatusValues]
  /\ written \in [Resources -> StatusValues]

\* The flags of the status loop.
FlagTypes ==
  /\ syncNeeded \in BOOLEAN /\ retry \in BOOLEAN /\ covered \in BOOLEAN
  /\ local.err \in BOOLEAN

\* The startup action runs in an elected replica only.
WatcherTypes ==
  /\ wasElected \in BOOLEAN /\ wpc \in {"watch", "perform", "done"}
  /\ action \in Actions \cup {NoAction}
  /\ wpc = "perform" => fetched \in Actions
  /\ wpc # "watch" => wasElected

Types == MainTypes /\ LoopTypes /\ FlagTypes /\ WatcherTypes

\* The status of a resource is a status value, and so is that of nothing.
LEMMA StatusTyped ==
  /\ NoneWritten \in StatusValues
  /\ MainTypes => Status \in StatusValues
<1> DEFINE V == (Reports \cup {NoStatus}) \X (Verdicts \cup {NoStatus})
<1>1. NoneWritten \in [{} -> V] BY DEF NoneWritten
<1>2. {} \in SUBSET Proxies OBVIOUS
<1>3. MainTypes => Status \in [current -> V] /\ current \in SUBSET Proxies
  BY DEF MainTypes, Status
<1>4. StatusValues = UNION {[S -> V] : S \in SUBSET Proxies} BY DEF StatusValues
<1> HIDE DEF V
<1> QED BY <1>1, <1>2, <1>3, <1>4, ZenonT(30)

\* Nothing has been reported at first.
LEMMA InitTypes == Init => Types
<1> SUFFICES ASSUME Init PROVE Types
  OBVIOUS
<1> USE StatusTyped
<1>1. MainTypes BY StatusBoundsAssumption DEF Init, MainTypes
<1>2. LoopTypes
  <2>1. DOMAIN lastStatus = {} /\ lastStatus \in [DOMAIN lastStatus -> StatusValues]
    BY DEF Init
  <2>2. /\ local.todo = {} /\ local.value = NoneWritten
        /\ local.base = [r \in Resources |-> NoneWritten]
        /\ local = [todo |-> local.todo, value |-> local.value, base |-> local.base,
                    epoch |-> local.epoch, err |-> local.err]
    BY DEF Init, Idle
  <2> QED BY <2>1, <2>2 DEF Init, LoopTypes
<1>3. FlagTypes BY ZenonT(30) DEF Init, FlagTypes, Idle
<1>4. WatcherTypes BY ZenonT(30) DEF Init, WatcherTypes
<1> QED BY <1>1, <1>2, <1>3, <1>4 DEF Types

\* The translation loop and Gloo's status loop keep the types.
LEMMA MainStep ==
  ASSUME Types, Main \/ \E p \in Proxies : GlooWriteReports(p)
  PROVE  Types'
<1>1. UNCHANGED <<loopVars, electVars, written>>
  BY ZenonT(30) DEF Main, TakeSnapshot, GatewaySync, GatewaySyncError, ListProxiesError,
                    UpdateStatusForAllProxies, UpdateStatusError, GlooWriteReports
<1>2. lastStatus' = lastStatus \/ lastStatus' = [r \in {} |-> NoneWritten]
  BY ZenonT(30) DEF Main, TakeSnapshot, GatewaySync, GatewaySyncError, ListProxiesError,
                    UpdateStatusForAllProxies, UpdateStatusError, GlooWriteReports
<1>3. LoopTypes' /\ FlagTypes' /\ WatcherTypes'
  <2>1. DOMAIN lastStatus' \in SUBSET Resources /\ lastStatus' \in [DOMAIN lastStatus' -> StatusValues]
    BY <1>2, ZenonT(30) DEF Types, LoopTypes
  <2>2. LoopTypes' BY <1>1, <2>1 DEF Types, LoopTypes, loopVars
  <2>3. FlagTypes'
    <3>1. syncNeeded' = syncNeeded \/ syncNeeded' = TRUE
      BY ZenonT(30) DEF Main, TakeSnapshot, GatewaySync, GatewaySyncError, ListProxiesError,
                        UpdateStatusForAllProxies, UpdateStatusError, GlooWriteReports
    <3> QED BY <1>1, <3>1, ZenonT(30) DEF Types, FlagTypes, loopVars
  <2>4. WatcherTypes' BY <1>1 DEF Types, WatcherTypes, electVars
  <2> QED BY <2>2, <2>3, <2>4
<1>4. MainTypes'
  <2> USE StatusBoundsAssumption DEF Types, MainTypes
  <2>1. CASE TakeSnapshot BY <2>1 DEF TakeSnapshot, sharedVars, LoopTypes
  <2>2. ASSUME NEW desired \in SUBSET Proxies, NEW invalid \in SUBSET Proxies,
               NEW changed \in SUBSET Proxies, NEW rep \in [Proxies -> Reports],
               GatewaySync(desired, invalid, changed, rep)
        PROVE  MainTypes'
    <3>1. proxyStore' \in [Proxies -> Verdicts \cup {NoStatus, Absent}]
      BY <2>2, ZenonT(30) DEF GatewaySync, Reconciled
    <3>2. current' \in SUBSET Proxies /\ reports' \in [Proxies -> Reports \cup {NoStatus}]
      BY <2>2, ZenonT(30) DEF GatewaySync
    <3> QED BY <2>2, <3>1, <3>2, ZenonT(30) DEF GatewaySync
  <2>3. ASSUME NEW desired \in SUBSET Proxies, NEW changed \in SUBSET Proxies,
               NEW done \in SUBSET Proxies, GatewaySyncError(desired, changed, done)
        PROVE  MainTypes'
    <3>1. proxyStore' \in [Proxies -> Verdicts \cup {NoStatus, Absent}]
      BY <2>3, ZenonT(30) DEF GatewaySyncError, Reconciled
    <3> QED BY <2>3, <3>1 DEF GatewaySyncError, sharedVars
  <2>4. CASE ListProxiesError BY <2>4 DEF ListProxiesError, sharedVars
  <2>5. ASSUME NEW verdict \in [Proxies -> Verdicts], SaveReports(verdict)
        PROVE  latestReports' \in [Proxies -> Verdicts \cup {NoStatus}] /\ mpc' = "idle"
    BY <2>5 DEF SaveReports
  <2>6. ASSUME NEW verdict \in [Proxies -> Verdicts], UpdateStatusForAllProxies(verdict)
        PROVE  MainTypes'
    <3>1. statuses' \in [Proxies -> Verdicts \cup {NoStatus}]
      BY <2>6, ZenonT(30) DEF UpdateStatusForAllProxies, Listed
    <3> QED BY <2>5, <2>6, <3>1, ZenonT(30) DEF UpdateStatusForAllProxies
  <2>7. ASSUME NEW verdict \in [Proxies -> Verdicts], UpdateStatusError(verdict)
        PROVE  MainTypes'
    BY <2>5, <2>7 DEF UpdateStatusError, sharedVars
  <2>8. ASSUME NEW p \in Proxies, GlooWriteReports(p) PROVE MainTypes'
    BY <2>8, ZenonT(30) DEF GlooWriteReports, sharedVars
  <2> QED BY <2>1, <2>2, <2>3, <2>4, <2>6, <2>7, <2>8, ZenonT(30) DEF Main
<1> QED BY <1>3, <1>4 DEF Types

\* So does the election, and the goroutine that runs the startup action.
LEMMA WatcherStep ==
  ASSUME Types, Elect \/ Watcher
  PROVE  Types'
<1>1. UNCHANGED <<mainVars, sharedVars, lastStatus, syncNeeded, loopVars>>
  BY ZenonT(30) DEF Elect, Watcher, GetAction, PerformAction
<1>2. errors' \in 0..MaxErrors
  BY StatusBoundsAssumption DEF Elect, Watcher, GetAction, PerformAction, Types, MainTypes
<1>3. MainTypes' BY <1>1, <1>2, ZenonT(30) DEF Types, MainTypes, mainVars, sharedVars
<1>4. WatcherTypes'
  BY ZenonT(30) DEF Elect, Watcher, GetAction, PerformAction, Types, WatcherTypes
<1>5. written' \in [Resources -> StatusValues]
  <2>1. CASE \E ok \in BOOLEAN : PerformAction(ok)
    <3>1. fetched \in Actions BY <2>1 DEF PerformAction, Types, WatcherTypes
    <3>2. fetched[1] \in Resources /\ fetched[2] \in StatusValues BY <3>1 DEF Actions
    <3> QED BY <2>1, <3>2, ZenonT(30) DEF PerformAction, Types, LoopTypes
  <2>2. CASE Elect \/ GetAction BY <2>2, ZenonT(30) DEF Elect, GetAction, Types, LoopTypes
  <2> QED BY <2>1, <2>2 DEF Watcher
<1>6. LoopTypes' /\ FlagTypes'
  BY <1>1, <1>5, ZenonT(30) DEF Types, LoopTypes, FlagTypes, loopVars
<1> QED BY <1>3, <1>4, <1>6 DEF Types

\* What a round of the status loop begins with.
LEMMA BeginTypes ==
  ASSUME Types, Begin, UNCHANGED <<lastStatus, written>>
  PROVE  LoopTypes' /\ local'.err \in BOOLEAN /\ covered' \in BOOLEAN
<1> DEFINE b == [r \in Resources |-> IF r \in DOMAIN lastStatus THEN lastStatus[r] ELSE inputStatus[r]]
<1>1. b \in [Resources -> StatusValues] BY ZenonT(30) DEF Types, MainTypes, LoopTypes
<1>2. Reported \in SUBSET Resources BY DEF Reported
<1>3. Status \in StatusValues BY StatusTyped DEF Types
<1>4. local' = [todo |-> Reported, value |-> Status, epoch |-> epoch, err |-> FALSE, base |-> b]
  BY ZenonT(30) DEF Begin
<1>5. covered' \in BOOLEAN BY ZenonT(30) DEF Begin
<1>6. /\ local' = [todo |-> local'.todo, value |-> local'.value, base |-> local'.base,
                   epoch |-> local'.epoch, err |-> local'.err]
      /\ local'.todo = Reported /\ local'.value = Status /\ local'.base = b /\ local'.err = FALSE
  BY <1>4, ZenonT(30)
<1>7. spc' = "write" BY ZenonT(30) DEF Begin
<1> HIDE DEF b
<1>8. LoopTypes' BY <1>1, <1>2, <1>3, <1>6, <1>7, ZenonT(30) DEF Types, LoopTypes
<1> QED BY <1>5, <1>6, <1>8, ZenonT(30)

\* The status loop keeps the types.
LEMMA LoopStep ==
  ASSUME Types, StatusLoop \/ \E r \in Resources : LeaderWriteError(r)
  PROVE  Types'
<1>1. UNCHANGED <<mainVars, sharedVars, wasElected, wpc, fetched>>
  BY ZenonT(30) DEF StatusLoop, OnSyncNeeded, OnRetry, FollowerSkips, Finish, LeaderWrites,
                    SetAction, LeaderWriteError, electVars
<1>2. errors' \in 0..MaxErrors
  <2>1. errors' = errors \/ (errors < MaxErrors /\ errors' = errors + 1)
    BY Zenon DEF StatusLoop, OnSyncNeeded, OnRetry, FollowerSkips, Finish, LeaderWrites,
                 SetAction, LeaderWriteError
  <2> QED BY <2>1, StatusBoundsAssumption DEF Types, MainTypes
<1>3. MainTypes' BY <1>1, <1>2, ZenonT(30) DEF Types, MainTypes, mainVars, sharedVars
<1>4. action' \in Actions \cup {NoAction}
  <2>1. CASE \E r \in Resources : SetAction(r)
    BY <2>1 DEF SetAction, Actions, Types, LoopTypes
  <2>2. CASE UNCHANGED action BY <2>2 DEF Types, WatcherTypes
  <2> QED BY <2>1, <2>2, ZenonT(30) DEF StatusLoop, OnSyncNeeded, OnRetry, FollowerSkips,
                                        Finish, LeaderWrites, LeaderWriteError, electVars
<1>5. WatcherTypes' BY <1>1, <1>4 DEF Types, WatcherTypes
<1>6. LoopTypes' /\ FlagTypes'
  <2>1. CASE OnSyncNeeded \/ OnRetry
    <3>1. Begin /\ UNCHANGED <<lastStatus, written>> /\ retry' \in BOOLEAN /\ syncNeeded' \in BOOLEAN
      BY <2>1, ZenonT(30) DEF OnSyncNeeded, OnRetry, Types, FlagTypes
    <3> QED BY <3>1, BeginTypes DEF FlagTypes
  <2>2. CASE FollowerSkips
    BY <2>2, ZenonT(30) DEF FollowerSkips, Types, LoopTypes, FlagTypes
  <2>3. CASE Finish
    <3>1. /\ local'.todo = {} /\ local'.value = NoneWritten /\ local'.err = FALSE
          /\ local'.base = [r \in Resources |-> NoneWritten]
          /\ local' = [todo |-> local'.todo, value |-> local'.value, base |-> local'.base,
                       epoch |-> local'.epoch, err |-> local'.err]
      BY <2>3, ZenonT(30) DEF Finish, Idle
    <3>2. LoopTypes' BY <2>3, <3>1, StatusTyped, ZenonT(30) DEF Finish, Types, LoopTypes
    <3>3. FlagTypes' BY <2>3, <3>1, ZenonT(30) DEF Finish, Types, FlagTypes
    <3> QED BY <3>2, <3>3
  <2>4. ASSUME NEW r \in Resources, LeaderWrites(r) \/ SetAction(r) \/ LeaderWriteError(r)
        PROVE  LoopTypes' /\ FlagTypes'
    <3>1. /\ local' = [todo |-> local'.todo, value |-> local'.value, base |-> local'.base,
                       epoch |-> local'.epoch, err |-> local'.err]
          /\ local'.todo = local.todo \ {r} /\ local'.value = local.value
          /\ local'.base = local.base
      BY <2>4, ZenonT(30) DEF LeaderWrites, SetAction, LeaderWriteError, Types, LoopTypes
    <3>2. local'.err = local.err \/ local'.err = TRUE
      BY <2>4, ZenonT(30) DEF LeaderWrites, SetAction, LeaderWriteError, Types, LoopTypes
    <3>3. FlagTypes'
      BY <2>4, <3>2, ZenonT(30) DEF LeaderWrites, SetAction, LeaderWriteError, Types,
                                    FlagTypes
    <3>4. written' \in [Resources -> StatusValues]
      BY <2>4, ZenonT(30) DEF LeaderWrites, WriteReports, SetAction, LeaderWriteError, Types,
                              LoopTypes
    <3>5. DOMAIN lastStatus' \in SUBSET Resources /\ lastStatus' \in [DOMAIN lastStatus' -> StatusValues]
      <4>1. CASE lastStatus' = lastStatus BY <4>1, ZenonT(30) DEF Types, LoopTypes
      <4>2. CASE lastStatus' = [x \in DOMAIN lastStatus \cup {r} |->
                                 IF x = r THEN local.value ELSE lastStatus[x]]
        <5>1. DOMAIN lastStatus' = DOMAIN lastStatus \cup {r} BY <4>2
        <5> QED BY <4>2, <5>1, ZenonT(30) DEF Types, LoopTypes
      <4> QED BY <2>4, <4>1, <4>2, ZenonT(30) DEF LeaderWrites, SetAction, LeaderWriteError
    <3>6. spc' \in {"wait", "write", "follower"}
      BY <2>4, ZenonT(30) DEF LeaderWrites, SetAction, LeaderWriteError, Types, LoopTypes
    <3>7. LoopTypes' BY <3>1, <3>4, <3>5, <3>6, ZenonT(30) DEF Types, LoopTypes
    <3> QED BY <3>3, <3>7
  <2> QED BY <2>1, <2>2, <2>3, <2>4 DEF StatusLoop
<1> QED BY <1>3, <1>5, <1>6 DEF Types

\* Every step keeps the types.
LEMMA NextTypes == Types /\ [Next]_vars => Types'
<1> SUFFICES ASSUME Types, [Next]_vars PROVE Types'
  OBVIOUS
<1>1. CASE UNCHANGED vars
  <2>1. MainTypes' BY <1>1, ZenonT(30) DEF vars, mainVars, sharedVars, Types, MainTypes
  <2>2. LoopTypes' BY <1>1, ZenonT(30) DEF vars, loopVars, Types, LoopTypes
  <2>3. FlagTypes' BY <1>1 DEF vars, loopVars, Types, FlagTypes
  <2>4. WatcherTypes' BY <1>1, ZenonT(30) DEF vars, electVars, Types, WatcherTypes
  <2> QED BY <2>1, <2>2, <2>3, <2>4 DEF Types
<1> QED BY <1>1, MainStep, WatcherStep, LoopStep DEF Next

\* Statuses are what reports and verdicts on current proxies make them, in
\* every goroutine that hands them on.
THEOREM TypeCorrect == Spec => []TypeOK
<1>1. Types => TypeOK
  BY ZenonT(30) DEF Types, MainTypes, LoopTypes, FlagTypes, WatcherTypes, TypeOK
<1> QED BY <1>1, InitTypes, NextTypes, PTL DEF Spec

\* No status is written by a follower, the startup action included.
THEOREM LeaderWritesOnly == Spec => OnlyLeaderWrites
<1>1. Types /\ [Next]_vars => [written' # written => wasElected]_vars
  <2> SUFFICES ASSUME Types, Next, written' # written PROVE wasElected
    BY DEF vars
  <2>1. CASE \E ok \in BOOLEAN : PerformAction(ok)
    BY <2>1, ZenonT(30) DEF PerformAction, Types, WatcherTypes
  <2>2. CASE \E r \in Resources : LeaderWrites(r) BY <2>2 DEF LeaderWrites
  <2> QED
    BY <2>1, <2>2, ZenonT(30) DEF Next, Main, TakeSnapshot, GatewaySync, GatewaySyncError,
                                  ListProxiesError, UpdateStatusForAllProxies,
                                  UpdateStatusError, GlooWriteReports, StatusLoop,
                                  OnSyncNeeded, OnRetry, FollowerSkips, Finish, SetAction,
                                  LeaderWriteError, Elect, Watcher, GetAction
<1> QED BY <1>1, InitTypes, NextTypes, PTL DEF Spec, OnlyLeaderWrites

-----------------------------------------------------------------------------
\* In the round of a covered status loop what is still to be written is in the
\* cluster as the loop believes it is, and the rest is written or will be
\* retried; unless the loop is told to start again.
RoundInv ==
  /\ covered => wpc = "done" /\ spc # "follower"
  /\ covered /\ spc = "write" /\ ~syncNeeded =>
       /\ local.value = Status
       /\ \A r \in Reported :
            IF r \in local.todo THEN local.base[r] = written[r]
            ELSE local.err \/ written[r] = local.value
  /\ covered /\ spc = "wait" /\ ~syncNeeded /\ ~retry => UpToDate

\* A sync that changes what statuses are computed from tells the status loop;
\* other steps of the translation loop change none of it.
LEMMA MainRound ==
  ASSUME Types, RoundInv, Main \/ \E p \in Proxies : GlooWriteReports(p)
  PROVE  RoundInv'
<1>1. UNCHANGED <<retry, spc, local, covered, wpc, written>>
  BY ZenonT(30) DEF Main, TakeSnapshot, GatewaySync, GatewaySyncError, ListProxiesError,
                    UpdateStatusForAllProxies, UpdateStatusError, GlooWriteReports, loopVars,
                    electVars
<1>2. syncNeeded' = TRUE \/ UNCHANGED <<syncNeeded, reports, statuses, current>>
  BY ZenonT(30) DEF Main, TakeSnapshot, GatewaySync, GatewaySyncError, ListProxiesError,
                    UpdateStatusForAllProxies, UpdateStatusError, GlooWriteReports, sharedVars
<1>3. CASE syncNeeded' = TRUE BY <1>1, <1>3, ZenonT(30) DEF RoundInv
<1>4. CASE UNCHANGED <<syncNeeded, reports, statuses, current>>
  <2>1. Status' = Status /\ Reported' = Reported BY <1>4, ZenonT(30) DEF Status, Reported
  <2>2. UpToDate' <=> UpToDate BY <1>1, <2>1 DEF UpToDate
  <2> QED BY <1>1, <1>4, <2>1, <2>2, ZenonT(30) DEF RoundInv
<1> QED BY <1>2, <1>3, <1>4, ZenonT(30)

\* The startup action runs before any covered round.
LEMMA WatcherRound ==
  ASSUME Types, RoundInv, Elect \/ Watcher
  PROVE  RoundInv'
<1>1. UNCHANGED <<retry, spc, local, covered, syncNeeded, reports, statuses, current>>
  BY ZenonT(30) DEF Elect, Watcher, GetAction, PerformAction, loopVars, sharedVars
<1>2. Status' = Status /\ Reported' = Reported BY <1>1, ZenonT(30) DEF Status, Reported
<1>3. covered => wpc' = "done" /\ written' = written
  BY ZenonT(30) DEF RoundInv, Elect, Watcher, GetAction, PerformAction
<1> QED BY <1>1, <1>2, <1>3 DEF RoundInv, UpToDate

\* The status loop, step by step.
LEMMA LoopRound ==
  ASSUME Types, RoundInv, StatusLoop \/ \E r \in Resources : LeaderWriteError(r)
  PROVE  RoundInv'
<1>1. UNCHANGED <<reports, statuses, current, wpc>>
  BY ZenonT(30) DEF StatusLoop, OnSyncNeeded, OnRetry, FollowerSkips, Finish, LeaderWrites,
                    SetAction, LeaderWriteError, electVars, sharedVars
<1>2. Status' = Status /\ Reported' = Reported /\ Reported \subseteq Resources
  BY <1>1, ZenonT(30) DEF Status, Reported
<1>3. CASE OnSyncNeeded \/ OnRetry
  <2>1. Begin /\ UNCHANGED written BY <1>3, ZenonT(30) DEF OnSyncNeeded, OnRetry
  <2>2. /\ spc' = "write" /\ local'.todo = Reported /\ local'.value = Status
        /\ covered' => wpc = "done" /\ \A r \in Reported : local'.base[r] = written[r]
    BY <2>1, ZenonT(30) DEF Begin
  <2> QED BY <1>1, <1>2, <2>1, <2>2, ZenonT(30) DEF RoundInv
<1>4. CASE FollowerSkips
  <2>1. ~covered' BY <1>4, ZenonT(30) DEF FollowerSkips, RoundInv, Types, WatcherTypes
  <2> QED BY <2>1, ZenonT(30) DEF RoundInv
<1>5. CASE \E r \in Resources : SetAction(r)
  <2>1. ~covered' BY <1>5 DEF SetAction, RoundInv
  <2> QED BY <2>1 DEF RoundInv
<1>6. CASE Finish
  <2>1. /\ spc = "write" /\ spc' = "wait" /\ local.todo = {} /\ retry' = local.err
        /\ UNCHANGED <<covered, syncNeeded, written>>
    BY <1>6, ZenonT(30) DEF Finish
  <2>2. covered /\ ~syncNeeded /\ ~local.err => UpToDate
    BY <2>1, ZenonT(30) DEF RoundInv, UpToDate
  <2>3. UpToDate' <=> UpToDate BY <1>2, <2>1, ZenonT(30) DEF UpToDate
  <2>4. covered' /\ ~syncNeeded' /\ ~retry' => UpToDate' BY <2>1, <2>2, <2>3, ZenonT(30)
  <2> QED BY <1>1, <2>1, <2>4, ZenonT(30) DEF RoundInv
<1>7. ASSUME NEW r \in Resources, LeaderWrites(r) \/ LeaderWriteError(r)
      PROVE  RoundInv'
  <2>1. /\ spc = "write" /\ spc' = "write" /\ r \in local.todo
        /\ UNCHANGED <<covered, syncNeeded>>
    BY <1>7, ZenonT(30) DEF LeaderWrites, LeaderWriteError
  <2>2. /\ local'.todo = local.todo \ {r} /\ local'.value = local.value
        /\ local'.base = local.base
    BY <1>7, ZenonT(30) DEF LeaderWrites, LeaderWriteError, Types, LoopTypes
  <2>3. \A x \in Resources : x # r => written'[x] = written[x]
    BY <1>7, ZenonT(30) DEF LeaderWrites, LeaderWriteError, WriteReports, Types, LoopTypes
  <2>4. local'.err \/ (local'.err = local.err /\ (local.base[r] = written[r] => written'[r] = local.value))
    BY <1>7, ZenonT(30) DEF LeaderWrites, LeaderWriteError, WriteReports, Types, LoopTypes
  <2>5. local.err => local'.err BY <2>4, ZenonT(30)
  <2> SUFFICES ASSUME covered, ~syncNeeded, NEW x \in Reported
               PROVE  /\ local'.value = Status
                      /\ IF x \in local'.todo THEN local'.base[x] = written'[x]
                         ELSE local'.err \/ written'[x] = local'.value
    BY <1>1, <1>2, <2>1, <2>2, ZenonT(30) DEF RoundInv
  <2> QED BY <1>2, <2>1, <2>2, <2>3, <2>4, <2>5 DEF RoundInv
<1> QED BY <1>3, <1>4, <1>5, <1>6, <1>7 DEF StatusLoop

\* A quiet status loop whose last round was covered has written everything.
THEOREM SettledCorrect == Spec => []StatusesSettled
<1> DEFINE Inv == Types /\ RoundInv
<1>1. Init => Inv
  <2>1. Init => RoundInv BY ZenonT(30) DEF Init, RoundInv
  <2> QED BY <2>1, InitTypes
<1>2. Inv /\ [Next]_vars => Inv'
  <2> SUFFICES ASSUME Types, RoundInv, [Next]_vars PROVE RoundInv'
    BY NextTypes
  <2>1. CASE UNCHANGED vars
    <3>1. Status' = Status /\ Reported' = Reported
      BY <2>1, ZenonT(30) DEF vars, sharedVars, Status, Reported
    <3> QED BY <2>1, <3>1, ZenonT(30) DEF vars, loopVars, electVars, RoundInv, UpToDate
  <2> QED BY <2>1, MainRound, WatcherRound, LoopRound, ZenonT(30) DEF Next
<1>3. Inv => StatusesSettled BY ZenonT(30) DEF RoundInv, StatusesSettled, Quiet
<1> QED BY <1>1, <1>2, <1>3, PTL DEF Spec

-----------------------------------------------------------------------------
\* LeaderElection for any replicas, any settings and any number of terms: its
\* types, and that a replica leads only with the lease until it first lost
\* leadership.

\* What late callbacks can rely on in the first term of a replica.  The lease
\* is with an elector that leads.  The Identity has channel 0.  A channel is
\* closed, or an OnStartedLeading under way, only after the lease was acquired;
\* with recovery the elector leaves that term with a new channel, without it
\* the process ends.
FirstTerm ==
  \A r \in Replicas :
    /\ pc[r] = "leading" => holder = r
    /\ elected[r] = 0 /\ pc[r] # "dead" /\ (starting[r] > 0 \/ closed[r] # {}) =>
         pc[r] \in {"leading", "stopping", "returned"}
    /\ r \in Recover /\ pc[r] = "returned" => elected[r] > 0

LeaderIInv == LeaderTypeOK /\ FirstTerm

\* The replicas start outside of any term.
LEMMA LeaderFirst == LeaderInit => LeaderIInv
BY ReplicaAssumption, RecoverAssumption, SMTT(20)
DEF LeaderInit, LeaderIInv, LeaderTypeOK, FirstTerm

\* Steps of the lease keep the types and the facts about the first term.
LEMMA LeaseSteps ==
  ASSUME LeaderIInv, NEW r \in Replicas,
         Acquire(r) \/ Observe(r) \/ RenewFails(r) \/ LeaseExpires
  PROVE  LeaderIInv'
<1> USE ReplicaAssumption, RecoverAssumption DEF LeaderIInv, LeaderTypeOK, FirstTerm
<1>1. CASE Acquire(r) BY <1>1 DEF Acquire, Report
<1>2. CASE Observe(r) BY <1>2 DEF Observe, Report
<1>3. CASE RenewFails(r) BY <1>3, ZenonT(30) DEF RenewFails
<1>4. CASE LeaseExpires BY <1>4, ZenonT(30) DEF LeaseExpires
<1> QED BY <1>1, <1>2, <1>3, <1>4, ZenonT(30)

\* So do the callbacks of the elector, however late they are.
LEMMA CallbackSteps ==
  ASSUME LeaderIInv, NEW r \in Replicas, Callbacks(r)
  PROVE  LeaderIInv'
<1> USE ReplicaAssumption, RecoverAssumption DEF LeaderIInv, LeaderTypeOK, FirstTerm
<1>1. CASE OnStartedLeading(r)
  <2>1. CASE elected[r] \in closed[r] BY <1>1, <2>1 DEF OnStartedLeading, Exit
  <2>2. CASE elected[r] \notin closed[r] BY <1>1, <2>2, SMTT(20) DEF OnStartedLeading
  <2> QED BY <2>1, <2>2, ZenonT(30)
<1>2. CASE OnStoppedLeading(r)
  <2>1. CASE r \in Recover
    <3>1. dying' \in [Replicas -> SUBSET Nat] BY <1>2, <2>1 DEF OnStoppedLeading
    <3>2. /\ elected' \in [Replicas -> Nat] /\ dontDie' \in [Replicas -> Nat]
          /\ \A q \in Replicas \ Recover : elected'[q] = 0
      BY <1>2, <2>1 DEF OnStoppedLeading
    <3>3. LeaderTypeOK' BY <1>2, <2>1, <3>1, <3>2, ZenonT(30) DEF OnStoppedLeading, Reset
    <3>4. FirstTerm' BY <1>2, <2>1, <3>2 DEF OnStoppedLeading
    <3> QED BY <3>3, <3>4, ZenonT(30)
  <2>2. CASE r \notin Recover BY <1>2, <2>2, ZenonT(30) DEF OnStoppedLeading
  <2> QED BY <2>1, <2>2, ZenonT(30)
<1>3. CASE RunReturns(r) BY <1>3 DEF RunReturns, Exit
<1>4. CASE OnNewLeader(r)
  <2>1. dying' \in [Replicas -> SUBSET Nat] /\ justFailed' \in [Replicas -> BOOLEAN]
    <3>1. CASE r \in Recover /\ justFailed[r]
      <4>1. dying' = [dying EXCEPT ![r] = @ \ {dontDie[r]}]
        BY <1>4, <3>1, ZenonT(30) DEF OnNewLeader
      <4>2. dying[r] \ {dontDie[r]} \in SUBSET Nat BY ZenonT(30)
      <4>3. justFailed' = [justFailed EXCEPT ![r] = FALSE]
        BY <1>4, <3>1, ZenonT(30) DEF OnNewLeader
      <4>4. justFailed' \in [Replicas -> BOOLEAN] BY <4>3, ZenonT(30)
      <4> QED BY <4>1, <4>2, <4>4, ZenonT(30)
    <3>2. CASE ~(r \in Recover /\ justFailed[r]) BY <1>4, <3>2, ZenonT(30) DEF OnNewLeader
    <3> QED BY <3>1, <3>2, ZenonT(30)
  <2>2. noticing' \in [Replicas -> Nat] BY <1>4, SMTT(20) DEF OnNewLeader
  <2> QED BY <1>4, <2>1, <2>2, ZenonT(30) DEF OnNewLeader
<1> QED BY <1>1, <1>2, <1>3, <1>4, ZenonT(30) DEF Callbacks

\* So do the end of a process and the start of another.
LEMMA ProcessSteps ==
  ASSUME LeaderIInv, NEW r \in Replicas, DieIfUnrecoverable(r) \/ Restart(r)
  PROVE  LeaderIInv'
<1> USE ReplicaAssumption, RecoverAssumption DEF LeaderIInv, LeaderTypeOK, FirstTerm
<1>1. CASE DieIfUnrecoverable(r) BY <1>1, ZenonT(30) DEF DieIfUnrecoverable, Exit
<1>2. CASE Restart(r)
  <2>1. LeaderTypeOK' BY <1>2, ZenonT(30) DEF Restart
  <2>2. FirstTerm' BY <1>2 DEF Restart
  <2> QED BY <2>1, <2>2, ZenonT(30)
<1> QED BY <1>1, <1>2, ZenonT(30)

\* The invariant of the two theorems below.
LEMMA LeaderInductive == LeaderSpec => []LeaderIInv
<1>1. LeaderIInv /\ [LeaderNext]_leaderVars => LeaderIInv'
  <2> SUFFICES ASSUME LeaderIInv, [LeaderNext]_leaderVars PROVE LeaderIInv'
    OBVIOUS
  <2>1. CASE LeaseExpires
    <3>1. CASE Replicas = {}
      BY <2>1, <3>1, ReplicaAssumption, RecoverAssumption, ZenonT(30)
      DEF LeaseExpires, LeaderIInv, LeaderTypeOK, FirstTerm
    <3>2. CASE Replicas # {}
      BY <2>1, <3>2, LeaseSteps, ZenonT(30)
    <3> QED BY <3>1, <3>2
  <2>2. CASE UNCHANGED leaderVars
    BY <2>2, ZenonT(30) DEF leaderVars, LeaderIInv, LeaderTypeOK, FirstTerm
  <2> QED BY <2>1, <2>2, LeaseSteps, CallbackSteps, ProcessSteps, ZenonT(30) DEF LeaderNext
<1> QED BY <1>1, LeaderFirst, PTL DEF LeaderSpec

\* Type correctness: without recovery, too, no second channel is ever made.
THEOREM LeaderTypes == LeaderSpec => []LeaderTypeOK
BY LeaderInductive, PTL DEF LeaderIInv

\* Until its first loss of leadership a replica that believes it leads holds
\* the lease or is on the way out of its term.
THEOREM LeadersCorrect == LeaderSpec => []LeadersHoldLease
<1>1. LeaderIInv => LeadersHoldLease
  BY ZenonT(30) DEF LeaderIInv, FirstTerm, LeadersHoldLease, IsLeader
<1> QED BY <1>1, LeaderInductive, PTL

-----------------------------------------------------------------------------
\* UpstreamDiscovery for any plugins and any number of lists and failures: its
\* invariants, and that each of its steps is one of LatestValue.  The variables
\* it shares by name with those above are here those of StartUds.
CONSTANTS Plugins, MaxLists
VARIABLES newest, pending, resync, latestDesiredUpstreams, store, failed

U == INSTANCE UpstreamDiscovery

\* What UpstreamDiscovery assumes of its constants.
UdsAssumptions == MaxLists \in Nat /\ MaxErrors \in Nat /\ "nobody" \notin Plugins

\* A list is recorded before it is stored, and what is not pending is recorded.
Ordered ==
  \A p \in Plugins :
    /\ store[p] <= latestDesiredUpstreams[p] /\ latestDesiredUpstreams[p] <= newest[p]
    /\ pending[p] \/ latestDesiredUpstreams[p] = newest[p]

\* A recorded list that is not stored is the work of the Resync that runs, or,
\* when none runs, of a goroutine that waits for the lock, unless the Resync
\* that should have stored it failed.
Owed ==
  \A p \in Plugins :
    \/ store[p] = latestDesiredUpstreams[p]
    \/ IF resync = U!NoOne THEN failed \/ \E q \in Plugins : pc[q] = "resync"
                         ELSE p \in resync.todo

\* The goroutine inside Resync.
Resyncing ==
  \/ resync = U!NoOne
  \/ /\ resync \in [by : Plugins, todo : SUBSET Plugins]
     /\ pc[resync.by] = "resync"

UdsIInv == U!TypeOK /\ Ordered /\ Owed /\ Resyncing

\* Nothing is discovered, nothing recorded, nobody resyncs.
LEMMA UdsInit == ASSUME UdsAssumptions PROVE U!Init => UdsIInv
<1> SUFFICES ASSUME U!Init PROVE UdsIInv
  OBVIOUS
<1>1. resync.by \notin Plugins /\ resync.todo = {}
  BY ZenonT(30) DEF UdsAssumptions, U!Init, U!NoOne
<1>2. U!TypeOK
  <2>1. failed \in BOOLEAN /\ pending \in [Plugins -> BOOLEAN] BY ZenonT(30) DEF U!Init
  <2>2. 0 \in U!Versions /\ 0 \in 0..MaxErrors BY DEF UdsAssumptions, U!Versions
  <2> QED BY <1>1, <2>1, <2>2, ZenonT(30) DEF U!Init, U!TypeOK
<1>3. Ordered /\ Owed /\ Resyncing BY DEF U!Init, Ordered, Owed, Resyncing
<1> QED BY <1>2, <1>3 DEF UdsIInv

\* The steps of a plugin and of its goroutine outside of Resync.
LEMMA PluginSteps ==
  ASSUME UdsAssumptions, UdsIInv, NEW p \in Plugins,
         U!Discover(p) \/ U!Receive(p) \/ U!PluginError(p) \/ U!SendError(p)
  PROVE  UdsIInv'
<1>1. /\ \A q \in Plugins : /\ newest[q] \in Nat /\ latestDesiredUpstreams[q] \in Nat
                           /\ store[q] \in Nat
      /\ \A k \in U!Versions : k < MaxLists => k + 1 \in U!Versions
      /\ \A k \in 0..MaxErrors : k < MaxErrors => k + 1 \in 0..MaxErrors
  <2>1. MaxLists \in Nat /\ MaxErrors \in Nat BY ZenonT(30) DEF UdsAssumptions
  <2>2. U!Versions \subseteq Nat BY <2>1 DEF U!Versions
  <2>3. /\ \A k \in U!Versions : k < MaxLists => k + 1 \in U!Versions
        /\ \A k \in 0..MaxErrors : k < MaxErrors => k + 1 \in 0..MaxErrors
    BY <2>1 DEF U!Versions
  <2> QED BY <2>2, <2>3, ZenonT(30) DEF UdsIInv, U!TypeOK
<1>2. CASE U!Discover(p)
  <2>1. /\ newest' = [newest EXCEPT ![p] = newest[p] + 1] /\ newest'[p] = newest[p] + 1
        /\ newest'[p] \in U!Versions /\ pending' = [pending EXCEPT ![p] = TRUE]
        /\ UNCHANGED <<pc, resync, latestDesiredUpstreams, store, errors, failed>>
    BY <1>1, <1>2, ZenonT(30) DEF U!Discover, UdsIInv, U!TypeOK
  <2>2. U!TypeOK' BY <2>1, ZenonT(30) DEF UdsIInv, U!TypeOK
  <2>3. latestDesiredUpstreams[p] <= newest'[p]
    <3>1. latestDesiredUpstreams[p] <= newest[p] BY ZenonT(30) DEF UdsIInv, Ordered
    <3> QED BY <1>1, <2>1, <3>1
  <2>4. Ordered' BY <2>1, <2>3, ZenonT(30) DEF UdsIInv, U!TypeOK, Ordered
  <2>5. Owed' /\ Resyncing' BY <2>1, ZenonT(30) DEF UdsIInv, Owed, Resyncing
  <2> QED BY <2>2, <2>4, <2>5, ZenonT(30) DEF UdsIInv
<1>3. CASE U!Receive(p)
  <2>1. /\ resync = U!NoOne /\ resync.todo = {} /\ resync.by \notin Plugins
        /\ pending' = [pending EXCEPT ![p] = FALSE] /\ pc' = [pc EXCEPT ![p] = "resync"]
        /\ latestDesiredUpstreams' = [latestDesiredUpstreams EXCEPT ![p] = newest[p]]
        /\ UNCHANGED <<newest, resync, store, errors, failed>>
    BY <1>3, ZenonT(30) DEF U!Receive, U!NoOne, UdsAssumptions
  <2>2. U!TypeOK' BY <2>1, ZenonT(30) DEF UdsIInv, U!TypeOK
  <2>3. store[p] <= newest[p] /\ newest[p] <= newest[p]
    <3>1. store[p] <= latestDesiredUpstreams[p] /\ latestDesiredUpstreams[p] <= newest[p]
      BY ZenonT(30) DEF UdsIInv, Ordered
    <3> QED BY <1>1, <3>1
  <2>4. Ordered' BY <2>1, <2>3, ZenonT(30) DEF UdsIInv, U!TypeOK, Ordered
  <2>5. pc'[p] = "resync" BY <2>1, ZenonT(30) DEF UdsIInv, U!TypeOK
  <2>6. Owed' /\ Resyncing' BY <2>1, <2>5, ZenonT(30) DEF Owed, Resyncing, U!NoOne
  <2> QED BY <2>2, <2>4, <2>6, ZenonT(30) DEF UdsIInv
<1>4. CASE U!PluginError(p)
  <2>1. /\ pc[p] = "select" /\ pc' = [pc EXCEPT ![p] = "sendErr"] /\ errors' \in 0..MaxErrors
        /\ UNCHANGED <<newest, pending, resync, latestDesiredUpstreams, store, failed>>
    BY <1>1, <1>4, ZenonT(30) DEF U!PluginError, UdsIInv, U!TypeOK
  <2>2. \A q \in Plugins : pc[q] = "resync" => pc'[q] = "resync"
    BY <2>1, ZenonT(30) DEF UdsIInv, U!TypeOK
  <2>3. U!TypeOK' BY <2>1, <2>2, ZenonT(30) DEF UdsIInv, U!TypeOK
  <2>4. Ordered' BY <2>1, ZenonT(30) DEF UdsIInv, Ordered
  <2>5. Owed' /\ Resyncing' BY <2>1, <2>2, ZenonT(30) DEF UdsIInv, Owed, Resyncing
  <2> QED BY <2>3, <2>4, <2>5, ZenonT(30) DEF UdsIInv
<1>5. CASE U!SendError(p)
  BY <1>5, ZenonT(30) DEF U!SendError, UdsIInv, U!TypeOK, Ordered, Owed, Resyncing
<1> QED BY <1>2, <1>3, <1>4, <1>5, ZenonT(30)

\* The steps inside Resync.
LEMMA ResyncSteps ==
  ASSUME UdsAssumptions, UdsIInv, NEW p \in Plugins,
         U!BeginResync(p) \/ U!Reconcile(p) \/ U!ReconcileError(p) \/ U!ResyncDone
  PROVE  UdsIInv'
<1>1. resync # U!NoOne => /\ resync = [by |-> resync.by, todo |-> resync.todo]
                          /\ resync.by \in Plugins /\ pc[resync.by] = "resync"
  BY ZenonT(30) DEF UdsIInv, Resyncing
<1>2. U!NoOne.todo = {} /\ U!NoOne.by \notin Plugins
  BY ZenonT(30) DEF U!NoOne, UdsAssumptions
<1>3. CASE U!BeginResync(p)
  <2> DEFINE todo == {q \in Plugins : latestDesiredUpstreams[q] # 0}
  <2>1. /\ resync = U!NoOne /\ pc[p] = "resync" /\ resync' = [by |-> p, todo |-> todo]
        /\ UNCHANGED <<newest, pending, pc, latestDesiredUpstreams, store, errors, failed>>
    BY <1>3, ZenonT(30) DEF U!BeginResync
  <2>2. /\ resync'.by = p /\ resync'.todo = todo
        /\ resync' \in [by : Plugins, todo : SUBSET Plugins]
    BY <2>1, ZenonT(30)
  <2>3. U!TypeOK' /\ Resyncing' BY <2>1, <2>2, ZenonT(30) DEF UdsIInv, U!TypeOK, Resyncing
  <2>4. Ordered' BY <2>1, ZenonT(30) DEF UdsIInv, Ordered
  <2>5. ASSUME NEW q \in Plugins, store[q] # latestDesiredUpstreams[q] PROVE q \in todo
    <3>1. store[q] <= latestDesiredUpstreams[q] /\ store[q] \in U!Versions
      BY ZenonT(30) DEF UdsIInv, Ordered, U!TypeOK
    <3>2. latestDesiredUpstreams[q] # 0 BY <2>5, <3>1 DEF U!Versions, UdsAssumptions
    <3> QED BY <3>2
  <2>6. resync' # U!NoOne BY <1>2, <2>2, ZenonT(30)
  <2>7. Owed' BY <2>1, <2>2, <2>5, <2>6, ZenonT(30) DEF Owed
  <2> QED BY <2>3, <2>4, <2>7, ZenonT(30) DEF UdsIInv
<1>4. CASE U!Reconcile(p)
  <2>1. /\ p \in resync.todo /\ store' = [store EXCEPT ![p] = latestDesiredUpstreams[p]]
        /\ resync' = [resync EXCEPT !.todo = @ \ {p}]
        /\ UNCHANGED <<newest, pending, pc, latestDesiredUpstreams, errors, failed>>
    BY <1>4, ZenonT(30) DEF U!Reconcile
  <2>2. resync # U!NoOne BY <1>2, <2>1, ZenonT(30)
  <2>3. /\ resync' \in [by : Plugins, todo : SUBSET Plugins]
        /\ resync'.by = resync.by /\ resync'.todo = resync.todo \ {p}
    BY <2>1, <2>2 DEF UdsIInv, Resyncing
  <2>4. U!TypeOK' BY <1>1, <2>1, <2>2, <2>3, ZenonT(30) DEF UdsIInv, U!TypeOK
  <2>5. latestDesiredUpstreams[p] <= latestDesiredUpstreams[p]
    <3>1. latestDesiredUpstreams[p] \in U!Versions BY ZenonT(30) DEF UdsIInv, U!TypeOK
    <3> QED BY <3>1 DEF U!Versions
  <2>6. Ordered' BY <2>1, <2>5, ZenonT(30) DEF UdsIInv, U!TypeOK, Ordered
  <2>7. resync' # U!NoOne BY <1>1, <1>2, <2>2, <2>3, ZenonT(30)
  <2>8. Owed' BY <2>1, <2>2, <2>3, <2>7, ZenonT(30) DEF UdsIInv, U!TypeOK, Owed
  <2>9. Resyncing' BY <1>1, <2>1, <2>2, <2>3, ZenonT(30) DEF Resyncing
  <2> QED BY <2>4, <2>6, <2>8, <2>9, ZenonT(30) DEF UdsIInv
<1>5. CASE U!ReconcileError(p)
  <2>1. /\ p \in resync.todo /\ errors < MaxErrors /\ errors' = errors + 1 /\ failed'
        /\ pc' = [pc EXCEPT ![resync.by] = "sendErr"] /\ resync' = U!NoOne
        /\ UNCHANGED <<newest, pending, latestDesiredUpstreams, store>>
    BY <1>5, ZenonT(30) DEF U!ReconcileError
  <2>2. errors' \in 0..MaxErrors BY <2>1 DEF UdsAssumptions, UdsIInv, U!TypeOK
  <2>3. failed' \in BOOLEAN BY <1>5, ZenonT(30) DEF U!ReconcileError
  <2>4. U!TypeOK' BY <1>2, <2>1, <2>2, <2>3, ZenonT(30) DEF UdsIInv, U!TypeOK
  <2>5. Ordered' /\ Owed' /\ Resyncing'
    BY <2>1, ZenonT(30) DEF UdsIInv, Ordered, Owed, Resyncing
  <2> QED BY <2>4, <2>5, ZenonT(30) DEF UdsIInv
<1>6. CASE U!ResyncDone
  BY <1>1, <1>2, <1>6, ZenonT(30)
  DEF U!ResyncDone, UdsIInv, U!TypeOK, Ordered, Owed, Resyncing
<1> QED BY <1>3, <1>4, <1>5, <1>6, ZenonT(30)

\* Without plugins there is nothing to resync.
LEMMA UdsNext == ASSUME UdsAssumptions PROVE UdsIInv /\ [U!Next]_U!vars => UdsIInv'
<1> SUFFICES ASSUME UdsIInv, [U!Next]_U!vars PROVE UdsIInv'
  OBVIOUS
<1>1. CASE U!ResyncDone
  <2>1. PICK p \in Plugins : TRUE BY <1>1, ZenonT(30) DEF U!ResyncDone, UdsIInv, Resyncing
  <2> QED BY <1>1, <2>1, ResyncSteps
<1>2. CASE UNCHANGED U!vars
  BY <1>2, ZenonT(30) DEF U!vars, UdsIInv, U!TypeOK, Ordered, Owed, Resyncing
<1> QED BY <1>1, <1>2, PluginSteps, ResyncSteps, ZenonT(30) DEF U!Next, U!Work

\* The inductive invariant holds throughout.
LEMMA UdsInductive == ASSUME UdsAssumptions PROVE U!Spec => []UdsIInv
BY UdsInit, UdsNext, PTL DEF U!Spec

\* Type correctness: Resync handles only plugins that have delivered a list.
THEOREM UdsTypes == ASSUME UdsAssumptions PROVE U!Spec => []U!TypeOK
BY UdsInductive, PTL DEF UdsIInv

\* Whoever resynced last, the cluster has the newest lists once nothing is on
\* the way, unless the last Resync failed.
THEOREM UdsSettled == ASSUME UdsAssumptions PROVE U!Spec => []U!UpstreamsSettled
<1>1. UdsIInv => U!UpstreamsSettled
  <2> SUFFICES ASSUME UdsIInv, ~failed, \A p \in Plugins : pc[p] = "select" /\ ~pending[p]
               PROVE  store = newest
    BY ZenonT(30) DEF U!UpstreamsSettled
  <2>1. resync = U!NoOne BY ZenonT(30) DEF UdsIInv, Resyncing
  <2>2. \A p \in Plugins : store[p] = newest[p] BY <2>1, ZenonT(30) DEF UdsIInv, Ordered, Owed
  <2> QED BY <2>2 DEF UdsIInv, U!TypeOK
<1> QED BY <1>1, UdsInductive, PTL

\* The safety part of the refinement: the cluster gets the lists of a plugin in
\* the order they were discovered and never goes back, whichever goroutine was
\* overtaken between its two critical sections.
THEOREM StoresInOrder ==
  ASSUME UdsAssumptions
  PROVE  U!Spec => U!Stage!Init /\ [][U!Stage!Next]_<<newest, store>>
<1>1. U!Init => U!Stage!Init BY ZenonT(30) DEF U!Init, U!Stage!Init
<1>2. UdsIInv /\ [U!Next]_U!vars => [U!Stage!Next]_<<newest, store>>
  <2> SUFFICES ASSUME UdsIInv, [U!Next]_U!vars PROVE U!Stage!Next \/ UNCHANGED <<newest, store>>
    OBVIOUS
  <2> USE DEF U!Stage!Next, U!Stage!Write, U!Stage!Deliver, UdsIInv, U!TypeOK, Ordered, U!Versions
  <2>1. ASSUME NEW p \in Plugins, U!Discover(p) PROVE U!Stage!Next
    BY <2>1 DEF UdsAssumptions, U!Discover
  <2>2. ASSUME NEW p \in Plugins, U!Reconcile(p) PROVE U!Stage!Next
    BY <2>2, SMTT(20) DEF UdsAssumptions, U!Reconcile
  <2>3. CASE U!ResyncDone \/ UNCHANGED U!vars
    BY <2>3, ZenonT(30) DEF U!ResyncDone, U!vars
  <2>4. ASSUME NEW p \in Plugins, U!Receive(p) \/ U!BeginResync(p) \/ U!SendError(p)
                                    \/ U!ReconcileError(p) \/ U!PluginError(p)
        PROVE  UNCHANGED <<newest, store>>
    BY <2>4, ZenonT(30) DEF U!Receive, U!BeginResync, U!SendError, U!ReconcileError,
                            U!PluginError
  <2> HIDE DEF U!Stage!Next, U!Stage!Write, U!Stage!Deliver, UdsIInv, U!TypeOK, Ordered, U!Versions
  <2> QED BY <2>1, <2>2, <2>3, <2>4, ZenonT(30) DEF U!Next, U!Work
<1> QED BY <1>1, <1>2, UdsInductive, PTL DEF U!Spec
=============================================================================
