----------------------- MODULE EndpointDiscoveryProofs -----------------------
(***************************************************************************)
(* EndpointDiscovery for any plugins and any number of syncs, changes and  *)
(* errors: the lock, readiness, and what is stored when all is quiet; and  *)
(* EnvoySync, which serves the endpoints: what it publishes is consistent. *)
(***************************************************************************)
EXTENDS EndpointDiscovery, EnvoySync, FiniteSetTheorems, TLAPS

\* The lock is held by the goroutine that is inside the critical section; the
\* goroutines of a sync that has not begun are not there.
Locked ==
  /\ lock # Free => pc[lock] \in {"reconcile", "sendErr"}
  /\ \A w \in Workers : w[1] > sync => pc[w] = "off"

\* A goroutine that waits for the lock has a list of its own sync.
Carries == \A w \in Workers : pc[w] = "lock" => list[w][1] = w[1]

\* Outside of the critical section the cluster has what endpointsByEds has,
\* unless the last Reconcile failed.
Mirrored == lock = Free /\ ~failed => store = endpointsByEds

\* The newest list of a plugin that the current sync watches is on its way or
\* in endpointsByEds, unless an old goroutine has put its own list there.
OnItsWay ==
  \A e \in Plugins :
    sync > 0 /\ pc[<<sync, e>>] \notin {"off", "exited"} =>
      \/ pending[<<sync, e>>]
      \/ pc[<<sync, e>>] = "lock" /\ list[<<sync, e>>] = <<sync, version[e]>>
      \/ pc[<<sync, e>>] # "lock" /\ (e \in overtaken \/ endpointsByEds[e] = <<sync, version[e]>>)

\* An error that is being sent is that of the last Reconcile.
Faulty == \A w \in Workers : pc[w] = "sendErr" => failed

\* Readiness is signalled once every plugin has an entry, and entries stay.
Delivered ==
  (ready => \A e \in Plugins : endpointsByEds[e] # NoList) /\ ReadyMeansStored

IInv == TypeOK /\ Locked /\ Carries /\ Mirrored /\ OnItsWay /\ Faulty /\ Delivered

\* The marker of a free lock is not a goroutine.
LEMMA FreeIsFree == Free \notin Workers
BY EdsBoundsAssumption DEF Free, Workers, Syncs

\* The marker of no list is a list.
LEMMA NoListTyped == NoList \in Lists
BY EdsBoundsAssumption DEF NoList, Lists

\* Nothing has been received, nothing is stored.
LEMMA InitIInv == Init => IInv
<1> SUFFICES ASSUME Init PROVE IInv
  OBVIOUS
<1>1. NoList \in Lists /\ 0 \in 0..MaxSyncs /\ 0 \in 0..MaxChanges /\ 0 \in 0..MaxErrors
  BY EdsBoundsAssumption DEF NoList, Lists
<1>2. failed \in BOOLEAN /\ ready \in BOOLEAN BY ZenonT(30) DEF Init
<1>3. TypeOK BY <1>1, <1>2 DEF Init, TypeOK
<1>4. Locked /\ Carries /\ Mirrored /\ OnItsWay /\ Faulty /\ Delivered
  BY DEF Init, Locked, Carries, Mirrored, OnItsWay, Faulty, Delivered, ReadyMeansStored
<1> QED BY <1>3, <1>4 DEF IInv

\* Goroutines and their parts.
LEMMA WorkerPairs ==
  /\ \A s \in Syncs, e \in Plugins : <<s, e>> \in Workers
  /\ \A w \in Workers : w[1] \in Syncs /\ w[2] \in Plugins /\ w = <<w[1], w[2]>>
  /\ \A s, e : <<s, e>>[1] = s /\ <<s, e>>[2] = e
BY DEF Workers

\* The goroutines of the current sync.
LEMMA CurrentWorker ==
  ASSUME TypeOK, sync > 0, NEW x \in Plugins
  PROVE  <<sync, x>> \in Workers /\ <<sync, x>>[1] = sync
<1>1. sync \in Syncs
  <2>1. sync \in 0..MaxSyncs BY DEF TypeOK
  <2> QED BY <2>1, EdsBoundsAssumption DEF Syncs
<1> QED BY <1>1, WorkerPairs

\* A new sync, or a change of endpoints.
LEMMA SyncStep ==
  ASSUME IInv, NEW broken \in SUBSET Plugins, Sync(broken)
  PROVE  IInv'
<1>1. errors' \in 0..MaxErrors
  <2>1. Cardinality(broken) \in Nat BY EdsPluginsAssumption, FS_Subset, FS_CardinalityType
  <2> QED BY <2>1, EdsBoundsAssumption DEF Sync, IInv, TypeOK
<1>2. sync' = sync + 1 /\ sync' \in Syncs /\ sync' \in 0..MaxSyncs /\ sync \in Nat
  BY EdsBoundsAssumption DEF Sync, IInv, TypeOK, Syncs
<1>3. reader' \in [Syncs -> BOOLEAN] BY <1>2, ZenonT(30) DEF Sync, IInv, TypeOK
<1>4. pending' \in [Workers -> BOOLEAN]
  <2>1. \A w \in Workers : (pending[w] \/ (w[1] = sync' /\ w[2] \notin broken)) \in BOOLEAN
    OBVIOUS
  <2> QED BY <2>1, ZenonT(30) DEF Sync
<1>5. /\ pc' \in [Workers -> {"off", "select", "lock", "reconcile", "sendErr", "exited"}]
      /\ \A w \in Workers : pc'[w] \in {"reconcile", "sendErr"} => pc'[w] = pc[w]
  BY ZenonT(30) DEF Sync, IInv, TypeOK
<1>6. TypeOK'
  BY <1>1, <1>2, <1>3, <1>4, <1>5, ZenonT(30) DEF Sync, IInv, TypeOK
<1>7. Locked'
  <2>1. \A w \in Workers : pc[w] # "off" => w[1] # sync' /\ pc'[w] = pc[w]
    BY <1>2, WorkerPairs, EdsBoundsAssumption DEF Sync, IInv, Locked, Syncs
  <2>2. \A w \in Workers : w[1] > sync' => w[1] > sync /\ w[1] # sync'
    BY <1>2, WorkerPairs, EdsBoundsAssumption DEF Syncs
  <2> QED BY <2>1, <2>2, ZenonT(30) DEF Sync, IInv, TypeOK, Locked
<1>8. Carries' /\ Faulty' BY ZenonT(30) DEF Sync, IInv, TypeOK, Carries, Faulty
<1>9. Mirrored' BY ZenonT(30) DEF Sync, IInv, Mirrored
<1>10. OnItsWay'
  <2> SUFFICES ASSUME NEW e \in Plugins, pc'[<<sync', e>>] \notin {"off", "exited"}
               PROVE  pending'[<<sync', e>>]
    BY ZenonT(30) DEF OnItsWay
  <2>1. <<sync', e>> \in Workers /\ <<sync', e>>[1] = sync' /\ <<sync', e>>[2] = e
    BY <1>2, WorkerPairs
  <2>2. pc[<<sync', e>>] = "off" BY <1>2, <2>1, EdsBoundsAssumption DEF IInv, Locked, Syncs
  <2> QED BY <2>1, <2>2, ZenonT(30) DEF Sync
<1>11. Delivered' BY ZenonT(30) DEF Sync, IInv, Delivered, ReadyMeansStored
<1> QED BY <1>6, <1>7, <1>8, <1>9, <1>10, <1>11 DEF IInv

\* A plugin has a new list: it is pending.
LEMMA ChangeStep ==
  ASSUME IInv, NEW e \in Plugins, Change(e)
  PROVE  IInv'
<1>1. version' \in [Plugins -> 0..MaxChanges] BY EdsBoundsAssumption DEF Change, IInv, TypeOK
<1>2. pending' \in [Workers -> BOOLEAN] BY ZenonT(30) DEF Change, IInv, TypeOK
<1>3. TypeOK' BY <1>1, <1>2, ZenonT(30) DEF Change, IInv, TypeOK
<1>4. Locked' /\ Carries' /\ Mirrored' /\ Faulty' /\ Delivered'
  BY ZenonT(30) DEF Change, IInv, Locked, Carries, Mirrored, Faulty, Delivered, ReadyMeansStored
<1>5. OnItsWay'
  <2> SUFFICES ASSUME NEW x \in Plugins, sync > 0, pc[<<sync, x>>] \notin {"off", "exited"}
               PROVE  \/ pending'[<<sync, x>>]
                      \/ pc[<<sync, x>>] = "lock" /\ list[<<sync, x>>] = <<sync, version'[x]>>
                      \/ /\ pc[<<sync, x>>] # "lock"
                         /\ x \in overtaken \/ endpointsByEds[x] = <<sync, version'[x]>>
    BY ZenonT(30) DEF Change, OnItsWay
  <2>1. <<sync, x>> \in Workers BY CurrentWorker, ZenonT(30) DEF IInv
  <2>2. CASE x = e
    <3>1. pending'[<<sync, x>>] = TRUE BY <2>1, <2>2, ZenonT(30) DEF Change
    <3> QED BY <3>1, ZenonT(30)
  <2>3. CASE x # e
    <3>1. version'[x] = version[x] BY <2>3, ZenonT(30) DEF Change, IInv, TypeOK
    <3>2. pending[<<sync, x>>] => pending'[<<sync, x>>] BY <2>1, ZenonT(30) DEF Change
    <3> QED BY <3>1, <3>2, ZenonT(30) DEF IInv, OnItsWay
  <2> QED BY <2>2, <2>3, ZenonT(30)
<1> QED BY <1>3, <1>4, <1>5 DEF IInv

\* The newest list of plugin x stays on its way when a step touches neither its
\* version, nor its pending list, nor its goroutine, nor its entry.
Same(x) ==
  /\ UNCHANGED <<sync, version>>
  /\ pending'[<<sync, x>>] = pending[<<sync, x>>]
  /\ pc'[<<sync, x>>] = pc[<<sync, x>>] /\ list'[<<sync, x>>] = list[<<sync, x>>]
  /\ x \in overtaken => x \in overtaken'
  /\ x \in overtaken' \/ endpointsByEds'[x] = endpointsByEds[x]

\* What is the same is still on its way.
LEMMA StaysOnItsWay ==
  ASSUME OnItsWay, NEW x \in Plugins, Same(x), sync > 0, pc'[<<sync, x>>] \notin {"off", "exited"}
  PROVE  \/ pending'[<<sync, x>>]
         \/ pc'[<<sync, x>>] = "lock" /\ list'[<<sync, x>>] = <<sync, version[x]>>
         \/ /\ pc'[<<sync, x>>] # "lock"
            /\ x \in overtaken' \/ endpointsByEds'[x] = <<sync, version[x]>>
BY ZenonT(30) DEF OnItsWay, Same

\* The steps of a goroutine outside of the critical section.
LEMMA ReceiveStep ==
  ASSUME IInv, NEW s \in Syncs, NEW e \in Plugins, Receive(s, e)
  PROVE  IInv'
<1> DEFINE w == <<s, e>>
<1>1. w \in Workers /\ w[1] = s /\ w[2] = e BY WorkerPairs
<1>2. <<s, version[e]>> \in Lists /\ <<s, version[e]>>[1] = s
  <2>1. version[e] \in 0..MaxChanges BY ZenonT(30) DEF IInv, TypeOK
  <2>2. s \in 0..MaxSyncs BY EdsBoundsAssumption DEF Syncs
  <2> QED BY <2>1, <2>2 DEF Lists
<1>3. /\ list' \in [Workers -> Lists] /\ pending' \in [Workers -> BOOLEAN]
      /\ pc' \in [Workers -> {"off", "select", "lock", "reconcile", "sendErr", "exited"}]
  BY <1>1, <1>2, ZenonT(30) DEF Receive, IInv, TypeOK
<1>4. \A v \in Workers : v # w => pc'[v] = pc[v] /\ list'[v] = list[v] /\ pending'[v] = pending[v]
  BY ZenonT(30) DEF Receive, IInv, TypeOK
<1>5. /\ pc[w] = "select" /\ pc'[w] = "lock" /\ list'[w] = <<s, version[e]>>
      /\ UNCHANGED <<sync, reader, lock, endpointsByEds, ready, store, version, errors, failed,
                     overtaken>>
  BY <1>1, ZenonT(30) DEF Receive, IInv, TypeOK
<1> HIDE DEF w
<1>6. TypeOK' BY <1>3, <1>4, <1>5, ZenonT(30) DEF IInv, TypeOK
<1>7. Locked' BY <1>1, <1>4, <1>5, FreeIsFree, ZenonT(30) DEF IInv, TypeOK, Locked
<1>8. Carries' /\ Faulty' BY <1>1, <1>2, <1>4, <1>5, ZenonT(30) DEF IInv, Carries, Faulty
<1>9. Mirrored' /\ Delivered'
  BY <1>5, ZenonT(30) DEF IInv, Mirrored, Delivered, ReadyMeansStored
<1>10. OnItsWay'
  <2> SUFFICES ASSUME NEW x \in Plugins, sync > 0, pc'[<<sync, x>>] \notin {"off", "exited"}
               PROVE  \/ pending'[<<sync, x>>]
                      \/ pc'[<<sync, x>>] = "lock" /\ list'[<<sync, x>>] = <<sync, version[x]>>
                      \/ /\ pc'[<<sync, x>>] # "lock"
                         /\ x \in overtaken' \/ endpointsByEds'[x] = <<sync, version[x]>>
    BY <1>5, ZenonT(30) DEF OnItsWay
  <2>1. <<sync, x>> \in Workers BY CurrentWorker, ZenonT(30) DEF IInv
  <2>2. CASE <<sync, x>> = w
    <3>1. sync = s /\ x = e BY <2>2, ZenonT(30) DEF w
    <3> QED BY <1>5, <2>2, <3>1, ZenonT(30)
  <2>3. CASE <<sync, x>> # w
    <3>1. Same(x) BY <1>4, <1>5, <2>1, <2>3, ZenonT(30) DEF Same
    <3> QED BY <3>1, StaysOnItsWay, ZenonT(30) DEF IInv
  <2> QED BY <2>2, <2>3, ZenonT(30)
<1> QED BY <1>6, <1>7, <1>8, <1>9, <1>10 DEF IInv

\* The steps outside the lock that move no list.
LEMMA OtherOutsideSteps ==
  ASSUME IInv, NEW s \in Syncs, NEW e \in Plugins,
         PluginError(s, e) \/ PluginCloses(s, e) \/ Exit(s, e) \/ ReaderExits(s)
  PROVE  IInv'
<1> DEFINE w == <<s, e>>
<1>1. w \in Workers /\ w[1] = s /\ w[2] = e BY WorkerPairs, ZenonT(30)
<1>2. /\ pc' \in [Workers -> {"off", "select", "lock", "reconcile", "sendErr", "exited"}]
      /\ pending' \in [Workers -> BOOLEAN]
      /\ \A v \in Workers : \/ pc'[v] = pc[v] /\ pending'[v] = pending[v]
                            \/ v = w /\ pc[v] = "select" /\ pc'[v] = "exited"
  BY <1>1, ZenonT(30) DEF PluginError, PluginCloses, Exit, ReaderExits, Cancelled, IInv, TypeOK
<1>3. reader' \in [Syncs -> BOOLEAN] /\ errors' \in 0..MaxErrors
  <2>1. reader' \in [Syncs -> BOOLEAN]
    BY ZenonT(30) DEF PluginError, PluginCloses, Exit, ReaderExits, IInv, TypeOK
  <2>2. errors' = errors \/ (errors' = errors + 1 /\ errors < MaxErrors)
    BY ZenonT(30) DEF PluginError, PluginCloses, Exit, ReaderExits
  <2>3. errors \in 0..MaxErrors BY ZenonT(30) DEF IInv, TypeOK
  <2> QED BY <2>1, <2>2, <2>3, EdsBoundsAssumption
<1>4. UNCHANGED <<sync, list, lock, endpointsByEds, ready, store, version, failed, overtaken>>
  BY ZenonT(30) DEF PluginError, PluginCloses, Exit, ReaderExits
<1> HIDE DEF w
<1>5. TypeOK' BY <1>2, <1>3, <1>4, ZenonT(30) DEF IInv, TypeOK
<1>6. Locked'
  <2>1. \A v \in Workers : v[1] > sync => pc'[v] = "off"
    BY <1>1, <1>2, EdsBoundsAssumption, ZenonT(30) DEF IInv, TypeOK, Locked, Syncs
  <2>2. lock # Free => pc'[lock] = pc[lock] BY <1>2, ZenonT(30) DEF IInv, TypeOK, Locked
  <2> QED BY <1>4, <2>1, <2>2, ZenonT(30) DEF IInv, Locked
<1>7. Carries' /\ Mirrored' /\ Faulty' /\ Delivered'
  BY <1>2, <1>4, ZenonT(30) DEF IInv, Carries, Mirrored, Faulty, Delivered, ReadyMeansStored
<1>8. OnItsWay'
  <2> SUFFICES ASSUME NEW x \in Plugins, sync > 0, pc'[<<sync, x>>] \notin {"off", "exited"}
               PROVE  \/ pending'[<<sync, x>>]
                      \/ pc'[<<sync, x>>] = "lock" /\ list'[<<sync, x>>] = <<sync, version[x]>>
                      \/ /\ pc'[<<sync, x>>] # "lock"
                         /\ x \in overtaken' \/ endpointsByEds'[x] = <<sync, version[x]>>
    BY <1>4, ZenonT(30) DEF OnItsWay
  <2>1. <<sync, x>> \in Workers /\ <<sync, x>>[1] = sync
    BY CurrentWorker, ZenonT(30) DEF IInv
  <2>2. Same(x) BY <1>2, <1>4, <2>1, ZenonT(30) DEF Same
  <2> QED BY <2>2, StaysOnItsWay, ZenonT(30) DEF IInv
<1> QED BY <1>5, <1>6, <1>7, <1>8, ZenonT(30) DEF IInv

\* A goroutine gets the lock.
LEMMA LockStep ==
  ASSUME IInv, NEW s \in Syncs, NEW e \in Plugins, Lock(s, e)
  PROVE  IInv'
<1> DEFINE w == <<s, e>>
<1>1. w \in Workers /\ w[1] = s /\ w[2] = e BY WorkerPairs
<1>2. /\ pc[w] = "lock" /\ pc'[w] = "reconcile" /\ lock = Free /\ lock' = w
      /\ pc' \in [Workers -> {"off", "select", "lock", "reconcile", "sendErr", "exited"}]
      /\ endpointsByEds' \in [Plugins -> Lists] /\ endpointsByEds'[e] = list[w]
  BY <1>1, ZenonT(30) DEF Lock, IInv, TypeOK
<1>3. /\ \A v \in Workers : v # w => pc'[v] = pc[v]
      /\ \A x \in Plugins : x # e => endpointsByEds'[x] = endpointsByEds[x]
  BY ZenonT(30) DEF Lock, IInv, TypeOK
<1>4. UNCHANGED <<sync, list, pending, reader, ready, store, version, errors, failed>>
  BY ZenonT(30) DEF Lock
<1>5. /\ overtaken' \in SUBSET Plugins
      /\ s < sync => overtaken' = overtaken \cup {e}
      /\ \A x \in Plugins : x # e => (x \in overtaken' <=> x \in overtaken)
  BY ZenonT(30) DEF Lock, Cancelled, IInv, TypeOK
<1> HIDE DEF w
<1>6. \A v \in Workers : pc'[v] \in {"reconcile", "sendErr"} => v = w
  BY <1>2, <1>3, FreeIsFree, ZenonT(30) DEF IInv, TypeOK
<1>7. TypeOK' BY <1>1, <1>2, <1>4, <1>5, <1>6, ZenonT(30) DEF IInv, TypeOK
<1>8. Locked' BY <1>1, <1>2, <1>3, <1>4, ZenonT(30) DEF IInv, Locked
<1>9. Carries' /\ Faulty' BY <1>2, <1>3, <1>4, ZenonT(30) DEF IInv, Carries, Faulty
<1>10. Mirrored' BY <1>1, <1>2, FreeIsFree, ZenonT(30) DEF Mirrored
<1>11. Delivered'
  <2>1. list[w][1] = s BY <1>1, <1>2, ZenonT(30) DEF IInv, Carries
  <2>2. list[w] # NoList BY <2>1, EdsBoundsAssumption, SMTT(20) DEF NoList, Syncs
  <2> QED BY <1>2, <1>3, <1>4, <2>2, ZenonT(30) DEF IInv, Delivered, ReadyMeansStored
<1>12. OnItsWay'
  <2> SUFFICES ASSUME NEW x \in Plugins, sync > 0, pc'[<<sync, x>>] \notin {"off", "exited"}
               PROVE  \/ pending'[<<sync, x>>]
                      \/ pc'[<<sync, x>>] = "lock" /\ list'[<<sync, x>>] = <<sync, version[x]>>
                      \/ /\ pc'[<<sync, x>>] # "lock"
                         /\ x \in overtaken' \/ endpointsByEds'[x] = <<sync, version[x]>>
    BY <1>4, ZenonT(30) DEF OnItsWay
  <2>1. <<sync, x>> \in Workers /\ <<sync, x>>[1] = sync
    BY CurrentWorker, ZenonT(30) DEF IInv
  <2>2. CASE <<sync, x>> = w
    <3>1. sync = s /\ x = e BY <2>2 DEF w
    <3>2. pending[w] \/ list[w] = <<sync, version[x]>>
      BY <1>2, <2>2, <3>1, ZenonT(30) DEF IInv, OnItsWay
    <3> QED BY <1>2, <1>4, <2>2, <3>1, <3>2, ZenonT(30)
  <2>3. CASE <<sync, x>> # w
    <3>1. x \in overtaken' \/ x # e
      <4>1. CASE x = e
        <5>1. s # sync BY <2>3, <4>1, ZenonT(30) DEF w
        <5>2. s < sync
          <6>1. pc[w] # "off" BY <1>2, ZenonT(30)
          <6>2. ~(s > sync) BY <1>1, <6>1, ZenonT(30) DEF IInv, Locked
          <6>3. sync \in 0..MaxSyncs BY ZenonT(30) DEF IInv, TypeOK
          <6> QED BY <5>1, <6>2, <6>3, EdsBoundsAssumption DEF Syncs
        <5> QED BY <1>5, <4>1, <5>2, ZenonT(30)
      <4> QED BY <4>1, ZenonT(30)
    <3>2. Same(x) BY <1>3, <1>4, <1>5, <2>1, <2>3, <3>1, ZenonT(30) DEF Same
    <3> QED BY <3>2, StaysOnItsWay DEF IInv
  <2> QED BY <2>2, <2>3
<1> QED BY <1>7, <1>8, <1>9, <1>10, <1>11, <1>12, ZenonT(30) DEF IInv

\* The critical section: Reconcile succeeds or fails, the error is sent.
LEMMA InsideSteps ==
  ASSUME IInv, NEW s \in Syncs, NEW e \in Plugins,
         \/ Reconcile(s, e) \/ SendError(s, e)
         \/ \E done \in SUBSET Plugins : ReconcileError(s, e, done)
  PROVE  IInv'
<1> DEFINE w == <<s, e>>
<1>1. w \in Workers /\ w[1] = s /\ w[2] = e BY WorkerPairs, ZenonT(30)
<1>2. /\ pc[w] \in {"reconcile", "sendErr"}
      /\ UNCHANGED <<sync, pending, reader, endpointsByEds, version, overtaken>>
  BY ZenonT(30) DEF Reconcile, SendError, ReconcileError
<1>3. /\ pc' \in [Workers -> {"off", "select", "lock", "reconcile", "sendErr", "exited"}]
      /\ \A v \in Workers : v # w => pc'[v] = pc[v] /\ list'[v] = list[v]
      /\ \/ pc'[w] = "select" /\ lock' = Free
         \/ pc'[w] = "sendErr" /\ lock' = lock /\ failed' = TRUE
  BY <1>1, ZenonT(30) DEF Reconcile, SendError, ReconcileError, Release, IInv, TypeOK
<1>4. lock = w BY <1>1, <1>2, ZenonT(30) DEF IInv, TypeOK
<1>5. store' \in [Plugins -> Lists] /\ list' \in [Workers -> Lists]
  BY NoListTyped, ZenonT(30) DEF Reconcile, SendError, ReconcileError, Release, IInv, TypeOK
<1>6. errors' \in 0..MaxErrors
  <2>1. errors' = errors \/ (errors' = errors + 1 /\ errors < MaxErrors)
    BY ZenonT(30) DEF Reconcile, SendError, ReconcileError
  <2>2. errors \in 0..MaxErrors BY ZenonT(30) DEF IInv, TypeOK
  <2> QED BY <2>1, <2>2, EdsBoundsAssumption
<1>7. failed' \in BOOLEAN /\ ready' \in BOOLEAN
  BY ZenonT(30) DEF Reconcile, SendError, ReconcileError, Release, IInv, TypeOK
<1>8. Delivered'
  <2>1. ready' => \A x \in Plugins : endpointsByEds'[x] # NoList
    BY <1>2, ZenonT(30) DEF Reconcile, SendError, ReconcileError, Release, IInv, Delivered
  <2>2. CASE Reconcile(s, e)
    BY <1>2, <2>1, <2>2, ZenonT(30) DEF Reconcile, Delivered, ReadyMeansStored
  <2>3. CASE SendError(s, e)
    <3>1. failed BY <1>1, <2>3, ZenonT(30) DEF SendError, IInv, Faulty
    <3> QED BY <2>1, <2>3, <3>1, ZenonT(30) DEF SendError, Delivered, ReadyMeansStored
  <2>4. CASE \E done \in SUBSET Plugins : ReconcileError(s, e, done)
    BY <2>1, <2>4, ZenonT(30) DEF ReconcileError, Delivered, ReadyMeansStored
  <2> QED BY <2>2, <2>3, <2>4, ZenonT(30)
<1>9. Mirrored'
  <2>1. CASE Reconcile(s, e) BY <2>1, ZenonT(30) DEF Reconcile, Mirrored
  <2>2. CASE SendError(s, e)
    <3>1. failed BY <2>2, <1>1, ZenonT(30) DEF SendError, IInv, Faulty
    <3> QED BY <2>2, <3>1 DEF SendError, Mirrored
  <2>3. CASE \E done \in SUBSET Plugins : ReconcileError(s, e, done)
    BY <2>3, ZenonT(30) DEF ReconcileError, Mirrored
  <2> QED BY <2>1, <2>2, <2>3, ZenonT(30)
<1> HIDE DEF w
<1>10. TypeOK'
  <2>1. \A v \in Workers : pc'[v] \in {"reconcile", "sendErr"} => lock' = v
    BY <1>1, <1>3, <1>4, ZenonT(30) DEF IInv, TypeOK
  <2>2. lock' \in Workers \cup {Free} BY <1>3, ZenonT(30) DEF IInv, TypeOK
  <2> QED BY <1>2, <1>3, <1>5, <1>6, <1>7, <2>1, <2>2, ZenonT(30) DEF IInv, TypeOK
<1>11. Locked'
  <2>1. \A v \in Workers : v[1] > sync => pc'[v] = "off"
    BY <1>2, <1>3, ZenonT(30) DEF IInv, Locked
  <2> QED BY <1>2, <1>3, <1>4, <2>1, ZenonT(30) DEF Locked
<1>12. Carries' BY <1>2, <1>3, ZenonT(30) DEF IInv, Carries
<1>13. OnItsWay'
  <2> SUFFICES ASSUME NEW x \in Plugins, sync > 0, pc'[<<sync, x>>] \notin {"off", "exited"}
               PROVE  \/ pending'[<<sync, x>>]
                      \/ pc'[<<sync, x>>] = "lock" /\ list'[<<sync, x>>] = <<sync, version[x]>>
                      \/ /\ pc'[<<sync, x>>] # "lock"
                         /\ x \in overtaken' \/ endpointsByEds'[x] = <<sync, version[x]>>
    BY <1>2, ZenonT(30) DEF OnItsWay
  <2>1. <<sync, x>> \in Workers /\ <<sync, x>>[1] = sync
    BY CurrentWorker, ZenonT(30) DEF IInv
  <2>2. CASE <<sync, x>> = w BY <1>2, <1>3, <2>2, ZenonT(30) DEF IInv, OnItsWay
  <2>3. CASE <<sync, x>> # w
    <3>1. Same(x) BY <1>2, <1>3, <2>1, <2>3, ZenonT(30) DEF Same
    <3> QED BY <3>1, StaysOnItsWay, ZenonT(30) DEF IInv
  <2> QED BY <2>2, <2>3, ZenonT(30)
<1>14. Faulty'
  <2> SUFFICES ASSUME NEW v \in Workers, pc'[v] = "sendErr" PROVE failed'
    BY ZenonT(30) DEF Faulty
  <2>1. v = w BY <1>3, <1>4, ZenonT(30) DEF IInv, TypeOK
  <2> QED BY <1>3, <2>1, ZenonT(30)
<1> QED BY <1>8, <1>9, <1>10, <1>11, <1>12, <1>13, <1>14, ZenonT(30) DEF IInv

-----------------------------------------------------------------------------
\* Every step keeps the inductive invariant ...
LEMMA NextIInv == IInv /\ [Next]_vars => IInv'
<1> SUFFICES ASSUME IInv, [Next]_vars PROVE IInv'
  OBVIOUS
<1>1. CASE \E s \in Syncs : ReaderExits(s)
  <2>1. CASE Plugins = {}
    <3>1. Workers = {} BY <2>1 DEF Workers
    <3>2. PICK s \in Syncs : ReaderExits(s) BY <1>1
    <3>3. reader' \in [Syncs -> BOOLEAN] BY <3>2, ZenonT(30) DEF ReaderExits, IInv, TypeOK
    <3>4. UNCHANGED <<sync, pc, list, pending, lock, endpointsByEds, ready, store, version,
                      errors, failed, overtaken>>
      BY <3>2, ZenonT(30) DEF ReaderExits
    <3> QED BY <3>3, <3>4, ZenonT(30) DEF IInv, TypeOK, Locked, Carries, Mirrored, OnItsWay,
                                          Faulty, Delivered, ReadyMeansStored
  <2>2. CASE Plugins # {} BY <1>1, <2>2, OtherOutsideSteps, ZenonT(30)
  <2> QED BY <2>1, <2>2, ZenonT(30)
<1>2. CASE \E s \in Syncs, e \in Plugins :
             \/ Worker(s, e) \/ PluginError(s, e) \/ PluginCloses(s, e)
             \/ \E done \in SUBSET Plugins : ReconcileError(s, e, done)
  BY <1>2, ReceiveStep, OtherOutsideSteps, LockStep, InsideSteps, ZenonT(30) DEF Worker
<1>3. CASE UNCHANGED vars
  BY <1>3, ZenonT(30) DEF vars, IInv, TypeOK, Locked, Carries, Mirrored, OnItsWay, Faulty,
                          Delivered, ReadyMeansStored
<1> QED BY <1>1, <1>2, <1>3, SyncStep, ChangeStep, ZenonT(30) DEF Next

\* ... so it holds throughout.
LEMMA Inductive == Spec => []IInv
BY InitIInv, NextIInv, PTL DEF Spec

\* Type correctness, and mutual exclusion: who reconciles, or sends the error
\* of it, holds the lock, across all syncs.
THEOREM TypeCorrect == Spec => []TypeOK
BY Inductive, PTL DEF IInv

\* Once readiness is signalled the cluster client has a list of every plugin, unless
\* the last Reconcile failed.
THEOREM ReadyCorrect == Spec => []ReadyMeansStored
BY Inductive, PTL DEF IInv, Delivered

\* When all is quiet the cluster has the newest endpoints of every plugin, but
\* for a failed Reconcile and the late goroutines of cancelled syncs.
THEOREM SettledCorrect == Spec => []EndpointsSettled
<1>1. IInv => EndpointsSettled
  <2> SUFFICES ASSUME IInv, Quiet, ~failed, NEW e \in Plugins,
                      pc[<<sync, e>>] = "select", e \notin overtaken
               PROVE  store[e] = <<sync, version[e]>>
    BY ZenonT(30) DEF EndpointsSettled
  <2>1. <<sync, e>> \in Workers BY CurrentWorker, ZenonT(30) DEF IInv, Quiet
  <2>2. ~pending[<<sync, e>>] BY <2>1, ZenonT(30) DEF Quiet
  <2>3. endpointsByEds[e] = <<sync, version[e]>> BY <2>2, ZenonT(30) DEF IInv, OnItsWay, Quiet
  <2>4. lock = Free BY ZenonT(30) DEF IInv, TypeOK, Locked, Quiet
  <2> QED BY <2>3, <2>4, ZenonT(30) DEF IInv, Mirrored
<1> QED BY <1>1, Inductive, PTL

-----------------------------------------------------------------------------
\* EnvoySync for any proxies, upstreams and listeners and any outcome of the
\* translator.

\* Every item is kept under its own name, as NewResources stores it.
OwnKeys(items) == SelfNames(items) \subseteq DOMAIN items

\* A snapshot is its four maps.
Maps(s) ==
  s = [clusters |-> s.clusters, listeners |-> s.listeners,
       endpoints |-> s.endpoints, routes |-> s.routes]

\* Adding placeholders and deleting what nobody references leaves exactly the
\* referenced keys.
LEMMA LinkedKeys ==
  ASSUME NEW refs, NEW items, OwnKeys(items)
  PROVE  (DOMAIN items \cup (refs \ SelfNames(items))) \cap refs = refs
BY ZenonT(30) DEF OwnKeys

\* MakeConsistent leaves exactly the endpoints the clusters reference and the
\* routes the listeners reference.
LEMMA KeysLinked ==
  ASSUME NEW s, Maps(s), OwnKeys(s.endpoints), OwnKeys(s.routes)
  PROVE  /\ DOMAIN MakeConsistent(s).endpoints = EndpointRefs(s)
         /\ DOMAIN MakeConsistent(s).routes = RouteRefs(s)
         /\ MakeConsistent(s).clusters = s.clusters
         /\ MakeConsistent(s).listeners = s.listeners
<1> DEFINE t == MakeConsistent(s)
<1>1. DOMAIN t.endpoints
        = (DOMAIN s.endpoints \cup (EndpointRefs(s) \ SelfNames(s.endpoints))) \cap EndpointRefs(s)
  BY DEF MakeConsistent, Linked, Maps
<1>2. DOMAIN t.routes
        = (DOMAIN s.routes \cup (RouteRefs(s) \ SelfNames(s.routes))) \cap RouteRefs(s)
  BY DEF MakeConsistent, Linked, Maps
<1>3. t.clusters = s.clusters /\ t.listeners = s.listeners
  BY DEF MakeConsistent, Maps
<1> QED
  BY <1>1, <1>2, <1>3, LinkedKeys, ZenonT(30)

\* A snapshot that MakeConsistent has been applied to passes Consistent.
THEOREM MakesConsistent ==
  ASSUME NEW s, Maps(s), OwnKeys(s.endpoints), OwnKeys(s.routes)
  PROVE  Consistent(MakeConsistent(s))
<1>1. EndpointRefs(MakeConsistent(s)) = EndpointRefs(s)
  BY KeysLinked, ZenonT(30) DEF EndpointRefs
<1>2. RouteRefs(MakeConsistent(s)) = RouteRefs(s)
  BY KeysLinked, ZenonT(30) DEF RouteRefs
<1> QED
  BY <1>1, <1>2, KeysLinked, ZenonT(30) DEF Consistent, Listed

-----------------------------------------------------------------------------
\* Items that are stored under their own names.
Named(items) == \A n \in DOMAIN items : items[n].name = n

\* Items that are kept under their own names have the names of their keys.
LEMMA NamedOwn ==
  ASSUME NEW items, Named(items) PROVE OwnKeys(items)
BY ZenonT(30) DEF Named, OwnKeys, SelfNames

\* A snapshot as the sanitizers pass it on, apart from the fallbacks.
Shape(s) ==
  /\ Maps(s) /\ Named(s.endpoints)
  /\ \A n \in DOMAIN s.routes : s.routes[n] = [name |-> n, dest |-> s.routes[n].dest]
  /\ DOMAIN s.clusters \subseteq Upstreams /\ DOMAIN s.listeners \subseteq AllListeners

\* A cluster references the endpoints of its upstream, which are there.
Backs(s, u) ==
  /\ s.clusters[u] = ServiceName(u)
  /\ u \in Eds => <<u>> \in DOMAIN s.endpoints /\ s.endpoints[<<u>>] = [name |-> <<u>>]
Backed(s) == \A u \in DOMAIN s.clusters : Backs(s, u)

\* Clusters and listeners of a snapshot that is served.
Typed(s) ==
  /\ DOMAIN s.clusters \subseteq Upstreams \cup {Fallback}
  /\ DOMAIN s.listeners \subseteq AllListeners \cup {Fallback}
  /\ Fallback \in DOMAIN s.clusters <=> Fallback \in DOMAIN s.listeners

NoDangling(s) == \A n \in DOMAIN s.routes : s.routes[n].dest \subseteq DOMAIN s.clusters

\* What is true of every snapshot that is served.
Good(s) ==
  /\ Typed(s)
  /\ Listed(EndpointRefs(s), s.endpoints)
  /\ ~replaceInvalidRoutes => Consistent(s)
  /\ replaceInvalidRoutes => NoDangling(s)

\* A route table has a name and destinations.
LEMMA RouteFields ==
  \A r, m, d : r = [name |-> m, dest |-> d] => r.name = m /\ r.dest = d
BY SMTT(20)

\* The translator gives its snapshots this shape.
LEMMA Translated ==
  ASSUME NEW k \in Proxies, NEW s \in Translations(k)
  PROVE  Shape(s) /\ Backed(s)
<1> PICK C \in SUBSET Upstreams, E \in SUBSET Eds, L \in SUBSET Listeners[k],
         dest \in UNION {[R -> Upstreams] : R \in SUBSET Listeners[k]} :
      s = Translation(C, E, L, dest)
  BY SMTT(20) DEF Translations
<1>1. /\ Maps(s) /\ DOMAIN s.clusters = C /\ DOMAIN s.listeners = L
      /\ DOMAIN s.listeners \subseteq AllListeners
  BY ZenonT(30) DEF Translation, Maps, AllListeners
<1>2. Named(s.endpoints) BY ZenonT(30) DEF Translation, Named
<1>3. \A n \in DOMAIN s.routes : s.routes[n] = [name |-> n, dest |-> {dest[n[1]]}]
  BY ZenonT(30) DEF Translation
<1>4. \A n \in DOMAIN s.routes : s.routes[n] = [name |-> n, dest |-> s.routes[n].dest]
  <2> SUFFICES ASSUME NEW n \in DOMAIN s.routes, NEW d, s.routes[n] = [name |-> n, dest |-> d]
               PROVE  s.routes[n] = [name |-> n, dest |-> s.routes[n].dest]
    BY <1>3, ZenonT(30)
  <2> QED BY SMTT(20)
<1>5. Backed(s)
  <2> SUFFICES ASSUME NEW u \in C
               PROVE  /\ s.clusters[u] = ServiceName(u)
                      /\ u \in Eds => /\ <<u>> \in DOMAIN s.endpoints
                                      /\ s.endpoints[<<u>>] = [name |-> <<u>>]
    BY <1>1, ZenonT(30) DEF Backed, Backs
  <2>1. s.clusters[u] = ServiceName(u) BY ZenonT(30) DEF Translation
  <2>2. ASSUME u \in Eds
        PROVE  <<u>> \in DOMAIN s.endpoints /\ s.endpoints[<<u>>] = [name |-> <<u>>]
    BY <2>2, ZenonT(30) DEF Translation
  <2> QED BY <2>1, <2>2, ZenonT(30)
<1> QED BY <1>1, <1>2, <1>4, <1>5, ZenonT(30) DEF Shape

\* Removing upstreams keeps it.
LEMMA Removed ==
  ASSUME NEW s, Shape(s), NEW errored
  PROVE  /\ Shape(RemoveUpstreams(s, errored))
         /\ RemoveUpstreams(s, errored).routes = s.routes
         /\ RemoveUpstreams(s, errored).listeners = s.listeners
         /\ RemoveUpstreams(s, errored).clusters = Without(s.clusters, errored \cap DOMAIN s.clusters)
         /\ RemoveUpstreams(s, errored).endpoints
              = Without(s.endpoints, {s.clusters[u] : u \in errored \cap DOMAIN s.clusters})
<1> DEFINE gone == errored \cap DOMAIN s.clusters
           lost == {s.clusters[u] : u \in gone}
<1> SUFFICES ASSUME NEW t, t = RemoveUpstreams(s, errored)
             PROVE  /\ Shape(t) /\ t.routes = s.routes /\ t.listeners = s.listeners
                    /\ t.clusters = Without(s.clusters, gone)
                    /\ t.endpoints = Without(s.endpoints, lost)
  BY ZenonT(30)
<1>1. t = [[s EXCEPT !.clusters = Without(s.clusters, gone)]
             EXCEPT !.endpoints = Without(s.endpoints, lost)]
  BY DEF RemoveUpstreams, Shape, Maps
<1> HIDE DEF lost, gone
<1>2. t = [clusters |-> Without(s.clusters, gone), listeners |-> s.listeners,
           endpoints |-> Without(s.endpoints, lost), routes |-> s.routes]
  BY <1>1, ZenonT(30) DEF Shape, Maps
<1>3. Maps(t) BY <1>2, ZenonT(30) DEF Maps
<1>4. /\ t.clusters = Without(s.clusters, gone) /\ t.endpoints = Without(s.endpoints, lost)
      /\ t.routes = s.routes /\ t.listeners = s.listeners
  BY <1>2, SMTT(20)
<1>5. Named(t.endpoints) BY <1>4, SMTT(20) DEF Shape, Named, Without
<1>6. DOMAIN t.clusters \subseteq Upstreams BY <1>4, ZenonT(30) DEF Shape, Without
<1> QED BY <1>3, <1>4, <1>5, <1>6, ZenonT(30) DEF Shape

\* Replacing routes leaves none that dangles, and inserts both fallbacks or
\* neither.
LEMMA Replaced ==
  ASSUME NEW s, Shape(s), NEW erroredRoutes, NEW t, t = ReplaceRoutes(s, erroredRoutes)
  PROVE  /\ Maps(t) /\ t.endpoints = s.endpoints /\ DOMAIN t.routes = DOMAIN s.routes
         /\ Named(t.routes) /\ Typed(t) /\ NoDangling(t)
         /\ \A n \in DOMAIN s.routes : ~Invalid(s, n, erroredRoutes) => t.routes[n] = s.routes[n]
         /\ \A u \in DOMAIN s.clusters : u \in DOMAIN t.clusters /\ t.clusters[u] = s.clusters[u]
<1> DEFINE bad == {n \in DOMAIN s.routes : Invalid(s, n, erroredRoutes)}
           routes == [n \in DOMAIN s.routes |->
             IF n \in bad THEN [s.routes[n] EXCEPT !.dest = {Fallback}] ELSE s.routes[n]]
           listeners == IF bad = {} THEN s.listeners ELSE With(s.listeners, Fallback, {})
           clusters == IF bad = {} THEN s.clusters ELSE With(s.clusters, Fallback, NoRef)
<1>1. t = [[[s EXCEPT !.routes = routes] EXCEPT !.listeners = listeners]
             EXCEPT !.clusters = clusters]
  BY ZenonT(30) DEF ReplaceRoutes, Shape, Maps
<1>2. \A n \in DOMAIN s.routes :
        routes[n] = IF n \in bad THEN [name |-> n, dest |-> {Fallback}] ELSE s.routes[n]
  <2> SUFFICES ASSUME NEW n \in DOMAIN s.routes, n \in bad
               PROVE  [s.routes[n] EXCEPT !.dest = {Fallback}] = [name |-> n, dest |-> {Fallback}]
    BY ZenonT(30)
  <2>1. PICK d : s.routes[n] = [name |-> n, dest |-> d] BY ZenonT(30) DEF Shape
  <2> QED BY <2>1, SMTT(20)
<1>3. DOMAIN routes = DOMAIN s.routes OBVIOUS
<1>4. \A n \in DOMAIN s.routes \ bad : s.routes[n].dest \subseteq DOMAIN s.clusters
  BY ZenonT(30) DEF Invalid
<1>5. /\ bad \subseteq DOMAIN s.routes
      /\ \A n \in DOMAIN s.routes : ~Invalid(s, n, erroredRoutes) => n \notin bad
  BY ZenonT(30)
<1> HIDE DEF routes
<1>6. \/ bad = {} /\ listeners = s.listeners /\ clusters = s.clusters
      \/ /\ DOMAIN clusters = DOMAIN s.clusters \cup {Fallback}
         /\ DOMAIN listeners = DOMAIN s.listeners \cup {Fallback}
  BY ZenonT(30) DEF With
<1>13. \A u \in DOMAIN s.clusters : u \in DOMAIN clusters /\ clusters[u] = s.clusters[u]
  <2>1. \A u \in DOMAIN s.clusters : u # Fallback BY EdsAssumption, ZenonT(30) DEF Shape
  <2> QED BY <2>1, ZenonT(30) DEF With
<1> HIDE DEF bad, listeners, clusters
<1>7. t = [clusters |-> clusters, listeners |-> listeners, endpoints |-> s.endpoints,
           routes |-> routes]
  BY <1>1, ZenonT(30) DEF Shape, Maps
<1>8. Maps(t) BY <1>7, ZenonT(30) DEF Maps
<1>9. Named(t.routes)
  <2> SUFFICES ASSUME NEW n \in DOMAIN s.routes PROVE routes[n].name = n
    BY <1>3, <1>7, SMTT(20) DEF Named
  <2>1. PICK d : s.routes[n] = [name |-> n, dest |-> d] BY ZenonT(30) DEF Shape
  <2>2. \E e : routes[n] = [name |-> n, dest |-> e] BY <1>2, <2>1, ZenonT(30)
  <2> QED BY <2>2, RouteFields, ZenonT(30)
<1>10. Typed(t)
  <2>1. t.clusters = clusters /\ t.listeners = listeners BY <1>7, SMTT(20)
  <2>2. Fallback \notin DOMAIN s.clusters /\ Fallback \notin DOMAIN s.listeners
    BY EdsAssumption, ZenonT(30) DEF Shape
  <2> QED BY <1>6, <2>1, <2>2, ZenonT(30) DEF Typed, Shape
<1>11. NoDangling(t)
  <2> SUFFICES ASSUME NEW n \in DOMAIN s.routes PROVE routes[n].dest \subseteq DOMAIN clusters
    BY <1>3, <1>7, SMTT(20) DEF NoDangling
  <2>1. CASE n \in bad
    <3>1. routes[n] = [name |-> n, dest |-> {Fallback}] BY <1>2, <2>1, ZenonT(30)
    <3>2. routes[n].dest = {Fallback} BY <3>1, SMTT(20)
    <3> QED BY <1>6, <2>1, <3>2, ZenonT(30)
  <2>2. CASE n \notin bad
    <3>1. routes[n] = s.routes[n] BY <1>2, <2>2, ZenonT(30)
    <3> QED BY <1>4, <1>6, <2>2, <3>1, ZenonT(30)
  <2> QED BY <2>1, <2>2, ZenonT(30)
<1>12. t.endpoints = s.endpoints /\ t.routes = routes /\ t.clusters = clusters
  BY <1>7, SMTT(20)
<1>14. \A n \in DOMAIN s.routes : ~Invalid(s, n, erroredRoutes) => t.routes[n] = s.routes[n]
  BY <1>2, <1>5, <1>12, ZenonT(30)
<1> QED BY <1>3, <1>8, <1>9, <1>10, <1>11, <1>12, <1>13, <1>14, ZenonT(30)

\* The fields of what MakeConsistent returns.
LEMMA ConsistentFields ==
  ASSUME NEW s, Maps(s), OwnKeys(s.endpoints), OwnKeys(s.routes), NEW c, c = MakeConsistent(s)
  PROVE  /\ Maps(c) /\ c.clusters = s.clusters /\ c.listeners = s.listeners
         /\ Listed(EndpointRefs(c), c.endpoints) /\ Consistent(c)
         /\ c.routes = Linked(RouteRefs(s), s.routes, RoutePlaceholders(s))
         /\ c.endpoints = Linked(EndpointRefs(s), s.endpoints, EndpointPlaceholders(s))
<1>1. c = [[s EXCEPT !.endpoints = Linked(EndpointRefs(s), s.endpoints, EndpointPlaceholders(s))]
             EXCEPT !.routes = Linked(RouteRefs(s), s.routes, RoutePlaceholders(s))]
  BY DEF MakeConsistent, Maps
<1>2. /\ Maps(c) /\ c.routes = Linked(RouteRefs(s), s.routes, RoutePlaceholders(s))
      /\ c.endpoints = Linked(EndpointRefs(s), s.endpoints, EndpointPlaceholders(s))
  BY <1>1, ZenonT(30) DEF Maps
<1> QED BY <1>2, KeysLinked, MakesConsistent, ZenonT(30) DEF Consistent

\* Placeholders lead nowhere.
LEMMA PlaceholdersLeadNowhere ==
  ASSUME NEW s, DOMAIN s.routes = {},
         NEW items, items = Linked(RouteRefs(s), s.routes, RoutePlaceholders(s))
  PROVE  \A n \in DOMAIN items : items[n].dest = {}
<1>1. SelfNames(s.routes) = {} BY ZenonT(30) DEF SelfNames
<1> SUFFICES ASSUME NEW n \in RouteRefs(s) PROVE items[n].dest = {}
  BY <1>1, ZenonT(30) DEF Linked
<1>2. items[n] = RoutePlaceholders(s)[n] BY <1>1, ZenonT(30) DEF Linked
<1>3. PICK m : RoutePlaceholders(s)[n] = [name |-> m, dest |-> {}]
  BY ZenonT(30) DEF RoutePlaceholders
<1>4. items[n] = [name |-> m, dest |-> {}] BY <1>2, <1>3, ZenonT(30)
<1> QED BY <1>4, RouteFields, ZenonT(30)

\* Without fallbacks a snapshot is typed.
LEMMA ShapeTyped ==
  ASSUME NEW s, Shape(s),
         NEW p, p.clusters = s.clusters, p.listeners = s.listeners
  PROVE  Typed(p)
BY EdsAssumption, ZenonT(30) DEF Shape, Typed

\* Whatever the translator returns and whatever had errors, what is published
\* is good.
LEMMA PublishedGood ==
  ASSUME NEW k \in Proxies, NEW s \in Translations(k), NEW errored, NEW erroredRoutes,
         replaceInvalidRoutes \in BOOLEAN, NEW p, p = Published(s, errored, erroredRoutes)
  PROVE  Good(p)
<1> DEFINE removed == RemoveUpstreams(s, errored)
<1>1. Shape(removed) /\ removed.routes = s.routes BY Translated, Removed, ZenonT(30)
<1>2. OwnKeys(removed.endpoints) /\ OwnKeys(removed.routes)
  <2>1. \A n \in DOMAIN removed.routes : removed.routes[n].name = n
    <3> HIDE DEF removed
    <3> TAKE n \in DOMAIN removed.routes
    <3>1. PICK d : removed.routes[n] = [name |-> n, dest |-> d] BY <1>1, ZenonT(30) DEF Shape
    <3> QED BY <3>1, SMTT(20)
  <2> QED BY <1>1, <2>1, ZenonT(30) DEF OwnKeys, SelfNames, Shape, Named
<1>3. CASE ~replaceInvalidRoutes
  <2>1. p = MakeConsistent(removed) BY <1>3 DEF Published, SanitizeSnapshot
  <2> HIDE DEF removed
  <2>2. /\ Consistent(p) /\ Listed(EndpointRefs(p), p.endpoints)
        /\ p.clusters = removed.clusters /\ p.listeners = removed.listeners
    <3>1. Maps(removed) BY <1>1, ZenonT(30) DEF Shape
    <3> QED BY <1>2, <2>1, <3>1, ConsistentFields, ZenonT(30)
  <2>3. Typed(p) BY <1>1, <2>2, ShapeTyped, ZenonT(30)
  <2> QED BY <1>3, <2>2, <2>3, ZenonT(30) DEF Good
<1>4. CASE replaceInvalidRoutes
  <2> DEFINE t == ReplaceRoutes(removed, erroredRoutes)
             c == MakeConsistent(t)
  <2>1. p = IF DOMAIN s.routes # {} THEN [c EXCEPT !.routes = t.routes] ELSE c
    BY <1>4 DEF Published, SanitizeSnapshot
  <2>2. /\ Maps(t) /\ t.endpoints = removed.endpoints /\ DOMAIN t.routes = DOMAIN s.routes
        /\ Named(t.routes) /\ Typed(t) /\ NoDangling(t)
    <3>1. t = ReplaceRoutes(removed, erroredRoutes) BY ZenonT(30)
    <3> HIDE DEF t, removed
    <3> QED BY <1>1, <3>1, Replaced, SMTT(20)
  <2> HIDE DEF t, removed
  <2>3. OwnKeys(t.endpoints) /\ OwnKeys(t.routes)
    BY <1>2, <2>2, SMTT(20) DEF OwnKeys, SelfNames, Named
  <2>4. /\ Maps(c) /\ c.clusters = t.clusters /\ c.listeners = t.listeners
        /\ Listed(EndpointRefs(c), c.endpoints)
        /\ c.routes = Linked(RouteRefs(t), t.routes, RoutePlaceholders(t))
    BY <2>2, <2>3, ConsistentFields, ZenonT(30)
  <2> HIDE DEF c
  <2>5. /\ p.clusters = t.clusters /\ p.listeners = t.listeners /\ p.endpoints = c.endpoints
        /\ p.routes = IF DOMAIN s.routes # {} THEN t.routes ELSE c.routes
    BY <2>1, <2>4, ZenonT(30) DEF Maps
  <2>6. Listed(EndpointRefs(p), p.endpoints) BY <2>4, <2>5, ZenonT(30) DEF EndpointRefs
  <2>7. Typed(p) BY <2>2, <2>5, ZenonT(30) DEF Typed
  <2>8. NoDangling(p)
    <3>1. CASE DOMAIN s.routes # {} BY <2>2, <2>5, <3>1, ZenonT(30) DEF NoDangling
    <3>2. CASE DOMAIN s.routes = {}
      <4>1. \A n \in DOMAIN c.routes : c.routes[n].dest = {}
        BY <2>2, <2>4, <3>2, PlaceholdersLeadNowhere, ZenonT(30)
      <4> QED BY <2>5, <3>2, <4>1, ZenonT(30) DEF NoDangling
    <3> QED BY <3>1, <3>2, ZenonT(30)
  <2> QED BY <1>4, <2>6, <2>7, <2>8, ZenonT(30) DEF Good
<1> QED BY <1>3, <1>4, ZenonT(30)

\* What is referenced and stored under its own name is not touched by MakeConsistent.
LEMMA LinkedKeeps ==
  ASSUME NEW refs, NEW items, NEW placeholders, NEW n \in refs, n \in DOMAIN items,
         items[n].name = n
  PROVE  /\ n \in DOMAIN Linked(refs, items, placeholders)
         /\ Linked(refs, items, placeholders)[n] = items[n]
<1>1. n \in SelfNames(items) BY ZenonT(30) DEF SelfNames
<1> QED BY <1>1, ZenonT(30) DEF Linked

\* A snapshot has what is healthy.
Has(p, h) ==
  /\ \A u \in h.clusters : u \in DOMAIN p.clusters /\ Backs(p, u)
  /\ \A r \in h.routes : r.name \in DOMAIN p.routes /\ p.routes[r.name] = r

\* Removing upstreams leaves the clusters without error and their endpoints.
LEMMA RemovedBacks ==
  ASSUME NEW s, Shape(s), Backed(s), NEW errored,
         NEW u \in DOMAIN s.clusters, u \notin errored,
         NEW t, t = RemoveUpstreams(s, errored)
  PROVE  u \in DOMAIN t.clusters /\ Backs(t, u)
<1> DEFINE gone == errored \cap DOMAIN s.clusters
           lost == {s.clusters[v] : v \in gone}
<1>1. t.clusters = Without(s.clusters, gone) /\ t.endpoints = Without(s.endpoints, lost)
  BY Removed, ZenonT(30)
<1>2. u \in DOMAIN t.clusters /\ t.clusters[u] = s.clusters[u]
  BY <1>1, ZenonT(30) DEF Without
<1>3. u \in Upstreams BY ZenonT(30) DEF Shape
<1>4. <<u>> \notin lost
  <2> SUFFICES ASSUME NEW v \in gone PROVE s.clusters[v] # <<u>> BY ZenonT(30)
  <2>1. s.clusters[v] = <<v>> \/ s.clusters[v] = NoRef
    BY ZenonT(30) DEF Backed, Backs, ServiceName
  <2>2. u # v BY ZenonT(30)
  <2>3. <<u>> # <<v>> BY <2>2
  <2> QED BY <1>3, <2>1, <2>3, EdsAssumption, ZenonT(30)
<1> HIDE DEF lost, gone
<1>5. ASSUME <<u>> \in DOMAIN s.endpoints
      PROVE  <<u>> \in DOMAIN t.endpoints /\ t.endpoints[<<u>>] = s.endpoints[<<u>>]
  BY <1>1, <1>4, <1>5, ZenonT(30) DEF Without
<1> QED BY <1>2, <1>5, ZenonT(30) DEF Backed, Backs

\* MakeConsistent leaves a cluster whose endpoints are there as it is.
LEMMA ConsistentBacks ==
  ASSUME NEW s, NEW u \in DOMAIN s.clusters, u \in Upstreams, Backs(s, u),
         NEW c, c.clusters = s.clusters,
         c.endpoints = Linked(EndpointRefs(s), s.endpoints, EndpointPlaceholders(s))
  PROVE  u \in DOMAIN c.clusters /\ Backs(c, u)
<1> SUFFICES ASSUME u \in Eds
             PROVE  <<u>> \in DOMAIN c.endpoints /\ c.endpoints[<<u>>] = [name |-> <<u>>]
  BY ZenonT(30) DEF Backs
<1>1. s.clusters[u] = <<u>> BY ZenonT(30) DEF Backs, ServiceName
<1>2. <<u>> \in EndpointRefs(s) BY <1>1, EdsAssumption, ZenonT(30) DEF EndpointRefs
<1>3. <<u>> \in DOMAIN s.endpoints /\ s.endpoints[<<u>>] = [name |-> <<u>>]
  BY ZenonT(30) DEF Backs
<1>4. s.endpoints[<<u>>].name = <<u>> BY <1>3, SMTT(20)
<1> DEFINE kept == Linked(EndpointRefs(s), s.endpoints, EndpointPlaceholders(s))
<1>5. <<u>> \in DOMAIN kept /\ kept[<<u>>] = s.endpoints[<<u>>]
  BY <1>2, <1>3, <1>4, LinkedKeeps
<1> QED BY <1>3, <1>5, ZenonT(30)

\* What had no error is published as it was translated.
LEMMA PublishedHealthy ==
  ASSUME NEW k \in Proxies, NEW s \in Translations(k), NEW errored, NEW erroredRoutes,
         replaceInvalidRoutes \in BOOLEAN, NEW p, p = Published(s, errored, erroredRoutes)
  PROVE  Has(p, Healthy(s, errored, erroredRoutes))
<1> DEFINE h == Healthy(s, errored, erroredRoutes)
           up == DOMAIN s.clusters \ errored
           sound == {m \in (DOMAIN s.routes \cap RouteRefs(s)) \ erroredRoutes :
                       s.routes[m].dest \subseteq up}
<1> SUFFICES ASSUME NEW removed, removed = RemoveUpstreams(s, errored) PROVE Has(p, h)
  OBVIOUS
<1>1. Shape(s) /\ Backed(s) BY Translated, ZenonT(30)
<1>2. /\ Shape(removed) /\ Maps(removed) /\ removed.routes = s.routes
      /\ removed.listeners = s.listeners
  <2>1. /\ Shape(removed) /\ removed.routes = s.routes /\ removed.listeners = s.listeners
    BY <1>1, Removed, ZenonT(30)
  <2> QED BY <2>1, ZenonT(30) DEF Shape
<1>3. \A u \in up : u \in Upstreams /\ u \in DOMAIN removed.clusters /\ Backs(removed, u)
  BY <1>1, RemovedBacks, ZenonT(30) DEF Shape
<1>4. h.clusters = up /\ h.routes = {s.routes[n] : n \in sound} BY ZenonT(30) DEF Healthy
<1>5. \A n \in DOMAIN s.routes : s.routes[n].name = n
  <2> TAKE n \in DOMAIN s.routes
  <2>1. PICK d : s.routes[n] = [name |-> n, dest |-> d] BY <1>1, ZenonT(30) DEF Shape
  <2> QED BY <2>1, RouteFields, ZenonT(30)
<1>6. OwnKeys(removed.endpoints) /\ OwnKeys(removed.routes)
  <2>1. Named(removed.routes) BY <1>2, <1>5, ZenonT(30) DEF Named
  <2>2. Named(removed.endpoints) BY <1>2, ZenonT(30) DEF Shape
  <2> QED BY <2>1, <2>2, NamedOwn, ZenonT(30)
<1>7. \A n \in sound : n \in DOMAIN s.routes /\ ~Invalid(removed, n, erroredRoutes)
  BY <1>2, <1>3, ZenonT(30) DEF Invalid
<1>8. \A n \in sound : n \in RouteRefs(removed) BY <1>2, ZenonT(30) DEF RouteRefs
<1> HIDE DEF h, up, sound
<1>9. ASSUME \A u \in up : u \in DOMAIN p.clusters /\ Backs(p, u),
             \A n \in sound : n \in DOMAIN p.routes /\ p.routes[n] = s.routes[n]
      PROVE  Has(p, h)
  <2>1. \A u \in h.clusters : u \in DOMAIN p.clusters /\ Backs(p, u)
    BY <1>4, <1>9, ZenonT(30)
  <2>2. ASSUME NEW r \in h.routes
        PROVE  r.name \in DOMAIN p.routes /\ p.routes[r.name] = r
    <3>1. PICK n \in sound : r = s.routes[n] BY <1>4, ZenonT(30)
    <3>2. r.name = n BY <1>5, <1>7, <3>1, ZenonT(30)
    <3> QED BY <1>9, <3>1, <3>2, ZenonT(30)
  <2> QED BY <2>1, <2>2, ZenonT(30) DEF Has
<1>10. CASE ~replaceInvalidRoutes
  <2>1. p = MakeConsistent(removed) BY <1>10 DEF Published, SanitizeSnapshot
  <2>2. /\ p.clusters = removed.clusters
        /\ p.routes = Linked(RouteRefs(removed), removed.routes, RoutePlaceholders(removed))
        /\ p.endpoints = Linked(EndpointRefs(removed), removed.endpoints,
                                EndpointPlaceholders(removed))
    BY <1>2, <1>6, <2>1, ConsistentFields, ZenonT(30)
  <2>3. \A u \in up : u \in DOMAIN p.clusters /\ Backs(p, u)
    BY <1>3, <2>2, ConsistentBacks, ZenonT(30)
  <2>4. \A n \in sound : n \in DOMAIN p.routes /\ p.routes[n] = s.routes[n]
    <3> TAKE n \in sound
    <3> DEFINE kept == Linked(RouteRefs(removed), removed.routes, RoutePlaceholders(removed))
    <3>1. /\ n \in RouteRefs(removed) /\ n \in DOMAIN removed.routes
          /\ removed.routes[n].name = n
      BY <1>2, <1>5, <1>7, <1>8, ZenonT(30)
    <3>2. n \in DOMAIN kept /\ kept[n] = removed.routes[n] BY <3>1, LinkedKeeps
    <3> QED BY <1>2, <2>2, <3>2, ZenonT(30)
  <2> QED BY <1>9, <2>3, <2>4, ZenonT(30)
<1>11. CASE replaceInvalidRoutes
  <2> DEFINE t == ReplaceRoutes(removed, erroredRoutes)
             c == MakeConsistent(t)
  <2>1. p = IF DOMAIN s.routes # {} THEN [c EXCEPT !.routes = t.routes] ELSE c
    BY <1>11 DEF Published, SanitizeSnapshot
  <2>2. /\ Maps(t) /\ t.endpoints = removed.endpoints /\ DOMAIN t.routes = DOMAIN s.routes
        /\ Named(t.routes)
        /\ \A n \in DOMAIN s.routes :
             ~Invalid(removed, n, erroredRoutes) => t.routes[n] = s.routes[n]
        /\ \A u \in DOMAIN removed.clusters :
             u \in DOMAIN t.clusters /\ t.clusters[u] = removed.clusters[u]
    <3>1. t = ReplaceRoutes(removed, erroredRoutes) BY ZenonT(30)
    <3> HIDE DEF t
    <3>2. /\ Maps(t) /\ t.endpoints = removed.endpoints
          /\ DOMAIN t.routes = DOMAIN removed.routes /\ Named(t.routes)
          /\ \A n \in DOMAIN removed.routes :
               ~Invalid(removed, n, erroredRoutes) => t.routes[n] = removed.routes[n]
          /\ \A u \in DOMAIN removed.clusters :
               u \in DOMAIN t.clusters /\ t.clusters[u] = removed.clusters[u]
      BY <1>2, <3>1, Replaced
    <3> QED BY <1>2, <3>2, ZenonT(30)
  <2> HIDE DEF t
  <2>3. OwnKeys(t.endpoints) /\ OwnKeys(t.routes)
    <3>1. OwnKeys(t.routes) BY <2>2, NamedOwn, ZenonT(30)
    <3> QED BY <1>6, <2>2, <3>1, ZenonT(30)
  <2>4. /\ Maps(c) /\ c.clusters = t.clusters
        /\ c.endpoints = Linked(EndpointRefs(t), t.endpoints, EndpointPlaceholders(t))
    BY <2>2, <2>3, ConsistentFields, ZenonT(30)
  <2> HIDE DEF c
  <2>5. /\ p.clusters = t.clusters /\ p.endpoints = c.endpoints
        /\ DOMAIN s.routes # {} => p.routes = t.routes
    BY <2>1, <2>4, ZenonT(30) DEF Maps
  <2>6. \A u \in up : u \in DOMAIN t.clusters /\ u \in Upstreams /\ Backs(t, u)
    BY <1>3, <2>2, ZenonT(30) DEF Backs
  <2>7. \A u \in up : u \in DOMAIN p.clusters /\ Backs(p, u)
    BY <2>4, <2>5, <2>6, ConsistentBacks, ZenonT(30)
  <2>8. \A n \in sound : n \in DOMAIN p.routes /\ p.routes[n] = s.routes[n]
    BY <1>7, <2>2, <2>5, ZenonT(30)
  <2> QED BY <1>9, <2>7, <2>8, ZenonT(30)
<1> QED BY <1>10, <1>11, ZenonT(30)

-----------------------------------------------------------------------------
\* Every served snapshot is good; garbage collection holds throughout the sync,
\* because the sync only translates for proxies it saw.
Served ==
  /\ cache = [k \in Proxies |-> cache[k]]
  /\ \A k \in Proxies : cache[k] # NoSnapshot => Good(cache[k])
Emptied == ~disableProxyGC => \A k \in known \ snapProxies : cache[k] = EmptySnapshot
Scalars ==
  /\ {stored, statusKeys, known, snapProxies, todo} \subseteq SUBSET Proxies
  /\ todo \subseteq snapProxies
  /\ replaceInvalidRoutes \in BOOLEAN /\ disableProxyGC \in BOOLEAN
  /\ syncs \in 0..MaxEnvoySyncs /\ listErrors \in 0..MaxListErrors

Contained ==
  /\ healthy = [k \in Proxies |-> healthy[k]]
  /\ \A k \in snapProxies \ todo : Has(cache[k], healthy[k])

EnvoyIInv == Scalars /\ Served /\ Emptied /\ Contained

\* The empty snapshot is good.
LEMMA EmptyGood == Good(EmptySnapshot)
<1>1. /\ DOMAIN EmptySnapshot.clusters = {} /\ DOMAIN EmptySnapshot.listeners = {}
      /\ DOMAIN EmptySnapshot.endpoints = {} /\ DOMAIN EmptySnapshot.routes = {}
  BY ZenonT(30) DEF EmptySnapshot, NoItems
<1>2. EndpointRefs(EmptySnapshot) = {} /\ RouteRefs(EmptySnapshot) = {}
  BY <1>1, ZenonT(30) DEF EndpointRefs, RouteRefs
<1> HIDE DEF EmptySnapshot
<1> QED BY <1>1, <1>2, ZenonT(30) DEF Good, Typed, Consistent, Listed, NoDangling

\* Nothing is served at first.
LEMMA EnvoyFirst == EnvoyInit => EnvoyIInv
<1> SUFFICES ASSUME EnvoyInit PROVE EnvoyIInv
  OBVIOUS
<1>1. Scalars BY EnvoyBoundsAssumption, SMTT(20) DEF EnvoyInit, Scalars
<1>2. Served BY ZenonT(30) DEF EnvoyInit, Served
<1>3. Emptied BY ZenonT(30) DEF EnvoyInit, Emptied
<1>4. Contained BY ZenonT(30) DEF EnvoyInit, NoneHealthy, Contained
<1> QED BY <1>1, <1>2, <1>3, <1>4, ZenonT(30) DEF EnvoyIInv

\* A sync begins: what it collects is emptied, the rest stays as it was.
LEMMA CollectSteps ==
  ASSUME EnvoyIInv, BeginSync \/ BeginSyncListError
  PROVE  EnvoyIInv'
<1>1. PICK proxies \in SUBSET Proxies :
        /\ known' = statusKeys /\ snapProxies' = proxies /\ todo' = proxies
        /\ healthy' = NoneHealthy
        /\ Collected(proxies)
        /\ UNCHANGED <<settings, stored, statusKeys>>
        /\ syncs' \in 0..MaxEnvoySyncs /\ listErrors' \in 0..MaxListErrors
  BY EnvoyBoundsAssumption, SMTT(20) DEF BeginSync, BeginSyncListError, EnvoyIInv, Scalars
<1>2. Scalars' BY <1>1, ZenonT(30) DEF EnvoyIInv, Scalars, settings
<1>3. /\ cache' = [k \in Proxies |-> cache'[k]]
      /\ \A k \in Proxies : cache'[k] = cache[k] \/ cache'[k] = EmptySnapshot
      /\ ~disableProxyGC => \A k \in statusKeys \ proxies : cache'[k] = EmptySnapshot
  BY <1>1, ZenonT(30) DEF Collected, EnvoyIInv, Scalars
<1>4. \A s : Good(s) => Good(s)'
  BY <1>1, ZenonT(30) DEF Good, settings
<1>5. Served' BY <1>3, <1>4, EmptyGood, ZenonT(30) DEF Served, EnvoyIInv
<1>6. Emptied' BY <1>1, <1>3, ZenonT(30) DEF Emptied, settings
<1>7. Contained' BY <1>1, ZenonT(30) DEF Contained, NoneHealthy
<1> QED BY <1>2, <1>5, <1>6, <1>7, ZenonT(30) DEF EnvoyIInv

\* A proxy is translated: it is one the sync saw.
LEMMA TranslateStep ==
  ASSUME EnvoyIInv, NEW k \in Proxies, NEW s \in Translations(k), NEW errored, NEW erroredRoutes,
         TranslateProxy(k, s, errored, erroredRoutes)
  PROVE  EnvoyIInv'
<1> DEFINE p == Published(s, errored, erroredRoutes)
           h == Healthy(s, errored, erroredRoutes)
<1>1. /\ cache' = [cache EXCEPT ![k] = p] /\ k \in todo /\ todo' = todo \ {k}
      /\ healthy' = [healthy EXCEPT ![k] = h]
      /\ UNCHANGED <<settings, stored, statusKeys, known, snapProxies, syncs, listErrors>>
  BY ZenonT(30) DEF TranslateProxy
<1>2. Good(p) /\ Has(p, h)
  <2>1. replaceInvalidRoutes \in BOOLEAN BY ZenonT(30) DEF EnvoyIInv, Scalars
  <2> QED BY <2>1, PublishedGood, PublishedHealthy, SMTT(20)
<1> HIDE DEF p, h
<1>3. Scalars' BY <1>1, ZenonT(30) DEF EnvoyIInv, Scalars, settings
<1>4. cache' = [q \in Proxies |-> IF q = k THEN p ELSE cache[q]]
  BY <1>1, ZenonT(30) DEF EnvoyIInv, Served
<1>5. \A t : Good(t) => Good(t)' BY <1>1, ZenonT(30) DEF Good, settings
<1>6. Served' BY <1>2, <1>4, <1>5, ZenonT(30) DEF EnvoyIInv, Served
<1>7. Emptied' BY <1>1, <1>4, ZenonT(30) DEF EnvoyIInv, Emptied, Scalars, settings
<1>8. Contained'
  <2>1. healthy' = [q \in Proxies |-> IF q = k THEN h ELSE healthy[q]]
    BY <1>1, ZenonT(30) DEF EnvoyIInv, Contained
  <2>2. \A q \in snapProxies \ todo : q \in Proxies /\ Has(cache[q], healthy[q])
    BY ZenonT(30) DEF EnvoyIInv, Contained, Scalars
  <2>3. \A q \in snapProxies' \ todo' : Has(cache'[q], healthy'[q])
    BY <1>1, <1>2, <1>4, <2>1, <2>2, ZenonT(30)
  <2> QED BY <2>1, <2>3, ZenonT(30) DEF Contained
<1> QED BY <1>3, <1>6, <1>7, <1>8, ZenonT(30) DEF EnvoyIInv

\* Every step keeps the invariant.
LEMMA EnvoyInductive == EnvoySpec => []EnvoyIInv
<1>1. EnvoyIInv /\ [EnvoyNext]_envoyVars => EnvoyIInv'
  <2> SUFFICES ASSUME EnvoyIInv, [EnvoyNext]_envoyVars PROVE EnvoyIInv'
    OBVIOUS
  <2>1. ASSUME UNCHANGED <<settings, cache, known, healthy, snapProxies, todo, syncs,
                           listErrors>>,
               stored' \in SUBSET Proxies, statusKeys' \in SUBSET Proxies
        PROVE  EnvoyIInv'
    <3>1. \A t : Good(t) => Good(t)' BY <2>1, ZenonT(30) DEF Good, settings
    <3>2. Scalars' BY <2>1, ZenonT(30) DEF EnvoyIInv, Scalars, settings
    <3>3. Served' /\ Emptied' /\ Contained'
      BY <2>1, <3>1, ZenonT(30) DEF EnvoyIInv, Served, Emptied, Contained, settings
    <3> QED BY <3>2, <3>3, ZenonT(30) DEF EnvoyIInv
  <2>2. CASE \E S \in SUBSET Proxies : ChangeProxies(S)
    BY <2>1, <2>2, ZenonT(30) DEF ChangeProxies, EnvoyIInv, Scalars
  <2>3. CASE \E k \in Proxies : Connect(k)
    BY <2>1, <2>3, ZenonT(30) DEF Connect, EnvoyIInv, Scalars
  <2>4. CASE UNCHANGED envoyVars
    BY <2>1, <2>4, ZenonT(30) DEF envoyVars, EnvoyIInv, Scalars
  <2>5. CASE \E k \in Proxies, errored \in SUBSET Upstreams :
               \E s \in Translations(k) : \E erroredRoutes \in SUBSET DOMAIN s.routes :
                 TranslateProxy(k, s, errored, erroredRoutes)
    BY <2>5, TranslateStep, ZenonT(30)
  <2> QED BY <2>2, <2>3, <2>4, <2>5, CollectSteps, ZenonT(30) DEF EnvoyNext
<1> QED BY <1>1, EnvoyFirst, PTL DEF EnvoySpec

\* Type correctness: the fallback cluster and the fallback listener are served
\* together or not at all.
THEOREM EnvoyTypes == EnvoySpec => []EnvoyTypeOK
<1>1. EnvoyIInv => EnvoyTypeOK
  BY ZenonT(30) DEF EnvoyIInv, Scalars, Served, Good, Typed, EnvoyTypeOK
<1> QED BY <1>1, EnvoyInductive, PTL

\* What is served is consistent, for every outcome of the translation.
THEOREM ServedCorrect == EnvoySpec => []ServedConsistent
<1>1. EnvoyIInv => ServedConsistent
  BY ZenonT(30) DEF EnvoyIInv, Served, Good, ServedConsistent, Snapshots
<1> QED BY <1>1, EnvoyInductive, PTL

\* With route replacement no served route dangles.
THEOREM RoutesCorrect == EnvoySpec => []NoDanglingRoutes
<1>1. EnvoyIInv => NoDanglingRoutes
  BY ZenonT(30) DEF EnvoyIInv, Served, Good, NoDangling, NoDanglingRoutes, Snapshots
<1> QED BY <1>1, EnvoyInductive, PTL

\* Nodes of proxies that are gone are emptied, whatever happens between syncs.
THEOREM CollectedCorrect == EnvoySpec => []StaleNodesEmptied
<1>1. EnvoyIInv => StaleNodesEmptied
  BY ZenonT(30) DEF EnvoyIInv, Emptied, StaleNodesEmptied
<1> QED BY <1>1, EnvoyInductive, PTL

\* Errors are contained, for any number of proxies, upstreams and listeners.
THEOREM ErrorsCorrect == EnvoySpec => []ErrorsContained
<1>1. EnvoyIInv => ErrorsContained
  BY ZenonT(30) DEF EnvoyIInv, Contained, Has, Backs, Scalars, ErrorsContained
<1> QED BY <1>1, EnvoyInductive, PTL
=============================================================================
