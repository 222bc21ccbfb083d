-------------------------- MODULE FdsUpdaterProofs --------------------------
(***************************************************************************)
(* FdsUpdater for any upstreams, plugins, tokens and bounds.  Three        *)
(* arguments, each about its own variables: the tokens, the updaters and   *)
(* the writes.  The fourth, about the results of detection, rests on the   *)
(* other three.                                                            *)
(***************************************************************************)
EXTENDS FdsUpdater, FiniteSetTheorems, SequenceTheorems, TLAPS

Probes == Updaters \X Plugins
MainStates == {"none", "start", "detect", "save", "done"}
Holds == {"probe", "sendSpec", "sendNil", "return"}
DetStates == {"none", "wait", "finished"} \cup Holds

\* Who has no updater yet has no goroutines, and a goroutine of detectType has
\* not run before its Run does.
Goroutines ==
  /\ created \in 0..MaxUpdaters
  /\ main \in [Updaters -> MainStates] /\ det \in [Probes -> DetStates] /\ sem \in Nat
  /\ \A i \in Updaters : i > created => main[i] = "none"
  /\ \A i \in Updaters : main[i] \in {"none", "start"} =>
       \A p \in Plugins : det[<<i, p>>] = "none"

TokenInv == Goroutines /\ TokensConserved

\* Arithmetic that the steps below use.
LEMMA Sums ==
  ASSUME NEW s \in Nat, NEW c \in Nat
  PROVE  /\ (s - 1) + (c + 1) = s + c /\ (s + 1) + (c - 1) = s + c
         /\ s <= s /\ (s <= c => s + 1 <= c + 1)
         /\ \A d \in Nat : s <= c /\ c <= d => s <= d
OBVIOUS

\* The goroutines that hold a token are finitely many.
LEMMA HoldingFinite == IsFiniteSet(Holding) /\ Cardinality(Holding) \in Nat
<1>1. IsFiniteSet(Updaters) BY FS_Interval, FdsBoundsAssumption DEF Updaters
<1>2. IsFiniteSet(Probes) BY <1>1, PluginsAssumption, FS_Product DEF Probes
<1>3. IsFiniteSet(Holding) BY <1>2, FS_Subset DEF Holding, Probes
<1> QED BY <1>3, FS_CardinalityType, ZenonT(30)

\* All tokens are there at first.
LEMMA InitTokens == Init => TokenInv
<1> SUFFICES ASSUME Init PROVE TokenInv
  OBVIOUS
<1>1. Holding = {} BY ZenonT(30) DEF Init, Holding
<1>2. TokensConserved BY <1>1, FS_EmptySet, TokensAssumption DEF Init, TokensConserved
<1>3. Goroutines
  BY TokensAssumption, FdsBoundsAssumption DEF Init, Goroutines, Probes, MainStates, DetStates
<1> QED BY <1>2, <1>3 DEF TokenInv

\* The goroutines of detectSingle take a token, keep it, and give it back.
LEMMA DetectionTokens ==
  ASSUME TokenInv, NEW i \in 1..created, NEW p \in Plugins, Detection(i, p)
  PROVE  TokenInv'
<1> DEFINE x == <<i, p>>
<1>1. i \in Updaters /\ x \in Probes
  BY FdsBoundsAssumption DEF TokenInv, Goroutines, Updaters, Probes
<1>2. det \in [Probes -> DetStates] /\ main \in [Updaters -> MainStates] /\ sem \in Nat
  BY DEF TokenInv, Goroutines
<1>3. /\ det' \in [Probes -> DetStates] /\ \A y \in Probes : y # x => det'[y] = det[y]
      /\ \/ det[x] = "wait" /\ det'[x] = "probe" /\ sem > 0 /\ sem' = sem - 1
         \/ det[x] = "return" /\ det'[x] = "finished" /\ sem' = sem + 1
         \/ det[x] = "wait" /\ det'[x] = "finished" /\ sem' = sem
         \/ det[x] \in Holds /\ det'[x] \in Holds /\ sem' = sem
  <2> USE <1>1, <1>2 DEF DetStates, Holds
  <2>1. CASE TakeToken(i, p) BY <2>1, ZenonT(30) DEF TakeToken
  <2>2. CASE WaitCancelled(i, p) BY <2>2, ZenonT(30) DEF WaitCancelled
  <2>3. CASE Deliver(i, p) BY <2>3, ZenonT(30) DEF Deliver
  <2>4. CASE GiveBack(i, p) BY <2>4, ZenonT(30) DEF GiveBack
  <2>5. CASE \E answer \in {"sendSpec", "sendNil"} : Probe(i, p, answer)
    BY <2>5, ZenonT(30) DEF Probe
  <2> QED BY <2>1, <2>2, <2>3, <2>4, <2>5, ZenonT(30) DEF Detection
<1>4. /\ created' = created
      /\ main' = main \/ (main[i] = "detect" /\ \E m \in {"detect", "done", "save"} :
                            main' = [main EXCEPT ![i] = m])
  <2>1. CASE Deliver(i, p)
    <3>1. PICK m \in {"detect", "done", "save"} : main' = [main EXCEPT ![i] = m]
      BY <2>1, Zenon DEF Deliver
    <3> QED BY <2>1, <3>1, ZenonT(30) DEF Deliver, trackVars
  <2>2. CASE UNCHANGED <<main, created>> BY <2>2
  <2> QED BY <2>1, <2>2, ZenonT(30) DEF Detection, TakeToken, WaitCancelled, GiveBack, Probe,
                                        trackVars
<1>5. main' \in [Updaters -> MainStates]
  <2>1. CASE main' = main BY <1>2, <2>1
  <2>2. CASE \E m \in {"detect", "done", "save"} : main' = [main EXCEPT ![i] = m]
    BY <1>2, <2>2, ZenonT(30) DEF MainStates
  <2> QED BY <1>4, <2>1, <2>2
<1>6. sem' \in Nat BY <1>2, <1>3
<1>7. Goroutines'
  <2>1. \A q \in Updaters : main[q] = main'[q] \/ (q = i /\ main'[q] \notin {"none", "start"})
    BY <1>2, <1>4, ZenonT(30)
  <2>3. det[x] # "none" BY <1>3, ZenonT(30) DEF Holds
  <2>4. main[i] \notin {"none", "start"} BY <1>1, <2>3, ZenonT(30) DEF TokenInv, Goroutines
  <2>5. \A q \in Updaters, r \in Plugins : q # i => <<q, r>> \in Probes /\ <<q, r>> # x
    BY ZenonT(30) DEF Probes
  <2>6. \A q \in Updaters : main'[q] \in {"none", "start"} => q # i /\ main[q] = main'[q]
    BY <2>1, <2>4, ZenonT(30)
  <2>7. \A q \in Updaters : q > created => main'[q] = "none"
    <3>1. ~(i > created) BY DEF TokenInv, Goroutines
    <3> QED BY <2>1, <3>1, ZenonT(30) DEF TokenInv, Goroutines
  <2> QED BY <1>3, <1>4, <1>5, <1>6, <2>5, <2>6, <2>7, ZenonT(30) DEF TokenInv, Goroutines
<1>8. TokensConserved'
  <2> HIDE DEF x
  <2>1. Holding = {y \in Probes : det[y] \in Holds} /\ Holding' = {y \in Probes : det'[y] \in Holds}
    BY DEF Holding, Probes, Holds
  <2>2. CASE det[x] = "wait" /\ det'[x] = "probe" /\ sem' = sem - 1
    <3>1. Holding' = Holding \cup {x} /\ x \notin Holding
      BY <1>1, <1>3, <2>1, <2>2, ZenonT(30) DEF Holds
    <3>2. Cardinality(Holding') = Cardinality(Holding) + 1
      BY <3>1, HoldingFinite, FS_AddElement, ZenonT(30)
    <3>3. (sem - 1) + (Cardinality(Holding) + 1) = sem + Cardinality(Holding)
      BY <1>2, HoldingFinite, Sums, ZenonT(30)
    <3> QED BY <2>2, <3>2, <3>3, ZenonT(30) DEF TokenInv, TokensConserved
  <2>3. CASE det[x] = "return" /\ det'[x] = "finished" /\ sem' = sem + 1
    <3>1. Holding' = Holding \ {x} /\ x \in Holding
      BY <1>1, <1>3, <2>1, <2>3, ZenonT(30) DEF Holds
    <3>2. Cardinality(Holding') = Cardinality(Holding) - 1
      BY <3>1, HoldingFinite, FS_RemoveElement, ZenonT(30)
    <3> QED BY <1>2, <2>3, <3>2, HoldingFinite, Sums, ZenonT(30) DEF TokenInv, TokensConserved
  <2>4. CASE (det[x] \in Holds <=> det'[x] \in Holds) /\ sem' = sem
    <3>1. Holding' = Holding BY <1>1, <1>3, <2>1, <2>4, ZenonT(30)
    <3> QED BY <2>4, <3>1, ZenonT(30) DEF TokenInv, TokensConserved
  <2> QED BY <1>3, <2>2, <2>3, <2>4, ZenonT(30) DEF Holds
<1> QED BY <1>7, <1>8, ZenonT(30) DEF TokenInv

\* The order in which updaters are created names every upstream once.
LEMMA OrderOnce ==
  ASSUME NEW S \in SUBSET Upstreams, NEW order \in Orders(S)
  PROVE  /\ order \in Seq(Upstreams) /\ Len(order) \in Nat /\ DOMAIN order = 1..Len(order)
         /\ \A k \in 1..Len(order) : order[k] \in S
         /\ \A u \in S : \E k \in 1..Len(order) : order[k] = u
         /\ \A j, k \in 1..Len(order) : order[j] = order[k] => j = k
<1> DEFINE n == Cardinality(S)
<1>1. n \in Nat /\ IsFiniteSet(S)
  BY PluginsAssumption, FS_Subset, FS_CardinalityType, ZenonT(30)
<1>2. order \in [1..n -> S] /\ \A u \in S : \E k \in DOMAIN order : order[k] = u
  BY DEF Orders
<1> HIDE DEF n
<1>3. order \in Seq(Upstreams)
  <2>1. order \in [1..n -> Upstreams] BY <1>2
  <2> QED BY <1>1, <2>1, SeqDef
<1>4. Len(order) = n /\ DOMAIN order = 1..n
  <2>1. Len(order) \in Nat /\ DOMAIN order = 1..Len(order) BY <1>3, LenProperties
  <2>2. 1..Len(order) = 1..n BY <1>2, <2>1, ZenonT(30)
  <2>3. ASSUME NEW k \in Nat PROVE Cardinality(1..k) = k
    <3>1. Cardinality(1..k) = IF 1 > k THEN 0 ELSE k - 1 + 1 BY FS_Interval
    <3> QED BY <3>1
  <2> QED BY <1>1, <2>1, <2>2, <2>3, ZenonT(30)
<1>5. order \in Surjection(1..n, S) BY <1>2 DEF Surjection
<1>6. order \in Injection(1..n, S)
  <2>1. IsFiniteSet(1..n) BY <1>1, FS_Interval
  <2>2. Cardinality(1..n) = IF 1 > n THEN 0 ELSE n - 1 + 1 BY <1>1, FS_Interval
  <2>3. Cardinality(1..n) = Cardinality(S) BY <1>1, <2>2 DEF n
  <2> QED BY <1>5, <2>1, <2>3, FS_SurjSameCardinalityImpliesInj, ZenonT(30)
<1>7. \A j, k \in 1..n : order[j] = order[k] => j = k
  BY <1>6, ZenonT(30) DEF Injection, IsInjective
<1> QED BY <1>1, <1>2, <1>3, <1>4, <1>7, ZenonT(30)

\* Updaters are created: the new ones are about to start.
LEMMA UpdateTokens ==
  ASSUME TokenInv, NEW S \in SUBSET Upstreams, NEW order \in Orders(S), Update(S, order)
  PROVE  TokenInv'
<1>1. Len(order) \in Nat BY OrderOnce, ZenonT(30)
<1>2. created' = created + Len(order) /\ created' \in 0..MaxUpdaters /\ created \in Nat
  BY <1>1, FdsBoundsAssumption DEF Update, TokenInv, Goroutines
<1>3. UNCHANGED <<det, sem>> BY ZenonT(30) DEF Update, detectVars
<1>4. main' \in [Updaters -> MainStates]
  BY ZenonT(30) DEF Update, TokenInv, Goroutines, MainStates
<1>5. \A i \in Updaters :
        /\ i > created' => i > created /\ main'[i] = main[i]
        /\ main'[i] \in {"none", "start"} => main[i] \in {"none", "start"}
  BY <1>1, <1>2, FdsBoundsAssumption DEF Update, TokenInv, Goroutines, Updaters
<1>6. Goroutines' BY <1>2, <1>3, <1>4, <1>5, ZenonT(30) DEF TokenInv, Goroutines
<1>7. TokensConserved' BY <1>3, ZenonT(30) DEF TokenInv, TokensConserved, Holding
<1> QED BY <1>6, <1>7 DEF TokenInv

\* Run starts detection once, and ends.
LEMMA RunTokens ==
  ASSUME TokenInv, NEW i \in 1..created, Run(i)
  PROVE  TokenInv'
<1>1. i \in Updaters BY FdsBoundsAssumption DEF TokenInv, Goroutines, Updaters
<1>2. created' = created /\ sem' = sem
  BY ZenonT(30) DEF Run, RunImpossible, RunDetect, ResultsClosed, DetectCancelled, SaveSpec,
                    RunEnds, RunFunctional, trackVars, detectVars
<1>3. main \in [Updaters -> MainStates] BY ZenonT(30) DEF TokenInv, Goroutines
<1>4. /\ main' \in [Updaters -> MainStates]
      /\ \A j \in Updaters : main'[j] = main[j] \/ (j = i /\ main'[j] \notin {"none", "start"})
  BY <1>1, <1>3, ZenonT(30) DEF Run, RunImpossible, RunDetect, ResultsClosed, DetectCancelled,
                                SaveSpec, RunEnds, RunFunctional, MainStates
<1>5. /\ det' \in [Probes -> DetStates]
      /\ \/ det' = det
         \/ /\ main'[i] = "detect"
            /\ \A y \in Probes : det'[y] = det[y] \/ (y[1] = i /\ det[y] = "none" /\ det'[y] = "wait")
  <2>1. CASE RunDetect(i)
    <3>1. \A y \in Probes : y[1] = i => det[y] = "none"
      BY <1>1, <2>1 DEF RunDetect, TokenInv, Goroutines, Probes
    <3>2. det' = [y \in Probes |-> IF y[1] = i THEN "wait" ELSE det[y]]
      BY <2>1, ZenonT(30) DEF RunDetect, Probes
    <3>3. main'[i] = "detect" BY <1>1, <1>3, <2>1, ZenonT(30) DEF RunDetect
    <3> HIDE DEF Probes
    <3> QED BY <3>1, <3>2, <3>3, ZenonT(30) DEF TokenInv, Goroutines, DetStates
  <2>2. CASE det' = det BY <2>2, ZenonT(30) DEF TokenInv, Goroutines
  <2> QED BY <2>1, <2>2, ZenonT(30) DEF Run, RunImpossible, ResultsClosed, DetectCancelled,
                                        SaveSpec, RunEnds, RunFunctional, detectVars
<1>6. Goroutines'
  <2>1. \A j \in Updaters : j > created => main'[j] = "none"
    BY <1>4, FdsBoundsAssumption DEF TokenInv, Goroutines, Updaters
  <2>2. ASSUME NEW j \in Updaters, main'[j] \in {"none", "start"}, NEW p \in Plugins
        PROVE  det'[<<j, p>>] = "none"
    <3>1. <<j, p>> \in Probes /\ <<j, p>>[1] = j BY DEF Probes
    <3>2. main[j] \in {"none", "start"} BY <1>4, <2>2, ZenonT(30)
    <3>3. det[<<j, p>>] = "none" BY <3>2, ZenonT(30) DEF TokenInv, Goroutines
    <3> QED BY <1>5, <2>2, <3>1, <3>3, ZenonT(30)
  <2> QED BY <1>2, <1>4, <1>5, <2>1, <2>2, ZenonT(30) DEF TokenInv, Goroutines
<1>7. Holding' = Holding BY <1>5, ZenonT(30) DEF Holding, Probes
<1>8. TokensConserved' BY <1>2, <1>7 DEF TokenInv, TokensConserved
<1> QED BY <1>6, <1>8 DEF TokenInv

\* The invariant on the tokens is inductive.
LEMMA NextTokens == TokenInv /\ [Next]_vars => TokenInv'
<1> SUFFICES ASSUME TokenInv, [Next]_vars PROVE TokenInv'
  OBVIOUS
<1>1. CASE UNCHANGED <<created, main, det, sem>>
  BY <1>1, ZenonT(30) DEF TokenInv, Goroutines, TokensConserved, Holding
<1>2. ASSUME NEW u \in Upstreams, Edit(u) PROVE UNCHANGED <<created, main, det, sem>>
  BY <1>2, ZenonT(30) DEF Edit, trackVars, detectVars
<1>3. ASSUME NEW i \in 1..created, NEW p \in Plugins,
             Saving(i, p) \/ SaveFunctions(i, p) \/ LoopEnds(i, p)
      PROVE  UNCHANGED <<created, main, det, sem>>
  BY <1>3, ZenonT(30) DEF Saving, WriteFirst, ReadAgain, WriteAgain, SaveFails, SaveFunctions,
                          LoopEnds, trackVars, detectVars
<1>4. CASE UNCHANGED vars BY <1>1, <1>4, ZenonT(30) DEF vars, trackVars, detectVars
<1> QED BY <1>1, <1>2, <1>3, <1>4, DetectionTokens, UpdateTokens, RunTokens, ZenonT(30)
        DEF Next

\* Tokens are neither lost nor made up, whoever is cancelled when.
THEOREM TokensCorrect == Spec => []TokensConserved
<1>1. TokenInv => TokensConserved BY DEF TokenInv
<1> QED BY <1>1, InitTokens, NextTokens, PTL DEF Spec

-----------------------------------------------------------------------------
\* The updaters and the map of active ones.
TrackInv ==
  /\ created \in 0..MaxUpdaters
  /\ upstream \in Seq(Upstreams) /\ Len(upstream) = created
  /\ prevUpstreams \in SUBSET Upstreams
  /\ active \in [Upstreams -> 0..created] /\ cancelled \in [Updaters -> BOOLEAN]
  /\ \A u \in Upstreams : active[u] # 0 => u \in prevUpstreams
  /\ \A i \in Updaters : i > created => ~cancelled[i]
  /\ OneUpdater

\* There are no updaters at first.
LEMMA InitTrack == Init => TrackInv
<1> SUFFICES ASSUME Init PROVE TrackInv
  OBVIOUS
<1>1. upstream \in Seq(Upstreams) /\ Len(upstream) = 0 BY EmptySeq, ZenonT(30) DEF Init
<1> QED BY <1>1, FdsBoundsAssumption DEF Init, TrackInv, OneUpdater

\* A snapshot replaces all updaters: the old ones are cancelled, the new ones
\* are those in the map.
LEMMA UpdateTrack ==
  ASSUME TrackInv, NEW S \in SUBSET Upstreams, NEW order \in Orders(S), Update(S, order)
  PROVE  TrackInv'
<1> DEFINE n == Len(order)
           place(u) == CHOOSE k \in DOMAIN order : order[k] = u
<1>1. /\ order \in Seq(Upstreams) /\ n \in Nat /\ DOMAIN order = 1..n
      /\ \A k \in 1..n : order[k] \in S
      /\ \A u \in S : \E k \in 1..n : order[k] = u
      /\ \A j, k \in 1..n : order[j] = order[k] => j = k
  BY OrderOnce, ZenonT(30)
<1>2. /\ created' = created + n /\ created' \in 0..MaxUpdaters /\ created \in Nat
      /\ prevUpstreams' = S /\ upstream' = upstream \o order
  BY <1>1, FdsBoundsAssumption DEF Update, TrackInv
<1>3. /\ active' = [u \in Upstreams |-> IF u \in S THEN created + place(u) ELSE 0]
      /\ cancelled' = [i \in Updaters |-> cancelled[i] \/ \E u \in prevUpstreams : active[u] = i]
  BY ZenonT(30) DEF Update, Tracked
<1>4. \A u \in S : place(u) \in 1..n /\ order[place(u)] = u BY <1>1, ZenonT(30)
<1>5. \A k \in 1..n : place(order[k]) = k BY <1>1, <1>4, ZenonT(30)
<1> HIDE DEF n, place
<1>6. /\ upstream' \in Seq(Upstreams) /\ Len(upstream') = created'
      /\ \A i \in 1..created : upstream'[i] = upstream[i]
      /\ \A k \in 1..n : upstream'[created + k] = order[k]
  <2>1. /\ upstream' \in Seq(Upstreams) /\ Len(upstream') = Len(upstream) + Len(order)
        /\ \A i \in 1 .. Len(upstream) + Len(order) :
             upstream'[i] = IF i <= Len(upstream) THEN upstream[i] ELSE order[i - Len(upstream)]
    <3>1. upstream \in Seq(Upstreams) BY ZenonT(30) DEF TrackInv
    <3>2. upstream' = upstream \o order BY <1>2, ZenonT(30)
    <3> QED BY <1>1, <3>1, <3>2, ConcatProperties
  <2>2. Len(upstream) = created BY ZenonT(30) DEF TrackInv
  <2>3. Len(order) = n BY ZenonT(30) DEF n
  <2>4. ASSUME NEW k \in 1..n PROVE upstream'[created + k] = order[k]
    <3>1. created + k \in 1 .. created + n /\ ~(created + k <= created) /\ created + k - created = k
      BY <1>1, <1>2
    <3>2. \A i \in 1 .. created + n :
            upstream'[i] = IF i <= created THEN upstream[i] ELSE order[i - created]
      BY <2>1, <2>2, <2>3, ZenonT(30)
    <3>3. created \in Nat /\ n \in Nat /\ k \in Nat BY <1>1, <1>2
    <3> QED BY <3>1, <3>2, <3>3
  <2>5. ASSUME NEW i \in 1..created PROVE upstream'[i] = upstream[i]
    <3>1. i \in 1 .. created + n /\ i <= created BY <1>1, <1>2
    <3> QED BY <2>1, <2>2, <2>3, <3>1, ZenonT(30)
  <2> QED BY <1>2, <2>1, <2>2, <2>3, <2>4, <2>5, ZenonT(30)
<1>7. /\ active' \in [Upstreams -> 0..created']
      /\ \A u \in Upstreams : active'[u] # 0 => u \in S /\ active'[u] > created
  <2>1. /\ 0 \in 0..created'
        /\ \A k \in 1..n : created + k \in 0..created' /\ created + k > created
    BY <1>1, <1>2
  <2> QED BY <1>3, <1>4, <2>1, ZenonT(30)
<1>8. cancelled' \in [Updaters -> BOOLEAN]
  <2>1. \A i \in Updaters : (cancelled[i] \/ \E u \in prevUpstreams : active[u] = i) \in BOOLEAN
    BY ZenonT(30)
  <2> QED BY <1>3, <2>1, ZenonT(30)
<1>9. ASSUME NEW i \in Updaters, i > created PROVE ~cancelled'[i]
  <2>1. \A u \in prevUpstreams : active[u] # i BY <1>2, <1>9 DEF TrackInv, Updaters
  <2> QED BY <1>3, <1>9, <2>1, ZenonT(30) DEF TrackInv
<1>10. ASSUME NEW i \in 1..created PROVE cancelled'[i] /\ active'[upstream'[i]] # i
  <2>1. upstream[i] \in Upstreams BY ElementOfSeq, ZenonT(30) DEF TrackInv
  <2>2. i \in Updaters /\ i # 0 /\ ~(i > created)
    BY <1>2, FdsBoundsAssumption DEF Updaters, TrackInv
  <2>3. cancelled[i] \/ active[upstream[i]] = i BY ZenonT(30) DEF TrackInv, OneUpdater
  <2>4. active[upstream[i]] = i => upstream[i] \in prevUpstreams
    BY <2>1, <2>2, ZenonT(30) DEF TrackInv
  <2>5. cancelled'[i] BY <1>3, <2>2, <2>3, <2>4, ZenonT(30)
  <2> QED BY <1>6, <1>7, <2>1, <2>2, <2>5
<1>11. ASSUME NEW i \in 1..created', i > created PROVE ~cancelled'[i] /\ active'[upstream'[i]] = i
  <2>1. i - created \in 1..n /\ created + (i - created) = i BY <1>1, <1>2, <1>11
  <2>2. upstream'[i] = order[i - created] BY <1>6, <2>1, ZenonT(30)
  <2>3. order[i - created] \in S BY <1>1, <2>1, ZenonT(30)
  <2>4. active'[upstream'[i]] = i BY <1>3, <1>5, <2>1, <2>2, <2>3, ZenonT(30)
  <2>5. i \in Updaters BY <1>2, FdsBoundsAssumption DEF Updaters
  <2> QED BY <1>9, <1>11, <2>4, <2>5, ZenonT(30)
<1>12. OneUpdater'
  <2> SUFFICES ASSUME NEW i \in 1..created' PROVE ~cancelled'[i] <=> active'[upstream'[i]] = i
    BY ZenonT(30) DEF OneUpdater
  <2>1. i \in 1..created \/ i > created BY <1>1, <1>2
  <2> QED BY <1>10, <1>11, <2>1, ZenonT(30)
<1>13. \A i \in Updaters : i > created' => i > created
  BY <1>1, <1>2, FdsBoundsAssumption DEF Updaters
<1> QED BY <1>2, <1>6, <1>7, <1>8, <1>9, <1>12, <1>13, ZenonT(30) DEF TrackInv

\* Everything else leaves the updaters alone.
LEMMA OthersTrack ==
  ASSUME Next, ~(\E S \in SUBSET Upstreams : \E order \in Orders(S) : Update(S, order))
  PROVE  UNCHANGED trackVars
<1>1. ASSUME NEW i \in 1..created, Run(i) PROVE UNCHANGED trackVars
  BY <1>1, ZenonT(30) DEF Run, RunImpossible, RunDetect, ResultsClosed, DetectCancelled,
                          SaveSpec, RunEnds, RunFunctional
<1>2. ASSUME NEW i \in 1..created, NEW p \in Plugins,
             Detection(i, p) \/ Saving(i, p) \/ SaveFunctions(i, p) \/ LoopEnds(i, p)
      PROVE  UNCHANGED trackVars
  BY <1>2, ZenonT(30) DEF Detection, TakeToken, WaitCancelled, Deliver, GiveBack, Probe,
                          Saving, WriteFirst, ReadAgain, WriteAgain, SaveFails, SaveFunctions,
                          LoopEnds
<1> QED BY <1>1, <1>2, ZenonT(30) DEF Next, Edit

\* The invariant on the updaters is inductive.
LEMMA NextTrack == TrackInv /\ [Next]_vars => TrackInv'
<1> SUFFICES ASSUME TrackInv, [Next]_vars PROVE TrackInv'
  OBVIOUS
<1>1. CASE UNCHANGED trackVars
  BY <1>1, ZenonT(30) DEF trackVars, TrackInv, OneUpdater
<1>2. CASE UNCHANGED vars BY <1>1, <1>2, ZenonT(30) DEF vars
<1> QED BY <1>1, <1>2, UpdateTrack, OthersTrack, ZenonT(30)

\* Every tracked upstream has exactly one updater that is not cancelled.
THEOREM UpdatersCorrect == Spec => []OneUpdater
<1>1. TrackInv => OneUpdater BY ZenonT(30) DEF TrackInv
<1> QED BY <1>1, InitTrack, NextTrack, PTL DEF Spec

-----------------------------------------------------------------------------
\* Content c of an upstream is no newer than content t, and if it has the same
\* resource version no edit lies between them.
Behind(c, t) == c.rev <= t.rev /\ (c.rev = t.rev => c.edit = t.edit)

\* Copies and objects that were read are behind what is stored.
WriteInv ==
  /\ store \in [Upstreams -> Contents] /\ edits \in [Upstreams -> Nat]
  /\ copy \in Seq(Contents) /\ Len(copy) = created
  /\ saving = [x \in Probes |-> saving[x]]
  /\ \A i \in 1..created : Behind(copy[i], store[upstream[i]])
  /\ \A i \in Updaters, p \in Plugins : saving[<<i, p>>].pc = "rewrite" =>
       /\ i <= created /\ saving[<<i, p>>].object \in Contents
       /\ Behind(saving[<<i, p>>].object, store[upstream[i]])
  /\ EditsKept

\* The mutators of saveUpstream leave the resource version and edits alone.
LEMMA MutatedKeeps ==
  ASSUME NEW c \in Contents, NEW p \in Plugins, NEW kind
  PROVE  /\ Mutated(c, p, kind) \in Contents
         /\ Mutated(c, p, kind).rev = c.rev /\ Mutated(c, p, kind).edit = c.edit
BY ZenonT(30) DEF Mutated, Contents

\* The store moves on: an upstream is as before, or newer.
Newer == \A u \in Upstreams : store'[u] = store[u] \/ store'[u].rev = store[u].rev + 1

\* What was behind stays behind.
LEMMA StaysBehind ==
  ASSUME store \in [Upstreams -> Contents], Newer, NEW u \in Upstreams, NEW c \in Contents,
         Behind(c, store[u])
  PROVE  Behind(c, store'[u])
<1>1. c.rev \in Nat /\ store[u] \in Contents /\ store[u].rev \in Nat
  BY ZenonT(30) DEF Contents
<1>2. CASE store'[u] = store[u] BY <1>2, ZenonT(30)
<1>3. CASE store'[u].rev = store[u].rev + 1 BY <1>1, <1>3 DEF Behind
<1> QED BY <1>2, <1>3, ZenonT(30) DEF Newer

\* A Write of content that is behind what is stored takes no edit back.
LEMMA WriteKeeps ==
  ASSUME store \in [Upstreams -> Contents], NEW u \in Upstreams, NEW c \in Contents,
         Behind(c, store[u]), Write(u, c)
  PROVE  /\ store' \in [Upstreams -> Contents] /\ Newer
         /\ \A v \in Upstreams : store'[v].edit = store[v].edit
<1> DEFINE new == [c EXCEPT !.rev = @ + 1]
<1>1. new \in Contents /\ new.rev = c.rev + 1 /\ new.edit = c.edit BY DEF Contents
<1>2. c.rev = store[u].rev /\ c.edit = store[u].edit BY DEF Write, Behind
<1>3. store' = [store EXCEPT ![u] = new] BY DEF Write
<1> HIDE DEF new
<1> QED BY <1>1, <1>2, <1>3, ZenonT(30) DEF Newer

\* Nothing is copied at first.
LEMMA InitWrite == Init => WriteInv
<1> SUFFICES ASSUME Init PROVE WriteInv
  OBVIOUS
<1>1. [rev |-> 0, edit |-> 0, spec |-> NoPlugin, fns |-> {}] \in Contents
  BY ZenonT(30) DEF Contents
<1>2. store \in [Upstreams -> Contents] /\ edits \in [Upstreams -> Nat] /\ EditsKept
  BY <1>1, ZenonT(30) DEF Init, EditsKept
<1>3. copy \in Seq(Contents) /\ Len(copy) = 0 /\ created = 0 BY EmptySeq, ZenonT(30) DEF Init
<1>4. /\ saving = [x \in Probes |-> saving[x]]
      /\ \A i \in Updaters, p \in Plugins : saving[<<i, p>>].pc = "idle"
  BY ZenonT(30) DEF Init, Probes, NotSaving
<1>5. \A i \in 1..created : FALSE BY <1>3
<1> QED BY <1>2, <1>3, <1>4, <1>5, ZenonT(30) DEF WriteInv

\* A step that makes the store newer, leaves resource versions and edits of the
\* copies alone, and reads only what is stored, keeps the invariant.
LEMMA StoreMoves ==
  ASSUME TrackInv, WriteInv, UNCHANGED <<created, upstream>>,
         store' \in [Upstreams -> Contents], edits' \in [Upstreams -> Nat], Newer, EditsKept',
         copy' \in Seq(Contents), Len(copy') = Len(copy),
         \A i \in 1..created : copy'[i].rev = copy[i].rev /\ copy'[i].edit = copy[i].edit,
         saving' = [x \in Probes |-> saving'[x]],
         \A x \in Probes :
           saving'[x].pc = "rewrite" =>
             \/ saving'[x] = saving[x]
             \/ x[1] <= created /\ store' = store /\ saving'[x].object = store[upstream[x[1]]]
  PROVE  WriteInv'
<1>1. \A i \in 1..created : upstream[i] \in Upstreams
  BY ElementOfSeq, ZenonT(30) DEF TrackInv
<1>2. \A i \in 1..created : copy[i] \in Contents
  BY ElementOfSeq, ZenonT(30) DEF WriteInv
<1>3. \A i \in 1..created : Behind(copy'[i], store'[upstream'[i]])
  <2> TAKE i \in 1..created
  <2>1. Behind(copy[i], store'[upstream[i]])
    BY <1>1, <1>2, StaysBehind, ZenonT(30) DEF WriteInv
  <2> QED BY <2>1, ZenonT(30) DEF Behind
<1>4. ASSUME NEW i \in Updaters, NEW p \in Plugins, saving'[<<i, p>>].pc = "rewrite"
      PROVE  /\ i <= created /\ saving'[<<i, p>>].object \in Contents
             /\ Behind(saving'[<<i, p>>].object, store'[upstream[i]])
  <2>1. <<i, p>> \in Probes /\ <<i, p>>[1] = i BY ZenonT(30) DEF Probes
  <2>2. i <= created => i \in 1..created BY FdsBoundsAssumption DEF Updaters, TrackInv
  <2>3. CASE saving'[<<i, p>>] = saving[<<i, p>>]
    <3>1. /\ i <= created /\ saving[<<i, p>>].object \in Contents
          /\ Behind(saving[<<i, p>>].object, store[upstream[i]])
      <4>1. saving[<<i, p>>].pc = "rewrite" BY <1>4, <2>3, ZenonT(30)
      <4> QED BY <4>1, ZenonT(30) DEF WriteInv
    <3>2. upstream[i] \in Upstreams BY <1>1, <2>2, <3>1, ZenonT(30)
    <3>3. Behind(saving[<<i, p>>].object, store'[upstream[i]])
      BY <3>1, <3>2, StaysBehind, ZenonT(30) DEF WriteInv
    <3> QED BY <2>3, <3>1, <3>3, ZenonT(30)
  <2>4. CASE i <= created /\ store' = store /\ saving'[<<i, p>>].object = store[upstream[i]]
    <3>1. store[upstream[i]] \in Contents BY <1>1, <2>2, <2>4, ZenonT(30) DEF WriteInv
    <3>2. store[upstream[i]].rev \in Nat BY <3>1, ZenonT(30) DEF Contents
    <3>3. Behind(store[upstream[i]], store[upstream[i]]) BY <3>2, Sums, ZenonT(30) DEF Behind
    <3> QED BY <2>4, <3>1, <3>3, ZenonT(30)
  <2> QED BY <1>4, <2>1, <2>3, <2>4, ZenonT(30)
<1> QED BY <1>3, <1>4, ZenonT(30) DEF WriteInv

\* New updaters start with what is stored.
LEMMA UpdateWrites ==
  ASSUME TrackInv, WriteInv, TrackInv',
         NEW S \in SUBSET Upstreams, NEW order \in Orders(S), Update(S, order)
  PROVE  WriteInv'
<1> DEFINE new == [k \in DOMAIN order |-> store[order[k]]]
<1>1. /\ order \in Seq(Upstreams) /\ Len(order) \in Nat /\ DOMAIN order = 1..Len(order)
      /\ \A k \in 1..Len(order) : order[k] \in S
  BY OrderOnce, ZenonT(30)
<1>2. /\ UNCHANGED <<saving, store, edits>> /\ created' = created + Len(order)
      /\ upstream' = upstream \o order /\ copy' = copy \o new
  BY ZenonT(30) DEF Update
<1>3. /\ new \in Seq(Contents) /\ Len(new) = Len(order)
      /\ \A k \in 1..Len(order) : new[k] = store[order[k]] /\ new[k] \in Contents
  <2>1. new \in [1..Len(order) -> Contents] /\ \A k \in 1..Len(order) : new[k] = store[order[k]]
    BY <1>1, ZenonT(30) DEF WriteInv
  <2> HIDE DEF new
  <2>2. new \in Seq(Contents) BY <1>1, <2>1, SeqDef
  <2>3. Len(new) = Len(order)
    <3>1. Len(new) \in Nat /\ 1..Len(new) = 1..Len(order)
      BY <2>1, <2>2, LenProperties, ZenonT(30)
    <3>2. ASSUME NEW k \in Nat PROVE Cardinality(1..k) = k
      <4>1. Cardinality(1..k) = IF 1 > k THEN 0 ELSE k - 1 + 1 BY FS_Interval
      <4> QED BY <4>1
    <3> QED BY <1>1, <3>1, <3>2, ZenonT(30)
  <2> QED BY <2>1, <2>2, <2>3, ZenonT(30)
<1> HIDE DEF new
<1>4. /\ Len(upstream) = created /\ upstream \in Seq(Upstreams) /\ created \in Nat
      /\ Len(copy) = created /\ copy \in Seq(Contents) /\ store \in [Upstreams -> Contents]
  BY FdsBoundsAssumption DEF TrackInv, WriteInv
<1>5. /\ copy' \in Seq(Contents) /\ Len(copy') = created'
      /\ \A i \in 1..created + Len(order) :
           copy'[i] = IF i <= created THEN copy[i] ELSE new[i - created]
  <2>1. /\ copy' \in Seq(Contents) /\ Len(copy') = Len(copy) + Len(new)
        /\ \A i \in 1..Len(copy) + Len(new) :
             copy'[i] = IF i <= Len(copy) THEN copy[i] ELSE new[i - Len(copy)]
    <3>1. copy \in Seq(Contents) /\ new \in Seq(Contents) /\ copy' = copy \o new
      BY <1>2, <1>3, <1>4, ZenonT(30)
    <3> QED BY <3>1, ConcatProperties, ZenonT(30)
  <2>2. Len(copy) = created /\ Len(new) = Len(order) BY <1>3, <1>4, ZenonT(30)
  <2> QED BY <1>2, <2>1, <2>2, ZenonT(30)
<1>6. \A i \in 1..created + Len(order) :
        upstream'[i] = IF i <= created THEN upstream[i] ELSE order[i - created]
  <2>1. \A i \in 1..Len(upstream) + Len(order) :
          upstream'[i] = IF i <= Len(upstream) THEN upstream[i] ELSE order[i - Len(upstream)]
    <3>1. upstream \in Seq(Upstreams) /\ order \in Seq(Upstreams) /\ upstream' = upstream \o order
      BY <1>1, <1>2, <1>4, ZenonT(30)
    <3> QED BY <3>1, ConcatProperties, ZenonT(30)
  <2>2. Len(upstream) = created BY <1>4
  <2> QED BY <2>1, <2>2, ZenonT(30)
<1>7. ASSUME NEW i \in 1..created' PROVE Behind(copy'[i], store'[upstream'[i]])
  <2>1. i \in 1..created + Len(order) BY <1>2, ZenonT(30)
  <2>2. CASE i <= created
    <3>1. i \in 1..created BY <1>4, <2>2
    <3>2. copy'[i] = copy[i] /\ upstream'[i] = upstream[i]
      BY <1>5, <1>6, <2>1, <2>2, ZenonT(30)
    <3> QED BY <1>2, <3>1, <3>2, ZenonT(30) DEF WriteInv
  <2>3. CASE ~(i <= created)
    <3>1. i - created \in 1..Len(order) BY <1>1, <1>4, <2>1, <2>3
    <3>2. copy'[i] = store[order[i - created]] /\ upstream'[i] = order[i - created]
      BY <1>3, <1>5, <1>6, <2>1, <2>3, <3>1, ZenonT(30)
    <3>3. order[i - created] \in Upstreams BY <1>1, <3>1, ZenonT(30)
    <3>4. store[order[i - created]].rev \in Nat BY <1>4, <3>3, ZenonT(30) DEF Contents
    <3>5. Behind(store[order[i - created]], store[order[i - created]])
      BY <3>4, Sums, ZenonT(30) DEF Behind
    <3> QED BY <1>2, <3>2, <3>5, ZenonT(30)
  <2> QED BY <2>2, <2>3, ZenonT(30)
<1>8. ASSUME NEW i \in Updaters, NEW p \in Plugins, saving'[<<i, p>>].pc = "rewrite"
      PROVE  /\ i <= created' /\ saving'[<<i, p>>].object \in Contents
             /\ Behind(saving'[<<i, p>>].object, store'[upstream'[i]])
  <2>1. saving[<<i, p>>].pc = "rewrite" BY <1>2, <1>8, ZenonT(30)
  <2>2. /\ i <= created /\ saving[<<i, p>>].object \in Contents
        /\ Behind(saving[<<i, p>>].object, store[upstream[i]])
    BY <2>1, ZenonT(30) DEF WriteInv
  <2>3. i \in 1..created /\ i <= created' /\ i \in 1..created + Len(order)
    BY <1>1, <1>2, <1>4, <2>2, FdsBoundsAssumption DEF Updaters
  <2>4. upstream'[i] = upstream[i] BY <1>6, <2>2, <2>3, ZenonT(30)
  <2> QED BY <1>2, <2>2, <2>3, <2>4, ZenonT(30)
<1>9. EditsKept' BY <1>2, ZenonT(30) DEF WriteInv, EditsKept
<1> QED BY <1>2, <1>5, <1>7, <1>8, <1>9, ZenonT(30) DEF WriteInv

\* An edit of some contents.
LEMMA EditedContents ==
  ASSUME NEW c \in Contents
  PROVE  /\ [c EXCEPT !.edit = @ + 1] \in Contents
         /\ [c EXCEPT !.edit = @ + 1].rev = c.rev
         /\ [c EXCEPT !.edit = @ + 1].edit = c.edit + 1
BY DEF Contents

\* The owner of an upstream changes it.
LEMMA EditWrites ==
  ASSUME TrackInv, WriteInv, NEW u \in Upstreams, Edit(u)
  PROVE  WriteInv'
<1>1. store[u] \in Contents /\ store \in [Upstreams -> Contents] /\ edits \in [Upstreams -> Nat]
  BY ZenonT(30) DEF WriteInv
<1> DEFINE new == [[store[u] EXCEPT !.rev = @ + 1] EXCEPT !.edit = @ + 1]
<1>2. new \in Contents /\ new.rev = store[u].rev + 1 /\ new.edit = store[u].edit + 1
  <2>1. /\ [store[u] EXCEPT !.rev = @ + 1] \in Contents
        /\ [store[u] EXCEPT !.rev = @ + 1].rev = store[u].rev + 1
        /\ [store[u] EXCEPT !.rev = @ + 1].edit = store[u].edit
    BY <1>1 DEF Contents
  <2> QED BY <2>1, EditedContents, ZenonT(30)
<1>3. store' = [store EXCEPT ![u] = new] BY <1>1, ZenonT(30) DEF Edit, Contents
<1> HIDE DEF new
<1>4. edits' = [edits EXCEPT ![u] = @ + 1] /\ UNCHANGED <<created, upstream, copy, saving>>
  BY ZenonT(30) DEF Edit, trackVars
<1>5. store' \in [Upstreams -> Contents] /\ edits' \in [Upstreams -> Nat] /\ Newer
  BY <1>1, <1>2, <1>3, <1>4 DEF Newer
<1>6. EditsKept' BY <1>1, <1>2, <1>3, <1>4, ZenonT(30) DEF WriteInv, EditsKept
<1>7. copy' \in Seq(Contents) /\ saving' = [x \in Probes |-> saving'[x]]
  BY <1>4, ZenonT(30) DEF WriteInv
<1> QED BY <1>4, <1>5, <1>6, <1>7, StoreMoves, ZenonT(30)

\* Saving begins, an object is read again, or a save ends: nothing is written.
LEMMA SavingMoves ==
  ASSUME TrackInv, WriteInv, NEW i \in 1..created, NEW p, NEW r,
         UNCHANGED <<created, upstream, copy, store, edits>>,
         saving' = [saving EXCEPT ![<<i, p>>] = r],
         r.pc = "rewrite" => r.object = store[upstream[i]]
  PROVE  WriteInv'
<1>1. /\ saving = [x \in Probes |-> saving[x]] /\ store \in [Upstreams -> Contents]
      /\ edits \in [Upstreams -> Nat] /\ copy \in Seq(Contents) /\ EditsKept
  BY ZenonT(30) DEF WriteInv
<1>2. saving' = [x \in Probes |-> IF x = <<i, p>> THEN r ELSE saving[x]] BY <1>1, ZenonT(30)
<1>3. /\ store' \in [Upstreams -> Contents] /\ edits' \in [Upstreams -> Nat] /\ Newer
      /\ copy' \in Seq(Contents)
  BY <1>1, ZenonT(30) DEF Newer
<1>4. EditsKept' BY <1>1, ZenonT(30) DEF EditsKept
<1>5. saving' = [x \in Probes |-> saving'[x]] BY <1>2, ZenonT(30)
<1>6. <<i, p>>[1] = i /\ i <= created BY FdsBoundsAssumption DEF TrackInv
<1>7. \A x \in Probes :
        saving'[x].pc = "rewrite" =>
          \/ saving'[x] = saving[x]
          \/ x[1] <= created /\ store' = store /\ saving'[x].object = store[upstream[x[1]]]
  BY <1>2, <1>6, ZenonT(30)
<1> QED BY <1>3, <1>4, <1>5, <1>7, StoreMoves, ZenonT(30)

\* An object behind what is stored is mutated and written, and the copy of the
\* updater mutated too.
LEMMA SaveWrites ==
  ASSUME TrackInv, WriteInv, NEW i \in 1..created, NEW p \in Plugins, NEW kind,
         NEW c \in Contents, Behind(c, store[upstream[i]]),
         UNCHANGED <<created, upstream, edits>>,
         Write(upstream[i], Mutated(c, p, kind)),
         copy' = [copy EXCEPT ![i] = Mutated(copy[i], p, kind)],
         saving' = [saving EXCEPT ![<<i, p>>] = NotSaving]
  PROVE  WriteInv'
<1>1. /\ saving = [x \in Probes |-> saving[x]] /\ store \in [Upstreams -> Contents]
      /\ edits \in [Upstreams -> Nat] /\ copy \in Seq(Contents) /\ Len(copy) = created
  BY ZenonT(30) DEF WriteInv
<1>2. upstream[i] \in Upstreams BY ElementOfSeq, ZenonT(30) DEF TrackInv
<1>3. copy[i] \in Contents BY <1>1, ElementOfSeq, ZenonT(30)
<1>4. Mutated(c, p, kind) \in Contents /\ Behind(Mutated(c, p, kind), store[upstream[i]])
  BY MutatedKeeps, SMTT(20) DEF Behind
<1>5. /\ store' \in [Upstreams -> Contents] /\ Newer
      /\ \A v \in Upstreams : store'[v].edit = store[v].edit
  BY <1>1, <1>2, <1>4, WriteKeeps, ZenonT(30)
<1>6. EditsKept' BY <1>5, ZenonT(30) DEF WriteInv, EditsKept
<1>7. /\ copy' \in Seq(Contents) /\ Len(copy') = Len(copy)
      /\ \A j \in 1..created : copy'[j].rev = copy[j].rev /\ copy'[j].edit = copy[j].edit
  <2>1. /\ Mutated(copy[i], p, kind) \in Contents
        /\ Mutated(copy[i], p, kind).rev = copy[i].rev
        /\ Mutated(copy[i], p, kind).edit = copy[i].edit
    BY <1>3, MutatedKeeps, SMTT(20)
  <2>2. i \in 1..Len(copy) BY <1>1, ZenonT(30)
  <2> DEFINE new == [copy EXCEPT ![i] = Mutated(copy[i], p, kind)]
  <2>3. /\ new \in Seq(Contents) /\ Len(new) = Len(copy)
        /\ \A j \in 1..Len(copy) : new[j] = IF j = i THEN Mutated(copy[i], p, kind) ELSE copy[j]
    BY <1>1, <2>1, <2>2, ExceptSeq
  <2> HIDE DEF new
  <2>4. copy' = new BY ZenonT(30) DEF new
  <2> QED BY <1>1, <2>1, <2>3, <2>4, ZenonT(30)
<1>8. saving' = [x \in Probes |-> IF x = <<i, p>> THEN NotSaving ELSE saving[x]]
  BY <1>1, ZenonT(30)
<1>9. NotSaving.pc # "rewrite" BY ZenonT(30) DEF NotSaving
<1>10. /\ saving' = [x \in Probes |-> saving'[x]]
       /\ \A x \in Probes : saving'[x].pc = "rewrite" => saving'[x] = saving[x]
  BY <1>8, <1>9, ZenonT(30)
<1> QED BY <1>1, <1>5, <1>6, <1>7, <1>10, StoreMoves, ZenonT(30)

\* saveUpstream, step by step.
LEMMA SavingWrites ==
  ASSUME TrackInv, WriteInv, NEW i \in 1..created, NEW p \in Plugins, Saving(i, p)
  PROVE  WriteInv'
<1>1. NotSaving.pc # "rewrite" BY ZenonT(30) DEF NotSaving
<1>2. copy[i] \in Contents /\ Behind(copy[i], store[upstream[i]])
  BY ElementOfSeq, ZenonT(30) DEF WriteInv
<1>3. CASE WriteFirst(i, p)
  <2>1. UNCHANGED <<created, upstream, edits>> /\ saving' = [saving EXCEPT ![<<i, p>>] = NotSaving]
    BY <1>3, ZenonT(30) DEF WriteFirst, SaveEnds, trackVars
  <2>2. CASE UNCHANGED <<copy, store>> BY <1>1, <2>1, <2>2, SavingMoves, ZenonT(30)
  <2>3. CASE ~UNCHANGED <<copy, store>>
    <3>1. PICK kind : /\ Write(upstream[i], Mutated(copy[i], p, kind))
                      /\ copy' = [copy EXCEPT ![i] = Mutated(copy[i], p, kind)]
      BY <1>3, <2>3, ZenonT(30) DEF WriteFirst
    <3> QED BY <1>2, <2>1, <3>1, SaveWrites, ZenonT(30)
  <2> QED BY <2>2, <2>3, ZenonT(30)
<1>4. CASE ReadAgain(i, p)
  <2> DEFINE r == [pc |-> "rewrite", kind |-> saving[<<i, p>>].kind, object |-> store[upstream[i]]]
  <2>1. /\ UNCHANGED <<created, upstream, copy, store, edits>>
        /\ saving' = [saving EXCEPT ![<<i, p>>] = r]
    BY <1>4, ZenonT(30) DEF ReadAgain, trackVars
  <2>2. r.object = store[upstream[i]] BY ZenonT(30)
  <2> QED BY <2>1, <2>2, SavingMoves, ZenonT(30)
<1>5. CASE WriteAgain(i, p)
  <2>1. UNCHANGED <<created, upstream, edits>> /\ saving' = [saving EXCEPT ![<<i, p>>] = NotSaving]
    BY <1>5, ZenonT(30) DEF WriteAgain, SaveEnds, trackVars
  <2>2. PICK kind : /\ Write(upstream[i], Mutated(saving[<<i, p>>].object, p, kind))
                    /\ copy' = [copy EXCEPT ![i] = Mutated(copy[i], p, kind)]
    BY <1>5, ZenonT(30) DEF WriteAgain
  <2>3. i \in Updaters BY FdsBoundsAssumption DEF TrackInv, Updaters
  <2>4. saving[<<i, p>>].object \in Contents /\ Behind(saving[<<i, p>>].object, store[upstream[i]])
    BY <1>5, <2>3, ZenonT(30) DEF WriteAgain, WriteInv
  <2> QED BY <2>1, <2>2, <2>4, SaveWrites, ZenonT(30)
<1>6. CASE SaveFails(i, p)
  <2>1. /\ UNCHANGED <<created, upstream, copy, store, edits>>
        /\ saving' = [saving EXCEPT ![<<i, p>>] = NotSaving]
    BY <1>6, ZenonT(30) DEF SaveFails, SaveEnds, trackVars
  <2> QED BY <1>1, <2>1, SavingMoves, ZenonT(30)
<1> QED BY <1>3, <1>4, <1>5, <1>6, ZenonT(30) DEF Saving

\* The other steps write nothing and read nothing to write.
LEMMA OthersWrite ==
  ASSUME TrackInv, WriteInv, NEW i \in 1..created,
         \/ Run(i)
         \/ \E p \in Plugins : Detection(i, p) \/ SaveFunctions(i, p) \/ LoopEnds(i, p)
  PROVE  WriteInv'
<1>1. CASE UNCHANGED <<created, upstream, edits, saving, copy, store>>
  BY <1>1, ZenonT(30) DEF WriteInv, EditsKept
<1>2. CASE SaveSpec(i)
  <2> DEFINE p == Head(found[i])
             r == [pc |-> "write", kind |-> "spec"]
  <2>1. /\ UNCHANGED <<created, upstream, copy, store, edits>>
        /\ saving' = saving \/ saving' = [saving EXCEPT ![<<i, p>>] = r]
    BY <1>2, ZenonT(30) DEF SaveSpec, trackVars
  <2>2. r.pc # "rewrite" BY ZenonT(30)
  <2> HIDE DEF p, r
  <2> QED BY <1>1, <2>1, <2>2, SavingMoves, ZenonT(30)
<1>3. CASE \E p \in Plugins : SaveFunctions(i, p)
  <2> DEFINE r == [pc |-> "write", kind |-> "functions"]
  <2>1. PICK p \in Plugins : SaveFunctions(i, p) BY <1>3, ZenonT(30)
  <2>2. /\ UNCHANGED <<created, upstream, copy, store, edits>>
        /\ saving' = [saving EXCEPT ![<<i, p>>] = r]
    BY <2>1, ZenonT(30) DEF SaveFunctions, trackVars
  <2>3. r.pc # "rewrite" BY ZenonT(30)
  <2> HIDE DEF r
  <2> QED BY <2>2, <2>3, SavingMoves, ZenonT(30)
<1>4. CASE \E p \in Plugins : Detection(i, p) \/ LoopEnds(i, p)
  BY <1>1, <1>4, ZenonT(30) DEF Detection, TakeToken, WaitCancelled, Deliver, GiveBack, Probe,
                                LoopEnds, trackVars, saveVars
<1>5. CASE Run(i) /\ ~SaveSpec(i)
  BY <1>1, <1>5, ZenonT(30) DEF Run, RunImpossible, RunDetect, ResultsClosed, DetectCancelled,
                                RunEnds, RunFunctional, trackVars, saveVars
<1> QED BY <1>2, <1>3, <1>4, <1>5, ZenonT(30)

\* The invariant on the writes is inductive together with the one on the updaters.
LEMMA NextWrites == TrackInv /\ WriteInv /\ [Next]_vars => WriteInv'
<1> SUFFICES ASSUME TrackInv, WriteInv, [Next]_vars PROVE WriteInv'
  OBVIOUS
<1>1. CASE UNCHANGED vars
  BY <1>1, ZenonT(30) DEF vars, trackVars, saveVars, WriteInv, EditsKept
<1>2. CASE \E u \in Upstreams : Edit(u) BY <1>2, EditWrites, ZenonT(30)
<1>3. CASE \E S \in SUBSET Upstreams : \E order \in Orders(S) : Update(S, order)
  BY <1>3, NextTrack, UpdateWrites, ZenonT(30)
<1>4. ASSUME NEW i \in 1..created, NEW p \in Plugins, Saving(i, p) PROVE WriteInv'
  BY <1>4, SavingWrites, ZenonT(30)
<1>5. ASSUME NEW i \in 1..created,
             \/ Run(i)
             \/ \E p \in Plugins : Detection(i, p) \/ SaveFunctions(i, p) \/ LoopEnds(i, p)
      PROVE  WriteInv'
  BY <1>5, OthersWrite, ZenonT(30)
<1> QED BY <1>1, <1>2, <1>3, <1>4, <1>5, Zenon DEF Next

\* Function discovery never undoes a change of the owner of an upstream.
THEOREM EditsCorrect == Spec => []EditsKept
<1>1. WriteInv => EditsKept BY ZenonT(30) DEF WriteInv
<1> QED BY <1>1, InitTrack, NextTrack, InitWrite, NextWrites, PTL DEF Spec

-----------------------------------------------------------------------------
\* The plugins whose detectSingle has delivered its result or given up.
Reported(i) == {p \in Plugins : det[<<i, p>>] \in {"return", "finished"}}

\* detectType counts each plugin once, however its goroutines interleave, so
\* it never receives more results than there are plugins.
ResultsInv ==
  /\ received \in [Updaters -> Nat] /\ found \in [Updaters -> Seq(Plugins)]
  /\ \A i \in Updaters : received[i] <= Cardinality(Reported(i))
  /\ loops \in [Updaters -> SUBSET Plugins]
  /\ \A x \in Probes : saving[x].pc \in {"idle", "write", "rewrite"}
  /\ edits \in [Upstreams -> 0..MaxEdits]

\* The reports of an updater are finitely many, no more than the plugins.
LEMMA SomePlugins ==
  ASSUME NEW R \in SUBSET Plugins
  PROVE  /\ IsFiniteSet(R) /\ Cardinality(R) \in Nat
         /\ Cardinality(R) <= Cardinality(Plugins) /\ Cardinality(Plugins) \in Nat
<1>1. IsFiniteSet(R) /\ Cardinality(R) <= Cardinality(Plugins)
  BY PluginsAssumption, FS_Subset, ZenonT(30)
<1> QED BY <1>1, PluginsAssumption, FS_CardinalityType, ZenonT(30)

\* No results, no loops and no edits at first.
LEMMA InitResults == Init => ResultsInv
<1> SUFFICES ASSUME Init PROVE ResultsInv
  OBVIOUS
<1>1. ASSUME NEW i \in Updaters PROVE received[i] <= Cardinality(Reported(i))
  <2>1. Reported(i) \in SUBSET Plugins BY ZenonT(30) DEF Reported
  <2>2. received[i] = 0 BY ZenonT(30) DEF Init
  <2> QED BY <2>1, <2>2, SomePlugins
<1>2. received \in [Updaters -> Nat] /\ edits \in [Upstreams -> 0..MaxEdits]
  BY FdsBoundsAssumption DEF Init
<1>3. found \in [Updaters -> Seq(Plugins)] BY EmptySeq, ZenonT(30) DEF Init
<1>4. \A x \in Probes : saving[x].pc \in {"idle", "write", "rewrite"}
  BY ZenonT(30) DEF Init, Probes, NotSaving
<1> QED BY <1>1, <1>2, <1>3, <1>4, ZenonT(30) DEF Init, ResultsInv

\* A delivered result is that of a plugin that was not counted yet.
LEMMA DetectionResults ==
  ASSUME TokenInv, ResultsInv, NEW i \in 1..created, NEW p \in Plugins, Detection(i, p)
  PROVE  ResultsInv'
<1> DEFINE x == <<i, p>>
<1>1. i \in Updaters /\ x \in Probes
  BY FdsBoundsAssumption DEF TokenInv, Goroutines, Updaters, Probes
<1>2. /\ det \in [Probes -> DetStates]
      /\ received \in [Updaters -> Nat] /\ found \in [Updaters -> Seq(Plugins)]
  BY ZenonT(30) DEF TokenInv, Goroutines, ResultsInv
<1>3. \A j \in Updaters : received[j] <= Cardinality(Reported(j))
  BY ZenonT(30) DEF ResultsInv
<1>4. UNCHANGED <<saving, loops, edits>>
  BY ZenonT(30) DEF Detection, TakeToken, WaitCancelled, Deliver, GiveBack, Probe, saveVars
<1>5. CASE Deliver(i, p)
  <2>1. /\ det[x] \in {"sendSpec", "sendNil"} /\ det' = [det EXCEPT ![x] = "return"]
        /\ received' = [received EXCEPT ![i] = received[i] + 1]
        /\ \/ found' = [found EXCEPT ![i] = Append(found[i], p)]
           \/ found' = [found EXCEPT ![i] = found[i]]
    BY <1>5, ZenonT(30) DEF Deliver
  <2> HIDE DEF x
  <2>2. /\ received[i] \in Nat /\ received[i] + 1 \in Nat
        /\ found[i] \in Seq(Plugins) /\ Append(found[i], p) \in Seq(Plugins)
    BY <1>1, <1>2
  <2>3. received' \in [Updaters -> Nat] /\ found' \in [Updaters -> Seq(Plugins)]
    BY <1>1, <1>2, <2>1, <2>2, ZenonT(30)
  <2>4. ASSUME NEW j \in Updaters PROVE received'[j] <= Cardinality(Reported(j)')
    <3>1. Reported(j) \in SUBSET Plugins /\ Reported(j)' \in SUBSET Plugins
      BY ZenonT(30) DEF Reported
    <3>2. CASE j = i
      <4>1. p \notin Reported(i)
        BY <2>1, ZenonT(30) DEF Reported, x
      <4>2. Reported(i)' = Reported(i) \cup {p}
        <5>1. \A q \in Plugins : q # p => <<i, q>> \in Probes /\ <<i, q>> # x
          BY <1>1, ZenonT(30) DEF x, Probes
        <5>2. \A q \in Plugins : q # p => det'[<<i, q>>] = det[<<i, q>>]
          BY <1>2, <2>1, <5>1, ZenonT(30)
        <5>3. det'[<<i, p>>] = "return" BY <1>1, <1>2, <2>1, ZenonT(30) DEF x
        <5> QED BY <5>2, <5>3, ZenonT(30) DEF Reported
      <4>3. Cardinality(Reported(i)') = Cardinality(Reported(i)) + 1
        BY <3>1, <3>2, <4>1, <4>2, SomePlugins, FS_AddElement, ZenonT(30)
      <4>4. Cardinality(Reported(i)) \in Nat BY <3>1, <3>2, SomePlugins, ZenonT(30)
      <4>5. received'[i] = received[i] + 1 BY <1>1, <1>2, <2>1, ZenonT(30)
      <4>6. received[i] <= Cardinality(Reported(i)) BY <1>1, <1>3, ZenonT(30)
      <4>7. received[i] + 1 <= Cardinality(Reported(i)) + 1
        BY <2>2, <4>4, <4>6, Sums, ZenonT(30)
      <4> QED BY <3>2, <4>3, <4>5, <4>7, ZenonT(30)
    <3>3. CASE j # i
      <4>1. received'[j] = received[j] BY <1>2, <2>1, <3>3, ZenonT(30)
      <4>2. \A q \in Plugins : <<j, q>> \in Probes /\ <<j, q>> # x
        BY <3>3, ZenonT(30) DEF x, Probes
      <4>3. Reported(j)' = Reported(j) BY <1>2, <2>1, <4>2, ZenonT(30) DEF Reported
      <4> QED BY <1>3, <4>1, <4>3, ZenonT(30)
    <3> QED BY <3>2, <3>3, ZenonT(30)
  <2> QED BY <1>4, <2>3, <2>4, ZenonT(30) DEF ResultsInv
<1>6. CASE ~Deliver(i, p)
  <2>1. UNCHANGED <<received, found>>
    BY <1>6, ZenonT(30) DEF Detection, TakeToken, WaitCancelled, GiveBack, Probe
  <2>2. \E s \in DetStates : /\ det' = [det EXCEPT ![x] = s] /\ det[x] # "finished"
                             /\ det[x] = "return" => s = "finished"
    BY <1>6, ZenonT(30) DEF Detection, TakeToken, WaitCancelled, GiveBack, Probe, DetStates,
                            Holds
  <2> HIDE DEF x
  <2>3. ASSUME NEW j \in Updaters PROVE received'[j] <= Cardinality(Reported(j)')
    <3>1. Reported(j) \in SUBSET Plugins /\ Reported(j)' \in SUBSET Plugins
      BY ZenonT(30) DEF Reported
    <3>2. Reported(j) \subseteq Reported(j)'
      <4>1. \A q \in Plugins : <<j, q>> \in Probes BY ZenonT(30) DEF Probes
      <4>2. \A y \in Probes : det[y] \in {"return", "finished"} =>
              det'[y] \in {"return", "finished"}
        BY <1>1, <1>2, <2>2, ZenonT(30)
      <4> QED BY <4>1, <4>2, ZenonT(30) DEF Reported
    <3>3. Cardinality(Reported(j)) <= Cardinality(Reported(j)')
      BY <3>1, <3>2, SomePlugins, FS_Subset, ZenonT(30)
    <3>4. /\ received[j] \in Nat /\ received'[j] = received[j]
          /\ received[j] <= Cardinality(Reported(j))
      BY <1>2, <1>3, <2>1, ZenonT(30)
    <3>5. Cardinality(Reported(j)) \in Nat /\ Cardinality(Reported(j)') \in Nat
      BY <3>1, SomePlugins, ZenonT(30)
    <3> QED BY <3>3, <3>4, <3>5, Sums, ZenonT(30)
  <2> QED BY <1>4, <2>1, <2>3, ZenonT(30) DEF ResultsInv
<1> QED BY <1>5, <1>6, ZenonT(30)

\* detectType starts before any of its plugins reports; Run starts loops of
\* plugins and saves what they found.
LEMMA RunResults ==
  ASSUME TokenInv, WriteInv, ResultsInv, NEW i \in 1..created, Run(i)
  PROVE  ResultsInv'
<1>1. i \in Updaters BY FdsBoundsAssumption DEF TokenInv, Goroutines, Updaters
<1>2. CASE UNCHANGED <<detectVars, saving, loops, edits>>
  BY <1>2, ZenonT(30) DEF ResultsInv, Reported, detectVars
<1>3. CASE RunImpossible(i) \/ ResultsClosed(i) \/ DetectCancelled(i) \/ RunEnds(i)
  BY <1>2, <1>3, ZenonT(30) DEF RunImpossible, ResultsClosed, DetectCancelled, RunEnds, saveVars
<1>4. CASE RunDetect(i)
  <2>1. /\ main[i] = "start" /\ UNCHANGED <<received, found, saving, loops, edits>>
        /\ det' = [y \in Probes |-> IF y[1] = i THEN "wait" ELSE det[y]]
    BY <1>4, ZenonT(30) DEF RunDetect, saveVars, Probes
  <2>2. ASSUME NEW j \in Updaters PROVE received[j] <= Cardinality(Reported(j)')
    <3>1. Reported(j)' \in SUBSET Plugins BY ZenonT(30) DEF Reported
    <3>2. Cardinality(Reported(j)') \in Nat BY <3>1, SomePlugins, ZenonT(30)
    <3>3. received[j] \in Nat /\ received[j] <= Cardinality(Reported(j))
      BY ZenonT(30) DEF ResultsInv
    <3>4. CASE j = i
      <4>1. Reported(i) = {}
        BY <1>1, <2>1, ZenonT(30) DEF TokenInv, Goroutines, Reported
      <4>2. received[j] <= 0 BY <3>3, <3>4, <4>1, FS_EmptySet, ZenonT(30)
      <4> QED BY <3>2, <3>3, <4>2
    <3>5. CASE j # i
      <4>1. \A q \in Plugins : <<j, q>> \in Probes /\ <<j, q>>[1] = j
        BY ZenonT(30) DEF Probes
      <4>2. \A q \in Plugins : det'[<<j, q>>] = det[<<j, q>>]
        BY <2>1, <3>5, <4>1, ZenonT(30)
      <4>3. Reported(j)' = Reported(j) BY <4>2, ZenonT(30) DEF Reported
      <4> QED BY <3>3, <4>3, ZenonT(30)
    <3> QED BY <3>4, <3>5, ZenonT(30)
  <2> QED BY <2>1, <2>2, ZenonT(30) DEF ResultsInv
<1>5. CASE SaveSpec(i)
  <2> DEFINE p == Head(found[i])
             r == [pc |-> "write", kind |-> "spec"]
  <2>1. /\ found[i] # <<>> /\ UNCHANGED <<received, det, edits>>
        /\ saving' = saving \/ saving' = [saving EXCEPT ![<<i, p>>] = r]
        /\ loops' = [loops EXCEPT ![i] = loops[i] \cup {p}]
        /\ found' = [found EXCEPT ![i] = Tail(found[i])]
    BY <1>5, ZenonT(30) DEF SaveSpec
  <2>2. r.pc = "write" BY ZenonT(30)
  <2>3. /\ found \in [Updaters -> Seq(Plugins)] /\ loops \in [Updaters -> SUBSET Plugins]
        /\ \A x \in Probes : saving[x].pc \in {"idle", "write", "rewrite"}
    BY ZenonT(30) DEF ResultsInv
  <2>4. p \in Plugins /\ Tail(found[i]) \in Seq(Plugins)
    BY <1>1, <2>1, <2>3, HeadTailProperties, ZenonT(30)
  <2>5. saving = [x \in Probes |-> saving[x]] BY ZenonT(30) DEF WriteInv
  <2> HIDE DEF p, r
  <2>6. /\ found' \in [Updaters -> Seq(Plugins)] /\ loops' \in [Updaters -> SUBSET Plugins]
    BY <1>1, <2>1, <2>3, <2>4, ZenonT(30)
  <2>7. \A x \in Probes : saving'[x].pc \in {"idle", "write", "rewrite"}
    BY <2>1, <2>2, <2>3, <2>5, ZenonT(30)
  <2> QED BY <2>1, <2>6, <2>7, ZenonT(30) DEF ResultsInv, Reported
<1>6. ASSUME NEW ps \in SUBSET Plugins, RunFunctional(i, ps) PROVE ResultsInv'
  <2>1. loops' = [loops EXCEPT ![i] = ps] /\ UNCHANGED <<detectVars, saving, edits>>
    BY <1>6, ZenonT(30) DEF RunFunctional, saveVars
  <2>2. loops' \in [Updaters -> SUBSET Plugins] BY <1>1, <2>1, ZenonT(30) DEF ResultsInv
  <2> QED BY <2>1, <2>2, ZenonT(30) DEF ResultsInv, Reported, detectVars
<1> QED BY <1>3, <1>4, <1>5, <1>6, ZenonT(30) DEF Run

\* saveUpstream and the discovery loops touch no result.
LEMMA SavingResults ==
  ASSUME TokenInv, WriteInv, ResultsInv, NEW i \in 1..created, NEW p \in Plugins,
         Saving(i, p) \/ SaveFunctions(i, p) \/ LoopEnds(i, p)
  PROVE  ResultsInv'
<1>1. i \in Updaters BY FdsBoundsAssumption DEF TokenInv, Goroutines, Updaters
<1>2. saving = [x \in Probes |-> saving[x]] BY ZenonT(30) DEF WriteInv
<1>3. CASE LoopEnds(i, p)
  <2>1. /\ loops' = [loops EXCEPT ![i] = loops[i] \ {p}]
        /\ UNCHANGED <<received, found, det, saving, edits>>
    BY <1>3, ZenonT(30) DEF LoopEnds, saveVars, detectVars
  <2>2. loops' \in [Updaters -> SUBSET Plugins] BY <1>1, <2>1, ZenonT(30) DEF ResultsInv
  <2> QED BY <2>1, <2>2, ZenonT(30) DEF ResultsInv, Reported
<1>4. CASE Saving(i, p) \/ SaveFunctions(i, p)
  <2>1. UNCHANGED <<received, found, det, loops, edits>>
    BY <1>4, ZenonT(30) DEF Saving, WriteFirst, ReadAgain, WriteAgain, SaveFails, SaveFunctions,
                            detectVars
  <2>2. \A x \in Probes : saving'[x].pc \in {"idle", "write", "rewrite"}
    <3>1. CASE WriteFirst(i, p) \/ WriteAgain(i, p) \/ SaveFails(i, p)
      <4>1. NotSaving.pc \in {"idle", "write", "rewrite"} BY ZenonT(30) DEF NotSaving
      <4>2. saving' = [saving EXCEPT ![<<i, p>>] = NotSaving]
        BY <3>1, ZenonT(30) DEF WriteFirst, WriteAgain, SaveFails, SaveEnds
      <4> QED BY <1>2, <4>1, <4>2, ZenonT(30) DEF ResultsInv
    <3>2. CASE ReadAgain(i, p)
      <4> DEFINE r == [pc |-> "rewrite", kind |-> saving[<<i, p>>].kind,
                       object |-> store[upstream[i]]]
      <4>1. r.pc \in {"idle", "write", "rewrite"} BY ZenonT(30)
      <4>2. saving' = [saving EXCEPT ![<<i, p>>] = r] BY <3>2, ZenonT(30) DEF ReadAgain
      <4> HIDE DEF r
      <4> QED BY <1>2, <4>1, <4>2, ZenonT(30) DEF ResultsInv
    <3>3. CASE SaveFunctions(i, p)
      <4> DEFINE r == [pc |-> "write", kind |-> "functions"]
      <4>1. r.pc \in {"idle", "write", "rewrite"} BY ZenonT(30)
      <4>2. saving' = [saving EXCEPT ![<<i, p>>] = r] BY <3>3, ZenonT(30) DEF SaveFunctions
      <4> HIDE DEF r
      <4> QED BY <1>2, <4>1, <4>2, ZenonT(30) DEF ResultsInv
    <3> QED BY <1>4, <3>1, <3>2, <3>3, ZenonT(30) DEF Saving
  <2> QED BY <2>1, <2>2, ZenonT(30) DEF ResultsInv, Reported
<1> QED BY <1>3, <1>4, ZenonT(30)

\* The invariant on the results is inductive together with the others.
LEMMA NextResults == TokenInv /\ WriteInv /\ ResultsInv /\ [Next]_vars => ResultsInv'
<1> SUFFICES ASSUME TokenInv, WriteInv, ResultsInv, [Next]_vars PROVE ResultsInv'
  OBVIOUS
<1>1. CASE UNCHANGED <<detectVars, saving, loops, edits>>
  BY <1>1, ZenonT(30) DEF ResultsInv, Reported, detectVars
<1>2. CASE UNCHANGED vars BY <1>1, <1>2, ZenonT(30) DEF vars, saveVars
<1>3. ASSUME NEW S \in SUBSET Upstreams, NEW order \in Orders(S), Update(S, order)
      PROVE  ResultsInv'
  BY <1>1, <1>3, ZenonT(30) DEF Update
<1>4. ASSUME NEW u \in Upstreams, Edit(u) PROVE ResultsInv'
  <2>1. /\ edits[u] < MaxEdits /\ edits' = [edits EXCEPT ![u] = edits[u] + 1]
        /\ UNCHANGED <<received, found, det, saving, loops>>
    BY <1>4, ZenonT(30) DEF Edit, detectVars
  <2>2. edits \in [Upstreams -> 0..MaxEdits] BY ZenonT(30) DEF ResultsInv
  <2>3. edits[u] + 1 \in 0..MaxEdits BY <2>1, <2>2, FdsBoundsAssumption
  <2>4. edits' \in [Upstreams -> 0..MaxEdits] BY <2>1, <2>2, <2>3, ZenonT(30)
  <2> QED BY <2>1, <2>4, ZenonT(30) DEF ResultsInv, Reported
<1> QED BY <1>2, <1>3, <1>4, DetectionResults, RunResults, SavingResults, ZenonT(30) DEF Next

\* The data of function discovery is well formed; in particular the semaphore
\* never holds more tokens than it was made with, and detectType never counts
\* more results than it has plugins.
THEOREM FdsTypes == Spec => []TypeOK
<1> DEFINE Inv == TokenInv /\ TrackInv /\ WriteInv /\ ResultsInv
<1>1. Init => Inv BY InitTokens, InitTrack, InitWrite, InitResults, ZenonT(30)
<1>2. Inv /\ [Next]_vars => Inv' BY NextTokens, NextTrack, NextWrites, NextResults, ZenonT(30)
<1>3. Inv => TypeOK
  <2> SUFFICES ASSUME Inv PROVE TypeOK
    OBVIOUS
  <2>1. sem \in 0..Tokens
    BY HoldingFinite, TokensAssumption DEF TokenInv, Goroutines, TokensConserved
  <2>2. received \in [Updaters -> 0..Cardinality(Plugins)]
    <3>1. ASSUME NEW i \in Updaters PROVE received[i] \in 0..Cardinality(Plugins)
      <4>1. Reported(i) \in SUBSET Plugins BY ZenonT(30) DEF Reported
      <4>2. received[i] \in Nat /\ received[i] <= Cardinality(Reported(i))
        BY ZenonT(30) DEF ResultsInv
      <4> QED BY <4>1, <4>2, SomePlugins
    <3> QED BY <3>1, ZenonT(30) DEF ResultsInv
  <2>3. upstream \in [1..created -> Upstreams] /\ copy \in [1..created -> Contents]
    BY DEF TrackInv, WriteInv
  <2>4. /\ main \in [Updaters -> {"none", "start", "detect", "save", "done"}]
        /\ det \in [Updaters \X Plugins ->
                     {"none", "wait", "probe", "sendSpec", "sendNil", "return", "finished"}]
    BY ZenonT(30) DEF TokenInv, Goroutines, MainStates, DetStates, Holds, Probes
  <2> QED BY <2>1, <2>2, <2>3, <2>4, ZenonT(30)
          DEF TypeOK, TrackInv, WriteInv, ResultsInv, Probes
<1> QED BY <1>1, <1>2, <1>3, PTL DEF Spec
=============================================================================
