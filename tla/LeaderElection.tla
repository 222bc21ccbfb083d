--------------------------- MODULE LeaderElection ---------------------------
(***************************************************************************)
(* Leader election among the replicas of the control plane                 *)
(* (pkg/bootstrap/leaderelector/kube/factory.go and identity.go).  The     *)
(* lease and the elector of client-go are external: it calls back          *)
(* OnStartedLeading and OnNewLeader in goroutines of their own, which may  *)
(* be late, and OnStoppedLeading when Run returns; it stops renewing       *)
(* before the lease can expire, and tries to release it then.              *)
(*                                                                         *)
(* A replica leads when the channel of its Identity is closed.  Channels   *)
(* are numbered; StartElection makes channel 0.                            *)
(***************************************************************************)
EXTENDS Naturals

CONSTANTS Replicas, NoReplica,
          Recover,     \* replicas with MAX_RECOVERY_DURATION_WITHOUT_KUBE_API_SERVER set
          MaxTerms     \* bound on acquisitions of the lease

ASSUME ReplicaAssumption == NoReplica \notin Replicas
ASSUME RecoverAssumption == Recover \subseteq Replicas /\ MaxTerms \in Nat

VARIABLES
  holder, terms,   \* the lease, and how often it was acquired
  pc,              \* the goroutine of StartElection
  elected,         \* the captured variable elected: the newest channel
  identity,        \* the channel of the Identity
  closed,          \* channels that were closed
  starting,        \* OnStartedLeading callbacks that have not run yet
  noticing,        \* OnNewLeader callbacks that have not run yet
  reported,        \* the leader the current elector reported last
  justFailed,      \* ... the flag of that name
  dying,           \* goroutines in dieIfUnrecoverable, by elector
  dontDie          \* the elector whose recoveryCtx dontDie cancels

leaderVars == <<holder, terms, pc, elected, identity, closed, starting, noticing, reported,
          justFailed, dying, dontDie>>

LeaderTypeOK ==
  /\ holder \in Replicas \cup {NoReplica} /\ terms \in 0..MaxTerms
  /\ pc \in [Replicas -> {"acquire", "leading", "stopping", "returned", "dead"}]
  /\ elected \in [Replicas -> Nat] /\ \A r \in Replicas \ Recover : elected[r] = 0
  /\ identity \in [Replicas -> Nat]
  /\ closed \in [Replicas -> SUBSET Nat]
  /\ starting \in [Replicas -> Nat] /\ noticing \in [Replicas -> Nat]
  /\ reported \in [Replicas -> Replicas \cup {NoReplica}]
  /\ justFailed \in [Replicas -> BOOLEAN]
  /\ dying \in [Replicas -> SUBSET Nat] /\ dontDie \in [Replicas -> Nat]

LeaderInit ==
  /\ holder = NoReplica /\ terms = 0
  /\ pc = [r \in Replicas |-> "acquire"]
  /\ elected = [r \in Replicas |-> 0] /\ identity = [r \in Replicas |-> 0]
  /\ closed = [r \in Replicas |-> {}]
  /\ starting = [r \in Replicas |-> 0] /\ noticing = [r \in Replicas |-> 0]
  /\ reported = [r \in Replicas |-> NoReplica]
  /\ justFailed = [r \in Replicas |-> FALSE]
  /\ dying = [r \in Replicas |-> {}] /\ dontDie = [r \in Replicas |-> 0]

IsLeader(r) == pc[r] # "dead" /\ identity[r] \in closed[r]

\* The process ends; its lease stays until it expires.
Exit(r) == pc' = [pc EXCEPT ![r] = "dead"]

-----------------------------------------------------------------------------
(* The lease.                                                              *)

\* maybeReportTransition of client-go: an elector calls OnNewLeader, in a
\* goroutine, whenever the holder it sees is not the one it reported last.
Report(r, leader) ==
  /\ reported' = [reported EXCEPT ![r] = leader]
  /\ noticing' = [noticing EXCEPT ![r] = IF reported[r] = leader THEN @ ELSE @ + 1]

\* The elector of r gets the lease, or finds the lease it did not release.
Acquire(r) ==
  /\ pc[r] = "acquire" /\ holder \in {r, NoReplica} /\ terms < MaxTerms
  /\ holder' = r /\ terms' = terms + 1
  /\ pc' = [pc EXCEPT ![r] = "leading"]
  /\ starting' = [starting EXCEPT ![r] = @ + 1]
  /\ Report(r, r)
  /\ UNCHANGED <<elected, identity, closed, justFailed, dying, dontDie>>

\* A follower reaches the API server and sees who holds the lease.
Observe(r) ==
  /\ pc[r] = "acquire" /\ reported[r] # holder
  /\ Report(r, holder)
  /\ UNCHANGED <<holder, terms, pc, elected, identity, closed, starting, justFailed,
                 dying, dontDie>>

\* r cannot renew: it gives up, and manages to release the lease or not.
RenewFails(r) ==
  /\ pc[r] = "leading"
  /\ pc' = [pc EXCEPT ![r] = "stopping"]
  /\ holder' \in {r, NoReplica}
  /\ UNCHANGED <<terms, elected, identity, closed, starting, noticing, reported, justFailed,
                 dying, dontDie>>

LeaseExpires ==
  /\ holder # NoReplica /\ pc[holder] # "leading"
  /\ holder' = NoReplica
  /\ UNCHANGED <<terms, pc, elected, identity, closed, starting, noticing, reported, justFailed,
                 dying, dontDie>>

-----------------------------------------------------------------------------
(* The callbacks and the loop of StartElection.                            *)

\* close(elected) panics when the channel was closed before.
OnStartedLeading(r) ==
  /\ pc[r] # "dead" /\ starting[r] > 0
  /\ starting' = [starting EXCEPT ![r] = @ - 1]
  /\ IF elected[r] \in closed[r]
     THEN Exit(r) /\ UNCHANGED closed
     ELSE closed' = [closed EXCEPT ![r] = @ \cup {elected[r]}] /\ UNCHANGED pc
  /\ UNCHANGED <<holder, terms, elected, identity, noticing, reported, justFailed, dying, dontDie>>

\* Reset has a value receiver: it assigns to a copy, and the Identity that
\* was handed out keeps its channel.
Reset(r, channel) == identity' = identity

\* With recovery, a new channel and a timer that ends the process; dontDie
\* now cancels this elector's timer only.
OnStoppedLeading(r) ==
  /\ pc[r] = "stopping"
  /\ pc' = [pc EXCEPT ![r] = "returned"]
  /\ IF r \in Recover
     THEN /\ elected' = [elected EXCEPT ![r] = @ + 1]
          /\ Reset(r, elected[r] + 1)
          /\ dying' = [dying EXCEPT ![r] = @ \cup {elected[r]}]
          /\ dontDie' = [dontDie EXCEPT ![r] = elected[r]]
          /\ justFailed' = [justFailed EXCEPT ![r] = TRUE]
     ELSE UNCHANGED <<elected, identity, dying, dontDie, justFailed>>
  /\ UNCHANGED <<holder, terms, closed, starting, noticing, reported>>

\* Mutant: the loop ends and the process goes on.
RunReturnsWithoutQuitting(r) == pc[r] = "returned" /\ UNCHANGED leaderVars

\* Run has returned: without recovery the process quits; with it the loop
\* sleeps for a lease duration and starts another elector.
RunReturns(r) ==
  /\ pc[r] = "returned"
  /\ IF r \in Recover THEN pc' = [pc EXCEPT ![r] = "acquire"] ELSE Exit(r)
  /\ reported' = [reported EXCEPT ![r] = NoReplica]
  /\ UNCHANGED <<holder, terms, elected, identity, closed, starting, noticing, justFailed,
                 dying, dontDie>>

\* Mutant: leadership is assumed as soon as somebody is elected.
OnNewLeaderLeads(r) ==
  /\ pc[r] # "dead" /\ noticing[r] > 0
  /\ noticing' = [noticing EXCEPT ![r] = @ - 1]
  /\ closed' = [closed EXCEPT ![r] = @ \cup {elected[r]}]
  /\ UNCHANGED <<holder, terms, pc, elected, identity, starting, reported, justFailed, dying, dontDie>>

OnNewLeader(r) ==
  /\ pc[r] # "dead" /\ noticing[r] > 0
  /\ noticing' = [noticing EXCEPT ![r] = @ - 1]
  /\ IF r \in Recover /\ justFailed[r]
     THEN /\ dying' = [dying EXCEPT ![r] = @ \ {dontDie[r]}]
          /\ justFailed' = [justFailed EXCEPT ![r] = FALSE]
     ELSE UNCHANGED <<dying, justFailed>>
  /\ UNCHANGED <<holder, terms, pc, elected, identity, closed, starting, reported, dontDie>>

\* Mutant: the timer is never armed to end the process.
DieNever(r) ==
  /\ pc[r] # "dead" /\ dying[r] # {}
  /\ dying' = [dying EXCEPT ![r] = {}]
  /\ UNCHANGED <<holder, terms, pc, elected, identity, closed, starting, noticing, reported, justFailed,
                 dontDie>>

\* The timer of dieIfUnrecoverable fires.
DieIfUnrecoverable(r) ==
  /\ pc[r] # "dead" /\ dying[r] # {}
  /\ Exit(r)
  /\ UNCHANGED <<holder, terms, elected, identity, closed, starting, noticing, reported, justFailed,
                 dying, dontDie>>

\* A new process in place of a dead one.
Restart(r) ==
  /\ pc[r] = "dead" /\ holder # r
  /\ pc' = [pc EXCEPT ![r] = "acquire"]
  /\ elected' = [elected EXCEPT ![r] = 0] /\ identity' = [identity EXCEPT ![r] = 0]
  /\ closed' = [closed EXCEPT ![r] = {}]
  /\ starting' = [starting EXCEPT ![r] = 0] /\ noticing' = [noticing EXCEPT ![r] = 0]
  /\ reported' = [reported EXCEPT ![r] = NoReplica]
  /\ justFailed' = [justFailed EXCEPT ![r] = FALSE]
  /\ dying' = [dying EXCEPT ![r] = {}] /\ dontDie' = [dontDie EXCEPT ![r] = 0]
  /\ UNCHANGED <<holder, terms>>

Callbacks(r) ==
  OnStartedLeading(r) \/ OnStoppedLeading(r) \/ RunReturns(r) \/ OnNewLeader(r)

LeaderNext ==
  \/ \E r \in Replicas : \/ Acquire(r) \/ Observe(r) \/ RenewFails(r) \/ Callbacks(r)
                         \/ DieIfUnrecoverable(r) \/ Restart(r)
  \/ LeaseExpires

\* Callbacks are run, timers fire when they are not cancelled, leases that
\* nobody renews expire; nobody has to fail.
LeaderSpec ==
  /\ LeaderInit /\ [][LeaderNext]_leaderVars /\ WF_leaderVars(LeaseExpires)
  /\ \A r \in Replicas :
       /\ WF_leaderVars(OnStartedLeading(r)) /\ WF_leaderVars(OnStoppedLeading(r))
       /\ WF_leaderVars(RunReturns(r)) /\ WF_leaderVars(OnNewLeader(r))
       /\ WF_leaderVars(DieIfUnrecoverable(r))

-----------------------------------------------------------------------------
\* Until it loses leadership for the first time, and without recovery that is
\* always, a replica that believes it leads holds the lease or is on the way
\* out of its term (OnStoppedLeading, Fatalf), whatever the callbacks that are
\* late and the settings of the other replicas.  After a loss with recovery it
\* need not: Reset does not reach the Identity that was handed out.
LeadersHoldLease ==
  \A r \in Replicas :
    elected[r] = 0 /\ IsLeader(r) => holder = r \/ pc[r] \in {"stopping", "returned"}

\* Without recovery a replica that loses the lease stops leading.
LoserStepsDown ==
  \A r \in Replicas \ Recover : pc[r] = "stopping" ~> ~IsLeader(r)

\* A replica that lost leadership gets to take part in an election again or
\* ends within the recovery timeout (dieIfUnrecoverable, dontDie).
FailureResolved ==
  \A r \in Replicas : justFailed[r] ~> (~justFailed[r] \/ pc[r] = "dead")
=============================================================================
