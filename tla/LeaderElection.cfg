CONSTANTS
  Replicas = {a, b}
  NoReplica = NoReplica
  Recover = {b}
  MaxTerms = 3
SPECIFICATION LeaderSpec
INVARIANTS LeadersHoldLease
PROPERTIES LoserStepsDown FailureResolved
CHECK_DEADLOCK FALSE
