CONSTANTS
  N = 1
  Resources = {r1, r2}
  Reports = {"x", "y"}
  Verdicts = {"ok"}
  MaxSyncs = 2
  MaxErrors = 1
SPECIFICATION Spec
INVARIANTS StatusesSettled
PROPERTIES OnlyLeaderWrites StatusesConverge
CHECK_DEADLOCK FALSE
