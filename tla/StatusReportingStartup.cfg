CONSTANTS
  N = 1
  Resources = {r1, r2}
  Reports = {"x"}
  Verdicts = {"ok"}
  MaxSyncs = 1
  MaxErrors = 0
SPECIFICATION Spec
PROPERTY StartupCatchesUp
CHECK_DEADLOCK FALSE
