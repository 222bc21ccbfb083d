CONSTANTS
  Upstreams = {u, v}
  Plugins = {p}
  Tokens = 1
  MaxUpdaters = 2
  MaxEdits = 1
SPECIFICATION Spec
INVARIANTS TypeOK TokensConserved OneUpdater EditsKept
PROPERTY DetectionEnds
CHECK_DEADLOCK FALSE
