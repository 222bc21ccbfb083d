CONSTANTS
  Plugins = {e, f}
  MaxSyncs = 2
  MaxChanges = 1
  MaxErrors = 1
SPECIFICATION Spec
INVARIANTS EndpointsSettled ReadyMeansStored
PROPERTIES BecomesReady CancelClosesAll
CHECK_DEADLOCK FALSE
