CONSTANTS
  NoRef = NoRef
  Proxies = {"a", "b"}
  Upstreams = {u, v}
  Eds = {u}
  Listeners <- MCListeners
  Fallback = Fallback
  NoSnapshot = NoSnapshot
  MaxEnvoySyncs = 2
  MaxListErrors = 1
SPECIFICATION EnvoySpec
CHECK_DEADLOCK FALSE
INVARIANTS ServedConsistent StaleNodesEmptied NoDanglingRoutes ErrorsContained
