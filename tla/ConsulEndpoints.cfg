CONSTANTS
  Services = {s, t}
  HostNamed = {s}
  NoList = NoList
  MaxConsulChanges = 2
  MaxFailures = 2
SPECIFICATION EndpointsSpec
CHECK_DEADLOCK FALSE
INVARIANTS EndpointsTypeOK EndpointsSettled
PROPERTIES EndpointsConverge
