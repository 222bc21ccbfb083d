CONSTANTS
  Gateways = {g, h}
  Services = {v, w}
  Upstreams = {u}
  Absent = Absent
  NoSnapshot = NoSnapshot
  Ports <- MCPorts
  Configs <- MCConfigs
  FirstConfig <- Plain
  FirstGateway = g
  FirstService = v
  AllowWarnings = FALSE
  MaxEdits = 3
  MaxFaults = 1
SPECIFICATION Spec
CHECK_DEADLOCK FALSE
INVARIANTS TypeOK AdmittedValid DisabledWhileBroken
PROPERTIES ConfigConverges RejectedStayServed
