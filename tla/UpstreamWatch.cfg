CONSTANTS
  DataCenters = {d, e}
  Stable = {e}
  NoList = NoList
  MaxEvents = 2
SPECIFICATION Spec
CHECK_DEADLOCK FALSE
INVARIANTS TypeOK ReceivedSettled
PROPERTIES ReceivesLatest CancelEndsWatch
