SPECIFICATION StreamsFairSpec
CONSTANTS
  NoFsm = NoFsm
  Ids = {i1, i2}
  EventCalls = {e1}
  PutCalls = {p1, p2}
  Readers = {r1}
  States <- MCStates
  EventNames <- MCEventNames
  EventIds <- MCEventIds
  Events <- MCEvents
  PutRequests <- MCPutRequests
  Queries <- MCQueries
  Config <- MCConfig
  Faults <- MCFaults
  DefaultMaxRetries = 2
  MaxRetries = 2
INVARIANTS
  
  StreamIsComplete
  StreamedBelongs
PROPERTY
  ReadersEnd
CHECK_DEADLOCK FALSE
