SPECIFICATION Spec
CONSTANTS
  NoFsm = NoFsm
  Ids = {i1}
  EventCalls = {e1, e2}
  PutCalls = {p1}
  States <- MCStates
  EventNames <- MCEventNames
  EventIds <- MCEventIds
  Events <- MCEvents
  PutRequests <- MCPutDefault
  Config <- MCConfig
  Faults <- MCNoFaults
  DefaultMaxRetries = 2
  MaxRetries = 2
INVARIANT OnlyVisitedStates
CHECK_DEADLOCK FALSE
