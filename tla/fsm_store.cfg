SPECIFICATION FairSpec
CONSTANTS
  NoFsm = NoFsm
  Ids = {i1}
  EventCalls = {e1, e2}
  PutCalls = {p1}
  States <- MCStates
  EventNames <- MCEventNames
  EventIds <- MCEventIds
  Events <- MCEvents
  PutRequests <- MCPutRequests
  Config <- MCConfig
  Faults <- MCAllFaults
  DefaultMaxRetries = 2
  MaxRetries = 2
INVARIANTS
  TypeOK
  ResultIsTrue
  RetriesArePaidFor
  
  
PROPERTIES
  EventsAreAtomic
  CallsReturn
CHECK_DEADLOCK FALSE
