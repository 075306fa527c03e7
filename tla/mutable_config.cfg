SPECIFICATION ReadersSpec
CONSTANTS
  NoConfig = NoConfig
  Calls = {c1, c2}
  Readers = {}
  Queries = {}
  States <- MCStates
  EventNames <- MCEventNames
  EventIds <- MCEventIds
  Requests <- MCRequests
  MaxRetries = 2
  Faults <- MCNoFaults
PROPERTY Immutable
SYMMETRY Symmetry
CHECK_DEADLOCK FALSE
