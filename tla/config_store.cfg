SPECIFICATION ReadersSpec
CONSTANTS
  NoConfig = NoConfig
  Calls = {c1, c2}
  Readers = {r1}
  Queries <- MCQueries
  States <- MCStates
  EventNames <- MCEventNames
  EventIds <- MCEventIds
  Requests <- MCRequests
  MaxRetries = 2
  Faults <- MCFaults
INVARIANTS
  AcknowledgedIsStored
  StoredIsListed
  UnreadableOnlyAfterFailure
  AnswerHasAcknowledged
  ReadIsCurrent
PROPERTY ImmutableUnlessRaced
SYMMETRY Symmetry
CHECK_DEADLOCK FALSE
