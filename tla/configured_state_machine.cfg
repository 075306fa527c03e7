SPECIFICATION Spec
CONSTANTS
  NoFsm = NoFsm
  States <- MCStates
  EventNames <- MCEventNames
  EventIds <- MCEventIds
  Configs <- MCConfigs
  Events <- MCEvents
  MaxHistory = 3
  MaxTransitions = 3
INVARIANTS
  HistoryIsPath
  HistoryIsDeterministic
  ClosedStaysValid
CHECK_DEADLOCK FALSE
