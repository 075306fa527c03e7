SPECIFICATION Spec
CONSTANTS
  NoSource = NoSource
  Grpc = {g1}
  Msgs = {m1}
  WithId = {}
  Workers = {w1}
  Notifications = TRUE
  MessageRemoveRetries = 1
  MaxRestarts = 0
  Faults <- MCStop
INVARIANT NeverPanics
SYMMETRY Symmetry
CHECK_DEADLOCK FALSE
