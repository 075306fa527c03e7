SPECIFICATION Spec
CONSTANTS
  NoSource = NoSource
  Grpc = {g1}
  Msgs = {m1}
  WithId = {m1}
  Workers = {w1, w2}
  Notifications = FALSE
  MessageRemoveRetries = 1
  MaxRestarts = 0
  Faults <- MCRedelivery
INVARIANT OutcomeIsTrue
SYMMETRY Symmetry
CHECK_DEADLOCK FALSE
