SPECIFICATION FairSpec
CONSTANTS
  NoSource = NoSource
  Grpc = {g1}
  Msgs = {m1}
  WithId = {m1}
  Workers = {w1}
  Notifications = TRUE
  MessageRemoveRetries = 1
  MaxRestarts = 0
  Faults <- MCStopSlow
PROPERTIES
  AcceptedHasOutcome
  MessagesAreProcessed
  
  StopEnds
CHECK_DEADLOCK FALSE
