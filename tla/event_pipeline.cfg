SPECIFICATION Spec
CONSTANTS
  NoSource = NoSource
  Grpc = {g1}
  Msgs = {m1}
  WithId = {m1}
  Workers = {w1, w2}
  Notifications = TRUE
  MessageRemoveRetries = 1
  MaxRestarts = 1
  Faults <- MCFailures
INVARIANTS
  OkMeansApplied
  ErrorsAreAnnounced
  AppliedOncePerDelivery
  UnpostedIsUnprocessed
  DeletedIsTaken
PROPERTIES
  OkStaysOk
  
SYMMETRY Symmetry
CHECK_DEADLOCK FALSE
