SPECIFICATION CliFairSpec
CONSTANTS
  NoSource = NoSource
  Grpc = {g1}
  Msgs = {}
  WithId = {}
  Workers = {}
  Notifications = TRUE
  MessageRemoveRetries = 1
  MaxRestarts = 2
  PollRetries = 3
  Commands = {"event", "put", "get", "version", "probe", "invalid"}
  Faults <- MCClientFaults
INVARIANTS
  ShownIsOutcome
  ErrorMeansUnprocessed
  PanicMeansAccepted
PROPERTY ClientsEnd
CHECK_DEADLOCK FALSE
