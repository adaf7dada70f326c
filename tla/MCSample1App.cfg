SPECIFICATION AppSpec
CONSTANTS
  text = text  empty = empty  wide = wide
  Inputs = {text, empty, wide}
  BadInputs = {}
  Total <- MCTotal
  Changed <- MCChanged
  Width = 3
  NoInput = NoInput
  ErrorBody = ErrorBody
  Faults = {"send"}
  AgentFound = {TRUE, FALSE}
  AgentMoves = TRUE
  MovesInRequests = FALSE
  MaxRequests = 2
INVARIANTS OnlyZeroUnpaid CleanupBlamed NoUsageError ProcessTraced ReleasedAtExit
PROPERTY NothingLost
