SPECIFICATION FairSpec
CONSTANTS
  text = text  bang = bang
  Inputs = {text, bang}
  BadInputs = {bang}
  NoInput = NoInput
  ErrorBody = ErrorBody
  Faults = {"spawn", "async", "transport", "db", "send"}
  AgentFound = {TRUE, FALSE}
  AgentMoves = TRUE
  MaxRequests = 2
INVARIANTS TypeOK StructuredThreads NoUsageError QuiescentClean LinkedHops BilledOnce AnswerIsWhole ErrorTrail
PROPERTIES ImplementsService RequestAnswered
