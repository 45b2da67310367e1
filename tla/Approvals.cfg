SPECIFICATION Spec
CONSTANTS
  c1 = c1
  c2 = c2
  Call = {c1, c2}
  Tool <- MCTool
  Turn <- MCTurn
  MaxResolved = 1
  MaxTokens = 1
  MaxRetries = 1
  None = None
INVARIANTS
  RunsWithConsent
  AnswersAreTrue
PROPERTIES
  CallEnds
CHECK_DEADLOCK FALSE
