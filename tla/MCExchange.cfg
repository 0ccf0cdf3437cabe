SPECIFICATION FairSpec
CONSTANTS
  x1 = x1
  x2 = x2
  Requests = {x1, x2}
  Chained = {x1}
  MaxCallbacks = 3
  MaxDepth = 2
  Throws = TRUE
  Options <- MCOptions
  Answers <- MCAnswers
CHECK_DEADLOCK FALSE
INVARIANTS OutcomeFits OverIsSilent CalledInTurn VerdictStands
PROPERTIES ImplementsPromise EveryRequestCompletes
