CONSTANTS
  None = None
  MaxAttempts = 3
  Budget = 3
  Prices = {0, 2}
  Scores <- MCScores
  Issues = {0, 1, 2}
SPECIFICATION Spec
CHECK_DEADLOCK FALSE
INVARIANTS OutcomeIsTrue SpendBound
PROPERTY Ends
