CONSTANTS
  None = None
  Budget = 2
  MaxTests = 3
  MaxExtends = 2
  MaxCrashes = 3
  MaxFixes = 3
  Options <- OnlySkipTests
  Outcomes <- OneOutcome
  Editable <- ExampleOnly
SPECIFICATION Spec
CHECK_DEADLOCK FALSE
PROPERTY AlwaysReturns
