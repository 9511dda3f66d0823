CONSTANTS
  None = None
  Budget = 2
  MaxTests = 3
  MaxExtends = 2
  MaxCrashes = 3
  MaxFixes = 3
  Options <- MCOptions
  Outcomes <- MCOutcomes
  Editable <- MCEditable
SPECIFICATION Spec
CHECK_DEADLOCK FALSE
INVARIANTS Bounded SuccessIsTested EditsAreSeen SyncedStays
