CONSTANTS
  c1 = c1
  c2 = c2
  Commands = {c1, c2}
  None = None
  Max = 1
  MaxTries = 2
  MaxFaults = 3
  Unlucky = {c1}
SPECIFICATION FairSpec
CHECK_DEADLOCK FALSE
INVARIANTS CloudIsRight ExecutedAsAsked NoOrphan
PROPERTY Answered
