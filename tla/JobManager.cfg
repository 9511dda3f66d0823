SPECIFICATION FairSpec
CONSTANTS
    Jobs = {j1, j2, j3}
    Max = 1
CHECK_DEADLOCK FALSE
INVARIANTS ChildrenCapped AnnouncedOnce
PROPERTIES KeepsLifecycle Ends
