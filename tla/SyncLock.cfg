SPECIFICATION FairLockSpec
CONSTANTS
    p1 = p1  p2 = p2
    i1 = i1  i2 = i2  i3 = i3  i4 = i4  i5 = i5  i6 = i6
    Procs <- TwoProcs
    Inodes <- SixInodes
    Nil = Nil
INVARIANT LeavesNothing
PROPERTIES NeverRefusesItself ReclaimsStale
CHECK_DEADLOCK FALSE
