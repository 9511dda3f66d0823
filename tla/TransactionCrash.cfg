SPECIFICATION RecoveredSpec
CONSTANTS
    Procs = {p1, p2}
    Txns = {"pair", "revert"}
    Locks = {1, 2}
    Paths = {1, 2}
    Contents = {old, new, other}
    old = old
    new = new
    other = other
    Missing = Missing
    Special = Special
    AnyState = AnyState
    None = None
    Writes <- MCWrites
    Desired <- MCDesired
    Expected <- MCExpected
    Shared <- MCShared
    InitDest <- MCInitDest
    ConcurrentRecovery = FALSE
    MaxEdits = 1
    MaxCrashes = 2
    MaxFaults = 0
    MaxEvents = 2
CHECK_DEADLOCK FALSE
INVARIANTS NoDeadlock
PROPERTIES RecoveryDecides
