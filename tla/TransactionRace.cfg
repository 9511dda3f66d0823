SPECIFICATION Spec
CONSTANTS
    Procs = {p1, p2}
    Txns = {"pair", "revert"}
    Locks = {1, 2}
    Paths = {1, 2}
    Contents = {old, new, other}
    old = old
    new = new
    other = other
    Missing = Missing
    Special = Special
    AnyState = AnyState
    None = None
    Writes <- MCWrites
    Desired <- MCDesired
    Expected <- MCExpected
    Shared <- MCShared
    InitDest <- MCInitDest
    ConcurrentRecovery = TRUE
    MaxEdits = 1
    MaxCrashes = 2
    MaxFaults = 1
    MaxEvents = 2
SYMMETRY MCSymmetry
CHECK_DEADLOCK FALSE
INVARIANTS RolledBackClean
PROPERTIES LocksCoverWrites CommitComplete OverwritesOnlyRecorded TerminalIsFinal
