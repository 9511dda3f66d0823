SPECIFICATION FairSpec
CONSTANTS
    None = None
    Modules <- ForkModules
    Deps <- ForkDeps
    Workers = 2
    NoResumes = {FALSE}
    MaxRuns = 5
    AskWhenDone = FALSE
    MaxFaults = 2
INVARIANTS TreesAreSound DoneIsExact
PROPERTIES Promise Completes
CHECK_DEADLOCK FALSE
