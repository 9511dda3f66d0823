SPECIFICATION FairSpec
CONSTANTS
    NoBudget = NoBudget  NoIssue = NoIssue  None = None
    s1 = s1
    Modules <- CycleModules
    Deps <- CycleDeps
    Workers = 2
    Budgets <- BothBudgets
    InitialCost = 0
    Issues <- OneIssue
    Costs <- OneCost
    Kinds <- OneKind
    Signatures = {s1}
    MaxRuns = 2
    MaxRaises = 1
INVARIANTS UpstreamDone PickedSafely NothingForgotten ReportIsTrue SpendBound
PROPERTIES ProgressKept Returns
CHECK_DEADLOCK FALSE
