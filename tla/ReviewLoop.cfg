\* One finding by agents and one of the loop, two rounds, one push by others.
SPECIFICATION FairSpec
CONSTANTS
    Issues = {f1}
    Check = check
    Configs <- MCConfigs
    Leaves <- MCLeaves
    MaxRounds = 2
    MaxOthers = 1
INVARIANTS ReportIsTrue PushesAreSound Independent
PROPERTY Ends
CHECK_DEADLOCK FALSE
