----------------------------- MODULE MCSyncLoop -----------------------------
EXTENDS SyncLoop

Default == [skipTests |-> FALSE, skipVerify |-> FALSE, target |-> 2, noExtend |-> FALSE,
            isolated |-> FALSE]
SkipTests == [Default EXCEPT !.skipTests = TRUE]
SkipBoth == [Default EXCEPT !.skipTests = TRUE, !.skipVerify = TRUE]
NoExtend == [Default EXCEPT !.noExtend = TRUE]
\* Enough coverage, too little, a failure, tests that did not run, a good exit that counts none.
MCOutcomes == {Report(0, 1, 0, 2, "current"), Report(0, 1, 0, 1, "current"),
               Report(1, 1, 1, 1, "current"), Report(1, 0, 0, 0, "current"), Report(0, 0, 0, 0, "current")}
MCOptions == {Default, NoExtend, SkipTests, SkipBoth}
MCEditable == {"prompt", "code", "example"}
OnlySkipTests == {Default, SkipTests}
ExampleOnly == {"example"}
OneOutcome == {Report(0, 1, 0, 2, "current")}
=============================================================================
