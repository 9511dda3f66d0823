---------------------------- MODULE MCSyncRunner ----------------------------
(* Small instances of SyncRunner for TLC.                                  *)
EXTENDS SyncRunner, TLC

CONSTANTS s1

\* A cycle 1 <-> 2 that depends on 3 through 2, and a consumer 4 of 1; 5 is
\* independent of all of them.
CycleModules == 1..5
CycleDeps == (1 :> {2}) @@ (2 :> {1, 3}) @@ (3 :> {}) @@ (4 :> {1}) @@ (5 :> {})

\* A consumer 3 of 1, and 2 beside them.
ForkModules == 1..3
ForkDeps == (1 :> {}) @@ (2 :> {}) @@ (3 :> {1})

OneIssue == {"issue"}
IssueOrNone == {"issue", NoIssue}
NoBudgets == {NoBudget}
SomeBudgets == {4}
BothBudgets == {NoBudget, 3}
OneCost == {1}
SomeCosts == {1, 2}
NoKinds == {}
OneKind == {"test_churn"}
=============================================================================
