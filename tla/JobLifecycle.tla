---------------------------- MODULE JobLifecycle ----------------------------
(***************************************************************************)
(* What the job server promises of a job, whatever its tasks, threads and  *)
(* children do: it is queued, at most Max run at once, it ends in one way  *)
(* and stays there, and it does end.                                       *)
(***************************************************************************)
EXTENDS Naturals, FiniteSets

CONSTANTS Jobs, Max

VARIABLE status     \* Job.status; "new" before the job is submitted

Active == {"queued", "running"}
Finished == {"completed", "failed", "cancelled"}
Running == {j \in Jobs : status[j] = "running"}

Init == status = [j \in Jobs |-> "new"]

Submit(j) == status[j] = "new" /\ status' = [status EXCEPT ![j] = "queued"]

Run(j) ==
    /\ status[j] = "queued" /\ Cardinality(Running) < Max
    /\ status' = [status EXCEPT ![j] = "running"]

End(j) ==
    /\ status[j] = "running"
    /\ \E s \in {"completed", "failed"} : status' = [status EXCEPT ![j] = s]

\* One job, or all that are active when the server stops.
Cancel(S) ==
    /\ \A j \in S : status[j] \in Active
    /\ status' = [j \in Jobs |-> IF j \in S THEN "cancelled" ELSE status[j]]

Next ==
    \/ \E j \in Jobs : Submit(j) \/ Run(j) \/ End(j)
    \/ \E S \in SUBSET Jobs : Cancel(S)

Safety == Init /\ [][Next]_status

\* Every job that is submitted ends.
Progress == \A j \in Jobs : status[j] = "queued" ~> status[j] \in Finished
=============================================================================
