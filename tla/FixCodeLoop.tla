----------------------------- MODULE FixCodeLoop -----------------------------
(* fix_code_loop of pdd/fix_code_loop.py, for a Python unit whose files exist: the side file
   is the program that runs the code. *)
EXTENDS Repair

\* prior_cost
Init == Start /\ cost \in {0} \cup Prices

rest == <<opt, best, last, kept, stalled, giveUp, verified, cleared>>

\* The program is run; when it fails and the attempt's backups are made, the model is called.
Attempt ==
    /\ pc \in {"start", "attempt"} /\ UNCHANGED <<attempt, cost, disk, rest, agent, result, returned, faults>>
    /\ IF attempt < opt.max /\ cost <= Budget
       THEN \E s \in Shows(disk) :
              /\ scores' = [scores EXCEPT ![disk] = s]
              /\ passed' = Passes(s)
              /\ pc' \in IF Passes(s) THEN {"end"} ELSE {"call", "end"}
       ELSE pc' = "end" /\ UNCHANGED <<scores, passed>>

\* The answer is applied unless it broke the budget; when it has no update, or it cannot be
\* written, the loop stops.
Call ==
    /\ pc = "call" /\ attempt' = attempt + 1
    /\ \/ pc' = "end" /\ UNCHANGED <<cost, disk>>
       \/ \E p \in Prices, code \in {disk.code, attempt'}, side \in {disk.side, attempt'} :
            /\ cost' = cost + p
            /\ LET new == [code |-> code, side |-> side] IN
               IF cost' > Budget
               THEN pc' = "end" /\ UNCHANGED disk
               ELSE \/ pc' = "attempt" /\ disk' = new
                    \/ pc' = "end" /\ disk' \in CodeFirst(new)
    /\ UNCHANGED <<scores, passed, result, returned, rest, agent, faults>>

Restored == Original

\* Mutant: the originals come back after a success, too.
LeftMutant == Restored
Left == IF passed THEN disk ELSE Restored

Fails == IF opt.agent THEN pc' = "agent" /\ UNCHANGED <<result, returned>>
                      ELSE Return(FALSE, None)

\* A success is one no more when its files cannot be read; the restore may fail, too.
End ==
    /\ pc = "end"
    /\ \/ /\ disk' = Left /\ UNCHANGED faults
          /\ IF passed THEN Return(TRUE, disk) ELSE Fails
       \/ passed /\ UNCHANGED disk /\ faults' = {"read"} /\ Fails
       \/ ~ passed /\ disk' \in CodeFirst(Restored) /\ faults' = {"write"} /\ Fails
    /\ UNCHANGED <<scores, attempt, cost, passed, rest, agent>>

Agent == CallAgent /\ \E ok \in BOOLEAN : Return(ok, IF ok THEN disk' ELSE None)

Next == Attempt \/ Call \/ End \/ Agent

-----------------------------------------------------------------------------
\* Success means that the program ran on the files on disk.
Success == result = "success" /\ ~ agent => Passes(scores[disk]) /\ returned = disk

\* Without success the user's files are back, unless the restore failed, or the program ran on
\* the files and only reading them failed.
Failure == result = "failed" /\ ~ agent =>
    disk = Original \/ "write" \in faults \/ ("read" \in faults /\ Passes(scores[disk]))
=============================================================================
