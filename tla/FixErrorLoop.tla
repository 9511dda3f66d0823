---------------------------- MODULE FixErrorLoop ----------------------------
(* fix_error_loop of pdd/fix_error_loop.py, for a Python unit whose files exist: the side
   file is the test.  How a run failed is its kind. *)
EXTENDS Repair

Better(a, b) == a[1] < b[1] \/ (a[1] = b[1] /\ a[2] < b[2])
Total(s) == s[1] + s[2]

Init == Start /\ cost = 0

rest == <<opt, verified, cleared, agent>>

\* The initial run of the tests, or its exception.
Begin ==
    /\ pc = "start"
    /\ \/ \E s \in Shows(disk) :
            /\ scores' = [scores EXCEPT ![disk] = s]
            /\ IF Passes(s)
               THEN Return(TRUE, disk) /\ UNCHANGED <<best, last>>
               ELSE /\ best' = [score |-> s, it |-> 0, files |-> disk] /\ last' = best'
                    /\ pc' = "attempt" /\ UNCHANGED <<result, returned>>
       \/ /\ UNCHANGED <<scores, best, last>>
          /\ IF opt.agent THEN pc' = "agent" /\ UNCHANGED <<result, returned>>
                          ELSE Return(FALSE, disk)
    /\ UNCHANGED <<disk, attempt, cost, kept, stalled, giveUp, passed, faults, rest>>

\* Mutant: the budget is not looked at.
AffordableMutant == TRUE
Affordable == cost < Budget

\* An attempt begins with backups, which may fail.
Attempt ==
    /\ pc = "attempt"
    /\ IF attempt = opt.max
       THEN pc' = "end" /\ UNCHANGED <<attempt, kept>>
       ELSE /\ attempt' = attempt + 1
            /\ \/ ~ Affordable /\ pc' = "end" /\ UNCHANGED kept
               \/ Affordable /\ pc' = "end" /\ UNCHANGED kept
               \/ Affordable /\ pc' = "call" /\ kept' = disk
    /\ UNCHANGED <<disk, scores, cost, best, last, stalled, giveUp, passed, result, returned,
                   faults, rest>>

\* The model answers, fails, or cannot be given the tests in a compressed form.
Call ==
    /\ pc = "call"
    /\ \/ /\ \E p \in Prices : cost' = cost + p
          /\ \E code \in {disk.code, attempt},
                side \in {disk.side} \cup (IF opt.protect THEN {} ELSE {attempt}) :
                disk' = [code |-> code, side |-> side]
          /\ pc' = "check" /\ UNCHANGED <<giveUp, result, returned, faults>>
       \/ /\ pc' = "end" /\ giveUp' = opt.cloudOnly
          /\ UNCHANGED <<disk, cost, result, returned, faults>>
       \/ /\ Return(FALSE, disk) /\ faults' = {"pack"}
          /\ UNCHANGED <<disk, cost, giveUp>>
    /\ UNCHANGED <<scores, attempt, best, last, kept, stalled, passed, rest>>

\* The verification program; when it fails both files are taken back.
Check ==
    /\ pc = "check" /\ pc' = "test" /\ disk' \in {disk, kept}
    /\ UNCHANGED <<scores, attempt, cost, best, last, kept, stalled, giveUp, passed, result,
                   returned, faults, rest>>

\* Early ends: two timeouts that are no improvement, three assertion failures that are no
\* fewer, the same syntax error again.
Stalls(kind, s) ==
    /\ stalled' = [timeout |-> IF kind # "timeout" \/ Better(s, best.score) THEN 0
                               ELSE stalled.timeout + 1,
                   assertion |-> IF kind # "assertion" \/ Total(s) < Total(last.score) THEN 0
                                 ELSE stalled.assertion + 1]
    /\ pc' \in CASE kind = "timeout" -> {IF stalled'.timeout >= 2 THEN "end" ELSE "attempt"}
                 [] kind = "assertion" -> {IF stalled'.assertion >= 3 THEN "end" ELSE "attempt"}
                 [] kind = "syntax" -> {"end", "attempt"}
                 [] OTHER -> {"attempt"}

\* The tests, or their exception.
Test ==
    /\ pc = "test"
    /\ \/ \E s \in Shows(disk) :
            /\ scores' = [scores EXCEPT ![disk] = s]
            /\ IF Passes(s)
               THEN Return(TRUE, disk) /\ UNCHANGED <<best, last, stalled>>
               ELSE /\ \E kind \in {"timeout", "assertion", "syntax", "other"} : Stalls(kind, s)
                    /\ last' = [score |-> s, it |-> attempt, files |-> disk]
                    /\ best' = IF Better(s, best.score) THEN last' ELSE best
                    /\ UNCHANGED <<result, returned>>
            /\ UNCHANGED faults
       \/ /\ pc' = "end" /\ faults' = {"run"}
          /\ UNCHANGED <<scores, best, last, stalled, result, returned>>
    /\ UNCHANGED <<disk, attempt, cost, kept, giveUp, passed, rest>>

\* The files of the best iteration, unless the last one is the best.
Restored ==
    IF best.it = last.it THEN disk
    ELSE [code |-> best.files.code, side |-> IF opt.protect THEN disk.side ELSE best.files.side]

End ==
    /\ pc = "end"
    /\ disk' = Restored
    /\ IF opt.agent /\ cost < Budget /\ ~ giveUp
       THEN pc' = "agent" /\ UNCHANGED <<result, returned>>
       ELSE Return(FALSE, best.files)
    /\ UNCHANGED <<scores, attempt, cost, best, last, kept, stalled, giveUp, passed, faults, rest>>

Agent == CallAgent /\ \E ok \in BOOLEAN : Return(ok, disk')

Next == Begin \/ Attempt \/ Call \/ Check \/ Test \/ End \/ Agent

-----------------------------------------------------------------------------
\* Success means that the tests passed on the files on disk.
Success == result = "success" /\ ~ agent => Passes(scores[disk]) /\ returned = disk

\* Without success what is returned is what is on disk, and no worse than the user's files;
\* where the loop left at once because the tests could not be compressed, it is what was
\* tested last.  Where the tests could not be run after an attempt, its files may be left.
Failure ==
    result = "failed" /\ ~ agent =>
        /\ "run" \notin faults => returned = disk
        /\ "pack" \in faults => disk = last.files
        /\ faults = {} => scores[disk] = None \/ ~ Better(scores[Original], scores[disk])
=============================================================================
