---------------------------- MODULE FixVerifyLoop ----------------------------
(* fix_verification_errors_loop of pdd/fix_verification_errors_loop.py, for a Python unit
   whose files exist: the side file is the program the model judges the output of, and a
   verification program decides about each new code.  The judgement of the model is a number
   of issues, and -1 when it has none.  kept is program_contents and code_contents. *)
EXTENDS Repair

CONSTANT Issues     \* the judgements the model may make

Unknown == 1000     \* float('inf')

Init == Start /\ cost = 0

rest == <<opt, stalled, giveUp>>

\* The first run and the first judgement, which is skipped when there are to be no attempts.
\* last is stats['initial_issues'].
Begin ==
    /\ pc = "start"
    /\ IF opt.max = 0
       THEN /\ \E s \in Shows(disk) :
                 /\ scores' = [scores EXCEPT ![disk] = s]
                 /\ cleared' = Passes(s)
                 /\ IF Passes(s) THEN Return(TRUE, disk)
                    ELSE /\ pc' = "end" /\ UNCHANGED <<result, returned>>
            /\ last' = -1 /\ best' = [it |-> -1, files |-> disk, issues |-> Unknown]
            /\ UNCHANGED cost
       ELSE /\ UNCHANGED scores
            /\ \/ Return(FALSE, disk) /\ UNCHANGED <<cost, best, last, cleared>>
               \/ \E n \in Issues \cup {-1}, p \in Prices :
                    /\ cost' = cost + p /\ last' = n /\ cleared' = (n = 0)
                    /\ best' = [it |-> 0, files |-> disk,
                                issues |-> IF n = -1 THEN Unknown ELSE n]
                    /\ IF n = 0 THEN Return(TRUE, disk)
                       ELSE IF cost' >= Budget THEN Return(FALSE, disk)
                            ELSE pc' = "attempt" /\ UNCHANGED <<result, returned>>
    /\ UNCHANGED <<disk, kept, attempt, passed, verified, agent, faults, rest>>

More == attempt < opt.max

\* An attempt begins by writing what is in memory and with its backups, which may fail.
Attempt ==
    /\ pc = "attempt"
    /\ \/ ~ (More /\ cost < Budget) /\ pc' = "end" /\ UNCHANGED <<attempt, disk, faults>>
       \/ /\ More /\ cost < Budget /\ attempt' = attempt + 1
          /\ \/ pc' \in {"call", "end"} /\ disk' = kept /\ UNCHANGED faults
             \/ pc' = "end" /\ disk' \in SideFirst(kept) /\ faults' = {"write"}
    /\ UNCHANGED <<kept, scores, cost, best, last, passed, verified, cleared, result, returned,
                   agent, rest>>

Judged(n) == IF n < best.issues THEN [it |-> attempt, files |-> kept, issues |-> n] ELSE best

\* Mutant: an attempt whose call fails is not counted.
AgainMutant == attempt' = attempt - 1
Again == UNCHANGED attempt

\* The call fails, or reading its answer: the next attempt is made.
CallFails ==
    /\ pc = "call" /\ pc' = "attempt" /\ Again
    /\ \E p \in Prices \cup {0} : cost' = cost + p
    /\ UNCHANGED <<disk, kept, scores, best, last, passed, verified, cleared, result, returned,
                   agent, faults, rest>>

\* The model has no judgement, or its judgement is the last one the budget allows.
CallEnds ==
    /\ pc = "call" /\ pc' = "end"
    /\ \E p \in Prices :
          /\ cost' = cost + p
          /\ \/ UNCHANGED best
             \/ cost' >= Budget /\ \E n \in Issues : best' = Judged(n)
    /\ UNCHANGED <<disk, kept, scores, attempt, last, passed, verified, cleared, result,
                   returned, agent, faults, rest>>

\* Code that passed the verification program, or the code as it was; whose files are judged,
\* with n issues, as they were before.
Accept(code, n) ==
    /\ best' = Judged(n)
    /\ passed' = (passed \/ code # kept.code)
    /\ verified' = verified \cup ({code} \ {kept.code})

\* The model judges the files as they are and proposes others.  Code that is new must pass the
\* verification program, or nothing of the proposal is kept.  A program that cannot be written
\* leaves the verified code on disk and not in memory.
Call ==
    /\ pc = "call"
    /\ \E n \in Issues, p \in Prices, code \in {kept.code, attempt}, side \in {kept.side, attempt} :
          /\ cost' = cost + p /\ cost' < Budget
          /\ \/ /\ Accept(code, n)
                /\ disk' = [code |-> code, side |-> side] /\ kept' = disk'
                /\ cleared' = (n = 0)
                /\ pc' = IF n = 0 \/ disk' = disk THEN "end" ELSE "attempt"
                /\ UNCHANGED faults
             \/ /\ Accept(code, n)
                /\ side # kept.side /\ faults' = {"write"}
                /\ \E left \in {kept.side, Broken} : disk' = [code |-> code, side |-> left]
                /\ pc' = IF n = 0 THEN "attempt" ELSE "end"
                /\ UNCHANGED <<kept, cleared>>
             \/ /\ code # kept.code /\ pc' = "attempt"
                /\ \/ UNCHANGED <<disk, faults>>
                   \/ faults' = {"write"} /\ disk' \in {[disk EXCEPT !.code = c] : c \in {code, Broken}}
                /\ UNCHANGED <<kept, best, passed, verified, cleared>>
    /\ UNCHANGED <<scores, attempt, last, result, returned, agent, rest>>

Improved == best.it > 0 /\ best.issues < (IF last = -1 THEN Unknown ELSE last)

\* The best iteration, else what was verified last, else the user's files.
Restored == IF Improved THEN best.files ELSE IF passed THEN kept ELSE Original

\* With no first judgement the statistics take a best iteration without issues for success.
CountsAsClear == last = -1 /\ Improved /\ best.issues = 0

Fails == IF opt.agent THEN pc' = "agent" /\ UNCHANGED <<result, returned>>
                      ELSE Return(FALSE, kept')

\* The user's files are written where they differ from those in memory.
BackTo(f) == [code |-> IF f.code = kept.code THEN disk.code ELSE f.code,
              side |-> IF f.side = kept.side THEN disk.side ELSE f.side]

End ==
    /\ pc = "end"
    /\ \/ /\ kept' = (IF cleared THEN kept ELSE Restored) /\ UNCHANGED faults
          /\ disk' = IF Improved /\ ~ cleared THEN kept' ELSE BackTo(kept')
          /\ IF cleared \/ passed \/ CountsAsClear THEN Return(TRUE, kept') ELSE Fails
       \/ /\ ~ cleared /\ faults' = {"write"} /\ UNCHANGED kept /\ Fails
          /\ \/ Improved /\ disk' \in SideFirst(best.files)
             \/ ~ Improved /\ ~ passed /\ kept.side # 0 /\ disk' \in {disk, [disk EXCEPT !.side = Broken]}
    /\ UNCHANGED <<scores, attempt, cost, best, last, passed, verified, cleared, agent, rest>>

Agent == CallAgent /\ \E ok \in BOOLEAN : Return(ok, IF ok THEN disk' ELSE kept)

Next == Begin \/ Attempt \/ CallFails \/ CallEnds \/ Call \/ End \/ Agent

-----------------------------------------------------------------------------
\* Success means of the files that are left, and returned, that their code is the user's or
\* passed the verification program, and that the model found no issue, or that their code
\* passed, or that they are the best iteration, judged better than the user's files: without
\* an issue, or some other code passed.  After a failing write code of the run was verified,
\* which need not be what is left.
Success == result = "success" /\ ~ agent =>
    \/ /\ returned = disk /\ disk.code \in {0} \cup verified
       /\ \/ cleared \/ disk.code \in verified
          \/ Improved /\ disk = best.files /\ (best.issues = 0 \/ verified # {})
    \/ "write" \in faults /\ verified # {}

\* Without success the code is the user's, and so is the program unless it was judged better,
\* if every write succeeded.
Failure == result = "failed" /\ ~ agent /\ "write" \notin faults =>
    disk.code = 0 /\ returned = disk /\ (disk.side = 0 \/ (best.it > 0 /\ disk = best.files))
=============================================================================
