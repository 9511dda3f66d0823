------------------------------- MODULE Repair -------------------------------
(***************************************************************************)
(* What the three repair loops of pdd have in common: fix_error_loop,      *)
(* fix_code_loop (crash) and fix_verification_errors_loop.  Each asks a    *)
(* model for a new code file and a new side file (the test, or the program *)
(* that runs the code), keeps or takes back what it got, and turns to an   *)
(* agent at the end.                                                       *)
(*                                                                         *)
(* Contents are named after the attempt that wrote them: 0 is the user's,  *)
(* Agents what the agent left, Broken what a write that failed left.       *)
(* Running the same files twice gives the same score; a model's judgement  *)
(* of them may differ each time.  Logs and prompts are left out.           *)
(***************************************************************************)
EXTENDS Integers, FiniteSets

CONSTANTS None,
          MaxAttempts,  \* max_attempts, when it is not 0
          Budget,
          Prices,       \* what a call may cost
          Scores        \* <<errors, failures>> a run may have

ASSUME RepairAssumption ==
    /\ MaxAttempts \in Nat \ {0} /\ Budget \in Nat
    /\ Prices \subseteq Nat /\ \E p \in Prices : \A q \in Prices : q <= p
    /\ Scores \subseteq Nat \X Nat /\ None \notin Scores /\ None \notin {"success", "failed"}

VARIABLES
    opt,        \* the parameters: max, agent (agentic_fallback), protect (protect_tests),
                \* cloudOnly (no_local_fallback)
    disk,       \* the code and the side file
    scores,     \* the score of the files that were run, None of others
    pc, attempt, cost,
    best,       \* best_state or best_iteration
    last,       \* current_state
    kept,       \* the files of this attempt's backup, which the loop has in memory, too
    stalled,    \* the counters of attempts without progress
    giveUp,     \* _cloud_no_fallback_break
    passed,     \* success, or any_verification_passed
    result, returned,
    verified,   \* ghost: code that passed the secondary verification
    cleared,    \* ghost: the files were judged to have no issue, or the run passed
    agent,      \* ghost: the agent was called
    faults      \* ghost: what failed beside the calls and the backups: to "run" the tests, to
                \* "pack" (compress) them, to "read" the files or to "write" or restore them

vars == <<opt, disk, scores, pc, attempt, cost, best, last, kept, stalled, giveUp, passed,
          result, returned, verified, cleared, agent, faults>>

Agents == MaxAttempts + 1
Broken == MaxAttempts + 2
Files == [code : 0..Broken, side : 0..Broken]
Original == [code |-> 0, side |-> 0]

Passes(s) == s = <<0, 0>>
\* What running the files f may show.
Shows(f) == IF scores[f] = None THEN Scores ELSE {scores[f]}

Start ==
    /\ opt \in [max : {0, MaxAttempts}, agent : BOOLEAN, protect : BOOLEAN, cloudOnly : BOOLEAN]
    /\ disk = Original /\ scores = [f \in Files |-> None]
    /\ pc = "start" /\ attempt = 0 /\ kept = Original
    /\ best = None /\ last = None
    /\ stalled = [timeout |-> 0, assertion |-> 0]
    /\ giveUp = FALSE /\ passed = FALSE /\ result = None /\ returned = None
    /\ verified = {} /\ cleared = FALSE /\ agent = FALSE /\ faults = {}

\* The loop returns.
Return(ok, files) ==
    /\ pc' = "done" /\ result' = (IF ok THEN "success" ELSE "failed") /\ returned' = files

\* What may be on disk when the files f are written and one of the writes fails, the side
\* file being the first or the code.
SideFirst(f) == {disk, [disk EXCEPT !.side = Broken], [f EXCEPT !.code = disk.code],
                 [f EXCEPT !.code = Broken]}
CodeFirst(f) == {disk, [disk EXCEPT !.code = Broken], [f EXCEPT !.side = disk.side],
                 [f EXCEPT !.side = Broken]}

\* The agent edits what it likes.
CallAgent ==
    /\ pc = "agent"
    /\ \E p \in Prices : cost' = cost + p
    /\ \E code \in {disk.code, Agents}, side \in {disk.side, Agents} :
          disk' = [code |-> code, side |-> side]
    /\ agent' = TRUE
    /\ UNCHANGED <<opt, scores, attempt, best, last, kept, stalled, giveUp, passed, verified,
                   cleared, faults>>
=============================================================================
