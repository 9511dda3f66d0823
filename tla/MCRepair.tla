------------------------------ MODULE MCRepair ------------------------------
(* The three loops checked together: which of them runs is chosen at the start. *)
EXTENDS Repair

CONSTANT Issues

VARIABLE which

Fix == INSTANCE FixErrorLoop
Crash == INSTANCE FixCodeLoop
Verify == INSTANCE FixVerifyLoop

all == <<vars, which>>

Init == \/ which = "fix" /\ Fix!Init
        \/ which = "crash" /\ Crash!Init
        \/ which = "verify" /\ Verify!Init

Next == /\ UNCHANGED which
        /\ \/ which = "fix" /\ Fix!Next
           \/ which = "crash" /\ Crash!Next
           \/ which = "verify" /\ Verify!Next

\* Nothing but the loop moves: it goes on as long as it can.
Spec == Init /\ [][Next]_all /\ WF_all(Next)

-----------------------------------------------------------------------------
\* The files are always somebody's, and no loop counts an attempt it may not make.
TypeOK ==
    /\ which \in {"fix", "crash", "verify"}
    /\ disk \in Files /\ kept \in Files /\ returned \in Files \cup {None}
    /\ scores \in [Files -> Scores \cup {None}]
    /\ pc \in {"start", "attempt", "call", "check", "test", "end", "agent", "done"}
    /\ attempt \in 0..opt.max
    /\ result \in {None, "success", "failed"} /\ (pc = "done" <=> result # None)

\* What a loop calls success, apart from an agent's word, holds of the files it leaves, in the
\* sense of the Success of its module, which names what faults can spoil.
SuccessIsEarned ==
    /\ which = "fix" => Fix!Success
    /\ which = "crash" => Crash!Success
    /\ which = "verify" => Verify!Success

\* A loop that fails leaves the user's files or better ones, in the sense of the Failure of its
\* module, which names what faults can spoil.
FailureIsHarmless ==
    /\ which = "fix" => Fix!Failure
    /\ which = "crash" => Crash!Failure
    /\ which = "verify" => Verify!Failure

\* The form of the state, and the outcome: what fix_error_loop, fix_code_loop and
\* fix_verification_errors_loop report, an agent's word apart, holds of the files they leave.
OutcomeIsTrue == TypeOK /\ SuccessIsEarned /\ FailureIsHarmless

Dearest == CHOOSE p \in Prices : \A q \in Prices : q <= p
\* The budget is overrun by the call that crosses it and by the agent, never by more.
SpendBound ==
    cost <= Budget + Dearest + (IF agent /\ which # "fix" THEN Dearest ELSE 0)

\* Whatever the model answers, a loop comes to its end.
Ends == <>(pc = "done")

MCScores == {<<0, 0>>, <<0, 1>>, <<1, 0>>}
=============================================================================
