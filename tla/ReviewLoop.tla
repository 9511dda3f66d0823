----------------------------- MODULE ReviewLoop -----------------------------
(***************************************************************************)
(* The review loop of `pdd checkup --pr --review-loop`                     *)
(* (run_checkup_review_loop of pdd/checkup_review_loop.py): a reviewer     *)
(* agent reads the head of a pull request in a worktree of the loop's own, *)
(* a fixer agent answers its findings there, the fix is committed and      *)
(* pushed to the pull request's branch, the reviewer verifies the pushed   *)
(* head, deterministic gates are run before anything is called clean, and  *)
(* so on until the head is clean, the rounds or the budget are spent, or   *)
(* a step fails.  Everybody else keeps pushing to the same branch.         *)
(*                                                                         *)
(* A head (a commit SHA) is the set of the pieces of work it contains: a   *)
(* branch only grows and a rebase replays the same work, so two heads are  *)
(* the same commit exactly when their contents are equal.  NoHead is the   *)
(* None of the code.  The budget (cost and deadline) may run out at any    *)
(* moment: Exhaust.  Findings keep their key and status; everything that   *)
(* is not a reviewer's (a failing gate, Layer 1 evidence, a conflict with  *)
(* the base) is the one finding Check, whose reviewer no agent is.         *)
(***************************************************************************)
EXTENDS Naturals, FiniteSets

CONSTANTS
    Issues,      \* the findings a reviewer can report (ReviewFinding.key)
    Check,       \* a finding of the loop itself: gate, evidence, conflict
    Configs,     \* the configurations (ReviewLoopConfig) under study
    Leaves,      \* what a fixer may leave: commits (TRUE), edits (FALSE)
    MaxRounds,   \* config.max_rounds
    MaxOthers    \* bound: pushes to the pull request by anybody else

PushTries == 3   \* attempts to push past a branch that has advanced

Hard == {"failed", "degraded"}      \* HARD_NOT_CLEAN_STATES
Agents == {"primary", "peer", "standby", "fixer", "spare"}

\* The options that change the loop's control.  `standby' is a distinct
\* reviewer_fallback, `optIn' is fallback_reviewer_on_failure, `spare' the
\* fixer_fallback ("none", a distinct role, or the role of the standby),
\* `evidence' that Layer 1 handed failing shell evidence over,
\* `unread' that the SHA of the worktree could not be read at the start.
ConfigSpace ==
    [agentic : BOOLEAN, gates : BOOLEAN, peer : BOOLEAN, standby : BOOLEAN,
     optIn : BOOLEAN, spare : {"none", "spare", "standby"},
     reviewOnly : BOOLEAN, evidence : BOOLEAN, unread : BOOLEAN]

ASSUME ReviewAssumption ==
    /\ Check \notin Issues
    /\ Configs \subseteq ConfigSpace
    /\ Leaves \subseteq SUBSET BOOLEAN
    /\ MaxRounds \in Nat \ {0}
    /\ MaxOthers \in Nat

VARIABLES
    config,       \* the configuration of this run
    phase,        \* where run_checkup_review_loop stands
    round,        \* round_number
    pending,      \* pending_findings ({} for None)
    fixing,       \* the findings of this round: review.findings, fix_findings
    verdict,      \* review.status of round 1, "peer" when only a peer failed
    mode,         \* on whose behalf the gates run
    reviewer,     \* the reviewer now in charge
    activeFixer,  \* state.active_fixer, "none" for None
    turn,         \* active_fixer, the local variable of the round
    disclosed,    \* state.role_independence says "degraded"
    status,       \* state.reviewer_status
    findings,     \* state.findings_by_key: the status of each
    fresh,        \* state.fresh_final_status
    stopped,      \* state.stop_reason is set
    limit,        \* state.max_cost_reached or state.max_duration_reached
    maxed,        \* state.max_rounds_reached
    exhausted,    \* the cost or the deadline is really used up
    remote,       \* the head of the pull request's branch
    local,        \* HEAD of the loop's worktree
    dirty,        \* uncommitted edits in the worktree
    pre,          \* pre_fix_sha
    fixerHead,    \* fixer_sha
    tries,        \* rebase_attempt
    reviewedHead, verifiedHead, lastPushed,  \* the SHAs the state pins
    seen,         \* remote_pr_head_sha, as _finalize fetched it
    passed,       \* the machine verdict
    told,         \* what was said of the worktree's head since the last fix
    authors       \* whose work this round's fix is

roundVars == <<round, pending, fixing, verdict, mode>>
roleVars == <<reviewer, activeFixer, turn, disclosed, status>>
endVars == <<fresh, stopped, limit, maxed>>
workVars == <<local, dirty, pre, fixerHead, tries, authors>>
headVars == <<reviewedHead, verifiedHead, lastPushed, seen, passed>>
vars == <<config, phase, roundVars, roleVars, findings, endVars, exhausted,
          remote, workVars, headVars, told>>

NoHead == {}
Piece == [by : Agents, round : 1..MaxRounds, repair : BOOLEAN, ok : BOOLEAN,
          committed : BOOLEAN]
Others(n) == [by |-> "others", n |-> n]
OthersWork == {Others(n) : n \in 0..MaxOthers}
Keys == Issues \union {Check}

\* What a reviewer's output can parse to: clean only without findings,
\* findings only with one, anything else a failed or degraded review, which
\* may carry rows too.
Answers ==
    {[is |-> "clean", found |-> {}]}
    \union {[is |-> "findings", found |-> S] : S \in (SUBSET Issues) \ {{}}}
    \union {[is |-> h, found |-> S] : h \in Hard, S \in {{}, Issues}}

-----------------------------------------------------------------------------
Init ==
    /\ config \in Configs
    /\ phase = "setup" /\ round = 0 /\ pending = {} /\ fixing = {}
    /\ verdict = "none" /\ mode = "none"
    /\ reviewer = "primary" /\ activeFixer = "none" /\ turn = "none"
    /\ disclosed = FALSE
    /\ status = [a \in Agents |-> IF a = "fixer" THEN "fixer" ELSE "missing"]
    /\ findings = [k \in Keys |-> "none"]
    /\ fresh = "missing" /\ stopped = FALSE /\ limit = FALSE /\ maxed = FALSE
    /\ exhausted = FALSE
    /\ remote = {Others(0)} /\ local = NoHead /\ dirty = {} /\ pre = NoHead
    /\ fixerHead = NoHead /\ tries = 0
    /\ reviewedHead = NoHead /\ verifiedHead = NoHead /\ lastPushed = NoHead
    /\ seen = NoHead /\ passed = FALSE
    /\ told = {} /\ authors = {}

\* A maintainer, another bot or another run pushes to the branch.  Only the
\* pushes, rebases and the last fetch of the loop read the branch, so a push
\* at any other moment shows in these phases.
OthersPush ==
    /\ phase \in {"push", "rebase", "final"}
    /\ \E n \in 1..MaxOthers :
          /\ \A k \in 1..(n - 1) : Others(k) \in remote
          /\ Others(n) \notin remote
          /\ remote' = remote \union {Others(n)}
    /\ UNCHANGED <<config, phase, roundVars, roleVars, findings, endVars,
                   exhausted, workVars, headVars, told>>

\* The cost cap or the deadline is crossed.
Exhaust ==
    /\ phase \notin {"setup", "done"} /\ ~exhausted
    /\ exhausted' = TRUE
    /\ UNCHANGED <<config, phase, roundVars, roleVars, findings, endVars,
                   remote, workVars, headVars, told>>

\* break with a stop_reason; with _mark_budget_exhausted when `spent'.
Break(spent) ==
    /\ phase' = "end" /\ stopped' = TRUE
    /\ limit' = (limit \/ spent)
    /\ UNCHANGED <<fresh, maxed>>

Open(S) == [k \in Keys |-> IF k \in S THEN "open" ELSE findings[k]]

\* What an answer says of the head, in `told': clean, or a finding.
Said(a, clean) ==
    (IF a.is = "clean" THEN {clean} ELSE {})
    \union (IF a.found = {} THEN {} ELSE {"finding"})

\* _record_review
Record(who, a) ==
    /\ status' = [status EXCEPT ![who] = a.is]
    /\ findings' = Open(a.found)
    /\ told' = told \union Said(a, IF who = "peer" THEN "peer" ELSE "clean")

\* The worktree is cut from the head of the branch; a failure of that, a
\* conflict with the base or the evidence of Layer 1 may end the run.
Setup ==
    /\ phase = "setup"
    /\ \/ /\ status' = [status EXCEPT !["primary"] = "failed"]
          /\ stopped' = TRUE /\ phase' = "final"
          /\ UNCHANGED <<local, reviewedHead, findings, pending>>
       \/ /\ local' = remote
          /\ reviewedHead' = IF config.unread THEN NoHead ELSE remote
          /\ \/ /\ ~config.evidence
                /\ phase' = "top"
                /\ UNCHANGED <<status, findings, stopped, pending>>
             \/ /\ config.evidence
                /\ findings' = Open({Check}) /\ pending' = {Check}
                /\ status' = [status EXCEPT !["primary"] = "findings"]
                /\ stopped' = config.reviewOnly
                /\ phase' = IF config.reviewOnly THEN "final" ELSE "top"
             \/ /\ findings' = Open({Check})
                /\ status' = [status EXCEPT !["primary"] = "findings"]
                /\ stopped' = TRUE /\ phase' = "final"
                /\ UNCHANGED pending
    /\ UNCHANGED <<config, round, fixing, verdict, mode, reviewer, activeFixer,
                   turn, disclosed, fresh, limit, maxed, exhausted, remote,
                   dirty, pre, fixerHead, tries, authors,
                   verifiedHead, lastPushed, seen, passed, told>>

MoreRounds == round < MaxRounds

\* The top of the while loop: rounds, then budget, then a review or a fix of
\* what is pending.  Whatever is pending is open, so nothing is filtered out.
Top ==
    /\ phase = "top"
    /\ \/ /\ ~MoreRounds
          /\ phase' = "end"
          /\ UNCHANGED <<roundVars, endVars>>
       \/ /\ MoreRounds /\ exhausted
          /\ Break(TRUE)
          /\ UNCHANGED roundVars
       \/ /\ MoreRounds /\ ~exhausted
          /\ round' = round + 1
          /\ fixing' = pending
          /\ phase' = IF pending = {} THEN "review" ELSE "fix"
          /\ UNCHANGED <<pending, verdict, mode, endVars>>
    /\ UNCHANGED <<config, roleVars, findings, exhausted, remote, workVars,
                   headVars, told>>

Review ==
    /\ phase = "review"
    /\ \E a \in Answers :
          /\ Record("primary", a)
          /\ verdict' = a.is /\ fixing' = a.found
    /\ phase' = IF config.peer /\ ~exhausted THEN "peer" ELSE "judge"
    /\ UNCHANGED <<config, round, pending, mode, reviewer, activeFixer, turn,
                   disclosed, endVars, exhausted, remote, workVars, headVars>>

\* A second independent reviewer reads the same head.
PeerReview ==
    /\ phase = "peer"
    /\ \E a \in Answers :
          /\ Record("peer", a)
          /\ fixing' = fixing \union a.found
          /\ verdict' = IF verdict \notin Hard /\ a.is \in Hard
                        THEN "peer" ELSE verdict
    /\ phase' = "judge"
    /\ UNCHANGED <<config, round, pending, mode, reviewer, activeFixer, turn,
                   disclosed, endVars, exhausted, remote, workVars, headVars>>

\* What a first round that could not be completed falls back to.
Judge ==
    /\ phase = "judge"
    /\ \/ /\ exhausted
          /\ Break(TRUE)
       \/ /\ ~exhausted /\ verdict = "peer"
          /\ phase' = "end" /\ stopped' = TRUE /\ fresh' = "failed"
          /\ UNCHANGED <<limit, maxed>>
       \/ /\ ~exhausted /\ verdict \in Hard /\ config.standby
          /\ phase' = "standby" /\ UNCHANGED endVars
       \/ /\ ~exhausted /\ verdict = "failed" /\ ~config.standby
          /\ config.optIn /\ ~config.reviewOnly
          /\ phase' = "understudy" /\ UNCHANGED endVars
       \/ /\ ~exhausted /\ verdict \in Hard /\ ~config.standby
          /\ verdict = "failed" => ~config.optIn \/ config.reviewOnly
          /\ Break(FALSE)
       \/ /\ ~exhausted /\ verdict \notin Hard \union {"peer"}
          /\ phase' = "decide" /\ UNCHANGED endVars
    /\ UNCHANGED <<config, roundVars, roleVars, findings, exhausted, remote,
                   workVars, headVars, told>>

\* reviewer_fallback reviews in the place of the reviewer that failed, and
\* stays in charge.
Standby ==
    /\ phase = "standby"
    /\ \E a \in Answers :
          /\ Record("standby", a)
          /\ \/ /\ exhausted
                /\ Break(TRUE) /\ UNCHANGED <<reviewer, fixing>>
             \/ /\ ~exhausted /\ a.is \in Hard
                /\ Break(FALSE) /\ UNCHANGED <<reviewer, fixing>>
             \/ /\ ~exhausted /\ a.is \notin Hard
                /\ reviewer' = "standby" /\ fixing' = a.found
                /\ phase' = "decide" /\ UNCHANGED endVars
    /\ UNCHANGED <<config, round, pending, verdict, mode, activeFixer, turn,
                   disclosed, exhausted, remote, workVars, headVars>>

\* _maybe_run_fallback_reviewer: the fixer's role reviews.  A clean answer
\* goes to the gates; findings are handed to a fixer of the same role, which
\* the report is told.
Understudy ==
    /\ phase = "understudy"
    /\ \E a \in Answers :
          /\ findings' = Open(a.found)
          /\ status' = [status EXCEPT
                !["fixer"] = a.is,
                !["primary"] = IF a.is = "clean" THEN "clean" ELSE @]
          /\ told' = told \union Said(a, "clean")
          /\ \/ /\ exhausted
                /\ Break(TRUE)
                /\ UNCHANGED <<reviewer, pending, disclosed, mode>>
             \/ /\ ~exhausted /\ a.is \in Hard
                /\ Break(FALSE)
                /\ UNCHANGED <<reviewer, pending, disclosed, mode>>
             \/ /\ ~exhausted /\ a.is = "clean"
                /\ phase' = "gates" /\ mode' = "fallback"
                /\ UNCHANGED <<reviewer, pending, disclosed, endVars>>
             \/ /\ ~exhausted /\ a.is = "findings"
                /\ disclosed' = TRUE /\ reviewer' = "fixer"
                /\ pending' = a.found /\ phase' = "top"
                /\ UNCHANGED <<mode, endVars>>
    /\ UNCHANGED <<config, round, fixing, verdict, activeFixer, turn,
                   exhausted, remote, workVars, headVars>>

\* The first round is judged: stop, fix, or ask the gates.
Decide ==
    /\ phase = "decide"
    /\ \/ /\ config.reviewOnly /\ fixing # {}
          /\ status' = [status EXCEPT ![reviewer] = "findings"]
          /\ Break(FALSE)
          /\ UNCHANGED mode
       \/ /\ ~config.reviewOnly /\ fixing # {}
          /\ phase' = "fix"
          /\ UNCHANGED <<mode, status, endVars>>
       \/ /\ fixing = {}
          /\ mode' = IF config.reviewOnly THEN "review-only" ELSE "review"
          /\ phase' = "gates"
          /\ UNCHANGED <<status, endVars>>
    /\ UNCHANGED <<config, round, pending, fixing, verdict, reviewer,
                   activeFixer, turn, disclosed, findings, exhausted, remote,
                   workVars, headVars, told>>

-----------------------------------------------------------------------------
\* _enforce_gates_before_clean: only when they pass, or are disabled, is the
\* reviewer's clean answer accepted.
GatesPass ==
    /\ phase = "gates"
    /\ told' = IF config.gates THEN told \union {"gates"} ELSE told
    /\ status' = IF mode = "fallback" THEN status
                 ELSE [status EXCEPT ![reviewer] = "clean"]
    /\ IF mode = "review"
       THEN phase' = "end" /\ UNCHANGED <<fresh, stopped>>
       ELSE phase' = "end" /\ fresh' = "clean" /\ stopped' = TRUE
    /\ UNCHANGED <<config, roundVars, reviewer, activeFixer, turn, disclosed,
                   findings, limit, maxed, exhausted, remote, workVars,
                   headVars>>

\* A failing gate is a finding: to fix now, to fix in the next round, or to
\* report.
GatesFail ==
    /\ phase = "gates" /\ config.gates
    /\ findings' = Open({Check})
    /\ \/ /\ mode = "review-only"
          /\ status' = [status EXCEPT ![reviewer] = "findings"]
          /\ Break(FALSE)
          /\ UNCHANGED <<reviewer, pending, fixing>>
       \/ /\ mode = "review"
          /\ fixing' = {Check} /\ phase' = "fix"
          /\ UNCHANGED <<status, reviewer, pending, endVars>>
       \/ /\ mode \in {"fallback", "verify"}
          /\ reviewer' = IF mode = "fallback" THEN "fixer" ELSE reviewer
          /\ status' = [status EXCEPT ![reviewer'] = "findings"]
          /\ pending' = {Check} /\ phase' = "top"
          /\ UNCHANGED <<fixing, endVars>>
    /\ UNCHANGED <<config, round, verdict, mode, activeFixer, turn, disclosed,
                   exhausted, remote, workVars, headVars, told>>

-----------------------------------------------------------------------------
(* The fix of a round.                                                     *)

\* A fixer's agent session in the worktree: it may commit work itself, leave
\* edits behind, both or neither, and it succeeds or fails.
Session(who, repair, ok) ==
    \E C \in Leaves :
        LET work == {[by |-> who, round |-> round, repair |-> repair,
                      ok |-> ok, committed |-> c] : c \in C}
        IN /\ local' = local \union {p \in work : p.committed}
           /\ dirty' = dirty \union {p \in work : ~p.committed}

ActiveFixer == IF activeFixer = "none" THEN "fixer" ELSE activeFixer

Fix ==
    /\ phase = "fix"
    /\ status' = [status EXCEPT ![reviewer] = "findings"]
    /\ pre' = local /\ turn' = ActiveFixer /\ told' = {}
    /\ \E ok \in BOOLEAN :
          /\ Session(ActiveFixer, FALSE, ok)
          /\ authors' = IF ok THEN {ActiveFixer} ELSE {}
          /\ phase' = IF ok THEN "guard" ELSE "undo"
    /\ UNCHANGED <<config, roundVars, reviewer, activeFixer, disclosed,
                   findings, endVars, exhausted, remote, fixerHead, tries,
                   headVars>>

UndoToHead ==
    /\ phase = "undo"
    /\ dirty' = {}
    /\ phase' = "spare"
    /\ UNCHANGED <<config, roundVars, roleVars, findings, endVars, exhausted,
                   remote, local, pre, fixerHead, tries, authors, headVars,
                   told>>

UndoAndRetry ==
    /\ phase = "undo"
    /\ local' = pre /\ dirty' = {}
    /\ phase' = "fix"
    /\ UNCHANGED <<config, roundVars, roleVars, findings, endVars, exhausted,
                   remote, pre, fixerHead, tries, authors, headVars, told>>

\* git reset --hard pre_fix_sha; git clean -fd
Undo ==
    /\ phase = "undo"
    /\ local' = pre /\ dirty' = {}
    /\ phase' = "spare"
    /\ UNCHANGED <<config, roundVars, roleVars, findings, endVars, exhausted,
                   remote, pre, fixerHead, tries, authors, headVars, told>>

SpareAllowedMutant ==
    /\ config.spare # "none" /\ activeFixer = "none"
    /\ config.spare \notin {"fixer", "primary"}

\* _maybe_run_fallback_fixer: once, and never a role that fixes already or
\* has reviewed.
SpareAllowed ==
    /\ config.spare # "none" /\ activeFixer = "none"
    /\ config.spare \notin {"fixer", reviewer, "primary"}

SpareFix ==
    /\ phase = "spare"
    /\ \/ /\ ~SpareAllowed \/ exhausted
          /\ Break(SpareAllowed)
          /\ UNCHANGED <<activeFixer, local, dirty, authors>>
       \/ /\ SpareAllowed /\ ~exhausted
          /\ \E ok \in BOOLEAN :
                /\ Session(config.spare, FALSE, ok)
                /\ IF ok
                   THEN /\ activeFixer' = config.spare
                        /\ authors' = {config.spare}
                        /\ phase' = "guard" /\ UNCHANGED endVars
                   ELSE Break(FALSE) /\ UNCHANGED <<activeFixer, authors>>
    /\ UNCHANGED <<config, roundVars, reviewer, turn, disclosed, status,
                   findings, exhausted, remote, pre, fixerHead, tries,
                   headVars, told>>

\* The registry and prompt-source guards read the whole change set, from
\* pre_fix_sha on.  A prompt left behind its code is repaired by one more
\* session, and pushed only if that succeeded and both guards then pass.
Guard ==
    /\ phase = "guard"
    /\ \/ /\ phase' = "commit"
          /\ UNCHANGED <<local, dirty, authors, endVars>>
       \/ /\ Break(FALSE)
          /\ UNCHANGED <<local, dirty, authors>>
       \/ /\ ~exhausted
          /\ \E ok \in BOOLEAN :
                /\ Session(turn, TRUE, ok)
                /\ authors' = authors \union {turn}
                /\ IF ok THEN phase' = "commit" /\ UNCHANGED endVars
                   ELSE Break(FALSE)
    /\ UNCHANGED <<config, roundVars, roleVars, findings, exhausted, remote,
                   pre, fixerHead, tries, headVars, told>>

\* _commit_and_push_if_changed up to the first push: what the fixer committed
\* itself goes along with what it left uncommitted.
Commit ==
    /\ phase = "commit"
    /\ \/ /\ local = pre /\ dirty = {}
          /\ Break(FALSE)
          /\ UNCHANGED <<local, dirty, fixerHead, tries>>
       \/ /\ local # pre \/ dirty # {}
          /\ \/ Break(FALSE) /\ UNCHANGED <<local, dirty, fixerHead, tries>>
             \/ /\ local' = local \union dirty /\ dirty' = {}
                /\ fixerHead' = local' /\ tries' = 0
                /\ phase' = "push" /\ UNCHANGED endVars
    /\ UNCHANGED <<config, roundVars, roleVars, findings, exhausted, remote,
                   pre, authors, headVars, told>>

\* A push never forces: the branch takes it when it has nothing the worktree
\* lacks.  The answer of a push that landed may be lost, and the pushed SHA
\* may be unreadable afterwards.
CanPush == remote \subseteq local

Push ==
    /\ phase = "push"
    /\ \/ /\ CanPush
          /\ remote' = local
          /\ \/ /\ lastPushed' = local /\ tries' = 0
                /\ phase' = "pushed" /\ UNCHANGED endVars
             \/ Break(FALSE) /\ UNCHANGED <<lastPushed, tries>>
       \/ /\ ~CanPush /\ tries + 1 < PushTries
          /\ phase' = "rebase"
          /\ UNCHANGED <<remote, lastPushed, tries, endVars>>
       \/ /\ Break(FALSE)
          /\ UNCHANGED <<remote, lastPushed, tries>>
    /\ UNCHANGED <<config, roundVars, roleVars, findings, exhausted, local,
                   dirty, pre, fixerHead, authors, reviewedHead, verifiedHead,
                   seen, passed, told>>

\* The whole range pre_fix_sha..fixer_sha is replayed on the fetched head.
Rebased == remote \union (fixerHead \ pre)

Rebase ==
    /\ phase = "rebase"
    /\ \/ /\ local' = Rebased
          /\ tries' = tries + 1
          /\ phase' = "push" /\ UNCHANGED endVars
       \/ /\ local' = fixerHead
          /\ Break(FALSE) /\ UNCHANGED tries
    /\ UNCHANGED <<config, roundVars, roleVars, findings, exhausted, remote,
                   dirty, pre, fixerHead, authors,
                   headVars, told>>

Pushed ==
    /\ phase = "pushed"
    /\ IF exhausted THEN Break(TRUE) ELSE phase' = "verify" /\ UNCHANGED endVars
    /\ UNCHANGED <<config, roundVars, roleVars, findings, exhausted, remote,
                   workVars, headVars, told>>

\* The reviewer in charge verifies the pushed head.  What it does not report
\* again is fixed; only when it reports nothing is the head verified.
Settled(a) ==
    [k \in Keys |-> IF k \in a.found THEN "open"
                    ELSE IF k \in fixing THEN "fixed" ELSE findings[k]]

Verify ==
    /\ phase = "verify"
    /\ \E a \in Answers :
          /\ status' = [status EXCEPT ![reviewer] = a.is]
          /\ told' = told \union Said(a, "clean")
          /\ \/ /\ a.is \in Hard
                /\ findings' = Open(a.found)
                /\ Break(FALSE)
                /\ UNCHANGED <<pending, verifiedHead, mode>>
             \/ /\ a.is \notin Hard
                /\ findings' = Settled(a)
                /\ pending' = a.found
                /\ verifiedHead' = IF a.found = {} THEN lastPushed
                                   ELSE verifiedHead
                /\ \/ exhausted /\ Break(TRUE) /\ UNCHANGED mode
                   \/ /\ ~exhausted /\ a.found # {}
                      /\ phase' = "top" /\ UNCHANGED <<mode, endVars>>
                   \/ /\ ~exhausted /\ a.found = {}
                      /\ phase' = "gates" /\ mode' = "verify"
                      /\ UNCHANGED endVars
    /\ UNCHANGED <<config, round, fixing, verdict, reviewer, activeFixer, turn,
                   disclosed, exhausted, remote, workVars, reviewedHead,
                   lastPushed, seen, passed>>

-----------------------------------------------------------------------------
(* The end of the loop.                                                    *)

\* (What only the rounds use is dead from here on.)
RoundIsOver ==
    /\ dirty' = {} /\ pre' = NoHead /\ fixerHead' = NoHead /\ tries' = 0
    /\ authors' = {}

\* A run that nothing stopped is clean, out of budget or out of rounds.
End ==
    /\ phase = "end"
    /\ LET clean == status[reviewer] = "clean"
           spent == ~stopped /\ ~clean /\ exhausted
           over == ~stopped /\ ~clean /\ ~exhausted
       IN /\ limit' = (limit \/ spent)
          /\ maxed' = over
          /\ findings' = IF over THEN Open({k \in pending : findings[k] = "fixed"})
                         ELSE findings
          /\ fresh' = IF clean /\ (~stopped \/ fresh = "missing")
                      THEN "clean" ELSE fresh
    /\ stopped' = TRUE
    /\ phase' = IF config.agentic /\ fresh' = "clean" THEN "fresh" ELSE "final"
    /\ pending' = {} /\ fixing' = {} /\ turn' = "none" /\ RoundIsOver
    /\ UNCHANGED <<config, round, verdict, mode, reviewer, activeFixer,
                   disclosed, status, exhausted, remote, local, headVars,
                   told>>

\* _maybe_run_fresh_final_review_override: a new session reads the head and
\* may veto; a session that raises fails closed.
FreshReview ==
    /\ phase = "fresh"
    /\ \E a \in Answers :
          /\ findings' = Open(a.found)
          /\ told' = told \union Said(a, "fresh")
          /\ fresh' = a.is
    /\ phase' = "final"
    /\ UNCHANGED <<config, roundVars, roleVars, stopped, limit, maxed,
                   exhausted, remote, workVars, headVars>>

\* _finalize: the head of the branch is fetched once more.  Unless it is the
\* head that was verified, last pushed or reviewed, in this order, nothing is
\* clean and nothing fixed.
Compared ==
    IF verifiedHead # NoHead THEN verifiedHead
    ELSE IF lastPushed # NoHead THEN lastPushed ELSE reviewedHead

NeedsRefetch ==
    \/ verifiedHead # NoHead \/ lastPushed # NoHead \/ fresh = "clean"
    \/ \E k \in Keys : findings[k] = "fixed"

Stale == seen' = NoHead \/ seen' # Compared

Downgraded ==
    [k \in Keys |-> IF findings[k] = "fixed" THEN "open" ELSE findings[k]]

PassesMutant ==
    /\ \A k \in Keys : findings'[k] # "open"
    /\ \E a \in Agents : status[a] = "clean"
    /\ fresh' = "clean"
    /\ ~maxed

\* passed of _render_machine_verdict_block
Passes ==
    /\ \A k \in Keys : findings'[k] # "open"
    /\ \E a \in Agents : status[a] = "clean"
    /\ fresh' = "clean"
    /\ ~maxed /\ ~limit

Finalize ==
    /\ phase = "final"
    /\ IF NeedsRefetch
       THEN /\ seen' \in {remote, NoHead}
            /\ findings' = IF Stale THEN Downgraded ELSE findings
            /\ fresh' = IF Stale /\ fresh = "clean" THEN "missing" ELSE fresh
       ELSE UNCHANGED <<seen, findings, fresh>>
    /\ passed' = Passes
    /\ phase' = "done"
    /\ UNCHANGED <<config, roundVars, roleVars, stopped, limit, maxed,
                   exhausted, remote, workVars, reviewedHead, verifiedHead,
                   lastPushed, told>>

Step ==
    \/ Setup \/ Top \/ Review \/ PeerReview \/ Judge \/ Standby \/ Understudy
    \/ Decide \/ GatesPass \/ GatesFail \/ Fix \/ Undo \/ SpareFix \/ Guard
    \/ Commit \/ Push \/ Rebase \/ Pushed \/ Verify \/ End \/ FreshReview
    \/ Finalize

Next == Step \/ OthersPush \/ Exhaust

Spec == Init /\ [][Next]_vars

\* The loop runs on its own; nobody owes it a push or a deadline.
FairSpec == Spec /\ WF_vars(Step)

-----------------------------------------------------------------------------
(* Properties.                                                             *)

Done == phase = "done"

\* The state of a run: its phase, the statuses it keeps, and heads that are
\* sets of pieces of work (run_checkup_review_loop).
TypeOK ==
    /\ config \in Configs
    /\ round \in 0..MaxRounds
    /\ pending \subseteq Keys /\ fixing \subseteq Keys
    /\ reviewer \in {"primary", "standby", "fixer"}
    /\ activeFixer \in {"none", "spare", "standby"}
    /\ findings \in [Keys -> {"none", "open", "fixed"}]
    /\ fresh \in {"missing", "clean", "findings"} \union Hard
    /\ tries \in 0..(PushTries - 1)
    /\ remote \subseteq Piece \union OthersWork
    /\ local \union dirty \union pre \union fixerHead \union reviewedHead
          \union verifiedHead \union lastPushed \union seen
       \subseteq Piece \union OthersWork
    /\ phase = "final" \/ Done => stopped

\* A run reported as passed is about the head the branch has at the end: on
\* that very head the reviewer in charge found nothing, nobody reported a
\* finding, the gates passed when they are enabled, and in agentic mode a
\* fresh session found nothing, however others pushed meanwhile
\* (_finalize, _render_machine_verdict_block, issues #1088 and #1092).
PassedIsProven ==
    passed =>
        /\ seen = local
        /\ "clean" \in told /\ "finding" \notin told
        /\ config.gates => "gates" \in told
        /\ config.agentic => "fresh" \in told

\* A finding is reported fixed only when the branch ends at the very head
\* the loop pushed last: a later push of anybody else, which may undo the
\* fix, never hides behind it, and neither does a fetch that failed
\* (_finalize).
FixedIsHeld ==
    Done /\ (\E k \in Keys : findings[k] = "fixed") =>
        lastPushed # NoHead /\ seen = lastPushed

\* The form of the state, and the report: both verdict and findings are about
\* the head the branch has at the end.
ReportIsTrue == TypeOK /\ PassedIsProven /\ FixedIsHeld

\* The work of a fixer session that failed never reaches the branch, not as
\* its own commits and not as edits swept up by the next one's commit
\* (the reset to pre_fix_sha before the fallback fixer, the refusal to push
\* a repair whose session failed).
FailedWorkKeptOut == \A p \in remote \ OthersWork : p.ok

\* A push the loop reports landed carries all that this round's fixers did,
\* however often it was rebased onto other pushes (_rebase_onto_updated_pr_head).
FixIsWhole ==
    phase \in {"pushed", "verify"} =>
        /\ fixerHead \subseteq local
        /\ local \subseteq remote

\* The branch gets all of the work that is sound and none of the rest.
PushesAreSound == FailedWorkKeptOut /\ FixIsWhole

\* Nobody verifies a fix of their own role, except the fixer's role after it
\* took over from a primary reviewer that failed, which the report discloses
\* unless it began with a failing gate (_maybe_run_fallback_fixer,
\* _maybe_run_fallback_reviewer).
Independent ==
    phase = "verify" /\ reviewer \in authors =>
        /\ reviewer = "fixer" /\ verdict = "failed" /\ config.optIn
        /\ disclosed \/ findings[Check] # "none"

\* The loop ends, whatever the agents answer and others push.
Ends == <>Done

=============================================================================
