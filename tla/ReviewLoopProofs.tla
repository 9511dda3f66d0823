--------------------------- MODULE ReviewLoopProofs ---------------------------
(***************************************************************************)
(* Proofs about ReviewLoop for any findings, configurations, rounds and    *)
(* pushes by others: what reaches the branch of the pull request.          *)
(***************************************************************************)
EXTENDS ReviewLoop, TLAPS

Reading == {"setup", "top", "review", "peer", "judge", "standby", "understudy", "decide",
            "gates", "fix", "pushed", "verify"}
Fixing == {"undo", "spare", "guard", "commit", "push", "rebase"}
Over == {"end", "fresh", "final", "done"}

\* No piece of S is from a session that failed.
Sound(S) == \A p \in S \ OthersWork : p.ok

LEMMA SoundUnion ==
    ASSUME NEW S, NEW T, Sound(S), Sound(T)
    PROVE  Sound(S \union T) /\ Sound(S \ T)
  BY DEF Sound

\* A failed session can only have touched the worktree where it is reset or
\* where nothing is pushed any more, and what the loop takes as the base of a
\* fix is on the branch.
Inv ==
    /\ phase \in Reading \union Fixing \union Over
    /\ Sound(remote) /\ Sound(pre) /\ Sound(fixerHead)
    /\ phase \notin Over \union {"undo"} => Sound(local) /\ Sound(dirty)
    /\ phase \in Reading => local \subseteq remote
    /\ phase \in Fixing => pre \subseteq remote
    /\ phase \in {"push", "rebase", "pushed", "verify"} => fixerHead \subseteq local

LEMMA InitInv == Init => Inv
  <1>1. Others(0) \in OthersWork
    BY ReviewAssumption DEF OthersWork
  <1>2. Sound({Others(0)}) /\ Sound(NoHead) /\ Sound({}) /\ NoHead = {}
    BY <1>1 DEF Sound, NoHead
  <1> QED BY <1>2 DEF Init, Inv, Reading, Fixing, Over

LEMMA SessionSound ==
    ASSUME NEW who, NEW repair, Session(who, repair, TRUE), Sound(local), Sound(dirty)
    PROVE  Sound(local') /\ Sound(dirty')
  <1>1. PICK C \in Leaves :
          LET work == {[by |-> who, round |-> round, repair |-> repair,
                        ok |-> TRUE, committed |-> c] : c \in C}
          IN /\ local' = local \union {p \in work : p.committed}
             /\ dirty' = dirty \union {p \in work : ~p.committed}
    BY DEF Session
  <1> QED BY <1>1 DEF Sound

\* Steps that leave the branch and the worktree alone and push nothing.
LEMMA QuietInv ==
    ASSUME Inv, UNCHANGED <<remote, local, dirty, pre, fixerHead>>,
           phase' \in Over \/ (phase \in Reading /\ phase' \in Reading \ {"pushed", "verify"})
    PROVE  Inv'
  <1>1. CASE phase' \in Over
    BY <1>1 DEF Inv, Over, Reading, Fixing
  <1>2. CASE phase \in Reading /\ phase' \in Reading \ {"pushed", "verify"}
    BY <1>2 DEF Inv, Over, Reading, Fixing
  <1> QED BY <1>1, <1>2

LEMMA ReadingInv ==
    ASSUME Inv, Top \/ Review \/ PeerReview \/ Judge \/ Standby \/ Understudy \/ Decide
                \/ GatesPass \/ GatesFail
    PROVE  Inv'
  <1> USE DEF Reading, Over, Break, workVars
  <1>1. CASE Top
    BY <1>1, QuietInv DEF Top
  <1>2. CASE Review \/ PeerReview
    BY <1>2, QuietInv DEF Review, PeerReview
  <1>3. CASE Judge
    BY <1>3, QuietInv DEF Judge
  <1>4. CASE Standby
    BY <1>4, QuietInv DEF Standby
  <1>5. CASE Understudy
    BY <1>5, QuietInv DEF Understudy
  <1>6. CASE Decide
    BY <1>6, QuietInv DEF Decide
  <1>7. CASE GatesPass
    BY <1>7, QuietInv DEF GatesPass
  <1>8. CASE GatesFail
    BY <1>8, QuietInv DEF GatesFail
  <1> QED BY <1>1, <1>2, <1>3, <1>4, <1>5, <1>6, <1>7, <1>8

LEMMA SetupInv ==
    ASSUME Inv, Setup
    PROVE  Inv'
  <1>1. UNCHANGED <<remote, dirty, pre, fixerHead>> /\ phase' \in {"top", "final"}
    BY DEF Setup
  <1>2. local' = remote \/ (phase' = "final" /\ local' = local)
    BY DEF Setup
  <1>3. phase = "setup"
    BY DEF Setup
  <1> QED BY <1>1, <1>2, <1>3 DEF Inv, Reading, Over, Fixing

LEMMA FixInv ==
    ASSUME Inv, Fix
    PROVE  Inv'
  <1>1. phase = "fix" /\ pre' = local /\ remote' = remote /\ fixerHead' = fixerHead
    BY DEF Fix
  <1>2. Sound(local) /\ Sound(dirty) /\ local \subseteq remote
    BY <1>1 DEF Inv, Reading, Over
  <1>3. \/ phase' = "undo"
        \/ phase' = "guard" /\ Session(ActiveFixer, FALSE, TRUE)
    BY DEF Fix
  <1>4. phase' = "guard" => Sound(local') /\ Sound(dirty')
    BY <1>2, <1>3, SessionSound
  <1> QED BY <1>1, <1>2, <1>3, <1>4 DEF Inv, Reading, Over, Fixing

LEMMA UndoInv ==
    ASSUME Inv, Undo
    PROVE  Inv'
  BY DEF Inv, Undo, Reading, Over, Fixing, Sound

LEMMA SpareInv ==
    ASSUME Inv, SpareFix
    PROVE  Inv'
  <1>1. phase = "spare" /\ UNCHANGED <<remote, pre, fixerHead>>
    BY DEF SpareFix
  <1>2. phase' = "end" \/ (phase' = "guard" /\ Session(config.spare, FALSE, TRUE))
    BY DEF SpareFix, Break
  <1>3. phase' = "guard" => Sound(local') /\ Sound(dirty')
    BY <1>1, <1>2, SessionSound DEF Inv, Over
  <1> QED BY <1>1, <1>2, <1>3 DEF Inv, Reading, Over, Fixing

LEMMA GuardInv ==
    ASSUME Inv, Guard
    PROVE  Inv'
  <1>1. phase = "guard" /\ UNCHANGED <<remote, pre, fixerHead>>
    BY DEF Guard
  <1>2. \/ phase' = "end"
        \/ phase' = "commit" /\ UNCHANGED <<local, dirty>>
        \/ phase' = "commit" /\ Session(turn, TRUE, TRUE)
    BY DEF Guard, Break
  <1>3. phase' = "commit" => Sound(local') /\ Sound(dirty')
    BY <1>1, <1>2, SessionSound DEF Inv, Over
  <1> QED BY <1>1, <1>2, <1>3 DEF Inv, Reading, Over, Fixing

LEMMA CommitInv ==
    ASSUME Inv, Commit
    PROVE  Inv'
  <1>1. phase = "commit" /\ UNCHANGED <<remote, pre>>
    BY DEF Commit
  <1>2. \/ phase' = "end" /\ fixerHead' = fixerHead
        \/ /\ phase' = "push" /\ local' = local \union dirty /\ dirty' = {}
           /\ fixerHead' = local'
    BY DEF Commit, Break
  <1>3. Sound(local \union dirty) /\ Sound({})
    BY <1>1, SoundUnion DEF Inv, Over, Sound
  <1> QED BY <1>1, <1>2, <1>3 DEF Inv, Reading, Over, Fixing

LEMMA PushInv ==
    ASSUME Inv, Push
    PROVE  Inv'
  <1>1. phase = "push" /\ UNCHANGED <<local, dirty, pre, fixerHead>>
    BY DEF Push
  <1>2. Sound(local) /\ Sound(dirty) /\ fixerHead \subseteq local /\ pre \subseteq remote
    BY <1>1 DEF Inv, Over, Fixing
  <1>3. CASE CanPush /\ remote' = local /\ phase' \in {"pushed", "end"}
    BY <1>1, <1>2, <1>3 DEF Inv, Reading, Over, Fixing
  <1>4. CASE remote' = remote /\ phase' \in {"rebase", "end"}
    BY <1>1, <1>2, <1>4 DEF Inv, Reading, Over, Fixing
  <1> QED BY <1>3, <1>4 DEF Push, Break

LEMMA RebaseInv ==
    ASSUME Inv, Rebase
    PROVE  Inv'
  <1>1. phase = "rebase" /\ UNCHANGED <<remote, dirty, pre, fixerHead>>
    BY DEF Rebase
  <1>2. pre \subseteq remote /\ Sound(dirty)
    BY <1>1 DEF Inv, Over, Fixing
  <1>3. CASE local' = Rebased /\ phase' = "push"
    <2>1. Sound(Rebased)
      BY SoundUnion DEF Inv, Rebased
    <2>2. fixerHead \subseteq Rebased
      BY <1>2 DEF Rebased
    <2> QED BY <1>1, <1>2, <1>3, <2>1, <2>2 DEF Inv, Reading, Over, Fixing
  <1>4. CASE phase' = "end"
    BY <1>1, <1>4 DEF Inv, Reading, Over, Fixing
  <1> QED BY <1>3, <1>4 DEF Rebase, Break

LEMMA VerifyInv ==
    ASSUME Inv, Pushed \/ Verify
    PROVE  Inv'
  <1>1. UNCHANGED <<remote, local, dirty, pre, fixerHead>>
    BY DEF Pushed, Verify, workVars
  <1>2. CASE Pushed
    BY <1>1, <1>2 DEF Pushed, Break, Inv, Reading, Over, Fixing
  <1>3. CASE Verify
    <2>1. phase = "verify" /\ phase' \in {"end", "top", "gates"}
      BY <1>3 DEF Verify, Break
    <2> QED BY <1>1, <2>1, QuietInv DEF Reading, Over
  <1> QED BY <1>2, <1>3

LEMMA EndInv ==
    ASSUME Inv, End \/ FreshReview \/ Finalize
    PROVE  Inv'
  <1>1. phase' \in Over /\ remote' = remote
    BY DEF End, FreshReview, Finalize, Over
  <1>2. Sound(pre') /\ Sound(fixerHead')
    <2>1. Sound(NoHead)
      BY DEF Sound, NoHead
    <2> QED BY <2>1 DEF End, RoundIsOver, FreshReview, Finalize, workVars, Inv
  <1> QED BY <1>1, <1>2 DEF Inv, Reading, Over, Fixing

LEMMA OthersInv ==
    ASSUME Inv, OthersPush
    PROVE  Inv'
  <1>1. UNCHANGED <<phase, local, dirty, pre, fixerHead>>
    BY DEF OthersPush, workVars
  <1>2. PICK n \in 1..MaxOthers : remote' = remote \union {Others(n)}
    BY DEF OthersPush
  <1>3. Others(n) \in OthersWork
    BY ReviewAssumption DEF OthersWork
  <1>4. Sound(remote')
    BY <1>2, <1>3 DEF Inv, Sound
  <1>5. phase \in {"push", "rebase", "final"}
    BY DEF OthersPush
  <1> QED BY <1>1, <1>2, <1>4, <1>5 DEF Inv, Reading, Over, Fixing

LEMMA NextInv ==
    ASSUME Inv, [Next]_vars
    PROVE  Inv'
  <1>1. CASE Step
    BY <1>1, SetupInv, ReadingInv, FixInv, UndoInv, SpareInv, GuardInv, CommitInv, PushInv,
       RebaseInv, VerifyInv, EndInv DEF Step
  <1>2. CASE Exhaust \/ UNCHANGED vars
    BY <1>2 DEF Exhaust, vars, workVars, Inv
  <1> QED BY <1>1, <1>2, OthersInv DEF Next

(***************************************************************************)
(* The report.                                                             *)
(***************************************************************************)
First == {"review", "peer", "judge", "standby", "understudy"}
Rounds == First \union {"decide", "gates", "fix", "pushed", "verify"} \union Fixing

\* The first review is still to come: nothing was fixed and nobody replaced.
Unread == phase \in First \union {"setup"} \/ (phase = "top" /\ pending = {})

Form ==
    /\ TypeOK
    /\ phase \in Rounds => round # 0
    /\ phase = "fresh" => stopped
    /\ phase = "rebase" => tries + 1 < PushTries
    /\ turn \in {"none", "fixer", "spare", "standby"}
    /\ phase \in Fixing => turn # "none"
    /\ status \in [Agents -> {"missing", "fixer", "clean", "findings"} \union Hard]
    /\ ~ passed \/ Done

\* Who has reviewed, who fixes, and how the fixer's role came to review.
Unfixed == activeFixer = "none" /\ turn = "none" /\ authors = {}
Roles ==
    /\ Unread => Unfixed /\ reviewer = "primary"
    /\ phase = "decide" => Unfixed
    /\ phase = "understudy" \/ (phase = "gates" /\ mode = "fallback") =>
           verdict = "failed" /\ config.optIn
    /\ reviewer = "standby" =>
           activeFixer # "standby" /\ turn # "standby" /\ "standby" \notin authors
    /\ authors \subseteq {"fixer", "spare", "standby"}
    /\ reviewer = "fixer" =>
           verdict = "failed" /\ config.optIn /\ (disclosed \/ findings[Check] # "none")

\* The head the report will be compared with is the one of the worktree:
\* before the first fix, and after a push that was verified.
AtStart == verifiedHead = NoHead /\ lastPushed = NoHead /\ reviewedHead \in {NoHead, local}
AtEnd == verifiedHead = local /\ lastPushed = local /\ local # NoHead

Heads ==
    /\ Others(0) \in remote
    /\ verifiedHead \subseteq lastPushed /\ lastPushed \subseteq remote
    /\ lastPushed = NoHead => \A k \in Keys : findings[k] # "fixed"
    /\ Unread \/ phase = "decide" => AtStart
    /\ phase \in {"pushed", "verify"} => lastPushed = local /\ local # NoHead

\* What was said of that head.
Accepted ==
    "clean" \in told /\ (config.gates => "gates" \in told) /\ (AtStart \/ AtEnd)

Words ==
    /\ phase \in Fixing \union {"pushed", "verify"} => told = {}
    /\ "finding" \in told => \E k \in Keys : findings[k] = "open"
    /\ phase \in {"peer", "judge"} /\ verdict = "clean" => "clean" \in told
    /\ phase \in {"peer", "judge"} /\ verdict = "findings" => fixing # {}
    /\ phase = "decide" /\ fixing = {} => "clean" \in told
    /\ phase = "gates" =>
           "clean" \in told /\ (IF mode = "verify" THEN AtEnd ELSE AtStart)

\* The statuses from which a run is called clean.
Statuses ==
    /\ verdict \in {"none", "clean", "findings", "peer"} \union Hard
    /\ phase \in {"peer", "judge"} => verdict # "none"
    /\ phase \in {"setup", "top"} \union Fixing \union {"pushed", "verify"} =>
           status[reviewer] # "clean"
    /\ phase \in {"peer", "judge", "standby", "understudy"} /\ verdict \in Hard =>
           status["primary"] # "clean"
    /\ phase \in {"standby", "understudy"} => verdict \in Hard
    /\ phase \in Rounds \union {"setup", "top"} => fresh = "missing"
    /\ phase = "end" /\ (fresh = "clean" \/ (status[reviewer] = "clean" /\ fresh = "missing")) =>
           limit \/ Accepted
    /\ phase = "end" /\ fresh \notin {"missing", "clean"} => stopped
    /\ phase = "fresh" => fresh = "clean"
    /\ phase \in {"fresh", "final"} /\ fresh = "clean" => limit \/ Accepted
    /\ phase = "final" /\ fresh = "clean" /\ config.agentic => "fresh" \in told

Report == PassedIsProven /\ FixedIsHeld

LEMMA AnswerType ==
    ASSUME NEW a \in Answers
    PROVE  /\ a.is \in {"clean", "findings"} \union Hard /\ a.found \subseteq Issues
           /\ a.is = "clean" => a.found = {}
           /\ a.is = "findings" => a.found # {}
  BY DEF Answers, Hard

LEMMA OpenType ==
    ASSUME NEW S \in SUBSET Keys, findings \in [Keys -> {"none", "open", "fixed"}]
    PROVE  /\ Open(S) \in [Keys -> {"none", "open", "fixed"}]
           /\ \A k \in Keys : Open(S)[k] = IF k \in S THEN "open" ELSE findings[k]
  BY DEF Open

\* What there is of heads.
Heap == Piece \union OthersWork

LEMMA SessionType ==
    ASSUME NEW who \in Agents, NEW repair \in BOOLEAN, NEW ok \in BOOLEAN,
           Session(who, repair, ok), Form, phase \in Rounds
    PROVE  local' \union dirty' \subseteq Heap
  <1>1. PICK C \in Leaves :
          LET work == {[by |-> who, round |-> round, repair |-> repair,
                        ok |-> ok, committed |-> c] : c \in C}
          IN /\ local' = local \union {p \in work : p.committed}
             /\ dirty' = dirty \union {p \in work : ~p.committed}
    BY DEF Session
  <1>2. C \subseteq BOOLEAN /\ round \in 1..MaxRounds
    BY ReviewAssumption DEF Form, TypeOK
  <1>3. {[by |-> who, round |-> round, repair |-> repair, ok |-> ok, committed |-> c] : c \in C}
           \subseteq Piece
    BY <1>2 DEF Piece
  <1> QED BY <1>1, <1>3 DEF Form, TypeOK, Heap

FindingsOK == findings \in [Keys -> {"none", "open", "fixed"}]

LEMMA FindingsStep ==
    ASSUME Form, Step
    PROVE  FindingsOK'
  <1>1. findings \in [Keys -> {"none", "open", "fixed"}] /\ {Check} \in SUBSET Keys
    BY DEF Form, TypeOK, Keys
  <1>2. \A a \in Answers : a.found \in SUBSET Keys
    BY AnswerType DEF Keys
  <1>3. \A S \in SUBSET Keys : Open(S) \in [Keys -> {"none", "open", "fixed"}]
    BY <1>1, OpenType
  <1>4. CASE \E S \in SUBSET Keys : findings' = Open(S)
    BY <1>3, <1>4 DEF FindingsOK
  <1>5. CASE findings' = findings
    BY <1>1, <1>5 DEF FindingsOK
  <1>6. CASE Setup \/ GatesFail
    BY <1>1, <1>4, <1>5, <1>6 DEF Setup, GatesFail
  <1>7. CASE Review \/ PeerReview \/ Standby \/ Understudy \/ FreshReview
    BY <1>2, <1>4, <1>7 DEF Review, PeerReview, Standby, Understudy, FreshReview, Record
  <1>8. CASE Verify
    <2>1. PICK a \in Answers : findings' = Open(a.found) \/ findings' = Settled(a)
      BY <1>8 DEF Verify
    <2>2. Settled(a) \in [Keys -> {"none", "open", "fixed"}]
      BY <1>1 DEF Settled
    <2> QED BY <1>2, <1>4, <2>1, <2>2 DEF FindingsOK
  <1>9. CASE End
    <2>1. {k \in pending : findings[k] = "fixed"} \in SUBSET Keys
      BY DEF Form, TypeOK
    <2> QED BY <1>4, <1>5, <1>9, <2>1 DEF End
  <1>10. CASE Finalize
    <2>1. Downgraded \in [Keys -> {"none", "open", "fixed"}]
      BY <1>1 DEF Downgraded
    <2> QED BY <1>5, <1>10, <2>1 DEF Finalize, FindingsOK
  <1>11. CASE Top \/ Judge \/ Decide \/ GatesPass \/ Fix \/ Undo \/ SpareFix \/ Guard \/ Commit
              \/ Push \/ Rebase \/ Pushed
    BY <1>5, <1>11 DEF Top, Judge, Decide, GatesPass, Fix, Undo, SpareFix, Guard, Commit, Push,
       Rebase, Pushed
  <1> QED BY <1>6, <1>7, <1>8, <1>9, <1>10, <1>11 DEF Step

HeapOK ==
    /\ remote \subseteq Heap /\ local \subseteq Heap /\ dirty \subseteq Heap /\ pre \subseteq Heap
    /\ fixerHead \subseteq Heap /\ reviewedHead \subseteq Heap /\ verifiedHead \subseteq Heap
    /\ lastPushed \subseteq Heap /\ seen \subseteq Heap

\* Whoever fixes is one of the agents.
LEMMA FixersAreAgents ==
    ASSUME Form
    PROVE  /\ ActiveFixer \in Agents
           /\ phase \in Fixing => turn \in Agents
           /\ SpareAllowed => config.spare \in {"spare", "standby"}
  <1>1. config.spare \in {"none", "spare", "standby"}
    BY ReviewAssumption DEF Form, TypeOK, ConfigSpace
  <1> QED BY <1>1 DEF Form, TypeOK, ActiveFixer, SpareAllowed, Agents

LEMMA HeapStep ==
    ASSUME Form, Step
    PROVE  HeapOK'
  <1>1. HeapOK
    BY DEF HeapOK, Heap, Form, TypeOK
  <1>2. CASE UNCHANGED <<remote, local, dirty, pre, fixerHead, headVars>>
    BY <1>1, <1>2 DEF HeapOK, headVars
  <1>3. CASE Setup
    BY <1>1, <1>3 DEF Setup, HeapOK, NoHead
  <1>4. CASE Top \/ Review \/ PeerReview \/ Judge \/ Standby \/ Understudy \/ Decide \/ GatesPass
             \/ GatesFail \/ Pushed \/ FreshReview
    BY <1>2, <1>4 DEF Top, Review, PeerReview, Judge, Standby, Understudy, Decide, GatesPass,
       GatesFail, Pushed, FreshReview, workVars
  <1>5. CASE Fix \/ SpareFix \/ Guard
    <2>1. UNCHANGED <<remote, fixerHead, headVars>> /\ (pre' = local \/ pre' = pre)
      BY <1>5 DEF Fix, SpareFix, Guard
    <2>2. phase \in Rounds
      BY <1>5 DEF Fix, SpareFix, Guard, Rounds, Fixing
    <2>3. local' \union dirty' \subseteq Heap
      <3>1. CASE UNCHANGED <<local, dirty>>
        BY <1>1, <3>1 DEF HeapOK
      <3>2. CASE Fix
        BY <2>2, <3>2, FixersAreAgents, SessionType DEF Fix
      <3>3. CASE SpareFix
        <4>1. {"spare", "standby"} \subseteq Agents
          BY DEF Agents
        <4> QED BY <2>2, <3>1, <3>3, <4>1, FixersAreAgents, SessionType DEF SpareFix
      <3>4. CASE Guard
        BY <2>2, <3>1, <3>4, FixersAreAgents, SessionType DEF Guard, Fixing
      <3> QED BY <1>5, <3>2, <3>3, <3>4
    <2> QED BY <1>1, <2>1, <2>3 DEF HeapOK, headVars
  <1>6. CASE Undo
    BY <1>1, <1>6 DEF Undo, HeapOK, headVars
  <1>7. CASE Commit
    BY <1>1, <1>7 DEF Commit, HeapOK, headVars
  <1>8. CASE Push
    BY <1>1, <1>8 DEF Push, HeapOK
  <1>9. CASE Rebase
    BY <1>1, <1>9 DEF Rebase, Rebased, HeapOK, headVars
  <1>10. CASE Verify
    BY <1>1, <1>10 DEF Verify, HeapOK, workVars
  <1>11. CASE End
    BY <1>1, <1>11 DEF End, RoundIsOver, NoHead, HeapOK, headVars
  <1>12. CASE Finalize
    BY <1>1, <1>12 DEF Finalize, NoHead, HeapOK, workVars
  <1> QED BY <1>3, <1>4, <1>5, <1>6, <1>7, <1>8, <1>9, <1>10, <1>11, <1>12 DEF Step

StatusOK ==
    /\ status \in [Agents -> {"missing", "fixer", "clean", "findings"} \union Hard]
    /\ fresh \in {"missing", "clean", "findings"} \union Hard

LEMMA StatusStep ==
    ASSUME Form, Step
    PROVE  StatusOK'
  <1> DEFINE T == {"missing", "fixer", "clean", "findings"} \union Hard
  <1>1. status \in [Agents -> T] /\ fresh \in {"missing", "clean", "findings"} \union Hard
    BY DEF Form, TypeOK
  <1>2. \A a \in Answers : a.is \in {"clean", "findings"} \union Hard
    BY AnswerType
  <1>3. {"failed", "clean", "findings"} \subseteq T /\ {"failed"} \subseteq Hard
    BY DEF Hard
  <1>4. CASE UNCHANGED <<status, fresh>>
    BY <1>1, <1>4 DEF StatusOK
  <1>5. CASE fresh' = fresh /\ \E r \in Agents \union {"nobody"}, s \in T : status' = [status EXCEPT ![r] = s]
    BY <1>1, <1>5 DEF StatusOK
  <1>6. CASE Setup
    BY <1>3, <1>4, <1>5, <1>6 DEF Setup, Agents
  <1>7. CASE Review \/ PeerReview
    BY <1>2, <1>5, <1>7 DEF Review, PeerReview, Record, endVars, Agents
  <1>8. CASE Standby
    BY <1>2, <1>5, <1>8 DEF Standby, Record, Break, endVars, Agents
  <1>9. CASE Understudy
    <2>1. fresh' = fresh
      BY <1>9 DEF Understudy, Break, endVars
    <2>2. PICK a \in Answers :
            status' = [status EXCEPT !["fixer"] = a.is,
                                     !["primary"] = IF a.is = "clean" THEN "clean" ELSE @]
      BY <1>9 DEF Understudy
    <2> QED BY <1>1, <1>2, <2>1, <2>2 DEF StatusOK
  <1>10. CASE Decide \/ Fix \/ GatesFail
    BY <1>1, <1>3, <1>10 DEF Decide, Fix, GatesFail, Break, endVars, StatusOK
  <1>11. CASE GatesPass
    BY <1>1, <1>3, <1>11 DEF GatesPass, StatusOK
  <1>12. CASE Verify
    <2>1. fresh' = fresh
      BY <1>12 DEF Verify, Break, endVars
    <2>2. PICK a \in Answers : status' = [status EXCEPT ![reviewer] = a.is]
      BY <1>12 DEF Verify
    <2> QED BY <1>1, <1>2, <2>1, <2>2 DEF StatusOK
  <1>13. CASE Judge \/ End \/ Finalize
    BY <1>1, <1>3, <1>13 DEF Judge, End, Finalize, Break, endVars, roleVars, StatusOK
  <1>14. CASE FreshReview
    BY <1>1, <1>2, <1>14 DEF FreshReview, roleVars, StatusOK
  <1>15. CASE Top \/ Undo \/ SpareFix \/ Guard \/ Commit \/ Push \/ Rebase \/ Pushed
    BY <1>4, <1>15 DEF Top, Undo, SpareFix, Guard, Commit, Push, Rebase, Pushed, Break, endVars,
       roleVars
  <1> QED BY <1>6, <1>7, <1>8, <1>9, <1>10, <1>11, <1>12, <1>13, <1>14, <1>15 DEF Step

LoopOK ==
    /\ config \in Configs /\ round \in 0..MaxRounds /\ tries \in 0..(PushTries - 1)
    /\ pending \subseteq Keys /\ fixing \subseteq Keys
    /\ phase \in {"fresh", "final", "done"} => stopped
    /\ phase = "rebase" => tries + 1 < PushTries
    /\ phase \in Rounds => round # 0
    /\ passed => phase = "done"

LEMMA LoopStep ==
    ASSUME Form, Step
    PROVE  LoopOK'
  <1>1. LoopOK
    BY DEF LoopOK, Form, TypeOK, Done
  <1>2. config' = config
    BY DEF Step, Setup, Top, Review, PeerReview, Judge, Standby, Understudy, Decide, GatesPass,
       GatesFail, Fix, Undo, SpareFix, Guard, Commit, Push, Rebase, Pushed, Verify, End,
       FreshReview, Finalize
  <1>3. \A a \in Answers : a.found \subseteq Keys
    BY AnswerType DEF Keys
  <1>4. {Check} \subseteq Keys /\ {} \subseteq Keys
    BY DEF Keys
  <1> USE DEF Rounds, First, Fixing
  <1>5. CASE Setup
    BY <1>1, <1>2, <1>4, <1>5 DEF Setup, LoopOK
  <1>6. CASE Top
    BY <1>1, <1>2, <1>6, ReviewAssumption
       DEF Top, Break, MoreRounds, LoopOK, roundVars, endVars, workVars, headVars
  <1>7. CASE Review
    BY <1>1, <1>2, <1>3, <1>7 DEF Review, LoopOK, endVars, workVars, headVars
  <1>8. CASE PeerReview
    BY <1>1, <1>2, <1>3, <1>8 DEF PeerReview, LoopOK, endVars, workVars, headVars
  <1>9. CASE Judge
    BY <1>1, <1>2, <1>9 DEF Judge, Break, LoopOK, roundVars, endVars, workVars, headVars
  <1>10. CASE Standby
    BY <1>1, <1>2, <1>3, <1>10 DEF Standby, Break, LoopOK, endVars, workVars, headVars
  <1>11. CASE Understudy
    BY <1>1, <1>2, <1>3, <1>11 DEF Understudy, Break, LoopOK, endVars, workVars, headVars
  <1>12. CASE Decide
    BY <1>1, <1>2, <1>12 DEF Decide, Break, LoopOK, endVars, workVars, headVars
  <1>13. CASE GatesPass
    BY <1>1, <1>2, <1>13 DEF GatesPass, LoopOK, roundVars, workVars, headVars
  <1>14. CASE GatesFail
    BY <1>1, <1>2, <1>4, <1>14 DEF GatesFail, Break, LoopOK, endVars, workVars, headVars
  <1>15. CASE Fix \/ Undo \/ SpareFix \/ Guard \/ Pushed
    <2>1. UNCHANGED <<roundVars, tries, passed>>
      BY <1>15 DEF Fix, Undo, SpareFix, Guard, Pushed, headVars, workVars
    <2>2. phase \in Rounds /\ phase' \in Rounds \union {"end"} /\ phase' # "rebase"
      BY <1>15 DEF Fix, Undo, SpareFix, Guard, Pushed, Break
    <2> QED BY <1>1, <1>2, <2>1, <2>2 DEF LoopOK, roundVars
  <1>16. CASE Commit
    BY <1>1, <1>2, <1>16 DEF Commit, Break, LoopOK, roundVars, endVars, headVars, PushTries
  <1>17. CASE Push
    BY <1>1, <1>2, <1>17 DEF Push, Break, LoopOK, roundVars, endVars, PushTries
  <1>18. CASE Rebase
    <2>1. phase = "rebase" /\ UNCHANGED <<roundVars, passed>>
      BY <1>18 DEF Rebase, headVars
    <2>2. \/ phase' = "end" /\ tries' = tries
          \/ phase' = "push" /\ tries' = tries + 1
      BY <1>18 DEF Rebase, Break
    <2> QED BY <1>1, <1>2, <1>18, <2>1, <2>2 DEF Rebase, LoopOK, PushTries, roundVars, endVars
  <1>19. CASE Verify
    BY <1>1, <1>2, <1>3, <1>19 DEF Verify, Break, LoopOK, endVars, workVars
  <1>20. CASE End
    BY <1>1, <1>2, <1>4, <1>20 DEF End, RoundIsOver, LoopOK, headVars, PushTries
  <1>21. CASE FreshReview
    BY <1>1, <1>2, <1>21 DEF FreshReview, LoopOK, roundVars, workVars, headVars
  <1>22. CASE Finalize
    BY <1>1, <1>2, <1>22 DEF Finalize, LoopOK, roundVars, workVars
  <1> QED BY <1>5, <1>6, <1>7, <1>8, <1>9, <1>10, <1>11, <1>12, <1>13, <1>14, <1>15, <1>16, <1>17,
             <1>18, <1>19, <1>20, <1>21, <1>22 DEF Step

RoleTypes ==
    /\ reviewer \in {"primary", "standby", "fixer"}
    /\ activeFixer \in {"none", "spare", "standby"}
    /\ turn \in {"none", "fixer", "spare", "standby"}
    /\ phase \in Fixing => turn # "none"

LEMMA RoleTypesStep ==
    ASSUME Form, Step
    PROVE  RoleTypes'
  <1>1. RoleTypes
    BY DEF RoleTypes, Form, TypeOK
  <1> USE DEF Fixing
  <1>2. CASE Setup \/ Top \/ Review \/ PeerReview \/ Judge \/ Decide \/ GatesPass \/ Pushed \/ Verify
             \/ FreshReview \/ Finalize
    <2>1. UNCHANGED <<reviewer, activeFixer, turn>>
      BY <1>2 DEF Setup, Top, Review, PeerReview, Judge, Decide, GatesPass, Pushed, Verify,
         FreshReview, Finalize, roleVars
    <2>2. phase' \notin Fixing
      BY <1>2 DEF Setup, Top, Review, PeerReview, Judge, Decide, GatesPass, Pushed, Verify,
         FreshReview, Finalize, Break
    <2> QED BY <1>1, <2>1, <2>2 DEF RoleTypes
  <1>3. CASE Standby \/ Understudy \/ GatesFail
    BY <1>1, <1>3 DEF Standby, Understudy, GatesFail, Break, endVars, RoleTypes
  <1>4. CASE Fix
    BY <1>1, <1>4 DEF Fix, ActiveFixer, RoleTypes
  <1>5. CASE Undo \/ Guard \/ Commit \/ Push \/ Rebase
    <2>1. UNCHANGED <<reviewer, activeFixer, turn>> /\ phase \in Fixing
      BY <1>5 DEF Undo, Guard, Commit, Push, Rebase, roleVars
    <2> QED BY <1>1, <2>1 DEF RoleTypes
  <1>6. CASE SpareFix
    BY <1>1, <1>6, FixersAreAgents DEF SpareFix, Break, RoleTypes
  <1>7. CASE End
    BY <1>1, <1>7 DEF End, RoleTypes
  <1> QED BY <1>2, <1>3, <1>4, <1>5, <1>6, <1>7 DEF Step

LEMMA FormNext ==
    ASSUME Form, [Next]_vars
    PROVE  Form'
  <1>1. CASE Step
    <2>1. FindingsOK' /\ HeapOK' /\ StatusOK' /\ LoopOK' /\ RoleTypes'
      BY <1>1, FindingsStep, HeapStep, StatusStep, LoopStep, RoleTypesStep
    <2> QED BY <2>1 DEF FindingsOK, HeapOK, Heap, StatusOK, LoopOK, RoleTypes, Form, TypeOK, Done
  <1>2. CASE OthersPush
    <2>1. PICK n \in 1..MaxOthers : remote' = remote \union {Others(n)}
      BY <1>2 DEF OthersPush
    <2>2. Others(n) \in OthersWork
      BY ReviewAssumption DEF OthersWork
    <2>3. remote' \subseteq Piece \union OthersWork
      BY <2>1, <2>2 DEF Form, TypeOK
    <2> QED BY <1>2, <2>3
            DEF OthersPush, roundVars, roleVars, endVars, workVars, headVars, Form, TypeOK, Done
  <1>3. CASE Exhaust \/ UNCHANGED vars
    BY <1>3 DEF Exhaust, vars, roundVars, roleVars, endVars, workVars, headVars, Form, TypeOK, Done
  <1> QED BY <1>1, <1>2, <1>3 DEF Next

LEMMA FormInit == Init => Form
  <1> SUFFICES ASSUME Init PROVE Form
    OBVIOUS
  <1>1. Others(0) \in OthersWork
    BY ReviewAssumption DEF OthersWork
  <1>2. {} \subseteq Keys /\ 0 \in 0..MaxRounds /\ 0 \in 0..(PushTries - 1)
    BY ReviewAssumption DEF PushTries
  <1>3. StatusOK /\ FindingsOK /\ RoleTypes
    BY DEF Init, StatusOK, FindingsOK, RoleTypes, Fixing
  <1>4. HeapOK
    BY <1>1 DEF Init, HeapOK, Heap, NoHead
  <1>5. LoopOK
    BY <1>2 DEF Init, LoopOK, Rounds, First, Fixing
  <1>6. TypeOK
    BY <1>3, <1>4, <1>5 DEF HeapOK, Heap, StatusOK, FindingsOK, LoopOK, RoleTypes, TypeOK, Done
  <1> QED BY <1>3, <1>5, <1>6 DEF StatusOK, LoopOK, RoleTypes, Form, Done

\* A finding never returns to "none".
LEMMA FindingsStay ==
    ASSUME Form, Step
    PROVE  \A k \in Keys : findings[k] # "none" => findings'[k] # "none"
  <1>1. findings \in [Keys -> {"none", "open", "fixed"}]
    BY DEF Form, TypeOK
  <1>2. CASE \E S : findings' = Open(S)
    BY <1>2 DEF Open
  <1>3. CASE findings' = findings
    BY <1>3
  <1>4. CASE Verify
    <2>1. PICK a \in Answers : findings' = Open(a.found) \/ findings' = Settled(a)
      BY <1>4 DEF Verify
    <2> QED BY <1>1, <1>2, <2>1 DEF Settled
  <1>5. CASE Finalize
    BY <1>1, <1>5 DEF Finalize, Downgraded
  <1>6. CASE Setup \/ Review \/ PeerReview \/ Standby \/ Understudy \/ GatesFail \/ End \/ FreshReview
    BY <1>2, <1>3, <1>6
       DEF Setup, Review, PeerReview, Standby, Understudy, GatesFail, End, FreshReview, Record
  <1>7. CASE Top \/ Judge \/ Decide \/ GatesPass \/ Fix \/ Undo \/ SpareFix \/ Guard \/ Commit
             \/ Push \/ Rebase \/ Pushed
    BY <1>3, <1>7 DEF Top, Judge, Decide, GatesPass, Fix, Undo, SpareFix, Guard, Commit, Push,
       Rebase, Pushed
  <1> QED BY <1>4, <1>5, <1>6, <1>7 DEF Step

LEMMA RolesStep ==
    ASSUME Form, Roles, Step
    PROVE  Roles'
  <1>1. Check \in Keys /\ (findings[Check] # "none" => findings'[Check] # "none")
    BY FindingsStay DEF Keys
  <1>2. config' = config
    BY DEF Step, Setup, Top, Review, PeerReview, Judge, Standby, Understudy, Decide, GatesPass,
       GatesFail, Fix, Undo, SpareFix, Guard, Commit, Push, Rebase, Pushed, Verify, End,
       FreshReview, Finalize
  <1>3. /\ reviewer \in {"primary", "standby", "fixer"}
        /\ activeFixer \in {"none", "spare", "standby"}
        /\ turn \in {"none", "fixer", "spare", "standby"}
    BY DEF Form, TypeOK
  <1> USE DEF Roles, Unread, Unfixed, First
  <1>4. CASE Setup
    BY <1>1, <1>2, <1>4 DEF Setup
  <1>5. CASE Top
    BY <1>1, <1>2, <1>5 DEF Top, Break, roundVars, roleVars, workVars
  <1>6. CASE Review
    BY <1>1, <1>2, <1>6 DEF Review, workVars
  <1>7. CASE PeerReview
    BY <1>1, <1>2, <1>7 DEF PeerReview, workVars
  <1>8. CASE Judge
    BY <1>1, <1>2, <1>8 DEF Judge, Break, roundVars, roleVars, workVars
  <1>9. CASE Standby
    BY <1>1, <1>2, <1>9 DEF Standby, Break, workVars
  <1>10. CASE Understudy
    <2>1. \A a \in Answers : a.is = "findings" => a.found # {}
      BY AnswerType
    <2> QED BY <1>1, <1>2, <1>10, <2>1 DEF Understudy, Break, workVars
  <1>11. CASE Decide
    BY <1>1, <1>2, <1>11 DEF Decide, Break, workVars
  <1>12. CASE GatesPass
    BY <1>1, <1>2, <1>12 DEF GatesPass, roundVars, workVars
  <1>13. CASE GatesFail
    <2>1. findings'[Check] = "open"
      BY <1>1, <1>13 DEF GatesFail, Open
    <2> QED BY <1>1, <1>2, <1>3, <1>13, <2>1 DEF GatesFail, Break, workVars
  <1>14. CASE Fix
    BY <1>1, <1>2, <1>3, <1>14 DEF Fix, ActiveFixer, roundVars
  <1>15. CASE SpareFix
    BY <1>1, <1>2, <1>3, <1>15, FixersAreAgents DEF SpareFix, SpareAllowed, Break, roundVars
  <1>16. CASE Guard
    BY <1>1, <1>2, <1>3, <1>16 DEF Guard, Break, Form, Fixing, roundVars, roleVars
  <1>17. CASE Undo \/ Commit \/ Push \/ Rebase \/ Pushed
    BY <1>1, <1>2, <1>17 DEF Undo, Commit, Push, Rebase, Pushed, Break, roundVars, roleVars, workVars
  <1>18. CASE Verify
    BY <1>1, <1>2, <1>18 DEF Verify, Break, workVars
  <1>19. CASE End
    BY <1>1, <1>2, <1>19 DEF End, RoundIsOver
  <1>20. CASE FreshReview \/ Finalize
    BY <1>1, <1>2, <1>20 DEF FreshReview, Finalize, roundVars, roleVars, workVars
  <1> QED BY <1>4, <1>5, <1>6, <1>7, <1>8, <1>9, <1>10, <1>11, <1>12, <1>13, <1>14, <1>15, <1>16,
             <1>17, <1>18, <1>19, <1>20 DEF Step

\* The heads the loop pins: what it pushed is on the branch, what it verified
\* was pushed.
LEMMA HeadsStep ==
    ASSUME Heads, Step
    PROVE  Heads'
  <1> USE DEF Heads, AtStart, Unread, First
  <1>2. ASSUME NEW S, findings' = Open(S), lastPushed' = lastPushed
        PROVE  lastPushed' = NoHead => \A k \in Keys : findings'[k] # "fixed"
    BY <1>2 DEF Open
  <1>3. CASE Setup
    BY <1>2, <1>3 DEF Setup
  <1>4. CASE Top
    BY <1>4 DEF Top, Break, roundVars, workVars, headVars
  <1>5. CASE Review \/ PeerReview
    BY <1>2, <1>5 DEF Review, PeerReview, Record, workVars, headVars
  <1>6. CASE Judge
    BY <1>6 DEF Judge, Break, workVars, headVars
  <1>7. CASE Standby
    BY <1>2, <1>7 DEF Standby, Record, Break, workVars, headVars
  <1>8. CASE Understudy
    BY <1>2, <1>8 DEF Understudy, Break, workVars, headVars
  <1>9. CASE Decide \/ GatesPass
    BY <1>9 DEF Decide, GatesPass, Break, workVars, headVars
  <1>10. CASE GatesFail
    BY <1>2, <1>10 DEF GatesFail, Break, workVars, headVars
  <1>11. CASE Fix \/ Undo \/ SpareFix \/ Guard \/ Commit
    <2>1. UNCHANGED <<remote, verifiedHead, lastPushed, findings>>
      BY <1>11 DEF Fix, Undo, SpareFix, Guard, Commit, headVars
    <2>2. phase' \in Fixing \union {"fix", "end"}
      BY <1>11 DEF Fix, Undo, SpareFix, Guard, Commit, Break, Fixing
    <2> QED BY <2>1, <2>2 DEF Fixing
  <1>12. CASE Push
    <2>1. phase = "push" /\ UNCHANGED <<local, findings, verifiedHead>>
      BY <1>12 DEF Push
    <2>2. CASE CanPush /\ remote' = local /\ lastPushed' = local /\ phase' = "pushed"
      BY <2>1, <2>2 DEF CanPush, NoHead
    <2>3. CASE CanPush /\ remote' = local /\ lastPushed' = lastPushed /\ phase' = "end"
      BY <2>1, <2>3 DEF CanPush
    <2>4. CASE remote' = remote /\ lastPushed' = lastPushed /\ phase' \in {"rebase", "end"}
      BY <2>1, <2>4
    <2> QED BY <1>12, <2>2, <2>3, <2>4 DEF Push, Break
  <1>13. CASE Rebase
    BY <1>13 DEF Rebase, Break, headVars
  <1>14. CASE Pushed
    BY <1>14 DEF Pushed, Break, workVars, headVars
  <1>15. CASE Verify
    BY <1>2, <1>15 DEF Verify, Break, workVars
  <1>16. CASE End
    BY <1>2, <1>16 DEF End, headVars
  <1>17. CASE FreshReview
    BY <1>2, <1>17 DEF FreshReview, workVars, headVars
  <1>18. CASE Finalize
    BY <1>18 DEF Finalize, Downgraded, workVars
  <1> QED BY <1>3, <1>4, <1>5, <1>6, <1>7, <1>8, <1>9, <1>10, <1>11, <1>12, <1>13, <1>14, <1>15,
             <1>16, <1>17, <1>18 DEF Step

LEMMA SaidIs ==
    ASSUME NEW a \in Answers, NEW c \in {"clean", "peer", "fresh"}
    PROVE  /\ Said(a, c) \subseteq {c, "finding"}
           /\ a.is = "clean" => c \in Said(a, c)
           /\ "finding" \in Said(a, c) => \E k \in Keys : k \in a.found
  BY AnswerType DEF Said, Keys

\* A finding somebody reported of this head is open until it is fixed.
LEMMA FindingIsOpen ==
    ASSUME Form, Words, Step
    PROVE  "finding" \in told' => \E k \in Keys : findings'[k] = "open"
  <1>1. findings \in [Keys -> {"none", "open", "fixed"}]
    BY DEF Form, TypeOK
  <1>2. ASSUME NEW S, findings' = Open(S), told' = told \/ \E k \in Keys : k \in S
        PROVE  "finding" \in told' => \E k \in Keys : findings'[k] = "open"
    <2>1. \A k \in Keys : (k \in S \/ findings[k] = "open") => findings'[k] = "open"
      BY <1>2 DEF Open
    <2> QED BY <1>2, <2>1 DEF Words
  <1>3. ASSUME NEW a \in Answers, NEW c \in {"clean", "peer", "fresh"},
               findings' = Open(a.found), told' = told \union Said(a, c)
        PROVE  "finding" \in told' => \E k \in Keys : findings'[k] = "open"
    <2>1. \A k \in Keys : (k \in a.found \/ findings[k] = "open") => findings'[k] = "open"
      BY <1>3 DEF Open
    <2> QED BY <1>3, <2>1, SaidIs DEF Words
  <1>4. CASE UNCHANGED <<findings, told>>
    BY <1>4 DEF Words
  <1>5. CASE Setup
    BY <1>2, <1>4, <1>5 DEF Setup
  <1>6. CASE Review \/ PeerReview \/ Standby
    BY <1>3, <1>6 DEF Review, PeerReview, Standby, Record
  <1>7. CASE Understudy \/ FreshReview
    BY <1>3, <1>7 DEF Understudy, FreshReview
  <1>8. CASE GatesPass
    BY <1>8 DEF GatesPass, Words
  <1>9. CASE GatesFail
    BY <1>2, <1>9 DEF GatesFail
  <1>10. CASE Fix
    BY <1>10 DEF Fix
  <1>11. CASE Verify
    <2>1. told = {}
      BY <1>11 DEF Verify, Words
    <2>2. PICK a \in Answers : /\ told' = told \union Said(a, "clean")
                               /\ findings' = Open(a.found) \/ findings' = Settled(a)
      BY <1>11 DEF Verify
    <2>3. \A k \in Keys : k \in a.found => findings'[k] = "open"
      BY <2>2 DEF Open, Settled
    <2> QED BY <2>1, <2>2, <2>3, SaidIs
  <1>12. CASE End
    BY <1>2, <1>4, <1>12 DEF End
  <1>13. CASE Finalize
    BY <1>1, <1>13 DEF Finalize, Downgraded, Words
  <1>14. CASE Top \/ Judge \/ Decide \/ Undo \/ SpareFix \/ Guard \/ Commit \/ Push \/ Rebase \/ Pushed
    BY <1>4, <1>14 DEF Top, Judge, Decide, Undo, SpareFix, Guard, Commit, Push, Rebase, Pushed
  <1> QED BY <1>5, <1>6, <1>7, <1>8, <1>9, <1>10, <1>11, <1>12, <1>13, <1>14 DEF Step

LEMMA WordsStep ==
    ASSUME Form, Heads, Statuses, Words, Step
    PROVE  Words'
  <1>1. "finding" \in told' => \E k \in Keys : findings'[k] = "open"
    BY FindingIsOpen
  <1>2. ASSUME NEW a \in Answers, a.is \notin Hard PROVE a.found = {} => a.is = "clean"
    BY <1>2, AnswerType
  <1> USE DEF Words, Fixing
  <1>3. CASE Setup \/ Top \/ Decide \/ Undo \/ SpareFix \/ Guard \/ Commit \/ Push \/ Rebase
             \/ Pushed \/ Judge
    <2>1. told' = told
      BY <1>3 DEF Setup, Top, Decide, Undo, SpareFix, Guard, Commit, Push, Rebase, Pushed, Judge
    <2>2. CASE Decide
      BY <1>1, <2>1, <2>2 DEF Decide, Break, workVars, headVars, Heads, AtStart
    <2>3. CASE Judge
      BY <1>1, <2>1, <2>3 DEF Judge, Break, roundVars, Statuses, Hard
    <2>4. CASE Setup \/ Top
      BY <1>1, <2>1, <2>4 DEF Setup, Top, Break
    <2>5. CASE Undo \/ SpareFix \/ Guard \/ Commit \/ Push \/ Rebase \/ Pushed
      BY <1>1, <2>1, <2>5 DEF Undo, SpareFix, Guard, Commit, Push, Rebase, Pushed, Break
    <2> QED BY <1>3, <2>2, <2>3, <2>4, <2>5
  <1>4. CASE Review
    BY <1>1, <1>4, SaidIs, AnswerType DEF Review, Record
  <1>5. CASE PeerReview
    BY <1>1, <1>5, SaidIs, AnswerType DEF PeerReview, Record
  <1>6. CASE Standby
    BY <1>1, <1>2, <1>6, SaidIs DEF Standby, Break, Record
  <1>7. CASE Understudy
    BY <1>1, <1>7, SaidIs DEF Understudy, Break, workVars, headVars, Heads, AtStart, Unread, First
  <1>8. CASE GatesPass
    BY <1>1, <1>8 DEF GatesPass
  <1>9. CASE GatesFail
    BY <1>1, <1>9 DEF GatesFail, Break
  <1>10. CASE Fix
    BY <1>1, <1>10 DEF Fix
  <1>11. CASE Verify
    BY <1>1, <1>2, <1>11, SaidIs DEF Verify, Break, workVars, AtEnd, Heads
  <1>12. CASE End \/ FreshReview \/ Finalize
    BY <1>1, <1>12 DEF End, FreshReview, Finalize
  <1> QED BY <1>3, <1>4, <1>5, <1>6, <1>7, <1>8, <1>9, <1>10, <1>11, <1>12 DEF Step

\* Acceptance is about the worktree's head, which the end of a run leaves alone.
LEMMA AcceptedStays ==
    ASSUME Accepted, UNCHANGED <<config, local, verifiedHead, lastPushed, reviewedHead>>, told \subseteq told'
    PROVE  Accepted'
  BY DEF Accepted, AtStart, AtEnd

LEMMA StatusesStep ==
    ASSUME Form, Roles, Words, Statuses, Step
    PROVE  Statuses'
  <1>1. /\ status \in [Agents -> {"missing", "fixer", "clean", "findings"} \union Hard]
        /\ reviewer \in {"primary", "standby", "fixer"}
    BY DEF Form, TypeOK
  <1>2. \A a \in Answers : /\ a.is \in {"clean", "findings"} \union Hard
                           /\ a.found # {} /\ a.is \notin Hard => a.is = "findings"
                           /\ a.is = "findings" => a.found # {}
    BY AnswerType
  <1>3. {"primary", "standby", "fixer", "peer"} \subseteq Agents
    BY DEF Agents
  <1> USE DEF Statuses, Hard, Fixing, Rounds, First
  <1>4. CASE Setup
    BY <1>1, <1>3, <1>4 DEF Setup, Roles, Unread
  <1>5. CASE Top
    BY <1>1, <1>5 DEF Top, Break, MoreRounds, roundVars, roleVars, endVars
  <1>6. CASE Review
    BY <1>1, <1>2, <1>3, <1>6 DEF Review, Record, endVars
  <1>7. CASE PeerReview
    BY <1>1, <1>2, <1>3, <1>7 DEF PeerReview, Record, endVars
  <1>8. CASE Judge
    BY <1>1, <1>8 DEF Judge, Break, roundVars, roleVars, endVars, Roles, Unread
  <1>9. CASE Standby
    BY <1>1, <1>2, <1>3, <1>9 DEF Standby, Break, Record, endVars, Roles, Unread
  <1>10. CASE Understudy
    <2>1. PICK a \in Answers :
            /\ status' = [status EXCEPT !["fixer"] = a.is,
                                     !["primary"] = IF a.is = "clean" THEN "clean" ELSE @]
            /\ \/ Break(TRUE) /\ reviewer' = reviewer
               \/ a.is \in Hard /\ Break(FALSE) /\ reviewer' = reviewer
               \/ phase' = "gates" /\ UNCHANGED endVars
               \/ /\ a.is = "findings" /\ reviewer' = "fixer" /\ phase' = "top"
                  /\ UNCHANGED endVars
      BY <1>10 DEF Understudy
    <2>2. status'["fixer"] = a.is /\ (a.is # "clean" => status'["primary"] = status["primary"])
      BY <1>1, <1>3, <2>1
    <2>3. reviewer = "primary" /\ status["primary"] # "clean" /\ fresh = "missing" /\ verdict' = verdict
      BY <1>10 DEF Understudy, Roles, Unread
    <2> QED BY <2>1, <2>2, <2>3 DEF Break, endVars
  <1>11. CASE Decide
    BY <1>1, <1>3, <1>11 DEF Decide, Break, endVars
  <1>12. CASE GatesPass
    <2>1. AtStart \/ AtEnd
      BY <1>12 DEF GatesPass, Words
    <2>2. Accepted'
      BY <1>12, <2>1 DEF GatesPass, Words, Accepted, AtStart, AtEnd, workVars, headVars
    <2>3. phase' = "end" /\ fresh' \in {"missing", "clean"} /\ verdict' = verdict
      BY <1>12 DEF GatesPass, roundVars
    <2> QED BY <2>2, <2>3
  <1>13. CASE GatesFail
    BY <1>1, <1>3, <1>13 DEF GatesFail, Break, endVars
  <1>14. CASE Fix
    BY <1>1, <1>3, <1>14 DEF Fix, roundVars, endVars
  <1>15. CASE Undo \/ SpareFix \/ Guard \/ Commit \/ Push \/ Rebase
    BY <1>15 DEF Undo, SpareFix, Guard, Commit, Push, Rebase, Break, roundVars, roleVars, endVars
  <1>16. CASE Pushed
    BY <1>16 DEF Pushed, Break, roundVars, roleVars, endVars
  <1>17. CASE Verify
    BY <1>1, <1>2, <1>3, <1>17 DEF Verify, Break, endVars
  <1>18. CASE End
    BY <1>18, AcceptedStays DEF End, headVars
  <1>19. CASE FreshReview
    BY <1>19, AcceptedStays, SaidIs DEF FreshReview, roundVars, roleVars, workVars, headVars
  <1>20. CASE Finalize
    BY <1>20 DEF Finalize, roundVars, roleVars
  <1> QED BY <1>4, <1>5, <1>6, <1>7, <1>8, <1>9, <1>10, <1>11, <1>12, <1>13, <1>14, <1>15, <1>16,
             <1>17, <1>18, <1>19, <1>20 DEF Step

LEMMA ReportStep ==
    ASSUME Form, Heads, Statuses, Words, Step
    PROVE  PassedIsProven' /\ FixedIsHeld'
  <1>1. CASE Finalize
    <2>1. UNCHANGED <<config, local, told, verifiedHead, lastPushed, reviewedHead, remote>> /\ phase = "final"
      BY <1>1 DEF Finalize, workVars
    <2>2. \A k \in Keys : findings[k] = "open" => findings'[k] = "open"
      BY <1>1 DEF Finalize, Downgraded
    <2>3. ASSUME passed' PROVE /\ seen' = local /\ "clean" \in told /\ "finding" \notin told
                               /\ config.gates => "gates" \in told
                               /\ config.agentic => "fresh" \in told
      <3>1. passed' = Passes
        BY <1>1 DEF Finalize
      <3>2. Passes
        BY <2>3, <3>1
      <3>3. fresh' = "clean" /\ ~limit /\ \A k \in Keys : findings'[k] # "open"
        BY <3>2 DEF Passes
      <3>4. fresh = "clean" /\ NeedsRefetch
        BY <1>1, <3>3 DEF Finalize, NeedsRefetch
      <3>5. ~ Stale
        BY <1>1, <3>3, <3>4 DEF Finalize
      <3>6. Accepted
        BY <2>1, <3>3, <3>4 DEF Statuses
      <3>7. seen' = local
        BY <3>5, <3>6 DEF Stale, Compared, Accepted, AtStart, AtEnd
      <3>8. "finding" \notin told
        BY <2>2, <3>3 DEF Words
      <3>9. config.agentic => "fresh" \in told
        BY <2>1, <3>4 DEF Statuses
      <3> QED BY <3>6, <3>7, <3>8, <3>9 DEF Accepted
    <2>4. ASSUME NEW k \in Keys, findings'[k] = "fixed" PROVE lastPushed # NoHead /\ seen' = lastPushed
      <3>1. findings[k] = "fixed"
        BY <1>1, <2>4 DEF Finalize, Downgraded
      <3>2. NeedsRefetch /\ lastPushed # NoHead
        BY <3>1 DEF NeedsRefetch, Heads
      <3>3. ~ Stale
        BY <1>1, <2>4, <3>2 DEF Finalize, Downgraded
      <3>4. seen' = Compared /\ seen' = remote
        BY <1>1, <3>2, <3>3 DEF Finalize, Stale
      <3> QED BY <3>2, <3>4 DEF Compared, Heads
    <2> QED BY <2>1, <2>3, <2>4 DEF PassedIsProven, FixedIsHeld
  <1>2. CASE ~ Finalize
    <2>1. phase' # "done" /\ phase # "done" /\ passed' = passed
      BY <1>2 DEF Step, Setup, Top, Review, PeerReview, Judge, Standby, Understudy, Decide, GatesPass,
         GatesFail, Fix, Undo, SpareFix, Guard, Commit, Push, Rebase, Pushed, Verify, End,
         FreshReview, Break, headVars
    <2> QED BY <2>1 DEF Form, PassedIsProven, FixedIsHeld, Done
  <1> QED BY <1>1, <1>2

\* All of the above together.
Whole == Inv /\ Form /\ Roles /\ Heads /\ Words /\ Statuses /\ PassedIsProven /\ FixedIsHeld

LEMMA WholeInit == Init => Whole
  <1> SUFFICES ASSUME Init PROVE Whole
    OBVIOUS
  <1>1. Roles /\ Heads
    BY DEF Init, Roles, Unread, Unfixed, Heads, AtStart, NoHead
  <1>2. Words /\ Statuses
    BY DEF Init, Words, Statuses, Fixing, Rounds, First, Agents
  <1>3. PassedIsProven /\ FixedIsHeld
    BY DEF Init, PassedIsProven, FixedIsHeld, Done
  <1> QED BY <1>1, <1>2, <1>3, InitInv, FormInit DEF Whole

LEMMA WholeNext ==
    ASSUME Whole, [Next]_vars
    PROVE  Whole'
  <1>1. Inv' /\ Form'
    BY NextInv, FormNext DEF Whole
  <1>2. CASE Step
    BY <1>1, <1>2, RolesStep, HeadsStep, WordsStep, StatusesStep, ReportStep DEF Whole
  <1>3. CASE OthersPush
    <2>1. /\ UNCHANGED <<config, phase, roundVars, roleVars, findings, endVars, workVars, headVars, told>>
          /\ remote \subseteq remote'
      BY <1>3 DEF OthersPush
    <2>2. UNCHANGED <<config, phase, pending, fixing, verdict, mode, reviewer, activeFixer, turn, disclosed,
                      status, findings, fresh, stopped, limit, local, dirty, pre, fixerHead, authors,
                      reviewedHead, verifiedHead, lastPushed, seen, passed, told>>
      BY <2>1 DEF roundVars, roleVars, endVars, workVars, headVars
    <2>3. Roles'
      BY <2>2 DEF Whole, Roles, Unread, Unfixed
    <2>4. Heads'
      BY <2>1, <2>2 DEF Whole, Heads, Unread, AtStart
    <2>5. Words' /\ Statuses'
      BY <2>2 DEF Whole, Words, Statuses, Accepted, AtStart, AtEnd
    <2>6. PassedIsProven' /\ FixedIsHeld'
      BY <2>2 DEF Whole, PassedIsProven, FixedIsHeld, Done
    <2> QED BY <1>1, <2>3, <2>4, <2>5, <2>6 DEF Whole
  <1>4. CASE Exhaust \/ UNCHANGED vars
    <2>1. UNCHANGED <<config, phase, roundVars, roleVars, findings, endVars, remote, workVars, headVars, told>>
      BY <1>4 DEF Exhaust, vars
    <2>2. UNCHANGED <<config, phase, pending, fixing, verdict, mode, reviewer, activeFixer, turn, disclosed,
                      status, findings, fresh, stopped, limit, remote, local, dirty, pre, fixerHead, authors,
                      reviewedHead, verifiedHead, lastPushed, seen, passed, told>>
      BY <2>1 DEF roundVars, roleVars, endVars, workVars, headVars
    <2>3. Roles' /\ Heads'
      BY <2>2 DEF Whole, Roles, Unread, Unfixed, Heads, AtStart
    <2>4. Words' /\ Statuses'
      BY <2>2 DEF Whole, Words, Statuses, Accepted, AtStart, AtEnd
    <2>5. PassedIsProven' /\ FixedIsHeld'
      BY <2>2 DEF Whole, PassedIsProven, FixedIsHeld, Done
    <2> QED BY <1>1, <2>3, <2>4, <2>5 DEF Whole
  <1> QED BY <1>2, <1>3, <1>4 DEF Next

(***************************************************************************)
(* The theorems.                                                           *)
(***************************************************************************)

\* The branch never gets the work of a session that failed, and a push that
\* landed carries all of the round's fix, although the worktree is reset,
\* committed and rebased between.  About the reset to pre_fix_sha before the fallback fixer,
\* _commit_and_push_if_changed and _rebase_onto_updated_pr_head.
THEOREM PushesSound == Spec => []PushesAreSound
  <1>1. Init => Inv
    BY InitInv
  <1>2. Inv /\ [Next]_vars => Inv'
    BY NextInv
  <1>3. Inv => PushesAreSound
    BY DEF Inv, PushesAreSound, FailedWorkKeptOut, FixIsWhole, Sound, Reading
  <1> QED BY <1>1, <1>2, <1>3, PTL DEF Spec

\* A run reported as passed is about the very head the branch has at the end,
\* and on it everybody who had to speak spoke and nobody objected; a finding is
\* reported fixed only while the head that was pushed is still the branch's.
\* About _finalize and _render_machine_verdict_block.
THEOREM ReportHolds == Spec => []ReportIsTrue
  <1>1. Whole => ReportIsTrue
    BY DEF Whole, Form, ReportIsTrue
  <1> QED BY WholeInit, WholeNext, <1>1, PTL DEF Spec

\* Nobody verifies a fix of their own role but the fixer's role, after it took
\* over from a reviewer that failed.  About _maybe_run_fallback_fixer and
\* _maybe_run_fallback_reviewer.
THEOREM NobodyJudgesThemselves == Spec => []Independent
  <1>1. Whole => Independent
    <2>1. Whole /\ reviewer \in authors => reviewer = "fixer"
      BY DEF Whole, Form, TypeOK, Roles
    <2>2. Whole /\ reviewer = "fixer" =>
            verdict = "failed" /\ config.optIn /\ (disclosed \/ findings[Check] # "none")
      BY Zenon DEF Whole, Roles
    <2> QED BY <2>1, <2>2, Zenon DEF Independent
  <1> QED BY WholeInit, WholeNext, <1>1, PTL DEF Spec

=============================================================================
