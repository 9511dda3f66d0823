------------------------------ MODULE SyncLoop ------------------------------
(***************************************************************************)
(* The loop of `pdd sync` over one Python unit (sync_worker_logic of       *)
(* pdd/sync_orchestration.py), run after run, with a user who edits and    *)
(* deletes files between operations and runs that are killed.  What to do  *)
(* next is Decision of SyncDecision; this module has what the loop does    *)
(* with the answer: its breakers, its skips, the effect of each operation  *)
(* on the files, the run report and the fingerprint, and the pair of the   *)
(* two that is committed when an operation ends.                           *)
(*                                                                         *)
(* An operation is three steps: Work calls the model and writes the files, *)
(* Clear drops the run report (generate and auto-deps do it at once), Save *)
(* commits what the operation buffered.  A run is killed between any two.  *)
(***************************************************************************)
EXTENDS SyncDecision, Sequences, SequencesExt

CONSTANTS Options,          \* the options a run may be started with
          Outcomes,         \* the reports running the tests may make
          Editable,         \* the artifacts the user edits
          Budget,           \* paid operations a run can afford
          MaxTests, MaxExtends, MaxCrashes, MaxFixes   \* MAX_CONSECUTIVE_TESTS and its like

ASSUME BoundsAssumption == {Budget, MaxTests, MaxExtends, MaxCrashes, MaxFixes} \subseteq Nat \ {0}

\* The iterations in a row that cost nothing, at most (FreeRunsBounded).
MaxFree == Max({6, 2 * MaxCrashes + 2})

\* What the options, the reports and the fingerprints are.
OptionRecords == [skipTests : BOOLEAN, skipVerify : BOOLEAN, target : Nat, noExtend : BOOLEAN,
                  isolated : BOOLEAN]
Reports == [exit : {0, 1}, passed : Nat, failed : Nat, coverage : Nat,
            test : {"none", "current", "stale"}, older : BOOLEAN]
Fingerprints == [command : Commands \cup SkipCommands, files : SUBSET Derived]
Decisions == Commands \cup {"all_synced", "nothing", "fail_and_request_manual_merge"}

ASSUME InputsAssumption ==
    /\ Options \subseteq OptionRecords /\ Outcomes \subseteq Reports
    /\ \A r \in Outcomes : r.test = "current"      \* with the hash of the test file it ran
    /\ Editable \subseteq Derived \cup {"prompt"}
    /\ None \notin Options /\ None \notin Reports /\ None \notin Fingerprints
    /\ None \notin Decisions \cup {"success", "manual", "error"}

VARIABLES unit,      \* the files and their metadata, as SyncDecision has them
          pc,        \* idle, decide, work, clear, save
          opt,       \* the options of the run
          op,        \* the operation the loop executes
          hist,      \* the end of operation_history
          extends,   \* test_extend entries of operation_history
          spent,     \* paid operations of the run
          noops,     \* consecutive_noop_fixes
          lastFail,  \* prev_fix_failures
          free,      \* ghost: iterations since the last paid operation or edit
          errs,      \* errors has an entry although the loop goes on
          buffer,    \* what the operation commits when it ends
          result,    \* how the last run ended, None when it was killed
          untested,  \* ghost: the tool wrote the code and the tests have not run since; not
                     \* when the user rewrote it since, or when the operation that wrote it
                     \* failed or was killed before its fingerprint
          owed,      \* ghost: the user edited the prompt of a whole unit; no generate read it yet
          edits,     \* ghost: what the user edited or deleted since the fingerprint, the
                     \* prompt or a file derived from it
          torn,      \* ghost: an operation wrote files, then failed or was killed, since then
          settled    \* ghost: the options of a success nothing happened after, or None

counters == <<hist, extends, spent, noops, lastFail, free, errs>>
ghosts == <<untested, owed, edits, torn, settled>>
vars == <<unit, pc, opt, op, hist, extends, spent, noops, lastFail, free, errs, buffer, result,
          untested, owed, edits, torn, settled>>

Running == pc # "idle"
Full(o) == ~ o.skipTests /\ ~ o.skipVerify

Report(exit, passed, failed, coverage, test) ==
    [exit |-> exit, passed |-> passed, failed |-> failed, coverage |-> coverage,
     test |-> test, older |-> FALSE]

TestOnDisk == IF "test" \in unit.have THEN "current" ELSE "none"

\* The files W have new contents; the report is no longer of the test file they replace.
Written(u, W) == [u EXCEPT !.have = @ \cup (W \ {"prompt"}), !.differs = @ \cup W,
                           !.report = IF "test" \in W /\ @ # None /\ @.test = "current"
                                      THEN [@ EXCEPT !.test = "stale"] ELSE @]

\* _save_fingerprint_atomic: it hashes what is on disk when it is saved.
Stamped(u, command) ==
    [u EXCEPT !.fp = [command |-> command, files |-> u.have], !.differs = {},
              !.report = IF @ = None THEN None ELSE [@ EXCEPT !.older = TRUE]]

\* What AtomicStateUpdate holds: whether the fingerprint is in it, the report or None,
\* whether the report was made after the fingerprint; and whether the loop goes on.
Commits(stamp, report, late, then) ==
    [stamp |-> stamp, report |-> report, late |-> late, then |-> then]
NoCommit == Commits(FALSE, None, FALSE, "loop")
Done == Commits(TRUE, None, FALSE, "loop")
Failed == Commits(FALSE, None, FALSE, "error")
Raised == Commits(FALSE, None, FALSE, "skip")    \* crash_main raised: the loop goes on

\* AtomicStateUpdate._commit
Committed(u, b) ==
    LET reported == IF b.report = None THEN u ELSE [u EXCEPT !.report = b.report]
        stamped == IF b.stamp THEN Stamped(reported, op) ELSE reported IN
    IF b.late /\ b.report # None THEN [stamped EXCEPT !.report = b.report] ELSE stamped

-----------------------------------------------------------------------------
(* The decision and the breakers *)

Keep == Max({4, MaxFixes, MaxTests, MaxCrashes})
\* The history h with the decision at its end, and the operation o that follows from it.
History(choice) == IF Len(hist) < Keep THEN Append(hist, choice) ELSE Append(Tail(hist), choice)
Recent(h, n) == SubSeq(h, Len(h) - n + 1, Len(h))

\* Two auto-deps of the last three operations: generate is forced.
AutoDepsLoop(h) ==
    Len(h) >= 3 /\ Cardinality({i \in 1..3 : Recent(h, 3)[i] = "auto-deps"}) >= 2
Operation(h) == IF AutoDepsLoop(h) THEN "generate" ELSE Last(h)

InARow(h, o, n) == Len(h) >= n /\ \A i \in 1..n : Recent(h, n)[i] = o
Alternates(h, a, b) == Len(h) >= 4 /\ Recent(h, 4) \in {<<a, b, a, b>>, <<b, a, b, a>>}

Failures == IF unit.report = None THEN None ELSE unit.report.failed
MakingProgress == Failures # None /\ lastFail # None /\ Failures < lastFail

\* Mutant: no limit to crash fixes in a row.
BreaksMutant(h, o) ==
    \/ Alternates(h, "crash", "verify") \/ Alternates(h, "test", "fix")
    \/ o = "fix" /\ InARow(h, "fix", MaxFixes) /\ ~ MakingProgress
    \/ o = "test" /\ InARow(h, "test", MaxTests)

Breaks(h, o) ==
    \/ Alternates(h, "crash", "verify") \/ Alternates(h, "test", "fix")
    \/ o = "fix" /\ InARow(h, "fix", MaxFixes) /\ ~ MakingProgress
    \/ o = "test" /\ InARow(h, "test", MaxTests)
    \/ o = "crash" /\ InARow(h, "crash", MaxCrashes)

\* test_extend counts the attempt it is about to make.
ExtendsEnd(o) == o = "test_extend" /\ (opt.noExtend \/ extends + 1 >= MaxExtends)
Terminal(o) == o \in {"all_synced", "nothing", "fail_and_request_manual_merge"}

Skipped(o) ==
    \/ o = "verify" /\ (opt.skipVerify \/ opt.skipTests)
    \/ o \in {"fix", "test"} /\ opt.skipTests
    \/ o = "crash" /\ (opt.skipVerify \/ opt.skipTests)
SkipCommand == [crash |-> "skip:crash", verify |-> "skip:verify",
                test |-> "skip:test", fix |-> "skip:fix"]

-----------------------------------------------------------------------------
Init ==
    /\ unit = [have |-> {}, differs |-> {}, fp |-> None, report |-> None, hasDeps |-> FALSE]
    /\ pc = "idle" /\ opt \in Options /\ op = None
    /\ hist = <<>> /\ extends = 0 /\ spent = 0 /\ noops = 0 /\ lastFail = None
    /\ free = 0 /\ errs = FALSE
    /\ buffer = NoCommit /\ result = None
    /\ untested = FALSE /\ owed = FALSE /\ edits = {} /\ torn = FALSE /\ settled = None

Start(o) ==
    /\ ~ Running /\ pc' = "decide" /\ opt' = o /\ result' = None
    /\ settled' = IF settled = o THEN settled ELSE None
    /\ UNCHANGED <<unit, op, buffer, untested, owed, edits, torn>> /\ UNCHANGED counters

\* The run is over and the loop's own variables are gone with it.
End(how) ==
    /\ pc' = "idle" /\ op' = None /\ buffer' = NoCommit
    /\ result' = IF how = "success" /\ errs THEN "error" ELSE how
    /\ hist' = <<>> /\ extends' = 0 /\ spent' = 0 /\ noops' = 0 /\ lastFail' = None
    /\ free' = 0 /\ errs' = FALSE
    /\ UNCHANGED opt

OverBudget == /\ pc = "decide" /\ spent >= Budget /\ End("error")
              /\ UNCHANGED <<unit, untested, owed, edits, torn, settled>>

\* Mutant: enough attempts to extend the tests count as success whatever the coverage is.
FinishMutant(o) ==
    /\ \/ ExtendsEnd(o) /\ End("success")
       \/ Terminal(o) /\ End(IF o = "fail_and_request_manual_merge" THEN "manual" ELSE "success")
    /\ settled' = IF result' = "success" THEN opt ELSE settled
    /\ UNCHANGED <<unit, untested, owed, edits, torn>>

Finish(o) ==
    /\ \/ ExtendsEnd(o) /\ End(IF opt.noExtend \/ unit.report.coverage >= opt.target
                               THEN "success" ELSE "error")
       \/ Terminal(o) /\ End(IF o = "fail_and_request_manual_merge" THEN "manual" ELSE "success")
    /\ settled' = IF result' = "success" THEN opt ELSE settled
    /\ UNCHANGED <<unit, untested, owed, edits, torn>>

\* The decision is entered in the history.
Record(h, o) ==
    /\ hist' = h
    /\ extends' = extends + (IF Last(h) = "test_extend" THEN 1 ELSE 0)
    /\ lastFail' = IF o = "fix" /\ Failures # None THEN Failures ELSE lastFail
    /\ free' = IF free > MaxFree THEN MaxFree ELSE free + 1    \* past the bound it alternates
    /\ errs' = (errs \/ AutoDepsLoop(h))

\* An operation the options exclude: its name is saved as skipped, and for crash a
\* report of success after it.
Skip(o) ==
    /\ Skipped(o)
    /\ unit' = Stamped(unit, SkipCommand[o])
    /\ IF o = "crash"
       THEN /\ pc' = "save" /\ op' = o
            /\ buffer' = Commits(FALSE, Report(0, 0, 0, 0, TestOnDisk), FALSE, "loop")
       ELSE UNCHANGED <<pc, op, buffer>>
    /\ noops' = IF o = "fix" THEN noops ELSE 0
    /\ torn' = FALSE /\ edits' = {}
    /\ UNCHANGED <<opt, spent, result, untested, owed, settled>>

Begin(o) ==
    /\ ~ Skipped(o)
    /\ pc' = "work" /\ op' = o
    /\ UNCHANGED <<unit, opt, spent, noops, buffer, result>> /\ UNCHANGED ghosts

\* One iteration of the loop up to the operation.
Decide ==
    /\ pc = "decide" /\ spent < Budget
    /\ \E h \in {History(Decision(unit, opt))} : \E o \in {Operation(h)} :
          \/ /\ Breaks(h, o) /\ End("error")
             /\ UNCHANGED <<unit, untested, owed, edits, torn, settled>>
          \/ ~ Breaks(h, o) /\ Finish(o)
          \/ /\ ~ Breaks(h, o) /\ ~ ExtendsEnd(o) /\ ~ Terminal(o)
             /\ Record(h, o) /\ (Skip(o) \/ Begin(o))

-----------------------------------------------------------------------------
(* The operations *)

\* The operation o wrote W and commits b; cost is 0 or 1.
Works(o, W, b, cost, next) ==
    /\ pc = "work" /\ op = o
    /\ \E deps \in IF "prompt" \in W THEN BOOLEAN ELSE {unit.hasDeps} :
          unit' = [Written(unit, W) EXCEPT !.hasDeps = deps]
    /\ buffer' = b /\ spent' = spent + cost /\ pc' = next
    /\ torn' = (torn \/ (W # {} /\ b.then # "loop"))
    /\ noops' = IF o = "fix" /\ cost = 0 THEN noops + 1 ELSE 0
    /\ owed' = (owed /\ ~ (o = "generate" /\ W # {}))
    /\ free' = IF cost = 0 THEN free ELSE 0
    /\ UNCHANGED <<opt, op, hist, extends, lastFail, errs, result, edits, settled>>

RanTests == untested' = FALSE
Wrote(W) == untested' = IF "code" \in W THEN buffer'.then = "loop" ELSE untested

AutoDeps ==
    /\ \/ Works("auto-deps", {"prompt"}, Done, 1, "clear")
       \/ Works("auto-deps", {}, Done, 0, "save")
       \/ Works("auto-deps", {}, Failed, 1, "save")
    /\ Wrote({})

Generate ==
    \/ Works("generate", {"code"}, Done, 1, "clear") /\ Wrote({"code"})
    \/ Works("generate", {}, Failed, 1, "clear") /\ Wrote({})
    \/ Works("generate", {}, Failed, 1, "save") /\ Wrote({})

Example ==
    /\ \/ Works("example", {"example"}, Done, 1, "save")
       \/ Works("example", {}, Failed, 1, "save")
    /\ Wrote({})

CodeOrExample == SUBSET {"code", "example"}
ExampleRuns(stamp, W) ==
    IF "test" \in unit.have
    THEN \E r \in Outcomes :
            /\ Works("crash", W, Commits(stamp, r, FALSE, "loop"), 0, "save") /\ RanTests
    ELSE /\ Works("crash", W, Commits(stamp, Report(0, 1, 0, 0, "none"), FALSE, "loop"), 0, "save")
         /\ Wrote(W)

Crash ==
    IF ~ ({"code", "example"} \subseteq unit.have)
    THEN Works("crash", {}, NoCommit, 0, "save") /\ Wrote({})
    ELSE \/ /\ unit.report # None => unit.report.exit = 0
            /\ ExampleRuns(FALSE, {})
         \/ \E W \in {{"code"}, {"example"}} : ExampleRuns(TRUE, W)
         \/ \E W \in CodeOrExample :
               /\ \/ Works("crash", W, Raised, 0, "save")
                  \/ Works("crash", W, Failed, 1, "save")
                  \/ \E exit \in {0, 1} :
                        LET r == Report(exit, 1 - exit, exit, 2 * (1 - exit), TestOnDisk) IN
                        Works("crash", W, Commits(TRUE, r, TRUE, "loop"), 1, "save")
               /\ Wrote(W)


Verify ==
    IF "example" \notin unit.have
    THEN Works("verify", {}, NoCommit, 0, "save") /\ Wrote({})
    ELSE \E W \in CodeOrExample :
            /\ Works("verify", W, Done, 1, "save") \/ Works("verify", W, Failed, 1, "save")
            /\ Wrote(W)

\* cmd_test_main returns an empty result at no cost when it fails, at times with its file
\* half written; the operation succeeds if there is a test file.
Test ==
    \/ \E r \in Outcomes, W \in SUBSET {"test"} :
          /\ "test" \in unit.have \cup W
          /\ Works("test", W, Commits(TRUE, r, FALSE, "loop"), 0, "save") /\ RanTests
    \/ \E r \in Outcomes :
          Works("test", {"test"}, Commits(TRUE, r, FALSE, "loop"), 1, "save") /\ RanTests
    \/ Works("test", {}, Failed, 1, "save") /\ Wrote({})

TestExtend ==
    \/ \E r \in Outcomes, ok \in BOOLEAN :
          /\ Works("test_extend", {"test"},
                   Commits(ok, r, FALSE, IF ok THEN "loop" ELSE "error"), 1, "save")
          /\ RanTests
    \/ Works("test_extend", {}, Failed, 1, "save") /\ Wrote({})

\* A fix that costs nothing saves no fingerprint; the second in a row ends the run.
Fix ==
    \/ IF noops >= 1
       THEN Works("fix", {}, Failed, 0, "save") /\ Wrote({})
       ELSE \/ Works("fix", {}, Failed, 0, "save") /\ Wrote({})
            \/ \E r \in Outcomes :
                  /\ "test" \in unit.have
                  /\ Works("fix", {}, Commits(FALSE, r, FALSE, "loop"), 0, "save") /\ RanTests
            \/ /\ "test" \notin unit.have
               /\ Works("fix", {}, NoCommit, 0, "save") /\ Wrote({})
    \/ \E W \in SUBSET ({"code", "test"} \cap unit.have) :
          \/ Works("fix", W, Failed, 1, "save") /\ Wrote(W)
          \/ \E r \in Outcomes :
                /\ "test" \in unit.have
                /\ Works("fix", W, Commits(TRUE, r, TRUE, "loop"), 1, "save") /\ RanTests
          \/ /\ "test" \notin unit.have
             /\ Works("fix", W, Done, 1, "save") /\ Wrote(W)

Update ==
    /\ \/ Works("update", {"prompt"}, Done, 1, "save")
       \/ Works("update", {}, Failed, 1, "save")
    /\ Wrote({})

\* clear_run_report
Clear == /\ pc = "clear" /\ pc' = "save"
         /\ unit' = [unit EXCEPT !.report = None]
         /\ UNCHANGED <<opt, op, buffer, result>> /\ UNCHANGED counters /\ UNCHANGED ghosts

\* The pair is committed and the loop goes on, or the run fails.
Save ==
    /\ pc = "save"
    /\ unit' = Committed(unit, buffer)
    /\ torn' = (torn /\ ~ buffer.stamp)
    /\ edits' = IF buffer.stamp THEN {} ELSE edits
    /\ \/ /\ buffer.then = "error" /\ End("error")
       \/ /\ buffer.then # "error"
          /\ pc' = "decide" /\ op' = None /\ buffer' = NoCommit
          /\ UNCHANGED <<opt, result>> /\ UNCHANGED counters
    /\ UNCHANGED <<untested, owed, settled>>

-----------------------------------------------------------------------------
(* The surroundings *)

Kill == /\ Running /\ End(None)
        /\ torn' = (torn \/ (pc \in {"clear", "save"} /\ buffer.stamp))
        /\ untested' = (untested /\ ~ (pc \in {"clear", "save"} /\ "code" \in unit.differs))
        /\ UNCHANGED <<unit, owed, edits, settled>>

Side(a) == IF a = "prompt" THEN a ELSE "derived"
Quiet == pc \in {"idle", "decide"}

Edit(a) ==
    /\ Quiet
    /\ a = "prompt" \/ a \in unit.have
    /\ \E deps \in IF a = "prompt" THEN BOOLEAN ELSE {unit.hasDeps} :
          unit' = [Written(unit, {a}) EXCEPT !.hasDeps = deps]
    /\ owed' = (owed \/ (a = "prompt" /\ (unit.fp # None => unit.fp.files \subseteq unit.have)))
    /\ untested' = (untested /\ a # "code")
    /\ edits' = edits \cup {Side(a)} /\ settled' = None /\ result' = None
    /\ free' = 0
    /\ UNCHANGED <<pc, opt, op, buffer, torn, hist, extends, spent, noops, lastFail, errs>>

Delete(a) ==
    /\ ~ Running /\ a \in unit.have
    /\ unit' = [unit EXCEPT !.have = @ \ {a}, !.differs = @ \ {a}]
    /\ edits' = edits \cup {Side(a)} /\ owed' = FALSE /\ settled' = None /\ result' = None
    /\ UNCHANGED <<pc, opt, op, buffer, untested, torn>> /\ UNCHANGED counters

Loop == \/ OverBudget \/ Decide
        \/ AutoDeps \/ Generate \/ Example \/ Crash \/ Verify \/ Test \/ TestExtend \/ Fix \/ Update
        \/ Clear \/ Save

Next == \/ Loop \/ Kill
        \/ \E o \in Options : Start(o)
        \/ \E a \in Editable : Edit(a)
        \/ \E a \in Derived : Delete(a)

Spec == Init /\ [][Next]_vars /\ WF_vars(Loop)

-----------------------------------------------------------------------------
(* Properties *)

\* Types.
TypeOK ==
    /\ unit.have \subseteq Derived /\ unit.differs \subseteq Derived \cup {"prompt"}
    /\ unit.fp # None => /\ unit.fp.command \in Commands \cup SkipCommands
                         /\ unit.fp.files \subseteq Derived
    /\ pc \in {"idle", "decide", "work", "clear", "save"}
    /\ op \in Commands \cup {None} /\ (op = None <=> pc \in {"idle", "decide"})
    /\ Len(hist) <= Keep /\ spent \in 0..Budget /\ noops \in 0..2
    /\ result \in {None, "success", "manual", "error"}
    /\ {untested, owed, torn, errs} \subseteq BOOLEAN /\ edits \subseteq {"prompt", "derived"}

\* A run that skips nothing and may extend the tests reports success on a report that counts
\* a passed test only when the tests have run on the code as the tool last wrote it,
\* whichever runs, kills, edits and failures lie between; the gap is code an operation left
\* when it failed or was killed.
Counted == unit.report = None \/ unit.report.passed > 0
Asks(o) == Full(o) /\ ~ o.noExtend
SuccessIsTested == result = "success" /\ Asks(opt) /\ Counted => ~ untested

\* A prompt edit of a unit none of whose recorded files is missing has been read by a
\* generate before any run reports success: no fingerprint saved in between absorbs it.
PromptIsGenerated == result = "success" => ~ owed

\* A run stops for a manual merge only when the user edited the prompt and a derived file,
\* or an operation wrote files and ended without its fingerprint: the tool never takes
\* its own finished work for the user's.
MergeIsConflict ==
    result = "manual" /\ ~ torn => edits = {"prompt", "derived"}

\* The user's edits and the tool's own files are told apart, in both directions.
EditsAreSeen == PromptIsGenerated /\ MergeIsConflict

\* A run with the options of the last success, nothing having happened since, executes no
\* operation and succeeds.
SyncedStays == settled # None /\ settled = opt
                   => pc \in {"idle", "decide"} /\ result \notin {"manual", "error"}

\* The loop makes at most MaxFree iterations between two operations that cost something,
\* so a run ends by its budget whatever the operations return, except where it is asked for
\* a verification that it declines for ever, of a unit that has no example or because the
\* options skip the tests and not the verification; and where no coverage is asked for, when
\* tests that pass without any are generated again and flaky ones fixed between.
Spinning ==
    \/ /\ hist # <<>> /\ hist[Len(hist)] = "verify"
       /\ "example" \notin unit.have \/ (opt.skipTests /\ ~ opt.skipVerify)
    \/ opt.target = 0 /\ ~ opt.skipTests
FreeRunsBounded == free <= MaxFree \/ Spinning

\* The form of the state with all its bounds.
Bounded == TypeOK /\ FreeRunsBounded

\* What the code means by its breakers: once the user leaves the files alone, a run
\* returns, whatever is missing.
EditsEnd == <>[][~ \E a \in Editable : Edit(a)]_vars
AlwaysReturns == EditsEnd => (Running ~> ~ Running)
=============================================================================
