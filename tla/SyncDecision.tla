---------------------------- MODULE SyncDecision ----------------------------
(***************************************************************************)
(* What `pdd sync` does next to a unit: _perform_sync_analysis of          *)
(* pdd/sync_determine_operation.py, for a Python unit whose prompt exists. *)
(*                                                                         *)
(* A unit u is a record:                                                   *)
(*   have      which of code, example and test are on disk                 *)
(*   differs   which artifacts differ from the hashes of the fingerprint   *)
(*   fp        the fingerprint: its command and the files it has hashes    *)
(*             of, or None                                                 *)
(*   report    the run report: exit (0 or 1), passed, failed, coverage,    *)
(*             test ("none", "current", "stale": the test file its hash is *)
(*             of) and older (than the fingerprint); or None               *)
(*   hasDeps   check_for_dependencies(prompt)                              *)
(* and o the options of the command.                                       *)
(***************************************************************************)
EXTENDS Integers, FiniteSets

CONSTANTS None

Derived == {"code", "example", "test"}
Commands == {"auto-deps", "generate", "example", "crash", "verify", "test",
             "test_extend", "fix", "update"}
SkipCommands == {"skip:crash", "skip:verify", "skip:test", "skip:fix"}

\* COMPLETED_VERIFY_COMMANDS and COMPLETED_TEST_COMMANDS
VerifyDone == {"verify", "test", "fix", "update"}
\* Mutant: a verified unit counts as tested.
TestDoneMutant == {"verify", "test", "fix", "update"}
TestDone == {"test", "fix", "update"}

AllPass(r) == r.passed > 0 /\ r.failed = 0
Success(r) == r.exit = 0 \/ AllPass(r)

\* Under --skip-tests failing tests, and an exit code that is theirs, are ignored.
Effective(u, o) ==
    IF u.report = None \/ ~ o.skipTests THEN u.report
    ELSE [u.report EXCEPT !.failed = 0, !.exit = IF u.report.failed > 0 THEN 0 ELSE @]

Regenerate(u) == IF u.hasDeps THEN "auto-deps" ELSE "generate"

\* _changed_artifacts_from_hashes
Changes(u) == {a \in u.differs : a = "prompt" \/ a \in u.have}

-----------------------------------------------------------------------------
(* The runtime signals *)

\* _check_example_success_history
RanBefore(u) ==
    \/ u.fp.command = "verify" \/ u.report.exit = 0
    \/ "example" \in u.fp.files /\ u.fp.command \in {"example", "verify", "test", "fix"}

\* The report is below the target.
LowCoverage(u, o, r) ==
    CASE o.skipTests -> "all_synced"
      [] ~ o.skipTests /\ ~ AllPass(r) -> IF Success(r) THEN "all_synced" ELSE "test"
      [] ~ o.skipTests /\ AllPass(r) ->
            IF "code" \notin u.have THEN "generate"
            ELSE IF "test" \notin u.have THEN "test"
            ELSE IF o.noExtend THEN "all_synced" ELSE "test_extend"

\* Mutant: the prompt is looked at after the runtime signals.
SignalMutant(u, o, r) ==
    CASE u.fp.command = "crash" /\ ~ o.skipVerify -> IF r.exit # 0 THEN "crash" ELSE "verify"
      [] OTHER ->
    CASE r.failed > 0 -> IF "test" \in u.have THEN "fix" ELSE "test"
      [] r.failed = 0 /\ ~ Success(r) -> IF RanBefore(u) THEN "fix" ELSE "crash"
      [] r.failed = 0 /\ Success(r) /\ r.coverage < o.target -> LowCoverage(u, o, r)
      [] OTHER -> None

\* What the last run says, or None when it says nothing.
Signal(u, o, r) ==
    CASE "prompt" \in Changes(u) ->
            IF Changes(u) = {"prompt"} THEN Regenerate(u) ELSE "fail_and_request_manual_merge"
      [] OTHER ->
    CASE u.fp.command = "crash" /\ ~ o.skipVerify -> IF r.exit # 0 THEN "crash" ELSE "verify"
      [] OTHER ->
    CASE r.failed > 0 -> IF "test" \in u.have THEN "fix" ELSE "test"
      [] r.failed = 0 /\ ~ Success(r) -> IF RanBefore(u) THEN "fix" ELSE "crash"
      [] r.failed = 0 /\ Success(r) /\ r.coverage < o.target -> LowCoverage(u, o, r)
      [] OTHER -> None

-----------------------------------------------------------------------------
(* The state of the files *)

\* validate_expected_files
Missing(u, o) == {f \in u.fp.files \ u.have : f = "test" => ~ o.skipTests}

\* _handle_missing_expected_files
Restore(u, o) ==
    CASE "code" \in Missing(u, o) -> Regenerate(u)
      [] "code" \notin Missing(u, o) /\ "example" \in Missing(u, o) /\ "code" \in u.have ->
            IF o.isolated THEN "generate" ELSE "example"
      [] Missing(u, o) = {"test"} /\ {"code", "example"} \subseteq u.have -> "test"
      [] OTHER -> "generate"

\* The run report is of the test file that is there now.
Fresh(u) == \/ u.report.test = "current"
            \/ u.report.test = "none" /\ ~ u.report.older

\* _is_workflow_complete
Complete(u, o) ==
    /\ {"code", "example"} \subseteq u.have
    /\ ~ o.skipTests => "test" \in u.have
    /\ ~ (o.skipTests /\ o.skipVerify) =>
          /\ u.report # None /\ Success(u.report)
          /\ ~ (u.report.passed > 0 /\ u.report.coverage = 0)
          /\ ~ o.skipTests => Fresh(u) /\ u.fp.command \in TestDone
          /\ ~ o.skipVerify => u.fp.command \in VerifyDone

\* All files are there but the unit is not complete; None falls through.
Revalidate(u, o) ==
    IF u.report = None THEN "crash"
    ELSE IF ~ Success(u.report) THEN "crash"
    ELSE IF u.fp.command \notin VerifyDone /\ ~ o.skipVerify THEN "verify"
    ELSE "test"

\* Code and example are there and the test is not.
BeforeTest(u, o) ==
    IF o.skipVerify THEN "test"
    ELSE IF u.report = None THEN "crash"
    ELSE IF u.report.exit # 0 THEN "crash"
    ELSE IF u.fp.command # "verify" THEN "verify" ELSE "test"

\* Nothing changed since the fingerprint.
Progress(u, o) ==
    CASE Complete(u, o) -> "nothing"
      [] ~ Complete(u, o) /\ Derived \subseteq u.have -> Revalidate(u, o)
      [] "code" \in u.have /\ "example" \notin u.have -> "example"
      [] {"code", "example"} \subseteq u.have /\ "test" \notin u.have /\ ~ o.skipTests ->
            BeforeTest(u, o)
      [] "code" \notin u.have -> Regenerate(u)
      [] OTHER -> "nothing"

\* Something did.
AfterChange(u) ==
    CASE Changes(u) = {"prompt"} -> Regenerate(u)
      [] Changes(u) = {"code"} -> "update"
      [] Changes(u) = {"test"} -> "test"
      [] "prompt" \in Changes(u) /\ Changes(u) # {"prompt"} -> "fail_and_request_manual_merge"
      [] OTHER -> "verify"

FileState(u, o) ==
    CASE u.fp = None -> Regenerate(u)
      [] u.fp # None ->
            IF Missing(u, o) # {} THEN Restore(u, o)
            ELSE IF Changes(u) = {} THEN Progress(u, o) ELSE AfterChange(u)

-----------------------------------------------------------------------------
\* _perform_sync_analysis
Decision(u, o) ==
    IF u.fp # None /\ u.fp.command = "auto-deps" THEN "generate"
    ELSE IF u.fp # None /\ u.report # None /\ Signal(u, o, Effective(u, o)) # None
         THEN Signal(u, o, Effective(u, o))
         ELSE FileState(u, o)
=============================================================================
