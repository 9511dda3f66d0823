----------------------------- MODULE SyncProofs -----------------------------
(***************************************************************************)
(* Proofs about the sync of one unit: its loop, whatever the files, the    *)
(* options, the outcomes of the tests and the limits are; and the lock it  *)
(* works under, for any number of processes and inodes.                    *)
(***************************************************************************)
EXTENDS SyncLoop, SyncLock, TLAPS

(***************************************************************************)
(* The decision.                                                           *)
(***************************************************************************)
Units == [have : SUBSET Derived, differs : SUBSET (Derived \cup {"prompt"}),
          fp : Fingerprints \cup {None}, report : Reports \cup {None}, hasDeps : BOOLEAN]

LEMMA EffectiveIs ==
    ASSUME NEW u \in Units, NEW o \in OptionRecords, u.report # None
    PROVE  /\ Effective(u, o) \in Reports /\ u.report \in Reports
           /\ Effective(u, o).passed = u.report.passed
           /\ Effective(u, o).coverage = u.report.coverage
           /\ ~ o.skipTests => Effective(u, o) = u.report
           /\ o.skipTests => /\ Effective(u, o).failed = 0
                             /\ u.report.failed = 0 => Effective(u, o).exit = u.report.exit
                             /\ u.report.failed > 0 => Effective(u, o).exit = 0
  <1>1. u.report \in Reports
    BY DEF Units
  <1>2. CASE ~ o.skipTests
    BY <1>1, <1>2 DEF Effective, OptionRecords
  <1>3. CASE o.skipTests
    <2>1. Effective(u, o) = [exit |-> IF u.report.failed > 0 THEN 0 ELSE u.report.exit,
                             passed |-> u.report.passed, failed |-> 0,
                             coverage |-> u.report.coverage, test |-> u.report.test,
                             older |-> u.report.older]
      BY <1>1, <1>3 DEF Effective, Reports
    <2> QED BY <1>1, <1>3, <2>1 DEF Reports
  <1> QED BY <1>2, <1>3

LEMMA FpIs ==
    ASSUME NEW u \in Units, u.fp # None
    PROVE  u.fp.command \in Commands \cup SkipCommands /\ u.fp.files \subseteq Derived
  BY DEF Units, Fingerprints

\* What the runtime signals may decide, and what follows when they do or do not.
LEMMA SignalIs ==
    ASSUME NEW u \in Units, NEW o \in OptionRecords, NEW r \in Reports, u.fp # None
    PROVE  /\ Signal(u, o, r) \in Decisions \cup {None}
           /\ "prompt" \in Changes(u) =>
                Signal(u, o, r) \in {"auto-deps", "generate", "fail_and_request_manual_merge"}
           /\ Signal(u, o, r) = "fail_and_request_manual_merge" =>
                "prompt" \in Changes(u) /\ Changes(u) # {"prompt"}
           /\ Signal(u, o, r) = "verify" => u.fp.command = "crash"
           /\ Signal(u, o, r) = "test_extend" => r.coverage < o.target /\ ~ o.noExtend
           /\ Signal(u, o, r) # "update" /\ Signal(u, o, r) # "nothing"
           /\ Signal(u, o, r) = "all_synced" =>
                LowCoverage(u, o, r) = "all_synced" /\ r.failed = 0
           /\ Signal(u, o, r) = None =>
                r.failed = 0 /\ Success(r) /\ ~ (r.coverage < o.target)
  <1> USE InputsAssumption
  <1>1. Regenerate(u) \in {"auto-deps", "generate"}
    BY DEF Regenerate
  <1>2. /\ LowCoverage(u, o, r) \in {"all_synced", "test", "generate", "test_extend"}
        /\ LowCoverage(u, o, r) = "test_extend" => ~ o.noExtend
    BY DEF LowCoverage, OptionRecords
  <1>3. CASE "prompt" \in Changes(u)
    <2>1. Signal(u, o, r) = IF Changes(u) = {"prompt"} THEN Regenerate(u)
                            ELSE "fail_and_request_manual_merge"
      BY <1>3 DEF Signal
    <2> QED BY <1>1, <1>3, <2>1 DEF Decisions, Commands
  <1>4. CASE "prompt" \notin Changes(u) /\ u.fp.command = "crash" /\ ~ o.skipVerify
    <2>1. Signal(u, o, r) \in {"crash", "verify"}
      BY <1>4 DEF Signal
    <2> QED BY <1>4, <2>1 DEF Decisions, Commands
  <1>5. CASE "prompt" \notin Changes(u) /\ ~ (u.fp.command = "crash" /\ ~ o.skipVerify)
    <2>1. CASE r.failed > 0
      <3>1. Signal(u, o, r) = IF "test" \in u.have THEN "fix" ELSE "test"
        BY <1>5, <2>1 DEF Signal
      <3> QED BY <1>5, <2>1, <3>1 DEF Decisions, Commands
    <2>2. CASE r.failed = 0 /\ ~ Success(r)
      <3>1. Signal(u, o, r) = IF RanBefore(u) THEN "fix" ELSE "crash"
        BY <1>5, <2>2 DEF Signal
      <3>2. r.exit # 0
        BY <2>2 DEF Success
      <3> QED BY <1>5, <2>2, <3>1, <3>2 DEF Decisions, Commands
    <2>3. CASE r.failed = 0 /\ Success(r) /\ r.coverage < o.target
      <3>1. Signal(u, o, r) = LowCoverage(u, o, r)
        BY <1>5, <2>3 DEF Signal
      <3> QED BY <1>2, <1>5, <2>3, <3>1 DEF Decisions, Commands
    <2>4. CASE r.failed = 0 /\ Success(r) /\ ~ (r.coverage < o.target)
      <3>1. Signal(u, o, r) = None
        BY <1>5, <2>4 DEF Signal
      <3> QED BY <1>5, <2>4, <3>1 DEF Decisions, Commands
    <2>5. r.failed > 0 \/ r.failed = 0
      BY DEF Reports
    <2> QED BY <2>1, <2>2, <2>3, <2>4, <2>5
  <1> QED BY <1>3, <1>4, <1>5

\* What the state of the files may decide.
LEMMA FileStateIs ==
    ASSUME NEW u \in Units, NEW o \in OptionRecords
    PROVE  /\ FileState(u, o) \in (Decisions \ {"auto-deps", "fix", "test_extend"})
                                     \cup {Regenerate(u)}
           /\ FileState(u, o) = "update" => "code" \in u.differs
           /\ FileState(u, o) = "fail_and_request_manual_merge" =>
                "prompt" \in Changes(u) /\ Changes(u) # {"prompt"}
           /\ FileState(u, o) # "all_synced"
           /\ FileState(u, o) = "nothing" /\ ~ o.skipTests => Complete(u, o)
           /\ u.fp = None => FileState(u, o) = Regenerate(u)
           /\ u.fp # None /\ "prompt" \in u.differs /\ u.fp.files \subseteq u.have =>
                FileState(u, o) \in {Regenerate(u), "fail_and_request_manual_merge"}
  <1>1. Regenerate(u) \in {"auto-deps", "generate"}
    BY DEF Regenerate
  <1>2. Restore(u, o) \in {Regenerate(u), "generate", "example", "test"}
    BY DEF Restore
  <1>3. /\ Progress(u, o) \in {"nothing", "crash", "verify", "test", "example", Regenerate(u)}
        /\ Progress(u, o) = "nothing" /\ ~ o.skipTests => Complete(u, o)
    <2>1. /\ Revalidate(u, o) \in {"crash", "verify", "test"}
          /\ BeforeTest(u, o) \in {"crash", "verify", "test"}
      BY DEF Revalidate, BeforeTest
    <2>2. CASE Complete(u, o)
      <3>1. Progress(u, o) = "nothing"
        BY <2>2 DEF Progress, Complete, Derived
      <3> QED BY <2>2, <3>1
    <2>3. CASE ~ Complete(u, o) /\ Derived \subseteq u.have
      <3>1. Progress(u, o) = Revalidate(u, o)
        BY <2>3 DEF Progress, Derived
      <3> QED BY <2>1, <3>1
    <2>4. CASE ~ Complete(u, o) /\ "code" \in u.have /\ "example" \notin u.have
      BY <2>4 DEF Progress, Derived
    <2>5. CASE ~ Complete(u, o) /\ {"code", "example"} \subseteq u.have /\ "test" \notin u.have
      BY <2>1, <2>5 DEF Progress, Derived
    <2>6. CASE ~ Complete(u, o) /\ "code" \notin u.have
      <3>1. Progress(u, o) = Regenerate(u)
        BY <2>6 DEF Progress, Derived
      <3> QED BY <1>1, <3>1
    <2> QED BY <2>2, <2>3, <2>4, <2>5, <2>6 DEF Derived
  <1>4. /\ AfterChange(u) \in {Regenerate(u), "update", "test", "verify",
                               "fail_and_request_manual_merge"}
        /\ AfterChange(u) = "update" => "code" \in Changes(u)
        /\ AfterChange(u) = "fail_and_request_manual_merge" =>
             "prompt" \in Changes(u) /\ Changes(u) # {"prompt"}
        /\ "prompt" \in Changes(u) =>
             AfterChange(u) \in {Regenerate(u), "fail_and_request_manual_merge"}
    BY <1>1 DEF AfterChange
  <1>5. Changes(u) \subseteq u.differs /\ ("prompt" \in u.differs => "prompt" \in Changes(u))
    BY DEF Changes
  <1>6. CASE u.fp = None
    BY <1>1, <1>6 DEF FileState, Decisions, Commands
  <1>7. CASE u.fp # None /\ Missing(u, o) # {}
    <2>1. FileState(u, o) = Restore(u, o)
      BY <1>7 DEF FileState
    <2>2. ~ (u.fp.files \subseteq u.have)
      BY <1>7 DEF Missing
    <2> QED BY <1>1, <1>2, <1>7, <2>1, <2>2 DEF Decisions, Commands
  <1>8. CASE u.fp # None /\ Missing(u, o) = {} /\ Changes(u) = {}
    <2>1. FileState(u, o) = Progress(u, o)
      BY <1>8 DEF FileState
    <2> QED BY <1>1, <1>3, <1>5, <1>8, <2>1 DEF Decisions, Commands
  <1>9. CASE u.fp # None /\ Missing(u, o) = {} /\ Changes(u) # {}
    <2>1. FileState(u, o) = AfterChange(u)
      BY <1>9 DEF FileState
    <2> QED BY <1>1, <1>4, <1>5, <1>9, <2>1 DEF Decisions, Commands
  <1> QED BY <1>6, <1>7, <1>8, <1>9

\* A generate is due: nothing else can be decided.
Reading(u) ==
    \/ u.fp = None \/ u.fp.command = "auto-deps"
    \/ "prompt" \in u.differs /\ u.fp.files \subseteq u.have

\* What was tested last is not this test.
Guarded(u) == u.fp # None /\ u.fp.command \in TestDone => "test" \notin u.have


LEMMA DecisionIs ==
    ASSUME NEW u \in Units, NEW o \in OptionRecords
    PROVE  /\ Decision(u, o) \in Decisions
           /\ Decision(u, o) = "test_extend" =>
                u.report # None /\ u.report.coverage < o.target /\ ~ o.noExtend
           /\ Decision(u, o) = "fail_and_request_manual_merge" =>
                "prompt" \in Changes(u) /\ Changes(u) # {"prompt"}
           /\ Decision(u, o) = "update" => "code" \in u.differs
           /\ Reading(u) =>
                Decision(u, o) \in {"auto-deps", "generate", "fail_and_request_manual_merge"}
  <1> USE InputsAssumption
  <1>1. Regenerate(u) \in {"auto-deps", "generate"}
    BY DEF Regenerate
  <1>2. "prompt" \in u.differs => "prompt" \in Changes(u)
    BY DEF Changes
  <1>3. CASE u.fp # None /\ u.fp.command = "auto-deps"
    BY <1>3 DEF Decision, Decisions, Commands
  <1>4. CASE ~ (u.fp # None /\ u.fp.command = "auto-deps") /\ u.fp # None /\ u.report # None
    <2> DEFINE r == Effective(u, o)
    <2>1. r \in Reports /\ u.report \in Reports /\ r.coverage = u.report.coverage
          /\ (r.failed = 0 /\ r.exit # 0 => u.report.exit # 0)
      <3>1. u.report.failed \in Nat
        BY <1>4, EffectiveIs DEF Reports
      <3> QED BY <1>4, <3>1, EffectiveIs
    <2>2. CASE Signal(u, o, r) # None
      <3>1. Decision(u, o) = Signal(u, o, r)
        BY <1>4, <2>2 DEF Decision
      <3> HIDE DEF r
      <3> QED BY <1>1, <1>2, <1>4, <2>1, <2>2, <3>1, SignalIs DEF Reading
    <2>3. CASE Signal(u, o, r) = None
      <3>1. Decision(u, o) = FileState(u, o)
        BY <1>4, <2>3 DEF Decision
      <3>2. ~ (u.report.coverage < o.target)
        <4> HIDE DEF r
        <4> QED BY <1>4, <2>1, <2>3, SignalIs
      <3> QED BY <1>1, <1>2, <1>4, <3>1, <3>2, FileStateIs DEF Reading, Decisions, Commands
    <2> QED BY <2>2, <2>3
  <1>5. CASE u.fp = None \/ (u.fp.command # "auto-deps" /\ u.report = None)
    <2>1. Decision(u, o) = FileState(u, o)
      BY <1>5 DEF Decision
    <2>2. Decision(u, o) = "verify" => u.fp # None /\ u.report = None
      BY <1>1, <1>5, <2>1, FileStateIs
    <2> QED BY <1>1, <1>2, <1>5, <2>1, <2>2, FileStateIs DEF Reading, Decisions, Commands
  <1> QED BY <1>3, <1>4, <1>5

\* Code that was not tested is not taken for synced, where a test that passed is counted.
LEMMA NotSynced ==
    ASSUME NEW u \in Units, NEW o \in OptionRecords, ~ o.skipTests, ~ o.noExtend,
           Guarded(u), u.report = None \/ u.report.passed > 0
    PROVE  Decision(u, o) \notin {"all_synced", "nothing"}
  <1> USE InputsAssumption
  <1>1. FileState(u, o) \notin {"all_synced", "nothing"}
    <2>1. Regenerate(u) \in {"auto-deps", "generate"}
      BY DEF Regenerate
    <2>2. CASE u.fp = None
      BY <2>1, <2>2, FileStateIs
    <2>3. CASE u.fp # None
      <3>1. ~ Complete(u, o)
        BY <2>3 DEF Complete, Guarded
      <3> QED BY <3>1, FileStateIs
    <2> QED BY <2>2, <2>3
  <1>2. CASE u.fp # None /\ u.report # None
    <2>1. Effective(u, o) = u.report /\ u.report \in Reports
      BY <1>2, EffectiveIs
    <2>2. u.report.failed = 0 => LowCoverage(u, o, u.report) # "all_synced"
      BY <1>2 DEF LowCoverage, AllPass
    <2>3. Signal(u, o, u.report) \notin {"all_synced", "nothing"}
      BY <1>2, <2>1, <2>2, SignalIs
    <2> QED BY <1>1, <2>1, <2>3 DEF Decision
  <1>3. CASE ~ (u.fp # None /\ u.report # None)
    BY <1>1, <1>3 DEF Decision
  <1> QED BY <1>2, <1>3

(***************************************************************************)
(* What the steps do to the unit.                                          *)
(***************************************************************************)
\* Two reports of the same run of the tests.
SameRun(r, s) ==
    \/ r = None /\ s = None
    \/ r # None /\ s # None /\ r.exit = s.exit /\ r.passed = s.passed
       /\ r.failed = s.failed /\ r.coverage = s.coverage

\* Files are written by the tool or by the user.
Rewritten(u, W, deps) == [Written(u, W) EXCEPT !.hasDeps = deps]

\* v is u with the files W written.
HasWritten(v, u, W) ==
    /\ v \in Units /\ v.have = u.have \cup (W \ {"prompt"})
    /\ v.differs = u.differs \cup W /\ v.fp = u.fp
    /\ SameRun(v.report, u.report)

LEMMA RewrittenIs ==
    ASSUME NEW u \in Units, NEW W \in SUBSET (Derived \cup {"prompt"}), NEW deps \in BOOLEAN
    PROVE  HasWritten(Rewritten(u, W, deps), u, W)
  <1> DEFINE s == IF "test" \in W /\ u.report # None /\ u.report.test = "current"
                  THEN [u.report EXCEPT !.test = "stale"] ELSE u.report
  <1>1. s \in Reports \cup {None} /\ SameRun(s, u.report)
    <2>1. CASE u.report = None
      BY <2>1 DEF SameRun
    <2>2. CASE u.report # None
      <3>1. u.report \in Reports
        BY <2>2 DEF Units
      <3>2. [u.report EXCEPT !.test = "stale"] \in Reports
        BY <3>1 DEF Reports
      <3>3. SameRun(u.report, u.report) /\ SameRun([u.report EXCEPT !.test = "stale"], u.report)
        BY <2>2, <3>1, <3>2, InputsAssumption DEF SameRun, Reports
      <3> QED BY <3>1, <3>2, <3>3
    <2> QED BY <2>1, <2>2
  <1>2. Rewritten(u, W, deps) = [have |-> u.have \cup (W \ {"prompt"}),
                                 differs |-> u.differs \cup W, fp |-> u.fp, report |-> s,
                                 hasDeps |-> deps]
    <2>1. Written(u, W) = [u EXCEPT !.have = u.have \cup (W \ {"prompt"}),
                                    !.differs = u.differs \cup W, !.report = s]
      BY DEF Written
    <2> HIDE DEF s
    <2>2. Written(u, W) = [have |-> u.have \cup (W \ {"prompt"}), differs |-> u.differs \cup W,
                           fp |-> u.fp, report |-> s, hasDeps |-> u.hasDeps]
      BY <2>1 DEF Units
    <2> QED BY <2>2 DEF Rewritten
  <1> HIDE DEF s
  <1> QED BY <1>1, <1>2 DEF Units, HasWritten

\* The fingerprint is saved under command.
LEMMA StampedIs ==
    ASSUME NEW u \in Units, NEW command \in Commands \cup SkipCommands
    PROVE  /\ Stamped(u, command) \in Units
           /\ Stamped(u, command).have = u.have /\ Stamped(u, command).differs = {}
           /\ Stamped(u, command).fp = [command |-> command, files |-> u.have]
           /\ SameRun(Stamped(u, command).report, u.report)
  <1> DEFINE s == IF u.report = None THEN None ELSE [u.report EXCEPT !.older = TRUE]
  <1>1. s \in Reports \cup {None} /\ SameRun(s, u.report)
    <2>1. CASE u.report = None
      BY <2>1 DEF SameRun
    <2>2. CASE u.report # None
      <3>1. u.report \in Reports
        BY <2>2 DEF Units
      <3>2. [u.report EXCEPT !.older = TRUE] \in Reports
        BY <3>1 DEF Reports
      <3>3. SameRun([u.report EXCEPT !.older = TRUE], u.report)
        BY <2>2, <3>1, <3>2, InputsAssumption DEF SameRun, Reports
      <3> QED BY <2>2, <3>2, <3>3
    <2> QED BY <2>1, <2>2
  <1>2. Stamped(u, command) = [have |-> u.have, differs |-> {},
                               fp |-> [command |-> command, files |-> u.have], report |-> s,
                               hasDeps |-> u.hasDeps]
    <2>1. Stamped(u, command) = [u EXCEPT !.fp = [command |-> command, files |-> u.have],
                                          !.differs = {}, !.report = s]
      BY DEF Stamped
    <2> HIDE DEF s
    <2> QED BY <2>1 DEF Units
  <1>3. [command |-> command, files |-> u.have] \in Fingerprints
    BY DEF Fingerprints, Units
  <1> HIDE DEF s
  <1> QED BY <1>1, <1>2, <1>3 DEF Units

Buffers == [stamp : BOOLEAN, report : Reports \cup {None}, late : BOOLEAN,
            then : {"loop", "error", "skip"}]

\* What an operation buffered is committed.
LEMMA CommittedIs ==
    ASSUME NEW u \in Units, NEW b \in Buffers, op \in Commands
    PROVE  /\ Committed(u, b) \in Units /\ Committed(u, b).have = u.have
           /\ b.stamp => /\ Committed(u, b).differs = {}
                         /\ Committed(u, b).fp = [command |-> op, files |-> u.have]
           /\ ~ b.stamp => /\ Committed(u, b).differs = u.differs
                           /\ Committed(u, b).fp = u.fp
           /\ SameRun(Committed(u, b).report, IF b.report = None THEN u.report ELSE b.report)
  <1> DEFINE v == IF b.report = None THEN u ELSE [u EXCEPT !.report = b.report]
             w == IF b.stamp THEN Stamped(v, op) ELSE v
  <1>1. /\ v \in Units /\ v.have = u.have /\ v.differs = u.differs /\ v.fp = u.fp
        /\ v.report = IF b.report = None THEN u.report ELSE b.report
    BY DEF Units, Buffers
  <1>2. SameRun(v.report, v.report)
    BY DEF SameRun
  <1>3. /\ w \in Units /\ w.have = u.have /\ SameRun(w.report, v.report)
        /\ b.stamp => w.differs = {} /\ w.fp = [command |-> op, files |-> u.have]
        /\ ~ b.stamp => w.differs = u.differs /\ w.fp = u.fp
    <2> HIDE DEF v
    <2> QED BY <1>1, <1>2, StampedIs
  <1>4. Committed(u, b) = IF b.late /\ b.report # None
                          THEN [w EXCEPT !.report = b.report] ELSE w
    BY DEF Committed
  <1>5. b.report # None => SameRun(b.report, b.report)
    BY DEF SameRun
  <1> HIDE DEF v, w
  <1>6. CASE b.late /\ b.report # None
    <2>1. /\ Committed(u, b) \in Units /\ Committed(u, b).report = b.report
          /\ Committed(u, b).have = w.have /\ Committed(u, b).differs = w.differs
          /\ Committed(u, b).fp = w.fp
      BY <1>3, <1>4, <1>6 DEF Units, Buffers
    <2> QED BY <1>3, <1>5, <1>6, <2>1
  <1>7. CASE ~ (b.late /\ b.report # None)
    BY <1>1, <1>3, <1>4, <1>7
  <1> QED BY <1>6, <1>7

(***************************************************************************)
(* The form of the state.                                                  *)
(***************************************************************************)
Places == {"idle", "decide", "work", "clear", "save"}

TypeInv ==
    /\ unit \in Units /\ opt \in Options /\ settled \in Options \cup {None}
    /\ pc \in Places /\ op \in Commands \cup {None}
    /\ op = None <=> pc \in {"idle", "decide"}
    /\ hist \in Seq(Decisions) /\ Len(hist) <= Keep
    /\ extends \in Nat /\ spent \in 0..Budget /\ errs \in BOOLEAN
    /\ buffer \in Buffers
    /\ result \in {None, "success", "manual", "error"}
    /\ untested \in BOOLEAN /\ owed \in BOOLEAN /\ torn \in BOOLEAN
    /\ edits \subseteq {"prompt", "derived"}

\* A run that is under way has no result, works within its budget and gives up
\* at the second fix that changes nothing.
Shape ==
    /\ Running => result = None
    /\ pc = "work" => spent < Budget
    /\ pc = "clear" => op \in {"auto-deps", "generate"}
    /\ noops \in 0..2 /\ (noops = 2 => pc = "save" /\ buffer.then = "error")
    /\ buffer.stamp => buffer.then = "loop"

FormInv == TypeInv /\ Shape

LEMMA MaxIs ==
    ASSUME NEW S, S \subseteq Int,
           \E m \in S : \A x \in S : m >= x
    PROVE  Max(S) \in S /\ \A x \in S : Max(S) >= x
  BY DEF Max

LEMMA BoundsAre ==
    /\ Keep \in Nat /\ Keep >= 4 /\ Keep >= MaxCrashes
    /\ MaxFree \in Nat /\ MaxFree >= 6 /\ MaxFree >= 2 * MaxCrashes + 2
    /\ MaxCrashes \in Nat /\ MaxCrashes >= 1
  <1>1. {MaxTests, MaxCrashes, MaxFixes} \subseteq Nat \ {0}
    BY BoundsAssumption
  <1>2. Keep \in {4, MaxFixes, MaxTests, MaxCrashes} /\ Keep >= 4 /\ Keep >= MaxCrashes
    <2> DEFINE S == {4, MaxFixes, MaxTests, MaxCrashes}
    <2>1. S \subseteq Int /\ \E m \in S : \A x \in S : m >= x
      BY <1>1
    <2> QED BY <2>1, MaxIs DEF Keep
  <1>3. /\ MaxFree \in {6, 2 * MaxCrashes + 2}
        /\ MaxFree >= 6 /\ MaxFree >= 2 * MaxCrashes + 2
    <2> DEFINE S == {6, 2 * MaxCrashes + 2}
    <2>1. S \subseteq Int /\ \E m \in S : \A x \in S : m >= x
      BY <1>1
    <2> QED BY <2>1, MaxIs DEF MaxFree
  <1> QED BY <1>1, <1>2, <1>3

LEMMA ConstantsAre ==
    /\ Keep \in Nat /\ Keep >= 4 /\ Budget \in Nat /\ Budget >= 1
    /\ NoCommit \in Buffers /\ Done \in Buffers /\ Failed \in Buffers /\ Raised \in Buffers
    /\ \A r \in Reports \cup {None}, s, l \in BOOLEAN, t \in {"loop", "error", "skip"} :
          Commits(s, r, l, t) \in Buffers
  BY BoundsAssumption, BoundsAre DEF NoCommit, Done, Failed, Raised, Commits, Buffers

\* The decision, the history with it, and the operation that follows from it.
Choice == Decision(unit, opt)
Then == Operation(History(Choice))

LEMMA ChoiceIs ==
    ASSUME TypeInv
    PROVE  /\ opt \in OptionRecords /\ Choice \in Decisions /\ Then \in {Choice, "generate"}
           /\ History(Choice) \in Seq(Decisions) /\ Len(History(Choice)) <= Keep
           /\ hist = <<>> => History(Choice) = <<Choice>> /\ Then = Choice
  <1>1. opt \in OptionRecords /\ Choice \in Decisions
    BY InputsAssumption, DecisionIs DEF TypeInv, Choice
  <1>2. PICK h \in Seq(Decisions) : h = hist
    BY DEF TypeInv
  <1>3. PICK c \in Decisions : c = Choice
    BY <1>1
  <1>4. Len(h) <= Keep /\ Keep \in Nat /\ Keep >= 4 /\ Len(h) \in Nat
    BY <1>2, ConstantsAre DEF TypeInv
  <1>5. CASE Len(h) < Keep
    <2>1. History(Choice) = Append(h, c)
      BY <1>2, <1>3, <1>5 DEF History
    <2>2. /\ Append(h, c) \in Seq(Decisions) /\ Len(Append(h, c)) = Len(h) + 1
          /\ Append(h, c)[Len(h) + 1] = c
      OBVIOUS
    <2>3. Last(Append(h, c)) = c
      BY <2>2 DEF Last
    <2>4. h = <<>> => Append(h, c) = <<c>> /\ Len(Append(h, c)) = 1
      OBVIOUS
    <2> QED BY <1>1, <1>2, <1>3, <1>4, <1>5, <2>1, <2>2, <2>3, <2>4
            DEF Then, Operation, AutoDepsLoop
  <1>6. CASE Len(h) = Keep
    <2>1. History(Choice) = Append(Tail(h), c) /\ h # <<>>
      BY <1>2, <1>3, <1>4, <1>6 DEF History
    <2>2. Tail(h) \in Seq(Decisions) /\ Len(Tail(h)) = Len(h) - 1
      BY <2>1
    <2>3. /\ Append(Tail(h), c) \in Seq(Decisions) /\ Len(Append(Tail(h), c)) = Len(h)
          /\ Append(Tail(h), c)[Len(h)] = c
      BY <1>4, <2>2
    <2>4. Last(Append(Tail(h), c)) = c
      BY <2>3 DEF Last
    <2> QED BY <1>1, <1>2, <1>3, <1>4, <1>6, <2>1, <2>3, <2>4 DEF Then, Operation
  <1> QED BY <1>4, <1>5, <1>6

\* One iteration of the loop.
LEMMA DecideIs ==
    ASSUME TypeInv, Decide
    PROVE  /\ pc = "decide" /\ spent < Budget
           /\ \/ /\ Breaks(History(Choice), Then) /\ End("error")
                 /\ UNCHANGED <<unit, untested, owed, edits, torn, settled>>
              \/ Finish(Then)
              \/ /\ ~ Terminal(Then) /\ Record(History(Choice), Then)
                 /\ Skip(Then) \/ Begin(Then)
  BY DEF Decide, Choice, Then

(***************************************************************************)
(* What an operation does: it writes W, buffers b and goes on to next.     *)
(***************************************************************************)
Ops == \/ AutoDeps \/ Generate \/ Example \/ Crash \/ Verify
       \/ Test \/ TestExtend \/ Fix \/ Update

\* A fingerprint is buffered when, and only when, what was written is finished.
Effect(o, W, b, cost, next) ==
    /\ W \in SUBSET (Derived \cup {"prompt"}) /\ b \in Buffers /\ cost \in {0, 1}
    /\ next \in {"clear", "save"} /\ (next = "clear" => o \in {"auto-deps", "generate"})
    /\ b.stamp => b.then = "loop"
    /\ W # {} /\ b.then = "loop" => b.stamp
    /\ o = "generate" /\ b.stamp => W # {} /\ next = "clear"
    /\ o = "fix" /\ cost = 0 /\ noops >= 1 => b.then = "error"

\* The tests still have to run: on the code that was not tested before, or on what
\* the operation wrote and will put its fingerprint under.
Leaves(o, W, b, next) ==
    untested' =>
        /\ \/ untested /\ "code" \notin W
           \/ /\ "code" \in W /\ b.stamp
              /\ \/ o = "generate" /\ next = "clear"
                 \/ o \in {"crash", "verify"}
                 \/ o = "fix" /\ "test" \notin unit.have
        /\ "test" \in W => "test" \in unit.have
        /\ o \in TestDone /\ b.stamp /\ o # "update" => o = "fix" /\ "test" \notin unit.have

Does(o, W, b, cost, next) ==
    Works(o, W, b, cost, next) /\ Effect(o, W, b, cost, next) /\ Leaves(o, W, b, next)

LEMMA CommitsIs ==
    \A s \in BOOLEAN, r \in Reports, l \in BOOLEAN, t \in {"loop", "error", "skip"} :
       \E b \in Buffers : /\ b = Commits(s, r, l, t)
                         /\ (b.stamp <=> s) /\ b.report = r /\ b.then = t
  <1> TAKE s \in BOOLEAN, r \in Reports, l \in BOOLEAN, t \in {"loop", "error", "skip"}
  <1>1. Commits(s, r, l, t) \in Buffers
    BY ConstantsAre
  <1>2. /\ Commits(s, r, l, t).stamp <=> s
        /\ Commits(s, r, l, t).report = r /\ Commits(s, r, l, t).then = t
    BY DEF Commits
  <1> QED BY <1>1, <1>2

LEMMA CommitsAre ==
    /\ ~ NoCommit.stamp /\ NoCommit.report = None /\ NoCommit.then = "loop"
    /\ Done.stamp /\ Done.report = None /\ Done.then = "loop"
    /\ ~ Failed.stamp /\ Failed.report = None /\ Failed.then = "error"
    /\ ~ Raised.stamp /\ Raised.report = None /\ Raised.then = "skip"
  BY DEF Commits, NoCommit, Done, Failed, Raised

LEMMA ReportsAre ==
    ASSUME TypeInv
    PROVE  /\ \A exit \in {0, 1} :
                 LET r == Report(exit, 1 - exit, exit, 2 * (1 - exit), TestOnDisk) IN
                 r \in Reports /\ r # None
           /\ Report(0, 1, 0, 0, "none") \in Reports /\ Report(0, 1, 0, 0, "none") # None
           /\ Report(0, 0, 0, 0, TestOnDisk) \in Reports /\ Report(0, 0, 0, 0, TestOnDisk) # None
           /\ \A r \in Outcomes : r \in Reports /\ r # None /\ r.test = "current"
  <1>1. TestOnDisk \in {"none", "current"}
    BY DEF TestOnDisk
  <1>2. \A exit \in {0, 1} : Report(exit, 1 - exit, exit, 2 * (1 - exit), TestOnDisk) \in Reports
    <2> TAKE exit \in {0, 1}
    <2>1. 1 - exit \in Nat /\ 2 * (1 - exit) \in Nat /\ exit \in Nat
      OBVIOUS
    <2> QED BY <1>1, <2>1 DEF Report, Reports
  <1>3. Report(0, 1, 0, 0, "none") \in Reports /\ Report(0, 0, 0, 0, TestOnDisk) \in Reports
    BY <1>1 DEF Report, Reports
  <1> QED BY <1>2, <1>3, InputsAssumption

LEMMA OpsWork ==
    ASSUME FormInv, Ops
    PROVE  \E W, b, cost, next : Does(op, W, b, cost, next)
  <1> USE CommitsAre, ConstantsAre, ReportsAre DEF Does, Effect, Leaves, FormInv
  <1>0. \A r \in Outcomes : r \in Reports /\ r # None
    OBVIOUS
  <1>1. CASE AutoDeps
    <2>1. CASE Works("auto-deps", {"prompt"}, Done, 1, "clear")
      <3>1. Does(op, {"prompt"}, Done, 1, "clear")
        BY <1>1, <2>1 DEF AutoDeps, Works, Wrote, TestDone
      <3> QED BY <3>1
    <2>2. CASE Works("auto-deps", {}, Done, 0, "save")
      <3>1. Does(op, {}, Done, 0, "save")
        BY <1>1, <2>2 DEF AutoDeps, Works, Wrote, TestDone
      <3> QED BY <3>1
    <2>3. CASE Works("auto-deps", {}, Failed, 1, "save")
      <3>1. Does(op, {}, Failed, 1, "save")
        BY <1>1, <2>3 DEF AutoDeps, Works, Wrote, TestDone
      <3> QED BY <3>1
    <2> QED BY <1>1, <2>1, <2>2, <2>3 DEF AutoDeps
  <1>2. CASE Generate
    <2>1. CASE Works("generate", {"code"}, Done, 1, "clear") /\ Wrote({"code"})
      <3>1. Does(op, {"code"}, Done, 1, "clear")
        BY <2>1 DEF Works, Wrote, TestDone, Derived
      <3> QED BY <3>1
    <2>2. CASE Works("generate", {}, Failed, 1, "clear") /\ Wrote({})
      <3>1. Does(op, {}, Failed, 1, "clear")
        BY <2>2 DEF Works, Wrote, TestDone
      <3> QED BY <3>1
    <2>3. CASE Works("generate", {}, Failed, 1, "save") /\ Wrote({})
      <3>1. Does(op, {}, Failed, 1, "save")
        BY <2>3 DEF Works, Wrote, TestDone
      <3> QED BY <3>1
    <2> QED BY <1>2, <2>1, <2>2, <2>3 DEF Generate
  <1>3. CASE Example
    <2>1. CASE Works("example", {"example"}, Done, 1, "save")
      <3>1. Does(op, {"example"}, Done, 1, "save")
        BY <1>3, <2>1 DEF Example, Works, Wrote, TestDone, Derived
      <3> QED BY <3>1
    <2>2. CASE Works("example", {}, Failed, 1, "save")
      <3>1. Does(op, {}, Failed, 1, "save")
        BY <1>3, <2>2 DEF Example, Works, Wrote, TestDone
      <3> QED BY <3>1
    <2> QED BY <1>3, <2>1, <2>2 DEF Example
  <1>4. CASE Crash
    <2>1. CASE Works("crash", {}, NoCommit, 0, "save") /\ Wrote({})
      <3>1. Does(op, {}, NoCommit, 0, "save")
        BY <2>1 DEF Works, Wrote, TestDone
      <3> QED BY <3>1
    <2>2. ASSUME NEW stamp \in BOOLEAN, NEW W \in SUBSET {"code", "example"},
                 W = {} \/ stamp, ExampleRuns(stamp, W)
          PROVE  \E w, b, cost, next : Does(op, w, b, cost, next)
      <3>1. CASE "test" \in unit.have
        <4>1. PICK r \in Outcomes :
                 Works("crash", W, Commits(stamp, r, FALSE, "loop"), 0, "save") /\ RanTests
          BY <2>2, <3>1 DEF ExampleRuns
        <4>2. r \in Reports /\ r # None
          OBVIOUS
        <4>3. PICK b \in Buffers : /\ b = Commits(stamp, r, FALSE, "loop")
                                  /\ (b.stamp <=> stamp) /\ b.report = r /\ b.then = "loop"
          <5>1. Commits(stamp, r, FALSE, "loop") \in Buffers
            BY ONLY <2>2, <4>2 DEF Commits, Buffers
          <5>2. /\ Commits(stamp, r, FALSE, "loop").stamp <=> stamp
                /\ Commits(stamp, r, FALSE, "loop").report = r
                /\ Commits(stamp, r, FALSE, "loop").then = "loop"
            BY ONLY <2>2 DEF Commits
          <5> QED BY ONLY <5>1, <5>2
        <4>4. Works("crash", W, b, 0, "save")
          BY <4>1, <4>3
        <4>5. Effect("crash", W, b, 0, "save")
          BY <2>2, <4>2, <4>3 DEF Derived
        <4>6. Does(op, W, b, 0, "save")
          BY <4>1, <4>4, <4>5 DEF Works, RanTests
        <4> QED BY <4>6
      <3>2. CASE "test" \notin unit.have
        <4>0. PICK r \in Reports : r = Report(0, 1, 0, 0, "none") /\ r # None
          OBVIOUS
        <4>5. PICK b \in Buffers : /\ b = Commits(stamp, r, FALSE, "loop")
                                  /\ (b.stamp <=> stamp) /\ b.report = r /\ b.then = "loop"
          <5>1. Commits(stamp, r, FALSE, "loop") \in Buffers
            BY ONLY <2>2, <4>0 DEF Commits, Buffers
          <5>2. /\ Commits(stamp, r, FALSE, "loop").stamp <=> stamp
                /\ Commits(stamp, r, FALSE, "loop").report = r
                /\ Commits(stamp, r, FALSE, "loop").then = "loop"
            BY ONLY <2>2 DEF Commits
          <5> QED BY ONLY <5>1, <5>2
        <4>1. Works("crash", W, b, 0, "save") /\ Wrote(W)
          BY <2>2, <3>2, <4>0, <4>5 DEF ExampleRuns
        <4>2. Effect("crash", W, b, 0, "save")
          BY <2>2, <4>0, <4>5 DEF Derived
        <4>3. Leaves("crash", W, b, "save")
          BY <2>2, <4>1, <4>5 DEF Works, Wrote, TestDone
        <4>4. Does(op, W, b, 0, "save")
          BY <4>1, <4>2, <4>3 DEF Works
        <4> QED BY <4>4
      <3> QED BY <3>1, <3>2
    <2>3. ASSUME NEW W \in CodeOrExample, Works("crash", W, Raised, 0, "save"), Wrote(W)
          PROVE  \E w, b, cost, next : Does(op, w, b, cost, next)
      <3>1. Does(op, W, Raised, 0, "save")
        BY <2>3 DEF Works, Wrote, TestDone, CodeOrExample, Derived
      <3> QED BY <3>1
    <2>4. ASSUME NEW W \in CodeOrExample, Works("crash", W, Failed, 1, "save"), Wrote(W)
          PROVE  \E w, b, cost, next : Does(op, w, b, cost, next)
      <3>1. Does(op, W, Failed, 1, "save")
        BY <2>4 DEF Works, Wrote, TestDone, CodeOrExample, Derived
      <3> QED BY <3>1
    <2>5. ASSUME NEW W \in CodeOrExample, NEW exit \in {0, 1},
                 LET r == Report(exit, 1 - exit, exit, 2 * (1 - exit), TestOnDisk) IN
                 Works("crash", W, Commits(TRUE, r, TRUE, "loop"), 1, "save"),
                 Wrote(W)
          PROVE  \E w, b, cost, next : Does(op, w, b, cost, next)
      <3>1. PICK r \in Reports : /\ r = Report(exit, 1 - exit, exit, 2 * (1 - exit), TestOnDisk)
                                /\ r # None
        OBVIOUS
      <3>2. PICK b \in Buffers : /\ b = Commits(TRUE, r, TRUE, "loop")
                                /\ (b.stamp <=> TRUE) /\ b.report = r /\ b.then = "loop"
        BY ONLY CommitsIs, <3>1
      <3>3. Works("crash", W, b, 1, "save")
        BY <2>5, <3>1, <3>2
      <3>4. Effect("crash", W, b, 1, "save")
        BY <3>1, <3>2 DEF CodeOrExample, Derived
      <3>5. Leaves("crash", W, b, "save")
        BY <2>5, <3>2, <3>3 DEF Works, Wrote, TestDone, CodeOrExample
      <3>6. Does(op, W, b, 1, "save")
        BY <3>3, <3>4, <3>5 DEF Works
      <3> QED BY <3>6
    <2> QED
      <3>1. CASE ~ ({"code", "example"} \subseteq unit.have)
        BY <1>4, <2>1, <3>1 DEF Crash
      <3>2. CASE {"code", "example"} \subseteq unit.have
        <4>1. CASE ExampleRuns(FALSE, {})
          BY <2>2, <4>1
        <4>2. CASE \E W \in {{"code"}, {"example"}} : ExampleRuns(TRUE, W)
          BY <2>2, <4>2
        <4>3. CASE \E W \in CodeOrExample :
               /\ \/ Works("crash", W, Raised, 0, "save")
                  \/ Works("crash", W, Failed, 1, "save")
                  \/ \E exit \in {0, 1} :
                        LET r == Report(exit, 1 - exit, exit, 2 * (1 - exit), TestOnDisk) IN
                        Works("crash", W, Commits(TRUE, r, TRUE, "loop"), 1, "save")
               /\ Wrote(W)
          BY <2>3, <2>4, <2>5, <4>3
        <4> QED BY <1>4, <3>2, <4>1, <4>2, <4>3 DEF Crash
      <3> QED BY <3>1, <3>2
  <1>5. CASE Verify
    <2>1. CASE Works("verify", {}, NoCommit, 0, "save") /\ Wrote({})
      <3>1. Does(op, {}, NoCommit, 0, "save")
        BY <2>1 DEF Works, Wrote, TestDone
      <3> QED BY <3>1
    <2>2. ASSUME NEW W \in CodeOrExample, Works("verify", W, Done, 1, "save"), Wrote(W)
          PROVE  \E w, b, cost, next : Does(op, w, b, cost, next)
      <3>1. Does(op, W, Done, 1, "save")
        BY <2>2 DEF Works, Wrote, TestDone, CodeOrExample, Derived
      <3> QED BY <3>1
    <2>3. ASSUME NEW W \in CodeOrExample, Works("verify", W, Failed, 1, "save"), Wrote(W)
          PROVE  \E w, b, cost, next : Does(op, w, b, cost, next)
      <3>1. Does(op, W, Failed, 1, "save")
        BY <2>3 DEF Works, Wrote, TestDone, CodeOrExample, Derived
      <3> QED BY <3>1
    <2> QED BY <1>5, <2>1, <2>2, <2>3 DEF Verify
  <1>6. CASE Test
    <2>1. ASSUME NEW r \in Outcomes, RanTests,
                 Works("test", {"test"}, Commits(TRUE, r, FALSE, "loop"), 1, "save")
          PROVE  \E w, b, cost, next : Does(op, w, b, cost, next)
      <3>1. r \in Reports /\ r # None
        BY <1>0
      <3>2. PICK b \in Buffers : /\ b = Commits(TRUE, r, FALSE, "loop")
                                /\ (b.stamp <=> TRUE) /\ b.report = r /\ b.then = "loop"
        BY ONLY <3>1, CommitsIs
      <3>3. Works("test", {"test"}, b, 1, "save")
        BY <2>1, <3>2
      <3>4. Effect("test", {"test"}, b, 1, "save")
        BY <2>1, <3>1, <3>2 DEF Derived
      <3>5. Does(op, {"test"}, b, 1, "save")
        BY <2>1, <3>3, <3>4 DEF Works, RanTests
      <3> QED BY <3>5
    <2>2. CASE Works("test", {}, Failed, 1, "save") /\ Wrote({})
      <3>1. Does(op, {}, Failed, 1, "save")
        BY <2>2 DEF Works, Wrote, TestDone
      <3> QED BY <3>1
    <2>3. ASSUME NEW r \in Outcomes, NEW W \in SUBSET {"test"}, RanTests,
                 Works("test", W, Commits(TRUE, r, FALSE, "loop"), 0, "save")
          PROVE  \E w, b, cost, next : Does(op, w, b, cost, next)
      <3>1. r \in Reports /\ r # None
        BY <1>0
      <3>2. PICK b \in Buffers : /\ b = Commits(TRUE, r, FALSE, "loop")
                                /\ (b.stamp <=> TRUE) /\ b.report = r /\ b.then = "loop"
        BY ONLY <3>1, CommitsIs
      <3>3. Works("test", W, b, 0, "save")
        BY <2>3, <3>2
      <3>4. Effect("test", W, b, 0, "save")
        BY <2>3, <3>1, <3>2 DEF Derived
      <3>5. Does(op, W, b, 0, "save")
        BY <2>3, <3>3, <3>4 DEF Works, RanTests
      <3> QED BY <3>5
    <2> QED BY <1>6, <2>1, <2>2, <2>3 DEF Test
  <1>7. CASE TestExtend
    <2>1. ASSUME NEW r \in Outcomes, NEW ok \in BOOLEAN, RanTests,
                 Works("test_extend", {"test"},
                       Commits(ok, r, FALSE, IF ok THEN "loop" ELSE "error"), 1, "save")
          PROVE  \E w, b, cost, next : Does(op, w, b, cost, next)
      <3>1. r \in Reports /\ r # None
        BY <1>0
      <3>2. PICK b \in Buffers : /\ b = Commits(ok, r, FALSE, IF ok THEN "loop" ELSE "error")
                                /\ (b.stamp <=> ok) /\ b.report = r
                                /\ b.then = IF ok THEN "loop" ELSE "error"
        <4>1. Commits(ok, r, FALSE, IF ok THEN "loop" ELSE "error") \in Buffers
          BY ONLY <2>1, <3>1 DEF Commits, Buffers
        <4>2. /\ Commits(ok, r, FALSE, IF ok THEN "loop" ELSE "error").stamp <=> ok
              /\ Commits(ok, r, FALSE, IF ok THEN "loop" ELSE "error").report = r
              /\ Commits(ok, r, FALSE, IF ok THEN "loop" ELSE "error").then
                    = IF ok THEN "loop" ELSE "error"
          BY ONLY <2>1 DEF Commits
        <4> QED BY ONLY <4>1, <4>2
      <3>3. Works("test_extend", {"test"}, b, 1, "save")
        BY <2>1, <3>2
      <3>4. Effect("test_extend", {"test"}, b, 1, "save")
        BY <2>1, <3>1, <3>2 DEF Derived
      <3>5. Does(op, {"test"}, b, 1, "save")
        BY <2>1, <3>3, <3>4 DEF Works, RanTests
      <3> QED BY <3>5
    <2>2. CASE Works("test_extend", {}, Failed, 1, "save") /\ Wrote({})
      <3>1. Does(op, {}, Failed, 1, "save")
        BY <2>2 DEF Works, Wrote, TestDone
      <3> QED BY <3>1
    <2> QED BY <1>7, <2>1, <2>2 DEF TestExtend
  <1>8. CASE Fix
    <2>1. CASE Works("fix", {}, Failed, 0, "save") /\ Wrote({})
      <3>1. Does(op, {}, Failed, 0, "save")
        BY <2>1 DEF Works, Wrote, TestDone
      <3> QED BY <3>1
    <2>2. ASSUME NEW r \in Outcomes, RanTests, ~ (noops >= 1),
                 Works("fix", {}, Commits(FALSE, r, FALSE, "loop"), 0, "save")
          PROVE  \E w, b, cost, next : Does(op, w, b, cost, next)
      <3>1. r \in Reports /\ r # None
        BY <1>0
      <3>2. PICK b \in Buffers : /\ b = Commits(FALSE, r, FALSE, "loop")
                                /\ (b.stamp <=> FALSE) /\ b.report = r /\ b.then = "loop"
        BY ONLY <3>1, CommitsIs
      <3>3. Works("fix", {}, b, 0, "save")
        BY <2>2, <3>2
      <3>4. Effect("fix", {}, b, 0, "save")
        BY <2>2, <3>1, <3>2 DEF Derived
      <3>5. Does(op, {}, b, 0, "save")
        BY <2>2, <3>3, <3>4 DEF Works, RanTests
      <3> QED BY <3>5
    <2>3. CASE ~ (noops >= 1) /\ Works("fix", {}, NoCommit, 0, "save") /\ Wrote({})
      <3>1. Does(op, {}, NoCommit, 0, "save")
        BY <2>3 DEF Works, Wrote, TestDone
      <3> QED BY <3>1
    <2>4. ASSUME NEW W \in SUBSET ({"code", "test"} \cap unit.have), Wrote(W),
                 Works("fix", W, Failed, 1, "save")
          PROVE  \E w, b, cost, next : Does(op, w, b, cost, next)
      <3>1. Does(op, W, Failed, 1, "save")
        BY <2>4 DEF Works, Wrote, TestDone, Derived
      <3> QED BY <3>1
    <2>5. ASSUME NEW W \in SUBSET ({"code", "test"} \cap unit.have), NEW r \in Outcomes, RanTests,
                 Works("fix", W, Commits(TRUE, r, TRUE, "loop"), 1, "save")
          PROVE  \E w, b, cost, next : Does(op, w, b, cost, next)
      <3>1. r \in Reports /\ r # None
        BY <1>0
      <3>2. PICK b \in Buffers : /\ b = Commits(TRUE, r, TRUE, "loop")
                                /\ (b.stamp <=> TRUE) /\ b.report = r /\ b.then = "loop"
        BY ONLY <3>1, CommitsIs
      <3>3. Works("fix", W, b, 1, "save")
        BY <2>5, <3>2
      <3>6. W \in SUBSET (Derived \cup {"prompt"})
        BY ONLY <2>5 DEF Derived
      <3>4. Effect("fix", W, b, 1, "save")
        <4>1. r \in Outcomes
          BY ONLY <2>5
        <4>2. b \in Buffers /\ b.report = r
          BY ONLY <3>2
        <4>3. b.stamp /\ b.then = "loop"
          BY ONLY <3>2
        <4> QED BY ONLY <3>1, <3>6, <4>1, <4>2, <4>3 DEF Effect
      <3>5. Does(op, W, b, 1, "save")
        BY <2>5, <3>3, <3>4 DEF Works, RanTests
      <3> QED BY <3>5
    <2>6. ASSUME NEW W \in SUBSET ({"code", "test"} \cap unit.have), "test" \notin unit.have,
                 Works("fix", W, Done, 1, "save"), Wrote(W)
          PROVE  \E w, b, cost, next : Does(op, w, b, cost, next)
      <3>1. Does(op, W, Done, 1, "save")
        BY <2>6 DEF Works, Wrote, TestDone, Derived
      <3> QED BY <3>1
    <2> QED BY <1>8, <2>1, <2>2, <2>3, <2>4, <2>5, <2>6 DEF Fix
  <1>9. CASE Update
    <2>1. CASE Works("update", {"prompt"}, Done, 1, "save")
      <3>1. Does(op, {"prompt"}, Done, 1, "save")
        BY <1>9, <2>1 DEF Update, Works, Wrote, TestDone
      <3> QED BY <3>1
    <2>2. CASE Works("update", {}, Failed, 1, "save")
      <3>1. Does(op, {}, Failed, 1, "save")
        BY <1>9, <2>2 DEF Update, Works, Wrote, TestDone
      <3> QED BY <3>1
    <2> QED BY <1>9, <2>1, <2>2 DEF Update
  <1> QED BY <1>1, <1>2, <1>3, <1>4, <1>5, <1>6, <1>7, <1>8, <1>9 DEF Ops

\* What an operation, and what the user, does to the unit.
NowHas(W) == HasWritten(unit', unit, W)

LEMMA WorkIs ==
    ASSUME FormInv, NEW W, NEW b, NEW cost, NEW next, Does(op, W, b, cost, next)
    PROVE  NowHas(W)
  <1>1. W \in SUBSET (Derived \cup {"prompt"}) /\ unit.hasDeps \in BOOLEAN
    BY DEF Does, Effect, FormInv, TypeInv, Units
  <1>2. Works(op, W, b, cost, next) /\ unit \in Units
    BY DEF Does, FormInv, TypeInv
  <1>3. PICK deps \in BOOLEAN : unit' = Rewritten(unit, W, deps)
    BY ONLY <1>1, <1>2 DEF Works, Rewritten
  <1> QED BY ONLY <1>1, <1>2, <1>3, RewrittenIs DEF NowHas

LEMMA EditIs ==
    ASSUME FormInv, NEW a \in Editable, Edit(a)
    PROVE  NowHas({a}) /\ unit'.have = unit.have /\ {a} \subseteq Derived \cup {"prompt"}
  <1>1. {a} \in SUBSET (Derived \cup {"prompt"}) /\ unit.hasDeps \in BOOLEAN
    BY InputsAssumption DEF FormInv, TypeInv, Units
  <1>2. PICK deps \in BOOLEAN : unit' = Rewritten(unit, {a}, deps)
    BY <1>1 DEF Edit, Rewritten
  <1>3. NowHas({a})
    <2>1. unit \in Units
      BY DEF FormInv, TypeInv
    <2> QED BY ONLY <1>1, <1>2, <2>1, RewrittenIs DEF NowHas
  <1>4. a = "prompt" \/ a \in unit.have
    BY DEF Edit
  <1> QED BY <1>1, <1>3, <1>4 DEF NowHas, HasWritten

LEMMA InitForm == Init => FormInv
  <1> SUFFICES ASSUME Init PROVE FormInv
    OBVIOUS
  <1>1. unit \in Units /\ opt \in Options /\ buffer \in Buffers
    BY ConstantsAre DEF Init, Units
  <1>2. hist = <<>> /\ <<>> \in Seq(Decisions) /\ Len(<<>>) = 0
    BY DEF Init
  <1>3. TypeInv
    <2>1. hist \in Seq(Decisions) /\ Len(hist) <= Keep
      BY <1>2, ConstantsAre
    <2>2. spent \in 0..Budget
      BY ConstantsAre DEF Init
    <2> QED BY <1>1, <2>1, <2>2 DEF Init, TypeInv, Places
  <1>4. Shape
    BY <1>1, CommitsAre DEF Init, Shape, Running
  <1> QED BY <1>3, <1>4 DEF FormInv

LEMMA EndForm ==
    ASSUME FormInv, NEW how \in {None, "success", "manual", "error"}, End(how), unit' \in Units,
           settled' \in Options \cup {None}, untested' \in BOOLEAN, owed' \in BOOLEAN,
           torn' \in BOOLEAN, edits' \subseteq {"prompt", "derived"}
    PROVE  FormInv'
  <1>1. <<>> \in Seq(Decisions) /\ Len(<<>>) = 0
    OBVIOUS
  <1>2. TypeInv'
    <2>1. hist' \in Seq(Decisions) /\ Len(hist') <= Keep
      BY <1>1, ConstantsAre DEF End
    <2>2. spent' \in 0..Budget /\ extends' \in Nat /\ errs' \in BOOLEAN
      <3>1. 0 \in 0..Budget /\ 0 \in Nat
        BY ConstantsAre
      <3>2. spent' = 0 /\ extends' = 0 /\ errs' = FALSE
        BY DEF End
      <3> QED BY ONLY <3>1, <3>2
    <2>3. result' \in {None, "success", "manual", "error"}
      BY DEF End
    <2>4. /\ opt' \in Options /\ pc' = "idle" /\ op' = None /\ buffer' \in Buffers
      BY ConstantsAre DEF End, FormInv, TypeInv
    <2> QED BY <2>1, <2>2, <2>3, <2>4 DEF TypeInv, Places
  <1>3. Shape'
    BY CommitsAre DEF End, FormInv, Shape, Running
  <1> QED BY <1>2, <1>3 DEF FormInv

LEMMA DecideForm ==
    ASSUME FormInv, Decide
    PROVE  FormInv'
  <1> USE DEF FormInv
  <1>1. CASE End("error") /\ UNCHANGED <<unit, untested, owed, edits, torn, settled>>
    BY <1>1, EndForm DEF TypeInv
  <1>2. CASE Finish(Then)
    <2>1. PICK how \in {None, "success", "manual", "error"} : End(how)
      BY <1>2 DEF Finish
    <2>2. settled' \in Options \cup {None}
      BY <1>2 DEF Finish, TypeInv
    <2> QED BY <1>2, <2>1, <2>2, EndForm DEF Finish, TypeInv
  <1>3. CASE ~ Terminal(Then) /\ Record(History(Choice), Then) /\ Skip(Then)
    <2>1. Then \in Commands /\ Then \in {"verify", "fix", "test", "crash"}
      BY <1>3, ChoiceIs DEF Skip, Skipped, Commands
    <2>2. SkipCommand[Then] \in Commands \cup SkipCommands
      BY <2>1 DEF SkipCommand, SkipCommands
    <2>3. unit' \in Units
      BY <1>3, <2>2, StampedIs DEF Skip, TypeInv
    <2>4. hist' \in Seq(Decisions) /\ Len(hist') <= Keep /\ extends' \in Nat /\ errs' \in BOOLEAN
      BY <1>3, ChoiceIs DEF Record, TypeInv, AutoDepsLoop
    <2>5. pc = "decide"
      BY DecideIs
    <2>6. /\ buffer' \in Buffers /\ pc' \in {"decide", "save"} /\ op' \in Commands \cup {None}
          /\ (op' = None <=> pc' = "decide") /\ (buffer'.stamp => buffer'.then = "loop")
      <3>1. CASE Then = "crash"
        <4>1. PICK r \in Reports : r = Report(0, 0, 0, 0, TestOnDisk)
          BY ReportsAre
        <4>2. PICK b \in Buffers : b = Commits(FALSE, r, FALSE, "loop") /\ b.then = "loop"
          <5>1. Commits(FALSE, r, FALSE, "loop") \in Buffers
            BY ONLY <4>1 DEF Commits, Buffers
          <5>2. Commits(FALSE, r, FALSE, "loop").then = "loop"
            BY ONLY DEF Commits
          <5> QED BY ONLY <5>1, <5>2
        <4>3. Then # None
          BY <2>1, InputsAssumption DEF Decisions
        <4> QED BY <1>3, <2>1, <3>1, <4>1, <4>2, <4>3 DEF Skip
      <3>2. CASE Then # "crash"
        BY <1>3, <2>5, <3>2 DEF Skip, TypeInv, Shape
      <3> QED BY <3>1, <3>2
    <2>7. TypeInv'
      BY <1>3, <2>3, <2>4, <2>5, <2>6 DEF Skip, TypeInv, Places
    <2>8. Shape'
      BY <1>3, <2>5, <2>6 DEF Skip, Shape, Running
    <2> QED BY <2>7, <2>8
  <1>4. CASE ~ Terminal(Then) /\ Record(History(Choice), Then) /\ Begin(Then)
    <2>1. Then \in Commands /\ Then # None
      BY <1>4, ChoiceIs, InputsAssumption DEF Terminal, Commands, Decisions
    <2>2. hist' \in Seq(Decisions) /\ Len(hist') <= Keep /\ extends' \in Nat /\ errs' \in BOOLEAN
      BY <1>4, ChoiceIs DEF Record, TypeInv, AutoDepsLoop
    <2>3. pc = "decide" /\ spent < Budget
      BY DecideIs
    <2>4. TypeInv'
      BY <1>4, <2>1, <2>2, <2>3 DEF Begin, TypeInv, Places, ghosts
    <2>5. Shape'
      BY <1>4, <2>3 DEF Begin, Shape, Running
    <2> QED BY <2>4, <2>5
  <1> QED BY <1>1, <1>2, <1>3, <1>4, DecideIs

LEMMA WorkForm ==
    ASSUME FormInv, Ops
    PROVE  FormInv'
  <1>1. PICK W, b, cost, next : Does(op, W, b, cost, next)
    BY OpsWork
  <1>2. NowHas(W)
    BY <1>1, WorkIs
  <1>3. Works(op, W, b, cost, next) /\ Effect(op, W, b, cost, next)
    BY <1>1 DEF Does
  <1>4. untested' \in BOOLEAN /\ owed' \in BOOLEAN /\ torn' \in BOOLEAN
    <2>1. untested' \in BOOLEAN
      BY DEF Ops, AutoDeps, Generate, Example, Crash, Verify, Test, TestExtend, Fix, Update,
             RanTests, Wrote, ExampleRuns, FormInv, TypeInv
    <2> QED BY <1>3, <2>1 DEF Works, FormInv, TypeInv
  <1>5. pc = "work" /\ spent \in 0..Budget /\ spent < Budget /\ Budget \in Nat
    BY <1>3, ConstantsAre DEF Works, FormInv, TypeInv, Shape
  <1>6. spent' \in 0..Budget
    BY <1>3, <1>5 DEF Works, Effect
  <1>7. TypeInv'
    BY <1>2, <1>3, <1>4, <1>5, <1>6 DEF Works, Effect, NowHas, HasWritten, FormInv, TypeInv, Places
  <1>8. noops \in 0..1
    BY <1>5 DEF FormInv, Shape
  <1>9. noops' \in 0..2 /\ (noops' = 2 => pc' = "save" /\ buffer'.then = "error")
    <2>1. CASE op = "fix" /\ cost = 0
      BY <1>3, <1>8, <2>1 DEF Works, Effect
    <2>2. CASE ~ (op = "fix" /\ cost = 0)
      BY <1>3, <2>2 DEF Works
    <2> QED BY <2>1, <2>2
  <1>10. Shape'
    BY <1>3, <1>5, <1>9 DEF Works, Effect, FormInv, Shape, Running
  <1> QED BY <1>7, <1>10 DEF FormInv

LEMMA CommitForm ==
    ASSUME FormInv, Clear \/ Save
    PROVE  FormInv'
  <1> USE DEF FormInv
  <1>1. CASE Clear
    <2>1. unit' \in Units
      BY <1>1 DEF Clear, TypeInv, Units
    <2>2. op # None /\ UNCHANGED op
      BY <1>1 DEF Clear, TypeInv
    <2>3. TypeInv'
      BY <1>1, <2>1, <2>2 DEF Clear, TypeInv, Places, counters, ghosts
    <2>4. Shape'
      BY <1>1 DEF Clear, Shape, Running, counters
    <2> QED BY <2>3, <2>4
  <1>2. CASE Save
    <2>1. op \in Commands /\ pc = "save"
      BY <1>2 DEF Save, TypeInv
    <2>2. unit' \in Units
      BY <1>2, <2>1, CommittedIs DEF Save, TypeInv
    <2>3. torn' \in BOOLEAN /\ edits' \subseteq {"prompt", "derived"}
      BY <1>2 DEF Save, TypeInv
    <2>4. CASE buffer.then = "error" /\ End("error")
      BY <1>2, <2>2, <2>3, <2>4, EndForm DEF Save, TypeInv
    <2>5. CASE /\ buffer.then # "error" /\ pc' = "decide" /\ op' = None /\ buffer' = NoCommit
               /\ UNCHANGED <<opt, result>> /\ UNCHANGED counters
      <3>1. TypeInv'
        BY <1>2, <2>2, <2>3, <2>5, ConstantsAre DEF Save, TypeInv, Places, counters
      <3>2. Shape'
        BY <1>2, <2>1, <2>5, CommitsAre DEF Save, Shape, Running, counters
      <3> QED BY <3>1, <3>2
    <2> QED BY <1>2, <2>4, <2>5 DEF Save
  <1> QED BY <1>1, <1>2

LEMMA OutsideForm ==
    ASSUME FormInv,
           \/ OverBudget \/ Kill
           \/ \E o \in Options : Start(o)
           \/ \E a \in Editable : Edit(a)
           \/ \E a \in Derived : Delete(a)
    PROVE  FormInv'
  <1> USE DEF FormInv
  <1>1. CASE OverBudget
    BY <1>1, EndForm DEF OverBudget, TypeInv
  <1>2. CASE Kill
    <2>1. untested' \in BOOLEAN /\ torn' \in BOOLEAN
      BY <1>2 DEF Kill, TypeInv
    <2> QED BY <1>2, <2>1, EndForm DEF Kill, TypeInv
  <1>3. ASSUME NEW o \in Options, Start(o)
        PROVE  FormInv'
    <2>1. pc = "idle" /\ op = None
      BY <1>3 DEF Start, Running, TypeInv
    <2>2. TypeInv'
      BY <1>3, <2>1 DEF Start, TypeInv, Places, counters
    <2>3. Shape'
      BY <1>3, <2>1 DEF Start, Shape, Running, counters
    <2> QED BY <2>2, <2>3
  <1>4. ASSUME NEW a \in Editable, Edit(a)
        PROVE  FormInv'
    <2>1. unit' \in Units
      BY <1>4, EditIs DEF NowHas, HasWritten
    <2>2. owed' \in BOOLEAN /\ untested' \in BOOLEAN /\ edits' \subseteq {"prompt", "derived"}
      BY <1>4 DEF Edit, TypeInv, Side
    <2>3. TypeInv'
      BY <1>4, <2>1, <2>2 DEF Edit, TypeInv
    <2>4. Shape'
      BY <1>4 DEF Edit, Shape, Running
    <2> QED BY <2>3, <2>4
  <1>5. ASSUME NEW a \in Derived, Delete(a)
        PROVE  FormInv'
    <2>1. unit' \in Units
      BY <1>5 DEF Delete, TypeInv, Units
    <2>2. edits' \subseteq {"prompt", "derived"}
      BY <1>5 DEF Delete, TypeInv, Side
    <2>3. TypeInv'
      BY <1>5, <2>1, <2>2 DEF Delete, TypeInv, counters
    <2>4. Shape'
      BY <1>5 DEF Delete, Shape, Running, counters
    <2> QED BY <2>3, <2>4
  <1> QED BY <1>1, <1>2, <1>3, <1>4, <1>5

LEMMA NextForm == FormInv /\ [Next]_vars => FormInv'
  <1> SUFFICES ASSUME FormInv, [Next]_vars PROVE FormInv'
    OBVIOUS
  <1>1. CASE UNCHANGED vars
    BY <1>1 DEF FormInv, TypeInv, Shape, Running, vars
  <1>2. CASE Next
    BY <1>2, DecideForm, WorkForm, CommitForm, OutsideForm DEF Next, Loop, Ops
  <1> QED BY <1>1, <1>2

LEMMA FormHolds == Spec => []FormInv
  BY InitForm, NextForm, PTL DEF Spec

\* The state has its form: no history longer than it is kept, no run past its budget, no
\* third fix in a row that changes nothing.
THEOREM FormIsKept == Spec => []TypeOK
  <1>1. FormInv => TypeOK
    <2> SUFFICES ASSUME FormInv PROVE TypeOK
      OBVIOUS
    <2>1. unit.have \subseteq Derived /\ unit.differs \subseteq Derived \cup {"prompt"}
      BY DEF FormInv, TypeInv, Units
    <2>2. unit.fp # None => /\ unit.fp.command \in Commands \cup SkipCommands
                            /\ unit.fp.files \subseteq Derived
      BY FpIs DEF FormInv, TypeInv
    <2>3. {untested, owed, torn, errs} \subseteq BOOLEAN
      BY Zenon DEF FormInv, TypeInv
    <2> QED BY <2>1, <2>2, <2>3 DEF FormInv, TypeInv, TypeOK, Shape, Places
  <1> QED BY <1>1, FormHolds, PTL

(***************************************************************************)
(* A unit that is synced stays so.                                         *)
(***************************************************************************)
Synced == {"all_synced", "nothing"}

\* Nothing happened since the run succeeded: the next decides the same again.
SettledInv ==
    settled # None =>
        /\ pc \in {"idle", "decide"} /\ opt = settled /\ result \in {None, "success"}
        /\ Decision(unit, opt) \in Synced
        /\ hist = <<>> /\ spent = 0 /\ errs = FALSE

LEMMA FinishIs ==
    ASSUME FormInv, Finish(Then)
    PROVE  /\ UNCHANGED <<unit, opt, untested, owed, edits, torn>>
           /\ pc' = "idle" /\ op' = None /\ buffer' = NoCommit
           /\ hist' = <<>> /\ spent' = 0 /\ errs' = FALSE
           /\ result' \in {"success", "manual", "error"}
           /\ result' = "success" => Choice \in Synced
           /\ result' = "manual" => Choice = "fail_and_request_manual_merge"
           /\ Then \in Synced /\ ~ errs => result' = "success"
           /\ settled' = IF result' = "success" THEN opt ELSE settled
  <1>1. opt \in OptionRecords /\ unit \in Units /\ Then \in {Choice, "generate"}
    BY ChoiceIs DEF FormInv, TypeInv
  <1>2. CASE ExtendsEnd(Then)
            /\ End(IF opt.noExtend \/ unit.report.coverage >= opt.target
                   THEN "success" ELSE "error")
    <2>1. Choice = "test_extend" /\ Then = "test_extend"
      BY <1>1, <1>2 DEF ExtendsEnd
    <2>2. unit.report # None /\ unit.report.coverage < opt.target /\ ~ opt.noExtend
      BY <1>1, <2>1, DecisionIs DEF Choice
    <2>3. unit.report.coverage \in Nat /\ opt.target \in Nat
      BY <1>1, <2>2 DEF Units, Reports, OptionRecords
    <2>4. ~ (opt.noExtend \/ unit.report.coverage >= opt.target)
      BY <2>2, <2>3
    <2>5. End("error")
      BY <1>2, <2>4
    <2> QED BY <2>1, <2>5 DEF End, Finish, Synced
  <1>3. CASE Terminal(Then)
             /\ End(IF Then = "fail_and_request_manual_merge" THEN "manual" ELSE "success")
    <2>1. Choice = Then
      BY <1>1, <1>3 DEF Terminal
    <2>2. CASE Then = "fail_and_request_manual_merge"
      <3>1. End("manual")
        BY <1>3, <2>2
      <3> QED BY <2>1, <2>2, <3>1 DEF End, Finish, Synced
    <2>3. CASE Then # "fail_and_request_manual_merge"
      <3>1. End("success") /\ Choice \in Synced
        BY <1>3, <2>1, <2>3 DEF Terminal, Synced
      <3> QED BY <2>1, <3>1 DEF End, Finish, Synced
    <2> QED BY <2>2, <2>3
  <1> QED BY <1>2, <1>3 DEF Finish

LEMMA InitSettled == Init => SettledInv
  BY DEF Init, SettledInv

LEMMA NextSettled == FormInv /\ SettledInv /\ [Next]_vars => SettledInv'
  <1> SUFFICES ASSUME FormInv, SettledInv, [Next]_vars, settled' # None PROVE SettledInv'
    BY DEF SettledInv
  <1> USE DEF SettledInv
  <1>1. CASE UNCHANGED vars
    BY <1>1 DEF vars
  <1>2. CASE Decide
    <2>1. CASE Finish(Then)
      <3>1. CASE result' = "success"
        <4>1. Decision(unit, opt) \in Synced /\ unit' = unit /\ opt' = opt
          BY <2>1, <3>1, FinishIs DEF Choice
        <4>2. settled' = opt
          BY <2>1, <3>1, FinishIs
        <4> QED BY <2>1, <3>1, <4>1, <4>2, FinishIs
      <3>2. CASE result' # "success"
        <4>1. settled # None
          BY <2>1, <3>2, FinishIs
        <4>2. Then \in Synced /\ errs = FALSE
          BY <4>1, ChoiceIs DEF FormInv, Choice
        <4> QED BY <2>1, <3>2, <4>2, FinishIs
      <3> QED BY <3>1, <3>2
    <2>2. CASE ~ Finish(Then)
      <3>1. settled # None
        BY <1>2, <2>2, DecideIs DEF FormInv, Skip, Begin, ghosts
      <3>2. Then \in Synced /\ History(Choice) = <<Choice>>
        BY <3>1, ChoiceIs DEF FormInv, Choice
      <3>3. ~ Breaks(History(Choice), Then)
        <4>1. Len(History(Choice)) = 1
          BY <3>2
        <4> QED BY <3>2, <4>1 DEF Breaks, Alternates, Synced
      <3>4. Terminal(Then)
        BY <3>2 DEF Terminal, Synced
      <3> QED BY <1>2, <2>2, <3>3, <3>4, DecideIs DEF FormInv
    <2> QED BY <2>1, <2>2
  <1>3. CASE Ops
    <2>1. PICK W, b, cost, next : Works(op, W, b, cost, next)
      BY <1>3, OpsWork DEF Does
    <2> QED BY <2>1 DEF Works
  <1>4. CASE Clear \/ Save
    BY <1>4 DEF Clear, Save, ghosts
  <1>5. CASE OverBudget
    BY <1>5, ConstantsAre DEF OverBudget
  <1>6. CASE Kill
    BY <1>6 DEF Kill, End
  <1>7. CASE \E o \in Options : Start(o)
    BY <1>7 DEF Start, counters, FormInv, TypeInv, Shape, Running
  <1>8. CASE \E a \in Editable : Edit(a)
    BY <1>8 DEF Edit
  <1>9. CASE \E a \in Derived : Delete(a)
    BY <1>9 DEF Delete
  <1> QED BY <1>1, <1>2, <1>3, <1>4, <1>5, <1>6, <1>7, <1>8, <1>9 DEF Next, Loop, Ops

\* A run with the options of the last success, nothing having happened since, executes no
\* operation and succeeds again.
THEOREM SyncedStaysSynced == Spec => []SyncedStays
  <1>1. SettledInv => SyncedStays
    BY InputsAssumption DEF SettledInv, SyncedStays
  <1>2. Spec => []SettledInv
    BY InitSettled, NextSettled, FormHolds, PTL DEF Spec
  <1> QED BY <1>1, <1>2, PTL

(***************************************************************************)
(* The user's edits.                                                       *)
(***************************************************************************)
\* Until a generate has read the prompt nothing else is decided.
OwedInv ==
    owed => /\ Reading(unit) /\ op \in {None, "auto-deps", "generate"}
            /\ pc \in {"clear", "save"} /\ op = "generate" => ~ buffer.stamp
            /\ result # "success"

LEMMA NextReading ==
    ASSUME Reading(unit), unit'.fp = unit.fp, unit.have \subseteq unit'.have,
           unit.differs \subseteq unit'.differs
    PROVE  Reading(unit')
  BY DEF Reading

LEMMA InitOwed == Init => OwedInv
  BY DEF Init, OwedInv

LEMMA NextOwed == FormInv /\ OwedInv /\ [Next]_vars => OwedInv'
  <1> SUFFICES ASSUME FormInv, OwedInv, [Next]_vars, owed' PROVE OwedInv'
    BY DEF OwedInv
  <1>1. CASE UNCHANGED vars
    BY <1>1 DEF vars, OwedInv
  <1>2. CASE Decide
    <2>1. owed
      BY <1>2, DecideIs DEF FormInv, Finish, Skip, Begin, ghosts
    <2>2. Choice \in {"auto-deps", "generate", "fail_and_request_manual_merge"}
      BY <2>1, ChoiceIs, DecisionIs DEF OwedInv, FormInv, TypeInv, Choice
    <2>3. Then \in {"auto-deps", "generate", "fail_and_request_manual_merge"}
      BY <2>2, ChoiceIs DEF FormInv
    <2>4. CASE End("error") /\ UNCHANGED <<unit, untested, owed, edits, torn, settled>>
      BY <2>1, <2>4 DEF End, OwedInv
    <2>5. CASE Finish(Then)
      BY <2>1, <2>2, <2>5, FinishIs DEF OwedInv, Synced
    <2>6. CASE ~ Terminal(Then) /\ (Skip(Then) \/ Begin(Then))
      <3>1. ~ Skipped(Then) /\ Then \in {"auto-deps", "generate"}
        BY <2>3, <2>6 DEF Skipped, Terminal
      <3> QED BY <2>1, <2>6, <3>1 DEF Skip, Begin, OwedInv
    <2> QED BY <1>2, <2>4, <2>5, <2>6, DecideIs DEF FormInv
  <1>3. CASE Ops
    <2>1. PICK W, b, cost, next : Does(op, W, b, cost, next)
      BY <1>3, OpsWork
    <2>2. Works(op, W, b, cost, next) /\ Effect(op, W, b, cost, next) /\ NowHas(W)
      BY <2>1, WorkIs DEF Does
    <2>3. owed /\ ~ (op = "generate" /\ W # {})
      BY <2>2 DEF Works
    <2>4. Reading(unit')
      BY <2>2, <2>3, NextReading DEF OwedInv, NowHas, HasWritten
    <2> QED BY <2>2, <2>3, <2>4 DEF OwedInv, Works, Effect
  <1>4. CASE Clear
    <2>1. owed /\ op' = op /\ buffer' = buffer /\ pc = "clear" /\ result' = result
      BY <1>4 DEF Clear, ghosts
    <2>2. Reading(unit')
      <3>1. unit'.fp = unit.fp /\ unit'.have = unit.have /\ unit'.differs = unit.differs
        BY <1>4 DEF Clear, FormInv, TypeInv, Units
      <3> QED BY <2>1, <3>1, NextReading DEF OwedInv
    <2> QED BY <2>1, <2>2 DEF OwedInv
  <1>5. CASE Save
    <2>1. owed /\ pc = "save" /\ op \in Commands /\ unit' = Committed(unit, buffer)
          /\ unit \in Units /\ buffer \in Buffers
      BY <1>5 DEF Save, FormInv, TypeInv
    <2>2. Reading(unit')
      <3>1. CASE buffer.stamp
        <4>1. op = "auto-deps"
          BY <2>1, <3>1, InputsAssumption DEF OwedInv, Decisions
        <4>2. unit'.fp = [command |-> op, files |-> unit.have]
          BY <2>1, <3>1, CommittedIs
        <4> QED BY <4>1, <4>2 DEF Reading
      <3>2. CASE ~ buffer.stamp
        BY <2>1, <3>2, CommittedIs, NextReading DEF OwedInv
      <3> QED BY <3>1, <3>2
    <2>3. op' = None /\ pc' \notin {"clear", "save"} /\ result' # "success"
      BY <1>5, <2>1 DEF Save, End, OwedInv
    <2> QED BY <2>2, <2>3 DEF OwedInv
  <1>6. CASE OverBudget \/ Kill
    BY <1>6, InputsAssumption DEF OverBudget, Kill, End, OwedInv
  <1>7. CASE \E o \in Options : Start(o)
    BY <1>7, InputsAssumption DEF Start, OwedInv
  <1>8. ASSUME NEW a \in Editable, Edit(a)
        PROVE  OwedInv'
    <2>1. NowHas({a}) /\ unit'.have = unit.have
      BY <1>8, EditIs
    <2>2. Reading(unit')
      <3>1. CASE owed
        BY <2>1, <3>1, NextReading DEF OwedInv, NowHas, HasWritten
      <3>2. CASE ~ owed
        <4>1. a = "prompt" /\ (unit.fp # None => unit.fp.files \subseteq unit.have)
          BY <1>8, <3>2 DEF Edit
        <4> QED BY <2>1, <4>1 DEF Reading, NowHas, HasWritten
      <3> QED BY <3>1, <3>2
    <2>3. op' = None /\ result' = None /\ pc' \notin {"clear", "save"}
      BY <1>8 DEF Edit, Quiet, FormInv, TypeInv
    <2> QED BY <2>2, <2>3, InputsAssumption DEF OwedInv
  <1>9. CASE \E a \in Derived : Delete(a)
    BY <1>9 DEF Delete
  <1> QED BY <1>1, <1>2, <1>3, <1>4, <1>5, <1>6, <1>7, <1>8, <1>9 DEF Next, Loop, Ops

\* What differs from the fingerprint the user has edited, unless an operation ended
\* without its fingerprint, or has not ended.
Covered == \A a \in unit.differs : Side(a) \in edits
MergeInv ==
    ~ torn => /\ pc \in {"clear", "save"} => buffer.stamp \/ Covered
              /\ pc \notin {"clear", "save"} => Covered
              /\ result = "manual" => edits = {"prompt", "derived"}

LEMMA NextCovered ==
    ASSUME Covered, unit'.differs \subseteq unit.differs, edits \subseteq edits'
    PROVE  Covered'
  BY DEF Covered, Side

LEMMA InitMerge == Init => MergeInv
  BY InputsAssumption DEF Init, MergeInv, Covered, NoCommit, Commits

LEMMA NextMerge == FormInv /\ MergeInv /\ [Next]_vars => MergeInv'
  <1> SUFFICES ASSUME FormInv, MergeInv, [Next]_vars, ~ torn' PROVE MergeInv'
    BY DEF MergeInv
  <1>1. CASE UNCHANGED vars
    BY <1>1 DEF vars, MergeInv, Covered, Side
  <1>2. CASE Decide
    <2>1. pc = "decide" /\ result = None
      BY <1>2, DecideIs DEF FormInv, Shape, Running
    <2>2. CASE End("error") /\ UNCHANGED <<unit, untested, owed, edits, torn, settled>>
      BY <2>1, <2>2 DEF End, MergeInv, Covered, Side
    <2>3. CASE Finish(Then)
      <3>1. ~ torn /\ Covered /\ unit' = unit /\ edits' = edits
        BY <2>1, <2>3, FinishIs DEF MergeInv
      <3>2. Covered'
        BY <3>1, NextCovered
      <3>3. result' = "manual" => edits = {"prompt", "derived"}
        <4> SUFFICES ASSUME result' = "manual" PROVE edits = {"prompt", "derived"}
          OBVIOUS
        <4>1. "prompt" \in Changes(unit) /\ Changes(unit) # {"prompt"}
          BY <2>3, FinishIs, ChoiceIs, DecisionIs DEF FormInv, TypeInv, Choice
        <4>2. PICK a \in Changes(unit) : a # "prompt"
          BY <4>1
        <4>3. Side(a) \in edits /\ Side("prompt") \in edits
          BY <3>1, <4>1, <4>2 DEF Covered, Changes
        <4> QED BY <4>2, <4>3 DEF Side, FormInv, TypeInv
      <3> QED BY <2>3, <3>1, <3>2, <3>3, FinishIs DEF MergeInv
    <2>4. CASE Skip(Then)
      <3>1. unit'.differs = {}
        <4>1. SkipCommand[Then] \in Commands \cup SkipCommands
          BY <2>4 DEF Skip, Skipped, SkipCommand, SkipCommands
        <4> QED BY <2>4, <4>1, StampedIs DEF Skip, FormInv, TypeInv
      <3>2. Covered'
        BY <3>1 DEF Covered
      <3> QED BY <2>1, <2>4, <3>2, InputsAssumption DEF Skip, MergeInv
    <2>5. CASE Begin(Then)
      BY <2>1, <2>5, InputsAssumption DEF Begin, ghosts, MergeInv, Covered, Side
    <2> QED BY <1>2, <2>2, <2>3, <2>4, <2>5, DecideIs DEF FormInv
  <1>3. CASE Ops
    <2>1. PICK W, b, cost, next : Does(op, W, b, cost, next)
      BY <1>3, OpsWork
    <2>2. Works(op, W, b, cost, next) /\ Effect(op, W, b, cost, next) /\ NowHas(W)
      BY <2>1, WorkIs DEF Does
    <2>3. ~ torn /\ (W # {} => b.then = "loop") /\ pc = "work" /\ edits' = edits
          /\ buffer' = b /\ pc' \in {"clear", "save"} /\ result' = result
      BY <2>2 DEF Works, Effect
    <2>4. W = {} => Covered'
      <3>1. Covered /\ (W = {} => unit'.differs = unit.differs)
        BY <2>2, <2>3 DEF MergeInv, NowHas, HasWritten
      <3> QED BY <2>3, <3>1, NextCovered
    <2>5. W # {} => b.stamp
      BY <2>2, <2>3 DEF Effect
    <2> QED BY <2>3, <2>4, <2>5 DEF MergeInv
  <1>4. CASE Clear
    <2>1. unit'.differs = unit.differs
      BY <1>4 DEF Clear, FormInv, TypeInv, Units
    <2>2. ~ torn /\ pc = "clear" /\ pc' = "save" /\ buffer' = buffer /\ result' = result
          /\ edits' = edits
      BY <1>4 DEF Clear, ghosts
    <2>3. Covered => Covered'
      BY <2>1, <2>2, NextCovered
    <2> QED BY <2>2, <2>3 DEF MergeInv
  <1>5. CASE Save
    <2>1. pc = "save" /\ op \in Commands /\ unit' = Committed(unit, buffer)
          /\ unit \in Units /\ buffer \in Buffers /\ result = None
      BY <1>5 DEF Save, FormInv, TypeInv, Shape, Running
    <2>2. pc' \notin {"clear", "save"} /\ result' # "manual"
      BY <1>5, <2>1, InputsAssumption DEF Save, End
    <2>3. Covered'
      <3>1. CASE buffer.stamp
        BY <2>1, <3>1, CommittedIs DEF Covered
      <3>2. CASE ~ buffer.stamp
        <4>1. ~ torn /\ edits' = edits /\ unit'.differs = unit.differs
          BY <1>5, <2>1, <3>2, CommittedIs DEF Save
        <4> QED BY <2>1, <3>2, <4>1, NextCovered DEF MergeInv
      <3> QED BY <3>1, <3>2
    <2> QED BY <2>2, <2>3 DEF MergeInv
  <1>6. CASE OverBudget
    BY <1>6 DEF OverBudget, End, MergeInv, Covered, Side
  <1>7. CASE Kill
    <2>1. ~ torn /\ unit' = unit /\ edits' = edits /\ pc' = "idle" /\ result' = None
      BY <1>7, InputsAssumption DEF Kill, End
    <2>2. Covered
      BY <1>7, <2>1 DEF Kill, MergeInv
    <2>3. Covered'
      BY <2>1, <2>2, NextCovered
    <2> QED BY <2>1, <2>3, InputsAssumption DEF MergeInv
  <1>8. CASE \E o \in Options : Start(o)
    <2>1. ~ torn /\ unit' = unit /\ edits' = edits /\ pc = "idle" /\ pc' = "decide"
          /\ result' = None
      BY <1>8 DEF Start, Running
    <2>2. Covered'
      BY <2>1, NextCovered DEF MergeInv
    <2> QED BY <2>1, <2>2, InputsAssumption DEF MergeInv
  <1>9. ASSUME NEW a \in Editable, Edit(a)
        PROVE  MergeInv'
    <2>1. ~ torn /\ pc' = pc /\ pc \in {"idle", "decide"} /\ result' = None
          /\ edits' = edits \cup {Side(a)}
      BY <1>9 DEF Edit, Quiet
    <2>2. unit'.differs = unit.differs \cup {a}
      BY <1>9, EditIs DEF NowHas, HasWritten
    <2>3. Covered'
      BY <2>1, <2>2 DEF MergeInv, Covered, Side
    <2> QED BY <2>1, <2>3, InputsAssumption DEF MergeInv
  <1>10. ASSUME NEW a \in Derived, Delete(a)
         PROVE  MergeInv'
    <2>1. ~ torn /\ pc' = pc /\ pc = "idle" /\ result' = None /\ edits \subseteq edits'
      BY <1>10 DEF Delete, Running
    <2>2. unit'.differs \subseteq unit.differs
      BY <1>10 DEF Delete, FormInv, TypeInv, Units
    <2>3. Covered'
      BY <2>1, <2>2, NextCovered DEF MergeInv
    <2> QED BY <2>1, <2>3, InputsAssumption DEF MergeInv
  <1> QED BY <1>1, <1>2, <1>3, <1>4, <1>5, <1>6, <1>7, <1>8, <1>9, <1>10 DEF Next, Loop, Ops

\* The user's edits and the tool's own files are told apart, in both directions: no
\* fingerprint absorbs a prompt edit that no generate has read, and no run stops for a
\* manual merge over files the tool itself wrote and finished.
THEOREM EditsAreTold == Spec => []EditsAreSeen
  <1>1. OwedInv /\ MergeInv => EditsAreSeen
    BY DEF OwedInv, MergeInv, EditsAreSeen, PromptIsGenerated, MergeIsConflict
  <1>2. Spec => []OwedInv
    BY InitOwed, NextOwed, FormHolds, PTL DEF Spec
  <1>3. Spec => []MergeInv
    BY InitMerge, NextMerge, FormHolds, PTL DEF Spec
  <1> QED BY <1>1, <1>2, <1>3, PTL

(***************************************************************************)
(* Code that was not tested.                                               *)
(***************************************************************************)
\* What the decision has made sure of when the operation works.
Chosen == pc = "work" /\ op = "update" => "code" \in unit.differs

\* Where the code that was not tested is: under a fingerprint that does not claim a test,
\* or in the files of an operation whose fingerprint is still to be saved.
UntestedInv ==
    untested =>
        /\ pc \notin {"clear", "save"} => "code" \notin unit.differs
        /\ "code" \notin unit.differs => Guarded(unit)
        /\ pc \in {"clear", "save"} =>
             /\ "code" \in unit.differs => buffer.stamp /\ (pc = "clear" => op = "generate")
             /\ buffer.stamp /\ op \in TestDone => "test" \notin unit.have
        /\ ~ (result = "success" /\ Asks(opt) /\ Counted)

LEMMA InitUntested == Init => Chosen /\ UntestedInv
  BY InputsAssumption DEF Init, Chosen, UntestedInv

LEMMA NextChosen ==
    ASSUME FormInv, Chosen, [Next]_vars
    PROVE  Chosen'
  <1>1. CASE UNCHANGED vars
    BY <1>1 DEF vars, Chosen
  <1>2. CASE Decide
    <2>1. CASE pc' # "work"
      BY <2>1 DEF Chosen
    <2>2. CASE Begin(Then)
      <3>1. op' = Then /\ unit' = unit /\ unit \in Units /\ opt \in OptionRecords
        BY <2>2, ChoiceIs DEF Begin, FormInv, TypeInv
      <3>2. Then = "update" => "code" \in unit.differs
        BY <3>1, ChoiceIs, DecisionIs DEF FormInv, Choice
      <3> QED BY <3>1, <3>2 DEF Chosen
    <2> QED BY <1>2, <2>1, <2>2, DecideIs DEF FormInv, Skip, End, Finish, Decide
  <1>3. CASE Ops
    <2>1. pc' # "work"
      BY <1>3, OpsWork DEF Does, Works, Effect
    <2> QED BY <2>1 DEF Chosen
  <1>4. ASSUME \/ Clear \/ Save \/ OverBudget \/ Kill \/ (\E o \in Options : Start(o))
               \/ (\E a \in Editable : Edit(a)) \/ (\E a \in Derived : Delete(a))
        PROVE  pc' # "work"
    <2>1. CASE Clear \/ Save \/ OverBudget \/ Kill
      BY <2>1 DEF Clear, Save, OverBudget, Kill, End
    <2>2. CASE \E o \in Options : Start(o)
      BY <2>2 DEF Start
    <2>3. CASE \E a \in Editable : Edit(a)
      BY <2>3 DEF Edit, Quiet
    <2>4. CASE \E a \in Derived : Delete(a)
      BY <2>4 DEF Delete, Running
    <2> QED BY <1>4, <2>1, <2>2, <2>3, <2>4
  <1> QED BY <1>1, <1>2, <1>3, <1>4 DEF Next, Loop, Ops, Chosen

\* The code that was not tested stays where it is while only the files, and no test, change.
LEMMA UntestedRests ==
    ASSUME UntestedInv, untested, pc \notin {"clear", "save"} \/ "code" \notin unit.differs,
           untested' = untested, pc' \notin {"clear", "save"}, result' # "success",
           "code" \notin unit'.differs,
           unit'.fp # None /\ unit'.fp.command \in TestDone =>
              unit'.fp = unit.fp /\ ("test" \in unit'.have => "test" \in unit.have)
    PROVE  UntestedInv'
  <1>1. Guarded(unit)
    BY DEF UntestedInv
  <1>2. Guarded(unit')
    BY <1>1 DEF Guarded
  <1> QED BY <1>2 DEF UntestedInv, Guarded

LEMMA NextUntested ==
    ASSUME FormInv, Chosen, UntestedInv, [Next]_vars
    PROVE  UntestedInv'
  <1> SUFFICES ASSUME untested' PROVE UntestedInv'
    BY DEF UntestedInv
  <1>1. CASE UNCHANGED vars
    BY <1>1 DEF vars, UntestedInv, Guarded, Asks, Full, Counted
  <1>3. CASE Decide
    <2>1. untested /\ untested' = untested /\ pc = "decide" /\ "code" \notin unit.differs
          /\ Guarded(unit) /\ opt \in OptionRecords /\ opt \in Options
          /\ unit \in Units
      BY <1>3, DecideIs, ChoiceIs
         DEF FormInv, TypeInv, End, Finish, Skip, Begin, ghosts, UntestedInv
    <2>2. CASE UNCHANGED unit /\ pc' \notin {"clear", "save"} /\ result' # "success"
      BY <2>1, <2>2, UntestedRests
    <2>3. CASE Finish(Then)
      <3>1. pc' = "idle" /\ unit' = unit /\ opt' = opt
        BY <2>3, FinishIs
      <3>2. CASE Asks(opt) /\ Counted
        <4>1. ~ opt.skipTests /\ ~ opt.noExtend /\ (unit.report = None \/ unit.report.passed > 0)
          BY <3>2 DEF Asks, Full, Counted
        <4>2. Choice \notin {"all_synced", "nothing"}
          BY <2>1, <4>1, NotSynced DEF Choice
        <4>3. result' # "success"
          BY <2>3, <4>2, FinishIs DEF Synced
        <4> QED BY <2>2, <3>1, <4>3
      <3>3. CASE ~ (Asks(opt) /\ Counted)
        <4>1. Guarded(unit') /\ "code" \notin unit'.differs /\ ~ (Asks(opt) /\ Counted)'
          BY <2>1, <3>1, <3>3 DEF Asks, Full, Counted
        <4> QED BY <3>1, <4>1 DEF UntestedInv, Guarded
      <3> QED BY <3>2, <3>3
    <2>4. CASE Skip(Then)
      <3>1. SkipCommand[Then] \in SkipCommands
        BY <2>4 DEF Skip, Skipped, SkipCommand, SkipCommands
      <3>2. unit'.fp = [command |-> SkipCommand[Then], files |-> unit.have]
            /\ unit'.differs = {}
        BY <2>1, <2>4, <3>1, StampedIs DEF Skip
      <3>3. unit'.fp.command \notin TestDone
        BY <3>1, <3>2 DEF SkipCommands, TestDone
      <3>4. result' # "success"
        BY <2>1, <2>4, InputsAssumption DEF Skip, FormInv, Shape, Running
      <3>5. CASE Then = "crash"
        <4>1. buffer'.stamp = FALSE
          BY <2>4, <3>5 DEF Skip, Commits
        <4> QED BY <3>2, <3>3, <3>4, <4>1 DEF UntestedInv, Guarded
      <3>6. CASE Then # "crash"
        <4>1. pc' = "decide"
          BY <2>1, <2>4, <3>6 DEF Skip
        <4> QED BY <2>1, <3>2, <3>3, <3>4, <4>1, UntestedRests
      <3> QED BY <3>5, <3>6
    <2>5. CASE Begin(Then)
      BY <2>1, <2>2, <2>5, InputsAssumption DEF Begin, FormInv, Shape, Running
    <2> QED BY <1>3, <2>2, <2>3, <2>4, <2>5, DecideIs DEF FormInv, End
  <1>4. CASE Ops
    <2>1. PICK W, b, cost, next : Does(op, W, b, cost, next)
      BY <1>4, OpsWork
    <2>2. /\ NowHas(W) /\ Effect(op, W, b, cost, next) /\ Leaves(op, W, b, next)
          /\ buffer' = b /\ op' = op /\ opt' = opt /\ pc = "work" /\ pc' = next
          /\ pc' \in {"clear", "save"} /\ result' # "success"
      BY <2>1, WorkIs, InputsAssumption DEF Does, Works, Effect, FormInv, Shape, Running
    <2>4. CASE untested /\ "code" \notin W
      <3>1. "code" \notin unit.differs /\ Guarded(unit)
        BY <2>2, <2>4 DEF UntestedInv
      <3>2. "code" \notin unit'.differs
        BY <2>2, <2>4, <3>1 DEF NowHas, HasWritten
      <3>3. "test" \in unit'.have => "test" \in unit.have
        BY <2>2 DEF NowHas, HasWritten, Leaves
      <3>4. Guarded(unit')
        BY <2>2, <3>1, <3>3 DEF NowHas, HasWritten, Guarded
      <3>5. buffer'.stamp /\ op' \in TestDone => "test" \notin unit'.have
        BY <2>2, <3>1, <3>3 DEF Leaves, Chosen
      <3> QED BY <2>2, <3>2, <3>4, <3>5 DEF UntestedInv, Guarded
    <2>5. CASE ~ (untested /\ "code" \notin W)
      <3>1. /\ "code" \in W /\ b.stamp
            /\ \/ op = "generate" /\ next = "clear"
               \/ op \in {"crash", "verify"}
               \/ op = "fix" /\ "test" \notin unit.have
        BY <2>2, <2>5 DEF Leaves
      <3>2. "code" \in unit'.differs /\ ("test" \in unit'.have => "test" \in unit.have)
        BY <2>2, <3>1 DEF NowHas, HasWritten, Leaves
      <3>3. pc' = "clear" => op' = "generate"
        BY <2>2, <3>1 DEF Effect
      <3>5. op' \in TestDone => "test" \notin unit'.have
        BY <2>2, <3>1, <3>2 DEF TestDone
      <3> QED BY <2>2, <3>1, <3>2, <3>3, <3>5 DEF UntestedInv, Guarded
    <2> QED BY <2>4, <2>5
  <1>5. CASE Clear
    <2>1. /\ unit' = [unit EXCEPT !.report = None] /\ untested /\ pc = "clear" /\ pc' = "save"
          /\ buffer' = buffer /\ op' = op /\ result' # "success" /\ unit \in Units
      BY <1>5, InputsAssumption DEF Clear, ghosts, FormInv, TypeInv, Shape, Running
    <2>2. /\ unit'.report = None /\ unit'.fp = unit.fp /\ unit'.have = unit.have
          /\ unit'.differs = unit.differs
      BY <2>1 DEF Units
    <2> QED BY <2>1, <2>2 DEF UntestedInv, Guarded
  <1>6. CASE Save
    <2>1. op \in Commands /\ unit' = Committed(unit, buffer) /\ unit \in Units
          /\ buffer \in Buffers /\ pc = "save" /\ pc' \in {"idle", "decide"} /\ untested
          /\ result' # "success"
      BY <1>6, InputsAssumption DEF Save, End, FormInv, TypeInv, Shape, Running
    <2>3. CASE buffer.stamp
      <3>1. unit'.fp = [command |-> op, files |-> unit.have] /\ unit'.have = unit.have
            /\ unit'.differs = {}
        BY <2>1, <2>3, CommittedIs
      <3>2. Guarded(unit')
        BY <2>1, <2>3, <3>1 DEF UntestedInv, Guarded
      <3> QED BY <2>1, <3>1, <3>2 DEF UntestedInv, Guarded
    <2>4. CASE ~ buffer.stamp
      <3>1. unit'.fp = unit.fp /\ unit'.have = unit.have /\ unit'.differs = unit.differs
        BY <2>1, <2>4, CommittedIs
      <3>2. "code" \notin unit.differs /\ Guarded(unit)
        BY <2>1, <2>4 DEF UntestedInv
      <3>3. Guarded(unit')
        BY <3>1, <3>2 DEF Guarded
      <3> QED BY <2>1, <3>1, <3>2, <3>3 DEF UntestedInv, Guarded
    <2> QED BY <2>3, <2>4
  <1>7. CASE OverBudget
    BY <1>7, UntestedRests DEF OverBudget, End, UntestedInv
  <1>8. CASE Kill
    <2>1. untested /\ ~ (pc \in {"clear", "save"} /\ "code" \in unit.differs)
      BY <1>8 DEF Kill
    <2>2. unit' = unit /\ pc' = "idle" /\ result' = None
      BY <1>8, InputsAssumption DEF Kill, End
    <2>3. untested' = untested
      BY <1>8, <2>1 DEF Kill, FormInv, TypeInv
    <2> QED BY <2>1, <2>2, <2>3, UntestedRests, InputsAssumption DEF UntestedInv
  <1>9. CASE \E o \in Options : Start(o)
    BY <1>9, UntestedRests, InputsAssumption DEF Start, UntestedInv, Running
  <1>10. ASSUME NEW a \in Editable, Edit(a)
         PROVE  UntestedInv'
    <2>1. untested /\ a # "code" /\ pc \in {"idle", "decide"} /\ pc' = pc /\ result' = None
          /\ untested' = untested
      BY <1>10 DEF Edit, Quiet, FormInv, TypeInv
    <2>2. NowHas({a}) /\ unit'.have = unit.have
      BY <1>10, EditIs
    <2> QED BY <2>1, <2>2, UntestedRests, InputsAssumption DEF NowHas, HasWritten, UntestedInv
  <1>11. ASSUME NEW a \in Derived, Delete(a)
         PROVE  UntestedInv'
    <2>1. /\ untested /\ untested' = untested /\ pc = "idle" /\ pc' = pc /\ result' = None
      BY <1>11 DEF Delete, Running
    <2>2. /\ unit'.report = unit.report /\ unit'.fp = unit.fp
          /\ unit'.have \subseteq unit.have /\ unit'.differs \subseteq unit.differs
      BY <1>11 DEF Delete, FormInv, TypeInv, Units
    <2> QED BY <2>1, <2>2, UntestedRests, InputsAssumption DEF UntestedInv
  <1> QED BY <1>1, <1>3, <1>4, <1>5, <1>6, <1>7, <1>8, <1>9, <1>10, <1>11 DEF Next, Loop, Ops

\* A run that skips nothing and may extend the tests calls no code synced that the tests have
\* not run on since the tool wrote it, on a report that counts a passed test: whatever the
\* tests report, the user edits or deletes and the limits are.
THEOREM SuccessMeansTested == Spec => []SuccessIsTested
  <1>1. UntestedInv => SuccessIsTested
    BY DEF UntestedInv, SuccessIsTested
  <1>2. Init => FormInv /\ Chosen /\ UntestedInv
    BY InitForm, InitUntested
  <1>3. FormInv /\ Chosen /\ UntestedInv /\ [Next]_vars
           => (FormInv /\ Chosen /\ UntestedInv)'
    BY NextForm, NextChosen, NextUntested
  <1> QED BY <1>1, <1>2, <1>3, PTL DEF Spec

(***************************************************************************)
(* No loop is free for long.                                               *)
(***************************************************************************)
\* What is decided when there is nothing left to skip.
Ends(o) == {"all_synced", "nothing", "example", "auto-deps", "generate"}
              \cup (IF o.skipTests THEN {} ELSE {"test"})

\* A verify that is declined, for ever; the crashes in a row before a fix that wrote nothing,
\* and those after it.
Spins(u, o, h) ==
    h # <<>> /\ Last(h) = "verify" /\ "example" \notin u.have /\ Decision(u, o) = "verify"
CrashesFirst(f, h) == f \in 1..(MaxCrashes - 1) /\ InARow(h, "crash", f)
CrashesAgain(f, h) ==
    \E j \in 1..(MaxCrashes - 1) : InARow(h, "crash", j) /\ f <= MaxCrashes + j

\* The options under which there is no bound: no coverage is asked for.
Endless(o) == o.target = 0 /\ ~ o.skipTests
OnlyTestsSkipped(o) == o.skipTests /\ ~ o.skipVerify

\* The tests were generated and run, and nothing was written since.
Tested(u, o) ==
    /\ ~ o.skipTests /\ o.target > 0
    /\ u.fp # None /\ u.fp.command = "test" /\ u.fp.files = u.have /\ u.differs = {}
    /\ "test" \in u.have /\ u.report # None /\ u.report.test = "current"
\* When that is so for the first time, at the latest; and the crashes in a row after it,
\* of a unit that has no example to run.
TestedBy(o) == IF o.skipVerify THEN 3 ELSE MaxCrashes + 1
CrashesLast(u, f, h) ==
    /\ ~ ({"code", "example"} \subseteq u.have)
    /\ \E j \in 1..(MaxCrashes - 1) : InARow(h, "crash", j) /\ f <= MaxCrashes + 2 + j

\* An operation was skipped, and nothing was written since.
Skipping(u) ==
    u.fp # None /\ u.fp.command \in SkipCommands /\ u.fp.files = u.have /\ u.differs = {}

\* Between two operations of a unit u under options o, with the history h: f iterations cost
\* nothing, n of the last of them were fixes. Either the next one does not, as after an
\* auto-deps that wrote nothing; or the crashes and the fix are counted; or only so much was
\* left to skip; or the tests were run, and what follows is counted from there.
Rests(u, o, f, h, n) ==
    \/ f = 0 \/ Endless(o)
    \/ Decision(u, o) \in {"generate", "all_synced"} /\ f <= MaxFree - 1
    \/ /\ ~ o.skipVerify /\ ~ o.skipTests
       /\ \/ Spins(u, o, h)
          \/ CrashesFirst(f, h)
          \/ f <= MaxCrashes /\ n >= 1 /\ u.report # None
          \/ Decision(u, o) \in {"crash", "verify", "update"} /\ u.report # None
             /\ CrashesAgain(f, h)
          \/ Tested(u, o) /\ Decision(u, o) = "crash" /\ CrashesLast(u, f, h)
    \/ /\ o.skipVerify
       /\ \/ f = 1 /\ n >= 1 /\ u.report # None /\ ~ o.skipTests
          \/ f = 1 /\ Decision(u, o) = "crash"
          \/ f <= 2 /\ Decision(u, o) \in Ends(o)
    \/ /\ Tested(u, o)
       /\ f <= TestedBy(o) \/ (n >= 1 /\ f <= TestedBy(o) + 1)
    \/ /\ OnlyTestsSkipped(o) /\ Skipping(u)
       /\ \/ f = 1 /\ Decision(u, o) = "crash"
          \/ f <= 2 /\ Decision(u, o) \in Ends(o) \cup {"verify"}
          \/ Decision(u, o) = "verify" /\ h # <<>> /\ Last(h) = "verify"

\* The same while the operation p is at work.
AtWork(u, o, f, h, n, p) ==
    \/ Endless(o)
    \/ /\ p = "crash" =>
            /\ ~ o.skipVerify /\ ~ o.skipTests /\ Decision(u, o) = "crash"
            /\ \/ CrashesFirst(f, h)
               \/ u.report # None /\ CrashesAgain(f, h)
               \/ Tested(u, o) /\ CrashesLast(u, f, h)
       /\ p = "fix" => /\ Decision(u, o) = "fix" /\ ~ o.skipTests
                       /\ \/ n >= 1 \/ f <= IF o.skipVerify THEN 1 ELSE MaxCrashes
                          \/ Tested(u, o) /\ f <= TestedBy(o) + 1
       /\ p = "test" => ~ o.skipTests /\ f <= TestedBy(o)
       /\ p = "auto-deps" => f <= MaxFree - 1
       /\ p = "verify" => /\ Decision(u, o) = "verify" /\ h # <<>> /\ Last(h) = "verify"
                          /\ ~ o.skipVerify /\ ~ o.skipTests

FreeInv ==
    /\ free \in Nat /\ FreeRunsBounded
    /\ pc \in {"idle", "clear"} => free = 0
    /\ pc = "decide" => Rests(unit, opt, free, hist, noops)
    /\ pc = "work" => free >= 1 /\ AtWork(unit, opt, free, hist, noops, op)
    /\ pc = "save" => buffer.then = "error"
                      \/ Rests(Committed(unit, buffer), opt, free, hist, noops)

LEMMA AfterAutoDeps ==
    ASSUME NEW u \in Units, NEW o \in OptionRecords, u.fp # None, u.fp.command = "auto-deps"
    PROVE  Decision(u, o) = "generate"
  BY DEF Decision

\* What a decision for a fix or a crash rests on.
LEMMA FixIs ==
    ASSUME NEW u \in Units, NEW o \in OptionRecords, Decision(u, o) = "fix"
    PROVE  /\ u.fp # None /\ u.report # None /\ Signal(u, o, Effective(u, o)) = "fix"
  <1>1. FileState(u, o) # "fix"
    BY FileStateIs DEF Regenerate
  <1>2. ~ (u.fp # None /\ u.fp.command = "auto-deps")
    BY AfterAutoDeps
  <1> QED BY <1>1, <1>2 DEF Decision

LEMMA CrashIs ==
    ASSUME NEW u \in Units, NEW o \in OptionRecords, Decision(u, o) = "crash"
    PROVE  /\ u.fp # None /\ u.fp.command # "auto-deps" /\ "prompt" \notin u.differs
           /\ u.report = None \/ u.report.exit # 0
           /\ \/ u.report # None /\ Signal(u, o, Effective(u, o)) = "crash"
              \/ /\ u.report # None => Signal(u, o, Effective(u, o)) = None
                 /\ Missing(u, o) = {} /\ Changes(u) = {} /\ Progress(u, o) = "crash"
  <1> USE InputsAssumption
  <1>1. u.fp.command # "auto-deps" \/ u.fp = None
    BY AfterAutoDeps
  <1>2. CASE u.fp # None /\ u.report # None /\ Signal(u, o, Effective(u, o)) # None
    <2>1. Signal(u, o, Effective(u, o)) = "crash"
      BY <1>1, <1>2 DEF Decision
    <2>2. Effective(u, o) \in Reports /\ u.report \in Reports
      BY <1>2, EffectiveIs
    <2>3. "prompt" \notin Changes(u)
      BY <1>2, <2>1, <2>2, SignalIs
    <2>4. Effective(u, o).exit # 0
      <3>1. LowCoverage(u, o, Effective(u, o)) # "crash"
        BY DEF LowCoverage, OptionRecords
      <3>2. PICK r \in Reports : r = Effective(u, o)
        BY <2>2
      <3>3. r.failed > 0 \/ r.failed = 0
        BY DEF Reports
      <3>4. CASE u.fp.command = "crash" /\ ~ o.skipVerify
        <4>1. Signal(u, o, r) = IF r.exit # 0 THEN "crash" ELSE "verify"
          BY <2>3, <3>4 DEF Signal
        <4> QED BY <2>1, <3>2, <4>1
      <3>5. CASE ~ (u.fp.command = "crash" /\ ~ o.skipVerify)
        <4>1. r.failed > 0 => Signal(u, o, r) \in {"fix", "test"}
          BY <2>3, <3>5 DEF Signal
        <4>2. r.failed = 0 /\ Success(r) => Signal(u, o, r) \in {LowCoverage(u, o, r), None}
          BY <2>3, <3>5 DEF Signal
        <4>3. None # "crash"
          BY DEF Decisions, Commands
        <4> QED BY <2>1, <3>1, <3>2, <3>3, <4>1, <4>2, <4>3 DEF Success
      <3> QED BY <3>4, <3>5
    <2>5. u.report.exit # 0
      <3>1. u.report.failed \in Nat
        BY <2>2 DEF Reports
      <3> QED BY <1>2, <2>4, <3>1, EffectiveIs DEF OptionRecords
    <2> QED BY <1>1, <1>2, <2>1, <2>3, <2>5 DEF Changes
  <1>3. CASE ~ (u.fp # None /\ u.report # None /\ Signal(u, o, Effective(u, o)) # None)
    <2>1. FileState(u, o) = "crash"
      BY <1>1, <1>3 DEF Decision
    <2>2. u.fp # None
      BY <2>1 DEF FileState, Regenerate
    <2>3. Missing(u, o) = {}
      <3>1. Restore(u, o) # "crash"
        BY DEF Restore, Regenerate
      <3> QED BY <2>1, <2>2, <3>1 DEF FileState
    <2>4. Changes(u) = {}
      <3>1. AfterChange(u) # "crash"
        BY DEF AfterChange, Regenerate
      <3> QED BY <2>1, <2>2, <2>3, <3>1 DEF FileState
    <2>5. Progress(u, o) = "crash"
      BY <2>1, <2>2, <2>3, <2>4 DEF FileState
    <2>6. u.report = None \/ u.report.exit # 0
      BY <2>5 DEF Progress, Revalidate, BeforeTest, Regenerate, Success
    <2>7. "prompt" \notin u.differs
      BY <2>4 DEF Changes
    <2> QED BY <1>1, <1>3, <2>2, <2>3, <2>4, <2>5, <2>6, <2>7
  <1> QED BY <1>2, <1>3

\* A crash that wrote code or example and raised, with a report before it, goes on in kind.
LEMMA CrashAgain ==
    ASSUME NEW u \in Units, NEW o \in OptionRecords, NEW v \in Units,
           NEW W \in SUBSET {"code", "example"}, ~ o.skipVerify, ~ o.skipTests,
           Decision(u, o) = "crash", u.report # None, W # {}, W \subseteq u.have,
           v.have = u.have, v.fp = u.fp, v.differs = u.differs \cup W,
           SameRun(v.report, u.report)
    PROVE  Decision(v, o) \in {"crash", "verify", "update"}
  <1> USE InputsAssumption
  <1>1. u.fp # None /\ u.fp.command # "auto-deps" /\ "prompt" \notin Changes(v)
        /\ "prompt" \notin Changes(u)
    BY CrashIs DEF Changes
  <1>2. /\ v.report # None /\ Effective(v, o) = v.report /\ Effective(u, o) = u.report
        /\ v.report \in Reports /\ u.report \in Reports
        /\ v.report.exit = u.report.exit /\ v.report.passed = u.report.passed
        /\ v.report.failed = u.report.failed /\ v.report.coverage = u.report.coverage
    BY EffectiveIs DEF SameRun
  <1>3. Signal(v, o, v.report) = Signal(u, o, u.report)
    <2>1. RanBefore(v) <=> RanBefore(u)
      BY <1>2 DEF RanBefore
    <2>2. LowCoverage(v, o, v.report) = LowCoverage(u, o, u.report)
      BY <1>2 DEF LowCoverage, AllPass, Success
    <2>3. (AllPass(v.report) <=> AllPass(u.report)) /\ (Success(v.report) <=> Success(u.report))
      BY <1>2 DEF AllPass, Success
    <2> QED BY <1>1, <1>2, <2>1, <2>2, <2>3 DEF Signal
  <1>4. CASE Signal(u, o, u.report) = "crash"
    <2>1. None # "crash"
      BY DEF Decisions, Commands
    <2> QED BY <1>1, <1>2, <1>3, <1>4, <2>1 DEF Decision
  <1>5. CASE Signal(u, o, u.report) = None /\ Missing(u, o) = {} /\ Changes(u) = {}
    <2>1. Decision(v, o) = FileState(v, o)
      BY <1>1, <1>2, <1>3, <1>5 DEF Decision
    <2>2. Missing(v, o) = {}
      BY <1>5 DEF Missing
    <2>3. Changes(v) = W
      BY <1>5 DEF Changes
    <2>4. FileState(v, o) = AfterChange(v)
      BY <1>1, <2>2, <2>3 DEF FileState
    <2>5. AfterChange(v) \in {"update", "verify"}
      BY <2>3 DEF AfterChange
    <2> QED BY <2>1, <2>4, <2>5
  <1> QED BY <1>2, <1>4, <1>5, CrashIs

\* A crash that was fixed, or a report was made of, is followed by another or by a verify.
LEMMA AfterCrash ==
    ASSUME NEW u \in Units, NEW o \in OptionRecords, ~ o.skipVerify,
           u.fp # None, u.fp.command = "crash", "prompt" \notin u.differs, u.report # None
    PROVE  Decision(u, o) \in {"crash", "verify"}
  <1>1. "prompt" \notin Changes(u)
    BY DEF Changes
  <1>2. Signal(u, o, Effective(u, o)) \in {"crash", "verify"}
    BY <1>1 DEF Signal
  <1>3. Effective(u, o) \in Reports
    BY EffectiveIs
  <1>4. None \notin {"crash", "verify"}
    BY InputsAssumption DEF Decisions, Commands
  <1> QED BY <1>2, <1>4 DEF Decision

(***************************************************************************)
(* Where operations are skipped.                                           *)
(***************************************************************************)
\* Nothing changed, and the runtime signals say nothing.
LEMMA AfterSkip ==
    ASSUME NEW u \in Units, NEW o \in OptionRecords, o.skipVerify,
           u.fp # None, u.fp.command \in SkipCommands, u.differs = {}, u.fp.files = u.have,
           u.report # None => Signal(u, o, Effective(u, o)) = None
    PROVE  /\ Decision(u, o) \in Ends(o) \cup {"crash"}
           /\ u.report # None => Decision(u, o) \in Ends(o)
  <1>1. Decision(u, o) = FileState(u, o)
    BY DEF Decision, SkipCommands
  <1>2. Missing(u, o) = {} /\ Changes(u) = {}
    BY DEF Missing, Changes
  <1>3. FileState(u, o) = Progress(u, o)
    BY <1>2 DEF FileState
  <1>4. Regenerate(u) \in {"auto-deps", "generate"}
    BY DEF Regenerate
  <1>5. u.report # None /\ ~ o.skipTests => Success(u.report)
    <2> SUFFICES ASSUME u.report # None, ~ o.skipTests
                 PROVE  Success(u.report)
      OBVIOUS
    <2>1. Effective(u, o) = u.report /\ u.report \in Reports
      BY EffectiveIs
    <2> QED BY <2>1, SignalIs
  <1>6. CASE Complete(u, o)
    <2>1. Progress(u, o) = "nothing"
      BY <1>6 DEF Progress, Complete, Derived
    <2> QED BY <1>1, <1>3, <2>1 DEF Ends
  <1>7. CASE ~ Complete(u, o) /\ Derived \subseteq u.have
    <2>1. ~ o.skipTests
      BY <1>7 DEF Complete, Derived
    <2>2. Progress(u, o) = Revalidate(u, o)
      BY <1>7 DEF Progress, Derived
    <2>3. Revalidate(u, o) = IF u.report = None THEN "crash" ELSE "test"
      BY <1>5, <2>1 DEF Revalidate
    <2> QED BY <1>1, <1>3, <2>1, <2>2, <2>3 DEF Ends
  <1>8. CASE ~ Complete(u, o) /\ ~ (Derived \subseteq u.have)
    <2>1. Progress(u, o) \in {"example", "nothing", Regenerate(u)}
             \cup (IF o.skipTests THEN {} ELSE {"test"})
      BY <1>8 DEF Progress, Derived, BeforeTest
    <2> QED BY <1>1, <1>3, <1>4, <2>1 DEF Ends
  <1> QED BY <1>6, <1>7, <1>8

\* The signals do not look at the fingerprint once the tests are well.
LEMMA SameSignal ==
    ASSUME NEW u \in Units, NEW o \in OptionRecords, NEW v \in Units,
           u.fp # None, u.report # None, Signal(u, o, Effective(u, o)) = None,
           v.fp # None, v.fp.command \in SkipCommands, v.differs = {},
           SameRun(v.report, u.report)
    PROVE  v.report # None /\ Signal(v, o, Effective(v, o)) = None
  <1>1. /\ Effective(u, o) \in Reports /\ u.report \in Reports
        /\ Effective(v, o) \in Reports /\ v.report \in Reports /\ v.report # None
    BY EffectiveIs DEF SameRun
  <1>2. /\ Effective(v, o).failed = Effective(u, o).failed
        /\ Effective(v, o).passed = Effective(u, o).passed
        /\ Effective(v, o).exit = Effective(u, o).exit
        /\ Effective(v, o).coverage = Effective(u, o).coverage
    <2>1. u.report.failed \in Nat
      BY <1>1 DEF Reports
    <2> QED BY <1>1, <2>1, EffectiveIs DEF SameRun, OptionRecords
  <1>3. /\ Effective(u, o).failed = 0 /\ Success(Effective(u, o))
        /\ ~ (Effective(u, o).coverage < o.target)
    BY <1>1, SignalIs
  <1>4. /\ Effective(v, o).failed = 0 /\ Success(Effective(v, o))
        /\ ~ (Effective(v, o).coverage < o.target)
    BY <1>2, <1>3 DEF Success, AllPass
  <1>5. "prompt" \notin Changes(v) /\ v.fp.command # "crash"
    BY DEF Changes, SkipCommands
  <1>6. Signal(v, o, Effective(v, o)) = None
    BY <1>4, <1>5 DEF Signal
  <1> QED BY <1>1, <1>6

\* A verify, or a test, that is skipped.
LEMMA AfterSkippedVerify ==
    ASSUME NEW u \in Units, NEW o \in OptionRecords, o.skipVerify,
           \/ Decision(u, o) = "verify" \/ (Decision(u, o) = "test" /\ o.skipTests),
           NEW command \in SkipCommands
    PROVE  LET v == Stamped(u, command) IN
           /\ Decision(v, o) \in Ends(o) \cup {"crash"}
           /\ u.report # None => Decision(v, o) \in Ends(o)
  <1> USE InputsAssumption
  <1> DEFINE v == Stamped(u, command)
  <1>1. /\ v \in Units /\ v.have = u.have /\ v.differs = {} /\ v.fp.files = v.have
        /\ v.fp.command = command /\ v.fp # None /\ SameRun(v.report, u.report)
    <2>1. [command |-> command, files |-> u.have] \in Fingerprints
      BY DEF Fingerprints, Units
    <2> QED BY <2>1, StampedIs
  <1> HIDE DEF v
  <1>2. u.fp # None
    BY DEF Decision, FileState, Regenerate
  <1>3. u.report # None => Signal(u, o, Effective(u, o)) = None
    <2> SUFFICES ASSUME u.report # None, Signal(u, o, Effective(u, o)) # None
                 PROVE  FALSE
      OBVIOUS
    <2>1. Effective(u, o) \in Reports /\ (o.skipTests => Effective(u, o).failed = 0)
      BY EffectiveIs
    <2>2. Decision(u, o) = Signal(u, o, Effective(u, o))
      BY <1>2, AfterAutoDeps DEF Decision
    <2>3. Signal(u, o, Effective(u, o)) # "verify"
      <3>1. LowCoverage(u, o, Effective(u, o)) # "verify"
        BY DEF LowCoverage, OptionRecords
      <3>2. None # "verify"
        BY DEF Decisions, Commands
      <3> QED BY <2>1, <3>1, <3>2 DEF Signal, Regenerate, Reports
    <2>4. o.skipTests => Signal(u, o, Effective(u, o)) # "test"
      <3>1. o.skipTests => LowCoverage(u, o, Effective(u, o)) = "all_synced"
        BY DEF LowCoverage
      <3>2. None # "test"
        BY DEF Decisions, Commands
      <3> QED BY <2>1, <3>1, <3>2 DEF Signal, Regenerate, Reports
    <2> QED BY <2>2, <2>3, <2>4
  <1>4. v.report # None => Signal(v, o, Effective(v, o)) = None
    BY <1>1, <1>2, <1>3, SameSignal DEF SameRun
  <1>5. u.report = None <=> v.report = None
    BY <1>1 DEF SameRun
  <1> QED BY <1>1, <1>4, <1>5, AfterSkip DEF v

\* A crash that is skipped leaves a report of success.
LEMMA AfterSkippedCrash ==
    ASSUME NEW u \in Units, NEW o \in OptionRecords, o.skipVerify,
           u.fp # None, u.fp.command \in SkipCommands, u.differs = {}, u.fp.files = u.have,
           u.report # None, u.report.exit = 0, u.report.passed = 0, u.report.failed = 0
    PROVE  /\ Decision(u, o) \in Ends(o)
           /\ u.report.coverage < o.target => Decision(u, o) = "all_synced"
  <1> USE InputsAssumption
  <1>1. CASE Signal(u, o, Effective(u, o)) = None
    <2>1. ~ (u.report.coverage < o.target)
      BY <1>1, EffectiveIs, SignalIs
    <2> QED BY <1>1, <2>1, AfterSkip
  <1>2. CASE Signal(u, o, Effective(u, o)) # None
    <2>1. /\ Effective(u, o) \in Reports /\ Effective(u, o).failed = 0
          /\ Effective(u, o).passed = 0 /\ Effective(u, o).exit = 0
      BY EffectiveIs DEF OptionRecords
    <2>2. Decision(u, o) = Signal(u, o, Effective(u, o))
      BY <1>2 DEF Decision, SkipCommands
    <2>3. "prompt" \notin Changes(u) /\ u.fp.command # "crash"
      BY DEF Changes, SkipCommands
    <2>4. Signal(u, o, Effective(u, o)) = LowCoverage(u, o, Effective(u, o))
      BY <1>2, <2>1, <2>3 DEF Signal, Success
    <2>5. LowCoverage(u, o, Effective(u, o)) = "all_synced"
      BY <2>1 DEF LowCoverage, AllPass, Success, OptionRecords
    <2> QED BY <2>2, <2>4, <2>5 DEF Ends
  <1> QED BY <1>1, <1>2

\* A fix that is skipped is followed by a crash: the fingerprint does not say any more that
\* the example ran.
LEMMA AfterSkippedFix ==
    ASSUME NEW u \in Units, NEW o \in OptionRecords, o.skipVerify, o.skipTests,
           Decision(u, o) = "fix"
    PROVE  Decision(Stamped(u, "skip:fix"), o) = "crash"
  <1> USE InputsAssumption
  <1> DEFINE v == Stamped(u, "skip:fix")
  <1>1. /\ v \in Units /\ v.have = u.have /\ v.differs = {}
        /\ v.fp.command = "skip:fix" /\ v.fp # None /\ SameRun(v.report, u.report)
    <2>1. [command |-> "skip:fix", files |-> u.have] \in Fingerprints
      BY DEF Fingerprints, Units, SkipCommands
    <2> QED BY <2>1, StampedIs DEF SkipCommands
  <1> HIDE DEF v
  <1>2. u.fp # None /\ u.report # None /\ Signal(u, o, Effective(u, o)) = "fix"
    BY FixIs
  <1>3. /\ Effective(u, o) \in Reports /\ u.report \in Reports
        /\ Effective(v, o) \in Reports /\ v.report \in Reports /\ v.report # None
    BY <1>1, <1>2, EffectiveIs DEF SameRun
  <1>4. u.report.failed \in Nat /\ v.report.failed = u.report.failed
        /\ v.report.exit = u.report.exit /\ v.report.passed = u.report.passed
    BY <1>1, <1>2, <1>3 DEF SameRun, Reports
  <1>5. Effective(u, o).failed = 0 /\ Effective(v, o).failed = 0
        /\ Effective(v, o).exit = Effective(u, o).exit
        /\ Effective(v, o).passed = Effective(u, o).passed
    BY <1>1, <1>2, <1>3, <1>4, EffectiveIs
  <1>6. ~ Success(Effective(u, o))
    <2>1. LowCoverage(u, o, Effective(u, o)) = "all_synced"
      BY DEF LowCoverage
    <2>2. None # "fix"
      BY DEF Decisions, Commands
    <2> QED BY <1>2, <1>5, <2>1, <2>2 DEF Signal, Regenerate
  <1>7. ~ Success(Effective(v, o)) /\ v.report.exit # 0
    <2>1. ~ Success(Effective(v, o)) /\ Effective(v, o).exit # 0
      BY <1>5, <1>6 DEF Success, AllPass
    <2> QED BY <1>1, <1>3, <1>4, <2>1, EffectiveIs
  <1>8. ~ RanBefore(v) /\ "prompt" \notin Changes(v) /\ v.fp.command # "crash"
    BY <1>1, <1>7 DEF RanBefore, Changes
  <1>9. Signal(v, o, Effective(v, o)) = "crash"
    BY <1>5, <1>7, <1>8 DEF Signal
  <1>10. None # "crash"
    BY DEF Decisions, Commands
  <1> QED BY <1>1, <1>3, <1>9, <1>10 DEF Decision, v

\* A skip under options that skip the tests and not the verification: what is left to skip
\* is a crash, or a verify.
LEMMA AfterOnlySkip ==
    ASSUME NEW u \in Units, NEW o \in OptionRecords, OnlyTestsSkipped(o), Skipping(u)
    PROVE  /\ Decision(u, o) \in Ends(o) \cup {"crash", "verify"}
           /\ u.report # None /\ u.report.exit = 0 => Decision(u, o) # "crash"
  <1> USE InputsAssumption
  <1>1. o.skipTests /\ ~ o.skipVerify /\ u.fp # None /\ u.fp.command \in SkipCommands
        /\ Missing(u, o) = {} /\ Changes(u) = {}
    BY DEF OnlyTestsSkipped, Skipping, Missing, Changes
  <1>2. u.report # None /\ u.report.exit = 0 => Success(u.report)
    BY DEF Success
  <1>3. /\ FileState(u, o) \in Ends(o) \cup {"crash", "verify"}
        /\ u.report # None /\ u.report.exit = 0 => FileState(u, o) # "crash"
    <2>1. FileState(u, o) = Progress(u, o)
      BY <1>1 DEF FileState
    <2>2. Regenerate(u) \in {"auto-deps", "generate"}
      BY DEF Regenerate
    <2>3. ~ Complete(u, o)
      BY <1>1 DEF Complete, SkipCommands, VerifyDone
    <2>4. CASE Derived \subseteq u.have
      <3>1. Progress(u, o) = Revalidate(u, o)
        BY <2>3, <2>4 DEF Progress, Derived
      <3>2. Revalidate(u, o) \in {"crash", "verify"}
        BY <1>1 DEF Revalidate, SkipCommands, VerifyDone
      <3>3. u.report # None /\ u.report.exit = 0 => Revalidate(u, o) # "crash"
        BY <1>1, <1>2 DEF Revalidate
      <3> QED BY <2>1, <3>1, <3>2, <3>3
    <2>5. CASE ~ (Derived \subseteq u.have)
      <3>1. Progress(u, o) \in {"example", "nothing", Regenerate(u)}
        BY <1>1, <2>3, <2>5 DEF Progress, Derived
      <3> QED BY <2>1, <2>2, <3>1 DEF Ends
    <2> QED BY <2>4, <2>5
  <1>4. CASE u.report # None /\ Signal(u, o, Effective(u, o)) # None
    <2> DEFINE r == Effective(u, o)
    <2>1. /\ r \in Reports /\ u.report \in Reports /\ r.failed = 0
          /\ r.exit # 0 => u.report.exit # 0
      <3>1. u.report.failed \in Nat
        BY <1>4, EffectiveIs DEF Reports
      <3>2. u.report.failed = 0 \/ u.report.failed > 0
        BY <3>1
      <3> QED BY <1>1, <1>4, <3>2, EffectiveIs
    <2>2. Decision(u, o) = Signal(u, o, r)
      BY <1>1, <1>4 DEF Decision, SkipCommands
    <2> HIDE DEF r
    <2>3. "prompt" \notin Changes(u) /\ u.fp.command # "crash"
      BY <1>1 DEF SkipCommands
    <2>4. LowCoverage(u, o, r) = "all_synced"
      BY <1>1 DEF LowCoverage
    <2>5. CASE Success(r)
      <3>1. Signal(u, o, r) = "all_synced"
        BY <1>4, <2>1, <2>3, <2>4, <2>5 DEF Signal, r
      <3> QED BY <2>2, <3>1 DEF Ends
    <2>6. CASE ~ Success(r)
      <3>1. u.report.exit # 0
        BY <2>1, <2>6 DEF Success
      <3>2. ~ RanBefore(u)
        BY <1>1, <3>1 DEF RanBefore, SkipCommands
      <3>3. Signal(u, o, r) = "crash"
        BY <2>1, <2>3, <2>6, <3>2 DEF Signal
      <3> QED BY <2>2, <3>1, <3>3
    <2> QED BY <2>5, <2>6
  <1>5. CASE ~ (u.report # None /\ Signal(u, o, Effective(u, o)) # None)
    <2>1. Decision(u, o) = FileState(u, o)
      BY <1>1, <1>5 DEF Decision, SkipCommands
    <2> QED BY <1>3, <2>1
  <1> QED BY <1>4, <1>5

\* Such a verify is decided again when it was skipped.
LEMMA VerifyAgain ==
    ASSUME NEW u \in Units, NEW o \in OptionRecords, OnlyTestsSkipped(o), Skipping(u),
           Decision(u, o) = "verify"
    PROVE  Decision(Stamped(u, "skip:verify"), o) = "verify"
  <1> USE InputsAssumption
  <1> DEFINE v == Stamped(u, "skip:verify")
  <1>1. /\ v \in Units /\ v.have = u.have /\ v.differs = {} /\ v.fp.files = v.have
        /\ v.fp.command = "skip:verify" /\ v.fp # None /\ SameRun(v.report, u.report)
    <2>1. [command |-> "skip:verify", files |-> u.have] \in Fingerprints
      BY DEF Fingerprints, Units, SkipCommands
    <2> QED BY <2>1, StampedIs DEF SkipCommands
  <1> HIDE DEF v
  <1>2. o.skipTests /\ ~ o.skipVerify /\ u.fp # None /\ u.fp.command \in SkipCommands
        /\ Missing(u, o) = {} /\ Changes(u) = {}
    BY DEF OnlyTestsSkipped, Skipping, Missing, Changes
  <1>3. u.report # None => Signal(u, o, Effective(u, o)) = None
    <2> SUFFICES ASSUME u.report # None, Signal(u, o, Effective(u, o)) # None
                 PROVE  FALSE
      OBVIOUS
    <2>1. Signal(u, o, Effective(u, o)) = "verify"
      BY <1>2 DEF Decision, SkipCommands
    <2>2. Effective(u, o) \in Reports
      BY EffectiveIs
    <2> QED BY <1>2, <2>1, <2>2, SignalIs DEF SkipCommands
  <1>4. FileState(u, o) = "verify"
    BY <1>2, <1>3 DEF Decision, SkipCommands
  <1>5. Progress(u, o) = "verify"
    BY <1>2, <1>4 DEF FileState
  <1>6. Derived \subseteq u.have /\ u.report # None /\ Success(u.report)
    <2>1. Regenerate(u) # "verify"
      BY DEF Regenerate
    <2>2. Derived \subseteq u.have /\ Progress(u, o) = Revalidate(u, o)
      BY <1>2, <1>5, <2>1 DEF Progress, Derived
    <2> QED BY <1>2, <1>5, <2>2 DEF Revalidate
  <1>7. v.report # None /\ Signal(v, o, Effective(v, o)) = None
    BY <1>1, <1>2, <1>3, <1>6, SameSignal DEF SkipCommands
  <1>8. Success(v.report)
    BY <1>1, <1>6 DEF SameRun, Success, AllPass
  <1>9. Missing(v, o) = {} /\ Changes(v) = {}
    BY <1>1 DEF Missing, Changes
  <1>10. ~ Complete(v, o) /\ v.fp.command \notin VerifyDone
    BY <1>1, <1>2 DEF Complete, VerifyDone
  <1>11. FileState(v, o) = Revalidate(v, o)
    BY <1>1, <1>6, <1>9, <1>10 DEF FileState, Progress, Derived
  <1>12. Revalidate(v, o) = "verify"
    BY <1>2, <1>7, <1>8, <1>10 DEF Revalidate
  <1> QED BY <1>1, <1>7, <1>11, <1>12 DEF Decision, v

\* When the tests were generated and run they are not again, and nothing is verified; the
\* example is run only when it, or the code, is not there.
LEMMA AfterTest ==
    ASSUME NEW u \in Units, NEW o \in OptionRecords, Tested(u, o)
    PROVE  /\ Decision(u, o) \notin {"test", "verify", "update"}
           /\ Decision(u, o) = "crash" => ~ ({"code", "example"} \subseteq u.have)
  <1> USE InputsAssumption
  <1>1. /\ ~ o.skipTests /\ o.target \in Nat /\ o.target > 0 /\ u.fp # None
        /\ u.fp.command = "test" /\ u.fp.files = u.have /\ u.report # None
        /\ Missing(u, o) = {} /\ Changes(u) = {} /\ "test" \in u.have
        /\ u.report \in Reports /\ Effective(u, o) = u.report /\ Fresh(u)
    <2>1. Effective(u, o) = u.report /\ u.report \in Reports
      BY EffectiveIs DEF Tested
    <2> QED BY <2>1 DEF Tested, Missing, Changes, Fresh, OptionRecords
  <1> DEFINE r == u.report
             s == Signal(u, o, r)
  <1>2. Decision(u, o) = IF s # None THEN s ELSE FileState(u, o)
    BY <1>1 DEF Decision
  <1>3. r.failed \in Nat /\ r.coverage \in Nat
    BY <1>1 DEF Reports
  <1>4. "prompt" \notin Changes(u) /\ u.fp.command # "crash"
    BY <1>1
  <1>5. CASE r.failed > 0
    <2>1. s = "fix"
      BY <1>1, <1>4, <1>5 DEF Signal
    <2> QED BY <1>2, <2>1 DEF Decisions, Commands
  <1>6. CASE r.failed = 0 /\ ~ Success(r)
    <2>1. s = IF RanBefore(u) THEN "fix" ELSE "crash"
      BY <1>4, <1>6 DEF Signal
    <2>2. "example" \in u.have => RanBefore(u)
      BY <1>1 DEF RanBefore
    <2> QED BY <1>2, <2>1, <2>2 DEF Decisions, Commands
  <1>7. CASE r.failed = 0 /\ Success(r) /\ r.coverage < o.target
    <2>1. s = LowCoverage(u, o, r)
      BY <1>4, <1>7 DEF Signal
    <2>2. LowCoverage(u, o, r) \in {"all_synced", "generate", "test_extend"}
      BY <1>1, <1>7 DEF LowCoverage
    <2> QED BY <1>2, <2>1, <2>2 DEF Decisions, Commands
  <1>8. CASE r.failed = 0 /\ Success(r) /\ ~ (r.coverage < o.target)
    <2>1. s = None
      BY <1>4, <1>8 DEF Signal
    <2>2. Decision(u, o) = Progress(u, o)
      BY <1>1, <1>2, <2>1 DEF FileState
    <2>3. r.coverage # 0
      BY <1>1, <1>3, <1>8
    <2>4. {"code", "example"} \subseteq u.have => Complete(u, o)
      BY <1>1, <1>8, <2>3 DEF Complete, TestDone, VerifyDone
    <2>5. Progress(u, o) \in {"nothing", "example", Regenerate(u)}
      BY <1>1, <2>4 DEF Progress, Derived
    <2> QED BY <2>2, <2>5 DEF Regenerate
  <1> QED BY <1>3, <1>5, <1>6, <1>7, <1>8

(***************************************************************************)
(* The steps.                                                              *)
(***************************************************************************)
LEMMA InARowIs ==
    ASSUME NEW h \in Seq(Decisions), NEW c \in Decisions, NEW n \in Nat \ {0}
    PROVE  InARow(h, c, n) <=> /\ Len(h) >= n
                               /\ \A i \in (Len(h) - n + 1)..Len(h) : h[i] = c
  <1>1. CASE ~ (Len(h) >= n)
    BY <1>1 DEF InARow
  <1>2. CASE Len(h) >= n
    <2>1. \A i \in 1..n : Recent(h, n)[i] = h[Len(h) - n + i]
      BY <1>2 DEF Recent
    <2>2. \A i \in 1..n : Len(h) - n + i \in (Len(h) - n + 1)..Len(h)
      OBVIOUS
    <2>3. ASSUME NEW i \in (Len(h) - n + 1)..Len(h)
          PROVE  i - (Len(h) - n) \in 1..n /\ Len(h) - n + (i - (Len(h) - n)) = i
      OBVIOUS
    <2> QED BY <1>2, <2>1, <2>2, <2>3 DEF InARow
  <1> QED BY <1>1, <1>2

\* The decision is entered: the crashes in a row are one more, or none.
LEMMA HistoryIs ==
    ASSUME TypeInv
    PROVE  /\ History(Choice) \in Seq(Decisions) /\ History(Choice) # <<>>
           /\ Last(History(Choice)) = Choice /\ InARow(History(Choice), Choice, 1)
           /\ \A n \in 1..(MaxCrashes - 1) :
                 InARow(hist, Choice, n) => InARow(History(Choice), Choice, n + 1)
  <1> DEFINE h == hist
             c == Choice
             g == History(c)
  <1>1. h \in Seq(Decisions) /\ c \in Decisions /\ Len(h) \in Nat /\ Len(h) <= Keep
        /\ g \in Seq(Decisions) /\ Len(g) \in Nat
    <2>1. h \in Seq(Decisions) /\ g \in Seq(Decisions)
      BY ChoiceIs DEF TypeInv
    <2> QED BY <2>1, ChoiceIs DEF TypeInv
  <1>2. /\ Keep \in Nat /\ Keep >= 4 /\ Keep >= MaxCrashes /\ MaxCrashes \in Nat
        /\ MaxCrashes >= 1
    BY BoundsAre
  <1>3. /\ Len(g) >= 1 /\ g[Len(g)] = c /\ Len(h) <= Len(g) /\ Len(g) <= Len(h) + 1
        /\ Len(g) = Len(h) => Len(h) = Keep
        /\ \A i \in 1..Len(h) : i - 1 >= 1 /\ Len(g) = Len(h) => g[i - 1] = h[i]
        /\ \A i \in 1..Len(h) : Len(g) = Len(h) + 1 => g[i] = h[i]
    <2> HIDE DEF c, h
    <2>1. CASE Len(h) < Keep
      <3>1. g = Append(h, c)
        BY <2>1 DEF History, h
      <3> HIDE DEF g
      <3> QED BY <1>1, <2>1, <3>1
    <2>2. CASE Len(h) = Keep
      <3>1. g = Append(Tail(h), c) /\ h # <<>>
        BY <1>1, <1>2, <2>2 DEF History, h
      <3> HIDE DEF g
      <3>2. Tail(h) \in Seq(Decisions) /\ Len(Tail(h)) = Len(h) - 1
        BY <1>1, <3>1
      <3>3. \A i \in 1..Len(h) : i - 1 >= 1 => Tail(h)[i - 1] = h[i]
        BY <1>1, <3>1
      <3> QED BY <1>1, <1>2, <2>2, <3>1, <3>2, <3>3
    <2> QED BY <1>1, <1>2, <2>1, <2>2
  <1> HIDE DEF g, h, c
  <1>4. g # <<>> /\ Last(g) = c
    BY <1>1, <1>3 DEF Last
  <1>5. InARow(g, c, 1)
    <2>1. \A i \in (Len(g) - 1 + 1)..Len(g) : g[i] = c
      BY <1>1, <1>3
    <2> QED BY <1>1, <1>3, <2>1, InARowIs
  <1>6. ASSUME NEW n \in 1..(MaxCrashes - 1), InARow(h, c, n)
        PROVE  InARow(g, c, n + 1)
    <2>1. Len(h) >= n /\ \A i \in (Len(h) - n + 1)..Len(h) : h[i] = c
      BY <1>1, <1>2, <1>6, InARowIs
    <2>2. Len(g) >= n + 1
      BY <1>1, <1>2, <1>3, <2>1
    <2>3. ASSUME NEW i \in (Len(g) - (n + 1) + 1)..Len(g)
          PROVE  g[i] = c
      <3>1. CASE i = Len(g)
        BY <1>3, <3>1
      <3>2. CASE i # Len(g) /\ Len(g) = Len(h) + 1
        <4>1. i \in 1..Len(h) /\ i \in (Len(h) - n + 1)..Len(h)
          BY <1>1, <1>2, <2>1, <3>2
        <4> QED BY <1>3, <2>1, <3>2, <4>1
      <3>3. CASE i # Len(g) /\ Len(g) = Len(h)
        <4>1. i + 1 \in 1..Len(h) /\ (i + 1) - 1 = i /\ i >= 1
              /\ i + 1 \in (Len(h) - n + 1)..Len(h)
          BY <1>1, <1>2, <1>3, <2>2, <3>3
        <4> QED BY <1>3, <2>1, <3>3, <4>1
      <3> QED BY <1>1, <1>3, <3>1, <3>2, <3>3
    <2>4. n + 1 \in Nat \ {0}
      BY <1>2
    <2> QED BY <1>1, <2>2, <2>3, <2>4, InARowIs
  <1> QED BY <1>1, <1>4, <1>5, <1>6 DEF g, h, c

LEMMA RestsBounded ==
    ASSUME NEW u, NEW o, NEW f \in Nat, NEW h, NEW n, Rests(u, o, f, h, n), ~ Endless(o)
    PROVE  \/ f <= MaxFree - 1
           \/ ~ o.skipVerify /\ ~ o.skipTests /\ Spins(u, o, h)
           \/ OnlyTestsSkipped(o) /\ Decision(u, o) = "verify"
  <1>1. /\ MaxFree \in Nat /\ MaxFree >= 6 /\ MaxFree >= 2 * MaxCrashes + 2
        /\ MaxCrashes \in Nat /\ MaxCrashes >= 1
    BY BoundsAre
  <1>2. CrashesFirst(f, h) \/ CrashesAgain(f, h) \/ CrashesLast(u, f, h) => f <= MaxFree - 1
    BY <1>1 DEF CrashesFirst, CrashesAgain, CrashesLast
  <1>3. f <= TestedBy(o) + 1 \/ f <= MaxCrashes \/ f <= 2 => f <= MaxFree - 1
    BY <1>1 DEF TestedBy
  <1>4. f <= TestedBy(o) => f <= TestedBy(o) + 1
    BY <1>1 DEF TestedBy
  <1> QED BY <1>1, <1>2, <1>3, <1>4 DEF Rests

\* An operation begins.
LEMMA BeginFree ==
    ASSUME FormInv, FreeInv, ~ Endless(opt), Decide, Begin(Then),
           free' = free + 1, hist' = History(Choice)
    PROVE  AtWork(unit, opt, free', hist', noops, Then)
  <1> DEFINE d == Choice
             h == History(Choice)
  <1>1. /\ opt \in OptionRecords /\ d \in Decisions /\ Then \in {d, "generate"}
        /\ h # <<>> /\ Last(h) = d /\ d = Decision(unit, opt)
        /\ InARow(h, d, 1)
        /\ \A n \in 1..(MaxCrashes - 1) : InARow(hist, d, n) => InARow(h, d, n + 1)
    BY ChoiceIs, HistoryIs DEF FormInv, Choice
  <1>2. free \in Nat /\ noops \in 0..2 /\ Rests(unit, opt, free, hist, noops)
    BY DEF Decide, FreeInv, FormInv, Shape
  <1>3. /\ MaxFree \in Nat /\ MaxFree >= 6 /\ MaxFree >= 2 * MaxCrashes + 2
        /\ MaxCrashes \in Nat /\ MaxCrashes >= 1
    BY BoundsAre
  <1>4. ~ Skipped(Then)
    BY DEF Begin
  <1>5. Then = "crash" => ~ InARow(h, "crash", MaxCrashes)
    BY BoundsAre DEF Decide, Begin, Breaks, Choice, Then, Finish, End
  <1>t. Tested(unit, opt) => /\ d \notin {"test", "verify", "update"}
                             /\ d = "crash" => ~ ({"code", "example"} \subseteq unit.have)
    BY <1>1, AfterTest DEF FormInv, TypeInv
  <1>b. /\ TestedBy(opt) \in Nat /\ TestedBy(opt) >= 2 /\ TestedBy(opt) + 2 <= MaxFree - 1
        /\ ~ opt.skipVerify => TestedBy(opt) = MaxCrashes + 1
        /\ opt.skipVerify => TestedBy(opt) = 3
    BY <1>3 DEF TestedBy
  <1> HIDE DEF h, d
  <1>6. CASE Then = "crash"
    <2>1. d = "crash" /\ ~ opt.skipVerify /\ ~ opt.skipTests
      BY <1>1, <1>4, <1>6 DEF Skipped
    <2>2. 1 <= MaxCrashes - 1 /\ \A n \in 1..(MaxCrashes - 1) :
             InARow(hist, "crash", n) => n + 1 \in 1..(MaxCrashes - 1) /\ InARow(h, "crash", n + 1)
      BY <1>1, <1>3, <1>5, <1>6, <2>1
    <2>3. CASE free = 0
      BY <1>1, <2>1, <2>2, <2>3, <1>3, <1>6 DEF AtWork, CrashesFirst, h
    <2>4. CASE CrashesFirst(free, hist)
      <3>1. CrashesFirst(free + 1, h)
        BY <2>2, <2>4 DEF CrashesFirst
      <3> QED BY <1>1, <1>6, <2>1, <3>1 DEF AtWork, h
    <2>5. CASE free <= MaxCrashes /\ unit.report # None
      <3>1. CrashesAgain(free + 1, h)
        BY <1>1, <1>2, <1>3, <2>1, <2>2, <2>5 DEF CrashesAgain
      <3> QED BY <1>1, <1>6, <2>1, <2>5, <3>1 DEF AtWork, h
    <2>6. CASE unit.report # None /\ CrashesAgain(free, hist)
      <3>1. PICK j \in 1..(MaxCrashes - 1) : InARow(hist, "crash", j) /\ free <= MaxCrashes + j
        BY <2>6 DEF CrashesAgain
      <3>2. j + 1 \in 1..(MaxCrashes - 1) /\ InARow(h, "crash", j + 1)
            /\ free + 1 <= MaxCrashes + (j + 1)
        BY <1>2, <1>3, <2>2, <3>1
      <3>3. CrashesAgain(free + 1, h)
        BY <3>2 DEF CrashesAgain
      <3> QED BY <1>1, <1>6, <2>1, <2>6, <3>3 DEF AtWork, h
    <2>7. CASE Tested(unit, opt) /\ free <= MaxCrashes + 2
      <3>1. 1 \in 1..(MaxCrashes - 1) /\ InARow(h, "crash", 1) /\ free + 1 <= MaxCrashes + 2 + 1
        BY <1>1, <1>2, <1>3, <2>1, <2>2, <2>7
      <3>2. CrashesLast(unit, free + 1, h)
        BY <1>t, <2>1, <2>7, <3>1 DEF CrashesLast
      <3> QED BY <1>1, <1>6, <2>1, <2>7, <3>2 DEF AtWork, h
    <2>8. CASE Tested(unit, opt) /\ CrashesLast(unit, free, hist)
      <3>1. PICK j \in 1..(MaxCrashes - 1) :
                    InARow(hist, "crash", j) /\ free <= MaxCrashes + 2 + j
        BY <2>8 DEF CrashesLast
      <3>2. j + 1 \in 1..(MaxCrashes - 1) /\ InARow(h, "crash", j + 1)
            /\ free + 1 <= MaxCrashes + 2 + (j + 1)
        BY <1>2, <1>3, <2>2, <3>1
      <3>3. CrashesLast(unit, free + 1, h)
        BY <2>8, <3>2 DEF CrashesLast
      <3> QED BY <1>1, <1>6, <2>1, <2>8, <3>3 DEF AtWork, h
    <2>9. /\ free <= TestedBy(opt) \/ (noops >= 1 /\ free <= TestedBy(opt) + 1)
             => free <= MaxCrashes + 2
      BY <1>2, <1>3, <1>b, <2>1
    <2> QED BY <1>1, <1>2, <2>1, <2>3, <2>4, <2>5, <2>6, <2>7, <2>8, <2>9
            DEF Rests, Spins, OnlyTestsSkipped
  <1>7. CASE Then = "fix"
    <2>1. d = "fix" /\ ~ opt.skipTests
      BY <1>1, <1>4, <1>7 DEF Skipped
    <2>2. \/ noops >= 1 \/ free + 1 <= IF opt.skipVerify THEN 1 ELSE MaxCrashes
          \/ Tested(unit, opt) /\ free + 1 <= TestedBy(opt) + 1
      BY <1>1, <1>2, <1>3, <1>b, <2>1
         DEF Rests, Spins, CrashesFirst, Ends, OnlyTestsSkipped
    <2> QED BY <1>1, <1>7, <2>1, <2>2 DEF AtWork
  <1>8. CASE Then = "auto-deps"
    <2>1. free + 1 <= MaxFree - 1
      BY <1>1, <1>2, <1>3, <1>b, <1>8 DEF Rests, Spins, CrashesFirst
    <2> QED BY <1>8, <2>1 DEF AtWork
  <1>9. CASE Then = "verify"
    BY <1>1, <1>4, <1>9 DEF AtWork, Skipped, h
  <1>11. CASE Then = "test"
    <2>1. d = "test" /\ ~ opt.skipTests
      BY <1>1, <1>4, <1>11 DEF Skipped
    <2>2. free + 1 <= TestedBy(opt)
      BY <1>1, <1>2, <1>3, <1>b, <1>t, <2>1
         DEF Rests, Spins, CrashesFirst, OnlyTestsSkipped
    <2> QED BY <1>11, <2>1, <2>2 DEF AtWork
  <1>10. CASE Then \notin {"crash", "fix", "auto-deps", "verify", "test"}
    BY <1>10 DEF AtWork
  <1> QED BY <1>6, <1>7, <1>8, <1>9, <1>10, <1>11

\* What a skipped crash leaves.
LEMMA CrashSkipped ==
    ASSUME FormInv, Decide, Skip("crash")
    PROVE  \E v \in Units : /\ v = Committed(unit, buffer)' /\ Skipping(v)
                            /\ v.report # None /\ v.report.exit = 0 /\ v.report.passed = 0
                            /\ v.report.failed = 0 /\ v.report.coverage = 0
  <1> USE InputsAssumption
  <1>1. unit \in Units /\ unit' = Stamped(unit, "skip:crash") /\ op' = "crash"
    BY DEF FormInv, TypeInv, Skip, SkipCommand
  <1>2. PICK b \in Buffers : /\ b = buffer' /\ b.report = Report(0, 0, 0, 0, TestOnDisk)
                            /\ b.report # None /\ ~ b.stamp
    <2>1. Report(0, 0, 0, 0, TestOnDisk) \in Reports /\ Report(0, 0, 0, 0, TestOnDisk) # None
      BY ReportsAre DEF FormInv
    <2>2. buffer' = Commits(FALSE, Report(0, 0, 0, 0, TestOnDisk), FALSE, "loop")
      BY DEF Skip
    <2>3. ~ buffer'.stamp /\ buffer'.report = Report(0, 0, 0, 0, TestOnDisk)
      BY <2>2 DEF Commits
    <2>4. buffer' \in Buffers
      BY <2>1, <2>2, ConstantsAre
    <2> QED BY <2>1, <2>3, <2>4
  <1>3. /\ unit' \in Units /\ unit'.differs = {} /\ unit'.fp # None
        /\ unit'.fp.command = "skip:crash" /\ unit'.fp.files = unit'.have
    <2>1. [command |-> "skip:crash", files |-> unit.have] \in Fingerprints
      BY <1>1 DEF Fingerprints, Units, SkipCommands
    <2> QED BY <1>1, <2>1, StampedIs DEF SkipCommands
  <1>4. PICK v \in Units : /\ v = Committed(unit, buffer)'
                          /\ v.have = unit'.have /\ v.differs = unit'.differs
                          /\ v.fp = unit'.fp /\ SameRun(v.report, b.report)
    <2> DEFINE x == [unit' EXCEPT !.report = b.report]
    <2>1. x \in Units /\ x.have = unit'.have /\ x.differs = unit'.differs
          /\ x.fp = unit'.fp /\ x.report = b.report
      BY <1>2, <1>3 DEF Units, Buffers
    <2>2. Committed(unit, buffer)' = x
      BY <1>2, <1>3, Zenon DEF Committed
    <2>3. SameRun(b.report, b.report)
      BY <1>2 DEF SameRun
    <2> HIDE DEF x
    <2> QED BY <2>1, <2>2, <2>3
  <1>5. /\ v.report # None /\ v.report.exit = 0 /\ v.report.passed = 0
        /\ v.report.failed = 0 /\ v.report.coverage = 0
    BY <1>2, <1>4 DEF SameRun, Report
  <1> QED BY <1>3, <1>4, <1>5 DEF Skipping, SkipCommands

\* An operation is skipped where the verification is.
LEMMA SkipFree ==
    ASSUME FormInv, FreeInv, opt.skipVerify, ~ Endless(opt), Decide, Skip(Then), free' = free + 1
    PROVE  /\ free' <= MaxFree
           /\ pc' = "decide" => Rests(unit', opt, free', hist', noops')
           /\ pc' = "save" => Rests(Committed(unit, buffer)', opt, free', hist', noops')
           /\ pc' \in {"decide", "save"}
  <1> USE InputsAssumption
  <1>1. /\ opt \in OptionRecords /\ Choice \in Decisions /\ Then \in {Choice, "generate"}
        /\ Choice = Decision(unit, opt) /\ unit \in Units /\ pc = "decide"
    BY ChoiceIs DEF FormInv, TypeInv, Choice, Decide
  <1>2. free \in Nat /\ noops \in 0..2 /\ Rests(unit, opt, free, hist, noops)
    BY DEF Decide, FreeInv, FormInv, Shape
  <1>3. /\ MaxFree \in Nat /\ MaxFree >= 6
    BY BoundsAre
  <1>4. /\ Then \in {"crash", "verify", "test", "fix"}
        /\ Decision(unit, opt) = Then
        /\ Then \in {"test", "fix"} => opt.skipTests
        /\ unit' = Stamped(unit, SkipCommand[Then])
    BY <1>1 DEF Skip, Skipped
  <1>t. Tested(unit, opt) => ~ opt.skipTests /\ Then # "verify"
    BY <1>1, <1>4, AfterTest DEF Tested
  <1>5. CASE Then = "crash"
    <2>1. free + 1 <= 2 \/ (Tested(unit, opt) /\ free + 1 <= 5)
      BY <1>2, <1>4, <1>5 DEF Rests, Ends, OnlyTestsSkipped, TestedBy
    <2>2. PICK v \in Units : /\ v = Committed(unit, buffer)' /\ Skipping(v)
                            /\ v.report # None /\ v.report.exit = 0 /\ v.report.passed = 0
                            /\ v.report.failed = 0 /\ v.report.coverage = 0
      BY <1>5, CrashSkipped
    <2>3. /\ Decision(v, opt) \in Ends(opt)
          /\ Tested(unit, opt) => Decision(v, opt) = "all_synced"
      BY <1>1, <2>2, AfterSkippedCrash DEF Skipping, Tested
    <2>4. pc' = "save"
      BY <1>5 DEF Skip
    <2> QED BY <1>2, <1>3, <2>1, <2>2, <2>3, <2>4 DEF Rests
  <1>6. CASE Then \in {"verify", "test"}
    <2>1. SkipCommand[Then] \in SkipCommands
      BY <1>6 DEF SkipCommand, SkipCommands
    <2>2. /\ Decision(unit', opt) \in Ends(opt) \cup {"crash"}
          /\ unit.report # None => Decision(unit', opt) \in Ends(opt)
      <3> DEFINE w == Stamped(unit, SkipCommand[Then])
      <3>0. unit' = w
        BY <1>4
      <3>1. Decision(unit, opt) = "verify" \/ (Decision(unit, opt) = "test" /\ opt.skipTests)
        BY <1>4, <1>6
      <3>2. /\ Decision(w, opt) \in Ends(opt) \cup {"crash"}
            /\ unit.report # None => Decision(w, opt) \in Ends(opt)
        BY <1>1, <1>4, <2>1, <3>1, AfterSkippedVerify
      <3> HIDE DEF w
      <3> QED BY <3>0, <3>2
    <2>3. free = 0 \/ (free = 1 /\ unit.report # None)
      BY <1>2, <1>4, <1>6, <1>t DEF Rests, Ends, OnlyTestsSkipped
    <2>4. pc' = "decide"
      BY <1>1, <1>6 DEF Skip
    <2> QED BY <1>3, <1>4, <2>2, <2>3, <2>4 DEF Rests
  <1>7. CASE Then = "fix"
    <2>1. SkipCommand[Then] = "skip:fix"
      BY <1>7 DEF SkipCommand
    <2>2. Decision(unit', opt) = "crash"
      BY <1>1, <1>4, <1>7, <2>1, AfterSkippedFix
    <2>3. free = 0
      BY <1>2, <1>4, <1>7, <1>t DEF Rests, Ends, OnlyTestsSkipped
    <2>4. pc' = "decide"
      BY <1>1, <1>7 DEF Skip
    <2> QED BY <1>3, <1>4, <2>2, <2>3, <2>4 DEF Rests
  <1> QED BY <1>4, <1>5, <1>6, <1>7

\* And where only the tests are.
LEMMA OnlySkipFree ==
    ASSUME FormInv, FreeInv, OnlyTestsSkipped(opt), Decide, Skip(Then),
           Record(History(Choice), Then)
    PROVE  /\ free' \in Nat /\ (free' <= MaxFree \/ Spinning')
           /\ pc' = "decide" => Rests(unit', opt, free', hist', noops')
           /\ pc' = "save" => Rests(Committed(unit, buffer)', opt, free', hist', noops')
           /\ pc' \in {"decide", "save"}
  <1> USE InputsAssumption
  <1>1. /\ opt \in OptionRecords /\ Choice \in Decisions /\ Then \in {Choice, "generate"}
        /\ Choice = Decision(unit, opt) /\ unit \in Units /\ pc = "decide"
        /\ hist' = History(Choice) /\ opt' = opt
        /\ hist' # <<>> /\ Last(hist') = Choice
    BY ChoiceIs, HistoryIs DEF FormInv, TypeInv, Choice, Decide, Record, Skip
  <1>2. free \in Nat /\ Rests(unit, opt, free, hist, noops)
        /\ opt.skipTests /\ ~ opt.skipVerify
    BY DEF Decide, FreeInv, OnlyTestsSkipped
  <1>3. /\ MaxFree \in Nat /\ MaxFree >= 6
    BY BoundsAre
  <1>4. /\ Then \in {"crash", "verify", "test", "fix"}
        /\ Decision(unit, opt) = Then /\ SkipCommand[Then] \in SkipCommands
        /\ unit' = Stamped(unit, SkipCommand[Then])
    BY <1>1 DEF Skip, Skipped, SkipCommand, SkipCommands
  <1>5. free' \in Nat /\ (free <= MaxFree => free' = free + 1)
    BY <1>2, <1>3 DEF Record
  <1>6. \/ free = 0
        \/ Skipping(unit) /\ Then = "verify"
        \/ free = 1 /\ Then = "crash"
    BY <1>2, <1>4 DEF Rests, Ends, Tested, Endless
  <1>7. CASE Skipping(unit) /\ Then = "verify"
    <2>1. Decision(unit', opt) = "verify"
      BY <1>1, <1>4, <1>7, VerifyAgain DEF SkipCommand
    <2>2. Skipping(unit')
      <3>1. [command |-> "skip:verify", files |-> unit.have] \in Fingerprints
        BY <1>1 DEF Fingerprints, Units, SkipCommands
      <3> QED BY <1>1, <1>4, <1>7, <3>1, StampedIs DEF SkipCommand, SkipCommands, Skipping
    <2>3. pc' = "decide" /\ Last(hist') = "verify"
      BY <1>1, <1>4, <1>7 DEF Skip
    <2>4. Spinning'
      BY <1>1, <1>2, <2>3 DEF Spinning, Last
    <2> QED BY <1>1, <1>5, <2>1, <2>2, <2>3, <2>4 DEF Rests
  <1>8. CASE Then = "crash" /\ free \in {0, 1}
    <2>1. PICK v \in Units : /\ v = Committed(unit, buffer)' /\ Skipping(v)
                            /\ v.report # None /\ v.report.exit = 0 /\ v.report.passed = 0
                            /\ v.report.failed = 0 /\ v.report.coverage = 0
      BY <1>8, CrashSkipped
    <2>2. Decision(v, opt) \in Ends(opt) \cup {"verify"}
      BY <1>1, <2>1, AfterOnlySkip
    <2>3. pc' = "save" /\ free' <= 2
      BY <1>3, <1>5, <1>8 DEF Skip
    <2> QED BY <1>3, <1>5, <2>1, <2>2, <2>3 DEF Rests
  <1>9. CASE Then # "crash" /\ free = 0
    <2>1. unit' \in Units /\ Skipping(unit')
      <3>1. [command |-> SkipCommand[Then], files |-> unit.have] \in Fingerprints
        BY <1>1, <1>4 DEF Fingerprints, Units
      <3> DEFINE w == Stamped(unit, SkipCommand[Then])
      <3>2. /\ w \in Units /\ w.have = unit.have /\ w.differs = {}
            /\ w.fp = [command |-> SkipCommand[Then], files |-> unit.have]
        BY <1>1, <1>4, StampedIs
      <3> HIDE DEF w
      <3>3. w.fp # None
        BY <3>1, <3>2
      <3>4. unit' = w
        BY <1>4 DEF w
      <3> QED BY <1>4, <3>2, <3>3, <3>4 DEF Skipping
    <2>2. Decision(unit', opt) \in Ends(opt) \cup {"crash", "verify"}
      BY <1>1, <2>1, AfterOnlySkip
    <2>3. pc' = "decide" /\ free' = 1
      BY <1>1, <1>3, <1>5, <1>9 DEF Skip
    <2> QED BY <1>3, <1>5, <2>1, <2>2, <2>3 DEF Rests
  <1> QED BY <1>6, <1>7, <1>8, <1>9

LEMMA DecideFree ==
    ASSUME FormInv, FreeInv, Decide
    PROVE  FreeInv'
  <1>1. CASE pc' = "idle" /\ free' = 0
    BY <1>1, BoundsAre DEF FreeInv, FreeRunsBounded
  <1>2. CASE Record(History(Choice), Then) /\ (Skip(Then) \/ Begin(Then))
    <2>1. /\ free \in Nat /\ Rests(unit, opt, free, hist, noops)
          /\ hist' = History(Choice) /\ opt' = opt
          /\ hist' # <<>> /\ Last(hist') = Choice /\ hist' \in Seq(Decisions)
          /\ Choice = Decision(unit, opt) /\ Then \in {Choice, "generate"}
          /\ Choice \in Decisions /\ Len(hist') \in Nat
      <3>1. opt' = opt /\ hist' = History(Choice)
        BY <1>2 DEF Record, Skip, Begin
      <3>2. History(Choice) \in Seq(Decisions)
        BY HistoryIs DEF FormInv
      <3>3. Len(History(Choice)) \in Nat
        BY <3>2
      <3> QED BY <3>1, <3>2, <3>3, ChoiceIs, HistoryIs DEF Decide, FreeInv, FormInv, Choice
    <2>2. MaxFree \in Nat /\ MaxFree >= 6
      BY BoundsAre
    <2>3. opt \in OptionRecords
      BY InputsAssumption DEF FormInv, TypeInv
    <2>4. free' \in Nat /\ free' >= 1 /\ (free <= MaxFree => free' = free + 1)
      BY <1>2, <2>1, <2>2 DEF Record
    <2>5. Begin(Then) => pc' = "work" /\ op' = Then /\ unit' = unit /\ noops' = noops
      BY DEF Begin
    <2>6. Skip(Then) => pc' \in {"decide", "save"}
      BY <1>2, Zenon DEF Skip, Decide
    <2>7. CASE Endless(opt)
      <3>1. Endless(opt)' /\ Spinning'
        BY <2>1, <2>7 DEF Endless, Spinning
      <3> QED BY <1>2, <2>4, <2>5, <2>6, <3>1 DEF FreeInv, FreeRunsBounded, Rests, AtWork
    <2>8. CASE ~ Endless(opt) /\ free <= MaxFree - 1
      <3>1. free' = free + 1 /\ free' <= MaxFree
        BY <2>1, <2>2, <2>4, <2>8
      <3>2. CASE Begin(Then)
        <4>1. AtWork(unit, opt, free', hist', noops, Then)
          BY <2>1, <2>8, <3>1, <3>2, BeginFree
        <4> QED BY <2>1, <2>4, <2>5, <3>1, <3>2, <4>1 DEF FreeInv, FreeRunsBounded
      <3>3. CASE Skip(Then) /\ opt.skipVerify
        BY <2>1, <2>4, <2>8, <3>1, <3>3, SkipFree DEF FreeInv, FreeRunsBounded
      <3>4. CASE Skip(Then) /\ OnlyTestsSkipped(opt)
        BY <1>2, <2>1, <3>4, OnlySkipFree DEF FreeInv, FreeRunsBounded
      <3>5. Skip(Then) => opt.skipVerify \/ OnlyTestsSkipped(opt)
        BY DEF Skip, Skipped, OnlyTestsSkipped
      <3> QED BY <1>2, <3>2, <3>3, <3>4, <3>5
    <2>9. CASE ~ opt.skipVerify /\ ~ opt.skipTests /\ Spins(unit, opt, hist)
      <3>1. Choice = "verify" /\ "example" \notin unit.have
        BY <2>1, <2>9 DEF Spins
      <3>2. Begin(Then)
        BY <1>2, <2>1, <2>3, <2>9, <3>1 DEF Skip, Skipped
      <3>4. Spinning'
        BY <2>1, <2>5, <3>1, <3>2 DEF Spinning, Last
      <3>6. AtWork(unit', opt', free', hist', noops', op')
        BY <2>1, <2>5, <2>9, <3>1, <3>2 DEF AtWork
      <3> QED BY <2>4, <2>5, <3>2, <3>4, <3>6 DEF FreeInv, FreeRunsBounded
    <2>10. CASE OnlyTestsSkipped(opt) /\ Choice = "verify"
      <3>1. CASE Skip(Then)
        BY <1>2, <2>1, <2>10, <3>1, OnlySkipFree DEF FreeInv, FreeRunsBounded
      <3>2. CASE Begin(Then)
        <4>1. Then = "generate"
          BY <2>1, <2>10, <3>2 DEF Begin, Skipped, OnlyTestsSkipped
        <4>2. Spinning'
          BY <2>1, <2>10 DEF Spinning, Last, OnlyTestsSkipped
        <4>3. AtWork(unit', opt', free', hist', noops', op')
          BY <2>5, <3>2, <4>1 DEF AtWork
        <4> QED BY <2>4, <2>5, <3>2, <4>2, <4>3 DEF FreeInv, FreeRunsBounded
      <3> QED BY <1>2, <3>1, <3>2
    <2> QED BY <2>1, <2>7, <2>8, <2>9, <2>10, RestsBounded
  <1> QED BY <1>1, <1>2, DecideIs DEF FormInv, Finish, End

\* An operation that costs nothing.
Gratis(W, b) ==
    /\ Works(op, W, b, 0, "save") /\ W \in SUBSET Derived /\ b \in Buffers
    /\ \/ op = "auto-deps" /\ W = {} /\ b.stamp
       \/ op = "verify" /\ W = {} /\ ~ b.stamp /\ b.report = None /\ "example" \notin unit.have
       \/ /\ op = "fix" /\ W = {} /\ ~ b.stamp /\ (noops >= 1 => b.then = "error")
          /\ b.report # None => b.report \in Outcomes
       \/ /\ op = "test" /\ W \in SUBSET {"test"} /\ "test" \in unit.have \cup W
          /\ b.stamp /\ b.report \in Outcomes
       \/ /\ op = "crash" /\ W \in SUBSET {"code", "example"}
          /\ ~ ({"code", "example"} \subseteq unit.have) => W = {} /\ ~ b.stamp /\ b.report = None
          /\ \/ W = {} /\ ~ b.stamp /\ b.report = None
             \/ W \subseteq unit.have /\ b.stamp /\ b.report # None
             \/ W \subseteq unit.have /\ ~ b.stamp /\ b.report = None
             \/ W = {} /\ ~ b.stamp /\ (unit.report # None => unit.report.exit = 0)

LEMMA CrashGratis ==
    ASSUME FormInv, Crash, free' # 0
    PROVE  \E W, b : Gratis(W, b)
  <1> USE CommitsAre, ConstantsAre, ReportsAre DEF FormInv, Gratis
  <1>1. ASSUME NEW stamp \in BOOLEAN, NEW W \in SUBSET {"code", "example"},
               W \subseteq unit.have, W = {} \/ stamp, ExampleRuns(stamp, W),
               stamp \/ (unit.report # None => unit.report.exit = 0),
               {"code", "example"} \subseteq unit.have
        PROVE  \E w, b : Gratis(w, b)
    <2>1. PICK r \in Reports : /\ r # None
                              /\ Works("crash", W, Commits(stamp, r, FALSE, "loop"), 0, "save")
      <3>1. \A r \in Outcomes : r \in Reports /\ r # None
        OBVIOUS
      <3> QED BY <1>1, <3>1 DEF ExampleRuns
    <2>2. PICK b \in Buffers : /\ b = Commits(stamp, r, FALSE, "loop")
                              /\ (b.stamp <=> stamp) /\ b.report = r /\ b.then = "loop"
      <3>1. Commits(stamp, r, FALSE, "loop") \in Buffers
        OBVIOUS
      <3>2. /\ Commits(stamp, r, FALSE, "loop").stamp <=> stamp
            /\ Commits(stamp, r, FALSE, "loop").report = r
            /\ Commits(stamp, r, FALSE, "loop").then = "loop"
        BY DEF Commits
      <3> QED BY <3>1, <3>2
    <2>3. op = "crash" /\ Works(op, W, b, 0, "save")
      BY <2>1, <2>2 DEF Works
    <2>4. Gratis(W, b)
      BY <1>1, <2>1, <2>2, <2>3 DEF Derived
    <2> QED BY <2>4
  <1>2. CASE ~ ({"code", "example"} \subseteq unit.have)
    <2>1. Works("crash", {}, NoCommit, 0, "save")
      BY <1>2 DEF Crash
    <2>2. Gratis({}, NoCommit)
      BY <2>1 DEF Works
    <2> QED BY <2>2
  <1>3. CASE {"code", "example"} \subseteq unit.have
    <2>1. CASE (unit.report # None => unit.report.exit = 0) /\ ExampleRuns(FALSE, {})
      BY <1>1, <1>3, <2>1
    <2>2. CASE \E W \in {{"code"}, {"example"}} : ExampleRuns(TRUE, W)
      BY <1>1, <1>3, <2>2
    <2>3. ASSUME NEW W \in CodeOrExample, Works("crash", W, Raised, 0, "save")
          PROVE  \E w, b : Gratis(w, b)
      <3>1. Gratis(W, Raised)
        BY <1>3, <2>3 DEF Works, CodeOrExample, Derived
      <3> QED BY <3>1
    <2>4. CASE \E W, b : Works("crash", W, b, 1, "save")
      BY <2>4 DEF Works
    <2> QED BY <1>3, <2>1, <2>2, <2>3, <2>4 DEF Crash
  <1> QED BY <1>2, <1>3

LEMMA OpsFree ==
    ASSUME FormInv, Ops, free' # 0
    PROVE  \E W, b : Gratis(W, b)
  <1> USE CommitsAre, ConstantsAre DEF FormInv, Gratis
  <1>0. ASSUME NEW o, NEW W, NEW b, NEW next, Works(o, W, b, 1, next)
        PROVE  FALSE
    BY <1>0 DEF Works
  <1>1. CASE AutoDeps
    <2>1. Works("auto-deps", {}, Done, 0, "save")
      BY <1>1 DEF AutoDeps, Works
    <2>2. Gratis({}, Done)
      BY <2>1 DEF Works
    <2> QED BY <2>2
  <1>2. CASE Generate
    BY <1>2 DEF Generate, Works
  <1>3. CASE Example
    BY <1>3 DEF Example, Works
  <1>4. CASE Crash
    BY <1>4, CrashGratis
  <1>5. CASE Verify
    <2>1. "example" \notin unit.have /\ Works("verify", {}, NoCommit, 0, "save")
      BY <1>5 DEF Verify, Works
    <2>2. Gratis({}, NoCommit)
      BY <2>1 DEF Works
    <2> QED BY <2>2
  <1>6. CASE Test
    <2>1. PICK r \in Outcomes, W \in SUBSET {"test"} :
             /\ "test" \in unit.have \cup W
             /\ Works("test", W, Commits(TRUE, r, FALSE, "loop"), 0, "save")
      BY ONLY <1>0, <1>6 DEF Test
    <2>2. PICK b \in Buffers : /\ b = Commits(TRUE, r, FALSE, "loop")
                              /\ (b.stamp <=> TRUE) /\ b.report = r /\ b.then = "loop"
      <3>1. r \in Reports
        BY InputsAssumption
      <3> QED BY ONLY <3>1, CommitsIs
    <2>3. Works("test", W, b, 0, "save") /\ op = "test"
      BY <2>1, <2>2 DEF Works
    <2>4. Gratis(W, b)
      BY <2>1, <2>2, <2>3 DEF Derived
    <2> QED BY <2>4
  <1>7. CASE TestExtend
    BY ONLY <1>0, <1>7 DEF TestExtend
  <1>8. CASE Fix
    <2>1. CASE Works("fix", {}, Failed, 0, "save")
      <3>1. Gratis({}, Failed)
        BY <2>1 DEF Works
      <3> QED BY <3>1
    <2>2. CASE noops < 1 /\ Works("fix", {}, NoCommit, 0, "save")
      <3>1. Gratis({}, NoCommit)
        BY <2>2 DEF Works, Shape
      <3> QED BY <3>1
    <2>3. ASSUME NEW r \in Outcomes, noops < 1,
                 Works("fix", {}, Commits(FALSE, r, FALSE, "loop"), 0, "save")
          PROVE  \E W, b : Gratis(W, b)
      <3> DEFINE b == Commits(FALSE, r, FALSE, "loop")
      <3>1. b \in Buffers /\ ~ b.stamp /\ b.report = r
        BY ReportsAre DEF Commits
      <3> HIDE DEF b
      <3>2. Works("fix", {}, b, 0, "save")
        BY <2>3 DEF b
      <3>3. op = "fix"
        BY <3>2 DEF Works
      <3>4. Gratis({}, b)
        BY <2>3, <3>1, <3>2, <3>3 DEF Shape
      <3> QED BY <3>4
    <2>4. noops \in 0..2
      BY DEF Shape
    <2>5. CASE noops >= 1
      BY ONLY <1>0, <1>8, <2>1, <2>4, <2>5 DEF Fix
    <2>6. CASE noops < 1
      BY ONLY <1>0, <1>8, <2>1, <2>2, <2>3, <2>4, <2>6 DEF Fix
    <2> QED BY <2>4, <2>5, <2>6
  <1>9. CASE Update
    BY <1>9 DEF Update, Works
  <1> QED BY <1>1, <1>2, <1>3, <1>4, <1>5, <1>6, <1>7, <1>8, <1>9 DEF Ops

LEMMA NothingWritten ==
    ASSUME NEW u \in Units, NEW b \in Buffers, ~ b.stamp, b.report = None
    PROVE  Rewritten(u, {}, u.hasDeps) = u /\ Committed(u, b) = u
  <1>1. Written(u, {}) = u
    BY DEF Written, Units
  <1> QED BY <1>1 DEF Rewritten, Committed, Units

\* A report that is committed stays of the test file it is of.
LEMMA CommittedTest ==
    ASSUME NEW u \in Units, NEW b \in Buffers, b.report # None
    PROVE  Committed(u, b).report # None /\ Committed(u, b).report.test = b.report.test
  <1> DEFINE v == [u EXCEPT !.report = b.report]
             w == IF b.stamp THEN Stamped(v, op) ELSE v
  <1>1. b.report \in Reports /\ [b.report EXCEPT !.older = TRUE] \in Reports
    BY DEF Buffers, Reports
  <1>2. v \in Units /\ v.report = b.report
    BY <1>1 DEF Units
  <1>3. w.report \in {b.report, [b.report EXCEPT !.older = TRUE]}
    <2> HIDE DEF v
    <2>1. Stamped(v, op).report = [b.report EXCEPT !.older = TRUE]
      BY <1>2 DEF Stamped, Units
    <2> QED BY <1>2, <2>1
  <1>4. /\ b.report.test = [b.report EXCEPT !.older = TRUE].test
        /\ b.report # None /\ [b.report EXCEPT !.older = TRUE] # None
    BY <1>1, InputsAssumption DEF Reports
  <1>5. Committed(u, b) = IF b.late THEN [w EXCEPT !.report = b.report] ELSE w
    BY DEF Committed
  <1>6. [w EXCEPT !.report = b.report].report = b.report
    <2>1. w \in [{"have", "differs", "fp", "report", "hasDeps"} -> {w[f] : f \in {"have", "differs", "fp", "report", "hasDeps"}}]
      <3> HIDE DEF v
      <3> QED BY <1>2 DEF Stamped, Units
    <2> HIDE DEF w
    <2> QED BY <2>1
  <1> HIDE DEF v, w
  <1> QED BY <1>3, <1>4, <1>5, <1>6

\* What is decided after a crash that cost nothing, if a report was there before it.
LEMMA CrashGoesOn ==
    ASSUME FormInv, NEW W, NEW b, Gratis(W, b), op = "crash", ~ opt.skipVerify, ~ opt.skipTests,
           Decision(unit, opt) = "crash", unit.report # None
    PROVE  LET v == Committed(Rewritten(unit, W, unit.hasDeps), b) IN
           v.report # None /\ Decision(v, opt) \in {"crash", "verify", "update"}
  <1> DEFINE u == Rewritten(unit, W, unit.hasDeps)
             v == Committed(u, b)
  <1>1. /\ unit \in Units /\ opt \in OptionRecords /\ op \in Commands /\ unit.hasDeps \in BOOLEAN
        /\ W \in SUBSET (Derived \cup {"prompt"}) /\ W \in SUBSET {"code", "example"}
        /\ b \in Buffers
    <2>1. unit.hasDeps \in BOOLEAN
      BY Zenon DEF FormInv, TypeInv, Units
    <2> QED BY <2>1, InputsAssumption DEF FormInv, TypeInv, Gratis, Derived, Commands
  <1>2. /\ u \in Units /\ u.have = unit.have \cup (W \ {"prompt"})
        /\ u.differs = unit.differs \cup W /\ u.fp = unit.fp /\ SameRun(u.report, unit.report)
    <2>1. HasWritten(u, unit, W)
      BY ONLY <1>1, RewrittenIs
    <2> HIDE DEF u
    <2> QED BY ONLY <2>1 DEF HasWritten
  <1>3. /\ v \in Units /\ v.have = u.have
        /\ b.stamp => v.differs = {} /\ v.fp = [command |-> op, files |-> u.have]
        /\ ~ b.stamp => v.differs = u.differs /\ v.fp = u.fp
        /\ SameRun(v.report, IF b.report = None THEN u.report ELSE b.report)
    <2> HIDE DEF u
    <2> QED BY <1>1, <1>2, CommittedIs
  <1>4. /\ unit.fp # None /\ "prompt" \notin unit.differs /\ unit.report.exit # 0
    BY <1>1, CrashIs
  <1>5. CASE W = {} /\ ~ b.stamp /\ b.report = None
    <2>1. v = unit
      BY <1>1, <1>5, NothingWritten
    <2> QED BY <2>1
  <1> HIDE DEF u, v
  <1>6. CASE b.stamp /\ b.report # None
    <2>1. v.fp.command = "crash" /\ v.fp # None /\ "prompt" \notin v.differs /\ v.report # None
      <3>1. [command |-> op, files |-> u.have] \in Fingerprints
        BY <1>1, <1>2 DEF Fingerprints, Units
      <3>2. v.fp # None /\ v.fp.command = "crash"
        BY <1>3, <1>6, <3>1, InputsAssumption
      <3> QED BY <1>3, <1>6, <3>2 DEF SameRun
    <2>2. Decision(v, opt) \in {"crash", "verify"}
      BY <1>1, <1>3, <2>1, AfterCrash
    <2> QED BY <2>1, <2>2 DEF u, v
  <1>7. CASE W \subseteq unit.have /\ W # {} /\ ~ b.stamp /\ b.report = None
    <2>1. v.have = unit.have /\ v.fp = unit.fp /\ v.differs = unit.differs \cup W
      BY <1>1, <1>2, <1>3, <1>7
    <2>2. SameRun(v.report, unit.report) /\ v.report # None
      BY <1>2, <1>3, <1>7 DEF SameRun
    <2>3. Decision(v, opt) \in {"crash", "verify", "update"}
      BY <1>1, <1>3, <1>7, <2>1, <2>2, CrashAgain
    <2> QED BY <2>2, <2>3 DEF u, v
  <1> QED BY <1>4, <1>5, <1>6, <1>7 DEF Gratis, u, v

LEMMA WorkFree ==
    ASSUME FormInv, FreeInv, Ops
    PROVE  FreeInv'
  <1> USE InputsAssumption
  <1>1. CASE free' = 0
    <2>1. pc' \in {"clear", "save"}
      BY OpsWork DEF Does, Works, Effect
    <2> QED BY <1>1, <2>1, BoundsAre DEF FreeInv, FreeRunsBounded, Rests
  <1>2. CASE free' # 0
    <2>1. PICK W, b : Gratis(W, b)
      BY <1>2, OpsFree
    <2> DEFINE u == Rewritten(unit, W, unit.hasDeps)
               v == Committed(u, b)
    <2>2. /\ pc = "work" /\ pc' = "save" /\ buffer' = b /\ free' = free /\ opt' = opt
          /\ hist' = hist /\ op' = op /\ noops' = IF op = "fix" THEN noops + 1 ELSE 0
          /\ unit' = u
      BY <2>1 DEF Gratis, Works, Rewritten
    <2>3. /\ unit \in Units /\ opt \in OptionRecords /\ op \in Commands /\ unit.hasDeps \in BOOLEAN
          /\ W \in SUBSET (Derived \cup {"prompt"}) /\ W \in SUBSET Derived
          /\ b \in Buffers
      <3>1. unit.hasDeps \in BOOLEAN
        BY Zenon DEF FormInv, TypeInv, Units
      <3> QED BY <2>1, <3>1 DEF FormInv, TypeInv, Gratis, Derived, Commands, Works
    <2>4. /\ u \in Units /\ u.have = unit.have \cup (W \ {"prompt"})
          /\ u.fp = unit.fp /\ SameRun(u.report, unit.report) /\ u.differs = unit.differs \cup W
      <3>1. HasWritten(u, unit, W)
        BY ONLY <2>3, RewrittenIs
      <3> HIDE DEF u
      <3> QED BY ONLY <3>1 DEF HasWritten
    <2>5. /\ v \in Units /\ v.have = u.have
          /\ b.stamp => v.fp = [command |-> op, files |-> u.have] /\ v.differs = {}
          /\ ~ b.stamp => v.fp = u.fp /\ v.differs = u.differs
          /\ SameRun(v.report, IF b.report = None THEN u.report ELSE b.report)
      <3> HIDE DEF u
      <3> QED BY <2>3, <2>4, CommittedIs
    <2>6. Committed(unit, buffer)' = v
      <3> HIDE DEF u
      <3> QED BY <2>2 DEF Committed
    <2>7. /\ free \in Nat /\ free >= 1 /\ AtWork(unit, opt, free, hist, noops, op)
          /\ free <= MaxFree \/ Spinning
          /\ noops \in 0..2
      BY <2>2 DEF FreeInv, FreeRunsBounded, FormInv, Shape
    <2>8. b.report \in Outcomes =>
             b.report \in Reports /\ v.report # None /\ v.report.test = "current"
      <3> HIDE DEF u
      <3> QED BY <2>3, <2>4, CommittedTest
    <2>9. /\ MaxFree \in Nat /\ MaxFree >= 6 /\ MaxFree >= 2 * MaxCrashes + 2
          /\ MaxCrashes \in Nat /\ MaxCrashes >= 1
      BY BoundsAre
    <2>10. FreeRunsBounded'
      <3>0. CASE Endless(opt)
        BY <2>2, <3>0 DEF FreeRunsBounded, Spinning, Endless
      <3>1. CASE ~ Endless(opt) /\ op \in {"crash", "test"}
        <4>1. free <= MaxFree
          <5>1. CASE op = "crash"
            <6>1. CrashesFirst(free, hist) \/ CrashesAgain(free, hist) \/ CrashesLast(unit, free, hist)
              BY <2>7, <3>1, <5>1 DEF AtWork
            <6> QED BY <2>7, <2>9, <6>1 DEF CrashesFirst, CrashesAgain, CrashesLast
          <5>2. CASE op = "test"
            BY <2>7, <2>9, <3>1, <5>2 DEF AtWork, TestedBy
          <5> QED BY <3>1, <5>1, <5>2
        <4> QED BY <2>2, <4>1 DEF FreeRunsBounded
      <3>2. CASE W = {}
        <4>1. u.have = unit.have
          BY <2>4, <3>2
        <4> HIDE DEF u
        <4> QED BY <2>2, <2>7, <4>1 DEF FreeRunsBounded, Spinning
      <3> QED BY <2>1, <3>0, <3>1, <3>2 DEF Gratis
    <2>11. b.then = "error" \/ Rests(v, opt, free, hist, noops')
      <3>0. CASE Endless(opt)
        BY <3>0 DEF Rests
      <3> SUFFICES ASSUME ~ Endless(opt)
                   PROVE  b.then = "error" \/ Rests(v, opt, free, hist, noops')
        BY <3>0
      <3>1. CASE op = "auto-deps"
        <4>1. b.stamp
          BY <2>1, <3>1 DEF Gratis
        <4>2. [command |-> op, files |-> u.have] \in Fingerprints
          BY <2>3, <2>4 DEF Fingerprints, Units
        <4>3. v.fp # None /\ v.fp.command = "auto-deps"
          <5> HIDE DEF u, v
          <5> QED BY <2>5, <3>1, <4>1, <4>2
        <4>4. Decision(v, opt) = "generate"
          <5> HIDE DEF u, v
          <5> QED BY <2>3, <2>5, <4>3, AfterAutoDeps
        <4> QED BY <2>7, <3>1, <4>4 DEF Rests, AtWork
      <3>2. CASE op = "verify"
        <4>1. v = unit
          BY <2>1, <2>3, <3>2, NothingWritten DEF Gratis
        <4>2. Spins(unit, opt, hist) /\ ~ opt.skipVerify /\ ~ opt.skipTests
          BY <2>1, <2>7, <3>2 DEF Gratis, AtWork, Spins
        <4> QED BY <4>1, <4>2 DEF Rests
      <3>3. CASE op = "fix"
        <4>1. b.then = "error" \/ noops < 1
          BY <2>1, <2>7, <3>3 DEF Gratis
        <4>2. unit.report # None /\ ~ opt.skipTests
          BY <2>3, <2>7, <3>3, FixIs DEF AtWork
        <4>3. v.report # None
          <5> HIDE DEF u, v
          <5> QED BY <2>4, <2>5, <4>2 DEF SameRun
        <4>4. noops < 1 => \/ free <= IF opt.skipVerify THEN 1 ELSE MaxCrashes
                           \/ Tested(unit, opt) /\ free <= TestedBy(opt) + 1
          BY <2>7, <3>3 DEF AtWork
        <4>5. Tested(unit, opt) => Tested(v, opt)
          <5>1. CASE b.report = None
            <6>1. v = unit
              BY <2>1, <2>3, <3>3, <5>1, NothingWritten DEF Gratis
            <6> QED BY <6>1
          <5>2. CASE b.report # None
            <6>1. b.report \in Outcomes /\ W = {} /\ ~ b.stamp
              BY <2>1, <3>3, <5>2 DEF Gratis
            <6>2. v.have = unit.have /\ v.fp = unit.fp /\ v.differs = unit.differs
              <7> HIDE DEF u, v
              <7> QED BY <2>4, <2>5, <6>1
            <6> HIDE DEF u, v
            <6> QED BY <2>8, <6>1, <6>2 DEF Tested
          <5> QED BY <5>1, <5>2
        <4> HIDE DEF u, v
        <4> QED BY <2>2, <2>7, <3>3, <4>1, <4>2, <4>3, <4>4, <4>5 DEF Rests
      <3>5. CASE op = "test"
        <4>1. b.stamp /\ b.report \in Outcomes /\ "test" \in unit.have \cup W
          BY <2>1, <3>5 DEF Gratis
        <4>2. ~ opt.skipTests /\ free <= TestedBy(opt)
          BY <2>7, <3>5 DEF AtWork
        <4>3. opt.target > 0
          BY <2>3, <4>2 DEF Endless, OptionRecords
        <4>4. [command |-> op, files |-> u.have] \in Fingerprints
          BY <2>3, <2>4 DEF Fingerprints, Units
        <4> HIDE DEF u, v
        <4>5. v.fp # None /\ v.fp.command = "test" /\ v.fp.files = v.have /\ v.differs = {}
              /\ "test" \in v.have
          BY <2>4, <2>5, <3>5, <4>1, <4>4
        <4>6. Tested(v, opt)
          BY <2>8, <4>1, <4>2, <4>3, <4>5 DEF Tested
        <4> QED BY <4>2, <4>6 DEF Rests
      <3>4. CASE op = "crash"
        <4>1. ~ opt.skipVerify /\ ~ opt.skipTests /\ Decision(unit, opt) = "crash"
          BY <2>7, <3>4 DEF AtWork
        <4>2. CASE CrashesFirst(free, hist)
          BY <4>1, <4>2 DEF Rests
        <4>3. CASE unit.report # None /\ CrashesAgain(free, hist)
          <5>1. v.report # None /\ Decision(v, opt) \in {"crash", "verify", "update"}
            BY <2>1, <3>4, <4>1, <4>3, CrashGoesOn
          <5> HIDE DEF u, v
          <5> QED BY <4>1, <4>3, <5>1 DEF Rests
        <4>4. CASE Tested(unit, opt) /\ CrashesLast(unit, free, hist)
          <5>1. W = {} /\ ~ b.stamp /\ b.report = None
            BY <2>1, <3>4, <4>4 DEF Gratis, CrashesLast
          <5>2. v = unit
            BY <2>3, <5>1, NothingWritten
          <5> QED BY <4>1, <4>4, <5>2 DEF Rests
        <4> QED BY <2>7, <3>4, <4>2, <4>3, <4>4 DEF AtWork
      <3> QED BY <2>1, <3>1, <3>2, <3>3, <3>4, <3>5 DEF Gratis
    <2> HIDE DEF u, v
    <2> QED BY <2>2, <2>6, <2>7, <2>10, <2>11 DEF FreeInv
  <1> QED BY <1>1, <1>2

LEMMA NextFree ==
    ASSUME FormInv, FreeInv, [Next]_vars
    PROVE  FreeInv'
  <1>1. CASE pc' = "idle" /\ free' = 0
    BY <1>1, BoundsAre DEF FreeInv, FreeRunsBounded
  <1>2. CASE Decide
    BY <1>2, DecideFree
  <1>3. CASE Ops
    BY <1>3, WorkFree
  <1>4. CASE Save /\ pc' # "idle"
    <2>1. /\ buffer.then # "error" /\ pc = "save" /\ pc' = "decide"
          /\ unit' = Committed(unit, buffer) /\ opt' = opt /\ UNCHANGED counters
      BY <1>4 DEF Save, End
    <2>2. unit'.have = unit.have
      BY <2>1, CommittedIs DEF FormInv, TypeInv
    <2> QED BY <2>1, <2>2 DEF FreeInv, FreeRunsBounded, Spinning, counters
  <1>5. CASE \E a \in Editable : Edit(a)
    BY <1>5, BoundsAre DEF Edit, FreeInv, FreeRunsBounded, Rests, Quiet
  <1>6. CASE free' = 0 /\ pc' # "work"
    BY <1>6, BoundsAre DEF FreeInv, FreeRunsBounded, Rests
  <1>7. CASE UNCHANGED vars
    BY <1>7 DEF FreeInv, FreeRunsBounded, Spinning, vars, Rests, AtWork, Spins, Committed, Stamped
  <1>8. ASSUME Clear \/ (\E o \in Options : Start(o)) \/ (\E a \in Derived : Delete(a))
        PROVE  free' = 0 /\ pc' # "work"
    BY <1>8 DEF Clear, Start, Delete, Running, FreeInv, FormInv, TypeInv, counters, Places
  <1>9. ASSUME OverBudget \/ Kill \/ (Save /\ pc' = "idle")
        PROVE  pc' = "idle" /\ free' = 0
    BY <1>9 DEF OverBudget, Kill, Save, End
  <1> QED BY <1>1, <1>2, <1>3, <1>4, <1>5, <1>6, <1>7, <1>8, <1>9 DEF Next, Loop, Ops

LEMMA InitFree == Init => FreeInv
  BY BoundsAre DEF Init, FreeInv, FreeRunsBounded

\* Whatever the options are, the operations return, the user edits or deletes and the limits
\* are: a run makes at most MaxFree iterations without an operation that costs something,
\* except where it declines a verification for ever or asks for no coverage; and the state has
\* its form and bounds. About the breakers and the skips of sync_worker_logic.
THEOREM FreeRunsEnd == Spec => []Bounded
  <1>1. Init => FormInv /\ FreeInv
    BY InitForm, InitFree
  <1>2. FormInv /\ FreeInv /\ [Next]_vars => (FormInv /\ FreeInv)'
    BY NextForm, NextFree
  <1>3. FreeInv => FreeRunsBounded
    BY DEF FreeInv
  <1> QED BY <1>1, <1>2, <1>3, FormIsKept, PTL DEF Spec, Bounded

(***************************************************************************)
(* The lock: its objects.                                                  *)
(***************************************************************************)
\* Each process has two objects, and an object one process.
LEMMA ObjectsAre ==
    /\ \A p \in Procs, l \in Levels : <<p, l>> \in Objects /\ PidOf(<<p, l>>) = p
    /\ \A o \in Objects : /\ PidOf(o) \in Procs
                          /\ o = Outer(PidOf(o)) \/ o = Inner(PidOf(o))
    /\ \A p, q \in Procs : /\ Outer(p) \in Objects /\ Inner(p) \in Objects
                           /\ PidOf(Outer(p)) = p /\ PidOf(Inner(p)) = p
                           /\ Outer(p) # Inner(q)
                           /\ Outer(p) = Outer(q) => p = q
                           /\ Inner(p) = Inner(q) => p = q
  BY DEF Objects, Levels, PidOf, Outer, Inner

(***************************************************************************)
(* The lock: its inductive invariant.                                      *)
(***************************************************************************)

\* Only the living are at work, a nested call only under its outer lock.
Nested ==
    /\ \A o \in Objects : at[o] # "idle" => PidOf(o) \in alive
    /\ \A p \in Procs : at[Inner(p)] # "idle" => at[Outer(p)] = "held"

\* An outer lock has its descriptor: the outer acquire is never re-entrant,
\* because the file names a living process only while that one is not done.
Held ==
    /\ \A o \in Objects : at[o] \in {"flock", "write"} => fd[o] # Nil
    /\ \A p \in Procs : at[Outer(p)] = "held" => fd[Outer(p)] # Nil
    /\ name = Nil => text = Nil
    /\ \A p \in alive : text = p => at[Outer(p)] \in {"held", "remove"}

\* A nested call that goes on to lock has seen that the inode of the outer lock
\* lost its name, and it never gets the name back while it is open.
Apart ==
    \A p \in Procs :
        /\ at[Inner(p)] \in {"touch", "open"} => name # fd[Outer(p)]
        /\ fd[Inner(p)] # Nil => fd[Inner(p)] # fd[Outer(p)]

Left == name # Nil /\ alive = Procs => \E p \in Procs : at[Outer(p)] # "idle"

LockInv == LockTypeOK /\ Nested /\ Held /\ Apart /\ Left

LEMMA InitLock == LockInit => LockInv
  <1> SUFFICES ASSUME LockInit PROVE LockInv
    OBVIOUS
  <1>1. LockTypeOK
    BY DEF LockInit, LockTypeOK, States
  <1>2. Nested /\ Held /\ Apart /\ Left
    BY ObjectsAre, ConstantsAssumption DEF LockInit, Nested, Held, Apart, Left
  <1> QED BY <1>1, <1>2 DEF LockInv

LEMMA TargetIs ==
    ASSUME LockTypeOK
    PROVE  /\ Target \in Inodes
           /\ name # Nil => Target = name
           /\ name = Nil => \A o \in Objects : fd[o] # Target
  <1>1. fd \in [Objects -> Inodes \cup {Nil}]
    BY DEF LockTypeOK
  <1>2. \E i \in Inodes : i \notin {fd[o] : o \in Objects}
    BY <1>1, ConstantsAssumption
  <1>3. CASE name = Nil
    <2>1. \E i \in Inodes : i \notin InUse
      BY <1>2, <1>3, ConstantsAssumption DEF InUse
    <2>2. Target \in Inodes /\ Target \notin InUse
      BY <1>3, <2>1 DEF Target
    <2> QED BY <1>3, <2>2 DEF InUse
  <1>4. CASE name # Nil
    BY <1>4 DEF Target, LockTypeOK
  <1> QED BY <1>3, <1>4

(***************************************************************************)
(* The lock: the steps of one object.                                      *)
(***************************************************************************)
LEMMA StepType ==
    ASSUME LockInv, NEW o \in Objects, Call(o) \/ Step(o) \/ Unlock(o)
    PROVE  LockTypeOK'
  <1> USE DEF LockInv, LockTypeOK, Go, States
  <1>1. CASE Call(o)
    BY <1>1 DEF Call
  <1>2. CASE Exists(o)
    BY <1>2 DEF Exists
  <1>3. CASE Read(o)
    BY <1>3 DEF Read, AfterRead
  <1>4. CASE UnlinkStale(o)
    BY <1>4 DEF UnlinkStale
  <1>5. CASE Touch(o)
    BY <1>5, TargetIs DEF Touch
  <1>6. CASE Open(o)
    BY <1>6, TargetIs, ConstantsAssumption DEF Open
  <1>7. CASE Flock(o)
    BY <1>7 DEF Flock, Held
  <1>8. CASE WritePid(o)
    BY <1>8, ObjectsAre DEF WritePid
  <1>9. CASE CleanUp(o)
    BY <1>9 DEF CleanUp, Closed
  <1>10. CASE Unlock(o)
    BY <1>10 DEF Unlock, Closed
  <1>11. CASE RemoveFile(o)
    BY <1>11 DEF RemoveFile, LeftName
  <1> QED BY <1>1, <1>2, <1>3, <1>4, <1>5, <1>6, <1>7, <1>8, <1>9, <1>10, <1>11 DEF Step, Acquire

LEMMA StepNested ==
    ASSUME LockInv, NEW o \in Objects, PidOf(o) \in alive, Call(o) \/ Step(o) \/ Unlock(o)
    PROVE  Nested'
  <1> USE DEF LockInv, LockTypeOK, Go, Nested
  <1>1. alive' = alive /\ \A x \in Objects : x # o => at'[x] = at[x]
    BY DEF Call, Step, Acquire, Unlock, Exists, Read, UnlinkStale, Touch, Open, Flock, WritePid,
       CleanUp, RemoveFile
  <1>2. \A x \in Objects : at'[x] # "idle" => PidOf(x) \in alive'
    BY <1>1
  <1>3. ASSUME NEW p \in Procs, at'[Inner(p)] # "idle" PROVE at'[Outer(p)] = "held"
    <2>1. CASE o = Inner(p)
      <3>1. at[Inner(p)] # "idle" \/ Call(o)
        BY <2>1, ObjectsAre DEF Step, Acquire, Unlock, Exists, Read, UnlinkStale,
           Touch, Open, Flock, WritePid, CleanUp, RemoveFile
      <3>2. at[Outer(p)] = "held"
        BY <2>1, <3>1, ObjectsAre DEF Call, MayBegin
      <3> QED BY <1>1, <2>1, <3>2, ObjectsAre
    <2>2. CASE o = Outer(p)
      <3>1. at[Inner(p)] # "idle" /\ at[Outer(p)] = "held"
        BY <1>1, <1>3, <2>2, ObjectsAre
      <3>2. ~ Unlock(o) /\ ~ Call(o) /\ ~ Step(o)
        BY <2>2, <3>1, ObjectsAre DEF Unlock, MayRelease, Call, Step, Acquire, Exists, Read,
           UnlinkStale, Touch, Open, Flock, WritePid, CleanUp, RemoveFile
      <3> QED BY <3>2
    <2>3. CASE o # Inner(p) /\ o # Outer(p)
      BY <1>1, <1>3, <2>3, ObjectsAre
    <2> QED BY <2>1, <2>2, <2>3
  <1> QED BY <1>2, <1>3

\* An outer acquire does not find its own pid.
LEMMA OuterIsFirst ==
    ASSUME LockInv, NEW p \in Procs, p \in alive, at[Outer(p)] \notin {"held", "remove"}
    PROVE  text # p /\ at[Inner(p)] = "idle"
  BY DEF LockInv, Held, Nested

LEMMA StepHeld ==
    ASSUME LockInv, NEW o \in Objects, PidOf(o) \in alive, Call(o) \/ Step(o) \/ Unlock(o)
    PROVE  Held'
  <1> USE DEF LockInv, LockTypeOK, Go
  <1>1. alive' = alive /\ alive \subseteq Procs /\ \A x \in Objects : x # o => at'[x] = at[x]
    BY DEF Call, Step, Acquire, Unlock, Exists, Read, UnlinkStale, Touch, Open, Flock, WritePid,
       CleanUp, RemoveFile
  <1>2. /\ PidOf(o) \in Procs /\ (o = Outer(PidOf(o)) \/ o = Inner(PidOf(o)))
        /\ \A p \in Procs : Outer(p) \in Objects /\ PidOf(Outer(p)) = p
    BY ObjectsAre
  <1>3. Held
    OBVIOUS
  <1>4. CASE Call(o)
    <2>1. o = Outer(PidOf(o)) => text # PidOf(o)
      BY <1>4, OuterIsFirst DEF Call
    <2> QED BY <1>1, <1>2, <1>3, <1>4, <2>1 DEF Call, Held
  <1>5. CASE Exists(o)
    BY <1>1, <1>2, <1>3, <1>5 DEF Exists, Held
  <1>6. CASE Read(o)
    <2>1. o = Outer(PidOf(o)) => text # PidOf(o)
      BY <1>6, OuterIsFirst DEF Read
    <2>2. o = Outer(PidOf(o)) => at'[o] \in {"unlink", "fail"}
      BY <1>6, <2>1 DEF Read, AfterRead
    <2> QED BY <1>1, <1>2, <1>3, <1>6, <2>1, <2>2 DEF Read, AfterRead, Held
  <1>7. CASE UnlinkStale(o)
    BY <1>1, <1>2, <1>3, <1>7, ConstantsAssumption DEF UnlinkStale, Held
  <1>8. CASE Touch(o)
    BY <1>1, <1>2, <1>3, <1>8, TargetIs, ConstantsAssumption DEF Touch, Held
  <1>9. CASE Open(o)
    BY <1>1, <1>2, <1>3, <1>9, TargetIs, ConstantsAssumption DEF Open, Held
  <1>10. CASE Flock(o)
    BY <1>1, <1>2, <1>3, <1>10 DEF Flock, Held
  <1>11. CASE WritePid(o)
    <2>1. fd[o] # Nil /\ fd' = fd /\ name' = name
      BY <1>11 DEF WritePid, Held
    <2>2. name = Nil => text' = Nil
      BY <1>11, <2>1 DEF WritePid, Held
    <2>3. at'[Outer(PidOf(o))] = "held"
      BY <1>1, <1>2, <1>11 DEF WritePid, Nested
    <2> QED BY <1>1, <1>2, <1>3, <1>11, <2>1, <2>2, <2>3 DEF WritePid, Held
  <1>12. CASE CleanUp(o)
    BY <1>1, <1>2, <1>3, <1>12, ConstantsAssumption DEF CleanUp, Closed, Held
  <1>13. CASE Unlock(o)
    BY <1>1, <1>2, <1>3, <1>13 DEF Unlock, Closed, Held
  <1>14. CASE RemoveFile(o)
    BY <1>1, <1>2, <1>3, <1>14, ConstantsAssumption DEF RemoveFile, LeftName, Held
  <1> QED BY <1>4, <1>5, <1>6, <1>7, <1>8, <1>9, <1>10, <1>11, <1>12, <1>13, <1>14 DEF Step, Acquire

LEMMA StepApart ==
    ASSUME LockInv, NEW o \in Objects, PidOf(o) \in alive, Call(o) \/ Step(o) \/ Unlock(o)
    PROVE  Apart'
  <1> USE DEF LockInv, LockTypeOK, Go
  <1> SUFFICES ASSUME NEW p \in Procs
               PROVE  /\ at'[Inner(p)] \in {"touch", "open"} => name' # fd'[Outer(p)]
                      /\ fd'[Inner(p)] # Nil => fd'[Inner(p)] # fd'[Outer(p)]
    BY DEF Apart
  <1>1. \A x \in Objects : x # o => at'[x] = at[x] /\ fd'[x] = fd[x]
    BY DEF Call, Step, Acquire, Unlock, Exists, Read, UnlinkStale, Touch, Open, Flock, WritePid,
       CleanUp, RemoveFile, Closed
  <1>2. Inner(p) \in Objects /\ Outer(p) \in Objects /\ Inner(p) # Outer(p) /\ PidOf(Inner(p)) = p
    BY ObjectsAre
  <1>3. /\ at[Inner(p)] \in {"touch", "open"} => name # fd[Outer(p)]
        /\ fd[Inner(p)] # Nil => fd[Inner(p)] # fd[Outer(p)]
        /\ fd[Inner(p)] # Nil => at[Inner(p)] # "idle"
    BY <1>2 DEF Apart
  <1>4. at[Inner(p)] # "idle" => fd[Outer(p)] # Nil
    BY DEF Nested, Held
  <1>5. name' = name \/ name' = Nil \/ (name = Nil /\ \A x \in Objects : fd[x] # name')
    BY TargetIs DEF Call, Step, Acquire, Unlock, Exists, Read, UnlinkStale, Touch, Open, Flock,
       WritePid, CleanUp, RemoveFile, LeftName
  <1>6. CASE o # Inner(p) /\ o # Outer(p)
    BY <1>1, <1>2, <1>3, <1>4, <1>5, <1>6
  <1>7. CASE o = Outer(p)
    <2>1. at[Inner(p)] = "idle" /\ fd[Inner(p)] = Nil
      <3>1. at[Outer(p)] = "held" => Unlock(o) /\ at[Inner(p)] = "idle"
        BY <1>7, ObjectsAre DEF Unlock, MayRelease, Call, Step, Acquire, Exists, Read, UnlinkStale,
           Touch, Open, Flock, WritePid, CleanUp, RemoveFile
      <3> QED BY <1>3, <3>1 DEF Nested
    <2> QED BY <1>1, <1>2, <1>7, <2>1
  <1>8. CASE o = Inner(p)
    <2>1. fd'[Outer(p)] = fd[Outer(p)]
      BY <1>1, <1>2, <1>8
    <2>2. CASE Call(o) \/ Flock(o) \/ WritePid(o)
      BY <1>2, <1>3, <1>8, <2>1, <2>2 DEF Call, Flock, WritePid
    <2>3. CASE Exists(o)
      BY <1>2, <1>3, <1>4, <1>8, <2>1, <2>3 DEF Exists
    <2>4. CASE Read(o)
      BY <1>2, <1>3, <1>8, <2>1, <2>4 DEF Read, AfterRead
    <2>5. CASE UnlinkStale(o)
      BY <1>2, <1>3, <1>4, <1>8, <2>1, <2>5 DEF UnlinkStale
    <2>6. CASE Touch(o)
      BY <1>2, <1>3, <1>5, <1>4, <1>8, <2>1, <2>6, TargetIs DEF Touch
    <2>7. CASE Open(o)
      BY <1>2, <1>3, <1>5, <1>4, <1>8, <2>1, <2>7, TargetIs DEF Open
    <2>8. CASE CleanUp(o) \/ Unlock(o) \/ RemoveFile(o)
      BY <1>2, <1>3, <1>8, <2>1, <2>8 DEF CleanUp, Unlock, RemoveFile, Closed
    <2> QED BY <2>2, <2>3, <2>4, <2>5, <2>6, <2>7, <2>8 DEF Step, Acquire
  <1> QED BY <1>6, <1>7, <1>8

LEMMA StepLeft ==
    ASSUME LockInv, NEW o \in Objects, PidOf(o) \in alive, Call(o) \/ Step(o) \/ Unlock(o)
    PROVE  Left'
  <1> USE DEF LockInv, LockTypeOK, Go
  <1>1. alive' = alive /\ \A x \in Objects : x # o => at'[x] = at[x]
    BY DEF Call, Step, Acquire, Unlock, Exists, Read, UnlinkStale, Touch, Open, Flock, WritePid,
       CleanUp, RemoveFile
  <1>2. PidOf(o) \in Procs /\ Outer(PidOf(o)) \in Objects
        /\ (o = Outer(PidOf(o)) \/ o = Inner(PidOf(o)))
    BY ObjectsAre
  <1>3. CASE at'[Outer(PidOf(o))] # "idle"
    BY <1>2, <1>3 DEF Left
  <1>4. CASE at'[Outer(PidOf(o))] = "idle"
    <2>1. Nested'
      BY StepNested
    <2>2. CASE o = Outer(PidOf(o))
      <3>1. Unlock(o) => at'[o] = "remove"
        BY <2>2, <1>2 DEF Unlock, Held
      <3>2. CleanUp(o) \/ RemoveFile(o)
        BY <1>4, <2>2, <3>1 DEF Call, Step, Acquire, Exists, Read, AfterRead, UnlinkStale,
           Touch, Open, Flock, WritePid
      <3> QED BY <3>2 DEF CleanUp, RemoveFile, LeftName, Left
    <2>3. CASE o = Inner(PidOf(o)) /\ o # Outer(PidOf(o))
      <3>1. at[o] # "idle" \/ Call(o)
        BY DEF Step, Acquire, Unlock, Exists, Read, UnlinkStale, Touch, Open, Flock, WritePid,
           CleanUp, RemoveFile
      <3>2. at[Outer(PidOf(o))] = "held"
        BY <1>2, <2>3, <3>1 DEF Nested, Call, MayBegin
      <3> QED BY <1>1, <1>2, <1>4, <2>3, <3>2
    <2> QED BY <1>2, <2>2, <2>3
  <1> QED BY <1>3, <1>4

LEMMA DieLock ==
    ASSUME LockInv, NEW p \in Procs, Die(p)
    PROVE  LockInv'
  <1> USE DEF LockInv, LockTypeOK, Die
  <1>1. /\ alive' = alive \ {p} /\ p \in alive /\ name' = name /\ text' = text
        /\ \A o \in Objects :
              /\ PidOf(o) = p => at'[o] = "idle" /\ fd'[o] = Nil
              /\ PidOf(o) # p => at'[o] = at[o] /\ fd'[o] = fd[o]
    OBVIOUS
  <1>2. LockTypeOK'
    BY DEF States
  <1>3. Nested'
    BY <1>1, ObjectsAre DEF Nested
  <1>4. Held'
    BY <1>1, ObjectsAre DEF Held
  <1>5. Apart'
    BY <1>1, ObjectsAre DEF Apart
  <1>6. Left'
    BY <1>1 DEF Left
  <1> QED BY <1>2, <1>3, <1>4, <1>5, <1>6

LEMMA NextLock ==
    ASSUME LockInv, [LockNext]_lockVars
    PROVE  LockInv'
  <1>1. ASSUME NEW p \in alive, NEW l \in Levels,
               Call(<<p, l>>) \/ Step(<<p, l>>) \/ Unlock(<<p, l>>)
        PROVE  LockInv'
    <2>1. <<p, l>> \in Objects /\ PidOf(<<p, l>>) \in alive
      BY ObjectsAre DEF LockInv, LockTypeOK
    <2> QED BY <1>1, <2>1, StepType, StepNested, StepHeld, StepApart, StepLeft DEF LockInv
  <1>2. CASE UNCHANGED lockVars
    BY <1>2 DEF lockVars, LockInv, LockTypeOK, Nested, Held, Apart, Left
  <1> QED BY <1>1, <1>2, DieLock DEF LockNext

LEMMA NoRefusal ==
    ASSUME LockInv, [LockNext]_lockVars, NEW p \in Procs,
           at[Inner(p)] # "fail", at'[Inner(p)] = "fail"
    PROVE  \E q \in alive \ {p} : at[Outer(q)] # "idle"
  <1> USE DEF LockInv, LockTypeOK, Go
  <1>1. Inner(p) \in Objects /\ PidOf(Inner(p)) = p
    BY ObjectsAre
  <1>2. Read(Inner(p)) \/ Flock(Inner(p))
    <2>1. ASSUME NEW x \in Objects, Call(x) \/ Step(x) \/ Unlock(x), x # Inner(p)
          PROVE  at'[Inner(p)] = at[Inner(p)]
      BY <1>1, <2>1 DEF Call, Step, Acquire, Unlock, Exists, Read, UnlinkStale, Touch, Open, Flock,
         WritePid, CleanUp, RemoveFile
    <2>2. ASSUME NEW q \in Procs, Die(q) PROVE FALSE
      BY <1>1, <2>2 DEF Die
    <2>3. at' # at
      OBVIOUS
    <2>4. PICK x \in Objects : Call(x) \/ Step(x) \/ Unlock(x)
      BY <2>2, <2>3, ObjectsAre DEF LockNext, lockVars
    <2>5. x = Inner(p)
      BY <2>1, <2>4
    <2> QED BY <1>1, <2>4, <2>5 DEF Call, Step, Acquire, Unlock, Exists, UnlinkStale, Touch, Open,
        WritePid, CleanUp, RemoveFile
  <1>3. CASE Read(Inner(p))
    <2>1. text \in alive /\ text # p
      BY <1>1, <1>3 DEF Read, AfterRead
    <2> QED BY <2>1 DEF Held
  <1>4. CASE Flock(Inner(p))
    <2>1. PICK x \in locked : fd[x] = fd[Inner(p)]
      BY <1>1, <1>4 DEF Flock, Conflicts
    <2>2. x \in Objects /\ at[x] \in {"write", "held"}
          /\ at[Inner(p)] = "flock" /\ fd[Inner(p)] # Nil
      BY <1>1, <1>4 DEF Flock, Held
    <2>3. PidOf(x) \in Procs /\ PidOf(x) \in alive /\ (x = Outer(PidOf(x)) \/ x = Inner(PidOf(x)))
      BY <2>2, ObjectsAre DEF Nested
    <2>4. at[Outer(PidOf(x))] # "idle"
      BY <2>2, <2>3 DEF Nested
    <2>5. PidOf(x) # p
      BY <2>1, <2>2, <2>3 DEF Apart
    <2> QED BY <2>3, <2>4, <2>5
  <1> QED BY <1>2, <1>3, <1>4

(***************************************************************************)
(* The lock: the theorems.                                                 *)
(***************************************************************************)

\* Whatever is unlinked, truncated or created between, no call leaves a
\* descriptor or an flock, and no file names a living process that is done with
\* the lock.  About acquire, its handler and release.
THEOREM NothingIsLeft == LockSpec => []LeavesNothing
  <1>1. LockInv => LeavesNothing
    BY DEF LockInv, LockTypeOK, Held, Left, LeavesNothing, NoOrphanedName
  <1> QED BY InitLock, NextLock, <1>1, PTL DEF LockSpec

\* The acquire that every decision nests in the lock of its own sync is only
\* refused because of another process at work.  About acquire.
THEOREM NestingIsSafe == LockSpec => NeverRefusesItself
  <1>1. LockInv /\ [LockNext]_lockVars =>
          [\A p \in Procs : (at[Inner(p)] # "fail" /\ at'[Inner(p)] = "fail") =>
              \E q \in alive \ {p} : at[Outer(q)] # "idle"]_lockVars
    BY NoRefusal
  <1> QED BY InitLock, NextLock, <1>1, PTL DEF LockSpec, NeverRefusesItself
=============================================================================
