# TLA+ models of PDD

PDD keeps the prompt, code, example and tests of a module in step with the help
of language models. The quality of an edit is not something a model checker can
judge. What it can judge is the machinery around the edits: journaled writes to
a checkout that editors and other processes also write to, locks, a parallel
scheduler that is killed and resumed, checkpoints on a branch that others push
to, a decision that is taken again after every operation, loops that repair,
restore and report, a job server whose jobs are cancelled at any moment. These
modules model that machinery in `src/pdd`, check it with TLC and prove what
matters most with TLAPS.

Paths below are relative to `src/` unless they name a module or a `.cfg` file.
A language model or an agent is always an arbitrary choice: it may answer
anything its parser accepts, change any file it can reach, cost something, fail.

## The system

| Part | State it keeps | Operations | What is hard | What makes it correct |
|---|---|---|---|---|
| Transaction journal, `pdd/sync_core/transaction.py` | a journal with blobs per transaction, lock files, the destinations | `prepare`, `commit`, `recover` | crash between two writes, recovery beside a live commit, edits that take no lock, file operations that fail half way | COMMITTED means the whole set; a rollback leaves nothing; an outcome is final; foreign edits survive |
| Unit lock, `SyncLock` in `pdd/sync_determine_operation.py` | a lock file with a pid, an flock on its inode | `acquire` (re-entrant), `release` | unlink and create under another's feet, files of dead processes | one sync per unit; dead owners do not block; no process refuses itself |
| Operation decision, rest of that file | none, it reads hashes, reports and logs | `sync_determine_operation` | the tool's own writes look like the user's; an edit hides behind a saved fingerprint | a synced unit stays synced; an edit is acted upon |
| Sync loop, `pdd/sync_orchestration.py` | fingerprint and run report, committed as a pair | one pass per operation, `AtomicStateUpdate` | kill between the steps of an operation; loop breakers | success means tested; the loop ends |
| Issue runner, `pdd/agentic_sync_runner.py`, with the order from `pdd/sync_order.py` | module states, futures, budget, `.pdd/agentic_sync_state.json` | `run`, retries per module, save, resume | cycles, failures, budget, crash and resume, two kinds of runs on one file | dependencies first; nothing forgotten; progress kept; the report is true |
| Durable runner, `pdd/durable_sync_runner.py` | a branch, one worktree per module, checkpoint commits | the runner's, and checkpoint, push, resume from trailers | push that fails or whose answer is lost, commit half made | a module counts as done only if its work is on the branch |
| Fix loops, `pdd/fix_error_loop.py`, `pdd/fix_code_loop.py`, `pdd/fix_verification_errors_loop.py` | backups, best iteration, cost | bounded attempts, an agent at the end | restoring the best result after any exit | success is true of the files left; failure does no harm |
| Review loop, `pdd/checkup_review_loop.py` | findings, statuses of reviewers, pinned heads, a worktree | review, fix, guard, push, verify, report | others push meanwhile; reviewers and fixers fail and are replaced | the verdict is about the head the branch has; nobody verifies their own work |
| Job manager, `pdd/server/jobs.py` | jobs, tasks, permits, threads, children | `submit`, `cancel`, `shutdown` | cancellation races the thread, the child, the end | lifecycle, limit on children, one announcement, every job ends |
| Remote session, `pdd/remote_session.py` | the command it executes, those it fetched | poll, execute, cancel, update | lost and late answers, cancellation against completion | a command is executed once and reaches one true final status |
| Server routes, `pdd/server/routes/` | websocket subscriptions, the one process of `ProcessTracker` | HTTP and websocket handlers | subscriber of a job that ends at the same time | the client hears the end |
| Trust, `pdd/sync_core/trust.py` | replay ledger in an object store | `consume` | a retry after a lost answer | a nonce is used once |
| Issue orchestrators, `pdd/agentic_*_orchestrator.py` | step states in a file and a comment | step, save, resume | resume after a partial step | no step lost or done twice |
| Operation log, work items, command guard, token cache | one file each | append, allocate, save | unlocked read-modify-write | no lost entry |
| Manifest, verification, certificates, includes, architecture, contracts, generation | none of their own | functions over trees and documents | size, not order | their output as specified |

How they meet:

- `pdd sync` takes the unit lock in `sync_orchestration`, and every decision it
  asks for takes the same lock again inside. The pair of metadata files is
  committed through the transaction journal. Incomplete pairs are recovered
  *before* the lock is taken (`pdd/sync_orchestration.py:2203`), which is why
  the transaction is also modelled with a recovery that meets a live commit.
- The loop of `pdd sync` asks the decision what to do, calls a repair loop for
  `fix`, `crash` and `verify`, and saves the pair; the decision sees the rest of
  the system only through the files, the fingerprint and the run report.
- The issue runner starts one child `pdd sync` per module. The children share
  nothing but the checkout and the unit locks; the runner knows them by their
  exit and output. The durable runner is a subclass that puts each child in a
  worktree of its own and checkpoints after it.
- The server hands commands, among them `sync`, to children of the job manager.
  The remote session is a client of the server's HTTP interface: `RemoteSession`
  uses the job server at the level of its promise, `JobLifecycle`, which
  `JobManager` is proved to keep.
- The review loop works in a worktree on the branch of a pull request and meets
  everybody else there.
- `pdd recover --transaction` and the next sync call `recover`.

## Modules

| Module | Models | Composes |
|---|---|---|
| `Transaction`, `MCTransaction` | the journaled transaction; two transactions over two files for TLC | |
| `TransactionProofs` | theorems | `Transaction` |
| `SyncLock`, `MCSyncLock` | the unit lock, outer and nested use | |
| `SyncDecision` | the decision of the next operation, a function of the unit's state | |
| `SyncLoop`, `MCSyncLoop` | the loop around it: breakers, skips, effects, the pair, the user | `SyncDecision` |
| `SyncRunner`, `MCSyncRunner` | scheduler, workers, budget, state file, crash, resume | |
| `SyncRunnerProofs` | theorems | `SyncRunner` |
| `CheckpointLog` | what a durable sync promises of its branch (abstract) | |
| `DurableRunner`, `MCDurableRunner` | branches, worktrees, checkpoints, pushes, resume | `CheckpointLog`, as a refinement |
| `Repair` | what the three repair loops share | |
| `FixErrorLoop`, `FixCodeLoop`, `FixVerifyLoop` | one loop each | `Repair` |
| `MCRepair` | the three loops under one set of properties | the three, by INSTANCE |
| `ReviewLoop`, `MCReviewLoop` | the review loop of a pull request | |
| `JobLifecycle` | what the server promises of a job (abstract) | |
| `JobManager` | tasks, permits, threads, children | `JobLifecycle`, as a refinement |
| `JobManagerProofs` | theorems, the refinement among them | `JobManager` |
| `RemoteSession`, `MCRemoteSession` | polling task, cloud, network | `JobLifecycle`, as the server it drives |
| `DurableRunnerProofs` | theorems | `DurableRunner` |
| `ReviewLoopProofs` | theorems | `ReviewLoop` |
| `SyncProofs` | theorems, of the loop and of the lock it works under | `SyncLoop`, `SyncLock` |
| `RemoteSessionProofs` | theorems | `RemoteSession` |
| `RepairProofs` | theorems, of all three loops at once | `MCRepair` |

A definition called `...Mutant` is the definition that follows it with a
plausible bug; nothing uses it. It records which bug each property would find.
Properties that belong together are named parts of one: `TreesAreSound`, for
one, is the type invariant, `DepsInBase` and `TrailerIsOwn`.

### Transaction

`dest` is the checkout, `journal` the phase and installed flags in each
`journal.json`, `before` the preconditions in its entries, `bad` the blobs that
fail their digest, `holder` the lock files. Each process has a place `pc`, its
own copy `view` of the payload (the code writes that copy back, which is where
the trouble starts) and a loop index `k`. `unseen`, `author` and `misled` are
history: which destinations somebody else changed since a process, under its locks,
last read them; which transaction put there what is there; and what happened to a
transaction that its journal cannot show (`Causes`).

Every read, every journal write and every `os.replace` is a step of its own, in
the order of the code: `Scan`, `EntryRead`, `EntryBlob`, `Publish` are
`prepare`; `CommitRead`, `AcquireLock`, `LocksHeld`, `Validate`, `Precheck`,
`MarkCommitting`, `InstallCheck`, `Replace`, `Record`, `Verify`, `Finish` are
`commit`; `RecoverRead` and `Discard` are `recover`, which shares the steps
after the lock; `RestoreCheck`, `Undo`, `RollBack` are the rollback. `Edit`,
`Corrupt`, `Crash`, `ReplaceFails` and `UndoFails` are the environment: an
editor, storage, the kernel, and an `OSError` before or after the replacement.

A file's existence, digest and mode are one abstract value. Path aliases,
creation of directories and the schema of the journal are left out: they are
checked before a step the model has, and end it the way its failing branch does.

### SyncLock

The lock file is a name that may be unlinked and created again, so the model has
inodes: `name` is the inode the name has, `text` the pid in it, `fd` and
`locked` what each lock object has open and flocked. Each process has an outer
object (the sync) and an inner one (a decision taken during it). The handler
that unlinks the file after any `OSError` is `CleanUp`. A process stands for its
pid, so reuse of pids is outside the model. The specification is `LockSpec`, its
initial state and steps `LockInit` and `LockNext`: `SyncProofs` extends this module
and the loop's, which has the plain names.

### SyncDecision and SyncLoop

`Decision(u, o)` is `_perform_sync_analysis` for a Python unit whose prompt
exists: first the runtime signals of the last run report (`Signal`,
`LowCoverage`), then the state of the files (`Restore`, `Progress`,
`AfterChange`). A unit is what the decision reads of it: which files are there,
which differ from the fingerprint, the fingerprint's command and files, and the
report. As a test of the translation, the function was compared with the
repository's own on 355,608 random units and options laid out as real files; the two agreed on
every one.

`SyncLoop` runs it as `sync_worker_logic` does. `Decide` is one iteration up to
the operation: the breakers over the end of `operation_history`, the terminal
decisions, the skips (which save a fingerprint named `skip:...`), the start.
One action per operation says which files it may write, what it costs, what
report it makes and what it buffers; `Clear` drops the run report; `Save` commits
the buffered pair or ends the run. Between any two steps the run may be killed
(`Kill`), between iterations the user may edit (`Edit`) and between runs delete
(`Delete`). `untested`, `owed`, `edits`, `torn`, `settled` and `free` are history.

### SyncRunner

`pc` is the scheduling thread: `loop` (one pass of readiness and submission),
`wait`, `record`, `save`, `report`. A worker is the retry loop of its module,
with the attempt number, the cost so far, and kind and signature of the last
failure. A child is its outcomes; a timeout is a failure. `file` is the state
file, replaced whole. `Start` is `__init__` with the resume, `Crash` kills the
runner and its children. `synced` and `paid` are history.

Strongly connected components are defined by reachability, not by Tarjan's
algorithm (`compute_sccs`). Dependencies outside the targets are ignored by the
code and absent here.

### DurableRunner

`local`, `tracking` and `remote` are the durable branch, its remote-tracking ref
and the branch on origin, each a sequence of commits; a commit has the module
whose output it carries, the module its trailer names, and the run that made it.
`Fetch`, `Publish` and `Scan` are the preparation of a run; `Cut`, `ChildDone`,
`Apply`, `Amend`, `Push` and their failing forms are `_sync_one_module` with
`_checkpoint_module`, whose lock is `LockFree`. Every git command of
a worker may fail or be killed at its timeout before or after it took effect. In the
preparation three failures do not end the run: the branch is not forwarded
(`NotForwarded`), the whole branch is looked at (`Publish`), or nothing counts as
checkpointed (`ScanFails`); `unread` remembers the first and the last. They are
modelled where they make a difference. `NewClone` continues on
another machine; `ForeignPush` is the same sync running elsewhere. The scheduler
is that of `SyncRunner` without cycles, budget and retries.

### Repair, FixErrorLoop, FixCodeLoop, FixVerifyLoop

All three loops repair a code file and a side file (the test, or the program that
runs the code). `Repair` has their state; contents are named after the attempt
that wrote them, and `scores` remembers what running them showed, so the same
files run twice score the same. `disk` is what the files hold, `kept` what the loop
has in memory and in the backups of the attempt; they part when a write fails, which may
also leave a `Broken` file. `faults` names what failed beside the calls and the
backups, so that `Success` and `Failure` of each module can say what is promised without
faults, and what still holds after one. Each module has its loop's order of backup, call,
check, restore and budget. `MCRepair` chooses one at the start and states what
all three must keep.

### ReviewLoop

`phase` is the place in `run_checkup_review_loop`; `Setup` to `Finalize` are its
parts. A head is the set of the pieces of work it contains: a branch only grows,
a rebase replays work, so equal content is the same commit. `Piece` says who made
the work, in which round, whether their session succeeded and whether they
committed it themselves, which is what pushes and resets must get right.
`OthersPush` and `Exhaust` (cost or deadline) may come at any moment at which
they can be told apart. `told` and `authors` are history: what was said of the
worktree's head since the last fix, and whose work that fix is.

### JobManager

`task` is where a job's coroutine is suspended. Whatever the event loop does
between two suspensions is one action. `thread` is the blocking function in the
pool, `child` the process, `processes` the table `cancel` looks in. `Take`,
`Spawn`, `Register` and `Return` are the thread; `Exit` is the child.
`cancel` never suspends and is one step: the threads can tell only what it does
under the process lock. Not modelled: a custom executor (no caller passes one),
`cleanup_old_jobs` (no caller), the building of command lines, output.

### RemoteSession

`pc` is the polling task inside `_execute_command`: take a command, post
"processing", check for a cancellation, submit, watch and poll, cancel. The
places `post`, with `say`, `tries` and `refreshed`, are `update_command`; a
handler that posts "failed" sets `handling`. `job` is the local job, which only
moves as `JobLifecycle` allows (`Local == INSTANCE JobLifecycle WITH ...`).
`flight` holds updates that timed out and may arrive later, in any order. The
cloud is external; `final` says whether it keeps the status of a command that
ended, which the code does not tell, so both are explored.

## Runs

| Run | Instance | States | Shows |
|---|---|---|---|
| `transaction_crash` | 2 processes, 2 transactions, 2 of a crash and an edit, recovery only of what nobody works on, fairness | 254 k | nobody waits in a circle, recovery decides |
| `transaction_race` | the same with recovery at any time and 2 of: an edit, a crash, a damaged blob, a failed file operation | 3.1 M | lock discipline; COMMITTED only over a complete set; only recorded states overwritten; what takes an outcome back or leaves a silent half-installed set |
| `sync_lock` | 2 processes with 2 lock objects each, 6 inodes | 6 k | no leak, no orphan, no self-refusal, stale locks reclaimed |
| `sync_lock_exclusion` | the same | found | **violated:** two owners |
| `sync_loop` | a unit, under four sets of options, edits of prompt, code and example, deletions, kills | 2254 k | success is tested, edits are seen, a synced unit stays synced, no loop is free for long |
| `sync_loop_spins` | the same with `--skip-tests`, edits of the example | found | **violated:** a run that never returns |
| `runner_progress` | 5 modules with a cycle, 2 workers, with and without a budget, one kind of retry, one raising attempt, a crash or a second run | 270 k | dependencies first, cycles serialised, nothing forgotten, a true report, bounded spend, progress kept, it returns |
| `durable_resume` | 3 modules, 2 workers, 5 runs, 2 of: a failing or killed git command or child, a crash, a push from elsewhere | 818 k | done means pushed, and what is pushed is not redone by a run that could read it, children see their dependencies, trailers are right, origin moves as `CheckpointLog` allows, the sync completes |
| `repair` | the three loops, 3 attempts, a budget of 3, calls that cost 0 or 2, 3 scores, 0 to 2 issues, any call, backup, write, read or restore failing | 1058 k | the outcome holds of the files, spend is bounded, every loop ends |
| `review_loop` | 7 configurations, 2 rounds, 1 finding of an agent and 1 of the loop, 1 push by others | 1.4 M | the verdict is about the final head, pushes carry sound work only, nobody verifies themselves, it ends |
| `job_manager` | 3 jobs, limit 1, cancellations, shutdown | 32 k | refinement of the lifecycle, limit on children, announcements, every job ends |
| `remote_session` | 2 commands, a server that runs 1, 3 failing requests about one command, cancellations, shutdown | 514 k | the cloud is told the truth, nothing runs twice or unasked, no job is left behind, every command is answered |

The named parts of the bundled properties: `LeavesNothing` is types and
`NoOrphanedName`; `PickedSafely` is `CycleSerial` and `WorkerCap`; `Ends` of the
job manager is the lifecycle's `Progress` and `Announced`; `Bounded` is types and
`FreeRunsBounded`; `EditsAreSeen` is `PromptIsGenerated` (an edit is not absorbed)
and `MergeIsConflict` (the tool's own work is not taken for an edit); `DoneIsExact`
is `DoneIsPushed` and `NotRedone`; `CloudIsRight` is types and `AnswerIsTrue`;
`ExecutedAsAsked` is `ExecutedOnce` and `EarlyCancel`; `OutcomeIsTrue` is types,
`SuccessIsEarned` and `FailureIsHarmless`; the review loop's `ReportIsTrue` is types,
`PassedIsProven` and `FixedIsHeld`, its `PushesAreSound` is `FailedWorkKeptOut`
and `FixIsWhole`. The types of `Transaction`, `SyncRunner` and `JobManager` are
proved and not in a run.

### Bounds

- *Transaction.* Two processes and two transactions are the fewest that can
  conflict; they name the same two files in opposite plan order, which is what a
  deadlock needs. One of them restores the state the other recorded as its
  precondition, so that equality of contents cannot be mistaken for authorship.
  `MaxEdits`, `MaxCrashes`, `MaxFaults` bound the environment and `MaxEvents`
  bounds it as a whole. The processes are interchangeable, so the safety run uses
  symmetry; the run with liveness does not.
- *SyncLock.* Four objects can have four inodes open and a fifth may have the
  name; six leave one to create. Nothing else is bounded.
- *SyncLoop.* Units, runs and edits are unbounded. `MaxTests`, `MaxExtends`,
  `MaxCrashes` and `MaxFixes` are 3, 2, 3 and 3 where the code has 3, 2, 3 and 5: a breaker
  compares with the number, and three fixes in a row already follow a test. `Budget` 2
  leaves room for an alternation of two paid operations beside free ones.
  `MaxFree` is no bound on the model but the number `FreeRunsBounded` asserts,
  twice `MaxCrashes` plus 2 (at least 6): 8 with three crashes, where six are reached in
  this run. Options are the defaults, `PDD_DISABLE_TEST_EXTEND`, `--skip-tests`, and that
  with `--skip-verify`; reports are good, of low coverage, failing, of tests that did not
  run, and of none counted.
- *SyncRunner.* The graph of `runner_progress` has a two-module cycle with a
  dependency below it, a consumer above it and an unrelated module: every branch
  of `_get_ready_modules`. Two workers are the fewest that overlap. `MaxRuns = 2`
  gives one crash or one complete run and one resume; `MaxRaises = 1`.
- *DurableRunner.* A module, one that depends on it and one beside them, two at a
  time: two checkpoints that compete and one that must wait. Each fault can spoil
  two runs, so five runs suffice for completion after any two faults. `AskWhenDone`
  is `FALSE`: who got a complete sync does not ask again (with one fault, asking again
  was explored too).
- *Repair.* Three attempts are what the longest early end (three assertion
  failures) needs; a price of 2 under a budget of 3 crosses it with the second call.
- *ReviewLoop.* The configurations are chosen so that every option occurs and the
  options that interact occur together (`MCConfigs`). Two rounds have a finding
  accepted in one and reopened in the other. One push by others meets every
  phase that can tell.
- *JobManager.* One permit and three jobs have one at work, one abandoned by a
  cancellation and one waiting for both. The limit 2 was also explored.
- *RemoteSession.* Three faults on one command exhaust both tries and leave one for
  the handler's update; `MaxTries` is 2 where the code has 3, which only repeats
  the middle one. The other command shows what a failure does to its neighbour.

`CHECK_DEADLOCK FALSE` is set everywhere: a checkout where nobody calls anything,
a server without jobs, a loop that returned are legitimate ends.

### Fairness

- *Transaction.* `WF` on each process's steps: a thread of a live command runs.
  Calls, edits, crashes and faults are free not to happen. `RecoveredSpec`
  adds `SF` on `RecoverRead`: the operator or the next sync runs `recover` again
  while the journal is incomplete. Strong fairness on `AcquireLock` says that a
  process blocked in `flock` is not passed over for ever by a recovery that keeps
  coming back.
- *SyncLock.* `WF` on the steps of a call that has begun; nothing in it waits. No
  fairness on making the call, releasing or crashing.
- *SyncLoop.* `WF` on the loop, which is one thread and waits for nobody. None on
  starting, editing, deleting or killing.
- *SyncRunner.* `WF` on the scheduling thread and on each worker: a child that
  does not end is killed at the module's timeout. None on starting or crashing.
- *DurableRunner.* `WF` on the scheduling thread and on each module's steps (git
  and children have timeouts), and on starting a run again: completion is a
  promise to somebody who repeats the command.
- *Repair, ReviewLoop.* `WF` on the loop's own step. Agents and gates have
  timeouts. None on pushes by others or on the end of the budget.
- *JobManager.* `WF` on tasks (the event loop resumes what is ready), on threads,
  and on the exit of a child (`JOB_TIMEOUT` kills it). None on clients.
- *RemoteSession.* `WF` on the polling task and on each job's progress in the
  server, which `job_manager` shows. None on users, late arrivals, or shutdown.

## Where the code departs from its documentation

Two departures have a run.

- *Two owners of a unit lock* (`sync_lock_exclusion`). `acquire` creates the file,
  flocks it, and only then writes its pid. Who reads the file in between finds no
  number, removes the file as invalid (`pdd/sync_determine_operation.py:3387`) and locks
  a new inode beside the owner. This is the shortest way, which TLC shows; another one
  takes two attempts: the error handler (`:3404`) treats "held by another process"
  like any other `OSError` and unlinks the owner's file, and the next attempt gets in.
- *A run that never returns* (`sync_loop_spins`). Under `--skip-tests`, with a good
  report and an example that changed, the decision is `verify`, the skip saves
  `skip:verify`, and the decision is `verify` again. It costs nothing and no
  breaker counts it.

The following were seen while modelling. They are in the models, as behaviour or
as an exception a property names, but have no run of their own.

*Transaction.* `commit` and `recover` read the journal before they take the locks
and later write that copy back (`:615`, `:706`); `recover` of a PREPARED one takes no
lock at all (`:710`), and the sync recovers before its own lock. So a process with an
outdated copy can take an outcome back, and can leave an entry of a transaction that
ended in the checkout. `TerminalIsFinal` and `RolledBackClean` hold with such races and say
that it takes an outdated copy (`"copy"` in `misled`). `RolledBackClean` names three
more ways to a silent half-installed set, each of which TLC confirms is needed: the
directory's fsync fails after `os.replace`, and the rollback skips an entry that is
installed but not flagged (`:311`, `:653`; `"install"`); a damaged blob stops the
installation in that same place (`"blob"`); an edit makes the file what the transaction
writes, which the code takes for its own work (`"edit"`).
`docs/global_sync_resolution_plan.md:1353` says an external edit since planning is never
overwritten. It is when it comes between the check of a destination (`:535`) and its
replacement; `OverwritesOnlyRecorded` bounds the loss to edits made after the
last look (`unseen`).

*Issue runner.* A full success whose cost meets the budget is reported as budget
exhausted (`pdd/agentic_sync_runner.py:2577`); the state file of another issue is
deleted at the end of a successful run (`:2615`); an attempt that raises is
recorded with cost 0.0 (`:2545`), so `SpendBound` excludes such runs; a resume
trusts a saved success although dependencies or targets changed (`:1721`);
children of a runner killed hard live on (`:1822`).

*Job manager.* The child is listed only after it was started, so a cancellation in
between leaves it running. A job cancelled before it got its permit is never
announced; `Announced` speaks of jobs that began to run.

*Durable runner.* A `git am` that is killed leaves the durable worktree dirty, and
every later run fails as "not clean"; diverged branches stay failed. `Completes`
excepts both. A timeout raises where an error would halt the run. Worktrees that
are kept are never removed. A `git log` that fails while a run resumes is read as an
empty one (`:695`) and everything is synced again; a `show-ref` that fails leaves the
branch behind origin's (`:410`), and the first checkpoint makes them diverge. When the branch is deleted on origin the tracking ref
stays (`:666`), and the next run takes everything for done; deletion is not
modelled.

*Sync loop.* Code left behind by an operation that failed or was killed is later
taken for the user's, decided `update`, and counts as tested; so does code the
user rewrote, and a unit whose skipped crash left a synthetic report of success
(`pdd/sync_orchestration.py:2731`, read at `pdd/sync_determine_operation.py:6345`).
Two more ways to "all_synced" with code the tests have not run on are in what
`SuccessIsTested` asks for. With `PDD_DISABLE_TEST_EXTEND` coverage below the target is
enough (`pdd/sync_determine_operation.py:6292`), also after a crash was fixed and the
verification rewrote the code (`Asks`). And a report whose exit code is 0 is
enough though no test was counted in it (`:6350`): one of a skipped crash, or of tests
that were all skipped (`Counted`).

*Free iterations.* `FreeRunsBounded` excepts, besides the finding, a unit without an example
whose verification is declined for ever (`pdd/sync_orchestration.py:3258`), and a target of 0: a report
without coverage then asks for tests, `cmd_test_main` may fail at no cost with the old test
file in place, which is success (`:3613`), and a flaky failure that a fix finds gone lets
both alternate without reaching a breaker. A call of a model that succeeds is taken as paid.

A prompt edit is absorbed when an expected
example or test is missing and there is no report. Only one `test_extend` runs
though the maximum is 2. Edits made *during* an operation are absorbed by its
fingerprint, which hashes at the end; the model lets users edit between
iterations only.

*Repair loops.* `fix_error_loop` leaves at once when the tests cannot be
compressed (`:529`), without measuring or restoring, and an attempt whose tests cannot
be run may be what is left. The verify loop
restores its best iteration and reports success because another one was verified
(`pdd/fix_verification_errors_loop.py:1196`; "only mark as success if verification
actually passed", says `:1193`), and without a first judgement takes a best iteration of
zero issues for success. A program it cannot write (`:1095`) leaves the verified code on
disk and the old code in memory, which is what later backups and judgements are made of
while the flag of the verification stays set: it may then report success over code that
never passed, or return contents that are not on disk. `fix_code_loop` takes a success
whose files it cannot read (`:751`) for a failure after the time to restore them: the
repaired files stay. It never runs the last fix it applied. The agent of two
loops is called whatever the budget says, and what a failing agent wrote stays.

*Review loop.* When the stand-in reviewer finds nothing but a gate fails, the
fixer's role fixes and verifies itself without the disclosure made in the sibling
case (`pdd/checkup_review_loop.py:1891` beside `:1931`); `Independent` excepts it.
A budget that runs out after a clean review sets the fresh-final status to clean
without the gates (the verdict stays "failed"). The final session of agentic mode is
started even when the budget is gone. A finding accepted in round 1 stays "fixed"
when the push of round 2 is never verified. After a fallback fixer took over, the
repair of a prompt is still given to the fixer that failed.

*Remote session.* A check for cancellation that fails counts as "no", and the answer
to the cancellation of the local job is not looked at (`hit` in the properties).
When the token is renewed on the last try the update is dropped without an error
(`pdd/remote_session.py:515`): a command whose "processing" was dropped is listed
as pending and runs twice (`silent`).

## What is proved

All constants are arbitrary within the assumptions named in the modules.

**Transaction** (any processes, plans, finite set of locks, edits, crashes and
faults, recovery racing or not). `TypeCorrect` uses `TypeInv`, which adds to the
type invariant that a process outside `idle` has a transaction and that its index
is an entry of the plan wherever the entry is used. `LocksCover`
(`LocksCoverWrites`) rests on `CoveredInv`: in a critical place a process holds all locks
of its transaction, as it takes them before the first and gives them up with the last;
outside these places only `Publish` and `Discard` write (`StepOutside`). `CommitIsComplete`
(`CommitComplete`) needs two more facts. `VerifiedInv`: what the verification loop
has passed is still as desired unless somebody else changed it since, because only a
holder of the lock writes it (lemma `WriterHolds`, from the locks). `ViewInv`: no
process's copy says COMMITTED, so only `Finish` can write it. `LocksAcyclic` (`NoDeadlock`)
says that no set of processes waits in a circle: by `OrderInv` a process holds
only locks it wants and, while it acquires, all of those below the next one
(lemmas `MoveHolds`, `LeaveHolds`, `StepHolds`); of a circle, take the one that
holds the greatest lock (`Greatest`, well-foundedness of finite sets): it would
have to wait for a lock below one it holds. `OverwritesRecorded`
(`OverwritesOnlyRecorded`) needs that what the check of an entry has seen is still
so when the entry is written: nobody else writes it (`WriterHolds` again), and nobody
prepares the same transaction a second time, which would replace the recorded
preconditions (`PreparerInv`). `OutcomesAreFinal` (`TerminalIsFinal`)
and `NothingIsSilent` (`RolledBackClean`) assume nothing about recovery, faults or
edits: the exceptions are in the properties, as history that `StepHistory` and
`NextHistory` show only grows. For the first, a process that works on a transaction
with an outcome has a copy that differs from the journal, and every write of it says so
(`OpenInv`). Of the invariant of the second, `TraceOK` says that what a transaction left
in the checkout is as it wants it, that its journal then says COMMITTING or COMMITTED, and that only the
entry after the recorded ones can be installed and not recorded; `WorkOK` that during
a rollback each such trace is still in reach of the walk (`InReach`), or the walk will
meet a foreign change and flag the transaction (`WillConflict`).

**SyncRunner** (any graph, workers, budgets, costs, number of runs). The lemmas on
the graph say that reachability is reflexive, transitive and closed, and that
components partition the modules. `DependenciesFirst` (`UpstreamDone`) is the
interesting one: the scheduler checks direct dependencies, the property is about
all of them. The set "own component, and modules whose whole component
succeeded" is closed under dependencies once `Eligible` holds, therefore contains
everything reachable. The same has to hold of the successes in the state file
(`SavedUpstreamDone`), or a resume would break it. `PicksAreSafe` (`PickedSafely`)
joins `CyclesSerialised` (`CycleSerial`) and `WorkersCapped` (`WorkerCap`: ranking
the picked modules maps them one to one into as many numbers as there are free
workers, then the pigeonhole principle). `ReportHolds` (`ReportIsTrue`: a success
in memory, in a result or in the file belongs to a module really synced),
`ProgressIsKept` (`ProgressKept`) and `NobodyIsForgotten` (`NothingForgotten`). For
the last: when nothing runs and nothing was picked, no module is eligible
(`NobodyEligible`: the least eligible one of a component, and then the least ready
one, would have been picked); of the pending modules below a given one, one that
reaches a minimal set would be eligible unless something it reaches failed
(`WaitingIsBlocked`). `SpendIsBounded` (`SpendBound`), where some attempt is the
dearest: what the children cost is recorded or carried by the one child a budget
allows (`Accounted`), and before an attempt both together are below the budget
(`Covered`, `InTime`). `Spent` is a sum, defined by recursion on sets; that there is such a
function and only one, and that recording a cost adds it, is shown on a smallest
set of which it would fail (`SumExists`, `SumUnique`, `SumAdds`).

**JobManager** (any jobs, any limit). The invariant `Inv` ties each job's status,
thread, child and announcements to the place of its task. It gives `TypeCorrect`,
`OneAnnouncement` (`AnnouncedOnce`) and `ChildrenAreCapped` (`ChildrenCapped`: a
living child has a busy thread, and there are at most `Max`; the semaphore gives
no such bound). `ImplementsLifecycle` (`KeepsLifecycle`): each step is a step of
`JobLifecycle` or leaves the status alone; its guard on running jobs follows from
the permits.

**DurableRunner** (any modules with any dependencies, any number of workers, runs and
faults, pushes from elsewhere). `TreesSound` (`TreesAreSound`), `DoneExact`
(`DoneIsExact`) and the refinement `PublishesAsPromised` (`Promise`). Of the
inductive invariant, `Logs` says that a branch names a module only with its
dependencies and that the tracking ref knows no module origin has not; `Prepared`
what fetch, publish and scan have established so far, unless git could not read; `Successes` that a
module counted as done is on origin and on the local branch; `Stages` what each
place of a worker says of the branch, the lock on the checkout included; `Unfinished` that
what a resuming run that read the branch still has to do is not on the branches it
knows. Lemmas
summarise a worker's step by its effect (`Turn`, `LocalTurn`, `RemoteTurn`). The
refinement then needs only that origin grows and stays sound.

**SyncLoop** (any options, test outcomes, edits, kills and limits). `FormIsKept`
(`TypeOK`), `SyncedStaysSynced` (`SyncedStays`), `EditsAreTold` (`EditsAreSeen`) and
`SuccessMeansTested` (`SuccessIsTested`). The decision is one large function; the proof
needs little of it, in four lemmas: what the signals and the files may decide
(`SignalIs`, `FileStateIs`), what follows from a decision (`DecisionIs`), and that code whose
tests have not run is not taken for synced (`NotSynced`). Another four say what writing
files, saving a fingerprint and committing a buffer do to the unit, and `OpsWork` gives
every operation one form: it writes a set of files, buffers something, and leaves the
code untested or not. `SettledInv` says that nothing can be decided but success
again; `OwedInv` that a prompt the user edited keeps the decision at `generate` (or a manual
merge) until that has read it; `MergeInv` that all that differs from the fingerprint was
edited by the user, or is about to be covered by the buffered fingerprint. For the last,
`UntestedInv` follows the code that was not tested: it is under a fingerprint that does
not claim a test, or in the files of an operation whose buffer will put it there; `Chosen`
is what the decision made sure of before `update` began. None of the four assumes anything
of the options, the reports or the limits beyond their types.

`FreeRunsEnd` (`Bounded`) is about the loop as a loop: no more than `MaxFree` iterations in
a row cost nothing, so that the budget ends a run, however often operations return without
a result. `FreeInv` counts what can be free: crashes up to the breaker, one fix that changes nothing
(a second ends the run), crashes up to the breaker again, after which only a verify or an
update can follow (`CrashAgain`, `AfterCrash`); an auto-deps that writes nothing, which is
followed by a generate; a test generation that fails with the old file in place, after which
neither tests nor a verification are decided (`AfterTest`), so that a fix, or crashes of a
unit without an example, are what is left; and under `--skip-verify` a fix, one skipped
operation and a synthetic report, after which nothing is left to skip (`AfterSkip`,
`AfterSkippedCrash`, `AfterSkippedFix`). With `--skip-tests` alone one skip is followed by
a verify, which is then decided for ever (`AfterOnlySkip`, `VerifyAgain`): that is the
finding of `sync_loop_spins`, and with the other two cases above what `Spinning` excepts.

**SyncLock** (any processes and inodes, on the assumption that the file system
always has one more inode). `NothingIsLeft` (`LeavesNothing`) and `NestingIsSafe`
(`NeverRefusesItself`), in `SyncProofs`. A nested call happens only under its outer lock (`Nested`),
the file names a living process only while that one is at its lock (`Held`), and a
nested call that goes on to `flock` does so on another inode than the outer one
(`Apart`), so it cannot wait for itself. `Left`: when the name exists and nobody died,
somebody is inside a call or holds.

**ReviewLoop** (any configurations, rounds, findings and number of pushes).
`PushesSound` (`PushesAreSound`), `ReportHolds` (`ReportIsTrue`) and
`NobodyJudgesThemselves` (`Independent`). The invariant says of each phase which
head the worktree has and who made it (`Heads`, `Roles`), what has been said of it
(`Words`, `Statuses`) and that the branch has only sound work; a verdict "passed"
and a status "fixed" rest on these.

**RemoteSession** (any finite set of commands, any tries and faults).
`CloudIsTold` (`CloudIsRight`), `AsAsked` (`ExecutedAsAsked`) and `NobodyIsLeft`
(`NoOrphan`). `Truth` is about three things at once: what the cloud has, what is in
flight and may still get there, and what the task is about to say; all stay true
however the local job moves on (lemma `StillTrue`). A list of pending commands
names each once because it is as long as their number (`Listed`, by the pigeonhole
principle); a command that was submitted is not pending, in no list, and not on its way
to another submission (`Once`). A command cancelled before its turn goes no further than
the check (`Early`), and an unfinished job is watched (`Watched`).

**Repair** (any number of attempts, any budget, prices with a dearest one, any
scores). `OutcomeHolds` (`OutcomeIsTrue`) and `SpendIsBounded` (`SpendBound`), for
the three loops at once. `Memory` is the heart of the error loop: the best and the
last state are remembered with the files they measured, the user's own files
are never better than the best, and between attempts the files on disk are the last ones.
`CrashInv` and `VerifyInv` say what the other two know: a crash loop has passed
only with files that run; a verify loop keeps new code in memory only after a verification
(`Remembered`), and unless a write failed its memory is what is on disk. What "true of the
files" means is each loop's `Success` and `Failure`: for the verify loop a success also is
a best iteration that was restored while other code passed, as in the code.


### Only model-checked

- Liveness: `RecoveryDecides`, `ReclaimsStale`, `Returns`, `Ends`, `Announced`,
  `Progress`, `Completes`, `Answered`. They rest on fairness and `ENABLED`, which
  the prover does not handle.

## Left for later

In this order: the replay ledger's retry after a lost answer
(`pdd/sync_core/trust.py:134`, a hazard without a property); the resume protocol of the
issue orchestrators; Tarjan's algorithm against reachability.

## Not modelled

Whole parts: the sandboxed runner of the verification (`pdd/sync_core/runner.py`,
`supervisor.py`), manifests and identity, certificates and the released checker,
includes, architecture and contracts, drift healing, generation commands, model
invocation and its routing, the front end and the build scripts. They are
functions over documents and trees, or I/O around one call: what can go
wrong in them is the content of a result, seldom the order of steps. The issue
orchestrators, the operation log and the trust ledger do keep state, and are next.

Within the modelled parts:

- *Transaction:* path aliases, directories, the schema of a journal.
- *SyncRunner:* dependencies outside the targets, comments on the issue, output parsing.
- *DurableRunner:* deletion of the branch on origin, worktrees left by earlier runs.
- *SyncLoop:* agentic modes, steering, `auto-deps` with includes, languages
  other than Python.
- *Repair:* a failing write or restore of `fix_error_loop` (it ends the loop with an
  exception, `:615`, `:675`), reads that fail after an agent's success, paths that are
  not Python, a kill in the middle of a loop (`SyncLoop` has it, as an operation
  that leaves anything).
- *ReviewLoop:* the two-model mode (terra and sol), a configuration where both roles
  are the same, the degraded explicit fallback, the issue-aligned verdict, truncation
  of prompts, aliases of roles, `git reset` that fails, force pushes by others.
- *JobManager:* a custom executor, `cleanup_old_jobs`, output.
- *RemoteSession:* registration, the heartbeat, a session that restarts.

