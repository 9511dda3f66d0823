--------------------------- MODULE DurableRunner ---------------------------
(***************************************************************************)
(* The durable issue sync of pdd/durable_sync_runner.py.  Every module is  *)
(* synced in a git worktree of its own, cut from the head of a durable     *)
(* branch; what it changed is applied to that branch, given a trailer that *)
(* names the module, and pushed.  A later run resumes from the trailers.   *)
(*                                                                         *)
(* A branch is a sequence of commits.  A commit is the module whose output *)
(* it carries (or None: empty), the module its trailer names (or None),    *)
(* and the run that made it.  The scheduler is that of SyncRunner, here    *)
(* without cycles, budget and retries; git itself is external.             *)
(***************************************************************************)
EXTENDS Integers, FiniteSets, Sequences, SequencesExt

CONSTANTS
    Modules,        \* basenames
    Deps,           \* dep_graph restricted to them
    Workers,        \* durable_max_parallel
    None,
    MaxRuns,        \* bound: how often the runner is started
    AskWhenDone,    \* bound: whether a sync that is done is asked for again
    NoResumes,      \* what --no-resume may be
    MaxFaults       \* bound: failures, timeouts, crashes, pushes from elsewhere

Commits == [content : Modules \cup {None}, trailer : Modules \cup {None}, run : Nat]

ASSUME DurableAssumption ==
    /\ Deps \in [Modules -> SUBSET Modules] /\ None \notin Modules
    /\ None \notin Seq(Commits)
    /\ Workers \in Nat \ {0} /\ NoResumes \subseteq BOOLEAN /\ AskWhenDone \in BOOLEAN
    /\ {MaxRuns, MaxFaults} \subseteq Nat

VARIABLES
    pc,         \* where run() is
    noResume,   \* the option of this run
    status,     \* module_states[m].status
    worker,     \* worker[m]: how far _sync_one_module has come
    base,       \* base[m]: the commits the worktree of m was cut from
    halted,     \* _checkpoint_halted
    unread,     \* git could not read the branch this run resumes from (history)
    local,      \* the durable branch, or None
    tracking,   \* refs/remotes/origin/<branch>, or None
    dirty,      \* the durable worktree holds a half-applied patch
    remote,     \* the branch on origin, or None
    runs, faults

git == <<local, tracking, dirty, remote>>
memory == <<status, worker, base, halted>>
choices == <<noResume, unread>>
bounds == <<runs, faults>>
vars == <<pc, choices, memory, git, bounds>>

Places == {"idle", "queued", "child", "waiting", "applied", "committed"}
Branches == Seq(Commits) \cup {None}

Running == {m \in Modules : status[m] = "running"}

TypeOK ==
    /\ pc \in {"down", "fetch", "publish", "scan", "loop", "returned"}
    /\ noResume \in BOOLEAN /\ unread \in BOOLEAN
    /\ halted \in BOOLEAN /\ dirty \in BOOLEAN
    /\ status \in [Modules -> {"pending", "running", "success", "failed"}]
    /\ worker \in [Modules -> Places]
    /\ base \in [Modules -> Branches]
    /\ Running = {m \in Modules : worker[m] # "idle"}
    /\ local \in Branches /\ tracking \in Branches /\ remote \in Branches
    /\ {runs, faults} \subseteq Nat

\* What one run starts from.
Reset ==
    /\ status' = [m \in Modules |-> "pending"] /\ worker' = [m \in Modules |-> "idle"]
    /\ base' = [m \in Modules |-> None] /\ halted' = FALSE

Init ==
    /\ pc = "down" /\ noResume = FALSE /\ unread = FALSE /\ halted = FALSE
    /\ status = [m \in Modules |-> "pending"] /\ worker = [m \in Modules |-> "idle"]
    /\ base = [m \in Modules |-> None]
    /\ local = None /\ tracking = None /\ remote = None /\ dirty = FALSE
    /\ runs = 0 /\ faults = 0

-----------------------------------------------------------------------------
(* Branches *)

Log(b) == IF b = None THEN <<>> ELSE b
Trailers(b) == {c.trailer : c \in ToSet(Log(b))} \ {None}

\* git log origin/<branch>..HEAD, or the whole log without a tracking ref.
Unpushed == ToSet(Log(local)) \ ToSet(Log(tracking))

\* What git lets a push without --force do, and a merge --ff-only.
Pushable == IsPrefix(Log(remote), local)
Diverged == ~ IsPrefix(Log(remote), Log(local)) /\ ~ IsPrefix(Log(local), Log(remote))

Fault == faults < MaxFaults /\ faults' = faults + 1
NoFault == UNCHANGED faults
Others == UNCHANGED runs

-----------------------------------------------------------------------------
(* run: _prepare_durable_branch *)

AllDone == pc = "returned" /\ \A m \in Modules : status[m] = "success"

Start(skip) ==
    /\ pc \in {"down", "returned"} /\ (AskWhenDone \/ ~ AllDone)
    /\ runs < MaxRuns /\ runs' = runs + 1
    /\ noResume' = skip /\ unread' = FALSE /\ pc' = "fetch" /\ Reset
    /\ UNCHANGED <<git, faults>>

FetchMutant ==
    /\ pc = "fetch"
    /\ IF remote = None
       THEN pc' = "returned" /\ UNCHANGED <<local, tracking>>
       ELSE /\ tracking' = remote
            /\ \/ ~ Diverged /\ pc' = "publish"
                  /\ local' = IF Len(remote) > Len(Log(local)) THEN remote ELSE local
               \/ Diverged /\ pc' = "returned" /\ UNCHANGED local
    /\ NoFault /\ Others /\ UNCHANGED <<choices, memory, dirty, remote>>
\* _setup_durable_worktree.  A branch that is not found on origin is no error
\* and leaves the tracking ref as it was.
Fetch ==
    /\ pc = "fetch"
    /\ IF remote = None
       THEN /\ local' = Log(local) /\ UNCHANGED tracking /\ pc' = "publish"
       ELSE /\ tracking' = remote
            /\ \/ ~ Diverged /\ pc' = "publish"
                  /\ local' = IF Len(remote) > Len(Log(local)) THEN remote ELSE local
               \/ Diverged /\ pc' = "returned" /\ UNCHANGED local
    /\ NoFault /\ Others /\ UNCHANGED <<choices, memory, dirty, remote>>

\* A fetch or the merge fails, or times out.
FetchFails ==
    /\ pc = "fetch" /\ Fault /\ pc' = "returned"
    /\ Others /\ UNCHANGED <<choices, memory, git>>

\* The fetch succeeds, but git cannot say that the tracking ref is there: the
\* branch is not forwarded, and a new one is cut from HEAD.
NotForwarded ==
    /\ pc = "fetch" /\ remote \notin {None, local} /\ Fault /\ pc' = "publish"
    /\ tracking' = remote /\ local' = Log(local) /\ unread' = TRUE
    /\ Others /\ UNCHANGED <<noResume, memory, dirty, remote>>

\* _push_unpushed_local_checkpoints
MustPublish == \E c \in Unpushed : c.trailer # None

PublishBranch ==
    \/ Pushable /\ pc' = "scan" /\ remote' = local /\ tracking' = local
    \/ ~ Pushable /\ pc' = "returned" /\ UNCHANGED <<remote, tracking>>

PublishMutant ==
    /\ pc = "publish" /\ NoFault
    /\ pc' = "scan" /\ UNCHANGED <<remote, tracking>>
    /\ Others /\ UNCHANGED <<choices, memory, local, dirty>>
\* The fault: git cannot say that the tracking ref is there, and the whole
\* branch is looked at.
Publish ==
    /\ pc = "publish"
    /\ \/ ~ MustPublish /\ NoFault /\ pc' = "scan" /\ UNCHANGED <<remote, tracking>>
       \/ MustPublish /\ NoFault /\ PublishBranch
       \/ ~ MustPublish /\ Trailers(local) # {} /\ Fault /\ PublishBranch
    /\ Others /\ UNCHANGED <<choices, memory, local, dirty>>

\* git log fails; or that push fails or times out, and origin may have it.
PublishFails ==
    /\ pc = "publish" /\ Fault /\ pc' = "returned"
    /\ remote' \in {remote} \cup (IF MustPublish /\ Pushable THEN {local} ELSE {})
    /\ Others /\ UNCHANGED <<choices, memory, local, tracking, dirty>>

\* _read_checkpointed_modules
Completed == IF noResume THEN {} ELSE Trailers(local)

Scan ==
    /\ pc = "scan" /\ pc' = "loop"
    /\ status' = [m \in Modules |-> IF m \in Completed THEN "success" ELSE "pending"]
    /\ NoFault /\ Others /\ UNCHANGED <<choices, worker, base, halted, git>>

\* git log fails: nothing counts as checkpointed, and the run goes on; or it
\* times out, and the run ends.
ScanFails ==
    /\ pc = "scan" /\ Completed # {} /\ Fault /\ pc' \in {"loop", "returned"}
    /\ unread' = TRUE
    /\ Others /\ UNCHANGED <<noResume, memory, git>>

-----------------------------------------------------------------------------
(* The scheduler *)

ReadyMutant(m) == \A d \in Deps[m] : status[d] # "pending"
Ready(m) == \A d \in Deps[m] : status[d] = "success"

Schedule(m) ==
    /\ pc = "loop" /\ status[m] = "pending" /\ Ready(m)
    /\ Cardinality(Running) < Workers
    /\ status' = [status EXCEPT ![m] = "running"]
    /\ worker' = [worker EXCEPT ![m] = "queued"]
    /\ NoFault /\ Others /\ UNCHANGED <<pc, choices, base, halted, git>>

\* Nothing runs and nothing can start.
Finish ==
    /\ pc = "loop" /\ Running = {}
    /\ \A m \in Modules : status[m] = "pending" => ~ Ready(m)
    /\ pc' = "returned"
    /\ NoFault /\ Others /\ UNCHANGED <<choices, memory, git>>

-----------------------------------------------------------------------------
(* The worker thread of a module: _sync_one_module *)

At(m, stage) == pc = "loop" /\ worker[m] = stage
Goes(m, stage) == worker' = [worker EXCEPT ![m] = stage]

\* _checkpoint_lock is held from the patch to the end of the push.
LockFree == \A m \in Modules : worker[m] \notin {"applied", "committed"}

\* _sync_one_module returns; the scheduling thread records it.
Returns(m, result) ==
    /\ Goes(m, "idle") /\ status' = [status EXCEPT ![m] = result]
    /\ base' = [base EXCEPT ![m] = None]
Fails(m) == Returns(m, "failed") /\ UNCHANGED halted        \* and when it raises
FailsAndHalts(m) == Returns(m, "failed") /\ halted' = TRUE
Frame == Others /\ UNCHANGED <<pc, choices>>

CutFromMutant == <<>>
CutFrom == local

\* _create_module_worktree
Cut(m) ==
    /\ At(m, "queued") /\ LockFree
    /\ base' = [base EXCEPT ![m] = CutFrom]
    /\ Goes(m, "child") /\ NoFault /\ Frame /\ UNCHANGED <<status, halted, git>>

\* The worktree cannot be made, or the child fails.
Breaks(m) ==
    /\ (At(m, "queued") /\ LockFree) \/ At(m, "child")
    /\ Fails(m) /\ Fault /\ Frame /\ UNCHANGED git

\* The child has synced the module.
ChildDone(m) ==
    /\ At(m, "child") /\ NoFault /\ Frame /\ UNCHANGED git
    /\ \/ ~ halted /\ Goes(m, "waiting") /\ UNCHANGED <<status, base, halted>>
       \/ halted /\ Fails(m)

\* _checkpoint_module looks again once it has the lock.
Refused(m) == halted

Refuse(m) ==
    /\ At(m, "waiting") /\ LockFree /\ Refused(m) /\ Fails(m)
    /\ NoFault /\ Frame /\ UNCHANGED git

MayCheckpoint(m) == At(m, "waiting") /\ LockFree /\ ~ Refused(m)

\* _ensure_clean_durable_worktree
NotClean(m) ==
    /\ MayCheckpoint(m) /\ dirty /\ FailsAndHalts(m)
    /\ NoFault /\ Frame /\ UNCHANGED git

\* The child changed nothing: one commit, with its trailer.
CommitEmpty(m) ==
    /\ MayCheckpoint(m) /\ ~ dirty /\ Goes(m, "committed")
    /\ local' = Append(local, [content |-> None, trailer |-> m, run |-> runs])
    /\ NoFault /\ Frame /\ UNCHANGED <<status, base, halted, tracking, dirty, remote>>

Patched(m) == Append(local, [content |-> m, trailer |-> None, run |-> runs])

\* git am --3way
Apply(m) ==
    /\ MayCheckpoint(m) /\ ~ dirty /\ Goes(m, "applied")
    /\ local' = Patched(m)
    /\ NoFault /\ Frame /\ UNCHANGED <<status, base, halted, tracking, dirty, remote>>

\* The patch conflicts with what was checkpointed after the worktree was cut,
\* or, as a fault, an unsafe path was staged or a git command failed; an
\* application that had begun is aborted.
NotCommitted(m) ==
    /\ MayCheckpoint(m) /\ ~ dirty /\ FailsAndHalts(m)
    /\ (base[m] # local /\ NoFault) \/ Fault
    /\ Frame /\ UNCHANGED git

\* git am is killed at its timeout, at any point of its work; nothing halts.
ApplyTimesOut(m) ==
    /\ MayCheckpoint(m) /\ ~ dirty /\ Fails(m) /\ Fault
    /\ \/ local' = Patched(m) /\ UNCHANGED dirty
       \/ UNCHANGED local /\ dirty' \in BOOLEAN
    /\ Frame /\ UNCHANGED <<tracking, remote>>

\* git commit --amend rewrites whatever commit is last.
Amended(m) == [local EXCEPT ![Len(local)].trailer = m]

Amend(m) ==
    /\ At(m, "applied") /\ Goes(m, "committed") /\ local' = Amended(m)
    /\ NoFault /\ Frame /\ UNCHANGED <<status, base, halted, tracking, dirty, remote>>

\* The amend fails, or times out before or after it took effect.
AmendFails(m) ==
    /\ At(m, "applied") /\ Fault
    /\ \/ FailsAndHalts(m) /\ UNCHANGED local
       \/ Fails(m) /\ local' \in {local, Amended(m)}
    /\ Frame /\ UNCHANGED <<tracking, dirty, remote>>

\* _push_durable_head, whose three attempts come to one outcome.
Push(m) ==
    /\ At(m, "committed") /\ Pushable /\ Returns(m, "success")
    /\ remote' = local /\ tracking' = local
    /\ NoFault /\ Frame /\ UNCHANGED <<halted, local, dirty>>

\* Origin has commits this branch has not.
PushRejected(m) ==
    /\ At(m, "committed") /\ ~ Pushable /\ FailsAndHalts(m)
    /\ NoFault /\ Frame /\ UNCHANGED git

\* Every attempt fails, or one times out; origin may have the commits or not.
PushFails(m) ==
    /\ At(m, "committed") /\ Fault
    /\ remote' \in {remote} \cup (IF Pushable THEN {local} ELSE {})
    /\ Fails(m) \/ FailsAndHalts(m)
    /\ Frame /\ UNCHANGED <<local, tracking, dirty>>

Step(m) == \/ Cut(m) \/ ChildDone(m) \/ Refuse(m) \/ NotClean(m) \/ CommitEmpty(m)
           \/ Apply(m) \/ Amend(m) \/ Push(m) \/ PushRejected(m) \/ NotCommitted(m)
Breakdown(m) == Breaks(m) \/ ApplyTimesOut(m) \/ AmendFails(m) \/ PushFails(m)

-----------------------------------------------------------------------------
(* What happens to the run and around it *)

\* The process is killed; a git am under way may leave its worktree dirty.
Crash ==
    /\ pc \notin {"down", "returned"} /\ Fault /\ pc' = "down" /\ Reset
    /\ \/ UNCHANGED dirty
       \/ dirty' = TRUE /\ \E m \in Modules : MayCheckpoint(m)
    /\ Others /\ UNCHANGED <<choices, local, tracking, remote>>

\* The next run is made in a new clone, on another machine.
NewClone ==
    /\ pc \in {"down", "returned"}
    /\ local' = None /\ tracking' = remote /\ dirty' = FALSE
    /\ NoFault /\ Others /\ UNCHANGED <<pc, choices, memory, remote>>

\* A run for the same issue elsewhere publishes a checkpoint.
ForeignPush(m) ==
    /\ Fault
    /\ m \notin Trailers(remote) /\ Deps[m] \subseteq Trailers(remote)
    /\ remote' = Append(Log(remote), [content |-> m, trailer |-> m, run |-> 0])
    /\ Others /\ UNCHANGED <<pc, choices, memory, local, tracking, dirty>>

Main == Fetch \/ Publish \/ Scan \/ (\E m \in Modules : Schedule(m)) \/ Finish

Next ==
    \/ \E skip \in NoResumes : Start(skip)
    \/ Main \/ FetchFails \/ NotForwarded \/ PublishFails \/ ScanFails
    \/ \E m \in Modules : Step(m) \/ Breakdown(m) \/ ForeignPush(m)
    \/ Crash \/ NewClone

Spec == Init /\ [][Next]_vars

\* Threads are not starved, git and children end (both have timeouts), and
\* whoever asked for the sync asks again until it is done.
FairSpec == /\ Spec /\ WF_vars(Main) /\ WF_vars(Start(FALSE))
            /\ \A m \in Modules : WF_vars(Step(m))

-----------------------------------------------------------------------------
(* Properties *)

\* A module that a run counts as done, because it checkpointed it or because it
\* resumed it, has its checkpoint on origin whatever pushes failed before.
\* About _checkpoint_module, _push_unpushed_local_checkpoints and the scan.
DoneIsPushed ==
    pc \in {"loop", "returned"} =>
        \A m \in Modules : status[m] = "success" => m \in Trailers(remote)

\* A child works on a tree that has the checkpoints of all its dependencies,
\* even if it was cut while others were being pushed.  About
\* _create_module_worktree.
DepsInBase ==
    \A m \in Modules : worker[m] = "child" => Deps[m] \subseteq Trailers(base[m])

\* A trailer never names another module than the one whose output its commit
\* carries, although it is added by amending whatever commit is last.  About
\* _checkpoint_lock.
TrailerIsOwn ==
    \A b \in {local, remote} : \A c \in ToSet(Log(b)) :
        c.content # None /\ c.trailer # None => c.content = c.trailer

\* The form of the state, and of the trees: what children build on and what
\* the commits claim.
TreesAreSound == TypeOK /\ DepsInBase /\ TrailerIsOwn

\* A module whose checkpoint this clone knows to be on origin is not synced
\* again by a run that resumes and whose git could read the branch.  About
\* _read_checkpointed_modules and _fast_forward_durable_worktree.
NotRedone ==
    pc = "loop" /\ ~ noResume /\ ~ unread =>
        \A m \in Modules : worker[m] # "idle" => m \notin Trailers(tracking)

\* What counts as done needs no more work, and what needs none counts as done.
DoneIsExact == DoneIsPushed /\ NotRedone

\* What is on origin is what CheckpointLog promises as long as nobody deletes
\* the branch.  About the order of pushes and that none is forced.
Log0 == INSTANCE CheckpointLog WITH checkpointed <- Trailers(remote)
Promise == Log0!Spec

\* Faults that end and runs that are repeated complete the sync, unless a git am
\* that was killed left the durable worktree dirty or another machine's
\* checkpoints, pushed after a fetch or not merged by it, made the branches
\* diverge.  About resume after any failure.
Completes == <>(AllDone \/ dirty \/ Diverged)
=============================================================================
