----------------------------- MODULE JobManager -----------------------------
(***************************************************************************)
(* The job server of pdd/server/jobs.py.  Each job is an asyncio task that *)
(* takes a permit of a semaphore, hands a blocking call to a thread pool   *)
(* and waits for it; the thread starts a child process and waits for that. *)
(* A client may cancel a job at any moment, and the server may stop.       *)
(*                                                                         *)
(* The event loop runs one step between two suspensions at a time, the     *)
(* threads and the children run beside it.  `cancel` never suspends; what  *)
(* it does under the process lock is its only step threads can tell.       *)
(* Arguments, output and cost of a command are left out.                   *)
(***************************************************************************)
EXTENDS Naturals, FiniteSets

CONSTANTS
    Jobs,       \* the jobs clients may submit
    Max         \* max_concurrent, of the semaphore and of the thread pool

ASSUME MaxAssumption == IsFiniteSet(Jobs) /\ Max \in Nat \ {0}

VARIABLES
    status,     \* Job.status; "new" before the job is submitted
    task,       \* where the task of the job is suspended
    cancelling, \* jobs whose task is to be resumed with CancelledError
    event,      \* _cancel_events[j]: "none" when absent
    permits,    \* jobs holding a permit of _semaphore
    thread,     \* run_subprocess in the pool
    processes,  \* jobs listed in _processes
    child,      \* the child process itself
    outcome,    \* how the blocking call of the job ends
    announced,  \* history: how often on_complete was called for the job
    stopping    \* shutdown has begun

vars == <<status, task, cancelling, event, permits, thread, processes, child,
          outcome, announced, stopping>>

Lifecycle == INSTANCE JobLifecycle WITH status <- status

\* The task waits for the semaphore, in an on_start callback, for the thread,
\* or in an on_complete callback.
Suspended == {"queue", "start", "exec"}

TypeOK ==
    /\ status \in [Jobs -> {"new"} \cup Lifecycle!Active \cup Lifecycle!Finished]
    /\ task \in [Jobs -> Suspended \cup {"none", "complete", "done"}]
    /\ cancelling \subseteq {j \in Jobs : task[j] \in Suspended}
    /\ event \in [Jobs -> {"none", "clear", "set"}]
    /\ permits = {j \in Jobs : task[j] \in {"start", "exec", "complete"}}
    /\ thread \in [Jobs -> {"none", "queued", "taken", "spawned", "waiting", "done"}]
    /\ processes = {j \in Jobs : thread[j] = "waiting"}
    /\ child \in [Jobs -> {"none", "alive", "exited"}]
    /\ outcome \in [Jobs -> {"none", "ok", "fail"}]
    /\ announced \in [Jobs -> Nat] /\ stopping \in BOOLEAN

Init ==
    /\ status = [j \in Jobs |-> "new"] /\ task = [j \in Jobs |-> "none"]
    /\ cancelling = {} /\ event = [j \in Jobs |-> "none"] /\ permits = {}
    /\ thread = [j \in Jobs |-> "none"] /\ processes = {}
    /\ child = [j \in Jobs |-> "none"] /\ outcome = [j \in Jobs |-> "none"]
    /\ announced = [j \in Jobs |-> 0] /\ stopping = FALSE

-----------------------------------------------------------------------------
(* The event loop *)

pool == <<thread, processes, child, outcome>>

Submit(j) ==
    /\ status[j] = "new" /\ ~ stopping
    /\ status' = [status EXCEPT ![j] = "queued"]
    /\ event' = [event EXCEPT ![j] = "clear"]
    /\ task' = [task EXCEPT ![j] = "queue"]
    /\ UNCHANGED <<cancelling, permits, pool, announced, stopping>>

\* The task gets its permit, and _execute_job begins.
Acquire(j) ==
    /\ task[j] = "queue" /\ j \notin cancelling /\ Cardinality(permits) < Max
    /\ permits' = permits \cup {j}
    /\ IF event[j] = "set"
         THEN status' = [status EXCEPT ![j] = "cancelled"]
              /\ task' = [task EXCEPT ![j] = "complete"]
         ELSE status' = [status EXCEPT ![j] = "running"]
              /\ task' = [task EXCEPT ![j] = "start"]
    /\ UNCHANGED <<cancelling, event, pool, announced, stopping>>

\* run_in_executor
Dispatch(j) ==
    /\ task[j] = "start" /\ j \notin cancelling
    /\ task' = [task EXCEPT ![j] = "exec"]
    /\ thread' = [thread EXCEPT ![j] = "queued"]
    /\ UNCHANGED <<status, cancelling, event, permits, processes, child, outcome,
                   announced, stopping>>

\* What _execute_job makes of the result.
Ended(j) ==
    IF event[j] = "set" THEN "cancelled"
    ELSE IF outcome[j] = "ok" THEN "completed" ELSE "failed"

Collect(j) ==
    /\ task[j] = "exec" /\ j \notin cancelling /\ thread[j] = "done"
    /\ status' = [status EXCEPT ![j] = Ended(j)]
    /\ task' = [task EXCEPT ![j] = "complete"]
    /\ UNCHANGED <<cancelling, event, permits, pool, announced, stopping>>

AfterCancelMutant(j) == "done"
\* _execute_job's handlers run, unless the task never came that far.
AfterCancel(j) == IF task[j] = "queue" THEN "done" ELSE "complete"

\* CancelledError at the suspension point.  A call the pool has not begun is
\* withdrawn; one it has begun goes on without anybody waiting for it.
Cancelled(j) ==
    /\ j \in cancelling /\ cancelling' = cancelling \ {j}
    /\ task' = [task EXCEPT ![j] = AfterCancel(j)]
    /\ status' = [status EXCEPT ![j] = "cancelled"]
    /\ thread' = [thread EXCEPT ![j] = IF @ = "queued" THEN "none" ELSE @]
    /\ UNCHANGED <<event, permits, processes, child, outcome, announced, stopping>>

Released(j) == permits \ {j}

\* on_complete, the cleanup, and the end of the semaphore's block.
Complete(j) ==
    /\ task[j] = "complete"
    /\ announced' = [announced EXCEPT ![j] = @ + 1]
    /\ event' = [event EXCEPT ![j] = "none"]
    /\ permits' = Released(j)
    /\ task' = [task EXCEPT ![j] = "done"]
    /\ UNCHANGED <<status, cancelling, pool, stopping>>

CancellableMutant(j) == status[j] # "new" /\ task[j] # "done"
Cancellable(j) == status[j] \in Lifecycle!Active

\* cancel for each job of S, without a suspension.  A listed child is
\* terminated, and killed if it does not go.
CancelAll(S) ==
    /\ \A j \in S : Cancellable(j)
    /\ event' = [j \in Jobs |-> IF j \in S /\ event[j] # "none" THEN "set" ELSE event[j]]
    /\ child' = [j \in Jobs |-> IF j \in S \cap processes /\ child[j] = "alive"
                                  THEN "exited" ELSE child[j]]
    /\ outcome' = [j \in Jobs |-> IF child'[j] # child[j] THEN "fail" ELSE outcome[j]]
    /\ cancelling' = cancelling \cup {j \in S : task[j] # "done"}
    /\ status' = [j \in Jobs |-> IF j \in S THEN "cancelled" ELSE status[j]]
    /\ UNCHANGED <<task, permits, thread, processes, announced>>

Cancel(j) == CancelAll({j}) /\ UNCHANGED stopping

\* shutdown.  The pool still runs what it was handed.
Shutdown ==
    /\ ~ stopping /\ stopping' = TRUE
    /\ CancelAll({j \in Jobs : status[j] \in Lifecycle!Active})

TaskStep(j) == Acquire(j) \/ Dispatch(j) \/ Collect(j) \/ Cancelled(j) \/ Complete(j)

-----------------------------------------------------------------------------
(* The pool's threads and the children *)

loop == <<status, task, cancelling, event, permits, announced, stopping>>

Busy == {j \in Jobs : thread[j] \in {"taken", "spawned", "waiting"}}

ThreadFreeMutant == TRUE
ThreadFree == Cardinality(Busy) < Max

Take(j) ==
    /\ thread[j] = "queued" /\ ThreadFree
    /\ thread' = [thread EXCEPT ![j] = "taken"]
    /\ UNCHANGED <<loop, processes, child, outcome>>

\* Popen
Spawn(j) ==
    /\ thread[j] = "taken"
    /\ thread' = [thread EXCEPT ![j] = "spawned"]
    /\ child' = [child EXCEPT ![j] = "alive"]
    /\ UNCHANGED <<loop, processes, outcome>>

SpawnFails(j) ==
    /\ thread[j] = "taken"
    /\ thread' = [thread EXCEPT ![j] = "done"]
    /\ outcome' = [outcome EXCEPT ![j] = "fail"]
    /\ UNCHANGED <<loop, processes, child>>

Register(j) ==
    /\ thread[j] = "spawned"
    /\ thread' = [thread EXCEPT ![j] = "waiting"]
    /\ processes' = processes \cup {j}
    /\ UNCHANGED <<loop, child, outcome>>

\* The end of the wait loop and the cleanup.
Return(j) ==
    /\ thread[j] = "waiting" /\ child[j] = "exited"
    /\ thread' = [thread EXCEPT ![j] = "done"]
    /\ processes' = processes \ {j}
    /\ UNCHANGED <<loop, child, outcome>>

\* By itself, with or without success, or killed at JOB_TIMEOUT.
Exit(j) ==
    /\ child[j] = "alive"
    /\ child' = [child EXCEPT ![j] = "exited"]
    /\ \E o \in {"ok", "fail"} : outcome' = [outcome EXCEPT ![j] = o]
    /\ UNCHANGED <<loop, thread, processes>>

ThreadStep(j) == Take(j) \/ Spawn(j) \/ SpawnFails(j) \/ Register(j) \/ Return(j)

Next ==
    \/ \E j \in Jobs : Submit(j) \/ TaskStep(j) \/ Cancel(j) \/ ThreadStep(j) \/ Exit(j)
    \/ Shutdown

Spec == Init /\ [][Next]_vars

\* The loop resumes what can be resumed, threads are scheduled, and no child
\* outlives JOB_TIMEOUT.
FairSpec ==
    /\ Spec
    /\ \A j \in Jobs : WF_vars(TaskStep(j)) /\ WF_vars(ThreadStep(j)) /\ WF_vars(Exit(j))

-----------------------------------------------------------------------------
(* Properties *)

\* The server keeps the lifecycle: at most Max jobs run, a job ends in one way
\* however its completion, its cancellation and the shutdown race.
KeepsLifecycle == Lifecycle!Safety


\* Never more children than max_concurrent, those of cancelled jobs that were
\* not reached included.  The semaphore does not see to this: a cancelled job
\* gives its permit back while its thread still waits.
ChildrenCapped == Cardinality({j \in Jobs : child[j] = "alive"}) <= Max

\* on_complete comes at most once, and only after the job has ended.
AnnouncedOnce ==
    \A j \in Jobs : announced[j] <= (IF status[j] \in Lifecycle!Finished THEN 1 ELSE 0)

\* Every job ends, so no permit or thread is lost on any way out, and every job
\* that began to run is announced.
Announced == \A j \in Jobs : status[j] = "running" ~> announced[j] = 1
Ends == Lifecycle!Progress /\ Announced

=============================================================================
