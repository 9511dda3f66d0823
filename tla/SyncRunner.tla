----------------------------- MODULE SyncRunner -----------------------------
(***************************************************************************)
(* The parallel sync runner of pdd/agentic_sync_runner.py.  A run takes a  *)
(* set of modules with their dependencies, schedules one child `pdd sync`  *)
(* per module on a thread pool, retries repairable failures, saves what it *)
(* achieved after every module, and may be killed and started again.       *)
(*                                                                         *)
(* Modules are numbers in the order of `basenames`.  Dependencies outside  *)
(* the target set are assumed synced by the code and are not represented.  *)
(* Costs are whole units.  A child is its outcomes; how a failure is       *)
(* recognised in its output is abstracted to a kind and a signature.       *)
(***************************************************************************)
EXTENDS Integers, FiniteSets, FiniteSetsExt

CONSTANTS
    Modules,        \* basenames, numbered in their order
    Deps,           \* dep_graph restricted to the target modules
    Workers,        \* PDD_SYNC_MAX_WORKERS
    Budgets,        \* total_budget of the runs, possibly NoBudget
    InitialCost,    \* initial_cost
    Issues,         \* issue_url of the runs, possibly NoIssue
    NoBudget, NoIssue, None,
    Costs,          \* what one attempt of a child may cost
    Kinds,          \* the kinds of repairable failure a child may show
    Signatures,     \* what is wrong in such a failure
    MaxRuns,        \* bound: how often the runner is started
    MaxRaises       \* bound: attempts that raise instead of returning

ASSUME ConstantsAssumption ==
    /\ Modules \subseteq Nat /\ IsFiniteSet(Modules)
    /\ Deps \in [Modules -> SUBSET Modules]
    /\ Workers \in Nat \ {0}
    /\ Budgets \subseteq Nat \cup {NoBudget} /\ NoBudget \notin Nat
    /\ InitialCost \in Nat /\ Costs \subseteq Nat
    /\ Kinds \subseteq {"architecture", "public_surface", "prose_output", "test_churn"}
    /\ MaxRuns \in Nat /\ MaxRaises \in Nat

\* An attempt has a dearest outcome.
ASSUME CostsAssumption == \E c \in Costs : \A d \in Costs : d <= c

-----------------------------------------------------------------------------
(* The dependency graph: compute_sccs and the sets __init__ keeps.         *)

\* Everything m depends on, directly or not, and m: what is in every set that
\* holds m and is closed under dependencies.
Closed(S) == \A x \in S : Deps[x] \subseteq S
Reach == [m \in Modules |->
            {n \in Modules : \A S \in SUBSET Modules : m \in S /\ Closed(S) => n \in S}]
Scc == [m \in Modules |-> {n \in Reach[m] : m \in Reach[n]}]

\* A component of several modules, or of one that depends on itself.
InCycle(m) == Scc[m] # {m} \/ m \in Deps[m]

-----------------------------------------------------------------------------
VARIABLES
    pc,         \* where the scheduling thread is
    issue,      \* the issue_url of this run
    budget,     \* its total_budget
    status,     \* module_states[m].status
    cost,       \* module_states[m].cost
    futures,    \* modules whose future has not been collected
    result,     \* result[m]: what the future of m returned, or None
    batch,      \* the futures the last wait returned and not yet recorded
    worker,     \* worker[m]: the retry loop of _sync_one_module
    exhausted,  \* budget_exhausted
    verdict,    \* what run() returned
    file,       \* agentic_sync_state.json, or None
    synced,     \* history: modules some child or review really accepted
    paid,       \* history: what the children of this run have cost
    runs, raises

memory == <<status, cost, futures, result, batch, worker, exhausted>>
options == <<issue, budget>>
vars == <<pc, options, memory, verdict, file, synced, paid, runs, raises>>

Statuses == {"pending", "running", "success", "failed"}
Results == [ok : BOOLEAN, cost : Nat]
Fresh == [attempt |-> 1, spent |-> 0, kind |-> "none", signature |-> None]

\* A future that has not ended has no result.
ASSUME NoneAssumption == None \notin Results

TypeOK ==
    /\ pc \in {"down", "loop", "wait", "record", "save", "report", "returned"}
    /\ issue \in Issues \cup {NoIssue} /\ budget \in Budgets \cup {NoBudget}
    /\ status \in [Modules -> Statuses] /\ cost \in [Modules -> Nat]
    /\ futures \subseteq Modules /\ batch \subseteq futures
    /\ futures = {m \in Modules : status[m] = "running"}
    /\ result \in [Modules -> Results \cup {None}]
    /\ worker \in [Modules -> [attempt : 1..3, spent : Nat,
                               kind : Kinds \cup {"none"},
                               signature : Signatures \cup {None}]]
    /\ exhausted \in BOOLEAN
    /\ verdict \in {"none", "ok", "failed", "budget"}
    /\ file \in [issue : Issues, status : [Modules -> Statuses],
                 cost : [Modules -> Nat]] \cup {None}
    /\ synced \subseteq Modules /\ paid \in Nat
    /\ runs \in Nat /\ raises \in Nat

Init ==
    /\ pc = "down" /\ issue = NoIssue /\ budget = NoBudget
    /\ futures = {} /\ batch = {} /\ exhausted = FALSE
    /\ result = [m \in Modules |-> None] /\ worker = [m \in Modules |-> Fresh]
    /\ status = [m \in Modules |-> "pending"] /\ cost = [m \in Modules |-> 0]
    /\ verdict = "none" /\ file = None /\ synced = {} /\ paid = 0
    /\ runs = 0 /\ raises = 0

-----------------------------------------------------------------------------
(* Budget *)

MaxWorkers == IF budget = NoBudget THEN Workers ELSE 1
Spent == InitialCost + MapThenSumSet(LAMBDA m : cost[m], Modules)

\* _budget_exhausted, and the same test with the cost of a module in flight.
BudgetSpent == budget # NoBudget /\ Spent >= budget

AffordableMutant(inFlight) == budget = NoBudget \/ Spent < budget
Affordable(inFlight) == budget = NoBudget \/ Spent + inFlight < budget

-----------------------------------------------------------------------------
(* Scheduling *)

AllTerminal == \A m \in Modules : status[m] \in {"success", "failed"}

\* A dependency inside the cycle is soft; one outside waits for the whole
\* component of the module depended on.
EdgeReadyMutant(m, d) ==
    IF d \in Scc[m] THEN status[d] # "failed" ELSE status[d] = "success"
EdgeReadyMutant2(m, d) == \A peer \in Scc[d] \ {m} : status[peer] = "success"
EdgeReady(m, d) ==
    IF d \in Scc[m] THEN status[d] # "failed"
    ELSE \A peer \in Scc[d] : status[peer] = "success"

\* A member of a cycle waits for what any member depends on.
DepsReady(m) ==
    \A member \in Scc[m] : \A d \in Deps[member] : EdgeReady(m, d)

\* A cycle runs one member at a time, and one is picked per pass.
Eligible(m) ==
    /\ status[m] = "pending" /\ DepsReady(m)
    /\ InCycle(m) => \A peer \in Scc[m] : status[peer] # "running"

FirstMutant(m) == TRUE
First(m) == InCycle(m) => \A peer \in Scc[m] : Eligible(peer) => m <= peer

Ready == {m \in Modules : Eligible(m) /\ First(m)}

Available == MaxWorkers - Cardinality(futures)

\* ready[:available]
Picked == {m \in Ready : Cardinality({n \in Ready : n < m}) < Available}

Started == IF exhausted \/ BudgetSpent THEN {} ELSE Picked

AfterScheduleMutant == "wait"
AfterSchedule == IF futures \cup Started = {} THEN "report" ELSE "wait"

\* One pass of the loop in _run_inner, up to the wait.
Schedule ==
    /\ pc = "loop" /\ ~ (AllTerminal /\ futures = {})
    /\ exhausted' = (exhausted \/ BudgetSpent)
    /\ status' = [m \in Modules |-> IF m \in Started THEN "running" ELSE status[m]]
    /\ futures' = futures \cup Started
    /\ worker' = [m \in Modules |-> IF m \in Started THEN Fresh ELSE worker[m]]
    /\ pc' = AfterSchedule
    /\ UNCHANGED <<options, cost, result, batch, verdict, file, synced, paid, runs, raises>>

LoopEnds ==
    /\ pc = "loop" /\ AllTerminal /\ futures = {}
    /\ pc' = "report"
    /\ UNCHANGED <<options, memory, verdict, file, synced, paid, runs, raises>>

\* wait(futures, FIRST_COMPLETED)
Wait ==
    /\ pc = "wait"
    /\ batch' = {m \in futures : result[m] # None} /\ batch' # {}
    /\ pc' = "record"
    /\ UNCHANGED <<options, status, cost, futures, result, worker, exhausted,
                   verdict, file, synced, paid, runs, raises>>

Popped(m) == futures \ {m}

\* futures.pop and the memory part of _record_result, in any order of the batch.
Record(m) ==
    /\ pc = "record" /\ m \in batch
    /\ status' = [status EXCEPT ![m] = IF result[m].ok THEN "success" ELSE "failed"]
    /\ cost' = [cost EXCEPT ![m] = result[m].cost]
    /\ futures' = Popped(m) /\ batch' = batch \ {m}
    /\ result' = [result EXCEPT ![m] = None]
    /\ pc' = "save"
    /\ UNCHANGED <<options, worker, exhausted, verdict, file, synced, paid, runs, raises>>

\* _save_state: the file is replaced whole; without an issue there is none.
Saved == IF issue = NoIssue THEN file
         ELSE [issue |-> issue, status |-> status, cost |-> cost]

\* _save_state at the end of _record_result, then the budget check.
Save ==
    /\ pc = "save"
    /\ file' = Saved
    /\ exhausted' = (exhausted \/ BudgetSpent)
    /\ pc' = IF batch = {} THEN "loop" ELSE "record"
    /\ UNCHANGED <<options, status, cost, futures, result, batch, worker,
                   verdict, synced, paid, runs, raises>>

VerdictMutant == IF \E m \in Modules : status[m] = "failed" THEN "failed" ELSE "ok"
Verdict ==
    IF exhausted THEN "budget"
    ELSE IF \A m \in Modules : status[m] = "success" THEN "ok" ELSE "failed"

\* _get_blocked_modules, whose walk of the condensation comes to this: m, a peer
\* of m or something they depend on failed.
Blocked(m) == status[m] = "pending" /\ \E f \in Reach[m] : status[f] = "failed"

\* The end of _run_inner.  _delete_state removes the file whoever wrote it.
Report ==
    /\ pc = "report"
    /\ verdict' = Verdict
    /\ file' = IF Verdict = "ok" THEN None ELSE Saved
    /\ pc' = "returned"
    /\ UNCHANGED <<options, memory, synced, paid, runs, raises>>

Main == Schedule \/ LoopEnds \/ Wait \/ (\E m \in Modules : Record(m)) \/ Save \/ Report

-----------------------------------------------------------------------------
(* The worker thread of a module: _sync_one_module *)

Working(m) == m \in futures /\ result[m] = None
Total(m, c) == worker[m].spent + c
Return(m, ok, c) == result' = [result EXCEPT ![m] = [ok |-> ok, cost |-> c]]
Quiet == UNCHANGED <<pc, options, status, cost, futures, batch, exhausted, verdict, file, runs>>

\* The child succeeds.
AttemptOk(m, c) ==
    /\ Working(m) /\ Return(m, TRUE, Total(m, c))
    /\ synced' = synced \cup {m} /\ paid' = paid + c
    /\ Quiet /\ UNCHANGED <<worker, raises>>

\* The child fails, or times out, in a way that is not repaired.
AttemptFatal(m, c) ==
    /\ Working(m) /\ Return(m, FALSE, Total(m, c))
    /\ paid' = paid + c
    /\ Quiet /\ UNCHANGED <<worker, synced, raises>>

\* MAX_CONFORMANCE_ATTEMPTS, and the two kinds that are tried twice.
AttemptLimit(k) == IF k \in {"prose_output", "test_churn"} THEN 2 ELSE 3

GivesUp(m, c, k, s) ==
    \/ worker[m].kind = k /\ worker[m].signature = s
    \/ worker[m].attempt >= AttemptLimit(k)
    \/ ~ Affordable(Total(m, c))

\* A repairable failure that is tried again with a directive.
AttemptAgain(m, c, k, s) ==
    /\ Working(m) /\ ~ GivesUp(m, c, k, s)
    /\ worker' = [worker EXCEPT ![m] = [attempt |-> worker[m].attempt + 1,
                     spent |-> Total(m, c), kind |-> k, signature |-> s]]
    /\ paid' = paid + c
    /\ Quiet /\ UNCHANGED <<result, synced, raises>>

\* ... or not: churn in a test that was adopted from the user is then kept for
\* review and counted a success, in a run for an issue only.
AttemptGivesUp(m, c, k, s) ==
    /\ Working(m) /\ GivesUp(m, c, k, s)
    /\ paid' = paid + c
    /\ \E reviewed \in (IF k = "test_churn" /\ issue # NoIssue THEN BOOLEAN ELSE {FALSE}) :
          /\ Return(m, reviewed, Total(m, c))
          /\ synced' = IF reviewed THEN synced \cup {m} ELSE synced
    /\ Quiet /\ UNCHANGED <<worker, raises>>

\* Setting up an attempt raises (no temporary file, no descriptor for the
\* pipe): the future's exception is collected with cost 0.0.
AttemptRaises(m) ==
    /\ Working(m) /\ raises < MaxRaises /\ raises' = raises + 1
    /\ Return(m, FALSE, 0)
    /\ Quiet /\ UNCHANGED <<worker, synced, paid>>

Worker(m) ==
    \/ \E c \in Costs : \/ AttemptOk(m, c) \/ AttemptFatal(m, c)
                        \/ \E k \in Kinds, s \in Signatures :
                              AttemptAgain(m, c, k, s) \/ AttemptGivesUp(m, c, k, s)
    \/ AttemptRaises(m)

-----------------------------------------------------------------------------
(* The process *)

\* _load_state: successes of the same issue.
Restored(i, m) == i # NoIssue /\ file # None /\ file.issue = i /\ file.status[m] = "success"
LoadedMutant(i) == {}
Loaded(i) == {m \in Modules : Restored(i, m)}

Reset ==
    /\ futures' = {} /\ batch' = {} /\ exhausted' = FALSE
    /\ result' = [m \in Modules |-> None] /\ worker' = [m \in Modules |-> Fresh]

\* __init__ and the start of run.
Start(i, b) ==
    /\ pc \in {"down", "returned"} /\ runs < MaxRuns /\ runs' = runs + 1
    /\ issue' = i /\ budget' = b /\ pc' = "loop" /\ verdict' = "none" /\ paid' = 0
    /\ status' = [m \in Modules |-> IF m \in Loaded(i) THEN "success" ELSE "pending"]
    /\ cost' = [m \in Modules |-> IF m \in Loaded(i) THEN file.cost[m] ELSE 0]
    /\ Reset /\ UNCHANGED <<file, synced, raises>>

\* The process is killed with its children; the file stays.
Crash ==
    /\ pc \notin {"down", "returned"} /\ runs < MaxRuns
    /\ pc' = "down"
    /\ status' = [m \in Modules |-> "pending"] /\ cost' = [m \in Modules |-> 0]
    /\ Reset /\ UNCHANGED <<options, verdict, file, synced, paid, runs, raises>>

Next ==
    \/ Main
    \/ \E m \in Modules : Worker(m)
    \/ \E i \in Issues, b \in Budgets : Start(i, b)
    \/ Crash

Spec == Init /\ [][Next]_vars

\* The scheduling thread is not starved, and every attempt ends: a child that
\* does not is killed at the module's timeout.
FairSpec == /\ Spec /\ WF_vars(Main)
            /\ \A m \in Modules : WF_vars(Worker(m))

-----------------------------------------------------------------------------
(* Properties *)

\* A module is started only when everything it depends on, however indirectly
\* and outside its own cycle, has been synced, also after a resume.  About
\* _get_ready_modules, which looks only at direct dependencies.
UpstreamDone ==
    \A m \in Modules : status[m] # "pending" =>
        \A u \in Reach[m] \ Scc[m] : status[u] = "success"

\* Two members of a cycle never run at once, whatever else is scheduled in
\* the same pass.  About running_cyclic_sccs and picked_cyclic_sccs.
CycleSerial ==
    \A m, n \in futures : Scc[m] = Scc[n] => m = n

\* Never more children than the limit, and one at a time under a budget.
WorkerCap == Cardinality(futures) <= MaxWorkers

\* What is picked in one pass, beside what already runs, keeps both limits.
PickedSafely == CycleSerial /\ WorkerCap

\* When the runner gives up without being out of budget, what is left pending
\* depends on something that failed: no cycle starves itself, and a failure
\* holds up nobody else.  About _run_inner and the "not run" list it computes.
NothingForgotten ==
    pc = "returned" /\ verdict # "budget" =>
        \A m \in Modules : status[m] = "pending" => Blocked(m)

\* run() reports success only when every module was synced, by this run or by
\* one whose state file it resumed.
ReportIsTrue == verdict = "ok" => synced = Modules

\* The children of a run together overshoot the budget by less than one
\* attempt, retries included, unless an attempt raised: what its module had
\* cost until then is forgotten.
SpendBound ==
    budget # NoBudget /\ paid > 0 /\ raises = 0 =>
        InitialCost + paid < budget + Max(Costs)

\* A success that reached the state file is neither run again nor lost from
\* the file, while runs for the same issue crash and resume.
ProgressKept ==
    [][\A m \in Modules : Restored(issue, m) /\ issue' = issue =>
          /\ m \notin futures'
          /\ file' # None => file'.status[m] = "success"]_vars

\* A run that is not killed returns.
Returns == pc = "loop" ~> pc \in {"returned", "down"}

=============================================================================
