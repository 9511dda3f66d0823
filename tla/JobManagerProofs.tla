-------------------------- MODULE JobManagerProofs --------------------------
(***************************************************************************)
(* Proofs about JobManager for any finite set of jobs and any limit.       *)
(***************************************************************************)
EXTENDS JobManager, FiniteSetTheorems, TLAPS

(***************************************************************************)
(* The inductive invariant: what the status of a job says of its task, and *)
(* where its thread, its child and its announcement can be by then.        *)
(***************************************************************************)
StatusFits(j) ==
    \/ task[j] = "none" /\ status[j] = "new" /\ j \notin cancelling
    \/ task[j] = "queue" /\ status[j] = "queued" /\ j \notin cancelling
    \/ task[j] \in {"start", "exec"} /\ status[j] = "running" /\ j \notin cancelling
    \/ task[j] \in Suspended /\ status[j] = "cancelled" /\ j \in cancelling
    \/ /\ task[j] \in {"complete", "done"} /\ status[j] \in Lifecycle!Finished
       /\ j \notin cancelling

\* No thread before the call was handed to the pool, no child without a thread.
ThreadFits(j) ==
    /\ task[j] \in {"none", "queue", "start"} => thread[j] = "none"
    /\ child[j] = "alive" => thread[j] \in {"spawned", "waiting"}

AnnouncedFits(j) == announced[j] = 0 \/ (announced[j] = 1 /\ task[j] = "done")

JobInv == \A j \in Jobs : StatusFits(j) /\ ThreadFits(j) /\ AnnouncedFits(j)

Inv == TypeOK /\ JobInv

LEMMA InitInv == Init => Inv
  <1> SUFFICES ASSUME Init PROVE Inv
    OBVIOUS
  <1>1. TypeOK
    BY DEF Init, TypeOK
  <1>2. JobInv
    BY DEF Init, JobInv, StatusFits, ThreadFits, AnnouncedFits
  <1> QED BY <1>1, <1>2 DEF Inv

LEMMA ActiveSuspended ==
    ASSUME Inv, NEW j \in Jobs, status[j] \in Lifecycle!Active
    PROVE  task[j] \in Suspended /\ j \notin cancelling
  BY DEF Inv, JobInv, StatusFits, Suspended, Lifecycle!Active, Lifecycle!Finished

LEMMA SubmitInv == ASSUME Inv, NEW j \in Jobs, Submit(j) PROVE Inv'
  BY DEF Inv, Submit, pool, TypeOK, JobInv, StatusFits, ThreadFits, AnnouncedFits,
         Suspended, Lifecycle!Active, Lifecycle!Finished

LEMMA AcquireInv == ASSUME Inv, NEW j \in Jobs, Acquire(j) PROVE Inv'
  BY DEF Inv, Acquire, pool, TypeOK, JobInv, StatusFits, ThreadFits, AnnouncedFits,
         Suspended, Lifecycle!Active, Lifecycle!Finished

LEMMA DispatchInv == ASSUME Inv, NEW j \in Jobs, Dispatch(j) PROVE Inv'
  BY DEF Inv, Dispatch, TypeOK, JobInv, StatusFits, ThreadFits, AnnouncedFits,
         Suspended, Lifecycle!Active, Lifecycle!Finished

LEMMA CollectInv == ASSUME Inv, NEW j \in Jobs, Collect(j) PROVE Inv'
  BY DEF Inv, Collect, Ended, pool, TypeOK, JobInv, StatusFits, ThreadFits,
         AnnouncedFits, Suspended, Lifecycle!Active, Lifecycle!Finished

LEMMA CancelledInv == ASSUME Inv, NEW j \in Jobs, Cancelled(j) PROVE Inv'
  BY DEF Inv, Cancelled, AfterCancel, TypeOK, JobInv, StatusFits, ThreadFits,
         AnnouncedFits, Suspended, Lifecycle!Active, Lifecycle!Finished

LEMMA CompleteInv == ASSUME Inv, NEW j \in Jobs, Complete(j) PROVE Inv'
  BY DEF Inv, Complete, Released, pool, TypeOK, JobInv, StatusFits, ThreadFits,
         AnnouncedFits, Suspended, Lifecycle!Active, Lifecycle!Finished

LEMMA CancelAllInv ==
    ASSUME Inv, NEW S \in SUBSET Jobs, CancelAll(S), stopping' \in BOOLEAN
    PROVE  Inv'
  <1>1. \A j \in S : task[j] \in Suspended /\ j \notin cancelling
    BY ActiveSuspended DEF CancelAll, Cancellable
  <1>2. TypeOK'
    BY <1>1 DEF CancelAll, Inv, TypeOK, Suspended, Lifecycle!Active, Lifecycle!Finished
  <1>3. \A j \in Jobs : StatusFits(j)'
    BY <1>1 DEF CancelAll, Inv, JobInv, StatusFits, TypeOK, Suspended, Lifecycle!Finished
  <1>4. \A j \in Jobs : ThreadFits(j)' /\ AnnouncedFits(j)'
    BY DEF CancelAll, Inv, JobInv, ThreadFits, AnnouncedFits, TypeOK
  <1> QED BY <1>2, <1>3, <1>4 DEF Inv, JobInv

LEMMA TaskInv == ASSUME Inv, NEW j \in Jobs, TaskStep(j) PROVE Inv'
  BY AcquireInv, DispatchInv, CollectInv, CancelledInv, CompleteInv DEF TaskStep

LEMMA ThreadInv == ASSUME Inv, NEW j \in Jobs, ThreadStep(j) \/ Exit(j) PROVE Inv'
  <1> USE DEF Inv, loop, TypeOK, JobInv, StatusFits, ThreadFits, AnnouncedFits
  <1>1. CASE Take(j)
    BY <1>1 DEF Take
  <1>2. CASE Spawn(j)
    BY <1>2 DEF Spawn
  <1>3. CASE SpawnFails(j)
    BY <1>3 DEF SpawnFails
  <1>4. CASE Register(j)
    BY <1>4 DEF Register
  <1>5. CASE Return(j)
    BY <1>5 DEF Return
  <1>6. CASE Exit(j)
    BY <1>6 DEF Exit
  <1> QED BY <1>1, <1>2, <1>3, <1>4, <1>5, <1>6 DEF ThreadStep

LEMMA NextInv == Inv /\ [Next]_vars => Inv'
  <1> SUFFICES ASSUME Inv, [Next]_vars PROVE Inv'
    OBVIOUS
  <1>1. ASSUME NEW j \in Jobs, Cancel(j) PROVE Inv'
    BY <1>1, CancelAllInv DEF Cancel, Inv, TypeOK
  <1>2. CASE Shutdown
    BY <1>2, CancelAllInv DEF Shutdown
  <1>3. CASE UNCHANGED vars
    BY <1>3 DEF vars, Inv, TypeOK, JobInv, StatusFits, ThreadFits, AnnouncedFits
  <1> QED BY <1>1, <1>2, <1>3, SubmitInv, TaskInv, ThreadInv DEF Next

\* Every variable keeps its form: permits, listed processes and pending
\* cancellations are those of the tasks and threads they belong to.
THEOREM TypeCorrect == Spec => []TypeOK
  <1>1. Spec => []Inv
    BY InitInv, NextInv, PTL DEF Spec
  <1>2. Inv => TypeOK
    BY DEF Inv
  <1> QED BY <1>1, <1>2, PTL

\* on_complete comes at most once, and only after the job has ended.
THEOREM OneAnnouncement == Spec => []AnnouncedOnce
  <1>1. Spec => []Inv
    BY InitInv, NextInv, PTL DEF Spec
  <1>2. Inv => AnnouncedOnce
    <2> SUFFICES ASSUME Inv, NEW j \in Jobs
                 PROVE  announced[j] <= (IF status[j] \in Lifecycle!Finished THEN 1 ELSE 0)
      BY DEF AnnouncedOnce
    <2>1. StatusFits(j) /\ AnnouncedFits(j)
      BY DEF Inv, JobInv
    <2>2. task[j] = "done" => status[j] \in Lifecycle!Finished
      BY <2>1 DEF StatusFits, Suspended
    <2> QED BY <2>1, <2>2 DEF AnnouncedFits
  <1> QED BY <1>1, <1>2, PTL

(***************************************************************************)
(* The children.  A living child keeps a thread of the pool busy.          *)
(***************************************************************************)
LEMMA JobsFinite ==
    ASSUME NEW S \in SUBSET Jobs, NEW T \in SUBSET S
    PROVE  /\ IsFiniteSet(S) /\ Cardinality(S) \in Nat
           /\ Cardinality(T) \in Nat /\ Cardinality(T) <= Cardinality(S)
  <1>1. IsFiniteSet(S)
    BY MaxAssumption, FS_Subset
  <1> QED BY <1>1, FS_Subset, FS_CardinalityType

BusyCapped == Cardinality(Busy) <= Max

LEMMA BusyStep == ASSUME Inv, BusyCapped, [Next]_vars PROVE BusyCapped'
  <1>1. ASSUME Busy' \subseteq Busy PROVE BusyCapped'
    <2>1. Busy \in SUBSET Jobs /\ Busy' \in SUBSET Busy
      BY <1>1 DEF Busy
    <2> HIDE DEF Busy
    <2> QED BY <2>1, JobsFinite, MaxAssumption DEF BusyCapped
  <1>2. ASSUME NEW j \in Jobs, Take(j) PROVE BusyCapped'
    <2>1. Busy' = Busy \cup {j} /\ Busy \in SUBSET Jobs
      BY <1>2 DEF Take, Busy, Inv, TypeOK
    <2>2. Cardinality(Busy) < Max
      BY <1>2 DEF Take, ThreadFree
    <2>3. IsFiniteSet(Busy) /\ Cardinality(Busy) \in Nat
      BY <2>1, JobsFinite
    <2>4. Cardinality(Busy') <= Cardinality(Busy) + 1
      BY <2>1, <2>3, FS_AddElement
    <2>5. Cardinality(Busy') \in Nat
      BY <2>1, <2>3, FS_AddElement, FS_CardinalityType
    <2> QED BY <2>2, <2>3, <2>4, <2>5, MaxAssumption DEF BusyCapped
  <1>3. ASSUME NEW j \in Jobs, Dispatch(j) \/ Cancelled(j) PROVE Busy' \subseteq Busy
    BY <1>3 DEF Dispatch, Cancelled, Busy, Inv, TypeOK
  <1>4. ASSUME NEW j \in Jobs,
               Spawn(j) \/ SpawnFails(j) \/ Register(j) \/ Return(j) \/ Exit(j)
        PROVE  Busy' \subseteq Busy
    BY <1>4 DEF Spawn, SpawnFails, Register, Return, Exit, Busy, Inv, TypeOK
  <1>5. ASSUME NEW j \in Jobs, Submit(j) \/ Acquire(j) \/ Collect(j) \/ Complete(j) \/ Cancel(j)
        PROVE  thread' = thread
    BY <1>5 DEF Submit, Acquire, Collect, Complete, Cancel, CancelAll, pool
  <1>6. CASE Shutdown \/ UNCHANGED vars
    BY <1>1, <1>6 DEF Shutdown, CancelAll, vars, Busy
  <1>7. ASSUME thread' = thread PROVE Busy' \subseteq Busy
    BY <1>7 DEF Busy
  <1> QED BY <1>1, <1>2, <1>3, <1>4, <1>5, <1>6, <1>7 DEF Next, TaskStep, ThreadStep

\* Never more children than max_concurrent, whatever was cancelled when.
THEOREM ChildrenAreCapped == Spec => []ChildrenCapped
  <1>1. Init => BusyCapped
    <2> SUFFICES ASSUME Init PROVE BusyCapped
      OBVIOUS
    <2>1. Busy = {}
      BY DEF Init, Busy
    <2> QED BY <2>1, FS_EmptySet, MaxAssumption DEF BusyCapped
  <1>2. Spec => [](Inv /\ BusyCapped)
    BY <1>1, InitInv, NextInv, BusyStep, PTL DEF Spec
  <1>3. Inv /\ BusyCapped => ChildrenCapped
    <2> SUFFICES ASSUME Inv, BusyCapped PROVE ChildrenCapped
      OBVIOUS
    <2> DEFINE Alive == {j \in Jobs : child[j] = "alive"}
    <2>1. Alive \in SUBSET Busy /\ Busy \in SUBSET Jobs
      BY DEF Inv, JobInv, ThreadFits, Busy
    <2>2. Cardinality(Alive) <= Max
      <3> HIDE DEF Alive
      <3> QED BY <2>1, JobsFinite, MaxAssumption DEF BusyCapped
    <2> QED BY <2>2 DEF ChildrenCapped
  <1> QED BY <1>2, <1>3, PTL

(***************************************************************************)
(* The manager implements the lifecycle: every step is one of its steps or *)
(* leaves every status alone.                                              *)
(***************************************************************************)
\* A running job holds a permit, so a free permit means room for one more.
LEMMA PermitRoom ==
    ASSUME Inv, Cardinality(permits) < Max
    PROVE  Cardinality(Lifecycle!Running) < Max
  <1>1. permits \in SUBSET Jobs /\ Lifecycle!Running \in SUBSET permits
    BY DEF Inv, TypeOK, JobInv, StatusFits, Lifecycle!Running, Lifecycle!Finished, Suspended
  <1>2. /\ Cardinality(permits) \in Nat /\ Cardinality(Lifecycle!Running) \in Nat
        /\ Cardinality(Lifecycle!Running) <= Cardinality(permits)
    BY <1>1, JobsFinite
  <1> QED BY <1>2, MaxAssumption

\* One cancelled job is the cancellation of a set of one.
LEMMA CancelOne ==
    ASSUME Inv, NEW j \in Jobs, status[j] \in Lifecycle!Active,
           status' = [status EXCEPT ![j] = "cancelled"]
    PROVE  Lifecycle!Next
  <1>1. status' = [i \in Jobs |-> IF i \in {j} THEN "cancelled" ELSE status[i]]
    BY DEF Inv, TypeOK
  <1>2. Lifecycle!Cancel({j})
    BY <1>1 DEF Lifecycle!Cancel
  <1> QED BY <1>2 DEF Lifecycle!Next

LEMMA StepRefines == ASSUME Inv, [Next]_vars PROVE [Lifecycle!Next]_status
  <1>1. ASSUME NEW j \in Jobs, Submit(j) PROVE Lifecycle!Next
    BY <1>1 DEF Submit, Lifecycle!Submit, Lifecycle!Next
  <1>2. ASSUME NEW j \in Jobs, Acquire(j) PROVE Lifecycle!Next
    <2>1. status[j] = "queued"
      BY <1>2 DEF Acquire, Inv, JobInv, StatusFits
    <2>2. CASE event[j] = "set"
      BY <1>2, <2>1, <2>2, CancelOne DEF Acquire, Lifecycle!Active
    <2>3. CASE event[j] # "set"
      <3>1. Lifecycle!Run(j)
        <4>1. Cardinality(Lifecycle!Running) < Max
          BY <1>2, PermitRoom DEF Acquire
        <4>2. Lifecycle!Cardinality(Lifecycle!Running) < Max
          BY <4>1 DEF Cardinality, IsFiniteSet, Lifecycle!Cardinality, Lifecycle!IsFiniteSet
        <4> QED BY <1>2, <2>1, <2>3, <4>2 DEF Acquire, Lifecycle!Run
      <3> QED BY <3>1 DEF Lifecycle!Next
    <2> QED BY <2>2, <2>3
  <1>3. ASSUME NEW j \in Jobs, Collect(j) PROVE Lifecycle!Next
    <2>1. status[j] = "running"
      BY <1>3 DEF Collect, Inv, JobInv, StatusFits
    <2>2. CASE event[j] = "set"
      BY <1>3, <2>1, <2>2, CancelOne DEF Collect, Ended, Lifecycle!Active
    <2>3. CASE event[j] # "set"
      <3>1. Lifecycle!End(j)
        BY <1>3, <2>1, <2>3 DEF Collect, Ended, Lifecycle!End
      <3> QED BY <3>1 DEF Lifecycle!Next
    <2> QED BY <2>2, <2>3
  <1>4. ASSUME NEW j \in Jobs, Cancelled(j) PROVE status' = status
    BY <1>4 DEF Cancelled, Inv, JobInv, StatusFits, TypeOK
  <1>5. ASSUME NEW S \in SUBSET Jobs, CancelAll(S) PROVE Lifecycle!Next
    <2>1. Lifecycle!Cancel(S)
      BY <1>5 DEF CancelAll, Cancellable, Lifecycle!Cancel
    <2> QED BY <2>1 DEF Lifecycle!Next
  <1>6. ASSUME NEW j \in Jobs, Cancel(j) PROVE Lifecycle!Next
    BY <1>5, <1>6 DEF Cancel
  <1>7. CASE Shutdown
    BY <1>5, <1>7 DEF Shutdown
  <1>8. ASSUME NEW j \in Jobs, Dispatch(j) \/ Complete(j) PROVE status' = status
    BY <1>8 DEF Dispatch, Complete
  <1>9. ASSUME NEW j \in Jobs, ThreadStep(j) \/ Exit(j) PROVE status' = status
    BY <1>9 DEF ThreadStep, Take, Spawn, SpawnFails, Register, Return, Exit, loop
  <1>10. CASE UNCHANGED vars
    BY <1>10 DEF vars
  <1> QED BY <1>1, <1>2, <1>3, <1>4, <1>6, <1>7, <1>8, <1>9, <1>10 DEF Next, TaskStep

\* The tasks, threads and children together keep the promised lifecycle.
THEOREM ImplementsLifecycle == Spec => KeepsLifecycle
  <1>1. Init => Lifecycle!Init
    BY DEF Init, Lifecycle!Init
  <1>2. Inv /\ [Next]_vars => [Lifecycle!Next]_status
    BY StepRefines
  <1>3. Spec => []Inv
    BY InitInv, NextInv, PTL DEF Spec
  <1> QED BY <1>1, <1>2, <1>3, PTL DEF Spec, KeepsLifecycle, Lifecycle!Safety

=============================================================================
