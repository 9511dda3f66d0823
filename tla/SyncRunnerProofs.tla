-------------------------- MODULE SyncRunnerProofs --------------------------
(***************************************************************************)
(* Proofs about SyncRunner for any dependency graph, cyclic or not, any    *)
(* number of modules, workers and runs, any outcomes and costs.            *)
(***************************************************************************)
EXTENDS SyncRunner, FiniteSetTheorems, WellFoundedInduction, TLAPS

(***************************************************************************)
(* The dependency graph.                                                   *)
(***************************************************************************)
LEMMA ReachIn ==
    ASSUME NEW m \in Modules
    PROVE  Reach[m] \subseteq Modules /\ m \in Reach[m]
  BY DEF Reach

LEMMA ReachTransitive ==
    ASSUME NEW m \in Modules, NEW n \in Reach[m], NEW o \in Reach[n]
    PROVE  o \in Reach[m]
  <1>1. n \in Modules /\ o \in Modules
    BY ReachIn
  <1>2. ASSUME NEW S \in SUBSET Modules, m \in S, Closed(S)
        PROVE  o \in S
    <2>1. n \in S
      BY <1>2 DEF Reach
    <2> QED BY <1>1, <1>2, <2>1 DEF Reach
  <1> QED BY <1>1, <1>2 DEF Reach

LEMMA ReachStep ==
    ASSUME NEW m \in Modules, NEW d \in Deps[m]
    PROVE  d \in Modules /\ d \in Reach[m]
  <1>1. d \in Modules
    BY ConstantsAssumption
  <1>2. \A S \in SUBSET Modules : m \in S /\ Closed(S) => d \in S
    BY DEF Closed
  <1> QED BY <1>1, <1>2 DEF Reach

LEMMA SccFacts ==
    ASSUME NEW m \in Modules
    PROVE  /\ Scc[m] \subseteq Modules /\ m \in Scc[m] /\ Scc[m] \subseteq Reach[m]
           /\ \A n \in Scc[m] : Scc[n] = Scc[m]
  <1>1. Scc[m] \subseteq Modules /\ m \in Scc[m] /\ Scc[m] \subseteq Reach[m]
    BY ReachIn DEF Scc
  <1>2. ASSUME NEW n \in Scc[m] PROVE Scc[n] = Scc[m]
    <2>1. n \in Modules /\ n \in Reach[m] /\ m \in Reach[n]
      BY <1>1 DEF Scc
    <2>2. ASSUME NEW o \in Scc[n] PROVE o \in Scc[m]
      <3>1. o \in Modules /\ o \in Reach[n] /\ n \in Reach[o]
        BY <2>1, ReachIn DEF Scc
      <3>2. o \in Reach[m] /\ m \in Reach[o]
        BY <2>1, <3>1, ReachTransitive
      <3> QED BY <3>2 DEF Scc
    <2>3. ASSUME NEW o \in Scc[m] PROVE o \in Scc[n]
      <3>1. o \in Modules /\ o \in Reach[m] /\ m \in Reach[o]
        BY <1>1 DEF Scc
      <3>2. o \in Reach[n] /\ n \in Reach[o]
        BY <2>1, <3>1, ReachTransitive
      <3> QED BY <2>1, <3>2 DEF Scc
    <2> QED BY <2>2, <2>3
  <1> QED BY <1>1, <1>2

\* What x depends on outside its component is outside it as a whole.
LEMMA SccBelow ==
    ASSUME NEW x \in Modules, NEW y \in Reach[x] \ Scc[x], NEW z \in Scc[y]
    PROVE  z \in Reach[x] \ Scc[x]
  <1>1. y \in Modules /\ z \in Modules
    BY ReachIn, SccFacts
  <1>2. z \in Reach[y] /\ y \in Reach[z]
    BY <1>1 DEF Scc
  <1>3. z \in Reach[x]
    BY <1>2, ReachTransitive
  <1>4. ASSUME z \in Scc[x] PROVE FALSE
    <2>1. x \in Reach[z]
      BY <1>4 DEF Scc
    <2>2. x \in Reach[y]
      BY <1>1, <1>2, <2>1, ReachTransitive
    <2> QED BY <2>2 DEF Scc
  <1> QED BY <1>3, <1>4

(***************************************************************************)
(* Type correctness.                                                       *)
(***************************************************************************)
LEMMA FreshType ==
    Fresh \in [attempt : 1..3, spent : Nat, kind : Kinds \cup {"none"},
               signature : Signatures \cup {None}]
  BY DEF Fresh

\* What a wait returned has a result.
TypeInv == TypeOK /\ \A m \in batch : result[m] # None

LEMMA InitType == Init => TypeInv
  <1> SUFFICES ASSUME Init PROVE TypeInv
    OBVIOUS
  <1>1. status \in [Modules -> Statuses] /\ {m \in Modules : status[m] = "running"} = {}
    BY DEF Init, Statuses
  <1>2. worker \in [Modules -> [attempt : 1..3, spent : Nat, kind : Kinds \cup {"none"},
                                signature : Signatures \cup {None}]]
    BY FreshType DEF Init
  <1>3. result \in [Modules -> Results \cup {None}] /\ cost \in [Modules -> Nat]
    BY DEF Init
  <1> QED BY <1>1, <1>2, <1>3 DEF Init, TypeInv, TypeOK

LEMMA StartedFacts ==
    /\ Started \subseteq Modules
    /\ \A m \in Started : Eligible(m) /\ First(m) /\ status[m] = "pending"
  BY DEF Started, Picked, Ready, Eligible

LEMMA SavedType ==
    ASSUME TypeOK
    PROVE  Saved \in [issue : Issues, status : [Modules -> Statuses],
                      cost : [Modules -> Nat]] \cup {None}
  BY DEF TypeOK, Saved

LEMMA MainType == ASSUME TypeInv, Main PROVE TypeOK'
  <1> USE DEF TypeInv
  <1>1. CASE Schedule
    <2>1. status' \in [Modules -> Statuses]
      BY <1>1 DEF Schedule, TypeOK, Statuses
    <2>2. futures' = {m \in Modules : status'[m] = "running"}
      BY <1>1, StartedFacts DEF Schedule, TypeOK
    <2>3. worker' \in [Modules -> [attempt : 1..3, spent : Nat, kind : Kinds \cup {"none"},
                                   signature : Signatures \cup {None}]]
      BY <1>1, FreshType DEF Schedule, TypeOK
    <2>4. pc' \in {"report", "wait"} /\ exhausted' \in BOOLEAN
      BY <1>1 DEF Schedule, AfterSchedule
    <2>5. batch' \subseteq futures' /\ futures' \subseteq Modules
      BY <1>1, StartedFacts DEF Schedule, TypeOK
    <2> QED BY <1>1, <2>1, <2>2, <2>3, <2>4, <2>5 DEF Schedule, TypeOK, options
  <1>2. CASE LoopEnds
    BY <1>2 DEF LoopEnds, TypeOK, options, memory
  <1>3. CASE Wait
    BY <1>3 DEF Wait, TypeOK, options
  <1>4. ASSUME NEW m \in Modules, Record(m) PROVE TypeOK'
    <2>1. m \in futures /\ status[m] = "running"
      BY <1>4 DEF Record, TypeOK
    <2>2. status' \in [Modules -> Statuses]
      BY <1>4 DEF Record, TypeOK, Statuses
    <2>3. futures' = {n \in Modules : status'[n] = "running"}
      BY <1>4, <2>1 DEF Record, Popped, TypeOK, Statuses
    <2>4. cost' \in [Modules -> Nat]
      <3>1. result[m] # None
        BY <1>4 DEF Record, TypeInv
      <3>2. result[m] \in Results
        BY <3>1 DEF TypeOK
      <3> QED BY <1>4, <3>2 DEF Record, TypeOK, Results
    <2>5. result' \in [Modules -> Results \cup {None}]
      BY <1>4 DEF Record, TypeOK
    <2>6. batch' \subseteq futures' /\ futures' \subseteq Modules /\ pc' = "save"
      BY <1>4 DEF Record, Popped, TypeOK
    <2> QED BY <1>4, <2>2, <2>3, <2>4, <2>5, <2>6 DEF Record, TypeOK, options
  <1>5. CASE Save
    <2>1. pc' \in {"loop", "record"} /\ exhausted' \in BOOLEAN
      BY <1>5 DEF Save
    <2> QED BY <1>5, <2>1, SavedType DEF Save, TypeOK, options
  <1>6. CASE Report
    <2>1. verdict' \in {"ok", "failed", "budget"} /\ pc' = "returned"
      BY <1>6 DEF Report, Verdict
    <2> QED BY <1>6, <2>1, SavedType DEF Report, TypeOK, options, memory
  <1> QED BY <1>1, <1>2, <1>3, <1>4, <1>5, <1>6 DEF Main

LEMMA ReturnType ==
    ASSUME TypeInv, NEW m \in Modules, Working(m), NEW ok \in BOOLEAN, NEW c \in Nat,
           Return(m, ok, c), Quiet
    PROVE  /\ result' \in [Modules -> Results \cup {None}]
           /\ \A n \in batch' : result'[n] # None
  <1>1. [ok |-> ok, cost |-> c] \in Results
    BY DEF Results
  <1>2. result' \in [Modules -> Results \cup {None}]
    BY <1>1 DEF Return, TypeInv, TypeOK
  <1>3. m \notin batch /\ batch' = batch
    BY DEF TypeInv, Working, Quiet
  <1>4. \A n \in batch : result'[n] = result[n]
    BY <1>3 DEF Return, TypeInv, TypeOK
  <1> QED BY <1>2, <1>3, <1>4 DEF TypeInv

LEMMA TotalType ==
    ASSUME TypeOK, NEW m \in Modules, NEW c \in Costs
    PROVE  c \in Nat /\ Total(m, c) \in Nat /\ paid + c \in Nat
  BY ConstantsAssumption DEF TypeOK, Total

LEMMA WorkerType == ASSUME TypeInv, NEW m \in Modules, Worker(m) PROVE TypeInv'
  <1>1. ASSUME NEW c \in Costs, AttemptOk(m, c) PROVE TypeInv'
    <2>1. /\ result' \in [Modules -> Results \cup {None}]
          /\ \A n \in batch' : result'[n] # None
      BY <1>1, TotalType, ReturnType DEF AttemptOk, TypeInv
    <2> QED BY <1>1, <2>1, TotalType DEF AttemptOk, Quiet, TypeInv, TypeOK, options
  <1>2. ASSUME NEW c \in Costs, AttemptFatal(m, c) PROVE TypeInv'
    <2>1. /\ result' \in [Modules -> Results \cup {None}]
          /\ \A n \in batch' : result'[n] # None
      BY <1>2, TotalType, ReturnType DEF AttemptFatal, TypeInv
    <2> QED BY <1>2, <2>1, TotalType DEF AttemptFatal, Quiet, TypeInv, TypeOK, options
  <1>3. ASSUME NEW c \in Costs, NEW kind \in Kinds, NEW s \in Signatures,
               AttemptAgain(m, c, kind, s) PROVE TypeInv'
    <2>1. worker[m].attempt \in 1..3 /\ worker[m].attempt < 3
      BY <1>3 DEF AttemptAgain, GivesUp, AttemptLimit, TypeInv, TypeOK
    <2>2. [attempt |-> worker[m].attempt + 1, spent |-> Total(m, c), kind |-> kind,
           signature |-> s]
            \in [attempt : 1..3, spent : Nat, kind : Kinds \cup {"none"},
                 signature : Signatures \cup {None}]
      BY <2>1, TotalType DEF TypeInv
    <2>3. worker' \in [Modules -> [attempt : 1..3, spent : Nat, kind : Kinds \cup {"none"},
                                   signature : Signatures \cup {None}]]
      BY <1>3, <2>2 DEF AttemptAgain, TypeInv, TypeOK
    <2> QED BY <1>3, <2>3, TotalType DEF AttemptAgain, Quiet, TypeInv, TypeOK, options
  <1>4. ASSUME NEW c \in Costs, NEW kind \in Kinds, NEW s \in Signatures,
               AttemptGivesUp(m, c, kind, s) PROVE TypeInv'
    <2>1. PICK reviewed \in BOOLEAN :
             /\ Return(m, reviewed, Total(m, c))
             /\ synced' = IF reviewed THEN synced \cup {m} ELSE synced
      BY <1>4 DEF AttemptGivesUp
    <2>2. /\ result' \in [Modules -> Results \cup {None}]
          /\ \A n \in batch' : result'[n] # None
      BY <1>4, <2>1, TotalType, ReturnType DEF AttemptGivesUp, TypeInv
    <2>3. synced' \subseteq Modules
      BY <2>1 DEF TypeInv, TypeOK
    <2> QED BY <1>4, <2>2, <2>3, TotalType
            DEF AttemptGivesUp, Quiet, TypeInv, TypeOK, options
  <1>5. CASE AttemptRaises(m)
    <2>1. /\ result' \in [Modules -> Results \cup {None}]
          /\ \A n \in batch' : result'[n] # None
      BY <1>5, ReturnType DEF AttemptRaises
    <2> QED BY <1>5, <2>1 DEF AttemptRaises, Quiet, TypeInv, TypeOK, options
  <1> QED BY <1>1, <1>2, <1>3, <1>4, <1>5 DEF Worker

LEMMA ResetType ==
    ASSUME Reset, status' \in [Modules -> Statuses],
           \A m \in Modules : status'[m] # "running"
    PROVE  /\ futures' = {} /\ batch' = {} /\ exhausted' \in BOOLEAN
           /\ {m \in Modules : status'[m] = "running"} = {}
           /\ result' \in [Modules -> Results \cup {None}]
           /\ worker' \in [Modules -> [attempt : 1..3, spent : Nat, kind : Kinds \cup {"none"},
                                       signature : Signatures \cup {None}]]
  BY FreshType DEF Reset

LEMMA ProcessType ==
    ASSUME TypeInv, (\E i \in Issues, b \in Budgets : Start(i, b)) \/ Crash
    PROVE  TypeInv'
  <1>1. ASSUME NEW i \in Issues, NEW b \in Budgets, Start(i, b) PROVE TypeInv'
    <2>1. status' \in [Modules -> Statuses] /\ \A m \in Modules : status'[m] # "running"
      BY <1>1 DEF Start, Statuses
    <2>2. \A m \in Loaded(i) : file.cost[m] \in Nat
      BY DEF Loaded, Restored, TypeInv, TypeOK
    <2>3. cost' \in [Modules -> Nat]
      BY <1>1, <2>2 DEF Start
    <2> QED BY <1>1, <2>1, <2>3, ResetType DEF Start, TypeInv, TypeOK
  <1>2. CASE Crash
    <2>1. /\ status' \in [Modules -> Statuses] /\ cost' \in [Modules -> Nat]
          /\ \A m \in Modules : status'[m] # "running"
      BY <1>2 DEF Crash, Statuses
    <2> QED BY <1>2, <2>1, ResetType DEF Crash, TypeInv, TypeOK, options
  <1> QED BY <1>1, <1>2

LEMMA BatchResults == ASSUME TypeInv, Main PROVE \A m \in batch' : result'[m] # None
  <1>1. ASSUME NEW m \in Modules, Record(m) PROVE \A n \in batch' : result'[n] # None
    BY <1>1 DEF Record, TypeInv, TypeOK
  <1> QED BY <1>1 DEF Main, Schedule, LoopEnds, Wait, Save, Report, TypeInv, memory

LEMMA NextType == TypeInv /\ [Next]_vars => TypeInv'
  <1> SUFFICES ASSUME TypeInv, [Next]_vars PROVE TypeInv'
    OBVIOUS
  <1>1. CASE Main
    BY <1>1, MainType, BatchResults DEF TypeInv
  <1>2. ASSUME NEW m \in Modules, Worker(m) PROVE TypeInv'
    BY <1>2, WorkerType
  <1>3. CASE (\E i \in Issues, b \in Budgets : Start(i, b)) \/ Crash
    BY <1>3, ProcessType
  <1>4. CASE UNCHANGED vars
    BY <1>4 DEF vars, memory, options, TypeInv, TypeOK
  <1> QED BY <1>1, <1>2, <1>3, <1>4 DEF Next

\* Every variable keeps its form, and the futures are the running modules.
THEOREM TypeCorrect == Spec => []TypeOK
  <1>1. Spec => []TypeInv
    BY InitType, NextType, PTL DEF Spec
  <1>2. TypeInv => TypeOK
    BY DEF TypeInv
  <1> QED BY <1>1, <1>2, PTL

(***************************************************************************)
(* Dependencies first.  UpstreamDone is inductive together with the same   *)
(* fact about the successes in the state file, which a resume restores.    *)
(***************************************************************************)
SavedUpstreamDone ==
    file # None =>
        \A m \in Modules : file.status[m] = "success" =>
            \A u \in Reach[m] \ Scc[m] : file.status[u] = "success"

OrderInv == TypeInv /\ UpstreamDone /\ SavedUpstreamDone

\* What _get_ready_modules checks on direct dependencies reaches all of them.
LEMMA EligibleUpstream ==
    ASSUME OrderInv, NEW m \in Modules, Eligible(m), NEW u \in Reach[m] \ Scc[m]
    PROVE  status[u] = "success"
  <1> DEFINE S == Scc[m] \cup {n \in Modules : \A z \in Scc[n] : status[z] = "success"}
  <1>1. S \subseteq Modules /\ m \in S
    BY SccFacts
  <1>2. Closed(S)
    <2> SUFFICES ASSUME NEW x \in S, NEW y \in Deps[x] PROVE y \in S
      BY DEF Closed
    <2>1. x \in Modules /\ y \in Modules /\ y \in Reach[x]
      BY <1>1, ReachStep
    <2>2. CASE x \in Scc[m]
      <3>1. EdgeReady(m, y)
        BY <2>2 DEF Eligible, DepsReady
      <3> QED BY <2>1, <3>1 DEF EdgeReady
    <2>3. CASE \A z \in Scc[x] : status[z] = "success"
      <3>1. CASE y \in Scc[x]
        <4>1. Scc[y] = Scc[x]
          BY <2>1, <3>1, SccFacts
        <4> QED BY <2>1, <2>3, <4>1
      <3>2. CASE y \notin Scc[x]
        <4>1. status[x] = "success"
          BY <2>1, <2>3, SccFacts
        <4>2. \A z \in Scc[y] : z \in Reach[x] \ Scc[x]
          BY <2>1, <3>2, SccBelow
        <4>3. \A z \in Scc[y] : status[z] = "success"
          BY <2>1, <4>1, <4>2 DEF OrderInv, UpstreamDone
        <4> QED BY <2>1, <4>3
      <3> QED BY <3>1, <3>2
    <2> QED BY <2>1, <2>2, <2>3
  <1>3. u \in S
    BY <1>1, <1>2 DEF Reach
  <1>4. u \in Modules /\ u \in Scc[u]
    BY ReachIn, SccFacts
  <1> QED BY <1>3, <1>4

\* A step after which the modules that have begun had begun, and no success is
\* lost, keeps the order.
LEMMA SuccessStays ==
    ASSUME UpstreamDone,
           \A m \in Modules : status'[m] # "pending" => status[m] # "pending",
           \A m \in Modules : status[m] = "success" => status'[m] = "success"
    PROVE  UpstreamDone'
  BY ReachIn DEF UpstreamDone

LEMMA OrderStatus == ASSUME OrderInv, [Next]_vars PROVE UpstreamDone'
  <1>1. CASE Schedule
    <2> SUFFICES ASSUME NEW m \in Modules, status'[m] # "pending",
                        NEW u \in Reach[m] \ Scc[m]
                 PROVE  status'[u] = "success"
      BY DEF UpstreamDone
    <2>1. u \in Modules
      BY ReachIn
    <2>2. status[u] = "success" => status'[u] = "success"
      BY <1>1, <2>1, StartedFacts DEF Schedule
    <2>3. CASE m \in Started
      BY <2>2, <2>3, StartedFacts, EligibleUpstream
    <2>4. CASE m \notin Started
      <3>1. status[m] # "pending"
        BY <1>1, <2>4 DEF Schedule
      <3> QED BY <2>2, <3>1 DEF OrderInv, UpstreamDone
    <2> QED BY <2>3, <2>4
  <1>2. ASSUME NEW m \in Modules, Record(m) PROVE UpstreamDone'
    <2>1. m \in futures /\ status[m] = "running"
      BY <1>2 DEF Record, OrderInv, TypeInv, TypeOK
    <2>2. status' = [status EXCEPT ![m] = status'[m]] /\ status \in [Modules -> Statuses]
      BY <1>2 DEF Record, OrderInv, TypeInv, TypeOK
    <2> QED BY <2>1, <2>2, SuccessStays DEF OrderInv
  <1>3. CASE status' = status
    BY <1>3, SuccessStays DEF OrderInv
  <1>4. ASSUME NEW i \in Issues, NEW b \in Budgets, Start(i, b) PROVE UpstreamDone'
    <2>1. \A m \in Modules : status'[m] # "pending" <=> Restored(i, m)
      BY <1>4 DEF Start, Loaded
    <2>2. \A m \in Modules : Restored(i, m) => status'[m] = "success"
      BY <1>4 DEF Start, Loaded
    <2>3. ASSUME NEW m \in Modules, Restored(i, m), NEW u \in Reach[m] \ Scc[m]
          PROVE  Restored(i, u)
      BY <2>3 DEF Restored, OrderInv, SavedUpstreamDone
    <2> QED BY <2>1, <2>2, <2>3, ReachIn DEF UpstreamDone
  <1>5. CASE Crash
    BY <1>5 DEF Crash, UpstreamDone
  <1>6. ASSUME NEW m \in Modules, Worker(m) PROVE status' = status
    BY <1>6 DEF Worker, AttemptOk, AttemptFatal, AttemptAgain, AttemptGivesUp,
                AttemptRaises, Quiet
  <1>7. CASE LoopEnds \/ Wait \/ Save \/ Report \/ UNCHANGED vars
    BY <1>3, <1>7 DEF LoopEnds, Wait, Save, Report, vars, memory
  <1> QED BY <1>1, <1>2, <1>3, <1>4, <1>5, <1>6, <1>7 DEF Next, Main

\* The file changes only by a save of the statuses, or is removed.
LEMMA FileStep ==
    ASSUME TypeInv, [Next]_vars
    PROVE  \/ file' = file
           \/ file' = None
           \/ (Save \/ Report) /\ file' = Saved
  <1>1. ASSUME NEW m \in Modules, Worker(m) PROVE file' = file
    BY <1>1 DEF Worker, AttemptOk, AttemptFatal, AttemptAgain, AttemptGivesUp,
                AttemptRaises, Quiet
  <1>2. ASSUME NEW i \in Issues, NEW b \in Budgets, Start(i, b) PROVE file' = file
    BY <1>2 DEF Start
  <1>3. CASE Schedule \/ LoopEnds \/ Wait \/ (\E m \in Modules : Record(m)) \/ Crash
             \/ UNCHANGED vars
    BY <1>3 DEF Schedule, LoopEnds, Wait, Record, Crash, vars
  <1>4. CASE Save \/ Report
    BY <1>4 DEF Save, Report
  <1> QED BY <1>1, <1>2, <1>3, <1>4 DEF Next, Main

LEMMA OrderSaved == ASSUME OrderInv, [Next]_vars PROVE SavedUpstreamDone'
  <1>1. CASE file' = file \/ file' = None
    BY <1>1 DEF OrderInv, SavedUpstreamDone
  <1>2. CASE file' = Saved
    <2>1. CASE issue = NoIssue
      BY <1>1, <1>2, <2>1 DEF Saved
    <2>2. CASE issue # NoIssue
      <3>1. file'.status = status
        BY <1>2, <2>2 DEF Saved
      <3>2. ASSUME NEW m \in Modules, status[m] = "success", NEW u \in Reach[m] \ Scc[m]
            PROVE  status[u] = "success"
        BY <3>2 DEF OrderInv, UpstreamDone
      <3> QED BY <3>1, <3>2 DEF SavedUpstreamDone
    <2> QED BY <2>1, <2>2
  <1> QED BY <1>1, <1>2, FileStep DEF OrderInv

\* A module begins only when all it depends on outside its cycle is synced.
THEOREM DependenciesFirst == Spec => []UpstreamDone
  <1>1. Init => OrderInv
    BY InitType DEF Init, OrderInv, UpstreamDone, SavedUpstreamDone
  <1>2. OrderInv /\ [Next]_vars => OrderInv'
    BY NextType, OrderStatus, OrderSaved DEF OrderInv
  <1>3. OrderInv => UpstreamDone
    BY DEF OrderInv
  <1> QED BY <1>1, <1>2, <1>3, PTL DEF Spec

(***************************************************************************)
(* Cycles are serialised.                                                  *)
(***************************************************************************)
LEMMA CycleStep == ASSUME TypeInv, CycleSerial, [Next]_vars PROVE CycleSerial'
  <1>1. CASE Schedule
    <2> SUFFICES ASSUME NEW m \in futures', NEW n \in futures', Scc[m] = Scc[n], m # n
                 PROVE  FALSE
      BY DEF CycleSerial
    <2>1. /\ m \in Modules /\ n \in Modules
          /\ m \in futures \cup Started /\ n \in futures \cup Started
      BY <1>1, StartedFacts DEF Schedule, TypeInv, TypeOK
    <2>2. m \in Scc[n] /\ n \in Scc[m] /\ InCycle(m) /\ InCycle(n)
      BY <2>1, SccFacts DEF InCycle
    <2>3. \A x \in futures : status[x] = "running"
      BY DEF TypeInv, TypeOK
    <2>4. CASE m \in futures /\ n \in futures
      BY <2>4 DEF CycleSerial
    <2>5. CASE m \in Started /\ n \in futures
      BY <2>2, <2>3, <2>5, StartedFacts DEF Eligible
    <2>6. CASE m \in futures /\ n \in Started
      BY <2>2, <2>3, <2>6, StartedFacts DEF Eligible
    <2>7. CASE m \in Started /\ n \in Started
      <3>1. m <= n /\ n <= m
        BY <2>2, <2>7, StartedFacts DEF First
      <3> QED BY <2>1, <3>1, ConstantsAssumption
    <2> QED BY <2>1, <2>4, <2>5, <2>6, <2>7
  <1>2. CASE futures' \subseteq futures
    BY <1>2 DEF CycleSerial
  <1>3. ASSUME NEW m \in Modules, Record(m) PROVE futures' \subseteq futures
    BY <1>3 DEF Record, Popped
  <1>4. ASSUME NEW m \in Modules, Worker(m) PROVE futures' = futures
    BY <1>4 DEF Worker, AttemptOk, AttemptFatal, AttemptAgain, AttemptGivesUp,
                AttemptRaises, Quiet
  <1>5. ASSUME NEW i \in Issues, NEW b \in Budgets, Start(i, b) PROVE futures' = {}
    BY <1>5 DEF Start, Reset
  <1>6. CASE Crash
    BY <1>2, <1>6 DEF Crash, Reset
  <1>7. CASE LoopEnds \/ Wait \/ Save \/ Report \/ UNCHANGED vars
    BY <1>2, <1>7 DEF LoopEnds, Wait, Save, Report, vars, memory
  <1> QED BY <1>1, <1>2, <1>3, <1>4, <1>5, <1>6, <1>7 DEF Next, Main

\* No two members of a dependency cycle are ever running at once.
THEOREM CyclesSerialised == Spec => []CycleSerial
  <1>1. Init => TypeInv /\ CycleSerial
    BY InitType DEF Init, CycleSerial
  <1>2. TypeInv /\ CycleSerial /\ [Next]_vars => (TypeInv /\ CycleSerial)'
    BY NextType, CycleStep
  <1> QED BY <1>1, <1>2, PTL DEF Spec

(***************************************************************************)
(* The report is true.  A success, wherever the runner keeps it (a result, *)
(* a status, the state file, the verdict), is one some child really had.   *)
(***************************************************************************)
SuccessIsReal ==
    /\ \A m \in Modules : status[m] = "success" => m \in synced
    /\ \A m \in Modules : result[m] # None /\ result[m].ok => m \in synced
    /\ \A m \in Modules : file # None /\ file.status[m] = "success" => m \in synced
    /\ ReportIsTrue

ReportInv == TypeInv /\ SuccessIsReal

\* A worker only adds its own module to the accepted ones, and only then
\* returns a success for it.
LEMMA ReturnReal ==
    ASSUME ReportInv, NEW m \in Modules, NEW ok \in BOOLEAN, NEW c \in Nat,
           Return(m, ok, c), Quiet,
           synced' = IF ok THEN synced \cup {m} ELSE synced
    PROVE  SuccessIsReal'
  <1>1. \A n \in Modules : result'[n] # None /\ result'[n].ok => n \in synced'
    BY DEF Return, ReportInv, SuccessIsReal, TypeInv, TypeOK
  <1>2. synced \subseteq synced' /\ synced' \subseteq Modules
    BY DEF ReportInv, TypeInv, TypeOK
  <1>3. status' = status /\ file' = file /\ verdict' = verdict
    BY DEF Quiet
  <1> QED BY <1>1, <1>2, <1>3 DEF ReportInv, SuccessIsReal, ReportIsTrue

LEMMA WorkerReal == ASSUME ReportInv, NEW m \in Modules, Worker(m) PROVE SuccessIsReal'
  <1>1. TypeOK
    BY DEF ReportInv, TypeInv
  <1>2. ASSUME NEW c \in Costs, AttemptOk(m, c) PROVE SuccessIsReal'
    BY <1>1, <1>2, TotalType, ReturnReal DEF AttemptOk
  <1>3. ASSUME NEW c \in Costs, AttemptFatal(m, c) PROVE SuccessIsReal'
    BY <1>1, <1>3, TotalType, ReturnReal DEF AttemptFatal
  <1>4. ASSUME NEW c \in Costs, NEW kind \in Kinds, NEW s \in Signatures,
               AttemptAgain(m, c, kind, s) PROVE SuccessIsReal'
    BY <1>4 DEF AttemptAgain, Quiet, ReportInv, SuccessIsReal, ReportIsTrue
  <1>5. ASSUME NEW c \in Costs, NEW kind \in Kinds, NEW s \in Signatures,
               AttemptGivesUp(m, c, kind, s) PROVE SuccessIsReal'
    <2>1. PICK reviewed \in BOOLEAN :
             /\ Return(m, reviewed, Total(m, c))
             /\ synced' = IF reviewed THEN synced \cup {m} ELSE synced
      BY <1>5 DEF AttemptGivesUp
    <2> QED BY <1>1, <1>5, <2>1, TotalType, ReturnReal DEF AttemptGivesUp
  <1>6. CASE AttemptRaises(m)
    BY <1>6, ReturnReal DEF AttemptRaises
  <1> QED BY <1>2, <1>3, <1>4, <1>5, <1>6 DEF Worker

\* What is saved is the statuses as they are.
LEMMA SavedReal ==
    ASSUME ReportInv, NEW m \in Modules, Saved # None, Saved.status[m] = "success"
    PROVE  m \in synced
  BY DEF ReportInv, SuccessIsReal, Saved

LEMMA MainReal == ASSUME ReportInv, Main PROVE SuccessIsReal'
  <1> USE DEF ReportInv, SuccessIsReal, ReportIsTrue
  <1>1. CASE Schedule
    BY <1>1 DEF Schedule
  <1>2. CASE LoopEnds
    BY <1>2 DEF LoopEnds, memory
  <1>3. CASE Wait
    BY <1>3 DEF Wait
  <1>4. ASSUME NEW m \in Modules, Record(m) PROVE SuccessIsReal'
    <2>1. result[m] # None
      BY <1>4 DEF Record, TypeInv
    <2>2. result[m].ok => m \in synced
      BY <2>1
    <2>3. \A n \in Modules : status'[n] = "success" => n \in synced
      BY <1>4, <2>2 DEF Record, TypeInv, TypeOK
    <2>4. \A n \in Modules : result'[n] # None => result'[n] = result[n]
      BY <1>4 DEF Record, TypeInv, TypeOK
    <2> QED BY <1>4, <2>3, <2>4 DEF Record
  <1>5. CASE Save
    BY <1>5, SavedReal DEF Save
  <1>6. CASE Report
    <2>1. verdict' = "ok" => synced = Modules
      BY <1>6 DEF Report, Verdict, TypeInv, TypeOK
    <2> QED BY <1>6, <2>1, SavedReal DEF Report, memory
  <1> QED BY <1>1, <1>2, <1>3, <1>4, <1>5, <1>6 DEF Main

LEMMA NextReal == ASSUME ReportInv, [Next]_vars PROVE SuccessIsReal'
  <1> USE DEF ReportInv, SuccessIsReal, ReportIsTrue
  <1>1. ASSUME NEW i \in Issues, NEW b \in Budgets, Start(i, b) PROVE SuccessIsReal'
    BY <1>1 DEF Start, Reset, Loaded, Restored
  <1>2. CASE Crash
    BY <1>2 DEF Crash, Reset
  <1>3. CASE UNCHANGED vars
    BY <1>3 DEF vars, memory
  <1> QED BY <1>1, <1>2, <1>3, MainReal, WorkerReal DEF Next

\* When run() reports success every module was really synced.
THEOREM ReportHolds == Spec => []ReportIsTrue
  <1>1. Init => ReportInv
    BY InitType DEF Init, ReportInv, SuccessIsReal, ReportIsTrue
  <1>2. ReportInv /\ [Next]_vars => ReportInv'
    BY NextType, NextReal DEF ReportInv
  <1>3. ReportInv => ReportIsTrue
    BY DEF ReportInv, SuccessIsReal
  <1> QED BY <1>1, <1>2, <1>3, PTL DEF Spec

(***************************************************************************)
(* Progress is kept.  While the runner is up, what its state file has as a *)
(* success it has as a success too, so it neither schedules it nor saves   *)
(* anything else.                                                          *)
(***************************************************************************)
KeepInv ==
    /\ TypeInv
    /\ pc = "down" => futures = {}
    /\ pc # "down" => \A m \in Modules : Restored(issue, m) => status[m] = "success"

\* What the state file has is not running.
LEMMA RestoredIdle ==
    ASSUME KeepInv, NEW m \in Modules, Restored(issue, m)
    PROVE  m \notin futures
  BY DEF KeepInv, TypeInv, TypeOK

LEMMA WorkerQuiet ==
    ASSUME NEW m \in Modules, Worker(m)
    PROVE  UNCHANGED <<pc, options, status, futures, file>>
  BY DEF Worker, AttemptOk, AttemptFatal, AttemptAgain, AttemptGivesUp, AttemptRaises, Quiet

\* Saving while up writes every success the file had.
LEMMA SavedKeeps ==
    ASSUME KeepInv, pc # "down", NEW m \in Modules, Restored(issue, m)
    PROVE  Saved # None => Saved.status[m] = "success"
  BY DEF KeepInv, Restored, Saved

LEMMA SavedIsStatus ==
    ASSUME issue # NoIssue, Saved # None, NEW m \in Modules, Saved.status[m] = "success"
    PROVE  status[m] = "success"
  BY DEF Saved

LEMMA KeepStep == ASSUME KeepInv, [Next]_vars PROVE KeepInv'
  <1>0. TypeInv'
    BY NextType DEF KeepInv
  <1>1. CASE Schedule
    BY <1>0, <1>1, StartedFacts DEF Schedule, AfterSchedule, KeepInv, options, Restored
  <1>2. ASSUME NEW m \in Modules, Record(m) PROVE KeepInv'
    <2>1. status[m] = "running" /\ pc' = "save" /\ pc # "down"
      BY <1>2 DEF Record, KeepInv, TypeInv, TypeOK
    <2>2. \A n \in Modules : status[n] = "success" => status'[n] = "success"
      BY <1>2, <2>1 DEF Record, KeepInv, TypeInv, TypeOK
    <2>3. UNCHANGED <<issue, file>>
      BY <1>2 DEF Record, options
    <2> QED BY <1>0, <2>1, <2>2, <2>3 DEF KeepInv, Restored
  <1>3. CASE Save \/ Report
    <2>1. pc' # "down" /\ pc # "down" /\ UNCHANGED <<issue, status>>
      BY <1>3 DEF Save, Report, options, memory
    <2>2. file' = None \/ file' = Saved
      BY <1>3 DEF Save, Report
    <2> QED BY <1>0, <2>1, <2>2, SavedIsStatus DEF KeepInv, Restored
  <1>4. ASSUME NEW i \in Issues, NEW b \in Budgets, Start(i, b) PROVE KeepInv'
    BY <1>0, <1>4 DEF Start, Loaded, Restored, KeepInv
  <1>5. CASE Crash
    BY <1>0, <1>5 DEF Crash, Reset, KeepInv
  <1>6. ASSUME NEW m \in Modules, Worker(m) PROVE KeepInv'
    BY <1>0, <1>6, WorkerQuiet DEF KeepInv, Restored, options
  <1>7. CASE LoopEnds \/ Wait \/ UNCHANGED vars
    BY <1>0, <1>7 DEF LoopEnds, Wait, vars, memory, options, KeepInv, Restored
  <1> QED BY <1>1, <1>2, <1>3, <1>4, <1>5, <1>6, <1>7 DEF Next, Main

KeptStep ==
    \A m \in Modules : Restored(issue, m) /\ issue' = issue =>
        /\ m \notin futures'
        /\ file' # None => file'.status[m] = "success"

LEMMA KeptByNext == ASSUME KeepInv, [Next]_vars PROVE KeptStep
  <1> SUFFICES ASSUME NEW m \in Modules, Restored(issue, m), issue' = issue
               PROVE  m \notin futures' /\ (file' # None => file'.status[m] = "success")
    BY DEF KeptStep
  <1>1. file.status[m] = "success" /\ m \notin futures
    BY RestoredIdle DEF Restored
  <1>2. CASE Schedule
    BY <1>1, <1>2, StartedFacts DEF Schedule, KeepInv
  <1>3. CASE Save \/ Report
    <2>1. pc # "down" /\ futures' = futures /\ (file' = None \/ file' = Saved)
      BY <1>3 DEF Save, Report, memory
    <2> QED BY <1>1, <2>1, SavedKeeps
  <1>4. ASSUME NEW n \in Modules, Record(n) PROVE futures' \subseteq futures /\ file' = file
    BY <1>4 DEF Record, Popped
  <1>5. ASSUME NEW i \in Issues, NEW b \in Budgets, Start(i, b)
        PROVE  futures' = {} /\ file' = file
    BY <1>5 DEF Start, Reset
  <1>6. CASE Crash
    BY <1>1, <1>6 DEF Crash, Reset
  <1>7. CASE LoopEnds \/ Wait \/ UNCHANGED vars
    BY <1>1, <1>7 DEF LoopEnds, Wait, vars, memory
  <1> QED BY <1>1, <1>2, <1>3, <1>4, <1>5, <1>6, <1>7, WorkerQuiet DEF Next, Main

\* A success in the state file is neither run again nor lost from it.
THEOREM ProgressIsKept == Spec => ProgressKept
  <1>1. Init => KeepInv
    BY InitType DEF Init, KeepInv
  <1>2. KeepInv /\ [Next]_vars => KeepInv'
    BY KeepStep
  <1>3. KeepInv /\ [Next]_vars => [KeptStep]_vars
    BY KeptByNext
  <1>4. ProgressKept <=> [][KeptStep]_vars
    BY DEF ProgressKept, KeptStep
  <1> QED BY <1>1, <1>2, <1>3, <1>4, PTL DEF Spec

(***************************************************************************)
(* The worker limit.  A ready module is picked by its rank: how many ready *)
(* ones come before it in the order of `basenames`.                        *)
(***************************************************************************)
Rank(m) == Cardinality({n \in Ready : n < m})

LEMMA RankFacts ==
    /\ IsFiniteSet(Ready) /\ Ready \subseteq Modules
    /\ \A m \in Ready : Rank(m) \in Nat
    /\ \A m, n \in Ready : m < n => Rank(m) < Rank(n)
  <1>1. IsFiniteSet(Ready) /\ Ready \subseteq Modules
    <2>1. Ready \in SUBSET Modules
      BY DEF Ready
    <2> QED BY <2>1, FS_Subset, ConstantsAssumption
  <1>2. \A m \in Ready : IsFiniteSet({n \in Ready : n < m})
    <2> SUFFICES ASSUME NEW m \in Ready PROVE IsFiniteSet({n \in Ready : n < m})
      OBVIOUS
    <2>1. {n \in Ready : n < m} \in SUBSET Ready
      OBVIOUS
    <2> QED BY <1>1, <2>1, FS_Subset
  <1>3. \A m \in Ready : Rank(m) \in Nat
    BY <1>2, FS_CardinalityType DEF Rank
  <1>4. ASSUME NEW m \in Ready, NEW n \in Ready, m < n PROVE Rank(m) < Rank(n)
    <2> DEFINE A == {x \in Ready : x < m}
               B == {x \in Ready : x < n}
    <2>1. m \notin A /\ IsFiniteSet(A) /\ IsFiniteSet(B)
      <3>1. m \in Nat
        BY <1>1, ConstantsAssumption
      <3> QED BY <1>2, <3>1
    <2>2. A \cup {m} \in SUBSET B
      <3>1. \A x \in Ready : x \in Nat
        BY <1>1, ConstantsAssumption
      <3>2. \A x \in Ready : x < m => x < n
        BY <1>4, <3>1
      <3> QED BY <1>4, <3>2
    <2>3. Cardinality(A \cup {m}) = Cardinality(A) + 1
      BY <2>1, FS_AddElement
    <2>4. Cardinality(A \cup {m}) <= Cardinality(B)
      BY <2>1, <2>2, FS_Subset
    <2>5. Rank(m) = Cardinality(A) /\ Rank(n) = Cardinality(B)
      BY DEF Rank
    <2> HIDE DEF A, B
    <2> QED BY <1>3, <2>3, <2>4, <2>5
  <1> QED BY <1>1, <1>3, <1>4

\* ready[:available] is never longer than available.
LEMMA PickedBound ==
    ASSUME NEW k \in Nat, Available = k
    PROVE  IsFiniteSet(Picked) /\ Cardinality(Picked) <= k
  <1>1. Picked \in SUBSET Ready
    BY DEF Picked
  <1>2. IsFiniteSet(Picked) /\ Cardinality(Picked) \in Nat
    BY <1>1, RankFacts, FS_Subset, FS_CardinalityType
  <1>3. ASSUME k < Cardinality(Picked) PROVE FALSE
    <2> DEFINE Slots == 0 .. (k - 1)
               f == [m \in Picked |-> Rank(m)]
    <2>1. \A m \in Picked : Rank(m) \in Slots
      BY <1>1, RankFacts DEF Picked, Rank
    <2>2. f \in [Picked -> Slots]
      BY <2>1
    <2>3. IsFiniteSet(Slots) /\ Cardinality(Slots) = k
      BY FS_Interval
    <2>4. PICK m, n \in Picked : m # n /\ f[m] = f[n]
      <3> HIDE DEF f, Slots
      <3> QED BY <1>2, <1>3, <2>2, <2>3, FS_PigeonHole
    <2>5. m \in Ready /\ n \in Ready /\ m \in Nat /\ n \in Nat
      BY <1>1, RankFacts, ConstantsAssumption
    <2>6. Rank(m) = Rank(n)
      BY <2>4
    <2> QED BY <2>4, <2>5, <2>6, RankFacts
  <1> QED BY <1>2, <1>3

CapInv == TypeInv /\ WorkerCap

LEMMA FuturesFinite ==
    ASSUME TypeInv
    PROVE  IsFiniteSet(futures) /\ Cardinality(futures) \in Nat /\ MaxWorkers \in Nat
  <1>1. futures \in SUBSET Modules
    BY DEF TypeInv, TypeOK
  <1> QED BY <1>1, FS_Subset, FS_CardinalityType, ConstantsAssumption DEF MaxWorkers

LEMMA ScheduleCap == ASSUME CapInv, Schedule PROVE WorkerCap'
  <1>1. /\ IsFiniteSet(futures) /\ Cardinality(futures) \in Nat /\ MaxWorkers \in Nat
        /\ Cardinality(futures) <= MaxWorkers /\ MaxWorkers' = MaxWorkers
    BY FuturesFinite DEF CapInv, WorkerCap, MaxWorkers, Schedule, options
  <1>2. Available \in Nat
    BY <1>1 DEF Available
  <1>3. IsFiniteSet(Started) /\ Cardinality(Started) <= Available
    BY <1>2, PickedBound, FS_EmptySet DEF Started
  <1>4. Cardinality(Started) \in Nat
    BY <1>3, FS_CardinalityType
  <1>5. futures \cap Started = {}
    BY StartedFacts DEF CapInv, TypeInv, TypeOK
  <1>6. Cardinality(futures \cup Started) = Cardinality(futures) + Cardinality(Started)
    <2>1. Cardinality(futures \cup Started)
            = Cardinality(futures) + Cardinality(Started) - Cardinality(futures \cap Started)
      BY <1>1, <1>3, FS_Union
    <2>2. Cardinality(futures \cap Started) = 0
      BY <1>5, FS_EmptySet
    <2> QED BY <1>1, <1>4, <2>1, <2>2
  <1>7. futures' = futures \cup Started
    BY DEF Schedule
  <1>8. Cardinality(futures') <= MaxWorkers
    BY <1>1, <1>3, <1>4, <1>6, <1>7 DEF Available
  <1> QED BY <1>1, <1>8 DEF WorkerCap

LEMMA CapStep == ASSUME CapInv, [Next]_vars PROVE WorkerCap'
  <1>1. ASSUME budget' = budget, futures' \subseteq futures PROVE WorkerCap'
    <2>1. /\ IsFiniteSet(futures) /\ Cardinality(futures) \in Nat /\ MaxWorkers \in Nat
          /\ Cardinality(futures) <= MaxWorkers /\ MaxWorkers' = MaxWorkers
      BY <1>1, FuturesFinite DEF CapInv, WorkerCap, MaxWorkers
    <2>2. IsFiniteSet(futures') /\ Cardinality(futures') <= Cardinality(futures)
      BY <1>1, <2>1, FS_Subset
    <2>3. Cardinality(futures') \in Nat
      BY <2>2, FS_CardinalityType
    <2> QED BY <2>1, <2>2, <2>3 DEF WorkerCap
  <1>2. ASSUME NEW m \in Modules, Record(m) PROVE WorkerCap'
    BY <1>1, <1>2 DEF Record, Popped, options
  <1>3. ASSUME NEW i \in Issues, NEW b \in Budgets, Start(i, b) PROVE WorkerCap'
    <2>1. Cardinality(futures') = 0
      BY <1>3, FS_EmptySet DEF Start, Reset
    <2>2. MaxWorkers' \in Nat
      BY ConstantsAssumption DEF MaxWorkers
    <2> QED BY <2>1, <2>2 DEF WorkerCap
  <1>4. CASE Crash
    BY <1>1, <1>4 DEF Crash, Reset, options
  <1>5. ASSUME NEW m \in Modules, Worker(m) PROVE WorkerCap'
    BY <1>1, <1>5, WorkerQuiet DEF options
  <1>6. CASE LoopEnds \/ Wait \/ Save \/ Report \/ UNCHANGED vars
    BY <1>1, <1>6 DEF LoopEnds, Wait, Save, Report, vars, memory, options
  <1> QED BY <1>2, <1>3, <1>4, <1>5, <1>6, ScheduleCap DEF Next, Main

\* Never more children than the limit, and one at a time under a budget.
THEOREM WorkersCapped == Spec => []WorkerCap
  <1>1. Init => CapInv
    <2>1. Init => Cardinality(futures) = 0 /\ MaxWorkers \in Nat
      BY FS_EmptySet, ConstantsAssumption DEF Init, MaxWorkers
    <2> QED BY <2>1, InitType DEF CapInv, WorkerCap
  <1>2. CapInv /\ [Next]_vars => CapInv'
    BY NextType, CapStep DEF CapInv
  <1>3. CapInv => WorkerCap
    BY DEF CapInv
  <1> QED BY <1>1, <1>2, <1>3, PTL DEF Spec

\* What runs at once never breaks either limit, whatever was picked in one pass.
THEOREM PicksAreSafe == Spec => []PickedSafely
  <1>1. CycleSerial /\ WorkerCap => PickedSafely
    BY DEF PickedSafely
  <1> QED BY <1>1, CyclesSerialised, WorkersCapped, PTL

(***************************************************************************)
(* Nothing is forgotten.  When no module can start, take among the pending *)
(* ones below a module one that reaches the fewest: all it reaches outside *)
(* its component succeeded or failed, and without a failure it could       *)
(* start.                                                                  *)
(***************************************************************************)
\* A finite set of numbers that is not empty has a least member.
LEMMA Least ==
    ASSUME NEW H \in SUBSET Nat, IsFiniteSet(H), H # {}
    PROVE  \E m \in H : \A r \in H : m <= r
  <1> DEFINE Below(r) == {s \in H : s < r}
             R == StrictSubsetOrdering(H)
             T == {Below(r) : r \in H}
  <1>1. T \subseteq SUBSET H /\ T # {}
    OBVIOUS
  <1>2. IsWellFoundedOn(R, SUBSET H)
    BY FS_StrictSubsetOrderingWellFounded, FS_FiniteSubsetsOfFinite
  <1>3. PICK x \in T : \A y \in T : <<y, x>> \notin R
    <2> HIDE DEF R, T
    <2> QED BY <1>1, <1>2, WFMin
  <1>4. PICK m \in H : x = Below(m)
    BY <1>3
  <1>5. ASSUME NEW r \in H, r < m PROVE FALSE
    <2>1. Below(r) \in T
      OBVIOUS
    <2>2. Below(r) \subseteq Below(m)
      <3> SUFFICES ASSUME NEW n \in H, n < r PROVE n < m
        OBVIOUS
      <3> QED BY <1>5
    <2>3. r \in Below(m) /\ r \notin Below(r)
      BY <1>5
    <2> QED BY <1>3, <1>4, <2>1, <2>2, <2>3 DEF StrictSubsetOrdering
  <1> QED BY <1>5

\* When nothing runs and nothing is picked, nothing may start.
LEMMA NobodyEligible ==
    ASSUME TypeInv, futures = {}, Started = {}, ~ (exhausted \/ BudgetSpent)
    PROVE  \A m \in Modules : ~ Eligible(m)
  <1>1. Picked = {}
    BY DEF Started
  <1>2. Available \in Nat /\ Available >= 1
    <2>1. Cardinality(futures) = 0
      BY FS_EmptySet
    <2>2. MaxWorkers \in Nat /\ MaxWorkers >= 1
      BY ConstantsAssumption DEF MaxWorkers
    <2> QED BY <2>1, <2>2 DEF Available
  <1>3. ASSUME Ready # {} PROVE FALSE
    <2>1. Ready \in SUBSET Nat /\ IsFiniteSet(Ready)
      BY RankFacts, ConstantsAssumption
    <2>2. PICK r \in Ready : \A n \in Ready : r <= n
      BY <1>3, <2>1, Least
    <2>3. {n \in Ready : n < r} = {}
      <3> SUFFICES ASSUME NEW n \in Ready, n < r PROVE FALSE
        OBVIOUS
      <3>1. n \in Nat /\ r \in Nat
        BY <2>1
      <3> QED BY <2>2, <3>1
    <2>4. Cardinality({n \in Ready : n < r}) = 0
      BY <2>3, FS_EmptySet
    <2>5. r \in Picked
      BY <1>2, <2>4 DEF Picked
    <2> QED BY <1>1, <2>5
  <1>4. ASSUME NEW m \in Modules, Eligible(m) PROVE FALSE
    <2> DEFINE E == {p \in Scc[m] : Eligible(p)}
    <2>1. E \in SUBSET Nat /\ E # {} /\ IsFiniteSet(E)
      <3>1. E \in SUBSET Modules /\ m \in E
        BY <1>4, SccFacts
      <3> QED BY <3>1, FS_Subset, ConstantsAssumption
    <2>2. PICK x \in E : \A r \in E : x <= r
      <3> HIDE DEF E
      <3> QED BY <2>1, Least
    <2>3. x \in Modules /\ Eligible(x) /\ Scc[x] = Scc[m]
      BY SccFacts
    <2>4. First(x)
      BY <2>2, <2>3 DEF First
    <2> QED BY <1>3, <2>3, <2>4 DEF Ready
  <1> QED BY <1>4

\* A module that waits although nothing may start has a failure below it.
LEMMA WaitingIsBlocked ==
    ASSUME TypeInv, futures = {}, \A n \in Modules : ~ Eligible(n),
           NEW m \in Modules, status[m] = "pending"
    PROVE  Blocked(m)
  <1> SUFFICES ASSUME \A f \in Reach[m] : status[f] # "failed" PROVE FALSE
    BY DEF Blocked
  <1> DEFINE P == {x \in Reach[m] : status[x] = "pending"}
             T == {Reach[x] : x \in P}
             R == StrictSubsetOrdering(Modules)
  <1>1. P \subseteq Modules /\ m \in P
    BY ReachIn
  <1>2. PICK x \in P : \A y \in P : <<Reach[y], Reach[x]>> \notin R
    <2>1. T \subseteq SUBSET Modules /\ T # {}
      BY <1>1, ReachIn
    <2>2. IsWellFoundedOn(R, SUBSET Modules)
      BY FS_StrictSubsetOrderingWellFounded, FS_FiniteSubsetsOfFinite, ConstantsAssumption
    <2>3. PICK z \in T : \A y \in T : <<y, z>> \notin R
      <3> HIDE DEF R, T
      <3> QED BY <2>1, <2>2, WFMin
    <2>4. PICK x \in P : z = Reach[x]
      BY <2>3
    <2> QED BY <2>3, <2>4
  <1>3. x \in Modules /\ x \in Reach[m] /\ status[x] = "pending"
    BY <1>1
  <1>4. \A z \in Reach[x] : z \in Modules /\ z \in Reach[m] /\ status[z] \in {"pending", "success"}
    <2> SUFFICES ASSUME NEW z \in Reach[x]
                 PROVE  z \in Modules /\ z \in Reach[m] /\ status[z] \in {"pending", "success"}
      OBVIOUS
    <2>1. z \in Modules /\ z \in Reach[m]
      BY <1>3, ReachIn, ReachTransitive
    <2>2. status[z] \in Statuses /\ status[z] # "running"
      BY <2>1 DEF TypeInv, TypeOK
    <2> QED BY <2>1, <2>2 DEF Statuses
  <1>5. ASSUME NEW z \in Reach[x] \ Scc[x] PROVE status[z] = "success"
    <2> SUFFICES ASSUME status[z] = "pending" PROVE FALSE
      BY <1>4
    <2>1. z \in Modules /\ z \in P
      BY <1>4
    <2>2. Reach[z] \subseteq Reach[x] /\ Reach[z] \subseteq Modules /\ Reach[x] \subseteq Modules
      BY <1>3, <2>1, ReachIn, ReachTransitive
    <2>3. x \in Reach[x] /\ x \notin Reach[z]
      BY <1>3, <2>1, ReachIn DEF Scc
    <2> QED BY <1>2, <2>1, <2>2, <2>3 DEF StrictSubsetOrdering
  <1>6. DepsReady(x)
    <2> SUFFICES ASSUME NEW member \in Scc[x], NEW d \in Deps[member]
                 PROVE  EdgeReady(x, d)
      BY DEF DepsReady
    <2>1. member \in Modules /\ member \in Reach[x] /\ d \in Reach[member]
      BY <1>3, SccFacts, ReachStep
    <2>2. d \in Reach[x]
      BY <1>3, <2>1, ReachTransitive
    <2>3. CASE d \in Scc[x]
      BY <1>4, <2>2, <2>3 DEF EdgeReady
    <2>4. CASE d \notin Scc[x]
      <3>1. \A peer \in Scc[d] : peer \in Reach[x] \ Scc[x]
        BY <1>3, <2>2, <2>4, SccBelow
      <3> QED BY <1>5, <2>4, <3>1 DEF EdgeReady
    <2> QED BY <2>3, <2>4
  <1>7. \A peer \in Scc[x] : status[peer] # "running"
    BY <1>3, <1>4, SccFacts
  <1>8. Eligible(x)
    BY <1>3, <1>6, <1>7 DEF Eligible
  <1> QED BY <1>3, <1>8

\* From the moment the scheduler stops without being out of budget.
RestInv ==
    /\ pc \in {"report", "returned"} => futures = {}
    /\ pc = "report" /\ ~ exhausted => \A m \in Modules : status[m] = "pending" => Blocked(m)
    /\ NothingForgotten

LEMMA RestStep == ASSUME TypeInv, RestInv, [Next]_vars PROVE RestInv'
  <1> USE DEF RestInv, NothingForgotten, Blocked
  <1>1. CASE Schedule
    <2>1. pc' \in {"report", "wait"}
      BY <1>1 DEF Schedule, AfterSchedule
    <2>2. ASSUME pc' = "report"
          PROVE  futures = {} /\ Started = {} /\ futures' = {} /\ status' = status
      <3>1. futures = {} /\ Started = {}
        BY <1>1, <2>2 DEF Schedule, AfterSchedule
      <3> QED BY <1>1, <3>1 DEF Schedule, TypeInv, TypeOK
    <2>3. ASSUME pc' = "report", ~ exhausted', NEW m \in Modules, status'[m] = "pending"
          PROVE  Blocked(m) /\ status' = status
      <3>1. ~ (exhausted \/ BudgetSpent)
        BY <1>1, <2>3 DEF Schedule
      <3>2. status' = status /\ \A n \in Modules : ~ Eligible(n)
        BY <2>2, <2>3, <3>1, NobodyEligible
      <3> QED BY <2>2, <2>3, <3>2, WaitingIsBlocked
    <2> QED BY <2>1, <2>2, <2>3
  <1>2. CASE LoopEnds
    BY <1>2 DEF LoopEnds, AllTerminal, memory
  <1>3. CASE Wait
    BY <1>3 DEF Wait
  <1>4. ASSUME NEW m \in Modules, Record(m) PROVE RestInv'
    BY <1>4 DEF Record
  <1>5. CASE Save
    <2>1. pc' \in {"loop", "record"}
      BY <1>5 DEF Save
    <2> QED BY <2>1
  <1>6. CASE Report
    <2>1. pc = "report" /\ pc' = "returned" /\ UNCHANGED <<status, futures>> /\ verdict' = Verdict
      BY <1>6 DEF Report, memory
    <2>2. verdict' # "budget" => ~ exhausted
      BY <2>1 DEF Verdict
    <2> QED BY <2>1, <2>2
  <1>7. ASSUME NEW m \in Modules, Worker(m) PROVE RestInv'
    <2>1. m \in futures
      BY <1>7 DEF Worker, AttemptOk, AttemptFatal, AttemptAgain, AttemptGivesUp, AttemptRaises, Working
    <2>2. pc' = pc /\ pc \notin {"report", "returned"}
      BY <1>7, <2>1, WorkerQuiet
    <2> QED BY <2>2
  <1>8. CASE (\E i \in Issues, b \in Budgets : Start(i, b)) \/ Crash
    <2>1. pc' \in {"loop", "down"}
      BY <1>8 DEF Start, Crash
    <2> QED BY <2>1
  <1>9. CASE UNCHANGED vars
    BY <1>9 DEF vars, memory
  <1> QED BY <1>1, <1>2, <1>3, <1>4, <1>5, <1>6, <1>7, <1>8, <1>9 DEF Next, Main

\* A run that ends with budget left has left a module pending only because
\* something it depends on, however indirectly, failed: no order of the modules,
\* no cycle and no limit makes the scheduler stop with work it could do.
THEOREM NobodyIsForgotten == Spec => []NothingForgotten
  <1>1. Init => TypeInv /\ RestInv
    BY InitType DEF Init, RestInv, NothingForgotten
  <1>2. TypeInv /\ RestInv /\ [Next]_vars => (TypeInv /\ RestInv)'
    BY NextType, RestStep
  <1>3. RestInv => NothingForgotten
    BY DEF RestInv
  <1> QED BY <1>1, <1>2, <1>3, PTL DEF Spec

(***************************************************************************)
(* Sums.  Spent adds the costs one module after the other, by a recursive  *)
(* function on the subsets of Modules.                                     *)
(***************************************************************************)
\* The element a sum over S takes first.
Pick(S) == CHOOSE x \in S : TRUE
Rest(S) == S \ {Pick(S)}

\* f[s] is the sum of c over s, for all s \subseteq S.
SumOn(f, S, c) ==
    f = [s \in SUBSET S |-> IF s = {} THEN 0 ELSE c[Pick(s)] + f[Rest(s)]]

SumOf(S, c) == (CHOOSE f : SumOn(f, S, c))[S]

LEMMA SpentIsSum == Spent = InitialCost + SumOf(Modules, cost)
  BY DEF Spent, MapThenSumSet, MapThenFoldSet, SumOf, SumOn, Pick, Rest

LEMMA RestFacts ==
    ASSUME NEW S, S # {}
    PROVE  Pick(S) \in S /\ Rest(S) \subseteq S /\ Rest(S) # S
  BY DEF Pick, Rest

\* Of any sets of modules one has no other as a proper part.
LEMMA Smallest ==
    ASSUME NEW T \in SUBSET (SUBSET Modules), T # {}
    PROVE  \E S \in T : \A U \in T : U \subseteq S => U = S
  <1> DEFINE R == StrictSubsetOrdering(Modules)
  <1>1. IsWellFoundedOn(R, SUBSET Modules)
    <2>1. FiniteSubsetsOf(Modules) = SUBSET Modules
      BY FS_FiniteSubsetsOfFinite, ConstantsAssumption
    <2> QED BY <2>1, FS_StrictSubsetOrderingWellFounded
  <1>2. PICK S \in T : \A U \in T : <<U, S>> \notin R
    <2> HIDE DEF R
    <2> QED BY <1>1, WFMin
  <1> QED BY <1>2 DEF StrictSubsetOrdering

LEMMA SumUnique ==
    ASSUME NEW S \in SUBSET Modules, NEW c, NEW f, NEW g, SumOn(f, S, c), SumOn(g, S, c)
    PROVE  f = g
  <1> DEFINE T == {s \in SUBSET S : f[s] # g[s]}
  <1>1. ASSUME T # {} PROVE FALSE
    <2>1. T \in SUBSET (SUBSET Modules)
      OBVIOUS
    <2>2. PICK s \in T : \A u \in T : u \subseteq s => u = s
      <3> HIDE DEF T
      <3> QED BY <1>1, <2>1, Smallest
    <2>3. s # {}
      <3>1. f[{}] = 0 /\ g[{}] = 0
        BY DEF SumOn
      <3> QED BY <3>1
    <2>4. Rest(s) \in SUBSET S /\ f[Rest(s)] = g[Rest(s)]
      BY <2>2, <2>3, RestFacts
    <2>5. f[s] = c[Pick(s)] + f[Rest(s)] /\ g[s] = c[Pick(s)] + g[Rest(s)]
      BY <2>2, <2>3 DEF SumOn
    <2> QED BY <2>2, <2>4, <2>5
  <1>2. \A s \in SUBSET S : f[s] = g[s]
    BY <1>1
  <1>3. f = [s \in SUBSET S |-> f[s]] /\ g = [s \in SUBSET S |-> g[s]]
    BY DEF SumOn
  <1> QED BY <1>2, <1>3

LEMMA SumBelow ==
    ASSUME NEW S, NEW U \in SUBSET S, NEW c, NEW f, SumOn(f, S, c)
    PROVE  SumOn([s \in SUBSET U |-> f[s]], U, c)
  <1> DEFINE g == [s \in SUBSET U |-> f[s]]
  <1>1. \A s \in SUBSET U : g[s] = IF s = {} THEN 0 ELSE c[Pick(s)] + g[Rest(s)]
    <2> SUFFICES ASSUME NEW s \in SUBSET U, s # {}
                 PROVE  g[s] = c[Pick(s)] + g[Rest(s)]
      <3>1. g[{}] = 0
        BY DEF SumOn
      <3> QED BY <3>1
    <2>1. Rest(s) \in SUBSET U /\ s \in SUBSET S
      BY RestFacts
    <2>2. f[s] = c[Pick(s)] + f[Rest(s)]
      BY <2>1 DEF SumOn
    <2> QED BY <2>1, <2>2
  <1> QED BY <1>1 DEF SumOn

\* The sum over a part is the same whichever whole it is taken from.
LEMMA SumPart ==
    ASSUME NEW S \in SUBSET Modules, NEW U \in SUBSET S, NEW c, NEW f, SumOn(f, S, c)
    PROVE  f[U] = SumOf(U, c)
  <1> DEFINE g == [s \in SUBSET U |-> f[s]]
             h == CHOOSE x : SumOn(x, U, c)
  <1>1. SumOn(g, U, c)
    BY SumBelow
  <1>2. SumOn(h, U, c)
    BY <1>1
  <1>3. g = h
    <2> HIDE DEF g, h
    <2> QED BY <1>1, <1>2, SumUnique
  <1>4. g[U] = f[U]
    OBVIOUS
  <1> QED BY <1>3, <1>4 DEF SumOf

LEMMA SumExists ==
    ASSUME NEW S \in SUBSET Modules, NEW c
    PROVE  \E f : SumOn(f, S, c)
  <1> DEFINE T == {s \in SUBSET Modules : ~ \E f : SumOn(f, s, c)}
  <1> SUFFICES ASSUME T # {} PROVE FALSE
    OBVIOUS
  <1>1. PICK s \in T : \A u \in T : u \subseteq s => u = s
    <2>1. T \in SUBSET (SUBSET Modules)
      OBVIOUS
    <2> HIDE DEF T
    <2> QED BY <2>1, Smallest
  <1>2. s \in SUBSET Modules /\ \A f : ~ SumOn(f, s, c)
    BY <1>1
  <1>3. ASSUME NEW u \in SUBSET s, u # s
        PROVE  \E f : SumOn(f, u, c)
    BY <1>1, <1>2, <1>3
  <1> DEFINE g == [u \in SUBSET s |-> IF u = {} THEN 0 ELSE c[Pick(u)] + SumOf(Rest(u), c)]
  <1>4. ASSUME NEW u \in SUBSET s, u # {}
        PROVE  g[u] = c[Pick(u)] + g[Rest(u)]
    <2>1. /\ g[u] = c[Pick(u)] + SumOf(Rest(u), c)
          /\ Rest(u) \in SUBSET s /\ Rest(u) # s
      BY <1>4, RestFacts
    <2>2. PICK f : SumOn(f, Rest(u), c)
      BY <1>3, <2>1
    <2>3. SumOf(Rest(u), c) = f[Rest(u)] /\ Rest(u) \in SUBSET Modules
      BY <1>2, <2>1, <2>2, SumPart
    <2>4. f[Rest(u)] = g[Rest(u)]
      <3>1. CASE Rest(u) = {}
        BY <2>1, <2>2, <3>1 DEF SumOn
      <3>2. CASE Rest(u) # {}
        <4>1. f[Rest(u)] = c[Pick(Rest(u))] + f[Rest(Rest(u))]
          BY <2>2, <3>2 DEF SumOn
        <4>2. Rest(Rest(u)) \in SUBSET Rest(u)
          BY <3>2, RestFacts
        <4>3. f[Rest(Rest(u))] = SumOf(Rest(Rest(u)), c)
          BY <2>2, <2>3, <4>2, SumPart
        <4>4. g[Rest(u)] = c[Pick(Rest(u))] + SumOf(Rest(Rest(u)), c)
          BY <2>1, <3>2
        <4> QED BY <4>1, <4>3, <4>4
      <3> QED BY <3>1, <3>2
    <2> QED BY <2>1, <2>3, <2>4
  <1>5. SumOn(g, s, c)
    <2>1. \A u \in SUBSET s : g[u] = IF u = {} THEN 0 ELSE c[Pick(u)] + g[Rest(u)]
      BY <1>4
    <2> QED BY <2>1 DEF SumOn
  <1> QED BY <1>2, <1>5

\* The recursion, for every part of Modules.
LEMMA SumStep ==
    ASSUME NEW S \in SUBSET Modules, NEW c
    PROVE  SumOf(S, c) = IF S = {} THEN 0 ELSE c[Pick(S)] + SumOf(Rest(S), c)
  <1>1. PICK f : SumOn(f, S, c)
    BY SumExists
  <1>2. SumOf(S, c) = f[S] /\ (S # {} => Rest(S) \in SUBSET S /\ f[Rest(S)] = SumOf(Rest(S), c))
    BY <1>1, SumPart, RestFacts
  <1>3. f[S] = IF S = {} THEN 0 ELSE c[Pick(S)] + f[Rest(S)]
    BY <1>1 DEF SumOn
  <1> QED BY <1>2, <1>3

LEMMA SumNat ==
    ASSUME NEW S \in SUBSET Modules, NEW c \in [Modules -> Nat]
    PROVE  SumOf(S, c) \in Nat
  <1> DEFINE T == {s \in SUBSET Modules : SumOf(s, c) \notin Nat}
  <1> SUFFICES ASSUME T # {} PROVE FALSE
    OBVIOUS
  <1>1. PICK s \in T : \A u \in T : u \subseteq s => u = s
    <2>1. T \in SUBSET (SUBSET Modules)
      OBVIOUS
    <2> HIDE DEF T
    <2> QED BY <2>1, Smallest
  <1>2. s # {} /\ SumOf(s, c) = c[Pick(s)] + SumOf(Rest(s), c)
    BY <1>1, SumStep
  <1>3. Rest(s) \in SUBSET Modules /\ SumOf(Rest(s), c) \in Nat /\ c[Pick(s)] \in Nat
    BY <1>1, <1>2, RestFacts
  <1>4. SumOf(s, c) \in Nat
    BY <1>2, <1>3
  <1> QED BY <1>1, <1>4

\* What had no cost and gets one adds exactly that.
LEMMA SumAdds ==
    ASSUME NEW c \in [Modules -> Nat], NEW m \in Modules, c[m] = 0, NEW v \in Nat,
           NEW d, d[m] = v, \A n \in Modules : n # m => d[n] = c[n],
           NEW S \in SUBSET Modules
    PROVE  SumOf(S, d) = SumOf(S, c) + (IF m \in S THEN v ELSE 0)
  <1> DEFINE T == {s \in SUBSET Modules :
                     SumOf(s, d) # SumOf(s, c) + (IF m \in s THEN v ELSE 0)}
  <1> SUFFICES ASSUME T # {} PROVE FALSE
    OBVIOUS
  <1>1. PICK s \in T : \A u \in T : u \subseteq s => u = s
    <2>1. T \in SUBSET (SUBSET Modules)
      OBVIOUS
    <2> HIDE DEF T
    <2> QED BY <2>1, Smallest
  <1>2. s # {}
    <2>1. SumOf({}, c) = 0 /\ SumOf({}, d) = 0
      BY SumStep
    <2>2. SumOf({}, d) = SumOf({}, c) + (IF m \in {} THEN v ELSE 0)
      BY <2>1
    <2> QED BY <1>1, <2>2
  <1>3. /\ SumOf(s, c) = c[Pick(s)] + SumOf(Rest(s), c)
        /\ SumOf(s, d) = d[Pick(s)] + SumOf(Rest(s), d)
    BY <1>1, <1>2, SumStep
  <1>4. /\ Rest(s) \in SUBSET Modules /\ Pick(s) \in Modules /\ Rest(s) = s \ {Pick(s)}
        /\ SumOf(Rest(s), d) = SumOf(Rest(s), c) + (IF m \in Rest(s) THEN v ELSE 0)
    BY <1>1, <1>2, RestFacts DEF Rest
  <1>5. SumOf(Rest(s), c) \in Nat /\ c[Pick(s)] \in Nat
    BY <1>4, SumNat
  <1>6. SumOf(s, d) = SumOf(s, c) + (IF m \in s THEN v ELSE 0)
    <2>1. CASE Pick(s) = m
      <3>1. m \in s /\ m \notin Rest(s) /\ d[Pick(s)] = v /\ c[Pick(s)] = 0
        BY <1>2, <1>4, <2>1, RestFacts
      <3> QED BY <1>3, <1>4, <1>5, <3>1
    <2>2. CASE Pick(s) # m
      <3>1. (m \in s <=> m \in Rest(s)) /\ d[Pick(s)] = c[Pick(s)]
        BY <1>4, <2>2
      <3> QED BY <1>3, <1>4, <1>5, <3>1
    <2> QED BY <2>1, <2>2
  <1> QED BY <1>1, <1>6

(***************************************************************************)
(* The budget.  Before an attempt the costs known, those of its own module *)
(* included, are below the budget; so they are off by one attempt at most. *)
(***************************************************************************)
LEMMA MaxFacts == Max(Costs) \in Nat /\ \A c \in Costs : c <= Max(Costs)
  <1>1. PICK x \in Costs : \A y \in Costs : x >= y
    BY ConstantsAssumption, CostsAssumption
  <1>2. Max(Costs) \in Costs /\ \A y \in Costs : Max(Costs) >= y
    BY <1>1 DEF Max
  <1> QED BY <1>2, ConstantsAssumption

LEMMA AtMostOne ==
    ASSUME NEW F \in SUBSET Modules, Cardinality(F) <= 1, NEW m \in F, NEW n \in F
    PROVE  m = n
  <1>1. IsFiniteSet(F) /\ Cardinality(F) \in Nat
    BY FS_Subset, FS_CardinalityType, ConstantsAssumption
  <1> SUFFICES ASSUME m # n PROVE FALSE
    OBVIOUS
  <1>2. /\ IsFiniteSet({m}) /\ Cardinality({m}) = 1
        /\ Cardinality({m} \cup {n}) = Cardinality({m}) + 1
    BY FS_Singleton, FS_AddElement
  <1>3. {m} \cup {n} \in SUBSET F
    OBVIOUS
  <1>4. Cardinality({m} \cup {n}) <= Cardinality(F)
    BY <1>1, <1>3, FS_Subset
  <1> QED BY <1>1, <1>2, <1>4

\* Under a budget one child runs at a time.
LEMMA OneAtATime ==
    ASSUME CapInv, budget # NoBudget, NEW m \in futures, NEW n \in futures
    PROVE  m = n
  <1>1. futures \in SUBSET Modules /\ Cardinality(futures) <= 1
    BY DEF CapInv, TypeInv, TypeOK, WorkerCap, MaxWorkers
  <1> QED BY <1>1, AtMostOne

\* What the future of m has cost so far.
Carried(m) == IF result[m] = None THEN worker[m].spent ELSE result[m].cost

\* What has not ended has no cost recorded and no result collected.
NotYet ==
    \A m \in Modules : /\ status[m] \in {"pending", "running"} => cost[m] = 0
                       /\ m \notin futures => result[m] = None

InTime == paid = 0 \/ InitialCost + paid < budget + Max(Costs)
Accounted ==
    /\ futures = {} /\ pc # "down" => InitialCost + paid <= Spent
    /\ \A m \in futures : InitialCost + paid <= Spent + Carried(m)
Covered == \A m \in futures : result[m] = None => Spent + worker[m].spent < budget

SpendInv ==
    /\ CapInv /\ NotYet
    /\ budget # NoBudget /\ raises = 0 => InTime /\ Accounted /\ Covered

LEMMA SpentNat == ASSUME TypeInv PROVE Spent \in Nat
  <1>1. cost \in [Modules -> Nat]
    BY DEF TypeInv, TypeOK
  <1> QED BY <1>1, SpentIsSum, SumNat, ConstantsAssumption

LEMMA BudgetNat == ASSUME TypeInv, budget # NoBudget PROVE budget \in Nat
  BY ConstantsAssumption DEF TypeInv, TypeOK

LEMMA NextSpent == Spent' = InitialCost + SumOf(Modules, cost')
  BY DEF Spent, MapThenSumSet, MapThenFoldSet, SumOf, SumOn, Pick, Rest

LEMMA SpentSame == UNCHANGED cost => Spent' = Spent
  BY SpentIsSum, NextSpent

\* A step that leaves all of it alone.
LEMMA SpendQuiet ==
    ASSUME SpendInv, CapInv', UNCHANGED <<budget, status, cost, futures, result, worker, paid, raises>>,
           pc' # "down" => pc # "down"
    PROVE  SpendInv'
  <1>1. Spent' = Spent
    BY SpentSame
  <1>2. NotYet'
    BY DEF SpendInv, NotYet
  <1>3. ASSUME budget # NoBudget, raises = 0 PROVE InTime' /\ Accounted' /\ Covered'
    BY <1>1, <1>3 DEF SpendInv, InTime, Accounted, Covered, Carried
  <1> QED BY <1>2, <1>3 DEF SpendInv

LEMMA SpendSchedule == ASSUME SpendInv, CapInv', Schedule PROVE SpendInv'
  <1> USE DEF SpendInv
  <1>0. TypeInv /\ TypeInv'
    BY DEF CapInv
  <1>1. /\ pc = "loop" /\ UNCHANGED <<budget, cost, result, paid, raises>>
        /\ futures' = futures \cup Started /\ pc' # "down"
        /\ status' = [m \in Modules |-> IF m \in Started THEN "running" ELSE status[m]]
        /\ worker' = [m \in Modules |-> IF m \in Started THEN Fresh ELSE worker[m]]
    BY DEF Schedule, AfterSchedule, options
  <1>2. Spent' = Spent
    BY <1>1, SpentSame
  <1>3. \A m \in Started : m \in Modules /\ status[m] = "pending" /\ m \notin futures
    BY <1>0, StartedFacts DEF TypeInv, TypeOK
  <1>4. NotYet'
    BY <1>1, <1>3 DEF NotYet
  <1>5. ASSUME budget # NoBudget, raises = 0, Started = {}
        PROVE  InTime' /\ Accounted' /\ Covered'
    <2>1. futures' = futures /\ \A m \in futures : worker'[m] = worker[m]
      BY <1>0, <1>1, <1>5 DEF TypeInv, TypeOK
    <2> QED BY <1>1, <1>2, <1>5, <2>1 DEF InTime, Accounted, Covered, Carried
  <1>6. ASSUME budget # NoBudget, raises = 0, Started # {}
        PROVE  InTime' /\ Accounted' /\ Covered'
    <2>1. PICK s \in Started : TRUE
      BY <1>6
    <2>2. futures = {}
      <3> SUFFICES ASSUME NEW f \in futures PROVE FALSE
        OBVIOUS
      <3>1. s \in futures' /\ f \in futures' /\ budget' # NoBudget
        BY <1>1, <1>6, <2>1
      <3>2. futures' \in SUBSET Modules /\ Cardinality(futures') <= 1
        BY <3>1 DEF CapInv, TypeInv, TypeOK, WorkerCap, MaxWorkers
      <3>3. s = f
        BY <3>1, <3>2, AtMostOne
      <3> QED BY <1>3, <2>1, <3>3
    <2>3. Spent < budget /\ Spent \in Nat /\ budget \in Nat
      <3>1. ~ BudgetSpent
        BY <1>6 DEF Started
      <3> QED BY <1>0, <1>6, <3>1, SpentNat, BudgetNat DEF BudgetSpent
    <2>4. \A m \in futures' : result'[m] = None /\ worker'[m].spent = 0
      BY <1>1, <1>3, <2>2 DEF NotYet, Fresh
    <2>5. InitialCost + paid <= Spent
      BY <1>1, <1>6, <2>2 DEF Accounted
    <2>6. futures' # {}
      BY <1>1, <2>1
    <2>7. InTime'
      BY <1>1, <1>6 DEF InTime
    <2>8. Accounted'
      BY <1>1, <1>2, <2>3, <2>4, <2>5, <2>6 DEF Accounted, Carried
    <2>9. Covered'
      BY <1>1, <1>2, <2>3, <2>4 DEF Covered
    <2> QED BY <2>7, <2>8, <2>9
  <1> QED BY <1>1, <1>4, <1>5, <1>6

LEMMA SpendRecord ==
    ASSUME SpendInv, CapInv', NEW m \in Modules, Record(m)
    PROVE  SpendInv'
  <1> USE DEF SpendInv
  <1>0. TypeInv
    BY DEF CapInv
  <1>1. /\ UNCHANGED <<budget, worker, paid, raises>> /\ pc' = "save"
        /\ m \in batch /\ m \in futures /\ status[m] = "running"
        /\ result[m] # None /\ result[m].cost \in Nat
        /\ futures' = futures \ {m} /\ cost' = [cost EXCEPT ![m] = result[m].cost]
        /\ result' = [result EXCEPT ![m] = None]
        /\ status' = [status EXCEPT ![m] = IF result[m].ok THEN "success" ELSE "failed"]
    BY <1>0 DEF Record, Popped, options, TypeInv, TypeOK, Results
  <1>2. cost[m] = 0 /\ cost \in [Modules -> Nat]
    BY <1>0, <1>1 DEF NotYet, TypeInv, TypeOK
  <1>3. Spent' = Spent + result[m].cost
    <2>1. SumOf(Modules, cost') = SumOf(Modules, cost) + result[m].cost
      <3>1. PICK v \in Nat : v = result[m].cost
        BY <1>1
      <3>2. PICK c \in [Modules -> Nat] : c = cost
        BY <1>2
      <3>3. PICK d : d = cost'
        OBVIOUS
      <3>4. c[m] = 0 /\ d[m] = v /\ \A n \in Modules : n # m => d[n] = c[n]
        BY <1>1, <1>2, <3>1, <3>2, <3>3
      <3>5. SumOf(Modules, d) = SumOf(Modules, c) + v
        <4>1. Modules \in SUBSET Modules
          OBVIOUS
        <4>2. SumOf(Modules, d) = SumOf(Modules, c) + (IF m \in Modules THEN v ELSE 0)
          BY <3>4, <4>1, SumAdds
        <4> QED BY <4>2
      <3> QED BY <3>1, <3>2, <3>3, <3>5
    <2>2. Spent' = InitialCost + SumOf(Modules, cost')
      BY NextSpent
    <2>3. SumOf(Modules, cost) \in Nat /\ InitialCost \in Nat
      BY <1>2, SumNat, ConstantsAssumption
    <2> QED BY <1>1, <2>1, <2>2, <2>3, SpentIsSum
  <1>4. NotYet'
    BY <1>0, <1>1 DEF NotYet, TypeInv, TypeOK
  <1>5. ASSUME budget # NoBudget, raises = 0
        PROVE  InTime' /\ Accounted' /\ Covered'
    <2>1. futures' = {}
      BY <1>1, <1>5, OneAtATime
    <2>2. InitialCost + paid <= Spent + result[m].cost
      BY <1>1, <1>5 DEF Accounted, Carried
    <2> QED BY <1>1, <1>3, <1>5, <2>1, <2>2 DEF InTime, Accounted, Covered
  <1> QED BY <1>1, <1>4, <1>5

\* An attempt of m that costs c ends, or is followed by another one.
LEMMA SpendWorker ==
    ASSUME SpendInv, CapInv', NEW m \in Modules, Worker(m)
    PROVE  SpendInv'
  <1> USE DEF SpendInv
  <1>0. TypeInv
    BY DEF CapInv
  <1>1. /\ UNCHANGED <<pc, budget, status, futures, cost>> /\ m \in futures /\ result[m] = None
        /\ \A n \in Modules : n # m => result'[n] = result[n]
    BY <1>0 DEF Worker, AttemptOk, AttemptFatal, AttemptAgain, AttemptGivesUp, AttemptRaises,
                Quiet, options, Working, Return, TypeInv, TypeOK
  <1>2. NotYet'
    BY <1>1 DEF NotYet
  <1>3. Spent' = Spent /\ Spent \in Nat
    BY <1>0, <1>1, SpentSame, SpentNat
  <1>4. worker[m].spent \in Nat /\ paid \in Nat /\ raises \in Nat /\ InitialCost \in Nat
    BY <1>0, ConstantsAssumption DEF TypeInv, TypeOK
  <1>5. \/ raises' = raises + 1
        \/ \E c \in Costs :
              /\ paid' = paid + c /\ raises' = raises
              /\ \/ worker' = worker /\ \E b \in BOOLEAN : Return(m, b, Total(m, c))
                 \/ /\ UNCHANGED result /\ worker'[m].spent = Total(m, c) /\ Affordable(Total(m, c))
    <2>1. CASE AttemptRaises(m)
      BY <2>1 DEF AttemptRaises
    <2>2. ASSUME NEW c \in Costs, AttemptOk(m, c) \/ AttemptFatal(m, c)
          PROVE  /\ paid' = paid + c /\ raises' = raises /\ worker' = worker
                 /\ \E b \in BOOLEAN : Return(m, b, Total(m, c))
      BY <2>2 DEF AttemptOk, AttemptFatal
    <2>3. ASSUME NEW c \in Costs, NEW kd \in Kinds, NEW s \in Signatures, AttemptGivesUp(m, c, kd, s)
          PROVE  /\ paid' = paid + c /\ raises' = raises /\ worker' = worker
                 /\ \E b \in BOOLEAN : Return(m, b, Total(m, c))
      <3>1. PICK b \in (IF kd = "test_churn" /\ issue # NoIssue THEN BOOLEAN ELSE {FALSE}) :
               Return(m, b, Total(m, c))
        BY <2>3 DEF AttemptGivesUp
      <3>2. b \in BOOLEAN
        BY <3>1
      <3> QED BY <2>3, <3>1, <3>2 DEF AttemptGivesUp
    <2>4. ASSUME NEW c \in Costs, NEW kd \in Kinds, NEW s \in Signatures, AttemptAgain(m, c, kd, s)
          PROVE  /\ paid' = paid + c /\ raises' = raises /\ UNCHANGED result
                 /\ worker'[m].spent = Total(m, c) /\ Affordable(Total(m, c))
      BY <1>0, <2>4 DEF AttemptAgain, GivesUp, TypeInv, TypeOK
    <2> QED BY <2>1, <2>2, <2>3, <2>4 DEF Worker
  <1>6. ASSUME budget' # NoBudget, raises' = 0
        PROVE  InTime' /\ Accounted' /\ Covered'
    <2>1. PICK c \in Costs :
              /\ paid' = paid + c /\ raises' = raises
              /\ \/ worker' = worker /\ \E b \in BOOLEAN : Return(m, b, Total(m, c))
                 \/ /\ UNCHANGED result /\ worker'[m].spent = Total(m, c) /\ Affordable(Total(m, c))
      BY <1>4, <1>5, <1>6
    <2>2. /\ budget # NoBudget /\ budget' = budget /\ budget \in Nat /\ raises = 0
          /\ c \in Nat /\ Max(Costs) \in Nat /\ c <= Max(Costs)
      BY <1>0, <1>1, <1>6, <2>1, BudgetNat, MaxFacts, ConstantsAssumption
    <2>3. futures' = futures /\ \A n \in futures : n = m
      BY <1>1, <2>2, OneAtATime
    <2>4. /\ InitialCost + paid <= Spent + worker[m].spent
          /\ Spent + worker[m].spent < budget
      BY <1>1, <2>2 DEF Accounted, Covered, Carried
    <2>5. InTime'
      BY <1>4, <1>3, <2>1, <2>2, <2>4 DEF InTime
    <2>6. Total(m, c) = worker[m].spent + c
      BY DEF Total
    <2>7. CASE worker' = worker /\ \E b \in BOOLEAN : Return(m, b, Total(m, c))
      <3>1. PICK b \in BOOLEAN : Return(m, b, Total(m, c))
        BY <2>7
      <3>2. result'[m] = [ok |-> b, cost |-> Total(m, c)]
        BY <1>0, <3>1 DEF Return, TypeInv, TypeOK
      <3>3. result'[m] # None /\ result'[m].cost = worker[m].spent + c
        BY <1>3, <1>4, <2>2, <2>6, <3>2, NoneAssumption DEF Results
      <3>4. InitialCost + paid' <= Spent' + Carried(m)'
        BY <1>3, <1>4, <2>1, <2>2, <2>4, <3>3 DEF Carried
      <3> QED BY <1>1, <2>3, <2>5, <3>3, <3>4 DEF Accounted, Covered
    <2>8. CASE UNCHANGED result /\ worker'[m].spent = Total(m, c) /\ Affordable(Total(m, c))
      <3>1. Spent + (worker[m].spent + c) < budget
        BY <2>2, <2>6, <2>8 DEF Affordable
      <3>2. result'[m] = None /\ worker'[m].spent = worker[m].spent + c
        BY <1>1, <2>6, <2>8
      <3>3. InitialCost + paid' <= Spent' + Carried(m)'
        BY <1>3, <1>4, <2>1, <2>2, <2>4, <3>2 DEF Carried
      <3> QED BY <1>1, <1>3, <2>2, <2>3, <2>5, <3>1, <3>2, <3>3 DEF Accounted, Covered
    <2> QED BY <2>1, <2>7, <2>8
  <1> QED BY <1>2, <1>6

LEMMA SpendStep == ASSUME SpendInv, [Next]_vars PROVE SpendInv'
  <1>0. TypeInv /\ TypeInv' /\ CapInv'
    BY NextType, CapStep DEF SpendInv, CapInv
  <1>1. CASE Schedule
    BY <1>0, <1>1, SpendSchedule
  <1>2. CASE LoopEnds \/ Wait \/ Save \/ Report \/ UNCHANGED vars
    BY <1>0, <1>2, SpendQuiet DEF LoopEnds, Wait, Save, Report, vars, options, memory
  <1>3. ASSUME NEW m \in Modules, Record(m) PROVE SpendInv'
    BY <1>0, <1>3, SpendRecord
  <1>4. ASSUME NEW m \in Modules, Worker(m) PROVE SpendInv'
    BY <1>0, <1>4, SpendWorker
  <1>5. ASSUME NEW i \in Issues, NEW b \in Budgets, Start(i, b) PROVE SpendInv'
    <2>1. /\ paid' = 0 /\ futures' = {} /\ pc' = "loop" /\ result' = [m \in Modules |-> None]
          /\ \A m \in Modules : status'[m] \in {"pending", "running"} => cost'[m] = 0
      BY <1>5 DEF Start, Reset
    <2>2. Spent' = InitialCost + SumOf(Modules, cost') /\ SumOf(Modules, cost') \in Nat
      BY <1>0, NextSpent, SumNat DEF TypeInv, TypeOK
    <2>3. InitialCost + paid' <= Spent'
      BY <2>1, <2>2, ConstantsAssumption
    <2> QED BY <1>0, <2>1, <2>3 DEF SpendInv, NotYet, InTime, Accounted, Covered
  <1>6. CASE Crash
    <2>1. /\ UNCHANGED <<budget, paid, raises>> /\ futures' = {} /\ pc' = "down"
          /\ result' = [m \in Modules |-> None] /\ cost' = [m \in Modules |-> 0]
      BY <1>6 DEF Crash, Reset, options
    <2> QED BY <1>0, <2>1 DEF SpendInv, NotYet, InTime, Accounted, Covered
  <1> QED BY <1>1, <1>2, <1>3, <1>4, <1>5, <1>6 DEF Next, Main

\* The children of a run overshoot its budget by less than one attempt, unless
\* an attempt raised.
THEOREM SpendIsBounded == Spec => []SpendBound
  <1>1. Init => SpendInv
    <2>1. Init => Cardinality(futures) = 0 /\ MaxWorkers \in Nat
      BY FS_EmptySet, ConstantsAssumption DEF Init, MaxWorkers
    <2> QED BY <2>1, InitType DEF Init, CapInv, WorkerCap, SpendInv, NotYet
  <1>2. SpendInv /\ [Next]_vars => SpendInv'
    BY SpendStep
  <1>3. SpendInv => SpendBound
    <2> SUFFICES ASSUME SpendInv, budget # NoBudget, paid > 0, raises = 0
                 PROVE  InitialCost + paid < budget + Max(Costs)
      BY DEF SpendBound
    <2> QED BY DEF SpendInv, InTime
  <1> QED BY <1>1, <1>2, <1>3, PTL DEF Spec

=============================================================================
