------------------------- MODULE RemoteSessionProofs -------------------------
(***************************************************************************)
(* Proofs about RemoteSession for any number of commands, tries and        *)
(* faults: the cloud is told the truth, nothing is executed twice or       *)
(* unasked, and no local job is left behind.                               *)
(***************************************************************************)
EXTENDS RemoteSession, FiniteSetTheorems, TLAPS

USE TriesAssumption

(***************************************************************************)
(* What the steps do to jobs, to the cloud and to what was said.           *)
(***************************************************************************)

JobStates == {"new", "queued", "running", "completed", "failed", "cancelled"}
CloudStates == {"absent", "pending", "processing", "completed", "failed", "cancelled"}

\* The jobs of the server move on; none is submitted.
Onward ==
    /\ job' \in [Commands -> JobStates] /\ starts' = starts
    /\ \A c \in Commands :
          \/ job'[c] = job[c]
          \/ job[c] \in {"queued", "running"}
             /\ job'[c] \in {"running", "completed", "failed", "cancelled"}

LEMMA ServerMoves ==
    ASSUME TypeOK, starts' = starts,
           \/ \E c \in Commands : Local!Run(c) \/ Local!End(c)
           \/ \E S \in SUBSET Commands : Local!Cancel(S)
           \/ job' = job
    PROVE  Onward
  <1>1. job \in [Commands -> JobStates]
    BY DEF TypeOK, JobStates, Local!Active, Local!Finished
  <1>2. CASE \E c \in Commands : Local!Run(c) \/ Local!End(c)
    BY <1>1, <1>2 DEF Onward, JobStates, Local!Run, Local!End
  <1>3. CASE \E S \in SUBSET Commands : Local!Cancel(S)
    BY <1>1, <1>3 DEF Onward, JobStates, Local!Cancel, Local!Active
  <1>4. CASE job' = job
    BY <1>1, <1>4 DEF Onward
  <1> QED BY <1>2, <1>3, <1>4

\* Only Submit adds a job, and it ends one that is unfinished for nobody else.
LEMMA JobMoves ==
    ASSUME TypeOK, Next
    PROVE  \/ Onward
           \/ pc = "submit" /\ ~ stopping /\ Submitted
  <1>1. CASE Submit
    BY <1>1, ServerMoves DEF Submit
  <1>2. CASE CancelLocal
    <2>1. starts' = starts
      BY <1>2 DEF CancelLocal
    <2>2. cmd \in Commands
      BY <1>2 DEF CancelLocal, TypeOK
    <2>3. Local!Cancel({cmd}) \/ job' = job
      BY <1>2 DEF CancelLocal
    <2> QED BY <2>1, <2>2, <2>3, ServerMoves
  <1>3. CASE Stopped
    <2>1. starts' = starts /\ Local!Cancel({c \in Commands : job[c] \in Local!Active})
      BY <1>3 DEF Stopped
    <2> QED BY <2>1, ServerMoves
  <1>4. CASE \E c \in Commands : Server(c)
    BY <1>4, ServerMoves DEF Server
  <1>5. CASE \E c \in Commands : LocalCancel(c)
    BY <1>5, ServerMoves DEF LocalCancel
  <1>6. CASE \/ Poll \/ Take \/ PostOk \/ PostFails \/ PostExpired \/ Check \/ Watch \/ PollJob
             \/ Stop \/ Arrive \/ \E c \in Commands : Queue(c) \/ UserCancel(c)
    <2>1. job' = job /\ starts' = starts
      BY <1>6 DEF Poll, Take, PostOk, PostFails, PostExpired, Check, Watch, IsCancelled, PollJob,
         Stop, Arrive, Queue, UserCancel
    <2> QED BY <2>1, ServerMoves
  <1> QED BY <1>1, <1>2, <1>3, <1>4, <1>5, <1>6 DEF Next, Task

(***************************************************************************)
(* The form of the state.                                                  *)
(***************************************************************************)

LEMMA CloudType ==
    ASSUME TypeOK, Next
    PROVE  /\ cloud' \in [Commands -> {"absent", "pending", "processing"} \cup Ended]
           /\ final' = final /\ flight' \subseteq Commands \X ({"processing"} \cup Ended)
  <1>1. pc = "post" => cmd \in Commands /\ say \in {"processing"} \cup Ended
    BY DEF TypeOK
  <1>2. pc = "poll" => cmd \in Commands
    BY DEF TypeOK
  <1>3. \A m \in flight : m[1] \in Commands /\ m[2] \in {"processing"} \cup Ended
    BY DEF TypeOK
  <1>4. \A c \in Commands, s \in {"processing"} \cup Ended :
          Told(c, s) \in [Commands -> {"absent", "pending", "processing"} \cup Ended]
    BY DEF Told, TypeOK
  <1>5. CASE \E c \in Commands : Queue(c) \/ UserCancel(c)
    BY <1>5 DEF Queue, UserCancel, TypeOK, Ended
  <1>6. CASE Arrive
    <2>1. PICK m \in flight : cloud' = Told(m[1], m[2]) /\ flight' = flight \ {m} /\ final' = final
      BY <1>6 DEF Arrive
    <2>2. cloud' \in [Commands -> {"absent", "pending", "processing"} \cup Ended]
      BY <1>3, <1>4, <2>1
    <2> QED BY <2>1, <2>2 DEF TypeOK
  <1>7. CASE PostOk \/ PostFails \/ PostExpired
    <2>1. cmd \in Commands /\ say \in {"processing"} \cup Ended
      BY <1>1, <1>7 DEF PostOk, PostFails, PostExpired
    <2>2. <<cmd, say>> \in Commands \X ({"processing"} \cup Ended)
      BY <2>1
    <2>3. Told(cmd, say) \in [Commands -> {"absent", "pending", "processing"} \cup Ended]
      BY <1>4, <2>1
    <2>4. final' = final /\ (cloud' = cloud \/ cloud' = Told(cmd, say))
          /\ flight' \in {flight, flight \cup {<<cmd, say>>}}
      BY <1>7 DEF PostOk, PostFails, PostExpired
    <2> QED BY <2>2, <2>3, <2>4 DEF TypeOK
  <1>8. CASE PollJob
    <2>1. cmd \in Commands
      BY <1>2, <1>8 DEF PollJob
    <2>2. <<cmd, "processing">> \in Commands \X ({"processing"} \cup Ended)
      BY <2>1
    <2>3. Told(cmd, "processing") \in [Commands -> {"absent", "pending", "processing"} \cup Ended]
      BY <1>4, <2>1
    <2>4. final' = final /\ (cloud' = cloud \/ cloud' = Told(cmd, "processing"))
          /\ flight' \in {flight, flight \cup {<<cmd, "processing">>}}
      BY <1>8 DEF PollJob
    <2> QED BY <2>2, <2>3, <2>4 DEF TypeOK
  <1>9. CASE \/ Poll \/ Take \/ Check \/ Submit \/ Watch \/ CancelLocal \/ Stopped \/ Stop
             \/ \E c \in Commands : Server(c) \/ LocalCancel(c)
    BY <1>9 DEF Poll, Take, Check, Submit, Watch, IsCancelled, CancelLocal, Stopped, Stop, Server,
       LocalCancel, TypeOK
  <1> QED BY <1>5, <1>6, <1>7, <1>8, <1>9 DEF Next, Task

LEMMA JobType ==
    ASSUME TypeOK, Next
    PROVE  /\ job' \in [Commands -> {"new"} \cup Local!Active \cup Local!Finished]
           /\ starts' \in [Commands -> Nat]
  <1>1. CASE Onward
    BY <1>1 DEF Onward, JobStates, Local!Active, Local!Finished, TypeOK
  <1>2. CASE pc = "submit" /\ Submitted
    BY <1>2 DEF Submitted, Local!Active, TypeOK
  <1> QED BY <1>1, <1>2, JobMoves

LEMMA GhostType ==
    ASSUME TypeOK, Next
    PROVE  /\ faults' \in 0..MaxFaults /\ stopping' \in BOOLEAN
           /\ asked' \subseteq Commands /\ early' \subseteq Commands /\ hit' \subseteq Commands
           /\ given' \subseteq Commands /\ silent' \subseteq Commands
  <1>1. pc \in {"post", "poll", "submit", "cancel", "check", "watch"} => cmd \in Commands
    BY DEF TypeOK
  <1>2. NoFault \/ Fault => faults' \in 0..MaxFaults /\ hit' \subseteq Commands
    BY DEF NoFault, Fault, ghosts, TypeOK
  <1>3. CASE NoFault /\ stopping' \in BOOLEAN
    BY <1>3 DEF NoFault, ghosts, TypeOK
  <1>4. CASE \E c \in Commands : UserCancel(c)
    BY <1>4 DEF UserCancel, TypeOK
  <1>5. CASE \E c \in Commands : Queue(c) \/ Server(c) \/ LocalCancel(c)
    BY <1>3, <1>5 DEF Queue, Server, LocalCancel, NoFault, ghosts, TypeOK
  <1>6. CASE Arrive
    BY <1>6 DEF Arrive, ghosts, TypeOK
  <1>7. CASE PostFails
    BY <1>1, <1>2, <1>7 DEF PostFails, Threw, Fault, TypeOK
  <1>8. CASE PostExpired
    BY <1>1, <1>2, <1>8 DEF PostExpired, Fault, TypeOK
  <1>9. CASE Check \/ Submit \/ Watch \/ CancelLocal \/ PollJob
    BY <1>1, <1>2, <1>9 DEF Check, Submit, Watch, IsCancelled, CancelLocal, PollJob, Fault, NoFault, ghosts,
       TypeOK
  <1>10. CASE Poll \/ Take \/ PostOk \/ Stopped \/ Stop
    BY <1>3, <1>10 DEF Poll, Take, PostOk, Stopped, Stop, TypeOK
  <1> QED BY <1>4, <1>5, <1>6, <1>7, <1>8, <1>9, <1>10 DEF Next, Task

SessionType ==
    /\ pc \in {"idle", "take", "post", "check", "submit", "watch", "poll", "cancel", "stopped"}
    /\ cmd \in Commands \cup {None} /\ (cmd = None <=> pc \in {"idle", "take", "stopped"})
    /\ batch \in Seq(Commands) /\ say \in {None, "processing"} \cup Ended
    /\ (say = None <=> pc # "post") /\ tries \in 0..(MaxTries - 1)
    /\ refreshed \in BOOLEAN /\ handling \in BOOLEAN

\* Each command of a list the cloud returned is on it once.
LEMMA OrdersAre ==
    ASSUME NEW S \in SUBSET Commands, NEW b \in Orders(S)
    PROVE  /\ b \in Seq(Commands) /\ \A i \in DOMAIN b : b[i] \in S
           /\ \A i, j \in DOMAIN b : b[i] = b[j] => i = j
  <1>1. IsFiniteSet(S) /\ Cardinality(S) \in Nat
    BY FS_Subset, FS_CardinalityType
  <1>2. b \in [1..Cardinality(S) -> S] /\ \A c \in S : \E i \in DOMAIN b : b[i] = c
    BY DEF Orders
  <1>3. b \in Surjection(1..Cardinality(S), S)
    BY <1>2 DEF Surjection
  <1>4. IsFiniteSet(1..Cardinality(S)) /\ Cardinality(1..Cardinality(S)) = Cardinality(S)
    BY <1>1, FS_Interval
  <1>5. b \in Injection(1..Cardinality(S), S)
    BY <1>3, <1>4, FS_SurjSameCardinalityImpliesInj
  <1>6. \A i, j \in DOMAIN b : b[i] = b[j] => i = j
    BY <1>2, <1>5 DEF Injection, IsInjective
  <1>7. b \in [1..Cardinality(S) -> Commands]
    BY <1>2
  <1>8. b \in Seq(Commands)
    BY <1>1, <1>7
  <1> QED BY <1>2, <1>6, <1>8

LEMMA SessionTypeKept ==
    ASSUME TypeOK, Next
    PROVE  SessionType'
  <1>1. SessionType
    BY DEF TypeOK, SessionType
  <1> HIDE DEF TypeOK
  <1>2. MaxTries - 1 \in Nat /\ 0 \in 0..(MaxTries - 1) /\ <<>> \in Seq(Commands)
    OBVIOUS
  <1>3. ASSUME NEW s \in Ended, NEW h \in BOOLEAN, Post(s, h), cmd # None
        PROVE  SessionType'
    BY <1>1, <1>2, <1>3 DEF Post, SessionType
  <1>4. ASSUME NEW n \in {"check", "submit", "watch", "poll", "cancel"}, GoTo(n), cmd # None, pc # "post"
        PROVE  SessionType'
    BY <1>1, <1>4 DEF GoTo, SessionType
  <1>5. pc = "post" => cmd # None /\ say # None
    BY <1>1 DEF SessionType
  <1>6. pc \in {"check", "submit", "watch", "poll", "cancel"} => cmd # None
    BY <1>1 DEF SessionType
  <1>7. CASE PostOk \/ PostExpired
    <2>1. Returned => SessionType'
      BY <1>1, <1>2, <1>5, <1>7 DEF Returned, Quit, SessionType, PostOk, PostExpired
    <2>2. Again /\ ~ LastTry /\ refreshed' \in BOOLEAN => SessionType'
      BY <1>1, <1>5, <1>7 DEF Again, LastTry, SessionType, PostOk, PostExpired
    <2> QED BY <1>7, <2>1, <2>2 DEF PostOk, PostExpired
  <1>8. CASE PostFails
    <2>1. Threw => SessionType'
      <3>1. CASE handling
        BY <1>1, <1>2, <3>1 DEF Threw, Quit, SessionType
      <3>2. CASE ~ handling
        BY <1>3, <1>5, <1>8, <3>2 DEF Threw, Ended, PostFails
      <3> QED BY <3>1, <3>2
    <2>2. Again /\ ~ LastTry /\ refreshed' = refreshed => SessionType'
      BY <1>1, <1>5, <1>8 DEF Again, LastTry, SessionType, PostFails
    <2> QED BY <1>8, <2>1, <2>2 DEF PostFails
  <1>9. CASE Check \/ Watch
    BY <1>3, <1>4, <1>6, <1>9 DEF Check, Watch, IsCancelled, Ended
  <1>10. CASE Submit
    BY <1>3, <1>4, <1>6, <1>10 DEF Submit, Ended
  <1>11. CASE CancelLocal
    BY <1>3, <1>6, <1>11 DEF CancelLocal, Ended
  <1>12. CASE PollJob
    <2>1. job[cmd] \in Local!Finished => Answer \in Ended
      BY DEF Answer, Ended, Local!Finished
    <2>2. pc = "poll" /\ cmd # None
      BY <1>6, <1>12 DEF PollJob
    <2>3. \/ job[cmd] \in Local!Finished /\ Post(Answer, FALSE)
          \/ GoTo("watch")
          \/ Post("failed", TRUE)
      BY <1>12 DEF PollJob
    <2> QED BY <1>3, <1>4, <2>1, <2>2, <2>3 DEF Ended
  <1>13. CASE Poll
    <2>1. Fetched \in SUBSET Commands
      BY DEF Fetched
    <2>2. batch' \in Seq(Commands)
      BY <1>13, <2>1, OrdersAre DEF Poll
    <2> QED BY <1>1, <1>13, <2>2 DEF Poll, SessionType
  <1>14. CASE Take
    <2>1. CASE batch = <<>> \/ stopping
      BY <1>1, <1>2, <1>14, <2>1 DEF Take, SessionType
    <2>2. CASE ~ (batch = <<>> \/ stopping)
      <3>1. cmd' \in Commands /\ batch' \in Seq(Commands)
        BY <1>1, <1>14, <2>2 DEF Take, SessionType
      <3> QED BY <1>1, <1>2, <1>14, <2>2, <3>1 DEF Take, SessionType
    <2> QED BY <2>1, <2>2
  <1>15. CASE Stopped
    BY <1>1, <1>15 DEF Stopped, SessionType
  <1>16. CASE UNCHANGED session
    BY <1>1, <1>16 DEF session, SessionType
  <1>17. CASE \/ Stop \/ Arrive
              \/ \E c \in Commands : Queue(c) \/ UserCancel(c) \/ Server(c) \/ LocalCancel(c)
    BY <1>16, <1>17 DEF Stop, Arrive, Queue, UserCancel, Server, LocalCancel
  <1> QED BY <1>7, <1>8, <1>9, <1>10, <1>11, <1>12, <1>13, <1>14, <1>15, <1>17 DEF Next, Task

LEMMA TypeKept == TypeOK /\ Next => TypeOK'
  BY CloudType, JobType, GhostType, SessionTypeKept DEF SessionType, TypeOK

(***************************************************************************)
(* The inductive invariant.                                                *)
(***************************************************************************)

\* A command whose job was never submitted has none.
Unstarted == \A c \in Commands : starts[c] = 0 => job[c] = "new"

\* A command is listed once, and not while it is executed.
Listed ==
    /\ \A i, j \in DOMAIN batch : batch[i] = batch[j] => i = j
    /\ \A i \in DOMAIN batch : batch[i] # cmd

\* A command that was submitted is not pending, and nothing leads to another submission.
Once ==
    \A c \in Commands : c \notin silent =>
        /\ starts[c] <= 1
        /\ starts[c] = 1 => /\ cloud[c] \notin {"absent", "pending"}
                            /\ \A i \in DOMAIN batch : batch[i] # c
                            /\ c = cmd => pc \notin {"check", "submit"} /\ say # "processing"
        /\ c = cmd /\ pc \in {"check", "submit"} => cloud[c] \notin {"absent", "pending"}

\* The status s is true of c.
True(c, s) ==
    starts[c] <= 1 =>
        /\ s = "completed" => job[c] = "completed"
        /\ s = "cancelled" => c \in asked \/ job[c] = "cancelled"
        /\ s = "failed" => job[c] = "failed" \/ c \in hit \/ stopping

\* Whatever the cloud has, may still get or is about to be told is true.
Truth ==
    /\ \A c \in Commands : True(c, cloud[c])
    /\ \A m \in flight : True(m[1], m[2])
    /\ pc = "post" => True(cmd, say)
    /\ pc = "cancel" => True(cmd, "cancelled")

\* A command cancelled before its turn stays cancelled and goes no further than the check.
Early ==
    \A c \in early : final /\ c \notin hit =>
        /\ cloud[c] = "cancelled" /\ starts[c] = 0
        /\ c = cmd => pc \in {"post", "check"}

\* An unfinished job is watched.
Watched ==
    \A c \in Commands : job[c] \in Local!Active =>
        c \in hit \/ stopping \/ (c = cmd /\ pc \in {"watch", "poll", "cancel"})

Inv == TypeOK /\ Unstarted /\ silent \subseteq hit /\ Listed /\ Once /\ Truth /\ Early /\ Watched

LEMMA InitInv == Init => Inv
  <1> SUFFICES ASSUME Init PROVE Inv
    OBVIOUS
  <1>1. TypeOK
    <2>1. <<>> \in Seq(Commands) /\ 0 \in 0..MaxFaults /\ 0 \in 0..(MaxTries - 1)
      OBVIOUS
    <2> QED BY <2>1 DEF Init, TypeOK
  <1>2. \A i \in DOMAIN batch : FALSE
    BY DEF Init
  <1>3. Unstarted /\ silent \subseteq hit /\ Early
    BY DEF Init, Unstarted, Early
  <1>4. Listed
    BY <1>2 DEF Listed
  <1>5. Once
    BY DEF Init, Once
  <1>6. Truth
    BY DEF Init, Truth, True
  <1>7. Watched
    BY DEF Init, Watched, Local!Active
  <1> QED BY <1>1, <1>3, <1>4, <1>5, <1>6, <1>7 DEF Inv

LEMMA GhostsGrow ==
    ASSUME TypeOK, Next, silent \subseteq hit
    PROVE  /\ asked \subseteq asked' /\ hit \subseteq hit' /\ silent \subseteq silent'
           /\ stopping => stopping'
           /\ silent' \subseteq hit'
  <1>1. NoFault => hit' = hit /\ asked' = asked /\ silent' = silent
    BY DEF NoFault, ghosts
  <1>2. Fault => hit' = hit \cup {cmd} /\ asked' = asked
    BY DEF Fault
  <1>3. CASE Check \/ Submit \/ Watch \/ CancelLocal \/ PollJob
    <2>1. \/ NoFault \/ (Fault /\ UNCHANGED silent)
      BY <1>3 DEF Check, Submit, Watch, IsCancelled, CancelLocal, PollJob
    <2>2. UNCHANGED stopping
      BY <1>3 DEF Check, Submit, Watch, IsCancelled, CancelLocal, PollJob
    <2> QED BY <1>1, <1>2, <2>1, <2>2
  <1>4. CASE PostFails
    BY <1>2, <1>4 DEF PostFails
  <1>5. CASE PostExpired
    BY <1>2, <1>5 DEF PostExpired
  <1>6. CASE Poll \/ Take \/ PostOk \/ Stopped \/ Stop
    BY <1>1, <1>6 DEF Poll, Take, PostOk, Stopped, Stop
  <1>7. CASE Arrive
    BY <1>7 DEF Arrive, ghosts
  <1>8. CASE \E c \in Commands : Queue(c) \/ UserCancel(c) \/ Server(c) \/ LocalCancel(c)
    BY <1>1, <1>8 DEF Queue, UserCancel, Server, LocalCancel, ghosts
  <1> QED BY <1>3, <1>4, <1>5, <1>6, <1>7, <1>8 DEF Next, Task

LEMMA UnstartedKept ==
    ASSUME Inv, Next
    PROVE  Unstarted'
  <1>1. CASE Onward
    BY <1>1 DEF Onward, Inv, Unstarted
  <1>2. CASE Submitted
    BY <1>2 DEF Submitted, Inv, TypeOK, Unstarted
  <1> QED BY <1>1, <1>2, JobMoves DEF Inv

\* What was true stays true.
LEMMA StillTrue ==
    ASSUME Inv, Next, NEW c \in Commands, NEW s, True(c, s)
    PROVE  True(c, s)'
  <1>1. asked \subseteq asked' /\ hit \subseteq hit' /\ (stopping => stopping')
    BY GhostsGrow DEF Inv
  <1>2. CASE Onward
    BY <1>1, <1>2 DEF Onward, True
  <1>3. CASE Submitted
    <2>1. CASE c # cmd
      BY <1>1, <1>3, <2>1 DEF Submitted, True, Inv, TypeOK
    <2>2. CASE c = cmd
      <3>1. starts'[c] = starts[c] + 1 /\ starts[c] \in Nat
        BY <1>3, <2>2 DEF Submitted, Inv, TypeOK
      <3>2. starts'[c] <= 1 => starts[c] = 0 /\ job[c] = "new"
        BY <3>1 DEF Inv, Unstarted
      <3> QED BY <1>1, <3>2 DEF True
    <2> QED BY <2>1, <2>2
  <1> QED BY <1>2, <1>3, JobMoves DEF Inv

LEMMA ListedKept ==
    ASSUME Inv, Next
    PROVE  Listed'
  <1>1. Listed /\ batch \in Seq(Commands)
    BY DEF Inv, TypeOK
  <1>2. CASE UNCHANGED batch /\ (cmd' = cmd \/ cmd' = None)
    <2>1. \A i \in DOMAIN batch : batch[i] \in Commands
      BY <1>1
    <2> QED BY <1>1, <1>2, <2>1 DEF Listed
  <1>3. CASE batch' = <<>>
    BY <1>3 DEF Listed
  <1>4. CASE Poll
    <2>1. Fetched \in SUBSET Commands
      BY DEF Fetched
    <2>2. batch' \in Orders(Fetched) /\ cmd' = None
      BY <1>4 DEF Poll, Inv, TypeOK
    <2> QED BY <2>1, <2>2, OrdersAre DEF Listed
  <1>5. CASE Take /\ ~ (batch = <<>> \/ stopping)
    <2>1. cmd' = Head(batch) /\ batch' = Tail(batch) /\ batch # <<>>
      BY <1>5 DEF Take
    <2>2. \A i \in DOMAIN batch' : /\ i + 1 \in DOMAIN batch /\ batch'[i] = batch[i + 1]
                                   /\ i \in Nat /\ i # 0
      BY <1>1, <2>1
    <2>3. 1 \in DOMAIN batch /\ cmd' = batch[1]
      BY <1>1, <2>1
    <2>4. \A i, j \in DOMAIN batch' : batch'[i] = batch'[j] => i = j
      BY <1>1, <2>2 DEF Listed
    <2>5. \A i \in DOMAIN batch' : batch'[i] # cmd'
      BY <1>1, <2>2, <2>3 DEF Listed
    <2> QED BY <2>4, <2>5 DEF Listed
  <1>6. CASE Take /\ (batch = <<>> \/ stopping)
    BY <1>3, <1>6 DEF Take
  <1>7. CASE PostOk \/ PostFails \/ PostExpired
    BY <1>2, <1>3, <1>7 DEF PostOk, PostFails, PostExpired, Returned, Quit, Threw, Post, Again
  <1>8. CASE Check \/ Submit \/ Watch \/ CancelLocal \/ PollJob \/ Stopped
    BY <1>2, <1>8 DEF Check, Submit, Watch, IsCancelled, CancelLocal, PollJob, Stopped, Post, GoTo
  <1>9. CASE \/ Stop \/ Arrive
             \/ \E c \in Commands : Queue(c) \/ UserCancel(c) \/ Server(c) \/ LocalCancel(c)
    BY <1>2, <1>9 DEF Stop, Arrive, Queue, UserCancel, Server, LocalCancel, session
  <1> QED BY <1>4, <1>5, <1>6, <1>7, <1>8, <1>9 DEF Next, Task

\* What the cloud has of a command that is neither absent nor pending.
LEMMA Underway ==
    ASSUME TypeOK, Next, NEW c \in Commands, cloud[c] \notin {"absent", "pending"}
    PROVE  cloud'[c] \notin {"absent", "pending"}
  <1>1. \A m \in flight : m[1] \in Commands /\ m[2] \in {"processing"} \cup Ended
    BY DEF TypeOK
  <1>2. \A d \in Commands, s \in {"processing"} \cup Ended :
          Told(d, s)[c] = cloud[c] \/ Told(d, s)[c] = s
    BY DEF Told, TypeOK
  <1>3. \A s \in {"processing"} \cup Ended : s \notin {"absent", "pending"}
    BY DEF Ended
  <1>4. CASE cloud' = cloud
    BY <1>4
  <1>5. CASE \E d \in Commands, s \in {"processing"} \cup Ended : cloud' = Told(d, s)
    BY <1>2, <1>3, <1>5
  <1>6. CASE Arrive
    BY <1>1, <1>5, <1>6 DEF Arrive
  <1>7. CASE PostOk
    BY <1>5, <1>7 DEF PostOk, TypeOK
  <1>8. CASE PollJob
    BY <1>4, <1>5, <1>8 DEF PollJob, TypeOK
  <1>9. CASE \E d \in Commands : Queue(d) \/ UserCancel(d)
    BY <1>9 DEF Queue, UserCancel, TypeOK
  <1>10. CASE \/ PostFails \/ PostExpired \/ Poll \/ Take \/ Check \/ Submit \/ Watch \/ CancelLocal
              \/ Stopped \/ Stop \/ \E d \in Commands : Server(d) \/ LocalCancel(d)
    BY <1>4, <1>10 DEF PostFails, PostExpired, Poll, Take, Check, Submit, Watch, IsCancelled,
       CancelLocal, Stopped, Stop, Server, LocalCancel
  <1> QED BY <1>6, <1>7, <1>8, <1>9, <1>10 DEF Next, Task

LEMMA OnceKept ==
    ASSUME Inv, Next
    PROVE  Once'
  <1> SUFFICES ASSUME NEW c \in Commands, c \notin silent'
               PROVE  /\ starts'[c] <= 1
                      /\ starts'[c] = 1 => /\ cloud'[c] \notin {"absent", "pending"}
                                           /\ \A i \in DOMAIN batch' : batch'[i] # c
                                           /\ c = cmd' => pc' \notin {"check", "submit"} /\ say' # "processing"
                      /\ c = cmd' /\ pc' \in {"check", "submit"} => cloud'[c] \notin {"absent", "pending"}
    BY DEF Once
  <1>1. c \notin silent
    BY GhostsGrow DEF Inv
  <1>2. /\ starts[c] <= 1
        /\ starts[c] = 1 => /\ cloud[c] \notin {"absent", "pending"}
                            /\ \A i \in DOMAIN batch : batch[i] # c
                            /\ c = cmd => pc \notin {"check", "submit"} /\ say # "processing"
        /\ c = cmd /\ pc \in {"check", "submit"} => cloud[c] \notin {"absent", "pending"}
    BY <1>1 DEF Inv, Once
  <1>3. TypeOK /\ Listed /\ starts[c] \in Nat
    BY DEF Inv, TypeOK
  <1>4. cloud[c] \notin {"absent", "pending"} => cloud'[c] \notin {"absent", "pending"}
    BY <1>3, Underway
  <1>5. c \in Commands /\ (pc = "post" => cmd \in Commands)
    BY DEF Inv, TypeOK
  <1> DEFINE Goal ==
        /\ starts'[c] <= 1
        /\ starts'[c] = 1 => /\ cloud'[c] \notin {"absent", "pending"}
                             /\ \A i \in DOMAIN batch' : batch'[i] # c
                             /\ c = cmd' => pc' \notin {"check", "submit"} /\ say' # "processing"
        /\ c = cmd' /\ pc' \in {"check", "submit"} => cloud'[c] \notin {"absent", "pending"}
  <1>6. ASSUME starts' = starts,
               batch' = batch \/ \A i \in DOMAIN batch' : batch'[i] # c,
               c = cmd' => /\ c = cmd
                           /\ pc' \in {"check", "submit"} => pc \in {"check", "submit"}
                           /\ say' = "processing" => say = "processing"
        PROVE  Goal
    <2>1. starts[c] = 1 => \A i \in DOMAIN batch' : batch'[i] # c
      <3>1. CASE batch' = batch
        BY <1>2, <3>1
      <3> QED BY <1>6, <3>1
    <2>2. starts[c] = 1 /\ c = cmd' => pc' \notin {"check", "submit"} /\ say' # "processing"
      BY <1>2, <1>6
    <2>3. c = cmd' /\ pc' \in {"check", "submit"} => cloud'[c] \notin {"absent", "pending"}
      BY <1>2, <1>4, <1>6
    <2> QED BY <1>2, <1>4, <1>6, <2>1, <2>2, <2>3
  <1>7. \A s \in Ended : s # "processing"
    BY DEF Ended
  <1>8. None # "processing"
    OBVIOUS
  <1>9. CASE PostOk
    <2>1. CASE say = "processing"
      <3>1. c = cmd => cloud'[c] \notin {"absent", "pending"}
        BY <1>3, <1>9, <2>1 DEF PostOk, Told, TypeOK, Ended
      <3>2. pc = "post" /\ pc' = "check" /\ cmd' = cmd /\ batch' = batch /\ starts' = starts /\ say' = None
        BY <1>9, <2>1 DEF PostOk, Returned, Quit
      <3>3. starts[c] = 1 => c # cmd
        BY <1>2, <2>1
      <3> QED BY <1>2, <1>4, <1>8, <3>1, <3>2, <3>3
    <2>2. CASE say # "processing"
      <3>1. cmd' = None /\ batch' = batch /\ starts' = starts
        BY <1>9, <2>2 DEF PostOk, Returned
      <3> QED BY <1>6, <3>1
    <2> QED BY <2>1, <2>2
  <1>10. CASE PostFails
    <2>1. starts' = starts /\ pc = "post"
      BY <1>10 DEF PostFails
    <2>2. CASE Threw
      BY <1>6, <2>1, <2>2 DEF Threw, Post, Quit
    <2>3. CASE Again
      BY <1>6, <2>1, <2>3 DEF Again
    <2> QED BY <1>10, <2>2, <2>3 DEF PostFails
  <1>11. CASE PostExpired
    <2>1. starts' = starts /\ pc = "post"
      BY <1>11 DEF PostExpired
    <2>2. CASE Again
      BY <1>6, <2>1, <2>2 DEF Again
    <2>3. CASE Returned /\ silent' = silent \cup {cmd}
      <3>1. batch' = batch /\ (cmd' = cmd \/ cmd' = None) /\ c # cmd
        BY <2>3 DEF Returned
      <3> QED BY <1>6, <2>1, <3>1
    <2> QED BY <1>11, <2>2, <2>3 DEF PostExpired
  <1>12. CASE Poll
    <2>1. Fetched \in SUBSET Commands /\ batch' \in Orders(Fetched) /\ starts' = starts /\ cmd' = None
      BY <1>12 DEF Fetched, Poll, Inv, TypeOK
    <2>2. \A i \in DOMAIN batch' : batch'[i] \in Fetched
      BY <2>1, OrdersAre
    <2>3. c \in Fetched => cloud[c] = "pending"
      BY DEF Fetched
    <2> QED BY <1>2, <1>4, <2>1, <2>2, <2>3
  <1>13. CASE Take
    <2>1. CASE batch = <<>> \/ stopping
      <3>1. batch' = <<>> /\ UNCHANGED <<starts, cmd, say>> /\ pc' = "idle"
        BY <1>13, <2>1 DEF Take
      <3> QED BY <1>6, <3>1
    <2>2. CASE ~ (batch = <<>> \/ stopping)
      <3>1. /\ cmd' = Head(batch) /\ batch' = Tail(batch) /\ batch # <<>> /\ batch \in Seq(Commands)
            /\ pc' = "post" /\ starts' = starts
        BY <1>13, <2>2 DEF Take, Inv, TypeOK
      <3>2. \A i \in DOMAIN batch' : i + 1 \in DOMAIN batch /\ batch'[i] = batch[i + 1]
        BY <3>1
      <3>3. 1 \in DOMAIN batch /\ cmd' = batch[1]
        BY <3>1
      <3>4. starts[c] = 1 => c # cmd' /\ \A i \in DOMAIN batch' : batch'[i] # c
        BY <1>2, <3>2, <3>3
      <3> QED BY <1>2, <1>4, <3>1, <3>4
    <2> QED BY <2>1, <2>2
  <1>14. CASE Submit
    <2>1. /\ batch' = batch /\ cmd' = cmd /\ cmd \in Commands /\ pc = "submit"
          /\ pc' \in {"watch", "post"} /\ say' # "processing"
      BY <1>14, <1>8 DEF Submit, GoTo, Post, Inv, TypeOK
    <2>2. CASE starts' = starts
      BY <1>6, <2>1, <2>2
    <2>3. CASE Submitted
      <3>1. CASE c = cmd
        <4>1. starts[c] = 0 /\ cloud[c] \notin {"absent", "pending"}
          BY <1>2, <1>3, <2>1, <3>1
        <4>2. starts'[c] = 1
          BY <1>3, <2>1, <2>3, <3>1, <4>1 DEF Submitted, TypeOK
        <4>3. \A i \in DOMAIN batch' : batch'[i] # c
          BY <1>3, <2>1, <3>1 DEF Listed
        <4> QED BY <1>4, <2>1, <4>1, <4>2, <4>3
      <3>2. CASE c # cmd
        <4>1. starts'[c] = starts[c]
          BY <1>3, <2>1, <2>3, <3>2 DEF Submitted, TypeOK
        <4> QED BY <1>2, <1>4, <2>1, <3>2, <4>1
      <3> QED BY <3>1, <3>2
    <2> QED BY <1>14, <2>2, <2>3 DEF Submit
  <1>15. CASE Check \/ Watch
    BY <1>6, <1>15 DEF Check, Watch, IsCancelled, GoTo, Post
  <1>16. CASE CancelLocal \/ Stopped
    BY <1>6, <1>16 DEF CancelLocal, Stopped, Post
  <1>17. CASE PollJob
    <2>1. job[cmd] \in Local!Finished => Answer # "processing"
      BY DEF Answer, Local!Finished
    <2> QED BY <1>6, <1>17, <2>1 DEF PollJob, GoTo, Post
  <1>18. CASE \/ Stop \/ Arrive
              \/ \E d \in Commands : Queue(d) \/ UserCancel(d) \/ Server(d) \/ LocalCancel(d)
    BY <1>6, <1>18 DEF Stop, Arrive, Queue, UserCancel, Server, LocalCancel, session
  <1> QED BY <1>9, <1>10, <1>11, <1>12, <1>13, <1>14, <1>15, <1>16, <1>17, <1>18 DEF Next, Task

LEMMA TruthKept ==
    ASSUME Inv, Next
    PROVE  Truth'
  <1>1. /\ TypeOK /\ Truth
        /\ \A m \in flight : m[1] \in Commands /\ m[2] \in {"processing"} \cup Ended
        /\ pc \in {"post", "check", "submit", "watch", "poll", "cancel"} => cmd \in Commands
    BY DEF Inv, TypeOK
  <1>2. \A c \in Commands : \A s : True(c, s) => True(c, s)'
    BY StillTrue
  <1>3. \A c : \A s : s \notin {"completed", "cancelled", "failed"} => True(c, s)'
    BY DEF True
  <1>4. \A c, d \in Commands, s \in {"processing"} \cup Ended :
          Told(d, s)[c] = cloud[c] \/ (c = d /\ Told(d, s)[c] = s)
    BY <1>1 DEF Told, TypeOK
  <1>5. ASSUME NEW c \in Commands
        PROVE  True(c, cloud[c])'
    <2>1. CASE cloud' = cloud
      BY <1>1, <1>2, <2>1 DEF Truth
    <2>2. ASSUME NEW d \in Commands, NEW s \in {"processing"} \cup Ended, cloud' = Told(d, s), True(d, s)'
          PROVE  True(c, cloud[c])'
      <3>1. CASE cloud'[c] = cloud[c]
        BY <1>1, <1>2, <3>1 DEF Truth
      <3>2. CASE c = d /\ cloud'[c] = s
        BY <2>2, <3>2
      <3> QED BY <1>4, <2>2, <3>1, <3>2
    <2>3. CASE Arrive
      <3>1. PICK m \in flight : cloud' = Told(m[1], m[2])
        BY <2>3 DEF Arrive
      <3>2. True(m[1], m[2])'
        BY <1>1, <1>2 DEF Truth
      <3> QED BY <1>1, <2>2, <3>1, <3>2
    <2>4. CASE PostOk
      <3>1. PICK d \in Commands, s \in {"processing"} \cup Ended :
              cloud' = Told(d, s) /\ True(d, s)
        BY <1>1, <2>4 DEF PostOk, TypeOK, Truth
      <3> QED BY <1>2, <2>2, <3>1
    <2>5. CASE PollJob
      <3>1. PICK d \in Commands : cloud' = cloud \/ cloud' = Told(d, "processing")
        BY <1>1, <2>5 DEF PollJob
      <3>2. True(d, "processing")'
        BY <1>3
      <3> QED BY <2>1, <2>2, <3>1, <3>2
    <2>6. CASE \E d \in Commands : Queue(d)
      <3>1. cloud'[c] = cloud[c] \/ cloud'[c] = "pending"
        BY <1>1, <2>6 DEF Queue, TypeOK
      <3> QED BY <1>1, <1>2, <1>3, <3>1 DEF Truth
    <2>7. CASE \E d \in Commands : UserCancel(d)
      <3>1. cloud'[c] = cloud[c] \/ (cloud'[c] = "cancelled" /\ c \in asked')
        BY <1>1, <2>7 DEF UserCancel, TypeOK
      <3>2. c \in asked' => True(c, "cancelled")'
        BY DEF True
      <3> QED BY <1>1, <1>2, <3>1, <3>2 DEF Truth
    <2>8. CASE \/ PostFails \/ PostExpired \/ Poll \/ Take \/ Check \/ Submit \/ Watch \/ CancelLocal
               \/ Stopped \/ Stop \/ \E d \in Commands : Server(d) \/ LocalCancel(d)
      BY <2>1, <2>8 DEF PostFails, PostExpired, Poll, Take, Check, Submit, Watch, IsCancelled,
         CancelLocal, Stopped, Stop, Server, LocalCancel
    <2> QED BY <2>3, <2>4, <2>5, <2>6, <2>7, <2>8 DEF Next, Task
  <1>6. \A m \in flight' : True(m[1], m[2])'
    <2>1. \A m \in flight : True(m[1], m[2])'
      BY <1>1, <1>2 DEF Truth
    <2>2. CASE flight' \subseteq flight
      BY <2>1, <2>2
    <2>3. CASE PostFails
      <3>1. PICK d \in Commands, s \in {"processing"} \cup Ended :
              flight' \subseteq flight \cup {<<d, s>>} /\ True(d, s)
        BY <1>1, <2>3 DEF PostFails, TypeOK, Truth
      <3> QED BY <1>2, <2>1, <3>1
    <2>4. CASE PollJob
      <3>1. PICK d \in Commands : flight' \subseteq flight \cup {<<d, "processing">>}
        BY <1>1, <2>4 DEF PollJob
      <3>2. True(d, "processing")'
        BY <1>3
      <3> QED BY <2>1, <3>1, <3>2
    <2>5. CASE \/ Arrive \/ PostOk \/ PostExpired \/ Poll \/ Take \/ Check \/ Submit \/ Watch \/ CancelLocal
               \/ Stopped \/ Stop
               \/ \E d \in Commands : Queue(d) \/ UserCancel(d) \/ Server(d) \/ LocalCancel(d)
      BY <2>2, <2>5 DEF Arrive, PostOk, PostExpired, Poll, Take, Check, Submit, Watch, IsCancelled,
         CancelLocal, Stopped, Stop, Queue, UserCancel, Server, LocalCancel
    <2> QED BY <2>3, <2>4, <2>5 DEF Next, Task
  <1>7. \A c \in hit' : True(c, "failed")'
    BY DEF True
  <1>8. stopping' => \A c : True(c, "failed")'
    BY DEF True
  <1>9. ASSUME Post("failed", TRUE), cmd \in hit' \/ stopping'
        PROVE  True(cmd, say)'
    BY <1>7, <1>8, <1>9 DEF Post
  <1>10. pc' = "post" => True(cmd, say)'
    <2>1. CASE cmd' = cmd /\ say' = say /\ pc = "post"
      BY <1>1, <1>2, <2>1 DEF Truth
    <2>2. CASE PostOk
      BY <2>2 DEF PostOk, Returned, Quit
    <2>3. CASE PostFails
      BY <1>9, <2>1, <2>3 DEF PostFails, Fault, Threw, Quit, Again
    <2>4. CASE PostExpired
      BY <2>1, <2>4 DEF PostExpired, Again, Returned, Quit
    <2>5. CASE Take
      BY <1>3, <2>5 DEF Take
    <2>6. CASE Check
      <3>1. CASE cloud[cmd] = "cancelled" /\ Post("cancelled", FALSE)
        <4>1. True(cmd, "cancelled") /\ cmd \in Commands
          BY <1>1, <2>6, <3>1 DEF Check, Truth
        <4> QED BY <1>2, <3>1, <4>1 DEF Post
      <3>2. CASE GoTo("submit")
        BY <3>2 DEF GoTo
      <3> QED BY <2>6, <3>1, <3>2 DEF Check, IsCancelled
    <2>7. CASE Submit
      BY <1>9, <2>7 DEF Submit, Fault, GoTo
    <2>8. CASE CancelLocal
      <3>1. True(cmd, "cancelled") /\ cmd \in Commands /\ cmd' = cmd /\ say' = "cancelled"
        BY <1>1, <2>8 DEF CancelLocal, Truth, Post
      <3> QED BY <1>2, <3>1
    <2>9. CASE PollJob
      <3>1. CASE Post("failed", TRUE) /\ (stopping' \/ cmd \in hit')
        BY <1>9, <3>1
      <3>2. CASE Post(Answer, FALSE) /\ job' = job
        BY <3>2 DEF Post, Answer, True
      <3>3. CASE GoTo("watch")
        BY <3>3 DEF GoTo
      <3> QED BY <2>9, <3>1, <3>2, <3>3 DEF PollJob, Fault
    <2>10. CASE Poll \/ Watch \/ Stopped
      BY <2>10 DEF Poll, Watch, IsCancelled, GoTo, Stopped
    <2>11. CASE \/ Stop \/ Arrive
                \/ \E d \in Commands : Queue(d) \/ UserCancel(d) \/ Server(d) \/ LocalCancel(d)
      BY <2>1, <2>11 DEF Stop, Arrive, Queue, UserCancel, Server, LocalCancel, session
    <2> QED BY <2>2, <2>3, <2>4, <2>5, <2>6, <2>7, <2>8, <2>9, <2>10, <2>11 DEF Next, Task
  <1>11. pc' = "cancel" => True(cmd, "cancelled")'
    <2>1. CASE pc = "cancel" /\ cmd' = cmd
      BY <1>1, <1>2, <2>1 DEF Truth
    <2>2. CASE Watch
      <3>1. CASE cloud[cmd] = "cancelled"
        <4>1. True(cmd, "cancelled") /\ cmd \in Commands /\ cmd' = cmd
          BY <1>1, <2>2, <3>1 DEF Watch, IsCancelled, GoTo, Truth
        <4> QED BY <1>2, <4>1
      <3>2. CASE GoTo("poll")
        BY <3>2 DEF GoTo
      <3> QED BY <2>2, <3>1, <3>2 DEF Watch, IsCancelled
    <2>3. CASE PostOk \/ PostFails \/ PostExpired
      BY <2>3 DEF PostOk, PostFails, PostExpired, Threw, Again, Returned, Quit, Post
    <2>4. CASE Poll \/ Take \/ Check \/ Submit \/ CancelLocal \/ PollJob \/ Stopped
      BY <2>4 DEF Poll, Take, Check, IsCancelled, Submit, CancelLocal, PollJob, Stopped, GoTo, Post
    <2>5. CASE \/ Stop \/ Arrive
               \/ \E d \in Commands : Queue(d) \/ UserCancel(d) \/ Server(d) \/ LocalCancel(d)
      BY <2>1, <2>5 DEF Stop, Arrive, Queue, UserCancel, Server, LocalCancel, session
    <2> QED BY <2>2, <2>3, <2>4, <2>5 DEF Next, Task
  <1> QED BY <1>5, <1>6, <1>10, <1>11 DEF Truth

LEMMA EarlyKept ==
    ASSUME Inv, Next
    PROVE  Early'
  <1>1. /\ TypeOK /\ hit \subseteq hit' /\ silent \subseteq hit /\ final' = final
        /\ \A m \in flight : m[1] \in Commands /\ m[2] \in {"processing"} \cup Ended
        /\ pc \in {"post", "poll"} => cmd \in Commands
    BY GhostsGrow, CloudType DEF Inv, TypeOK
  <1> SUFFICES ASSUME NEW c \in early', final, c \notin hit'
               PROVE  /\ cloud'[c] = "cancelled" /\ starts'[c] = 0
                      /\ c = cmd' => pc' \in {"post", "check"}
    BY <1>1 DEF Early
  <1>2. c \notin hit /\ c \in Commands
    BY <1>1, GhostType
  <1>3. CASE c \notin early
    <2>1. PICK d \in Commands : UserCancel(d)
      BY <1>3 DEF Next, Task, Poll, Take, PostOk, PostFails, PostExpired, Check, Submit, Watch, IsCancelled,
         CancelLocal, PollJob, Stopped, Stop, Arrive, Queue, Server, LocalCancel, Fault, NoFault, ghosts
    <2>2. c = d /\ cloud[c] = "pending" /\ c # cmd /\ cloud'[c] = "cancelled" /\ UNCHANGED <<starts, cmd>>
      BY <1>1, <1>2, <1>3, <2>1 DEF UserCancel, TypeOK, session
    <2>3. starts[c] # 1 /\ starts[c] <= 1 /\ starts[c] \in Nat
      BY <1>1, <1>2, <2>2 DEF Inv, Once, TypeOK
    <2> QED BY <2>2, <2>3
  <1>4. CASE c \in early
    <2>1. cloud[c] = "cancelled" /\ starts[c] = 0 /\ (c = cmd => pc \in {"post", "check"})
      BY <1>2, <1>4 DEF Inv, Early
    <2>2. \A d \in Commands, s \in {"processing"} \cup Ended : Told(d, s)[c] = "cancelled"
      BY <1>1, <1>2, <2>1 DEF Told, Ended, TypeOK
    <2>3. cloud'[c] = "cancelled"
      <3>1. CASE PostOk
        BY <1>1, <2>2, <3>1 DEF PostOk, TypeOK
      <3>2. CASE Arrive
        <4>1. PICK m \in flight : cloud' = Told(m[1], m[2])
          BY <3>2 DEF Arrive
        <4> QED BY <1>1, <2>2, <4>1
      <3>3. CASE PollJob
        BY <1>1, <2>1, <2>2, <3>3 DEF PollJob
      <3>4. CASE \E d \in Commands : Queue(d) \/ UserCancel(d)
        BY <1>1, <1>2, <2>1, <3>4 DEF Queue, UserCancel, TypeOK
      <3>5. CASE \/ PostFails \/ PostExpired \/ Poll \/ Take \/ Check \/ Submit \/ Watch \/ CancelLocal
                 \/ Stopped \/ Stop \/ \E d \in Commands : Server(d) \/ LocalCancel(d)
        BY <2>1, <3>5 DEF PostFails, PostExpired, Poll, Take, Check, Submit, Watch, IsCancelled,
           CancelLocal, Stopped, Stop, Server, LocalCancel
      <3> QED BY <3>1, <3>2, <3>3, <3>4, <3>5 DEF Next, Task
    <2>4. starts'[c] = 0
      <3>1. CASE Onward
        BY <2>1, <3>1 DEF Onward
      <3>2. CASE pc = "submit" /\ Submitted
        BY <1>1, <2>1, <3>2 DEF Submitted, TypeOK
      <3> QED BY <1>1, <3>1, <3>2, JobMoves
    <2>5. c = cmd' => pc' \in {"post", "check"}
      <3>1. None # c
        BY <1>2
      <3>2. CASE PostOk \/ PostFails \/ PostExpired
        BY <2>1, <3>1, <3>2 DEF PostOk, PostFails, PostExpired, Threw, Again, Returned, Quit, Post
      <3>3. CASE Take
        <4>1. cmd = None
          BY <1>1, <3>3 DEF Take, TypeOK
        <4> QED BY <3>1, <3>3, <4>1 DEF Take
      <3>4. CASE Check
        <4>1. cmd' = cmd /\ (pc' = "post" \/ cloud[cmd] # "cancelled" \/ cmd \in hit')
          BY <3>4 DEF Check, IsCancelled, Post, GoTo, Fault
        <4> QED BY <2>1, <4>1
      <3>5. CASE Submit \/ Watch \/ CancelLocal \/ PollJob
        <4>1. cmd' = cmd /\ pc \notin {"post", "check"}
          BY <3>5 DEF Submit, Watch, IsCancelled, CancelLocal, PollJob, GoTo, Post
        <4> QED BY <2>1, <4>1
      <3>6. CASE Poll \/ Stopped
        BY <1>1, <3>1, <3>6 DEF Poll, Stopped, TypeOK
      <3>7. CASE \/ Stop \/ Arrive
                 \/ \E d \in Commands : Queue(d) \/ UserCancel(d) \/ Server(d) \/ LocalCancel(d)
        BY <2>1, <3>7 DEF Stop, Arrive, Queue, UserCancel, Server, LocalCancel, session
      <3> QED BY <3>2, <3>3, <3>4, <3>5, <3>6, <3>7 DEF Next, Task
    <2> QED BY <2>3, <2>4, <2>5
  <1> QED BY <1>3, <1>4

LEMMA WatchedKept ==
    ASSUME Inv, Next
    PROVE  Watched'
  <1>1. TypeOK /\ hit \subseteq hit' /\ (stopping => stopping') /\ silent \subseteq hit
    BY GhostsGrow DEF Inv
  <1> SUFFICES ASSUME NEW c \in Commands, job'[c] \in Local!Active, c \notin hit', ~ stopping'
               PROVE  c = cmd' /\ pc' \in {"watch", "poll", "cancel"}
    BY DEF Watched
  <1>2. c \notin hit /\ ~ stopping /\ None # c
    BY <1>1
  <1>3. CASE Submit
    <2>1. CASE Submitted /\ GoTo("watch") /\ c = cmd
      BY <2>1 DEF GoTo
    <2>2. CASE Submitted /\ GoTo("watch") /\ c # cmd
      <3>1. job'[c] = job[c]
        BY <1>1, <2>2 DEF Submitted, TypeOK
      <3> QED BY <1>2, <1>3, <2>2, <3>1 DEF Submit, Inv, Watched
    <2>3. CASE ~ (Submitted /\ GoTo("watch"))
      <3>1. cmd \in hit' /\ pc = "submit"
        BY <1>2, <1>3, <2>3 DEF Submit, Fault
      <3>2. job'[c] = job[c]
        BY <1>1, <1>3, <3>1 DEF Submit, Submitted, TypeOK
      <3> QED BY <1>2, <3>1, <3>2 DEF Inv, Watched
    <2> QED BY <2>1, <2>2, <2>3
  <1>4. CASE ~ Submit
    <2>1. job[c] \in Local!Active
      <3>1. CASE Onward
        BY <3>1 DEF Onward, Local!Active
      <3>2. CASE pc = "submit" /\ Submitted
        <4>1. starts' = starts
          BY <1>4, <3>2 DEF Next, Task, Poll, Take, PostOk, PostFails, PostExpired, Check, Watch, IsCancelled,
             CancelLocal, PollJob, Stopped, Stop, Arrive, Queue, UserCancel, Server, LocalCancel
        <4>2. cmd \in Commands /\ starts'[cmd] = starts[cmd] + 1 /\ starts[cmd] \in Nat
          BY <1>1, <3>2 DEF Submitted, TypeOK
        <4> QED BY <4>1, <4>2
      <3> QED BY <1>1, <3>1, <3>2, JobMoves
    <2>2. c = cmd /\ pc \in {"watch", "poll", "cancel"}
      BY <1>2, <2>1 DEF Inv, Watched
    <2>3. CASE Watch
      BY <2>2, <2>3 DEF Watch, IsCancelled, GoTo
    <2>4. CASE CancelLocal
      <3>1. ~ stopping /\ NoFault
        BY <1>2, <2>2, <2>4 DEF CancelLocal, Fault
      <3>2. Local!Cancel({cmd})
        BY <2>1, <2>2, <2>4, <3>1, <1>2 DEF CancelLocal, Fault
      <3>3. job'[c] = "cancelled"
        BY <2>2, <3>2 DEF Local!Cancel
      <3> QED BY <3>3 DEF Local!Active
    <2>5. CASE PollJob
      <3>1. job[cmd] \notin Local!Finished
        BY <2>1, <2>2 DEF Local!Active, Local!Finished
      <3> QED BY <1>2, <2>2, <2>5, <3>1 DEF PollJob, GoTo, Fault
    <2>6. CASE \/ Stop \/ Arrive
               \/ \E d \in Commands : Queue(d) \/ UserCancel(d) \/ Server(d) \/ LocalCancel(d)
      BY <2>2, <2>6 DEF Stop, Arrive, Queue, UserCancel, Server, LocalCancel, session
    <2>7. CASE Poll \/ Take \/ PostOk \/ PostFails \/ PostExpired \/ Check \/ Stopped
      BY <2>2, <2>7 DEF Poll, Take, PostOk, PostFails, PostExpired, Check, Stopped
    <2> QED BY <1>4, <2>3, <2>4, <2>5, <2>6, <2>7 DEF Next, Task
  <1> QED BY <1>3, <1>4

LEMMA NextInv == Inv /\ [Next]_vars => Inv'
  <1>1. Inv /\ Next => Inv'
    BY TypeKept, UnstartedKept, GhostsGrow, ListedKept, OnceKept, TruthKept, EarlyKept, WatchedKept DEF Inv
  <1>2. Inv /\ UNCHANGED vars => Inv'
    BY DEF vars, session, ghosts, Inv, TypeOK, Unstarted, Listed, Once, Truth, True, Early, Watched
  <1> QED BY <1>1, <1>2

(***************************************************************************)
(* The theorems.                                                           *)
(***************************************************************************)

\* What the cloud says of a command that ended is so, although updates are lost, repeated,
\* late or out of order.  About update_command and the outcomes of _do_execute.
THEOREM CloudIsTold == Spec => []CloudIsRight
  <1>1. Inv => CloudIsRight
    BY DEF Inv, Truth, True, CloudIsRight, AnswerIsTrue
  <1> QED BY InitInv, NextInv, <1>1, PTL DEF Spec

\* A command is submitted once unless an update was silently dropped, and not at all when it
\* was cancelled before its turn, the cloud keeps that and answers.  About
\* _command_polling_loop and _execute_command.
THEOREM AsAsked == Spec => []ExecutedAsAsked
  <1>1. Inv => ExecutedAsAsked
    BY DEF Inv, Once, Early, ExecutedAsAsked, ExecutedOnce, EarlyCancel
  <1> QED BY InitInv, NextInv, <1>1, PTL DEF Spec

\* An unfinished local job is watched by the task, or a request about it failed, or the session
\* stops.  About _do_execute and _cancel_local_job.
THEOREM NobodyIsLeft == Spec => []NoOrphan
  <1>1. Inv => NoOrphan
    BY DEF Inv, Watched, NoOrphan
  <1> QED BY InitInv, NextInv, <1>1, PTL DEF Spec

=============================================================================
