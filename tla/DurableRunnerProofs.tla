------------------------ MODULE DurableRunnerProofs ------------------------
(***************************************************************************)
(* Proofs about DurableRunner for any modules, dependencies and number of  *)
(* workers, runs and faults: what a run counts as done, what children see, *)
(* and that origin moves as CheckpointLog promises.                        *)
(***************************************************************************)
EXTENDS DurableRunner, TLAPS

(***************************************************************************)
(* Branches as sets of commits.                                            *)
(***************************************************************************)
LEMMA LogType ==
    ASSUME NEW b \in Branches
    PROVE  Log(b) \in Seq(Commits) /\ (b # None => b \in Seq(Commits) /\ Log(b) = b)
  BY DEF Branches, Log

LEMMA NoneIsNoBranch == None \notin Seq(Commits) /\ None # <<>>
  <1>1. <<>> \in Seq(Commits)
    OBVIOUS
  <1>2. None \notin Seq(Commits)
    BY DurableAssumption
  <1> QED BY <1>1, <1>2

LEMMA SetOfAppend ==
    ASSUME NEW s \in Seq(Commits), NEW c \in Commits
    PROVE  Append(s, c) \in Seq(Commits) /\ ToSet(Append(s, c)) = ToSet(s) \cup {c}
  <1>1. DOMAIN s = 1..Len(s) /\ DOMAIN Append(s, c) = 1..(Len(s) + 1)
    OBVIOUS
  <1>2. \A i \in 1..Len(s) : Append(s, c)[i] = s[i]
    OBVIOUS
  <1>3. Append(s, c)[Len(s) + 1] = c
    OBVIOUS
  <1> QED BY <1>1, <1>2, <1>3 DEF ToSet

LEMMA SetOfPrefix ==
    ASSUME NEW s \in Seq(Commits), NEW t \in Seq(Commits), IsPrefix(s, t)
    PROVE  ToSet(s) \subseteq ToSet(t) /\ (Len(s) = Len(t) => ToSet(s) = ToSet(t))
  <1>1. Len(s) <= Len(t)
    BY DEF IsPrefix
  <1>2. \A i \in 1..Len(s) : s[i] = t[i]
    <2>1. ASSUME NEW i \in 1..Len(s) PROVE s[i] = t[i]
      <3>1. SubSeq(s, 1, Len(s))[i] = SubSeq(t, 1, Len(s))[i]
        BY DEF IsPrefix
      <3>2. SubSeq(s, 1, Len(s))[i] = s[i] /\ SubSeq(t, 1, Len(s))[i] = t[i]
        BY <1>1
      <3> QED BY <3>1, <3>2
    <2> QED BY <2>1
  <1>3. DOMAIN s = 1..Len(s) /\ DOMAIN t = 1..Len(t)
    OBVIOUS
  <1>4. Len(s) \in Nat /\ Len(t) \in Nat
    OBVIOUS
  <1>5. ToSet(s) \subseteq ToSet(t)
    <2>1. ASSUME NEW i \in 1..Len(s) PROVE i \in 1..Len(t) /\ t[i] = s[i]
      BY <1>1, <1>2, <1>4, <2>1
    <2> QED BY <1>3, <2>1 DEF ToSet
  <1>6. Len(s) = Len(t) => ToSet(s) = ToSet(t)
    BY <1>2, <1>3 DEF ToSet
  <1> QED BY <1>5, <1>6

LEMMA SetOfAmended ==
    ASSUME NEW s \in Seq(Commits), s # <<>>, NEW m \in Modules,
           NEW t, t = [s EXCEPT ![Len(s)].trailer = m]
    PROVE  LET c == [s[Len(s)] EXCEPT !.trailer = m] IN
           /\ t \in Seq(Commits) /\ c \in Commits
           /\ ToSet(t) \subseteq ToSet(s) \cup {c} /\ ToSet(s) \subseteq ToSet(t) \cup {s[Len(s)]}
           /\ c \in ToSet(t)
  <1>1. Len(s) \in 1..Len(s) /\ DOMAIN s = 1..Len(s) /\ s[Len(s)] \in Commits
    OBVIOUS
  <1> DEFINE c == [s[Len(s)] EXCEPT !.trailer = m]
  <1>2. c \in Commits
    BY <1>1 DEF Commits
  <1>3. DOMAIN t = 1..Len(s) /\ t[Len(s)] = c /\ \A i \in 1..Len(s) : i # Len(s) => t[i] = s[i]
    BY <1>1
  <1>4. t \in Seq(Commits)
    BY <1>1, <1>2, <1>3
  <1> QED BY <1>1, <1>2, <1>3, <1>4 DEF ToSet

LEMMA TrailersType ==
    ASSUME NEW b \in Branches
    PROVE  Trailers(b) \subseteq Modules
  <1>1. Log(b) \in Seq(Commits)
    BY LogType
  <1> DEFINE s == Log(b)
  <1>2. \A i \in DOMAIN s : s[i] \in Commits
    BY <1>1
  <1> HIDE DEF s
  <1>3. \A c \in ToSet(s) : c.trailer \in Modules \cup {None}
    BY <1>2 DEF ToSet, Commits
  <1> QED BY <1>3 DEF Trailers, s

(***************************************************************************)
(* The inductive invariant.                                                *)
(***************************************************************************)

\* Each commit of a branch names no module but the one whose output it carries.
Truthful(b) ==
    \A c \in ToSet(Log(b)) : c.content # None /\ c.trailer # None => c.content = c.trailer

\* A branch names a module only with its dependencies.
Sound(b) ==
    /\ \A m \in Modules : m \in Trailers(b) => Deps[m] \subseteq Trailers(b)
    /\ Truthful(b)

Logs ==
    /\ Sound(local) /\ Sound(remote)
    /\ remote = None => tracking = None
    /\ remote # <<>>
    /\ Trailers(tracking) \subseteq Trailers(remote)

\* What the preparation of a run has established by the place it has come to.
Prepared ==
    /\ pc \in {"publish", "scan", "loop"} => local # None
    /\ pc \in {"publish", "scan"} => unread \/ Trailers(tracking) \subseteq Trailers(local)
    /\ pc = "scan" => Trailers(local) \subseteq Trailers(tracking)
    /\ pc # "loop" => \A m \in Modules : worker[m] = "idle"
    /\ pc \notin {"loop", "returned"} => \A m \in Modules : status[m] = "pending"

Successes ==
    \A m \in Modules : status[m] = "success" =>
        m \in Trailers(remote) /\ (pc = "loop" => m \in Trailers(local))

LockHeld == {"applied", "committed"}

Stages ==
    \A m \in Modules :
        /\ worker[m] # "idle" => \A d \in Deps[m] : status[d] = "success"
        /\ worker[m] = "child" => Deps[m] \subseteq Trailers(base[m])
        /\ worker[m] = "applied" =>
              local # <<>> /\ local[Len(local)].content = m /\ local[Len(local)].trailer = None
        /\ worker[m] = "committed" => m \in Trailers(local)
        /\ \A n \in Modules :
              worker[m] \in LockHeld /\ worker[n] \in LockHeld => m = n

\* What a run that could resume has not done yet is not on origin, as far as
\* it knows.
Unfinished ==
    pc = "loop" /\ ~ noResume /\ ~ unread =>
        \A m \in Modules : status[m] \in {"pending", "running"} =>
            /\ m \notin Trailers(tracking)
            /\ worker[m] # "committed" => m \notin Trailers(local)

Inv == TypeOK /\ Logs /\ Prepared /\ Successes /\ Stages /\ Unfinished

LEMMA InitInv == Init => Inv
  <1> SUFFICES ASSUME Init PROVE Inv
    OBVIOUS
  <1>1. TypeOK
    <2>1. Running = {m \in Modules : worker[m] # "idle"}
      BY DEF Init, Running
    <2>2. /\ status \in [Modules -> {"pending", "running", "success", "failed"}]
          /\ worker \in [Modules -> Places] /\ base \in [Modules -> Branches]
      BY DEF Init, Places, Branches
    <2>3. {runs, faults} \subseteq Nat /\ pc = "down"
      BY DEF Init
    <2>4. noResume \in BOOLEAN /\ unread \in BOOLEAN /\ halted \in BOOLEAN /\ dirty \in BOOLEAN
      BY Zenon DEF Init
    <2>5. local \in Branches /\ tracking \in Branches /\ remote \in Branches
      BY DEF Init, Branches
    <2> QED BY <2>1, <2>2, <2>3, <2>4, <2>5 DEF TypeOK
  <1>2. Log(None) = <<>> /\ ToSet(<<>>) = {} /\ Trailers(None) = {}
    BY DEF Log, ToSet, Trailers
  <1>3. remote # <<>>
    BY NoneIsNoBranch DEF Init
  <1> QED BY <1>1, <1>2, <1>3 DEF Init, Inv, Logs, Sound, Truthful, Prepared, Successes, Stages, LockHeld, Unfinished

(***************************************************************************)
(* What the steps of a worker may do, without their guards and faults.     *)
(***************************************************************************)
MemoryTypes ==
    /\ status \in [Modules -> {"pending", "running", "success", "failed"}]
    /\ worker \in [Modules -> Places] /\ base \in [Modules -> Branches]

Turn(m) ==
    /\ worker[m] # "idle"
    /\ \A n \in Modules \ {m} :
          status'[n] = status[n] /\ worker'[n] = worker[n] /\ base'[n] = base[n]
    /\ \/ worker'[m] \in Places \ {"idle"} /\ status'[m] = "running"
       \/ worker'[m] = "idle" /\ status'[m] \in {"success", "failed"}
    /\ worker'[m] = "child" => base'[m] = local

LocalTurn(m) ==
    \/ /\ local' = local /\ worker'[m] \notin LockHeld
       /\ worker[m] \in LockHeld => worker'[m] = "idle"
    \/ /\ LockFree /\ worker[m] = "waiting" /\ worker'[m] = "committed"
       /\ local' = Append(local, [content |-> None, trailer |-> m, run |-> runs])
    \/ /\ LockFree /\ worker[m] = "waiting" /\ worker'[m] \in {"applied", "idle"}
       /\ local' = Patched(m)
    \/ /\ worker[m] = "applied" /\ worker'[m] \in {"committed", "idle"}
       /\ local' = Amended(m)

RemoteTurn(m) ==
    \/ remote' = remote /\ tracking' = tracking /\ status'[m] # "success"
    \/ /\ worker[m] = "committed" /\ worker'[m] = "idle" /\ local' = local
       /\ Pushable /\ remote' = local
       /\ \/ tracking' = tracking /\ status'[m] = "failed"
          \/ tracking' = local /\ status'[m] = "success"

Effect(m) ==
    /\ pc = "loop" /\ pc' = "loop" /\ noResume' = noResume /\ unread' = unread
    /\ MemoryTypes' /\ {halted', dirty'} \subseteq BOOLEAN /\ {runs', faults'} \subseteq Nat
    /\ Turn(m) /\ LocalTurn(m) /\ RemoteTurn(m)

LEMMA RunningIs ==
    ASSUME TypeOK, NEW m \in Modules
    PROVE  worker[m] # "idle" <=> status[m] = "running"
  BY DEF TypeOK, Running

LEMMA ReturnsTurn ==
    ASSUME TypeOK, NEW m \in Modules, NEW r \in {"success", "failed"},
           worker[m] # "idle", Returns(m, r)
    PROVE  MemoryTypes' /\ Turn(m) /\ worker'[m] = "idle" /\ status'[m] = r
  BY DEF TypeOK, Returns, Goes, Places, Branches, MemoryTypes, Turn

LEMMA FailsTurn ==
    ASSUME TypeOK, NEW m \in Modules, worker[m] # "idle", Fails(m) \/ FailsAndHalts(m)
    PROVE  /\ MemoryTypes' /\ Turn(m) /\ worker'[m] = "idle" /\ status'[m] = "failed"
           /\ halted' \in BOOLEAN
  <1>1. Returns(m, "failed")
    BY DEF Fails, FailsAndHalts
  <1>2. halted' \in BOOLEAN
    <2>1. CASE Fails(m)
      BY <2>1, Zenon DEF Fails, TypeOK
    <2>2. CASE FailsAndHalts(m)
      BY <2>2, Zenon DEF FailsAndHalts
    <2> QED BY <2>1, <2>2
  <1> QED BY <1>1, <1>2, ReturnsTurn

LEMMA GoesTurn ==
    ASSUME TypeOK, NEW m \in Modules, NEW p \in Places \ {"idle"}, worker[m] # "idle",
           Goes(m, p), UNCHANGED status,
           UNCHANGED base \/ base' = [base EXCEPT ![m] = local], p = "child" => base'[m] = local
    PROVE  MemoryTypes' /\ Turn(m) /\ worker'[m] = p /\ status'[m] = "running"
  <1>1. status[m] = "running"
    BY RunningIs
  <1>2. MemoryTypes'
    BY DEF TypeOK, Goes, Places, MemoryTypes
  <1> QED BY <1>1, <1>2 DEF TypeOK, Goes, Places, Turn

LEMMA BoundsType ==
    ASSUME TypeOK, Others, NoFault \/ Fault
    PROVE  {runs', faults'} \subseteq Nat
  BY DEF TypeOK, Others, NoFault, Fault

LEMMA GoesEffect ==
    ASSUME TypeOK, NEW m \in Modules, NEW p \in Places \ {"idle"}, worker[m] # "idle",
           pc = "loop", Goes(m, p), UNCHANGED <<status, halted, tracking, dirty, remote>>,
           UNCHANGED base \/ base' = [base EXCEPT ![m] = local], p = "child" => base'[m] = local,
           Frame, NoFault,
           worker'[m] = p => LocalTurn(m)
    PROVE  Effect(m)
  <1>1. MemoryTypes' /\ Turn(m) /\ worker'[m] = p /\ status'[m] = "running"
    BY GoesTurn
  <1>2. {runs', faults'} \subseteq Nat
    BY BoundsType DEF Frame
  <1>3. {halted', dirty'} \subseteq BOOLEAN
    BY Zenon DEF TypeOK
  <1> QED BY <1>1, <1>2, <1>3 DEF Effect, Frame, choices, RemoteTurn

LEMMA FailsEffect ==
    ASSUME TypeOK, NEW m \in Modules, worker[m] # "idle", pc = "loop",
           Fails(m) \/ FailsAndHalts(m), Frame, NoFault \/ Fault, dirty' \in BOOLEAN,
           worker'[m] = "idle" => LocalTurn(m),
           worker'[m] = "idle" /\ status'[m] = "failed" => RemoteTurn(m)
    PROVE  Effect(m)
  <1>1. /\ MemoryTypes' /\ Turn(m) /\ worker'[m] = "idle" /\ status'[m] = "failed"
        /\ halted' \in BOOLEAN
    BY FailsTurn
  <1>2. {runs', faults'} \subseteq Nat
    BY BoundsType DEF Frame
  <1> QED BY <1>1, <1>2 DEF Effect, Frame, choices

LEMMA StepEffect ==
    ASSUME TypeOK, NEW m \in Modules, Step(m) \/ Breakdown(m)
    PROVE  Effect(m)
  <1> USE DEF At, MayCheckpoint, git
  <1>0. {"queued", "child", "waiting", "applied", "committed"} = Places \ {"idle"}
    BY DEF Places
  <1>a. dirty \in BOOLEAN
    BY Zenon DEF TypeOK
  <1>1. CASE Cut(m)
    <2>1. base'[m] = local
      BY <1>1 DEF Cut, CutFrom, TypeOK
    <2> QED BY <1>0, <1>1, <2>1, GoesEffect DEF Cut, CutFrom, LocalTurn, LockHeld
  <1>2. CASE ChildDone(m)
    <2>1. CASE Goes(m, "waiting") /\ UNCHANGED <<status, base, halted>>
      BY <1>0, <1>2, <2>1, GoesEffect DEF ChildDone, LocalTurn, LockHeld
    <2>2. CASE Fails(m)
      BY <1>2, <1>a, <2>2, FailsEffect DEF ChildDone, LocalTurn, RemoteTurn, LockHeld
    <2> QED BY <1>2, <2>1, <2>2 DEF ChildDone
  <1>3. CASE Refuse(m)
    BY <1>3, <1>a, FailsEffect DEF Refuse, LocalTurn, RemoteTurn, LockHeld
  <1>4. CASE NotClean(m)
    BY <1>4, <1>a, FailsEffect DEF NotClean, LocalTurn, RemoteTurn, LockHeld
  <1>5. CASE CommitEmpty(m)
    BY <1>0, <1>5, GoesEffect DEF CommitEmpty, LocalTurn
  <1>6. CASE Apply(m)
    BY <1>0, <1>6, GoesEffect DEF Apply, LocalTurn
  <1>7. CASE Amend(m)
    BY <1>0, <1>7, GoesEffect DEF Amend, LocalTurn
  <1>8. CASE Push(m)
    <2>1. MemoryTypes' /\ Turn(m) /\ worker'[m] = "idle" /\ status'[m] = "success"
      BY <1>8, ReturnsTurn DEF Push
    <2>2. {runs', faults'} \subseteq Nat
      BY <1>8, BoundsType DEF Push, Frame
    <2>3. {halted', dirty'} \subseteq BOOLEAN
      BY <1>8, Zenon DEF Push, TypeOK
    <2> QED BY <1>8, <2>1, <2>2, <2>3 DEF Push, Effect, Frame, choices, LocalTurn, RemoteTurn, LockHeld
  <1>9. CASE PushRejected(m)
    BY <1>9, <1>a, FailsEffect DEF PushRejected, LocalTurn, RemoteTurn, LockHeld
  <1>10. CASE NotCommitted(m)
    BY <1>10, <1>a, FailsEffect DEF NotCommitted, LocalTurn, RemoteTurn, LockHeld
  <1>11. CASE Breaks(m)
    BY <1>11, <1>a, FailsEffect DEF Breaks, LocalTurn, RemoteTurn, LockHeld
  <1>12. CASE ApplyTimesOut(m)
    <2>1. dirty' \in BOOLEAN
      BY <1>12, <1>a DEF ApplyTimesOut
    <2> QED BY <1>12, <2>1, FailsEffect DEF ApplyTimesOut, LocalTurn, RemoteTurn, LockHeld
  <1>13. CASE AmendFails(m)
    BY <1>13, <1>a, FailsEffect DEF AmendFails, LocalTurn, RemoteTurn, LockHeld
  <1>14. CASE PushFails(m)
    <2>1. worker'[m] = "idle" => LocalTurn(m)
      BY <1>14 DEF PushFails, LocalTurn, LockHeld
    <2>2. worker'[m] = "idle" /\ status'[m] = "failed" => RemoteTurn(m)
      BY <1>14 DEF PushFails, RemoteTurn
    <2> QED BY <1>14, <1>a, <2>1, <2>2, FailsEffect DEF PushFails
  <1> QED
    BY <1>1, <1>2, <1>3, <1>4, <1>5, <1>6, <1>7, <1>8, <1>9, <1>10, <1>11, <1>12, <1>13, <1>14
       DEF Step, Breakdown

(***************************************************************************)
(* The branch after such a step.                                           *)
(***************************************************************************)
LEMMA AppendEffect ==
    ASSUME NEW s \in Seq(Commits), NEW c \in Commits, NEW t, t = Append(s, c), Truthful(s),
           c.content = None \/ c.trailer = None \/ c.content = c.trailer
    PROVE  /\ t \in Seq(Commits) /\ Truthful(t) /\ t # <<>> /\ t[Len(t)] = c
           /\ Trailers(t) = Trailers(s) \cup ({c.trailer} \ {None})
  <1>1. t \in Seq(Commits) /\ ToSet(t) = ToSet(s) \cup {c}
    BY SetOfAppend
  <1>2. t # <<>> /\ t[Len(t)] = c
    OBVIOUS
  <1>3. Log(s) = s /\ Log(t) = t
    BY <1>1, NoneIsNoBranch DEF Log
  <1>4. Truthful(t)
    BY <1>1, <1>3 DEF Truthful
  <1>5. Trailers(t) = Trailers(s) \cup ({c.trailer} \ {None})
    BY <1>1, <1>3 DEF Trailers
  <1> QED BY <1>1, <1>2, <1>4, <1>5

LEMMA AmendEffect ==
    ASSUME NEW s \in Seq(Commits), s # <<>>, NEW m \in Modules, Truthful(s),
           s[Len(s)].content = m, s[Len(s)].trailer = None,
           NEW t, t = [s EXCEPT ![Len(s)].trailer = m]
    PROVE  t \in Seq(Commits) /\ Truthful(t) /\ Trailers(t) = Trailers(s) \cup {m}
  <1> DEFINE c == [s[Len(s)] EXCEPT !.trailer = m]
  <1>1. /\ t \in Seq(Commits) /\ c \in Commits /\ c \in ToSet(t)
        /\ ToSet(t) \subseteq ToSet(s) \cup {c} /\ ToSet(s) \subseteq ToSet(t) \cup {s[Len(s)]}
    BY SetOfAmended
  <1>2. s[Len(s)] \in Commits
    OBVIOUS
  <1>3. c.trailer = m /\ c.content = m /\ m # None
    BY <1>2, DurableAssumption DEF Commits
  <1>4. Log(s) = s /\ Log(t) = t
    BY <1>1, NoneIsNoBranch DEF Log
  <1>5. Truthful(t)
    BY <1>1, <1>3, <1>4 DEF Truthful
  <1>6. Trailers(t) \subseteq Trailers(s) \cup {m}
    BY <1>1, <1>3, <1>4 DEF Trailers
  <1>7. Trailers(s) \cup {m} \subseteq Trailers(t)
    BY <1>1, <1>3, <1>4 DEF Trailers
  <1> QED BY <1>1, <1>5, <1>6, <1>7

LEMMA LocalEffect ==
    ASSUME Inv, NEW m \in Modules, Effect(m)
    PROVE  /\ local \in Seq(Commits) /\ local' \in Seq(Commits) /\ Truthful(local')
           /\ Trailers(local) \subseteq Trailers(local')
           /\ Trailers(local') \subseteq Trailers(local) \cup {m}
           /\ worker'[m] = "committed" => m \in Trailers(local')
           /\ worker'[m] \notin {"idle", "committed"} => Trailers(local') = Trailers(local)
           /\ worker'[m] = "applied" =>
                 local' # <<>> /\ local'[Len(local')].content = m /\ local'[Len(local')].trailer = None
  <1>1. local \in Seq(Commits)
    BY LogType DEF Inv, Prepared, Effect, TypeOK
  <1>2. Truthful(local)
    BY DEF Inv, Logs, Sound
  <1>3. runs \in Nat /\ m # None
    BY DurableAssumption DEF Inv, TypeOK
  <1>4. CASE local' = local /\ worker'[m] \notin LockHeld
    BY <1>1, <1>2, <1>4 DEF LockHeld
  <1>5. CASE worker'[m] = "committed"
             /\ local' = Append(local, [content |-> None, trailer |-> m, run |-> runs])
    <2> DEFINE c == [content |-> None, trailer |-> m, run |-> runs]
    <2>1. c \in Commits /\ c.trailer = m /\ c.content = None
      BY <1>3 DEF Commits
    <2>2. local' = Append(local, c)
      BY <1>5
    <2> HIDE DEF c
    <2>3. /\ Truthful(local') /\ local' \in Seq(Commits)
          /\ Trailers(local') = Trailers(local) \cup ({m} \ {None})
      BY <1>1, <1>2, <2>1, <2>2, AppendEffect
    <2> QED BY <1>1, <1>3, <1>5, <2>3
  <1>6. CASE worker'[m] \in {"applied", "idle"} /\ local' = Patched(m)
    <2> DEFINE c == [content |-> m, trailer |-> None, run |-> runs]
    <2>1. c \in Commits /\ c.trailer = None /\ c.content = m
      BY <1>3 DEF Commits
    <2>2. local' = Append(local, c)
      BY <1>6 DEF Patched
    <2> HIDE DEF c
    <2>3. /\ Truthful(local') /\ local' \in Seq(Commits) /\ local' # <<>> /\ local'[Len(local')] = c
          /\ Trailers(local') = Trailers(local) \cup ({None} \ {None})
      BY <1>1, <1>2, <2>1, <2>2, AppendEffect
    <2> QED BY <1>1, <1>6, <2>1, <2>3
  <1>7. CASE worker[m] = "applied" /\ worker'[m] \in {"committed", "idle"} /\ local' = Amended(m)
    <2>1. local # <<>> /\ local[Len(local)].content = m /\ local[Len(local)].trailer = None
      BY <1>7 DEF Inv, Stages
    <2>2. Truthful(local') /\ local' \in Seq(Commits) /\ Trailers(local') = Trailers(local) \cup {m}
      BY <1>1, <1>2, <1>7, <2>1, AmendEffect DEF Amended
    <2> QED BY <1>1, <1>7, <2>2
  <1> QED BY <1>4, <1>5, <1>6, <1>7 DEF Effect, LocalTurn

LEMMA EffectTypeOK ==
    ASSUME Inv, NEW m \in Modules, Effect(m)
    PROVE  TypeOK'
  <1>1. local \in Branches /\ local' \in Branches
    BY LocalEffect DEF Branches
  <1>2. remote' \in Branches /\ tracking' \in Branches
    BY <1>1 DEF Effect, RemoteTurn, Inv, TypeOK
  <1>3. pc' \in {"down", "fetch", "publish", "scan", "loop", "returned"}
        /\ noResume' \in BOOLEAN /\ unread' \in BOOLEAN
    <2>1. /\ pc' = "loop" /\ noResume' = noResume /\ noResume \in BOOLEAN
          /\ unread' = unread /\ unread \in BOOLEAN
      BY Zenon DEF Effect, Inv, TypeOK
    <2> QED BY <2>1, Zenon
  <1>4. Running' = {n \in Modules : worker'[n] # "idle"}
    <2>1. ASSUME NEW n \in Modules PROVE status'[n] = "running" <=> worker'[n] # "idle"
      <3>1. CASE n = m
        BY <3>1 DEF Effect, Turn
      <3>2. CASE n # m
        BY <3>2, RunningIs DEF Effect, Turn, Inv
      <3> QED BY <3>1, <3>2
    <2> QED BY <2>1 DEF Running
  <1>5. /\ MemoryTypes' /\ halted' \in BOOLEAN /\ dirty' \in BOOLEAN
        /\ {runs', faults'} \subseteq Nat
    BY Zenon DEF Effect
  <1> QED BY <1>1, <1>2, <1>3, <1>4, <1>5 DEF TypeOK, MemoryTypes

LEMMA PushedIsKept ==
    ASSUME Inv, local \in Seq(Commits), Pushable
    PROVE  Trailers(remote) \subseteq Trailers(local)
  <1>1. Log(remote) \in Seq(Commits) /\ Log(local) = local
    BY LogType, NoneIsNoBranch DEF Inv, TypeOK, Log
  <1>2. ToSet(Log(remote)) \subseteq ToSet(local)
    BY <1>1, SetOfPrefix DEF Pushable
  <1> QED BY <1>1, <1>2 DEF Trailers

LEMMA DepsInLocal ==
    ASSUME Inv, pc = "loop", NEW m \in Modules, worker[m] # "idle"
    PROVE  Deps[m] \subseteq Trailers(local)
  <1>1. \A d \in Deps[m] : d \in Modules /\ status[d] = "success"
    BY DurableAssumption DEF Inv, Stages
  <1> QED BY <1>1 DEF Inv, Successes

LEMMA EffectLogs ==
    ASSUME Inv, NEW m \in Modules, Effect(m)
    PROVE  Logs'
  <1>1. /\ local \in Seq(Commits) /\ local' \in Seq(Commits) /\ Truthful(local')
        /\ Trailers(local) \subseteq Trailers(local') /\ Trailers(local') \subseteq Trailers(local) \cup {m}
    BY LocalEffect
  <1>2. Deps[m] \subseteq Trailers(local)
    BY DepsInLocal DEF Effect, Turn
  <1>3. Sound(local')
    <2>1. ASSUME NEW n \in Modules, n \in Trailers(local') PROVE Deps[n] \subseteq Trailers(local')
      BY <1>1, <1>2, <2>1 DEF Inv, Logs, Sound
    <2> QED BY <1>1, <2>1 DEF Sound
  <1>4. CASE remote' = remote /\ tracking' = tracking
    BY <1>3, <1>4 DEF Inv, Logs
  <1>5. CASE /\ worker[m] = "committed" /\ local' = local /\ Pushable /\ remote' = local
             /\ tracking' = tracking \/ tracking' = local
    <2>1. Trailers(remote) \subseteq Trailers(local)
      BY <1>1, <1>5, PushedIsKept
    <2>2. m \in Trailers(local)
      BY <1>5 DEF Inv, Stages
    <2>3. local # <<>> /\ local # None
      <3>1. Trailers(<<>>) = {}
        BY NoneIsNoBranch DEF Trailers, Log, ToSet
      <3> QED BY <1>1, <2>2, <3>1, NoneIsNoBranch
    <2>4. Trailers(tracking) \subseteq Trailers(remote)
      BY DEF Inv, Logs
    <2>5. Trailers(tracking') \subseteq Trailers(remote')
      BY <1>5, <2>1, <2>4
    <2>6. Sound(remote') /\ remote' # None /\ remote' # <<>>
      BY <1>3, <1>5, <2>3
    <2> QED BY <1>3, <2>5, <2>6 DEF Logs
  <1> QED BY <1>4, <1>5 DEF Effect, RemoteTurn

LEMMA EffectSuccesses ==
    ASSUME Inv, NEW m \in Modules, Effect(m)
    PROVE  Successes' /\ Prepared'
  <1>1. /\ local \in Seq(Commits) /\ local' \in Seq(Commits)
        /\ Trailers(local) \subseteq Trailers(local')
    BY LocalEffect
  <1>2. Trailers(remote) \subseteq Trailers(remote')
    BY <1>1, PushedIsKept DEF Effect, RemoteTurn
  <1>3. ASSUME NEW n \in Modules, status'[n] = "success"
        PROVE  n \in Trailers(remote') /\ n \in Trailers(local')
    <2>1. CASE n = m
      <3>1. worker[m] = "committed" /\ remote' = local
        BY <1>3, <2>1 DEF Effect, RemoteTurn
      <3> QED BY <1>1, <2>1, <3>1 DEF Inv, Stages
    <2>2. CASE n # m
      <3>1. status[n] = "success"
        BY <1>3, <2>2 DEF Effect, Turn
      <3> QED BY <1>1, <1>2, <3>1 DEF Inv, Successes, Effect
    <2> QED BY <2>1, <2>2
  <1>4. pc' = "loop" /\ local' # None
    BY <1>1, NoneIsNoBranch DEF Effect
  <1> QED BY <1>3, <1>4 DEF Successes, Prepared

LEMMA EffectStages ==
    ASSUME Inv, NEW m \in Modules, Effect(m)
    PROVE  Stages'
  <1>1. /\ Trailers(local) \subseteq Trailers(local')
        /\ worker'[m] = "committed" => m \in Trailers(local')
        /\ worker'[m] = "applied" =>
              local' # <<>> /\ local'[Len(local')].content = m /\ local'[Len(local')].trailer = None
    BY LocalEffect
  <1>2. Deps[m] \subseteq Trailers(local)
    BY DepsInLocal DEF Effect, Turn
  <1>3. \A n \in Modules : status[n] = "success" => status'[n] = "success"
    BY RunningIs DEF Inv, Effect, Turn
  <1>4. \A n \in Modules : worker'[n] # "idle" => worker[n] # "idle"
    BY DEF Effect, Turn
  <1>5. ASSUME NEW n \in Modules, worker'[n] # "idle" PROVE \A d \in Deps[n] : status'[d] = "success"
    <2>1. Deps[n] \subseteq Modules
      BY DurableAssumption
    <2> QED BY <1>3, <1>4, <1>5, <2>1 DEF Inv, Stages
  <1>6. ASSUME NEW n \in Modules, worker'[n] = "child" PROVE Deps[n] \subseteq Trailers(base'[n])
    <2>1. CASE n = m
      BY <1>2, <1>6, <2>1 DEF Effect, Turn
    <2>2. CASE n # m
      BY <1>6, <2>2 DEF Effect, Turn, Inv, Stages
    <2> QED BY <2>1, <2>2
  <1>7. ASSUME NEW n \in Modules, n # m, worker'[n] \in LockHeld PROVE local' = local /\ worker'[m] \notin LockHeld
    <2>1. worker[n] = worker'[n]
      BY <1>7 DEF Effect, Turn
    <2>2. ~ LockFree /\ worker[m] \notin LockHeld
      BY <1>7, <2>1 DEF LockFree, LockHeld, Inv, Stages
    <2> QED BY <2>2 DEF Effect, LocalTurn, LockHeld
  <1>8. ASSUME NEW n \in Modules, worker'[n] = "applied"
        PROVE  local' # <<>> /\ local'[Len(local')].content = n /\ local'[Len(local')].trailer = None
    <2>1. CASE n = m
      BY <1>1, <1>8, <2>1
    <2>2. CASE n # m
      <3>1. worker[n] = "applied" /\ local' = local
        BY <1>7, <1>8, <2>2 DEF Effect, Turn, LockHeld
      <3> QED BY <3>1 DEF Inv, Stages
    <2> QED BY <2>1, <2>2
  <1>9. ASSUME NEW n \in Modules, worker'[n] = "committed" PROVE n \in Trailers(local')
    <2>1. CASE n = m
      BY <1>1, <1>9, <2>1
    <2>2. CASE n # m
      BY <1>1, <1>9, <2>2 DEF Effect, Turn, Inv, Stages
    <2> QED BY <2>1, <2>2
  <1>10. ASSUME NEW n \in Modules, NEW k \in Modules, worker'[n] \in LockHeld, worker'[k] \in LockHeld
         PROVE  n = k
    <2>1. CASE n = m \/ k = m
      BY <1>7, <1>10, <2>1
    <2>2. CASE n # m /\ k # m
      <3>1. worker[n] \in LockHeld /\ worker[k] \in LockHeld
        BY <1>10, <2>2 DEF Effect, Turn
      <3> QED BY <3>1 DEF Inv, Stages
    <2> QED BY <2>1, <2>2
  <1> QED BY <1>5, <1>6, <1>8, <1>9, <1>10 DEF Stages

LEMMA EffectUnfinished ==
    ASSUME Inv, NEW m \in Modules, Effect(m)
    PROVE  Unfinished'
  <1> SUFFICES ASSUME ~ noResume, ~ unread, NEW n \in Modules, status'[n] \in {"pending", "running"}
               PROVE  n \notin Trailers(tracking') /\ (worker'[n] # "committed" => n \notin Trailers(local'))
    BY DEF Unfinished, Effect
  <1>1. /\ Trailers(local') \subseteq Trailers(local) \cup {m}
        /\ worker'[m] \notin {"idle", "committed"} => Trailers(local') = Trailers(local)
    BY LocalEffect
  <1>2. status[n] \in {"pending", "running"}
    BY RunningIs DEF Inv, Effect, Turn
  <1>3. n \notin Trailers(tracking) /\ (worker[n] # "committed" => n \notin Trailers(local))
    BY <1>2 DEF Inv, Unfinished, Effect
  <1>4. CASE n = m
    <2>1. worker'[m] # "idle" /\ tracking' = tracking
      BY <1>4 DEF Effect, Turn, RemoteTurn
    <2>2. worker'[m] # "committed" => worker[m] # "committed"
      BY <2>1 DEF Effect, LocalTurn, LockHeld
    <2> QED BY <1>1, <1>3, <1>4, <2>1, <2>2
  <1>5. CASE n # m
    <2>1. worker'[n] = worker[n]
      BY <1>5 DEF Effect, Turn
    <2>2. worker[m] = "committed" => worker[n] # "committed"
      BY <1>5 DEF Inv, Stages, LockHeld
    <2>3. n \notin Trailers(tracking')
      BY <1>3, <2>2 DEF Effect, RemoteTurn
    <2> QED BY <1>1, <1>3, <1>5, <2>1, <2>3
  <1> QED BY <1>4, <1>5

LEMMA EffectInv ==
    ASSUME Inv, NEW m \in Modules, Effect(m)
    PROVE  Inv'
  BY EffectTypeOK, EffectLogs, EffectSuccesses, EffectStages, EffectUnfinished DEF Inv

(***************************************************************************)
(* The steps of the run and of its surroundings.                           *)
(***************************************************************************)
LEMMA KeepsMemory ==
    ASSUME Inv, UNCHANGED memory
    PROVE  /\ MemoryTypes' /\ halted' \in BOOLEAN
           /\ Running' = {m \in Modules : worker'[m] # "idle"}
  BY DEF memory, Inv, TypeOK, MemoryTypes, Running

LEMMA ResetsMemory ==
    ASSUME Reset
    PROVE  /\ MemoryTypes' /\ halted' \in BOOLEAN
           /\ Running' = {m \in Modules : worker'[m] # "idle"}
           /\ \A m \in Modules : worker'[m] = "idle" /\ status'[m] = "pending"
  <1>1. \A m \in Modules : worker'[m] = "idle" /\ status'[m] = "pending"
    BY DEF Reset
  <1>2. MemoryTypes'
    BY DEF Reset, MemoryTypes, Places, Branches
  <1>3. Running' = {m \in Modules : worker'[m] # "idle"}
    BY <1>1 DEF Running
  <1>4. halted' \in BOOLEAN
    BY Zenon DEF Reset
  <1> QED BY <1>1, <1>2, <1>3, <1>4

\* Outside the loop nothing runs, so only what is on the branches and what the
\* last run counted as done are left to be shown.
LEMMA OutsideLoop ==
    ASSUME TypeOK', Logs', pc' # "loop", \A m \in Modules : worker'[m] = "idle",
           pc' # "returned" => \A m \in Modules : status'[m] = "pending",
           \A m \in Modules : status'[m] = "success" => m \in Trailers(remote'),
           pc' \in {"publish", "scan"} =>
               local' # None /\ (unread' \/ Trailers(tracking') \subseteq Trailers(local')),
           pc' = "scan" => Trailers(local') \subseteq Trailers(tracking')
    PROVE  Inv'
  BY DEF Inv, Prepared, Successes, Stages, Unfinished, LockHeld

LEMMA StartInv ==
    ASSUME Inv, NEW skip \in NoResumes, Start(skip)
    PROVE  Inv'
  <1>1. TypeOK'
    <2>1. /\ MemoryTypes' /\ halted' \in BOOLEAN
          /\ Running' = {m \in Modules : worker'[m] # "idle"}
      BY ResetsMemory DEF Start
    <2>2. noResume' \in BOOLEAN /\ unread' \in BOOLEAN /\ dirty' \in BOOLEAN
      BY Zenon, DurableAssumption DEF Start, git, Inv, TypeOK
    <2>3. {runs', faults'} \subseteq Nat /\ pc' = "fetch"
      BY DEF Start, Inv, TypeOK
    <2>4. local' \in Branches /\ tracking' \in Branches /\ remote' \in Branches
      BY DEF Start, git, Inv, TypeOK
    <2> QED BY <2>1, <2>2, <2>3, <2>4 DEF TypeOK, MemoryTypes
  <1>2. Logs'
    BY DEF Start, git, Inv, Logs
  <1>3. pc' = "fetch" /\ \A m \in Modules : worker'[m] = "idle" /\ status'[m] = "pending"
    BY ResetsMemory DEF Start
  <1> QED BY <1>1, <1>2, <1>3, OutsideLoop

LEMMA PreparationInv ==
    ASSUME Inv, pc \in {"fetch", "publish", "scan"}, pc' \in {"publish", "scan", "returned"},
           UNCHANGED <<noResume, memory, dirty>>, unread' \in BOOLEAN, Others, NoFault \/ Fault,
           local' \in Branches, tracking' \in Branches, remote' \in Branches, Logs',
           pc' \in {"publish", "scan"} =>
               local' # None /\ (unread' \/ Trailers(tracking') \subseteq Trailers(local')),
           pc' = "scan" => Trailers(local') \subseteq Trailers(tracking')
    PROVE  Inv'
  <1>1. \A m \in Modules : worker'[m] = "idle" /\ status'[m] = "pending"
    BY DEF Inv, Prepared, memory
  <1>2. TypeOK'
    <2>1. /\ MemoryTypes' /\ halted' \in BOOLEAN
          /\ Running' = {m \in Modules : worker'[m] # "idle"}
      BY KeepsMemory
    <2>2. noResume' \in BOOLEAN /\ unread' \in BOOLEAN /\ dirty' \in BOOLEAN
      BY Zenon DEF Inv, TypeOK
    <2>3. {runs', faults'} \subseteq Nat
      BY BoundsType DEF Inv
    <2> QED BY <2>1, <2>2, <2>3 DEF TypeOK, MemoryTypes
  <1> QED BY <1>1, <1>2, OutsideLoop

LEMMA FetchInv ==
    ASSUME Inv, Fetch
    PROVE  Inv'
  <1>1. /\ Log(local) \in Seq(Commits) /\ local \in Branches /\ remote \in Branches
        /\ tracking \in Branches
    BY LogType DEF Inv, TypeOK
  <1>2. /\ pc = "fetch" /\ pc' \in {"publish", "returned"} /\ remote' = remote
        /\ UNCHANGED <<noResume, unread, memory, dirty>> /\ Others /\ NoFault
    BY DEF Fetch, choices
  <1>3. Log(Log(local)) = Log(local)
    BY <1>1, NoneIsNoBranch DEF Log
  <1>4. /\ local' \in Branches /\ tracking' \in Branches /\ Sound(local')
        /\ remote = None => tracking' = None
        /\ Trailers(tracking') \subseteq Trailers(remote)
        /\ pc' = "publish" => local' # None /\ Trailers(tracking') \subseteq Trailers(local')
    <2>1. CASE remote = None
      <3>1. local' = Log(local) /\ tracking' = tracking /\ tracking = None
        BY <2>1 DEF Fetch, Inv, Logs
      <3>2. Trailers(tracking) = {}
        BY <3>1 DEF Trailers, Log, ToSet
      <3>3. Sound(Log(local))
        BY <1>3 DEF Inv, Logs, Sound, Truthful, Trailers
      <3> QED BY <1>1, <3>1, <3>2, <3>3, NoneIsNoBranch DEF Branches
    <2>2. CASE remote # None
      <3>1. /\ Log(remote) = remote /\ remote \in Seq(Commits) /\ remote # <<>>
            /\ Sound(remote) /\ Sound(local)
        BY <1>1, <2>2, LogType DEF Inv, Logs
      <3>2. tracking' = remote
        BY <2>2 DEF Fetch
      <3>3. CASE pc' = "returned" /\ local' = local
        BY <1>1, <2>2, <3>1, <3>2, <3>3
      <3>4. CASE local' = remote
        BY <1>1, <2>2, <3>1, <3>2, <3>4
      <3>5. CASE ~ Diverged /\ ~ (Len(remote) > Len(Log(local))) /\ local' = local
        <4>1. Len(remote) \in Nat /\ Len(Log(local)) \in Nat
          BY <1>1, <3>1
        <4>2. ToSet(remote) \subseteq ToSet(Log(local))
          <5>1. CASE IsPrefix(remote, Log(local))
            BY <1>1, <3>1, <5>1, SetOfPrefix
          <5>2. CASE IsPrefix(Log(local), remote)
            <6>1. Len(Log(local)) <= Len(remote)
              BY <5>2 DEF IsPrefix
            <6> QED BY <1>1, <3>1, <3>5, <4>1, <5>2, <6>1, SetOfPrefix
          <5> QED BY <3>1, <3>5, <5>1, <5>2 DEF Diverged
        <4>3. Trailers(remote) \subseteq Trailers(local)
          BY <3>1, <4>2 DEF Trailers
        <4>4. ASSUME local = None PROVE FALSE
          <5>1. ToSet(remote) = {}
            BY <4>2, <4>4 DEF Log, ToSet
          <5>2. Len(remote) \in 1..Len(remote) /\ DOMAIN remote = 1..Len(remote)
            BY <3>1
          <5> QED BY <5>1, <5>2 DEF ToSet
        <4> QED BY <1>1, <2>2, <3>1, <3>2, <3>5, <4>3, <4>4
      <3> QED BY <2>2, <3>3, <3>4, <3>5 DEF Fetch
    <2> QED BY <2>1, <2>2
  <1>5. Logs'
    BY <1>2, <1>4 DEF Inv, Logs
  <1>6. unread' \in BOOLEAN
    BY <1>2, Zenon DEF Inv, TypeOK
  <1> QED BY <1>1, <1>2, <1>4, <1>5, <1>6, PreparationInv

LEMMA PublishInv ==
    ASSUME Inv, Publish \/ PublishFails \/ FetchFails
    PROVE  Inv'
  <1>1. /\ local \in Branches /\ tracking \in Branches /\ remote \in Branches
        /\ Sound(local) /\ Trailers(tracking) \subseteq Trailers(remote)
    BY DEF Inv, TypeOK, Logs
  <1>a. unread \in BOOLEAN
    BY Zenon DEF Inv, TypeOK
  <1>2. CASE FetchFails
    <2>1. Logs' /\ pc' = "returned"
      BY <1>2 DEF FetchFails, git, Inv, Logs
    <2> QED BY <1>1, <1>2, <1>a, <2>1, PreparationInv DEF FetchFails, choices, git
  <1>3. CASE Publish \/ PublishFails
    <2>1. /\ pc = "publish" /\ local' = local /\ pc' \in {"scan", "returned"}
          /\ UNCHANGED <<noResume, unread, memory, dirty>> /\ Others /\ (NoFault \/ Fault)
      BY <1>3 DEF Publish, PublishFails, PublishBranch, choices
    <2>2. local # None /\ (unread \/ Trailers(tracking) \subseteq Trailers(local))
      BY <2>1 DEF Inv, Prepared
    <2>3. CASE remote' = remote /\ tracking' = tracking /\ pc' = "returned"
      <3>1. Logs'
        BY <2>1, <2>3 DEF Inv, Logs
      <3> QED BY <1>1, <1>a, <2>1, <2>3, <3>1, PreparationInv
    <2>4. CASE remote' = remote /\ tracking' = tracking /\ ~ MustPublish
      <3>1. Logs'
        BY <2>1, <2>4 DEF Inv, Logs
      <3>2. Trailers(local) \subseteq Trailers(tracking)
        BY <2>4 DEF MustPublish, Unpushed, Trailers
      <3> QED BY <1>1, <1>a, <2>1, <2>2, <2>4, <3>1, <3>2, PreparationInv
    <2>5. CASE /\ Trailers(local) # {} /\ Pushable /\ remote' = local
               /\ tracking' = local \/ (tracking' = tracking /\ pc' = "returned")
      <3>1. local \in Seq(Commits)
        BY <1>1, <2>2 DEF Branches
      <3>2. Trailers(tracking') \subseteq Trailers(local)
        BY <1>1, <2>5, <3>1, PushedIsKept
      <3>3. local # <<>>
        BY <2>5, NoneIsNoBranch DEF Trailers, Log, ToSet
      <3>4. Logs'
        BY <1>1, <2>1, <2>2, <2>5, <3>2, <3>3 DEF Logs
      <3> QED BY <1>1, <1>a, <2>1, <2>2, <2>5, <3>2, <3>4, PreparationInv
    <2>6. MustPublish => Trailers(local) # {}
      BY DEF MustPublish, Unpushed, Trailers
    <2> QED BY <1>3, <2>1, <2>3, <2>4, <2>5, <2>6 DEF Publish, PublishFails, PublishBranch
  <1> QED BY <1>2, <1>3

LEMMA ScanInv ==
    ASSUME Inv, Scan
    PROVE  Inv'
  <1>1. /\ pc = "scan" /\ pc' = "loop" /\ UNCHANGED <<noResume, unread, worker, base, halted, git>>
        /\ Others /\ NoFault
    BY DEF Scan, choices
  <1>2. status' = [m \in Modules |-> IF m \in Completed THEN "success" ELSE "pending"]
    BY DEF Scan
  <1>3. \A m \in Modules : worker[m] = "idle" /\ worker'[m] = "idle" /\ status'[m] \in {"success", "pending"}
    BY <1>1, <1>2 DEF Inv, Prepared
  <1>4. TypeOK'
    <2>1. Running' = {m \in Modules : worker'[m] # "idle"}
      BY <1>3 DEF Running
    <2>2. status' \in [Modules -> {"pending", "running", "success", "failed"}]
      BY <1>2
    <2>3. {runs', faults'} \subseteq Nat
      BY <1>1, BoundsType DEF Inv
    <2>4. /\ noResume' \in BOOLEAN /\ unread' \in BOOLEAN
          /\ halted' \in BOOLEAN /\ dirty' \in BOOLEAN
      BY <1>1, Zenon DEF Inv, TypeOK, git
    <2> QED BY <1>1, <2>1, <2>2, <2>3, <2>4 DEF Inv, TypeOK, git
  <1>5. Logs' /\ local' = local /\ remote' = remote /\ tracking' = tracking /\ local # None
    BY <1>1 DEF Inv, Logs, Prepared, git
  <1>6. /\ Trailers(local) \subseteq Trailers(remote)
        /\ unread \/ Trailers(tracking) \subseteq Trailers(local)
    BY <1>1 DEF Inv, Logs, Prepared
  <1>7. Completed \subseteq Trailers(local) /\ (~ noResume => Completed = Trailers(local))
    BY DEF Completed
  <1>8. Successes' /\ Prepared'
    BY <1>1, <1>2, <1>5, <1>6, <1>7 DEF Successes, Prepared
  <1>9. Stages'
    BY <1>3 DEF Stages, LockHeld
  <1>10. Unfinished'
    BY <1>1, <1>2, <1>5, <1>6, <1>7 DEF Unfinished
  <1> QED BY <1>4, <1>5, <1>8, <1>9, <1>10 DEF Inv

LEMMA NotForwardedInv ==
    ASSUME Inv, NotForwarded
    PROVE  Inv'
  <1>1. /\ pc = "fetch" /\ pc' = "publish" /\ remote # None /\ remote' = remote
        /\ tracking' = remote /\ local' = Log(local) /\ unread' = TRUE
        /\ UNCHANGED <<noResume, memory, dirty>> /\ Others /\ Fault
    BY DEF NotForwarded
  <1>2. Log(local) \in Seq(Commits) /\ remote \in Branches
    BY LogType DEF Inv, TypeOK
  <1>3. Log(Log(local)) = Log(local) /\ Log(local) # None
    BY <1>2, NoneIsNoBranch DEF Log
  <1>4. Sound(Log(local))
    BY <1>3 DEF Inv, Logs, Sound, Truthful, Trailers
  <1>5. Logs'
    BY <1>1, <1>4 DEF Inv, Logs
  <1>6. local' \in Branches
    BY <1>1, <1>2 DEF Branches
  <1>7. unread' \in BOOLEAN
    BY <1>1, Zenon
  <1> QED BY <1>1, <1>2, <1>3, <1>5, <1>6, <1>7, PreparationInv

LEMMA ScanFailsInv ==
    ASSUME Inv, ScanFails
    PROVE  Inv'
  <1>1. /\ pc = "scan" /\ pc' \in {"loop", "returned"} /\ unread' = TRUE
        /\ UNCHANGED <<noResume, memory, git>> /\ Others /\ Fault
    BY DEF ScanFails
  <1>2. \A m \in Modules : worker'[m] = "idle" /\ status'[m] = "pending"
    BY <1>1 DEF Inv, Prepared, memory
  <1>3. TypeOK'
    <2>1. /\ MemoryTypes' /\ halted' \in BOOLEAN
          /\ Running' = {m \in Modules : worker'[m] # "idle"}
      BY <1>1, KeepsMemory
    <2>2. noResume' \in BOOLEAN /\ unread' \in BOOLEAN /\ dirty' \in BOOLEAN
      BY <1>1, Zenon DEF Inv, TypeOK, git
    <2>3. {runs', faults'} \subseteq Nat
      BY <1>1, BoundsType DEF Inv
    <2> QED BY <1>1, <2>1, <2>2, <2>3 DEF Inv, TypeOK, MemoryTypes, git
  <1>4. Logs' /\ local' # None
    BY <1>1 DEF Inv, Logs, Prepared, git
  <1>5. CASE pc' = "returned"
    BY <1>2, <1>3, <1>4, <1>5, OutsideLoop
  <1>6. CASE pc' = "loop"
    BY <1>1, <1>2, <1>3, <1>4, <1>6
       DEF Inv, Prepared, Successes, Stages, LockHeld, Unfinished
  <1> QED BY <1>1, <1>5, <1>6

LEMMA ScheduleInv ==
    ASSUME Inv, NEW m \in Modules, Schedule(m)
    PROVE  Inv'
  <1>1. /\ pc = "loop" /\ pc' = "loop" /\ status[m] = "pending" /\ Ready(m)
        /\ UNCHANGED <<noResume, unread, base, halted, git>> /\ Others /\ NoFault
    BY DEF Schedule, choices
  <1>2. worker[m] = "idle"
    BY <1>1, RunningIs DEF Inv
  <1>3. /\ status' \in [Modules -> {"pending", "running", "success", "failed"}]
        /\ worker' \in [Modules -> Places] /\ status'[m] = "running" /\ worker'[m] = "queued"
        /\ \A n \in Modules \ {m} : status'[n] = status[n] /\ worker'[n] = worker[n]
    BY DEF Schedule, Inv, TypeOK, Places
  <1>4. TypeOK'
    <2>1. Running' = {n \in Modules : worker'[n] # "idle"}
      <3>1. ASSUME NEW n \in Modules PROVE status'[n] = "running" <=> worker'[n] # "idle"
        BY <1>3, RunningIs DEF Inv
      <3> QED BY <3>1 DEF Running
    <2>2. {runs', faults'} \subseteq Nat
      BY <1>1, BoundsType DEF Inv
    <2>3. /\ noResume' \in BOOLEAN /\ unread' \in BOOLEAN
          /\ halted' \in BOOLEAN /\ dirty' \in BOOLEAN
      BY <1>1, Zenon DEF Inv, TypeOK, git
    <2> QED BY <1>1, <1>3, <2>1, <2>2, <2>3 DEF Inv, TypeOK, git
  <1>5. Logs' /\ local' = local /\ remote' = remote /\ tracking' = tracking /\ base' = base
    BY <1>1 DEF Inv, Logs, git
  <1>6. Successes' /\ Prepared'
    BY <1>1, <1>3, <1>5 DEF Inv, Successes, Prepared
  <1>7. \A n \in Modules : status[n] = "success" => status'[n] = "success"
    BY <1>1, <1>3
  <1>8. ASSUME NEW n \in Modules, worker'[n] # "idle" PROVE \A d \in Deps[n] : status'[d] = "success"
    <2>1. Deps[n] \subseteq Modules
      BY DurableAssumption
    <2>2. \A d \in Deps[n] : status[d] = "success"
      BY <1>1, <1>3, <1>8 DEF Ready, Inv, Stages
    <2> QED BY <1>7, <2>1, <2>2
  <1>9. \A n \in Modules : worker'[n] \in {"child", "applied", "committed"} => worker[n] = worker'[n]
    BY <1>3
  <1>10. Stages'
    BY <1>5, <1>8, <1>9 DEF Inv, Stages, LockHeld
  <1>11. Unfinished'
    BY <1>1, <1>2, <1>3, <1>5 DEF Inv, Unfinished
  <1> QED BY <1>4, <1>5, <1>6, <1>10, <1>11 DEF Inv

LEMMA FinishInv ==
    ASSUME Inv, Finish
    PROVE  Inv'
  <1>1. /\ pc = "loop" /\ pc' = "returned" /\ Running = {} /\ UNCHANGED <<noResume, unread, memory, git>>
        /\ Others /\ NoFault
    BY DEF Finish, choices
  <1>2. \A m \in Modules : worker'[m] = "idle" /\ status'[m] = status[m]
    BY <1>1, RunningIs DEF Running, memory, Inv
  <1>3. TypeOK'
    <2>1. /\ MemoryTypes' /\ halted' \in BOOLEAN
          /\ Running' = {m \in Modules : worker'[m] # "idle"}
      BY <1>1, KeepsMemory
    <2>2. noResume' \in BOOLEAN /\ unread' \in BOOLEAN /\ dirty' \in BOOLEAN
      BY <1>1, Zenon DEF Inv, TypeOK, git
    <2>3. {runs', faults'} \subseteq Nat
      BY <1>1, BoundsType DEF Inv
    <2> QED BY <1>1, <2>1, <2>2, <2>3 DEF Inv, TypeOK, MemoryTypes, git
  <1>4. Logs' /\ remote' = remote
    BY <1>1 DEF Inv, Logs, git
  <1>5. \A m \in Modules : status'[m] = "success" => m \in Trailers(remote')
    BY <1>2, <1>4 DEF Inv, Successes
  <1> QED BY <1>1, <1>2, <1>3, <1>4, <1>5, OutsideLoop

LEMMA CrashInv ==
    ASSUME Inv, Crash
    PROVE  Inv'
  <1>1. pc' = "down" /\ Reset /\ UNCHANGED <<noResume, unread, local, tracking, remote>> /\ Others /\ Fault
    BY DEF Crash, choices
  <1>2. TypeOK'
    <2>1. /\ MemoryTypes' /\ halted' \in BOOLEAN
          /\ Running' = {m \in Modules : worker'[m] # "idle"}
      BY <1>1, ResetsMemory
    <2>2. noResume' \in BOOLEAN /\ unread' \in BOOLEAN /\ dirty' \in BOOLEAN
      BY <1>1, Zenon DEF Inv, TypeOK, Crash
    <2>3. {runs', faults'} \subseteq Nat
      BY <1>1, BoundsType DEF Inv
    <2> QED BY <1>1, <2>1, <2>2, <2>3 DEF Inv, TypeOK, MemoryTypes
  <1>3. Logs'
    BY <1>1 DEF Inv, Logs
  <1> QED BY <1>1, <1>2, <1>3, ResetsMemory, OutsideLoop

LEMMA NewCloneInv ==
    ASSUME Inv, NewClone
    PROVE  Inv'
  <1>1. /\ pc \in {"down", "returned"} /\ local' = None /\ tracking' = remote /\ dirty' = FALSE
        /\ UNCHANGED <<pc, noResume, unread, memory, remote>> /\ Others /\ NoFault
    BY DEF NewClone, choices
  <1>2. TypeOK'
    <2>1. /\ MemoryTypes' /\ halted' \in BOOLEAN
          /\ Running' = {m \in Modules : worker'[m] # "idle"}
      BY <1>1, KeepsMemory
    <2>2. noResume' \in BOOLEAN /\ unread' \in BOOLEAN /\ dirty' \in BOOLEAN
      BY <1>1, Zenon DEF Inv, TypeOK
    <2>3. {runs', faults'} \subseteq Nat
      BY <1>1, BoundsType DEF Inv
    <2>4. local' \in Branches
      BY <1>1 DEF Branches
    <2> QED BY <1>1, <2>1, <2>2, <2>3, <2>4 DEF Inv, TypeOK, MemoryTypes
  <1>3. Sound(None)
    BY DEF Sound, Truthful, Trailers, Log, ToSet
  <1>4. Logs'
    BY <1>1, <1>3 DEF Inv, Logs
  <1>5. \A m \in Modules : worker'[m] = "idle" /\ status'[m] = status[m]
    BY <1>1 DEF Inv, Prepared, memory
  <1> QED BY <1>1, <1>2, <1>4, <1>5, OutsideLoop DEF Inv, Prepared, Successes

LEMMA ForeignEffect ==
    ASSUME Inv, NEW m \in Modules, ForeignPush(m)
    PROVE  /\ remote' \in Seq(Commits) /\ Truthful(remote') /\ remote' # <<>>
           /\ Trailers(remote') = Trailers(remote) \cup {m}
  <1> DEFINE c == [content |-> m, trailer |-> m, run |-> 0]
  <1>1. c \in Commits /\ c.trailer = m /\ c.content = m /\ m # None
    BY DurableAssumption DEF Commits
  <1>2. remote' = Append(Log(remote), c)
    BY DEF ForeignPush
  <1> HIDE DEF c
  <1>3. Log(remote) \in Seq(Commits) /\ Truthful(remote)
    BY LogType DEF Inv, TypeOK, Logs, Sound
  <1>4. Truthful(Log(remote)) /\ Trailers(Log(remote)) = Trailers(remote)
    BY <1>3, NoneIsNoBranch DEF Truthful, Trailers, Log
  <1>5. /\ remote' \in Seq(Commits) /\ Truthful(remote') /\ remote' # <<>>
        /\ Trailers(remote') = Trailers(Log(remote)) \cup ({c.trailer} \ {None})
    BY <1>1, <1>2, <1>3, <1>4, AppendEffect
  <1> QED BY <1>1, <1>4, <1>5

LEMMA ForeignInv ==
    ASSUME Inv, NEW m \in Modules, ForeignPush(m)
    PROVE  Inv'
  <1>1. /\ remote' \in Seq(Commits) /\ Truthful(remote') /\ remote' # <<>> /\ remote' # None
        /\ Trailers(remote') = Trailers(remote) \cup {m}
    BY ForeignEffect, NoneIsNoBranch
  <1>2. UNCHANGED <<pc, noResume, unread, memory, local, tracking, dirty>> /\ Others /\ Fault
        /\ Deps[m] \subseteq Trailers(remote)
    BY DEF ForeignPush, choices
  <1>3. TypeOK'
    <2>1. /\ MemoryTypes' /\ halted' \in BOOLEAN
          /\ Running' = {n \in Modules : worker'[n] # "idle"}
      BY <1>2, KeepsMemory
    <2>2. noResume' \in BOOLEAN /\ unread' \in BOOLEAN /\ dirty' \in BOOLEAN
      BY <1>2, Zenon DEF Inv, TypeOK
    <2>3. {runs', faults'} \subseteq Nat
      BY <1>2, BoundsType DEF Inv
    <2> QED BY <1>1, <1>2, <2>1, <2>2, <2>3 DEF Inv, TypeOK, MemoryTypes, Branches
  <1>4. Logs'
    BY <1>1, <1>2 DEF Inv, Logs, Sound
  <1>5. Prepared' /\ Successes'
    BY <1>1, <1>2 DEF Inv, Prepared, Successes, memory
  <1>6. Stages' /\ Unfinished'
    BY <1>2 DEF Inv, Stages, Unfinished, memory
  <1> QED BY <1>3, <1>4, <1>5, <1>6 DEF Inv

LEMMA NextInv ==
    ASSUME Inv, [Next]_vars
    PROVE  Inv'
  <1>1. CASE \E skip \in NoResumes : Start(skip)
    BY <1>1, StartInv
  <1>2. CASE Main
    BY <1>2, FetchInv, PublishInv, ScanInv, ScheduleInv, FinishInv DEF Main
  <1>3. CASE FetchFails \/ NotForwarded \/ PublishFails \/ ScanFails
    BY <1>3, PublishInv, NotForwardedInv, ScanFailsInv
  <1>4. CASE \E m \in Modules : Step(m) \/ Breakdown(m) \/ ForeignPush(m)
    BY <1>4, StepEffect, EffectInv, ForeignInv DEF Inv
  <1>5. CASE Crash \/ NewClone
    BY <1>5, CrashInv, NewCloneInv
  <1>6. CASE UNCHANGED vars
    <2>1. UNCHANGED <<pc, noResume, unread, memory, git, bounds>>
      BY <1>6 DEF vars, choices
    <2>2. UNCHANGED <<pc, noResume, unread, status, worker, base, halted, local, tracking, dirty, remote, runs, faults>>
      BY <2>1 DEF memory, git, bounds
    <2> QED BY <2>2 DEF Inv, TypeOK, Running, Logs, Sound, Truthful, Prepared, Successes, Stages, Unfinished
  <1> QED BY <1>1, <1>2, <1>3, <1>4, <1>5, <1>6 DEF Next

\* Origin never loses a checkpoint: no push is forced.
LEMMA Grows ==
    ASSUME Inv, [Next]_vars
    PROVE  Trailers(remote) \subseteq Trailers(remote')
  <1>1. CASE remote' = remote
    BY <1>1
  <1>2. CASE Pushable /\ remote' = local /\ pc \in {"publish", "loop"}
    <2>1. local \in Seq(Commits)
      BY <1>2, LogType DEF Inv, TypeOK, Prepared
    <2> QED BY <1>2, <2>1, PushedIsKept
  <1>3. CASE \E m \in Modules : Step(m) \/ Breakdown(m)
    <2>1. PICK m \in Modules : Effect(m)
      BY <1>3, StepEffect DEF Inv
    <2> QED BY <1>1, <1>2, <2>1 DEF Effect, RemoteTurn
  <1>4. CASE \E m \in Modules : ForeignPush(m)
    BY <1>4, ForeignEffect
  <1>5. CASE Publish \/ PublishFails
    BY <1>1, <1>2, <1>5 DEF Publish, PublishFails, PublishBranch
  <1>6. CASE \/ \E skip \in NoResumes : Start(skip)
             \/ Fetch \/ Scan \/ (\E m \in Modules : Schedule(m)) \/ Finish \/ FetchFails
             \/ NotForwarded \/ ScanFails \/ Crash \/ NewClone \/ UNCHANGED vars
    BY <1>1, <1>6
       DEF Start, Fetch, Scan, Schedule, Finish, FetchFails, NotForwarded, ScanFails, Crash, NewClone, vars, git
  <1> QED BY <1>3, <1>4, <1>5, <1>6 DEF Next, Main

LEMMA StepIsPublish ==
    ASSUME Inv, Inv', [Next]_vars
    PROVE  [Log0!Next]_(Trailers(remote))
  <1> DEFINE S == Trailers(remote') \ Trailers(remote)
  <1>1. CASE S = {}
    BY <1>1, Grows
  <1>2. CASE S # {}
    <2>1. Trailers(remote') = Trailers(remote) \cup S
      BY Grows
    <2>2. S \subseteq Modules
      <3>1. remote' \in Branches
        BY DEF Inv, TypeOK
      <3> QED BY <3>1, TrailersType
    <2>3. \A m \in S : Deps[m] \subseteq Trailers(remote) \cup S
      BY <2>1, <2>2 DEF Inv, Logs, Sound
    <2>4. Log0!Publish(S)
      BY <1>2, <2>1, <2>3 DEF Log0!Publish
    <2> QED BY <2>2, <2>4 DEF Log0!Next
  <1> QED BY <1>1, <1>2

(***************************************************************************)
(* The theorems.                                                           *)
(***************************************************************************)

\* The state has its form; a child works on a tree with the checkpoints of all
\* its dependencies although others are pushed while it is cut; and amending
\* the last commit never gives one module's output another module's trailer.
\* About _create_module_worktree and _checkpoint_lock.
THEOREM TreesSound == Spec => []TreesAreSound
  <1>1. Init => Inv
    BY InitInv
  <1>2. Inv /\ [Next]_vars => Inv'
    BY NextInv
  <1>3. Inv => TreesAreSound
    BY DEF Inv, Logs, Sound, Truthful, Stages, TreesAreSound, DepsInBase, TrailerIsOwn
  <1> QED BY <1>1, <1>2, <1>3, PTL DEF Spec

\* What a run reports as done is on origin whichever pushes were lost before,
\* and what this clone knows to be there is not synced again unless git could
\* not read the branch.  About _push_unpushed_local_checkpoints and
\* _read_checkpointed_modules.
THEOREM DoneExact == Spec => []DoneIsExact
  <1>1. Init => Inv
    BY InitInv
  <1>2. Inv /\ [Next]_vars => Inv'
    BY NextInv
  <1>3. Inv => DoneIsExact
    <2>1. Inv => DoneIsPushed
      BY DEF Inv, Successes, DoneIsPushed
    <2>2. Inv => NotRedone
      BY RunningIs DEF Inv, Unfinished, NotRedone
    <2> QED BY <2>1, <2>2 DEF DoneIsExact
  <1> QED BY <1>1, <1>2, <1>3, PTL DEF Spec

\* The branch on origin moves only as CheckpointLog says, whatever fails,
\* crashes or is pushed from elsewhere.  About the order of the pushes.
THEOREM PublishesAsPromised == Spec => Promise
  <1>1. Init => Inv /\ Log0!Init
    <2>1. Init => Trailers(remote) = {}
      BY DEF Init, Trailers, Log, ToSet
    <2> QED BY <2>1, InitInv DEF Log0!Init
  <1>2. Inv /\ [Next]_vars => Inv'
    BY NextInv
  <1>3. Inv /\ Inv' /\ [Next]_vars => [Log0!Next]_(Trailers(remote))
    BY StepIsPublish
  <1> QED BY <1>1, <1>2, <1>3, PTL DEF Spec, Promise, Log0!Spec

=============================================================================
