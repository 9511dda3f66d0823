---------------------------- MODULE RepairProofs ----------------------------
(***************************************************************************)
(* Proofs about the three repair loops, for any number of attempts, any    *)
(* scores, prices and budget: the outcome a loop reports is true of the    *)
(* files it leaves, and the budget is overrun by the last calls only.      *)
(***************************************************************************)
EXTENDS MCRepair, TLAPS

USE RepairAssumption

LEMMA DearestIs == Dearest \in Prices /\ \A q \in Prices : q <= Dearest
  BY DEF Dearest

(***************************************************************************)
(* What the loops have in common.                                          *)
(***************************************************************************)

\* The form of the state.
Contents ==
    /\ disk \in Files /\ kept \in Files /\ returned \in Files \cup {None}
    /\ scores \in [Files -> Scores \cup {None}]

Control ==
    /\ which \in {"fix", "crash", "verify"}
    /\ opt \in [max : {0, MaxAttempts}, agent : BOOLEAN, protect : BOOLEAN, cloudOnly : BOOLEAN]
    /\ pc \in {"start", "attempt", "call", "check", "test", "end", "agent", "done"}
    /\ attempt \in 0..opt.max
    /\ result \in {None, "success", "failed"} /\ (pc = "done" <=> result # None)
    /\ passed \in BOOLEAN /\ cleared \in BOOLEAN /\ agent \in BOOLEAN
    /\ agent => pc = "done"
    /\ which = "crash" /\ pc = "call" => attempt < opt.max

\* A call is made within the budget, or is the agent's.
Spend ==
    /\ cost \in Nat
    /\ pc = "call" => cost <= Budget
    /\ which = "fix" /\ pc = "agent" => cost <= Budget
    /\ cost <= Budget + Dearest + (IF agent /\ which # "fix" THEN Dearest ELSE 0)

Form == Contents /\ Control /\ Spend

\* The files f were run and showed s; what they showed before is not forgotten.
Ran(f, s) == scores' = [scores EXCEPT ![f] = s] /\ s \in Shows(f)

LEMMA RanKeeps ==
    ASSUME Form, NEW s, Ran(disk, s)
    PROVE  /\ scores' \in [Files -> Scores \cup {None}] /\ s \in Scores /\ scores'[disk] = s
           /\ \A f \in Files : scores[f] # None => scores'[f] = scores[f]
  BY DEF Form, Contents, Ran, Shows

LEMMA FilesAre ==
    ASSUME Form
    PROVE  /\ 0 \in 0..Broken /\ attempt \in 0..Broken /\ Agents \in 0..Broken /\ Broken \in 0..Broken /\ opt.max \in Nat
           /\ attempt \in 0..opt.max /\ opt.max <= MaxAttempts
           /\ disk.code \in 0..Broken /\ disk.side \in 0..Broken
           /\ Original \in Files
           /\ \A c, d \in 0..Broken : [code |-> c, side |-> d] \in Files
  BY DEF Form, Contents, Control, Agents, Broken, Files, Original

\* What a failing write leaves is a file.
LEMMA SideFirstIs == ASSUME Form, NEW f \in Files PROVE SideFirst(f) \subseteq Files
  BY FilesAre DEF SideFirst, Form, Contents, Files

LEMMA CodeFirstIs == ASSUME Form, NEW f \in Files PROVE CodeFirst(f) \subseteq Files
  BY FilesAre DEF CodeFirst, Form, Contents, Files

(***************************************************************************)
(* fix_error_loop                                                          *)
(***************************************************************************)

\* The best and the last state are remembered with their files; the user's files are not better
\* than the best, and between attempts the last files are those on disk.
Memory ==
    /\ best \in [score : Scores, it : Nat, files : Files]
    /\ last \in [score : Scores, it : Nat, files : Files]
    /\ scores[best.files] = best.score
    /\ scores[Original] \in Scores /\ ~ Fix!Better(scores[Original], best.score)
    /\ best.it <= last.it /\ last.it <= attempt
    /\ best.it = last.it => best = last
    /\ opt.protect => best.files.side = 0
    /\ pc \in {"call", "check", "test"} => last.it < attempt
    /\ pc \in {"attempt", "call"} \/ (pc = "end" /\ faults = {}) => disk = last.files
    /\ faults = {} \/ (pc = "end" /\ faults = {"run"})

FixInv ==
    which = "fix" =>
        /\ pc = "start" => /\ disk = Original /\ attempt = 0 /\ cost = 0 /\ faults = {}
                           /\ scores = [f \in Files |-> None]
        /\ opt.protect /\ ~ agent => disk.side = 0 /\ kept.side = 0
        /\ pc \in {"attempt", "call", "check", "test", "end"} => Memory
        /\ Fix!Success /\ Fix!Failure

LEMMA BetterThan ==
    ASSUME NEW o \in Scores, NEW s \in Scores, NEW b \in Scores, Fix!Better(s, b), ~ Fix!Better(o, b)
    PROVE  ~ Fix!Better(o, s)
  <1>1. o[1] \in Nat /\ o[2] \in Nat /\ s[1] \in Nat /\ s[2] \in Nat /\ b[1] \in Nat /\ b[2] \in Nat
    OBVIOUS
  <1> QED BY <1>1 DEF Fix!Better

LEMMA FixContents ==
    ASSUME Form, FixInv, which = "fix", Fix!Next
    PROVE  Contents'
  <1> USE FilesAre DEF Form, Contents
  <1>1. CASE Fix!Begin \/ Fix!Test
    <2>1. ASSUME NEW s \in Shows(disk), scores' = [scores EXCEPT ![disk] = s]
          PROVE  scores' \in [Files -> Scores \cup {None}]
      BY <2>1, RanKeeps DEF Ran
    <2>2. scores' \in [Files -> Scores \cup {None}]
      BY <1>1, <2>1 DEF Fix!Begin, Fix!Test, Fix!Shows, Shows
    <2>3. disk' = disk /\ kept' = kept /\ returned' \in {returned, disk}
      BY <1>1 DEF Fix!Begin, Fix!Test, Fix!Return
    <2> QED BY <2>2, <2>3
  <1>2. CASE Fix!Attempt \/ Fix!Check
    BY <1>2 DEF Fix!Attempt, Fix!Check
  <1>3. CASE Fix!Call
    <2>1. disk' \in Files
      BY <1>3 DEF Fix!Call
    <2>2. kept' = kept /\ scores' = scores /\ returned' \in {returned, disk}
      BY <1>3 DEF Fix!Call, Fix!Return
    <2> QED BY <2>1, <2>2
  <1>4. CASE Fix!End
    <2>1. best.files \in Files /\ best.files.code \in 0..Broken /\ best.files.side \in 0..Broken
      BY <1>4 DEF FixInv, Memory, Fix!End, Files
    <2>2. disk' \in Files
      BY <1>4, <2>1 DEF Fix!End, Fix!Restored
    <2>3. kept' = kept /\ scores' = scores /\ returned' \in {returned, best.files}
      BY <1>4 DEF Fix!End, Fix!Return
    <2> QED BY <2>1, <2>2, <2>3
  <1>5. CASE Fix!Agent
    <2>1. disk' \in Files
      BY <1>5 DEF Fix!Agent, Fix!CallAgent, Fix!Agents, Fix!Broken, Broken, Agents
    <2> QED BY <1>5, <2>1 DEF Fix!Agent, Fix!CallAgent, Fix!Return
  <1> QED BY <1>1, <1>2, <1>3, <1>4, <1>5 DEF Fix!Next

LEMMA FixControl ==
    ASSUME Form, which = "fix", Fix!Next, which' = which
    PROVE  Control'
  <1> USE DEF Form, Control
  <1>1. \A ok \in BOOLEAN : \A f : Fix!Return(ok, f) => pc' = "done" /\ result' \in {"success", "failed"}
    BY DEF Fix!Return
  <1>2. \A kind \in {"timeout", "assertion", "syntax", "other"} : \A s :
          Fix!Stalls(kind, s) => pc' \in {"end", "attempt"}
    BY DEF Fix!Stalls
  <1>3. CASE Fix!Begin
    BY <1>1, <1>3 DEF Fix!Begin, Fix!rest
  <1>4. CASE Fix!Attempt
    BY <1>4, FilesAre DEF Fix!Attempt, Fix!rest
  <1>5. CASE Fix!Call
    BY <1>1, <1>5 DEF Fix!Call, Fix!rest
  <1>6. CASE Fix!Check
    BY <1>6 DEF Fix!Check, Fix!rest
  <1>7. CASE Fix!Test
    <2>1. /\ UNCHANGED <<opt, attempt, passed, cleared, agent>> /\ ~ agent /\ result = None
          /\ \/ pc' = "done" /\ result' \in {"success", "failed"}
             \/ pc' \in {"end", "attempt"} /\ result' = result
      BY <1>1, <1>2, <1>7 DEF Fix!Test, Fix!rest
    <2> QED BY <2>1
  <1>8. CASE Fix!End
    BY <1>1, <1>8 DEF Fix!End, Fix!rest
  <1>9. CASE Fix!Agent
    BY <1>1, <1>9 DEF Fix!Agent, Fix!CallAgent
  <1> QED BY <1>3, <1>4, <1>5, <1>6, <1>7, <1>8, <1>9 DEF Fix!Next

LEMMA FixSpend ==
    ASSUME Form, FixInv, which = "fix", Fix!Next, which' = which
    PROVE  Spend'
  <1>1. Dearest \in Nat /\ \A q \in Prices : q \in Nat /\ q <= Dearest
    BY DearestIs
  <1>2. /\ cost \in Nat /\ (pc \in {"call", "agent"} => cost <= Budget) /\ cost <= Budget + Dearest
        /\ (pc = "start" => cost = 0)
    BY <1>1 DEF Form, Spend, FixInv
  <1>3. CASE Fix!Call
    BY <1>1, <1>2, <1>3 DEF Fix!Call, Fix!Return, Fix!rest, Spend
  <1>4. CASE Fix!Agent
    <2>1. PICK p \in Prices : pc = "agent" /\ pc' = "done" /\ cost' = cost + p
      BY <1>4 DEF Fix!Agent, Fix!CallAgent, Fix!Return
    <2>2. p \in Nat /\ p <= Dearest
      BY <1>1
    <2>3. cost' \in Nat /\ cost' <= Budget + Dearest
      BY <1>1, <1>2, <2>1, <2>2
    <2> QED BY <1>1, <2>1, <2>3 DEF Spend
  <1>5. CASE Fix!Attempt
    BY <1>1, <1>2, <1>5 DEF Fix!Attempt, Fix!Affordable, Spend
  <1>6. CASE Fix!End
    BY <1>1, <1>2, <1>6 DEF Fix!End, Fix!Return, Spend
  <1>7. CASE Fix!Begin
    BY <1>1, <1>2, <1>7 DEF Fix!Begin, Fix!Return, Spend
  <1>8. CASE Fix!Check
    BY <1>1, <1>2, <1>8 DEF Fix!Check, Spend
  <1>9. CASE Fix!Test
    <2>1. \A kind \in {"timeout", "assertion", "syntax", "other"} : \A s :
            Fix!Stalls(kind, s) => pc' \in {"end", "attempt"}
      BY DEF Fix!Stalls
    <2>2. cost' = cost /\ pc' \in {"end", "attempt", "done"}
      BY <1>9, <2>1 DEF Fix!Test, Fix!Return
    <2> QED BY <1>1, <1>2, <2>2 DEF Spend
  <1> QED BY <1>3, <1>4, <1>5, <1>6, <1>7, <1>8, <1>9 DEF Fix!Next

LEMMA MemoryKept ==
    ASSUME Form, FixInv, which = "fix", Fix!Next, which' = which,
           pc' \in {"attempt", "call", "check", "test", "end"}
    PROVE  Memory'
  <1> USE DEF Form
  <1>1. pc \in {"attempt", "call", "check", "test", "end"} => Memory
    BY DEF FixInv
  <1>2. opt' = opt
    BY DEF Fix!Next, Fix!Begin, Fix!Attempt, Fix!Call, Fix!Check, Fix!Test, Fix!End, Fix!Agent,
       Fix!CallAgent, Fix!rest
  <1>3. CASE Fix!Begin
    <2>1. PICK s \in Shows(disk) :
            /\ scores' = [scores EXCEPT ![disk] = s]
            /\ best' = [score |-> s, it |-> 0, files |-> disk] /\ last' = best' /\ pc' = "attempt"
      BY <1>3 DEF Fix!Begin, Fix!Shows, Shows, Fix!Return
    <2>2. s \in Scores /\ scores'[disk] = s
      BY <2>1, RanKeeps DEF Ran
    <2>3. disk = Original /\ disk' = disk /\ attempt' = attempt /\ attempt = 0 /\ faults' = {}
      BY <1>3 DEF Fix!Begin, FixInv
    <2>4. ~ Fix!Better(s, s)
      BY <2>2 DEF Fix!Better
    <2> QED BY <1>2, <2>1, <2>2, <2>3, <2>4, FilesAre DEF Memory, Original
  <1>4. CASE Fix!Attempt
    <2>1. attempt' = attempt \/ attempt' = attempt + 1
      BY <1>4 DEF Fix!Attempt
    <2>2. Memory /\ disk = last.files /\ attempt \in Nat
      BY <1>1, <1>4, FilesAre DEF Fix!Attempt, Memory
    <2> QED BY <1>2, <1>4, <2>1, <2>2 DEF Fix!Attempt, Memory
  <1>5. CASE Fix!Call
    BY <1>1, <1>2, <1>5 DEF Fix!Call, Fix!Return, Memory
  <1>6. CASE Fix!Check
    BY <1>1, <1>2, <1>6 DEF Fix!Check, Memory
  <1>7. CASE Fix!Test
    <2>1. Memory /\ pc = "test" /\ attempt' = attempt /\ disk' = disk
      BY <1>1, <1>7 DEF Fix!Test
    <2>2. CASE faults' = {"run"} /\ UNCHANGED <<scores, best, last>> /\ pc' = "end"
      BY <1>2, <2>1, <2>2 DEF Memory
    <2>3. CASE \E s \in Shows(disk) :
                 /\ scores' = [scores EXCEPT ![disk] = s]
                 /\ last' = [score |-> s, it |-> attempt, files |-> disk]
                 /\ best' = IF Fix!Better(s, best.score) THEN last' ELSE best
                 /\ pc' \in {"end", "attempt"} /\ faults' = faults
      <3>1. PICK s \in Shows(disk) :
                 /\ scores' = [scores EXCEPT ![disk] = s]
                 /\ last' = [score |-> s, it |-> attempt, files |-> disk]
                 /\ best' = IF Fix!Better(s, best.score) THEN last' ELSE best
                 /\ pc' \in {"end", "attempt"} /\ faults' = faults
        BY <2>3
      <3>2. s \in Scores /\ scores'[disk] = s
            /\ \A f \in Files : scores[f] # None => scores'[f] = scores[f]
        BY <3>1, RanKeeps DEF Ran
      <3>3. scores'[Original] = scores[Original] /\ scores'[best.files] = best.score
        BY <2>1, <3>2, FilesAre DEF Memory
      <3>4. last' \in [score : Scores, it : Nat, files : Files] /\ attempt \in Nat
        BY <3>1, <3>2, FilesAre DEF Contents
      <3>5. CASE Fix!Better(s, best.score)
        <4>1. ~ Fix!Better(scores[Original], s)
          BY <2>1, <3>2, <3>5, BetterThan DEF Memory
        <4>2. opt.protect => disk.side = 0
          BY <2>1 DEF FixInv, Control
        <4> QED BY <1>2, <2>1, <3>1, <3>2, <3>3, <3>4, <3>5, <4>1, <4>2 DEF Memory
      <3>6. CASE ~ Fix!Better(s, best.score)
        <4>1. best'.it < last'.it
          BY <2>1, <3>1, <3>4, <3>6 DEF Memory
        <4> QED BY <1>2, <2>1, <3>1, <3>2, <3>3, <3>4, <3>6, <4>1 DEF Memory
      <3> QED BY <3>5, <3>6
    <2>4. \A kind \in {"timeout", "assertion", "syntax", "other"} : \A s :
            Fix!Stalls(kind, s) => pc' \in {"end", "attempt"}
      BY DEF Fix!Stalls
    <2>5. Shows(disk) = Fix!Shows(disk)
      BY DEF Shows, Fix!Shows
    <2> QED BY <1>7, <2>2, <2>3, <2>4, <2>5 DEF Fix!Test, Fix!Return
  <1>8. CASE Fix!End \/ Fix!Agent
    BY <1>8 DEF Fix!End, Fix!Agent, Fix!CallAgent, Fix!Return
  <1> QED BY <1>3, <1>4, <1>5, <1>6, <1>7, <1>8 DEF Fix!Next

LEMMA FixKept ==
    ASSUME Form, FixInv, which = "fix", Fix!Next, which' = which
    PROVE  FixInv'
  <1> USE DEF Form
  <1>1. opt' = opt /\ pc' # "start" /\ ~ agent /\ (pc = "end" => Memory)
    BY DEF Control, FixInv, Fix!Next, Fix!Begin, Fix!Attempt, Fix!Call, Fix!Check, Fix!Test, Fix!End, Fix!Agent,
       Fix!CallAgent, Fix!Stalls, Fix!Return, Fix!rest
  <1>2. opt'.protect /\ ~ agent' => disk'.side = 0 /\ kept'.side = 0
    <2>1. opt.protect => disk.side = 0 /\ kept.side = 0
      BY <1>1 DEF FixInv
    <2>2. CASE Fix!Call
      <3>1. \/ disk' = disk
            \/ \E code, side : /\ opt.protect => side = disk.side
                              /\ disk' = [code |-> code, side |-> side]
        BY <2>2 DEF Fix!Call
      <3>2. kept' = kept /\ (opt.protect => disk'.side = disk.side)
        BY <2>2, <3>1 DEF Fix!Call
      <3> QED BY <1>1, <2>1, <3>2
    <2>3. CASE Fix!End
      BY <1>1, <2>1, <2>3 DEF Fix!End, Fix!Restored, Memory
    <2>4. CASE Fix!Agent
      BY <2>4 DEF Fix!Agent, Fix!CallAgent
    <2>5. CASE Fix!Begin \/ Fix!Attempt \/ Fix!Check \/ Fix!Test
      BY <1>1, <2>1, <2>5 DEF Fix!Begin, Fix!Attempt, Fix!Check, Fix!Test
    <2> QED BY <2>2, <2>3, <2>4, <2>5 DEF Fix!Next
  <1>3. pc' \in {"attempt", "call", "check", "test", "end"} => Memory'
    BY MemoryKept
  <1>4. result' = None => Fix!Success' /\ Fix!Failure'
    BY DEF Fix!Success, Fix!Failure
  <1>5. Fix!Success' /\ Fix!Failure'
    <2>1. result = None
      BY DEF Control, Fix!Next, Fix!Begin, Fix!Attempt, Fix!Call, Fix!Check, Fix!Test, Fix!End, Fix!Agent,
         Fix!CallAgent
    <2>2. CASE Fix!Begin
      <3>1. CASE Fix!Return(FALSE, disk) /\ scores' = scores /\ disk' = disk
        <4>1. scores[disk] = None /\ faults' = {}
          BY <2>2, FilesAre DEF Fix!Begin, FixInv
        <4> QED BY <3>1, <4>1 DEF Fix!Return, Fix!Success, Fix!Failure
      <3>2. ASSUME NEW s \in Fix!Shows(disk), scores' = [scores EXCEPT ![disk] = s], Fix!Passes(s),
                   Fix!Return(TRUE, disk), disk' = disk
            PROVE  Fix!Success' /\ Fix!Failure'
        <4>1. scores'[disk] = s
          BY <3>2 DEF Contents
        <4> QED BY <3>2, <4>1 DEF Fix!Return, Fix!Success, Fix!Failure, Fix!Passes
      <3> QED BY <1>4, <2>1, <2>2, <3>1, <3>2 DEF Fix!Begin
    <2>3. CASE Fix!Test
      <3>1. ASSUME NEW s \in Fix!Shows(disk), scores' = [scores EXCEPT ![disk] = s], Fix!Passes(s),
                   Fix!Return(TRUE, disk), disk' = disk
            PROVE  Fix!Success' /\ Fix!Failure'
        <4>1. scores'[disk] = s
          BY <3>1 DEF Contents
        <4> QED BY <3>1, <4>1 DEF Fix!Return, Fix!Success, Fix!Failure, Fix!Passes
      <3> QED BY <1>4, <2>1, <2>3, <3>1 DEF Fix!Test
    <2>4. CASE Fix!End
      <3>1. CASE Fix!Return(FALSE, best.files) /\ faults = {}
        <4>1. Memory /\ disk = last.files /\ scores' = scores /\ faults' = {}
          BY <1>1, <2>4, <3>1 DEF Fix!End, Memory
        <4>2. disk' = best.files
          <5>1. CASE best.it = last.it
            BY <2>4, <4>1, <5>1 DEF Fix!End, Fix!Restored, Memory
          <5>2. CASE best.it # last.it
            <6>1. opt.protect => disk.side = 0 /\ best.files.side = 0
              BY <1>1, <4>1 DEF FixInv, Memory
            <6>2. best.files = [code |-> best.files.code, side |-> best.files.side]
              BY <4>1 DEF Memory, Files
            <6> QED BY <2>4, <5>2, <6>1, <6>2 DEF Fix!End, Fix!Restored
          <5> QED BY <5>1, <5>2
        <4> QED BY <3>1, <4>1, <4>2 DEF Fix!Return, Fix!Success, Fix!Failure, Fix!Original, Original,
                   Memory
      <3>2. CASE Fix!Return(FALSE, best.files) /\ faults = {"run"}
        BY <2>4, <3>2 DEF Fix!End, Fix!Return, Fix!Success, Fix!Failure
      <3>3. faults = {} \/ faults = {"run"}
        BY <1>1, <2>4 DEF Fix!End, Memory
      <3> QED BY <1>4, <2>1, <2>4, <3>1, <3>2, <3>3 DEF Fix!End
    <2>5. CASE Fix!Agent
      BY <2>5 DEF Fix!Agent, Fix!CallAgent, Fix!Success, Fix!Failure
    <2>6. CASE Fix!Call
      <3>1. CASE Fix!Return(FALSE, disk) /\ faults' = {"pack"} /\ disk' = disk /\ last' = last
        <4>1. disk = last.files
          BY <2>6 DEF FixInv, Memory, Fix!Call
        <4> QED BY <3>1, <4>1 DEF Fix!Return, Fix!Success, Fix!Failure
      <3> QED BY <1>4, <2>1, <2>6, <3>1 DEF Fix!Call
    <2>7. CASE Fix!Attempt \/ Fix!Check
      BY <1>4, <2>1, <2>7 DEF Fix!Attempt, Fix!Check
    <2> QED BY <2>2, <2>3, <2>4, <2>5, <2>6, <2>7 DEF Fix!Next
  <1> QED BY <1>1, <1>2, <1>3, <1>5 DEF FixInv

(***************************************************************************)
(* fix_code_loop                                                           *)
(***************************************************************************)

CrashInv ==
    which = "crash" =>
        /\ pc = "start" => attempt = 0
        /\ pc \in {"start", "attempt", "call"} => ~ passed
        /\ passed /\ pc = "end" => Passes(scores[disk])
        /\ Crash!Success /\ Crash!Failure

LEMMA CrashForm ==
    ASSUME Form, CrashInv, which = "crash", Crash!Next, which' = which
    PROVE  Form'
  <1>1. \A f \in BOOLEAN : \A x : Crash!Return(f, x) =>
          pc' = "done" /\ result' \in {"success", "failed"} /\ returned' = x
    BY DEF Crash!Return
  <1>2. Dearest \in Nat /\ \A q \in Prices : q \in Nat /\ q <= Dearest
    BY DearestIs
  <1>3. Contents'
    <2> USE FilesAre DEF Form, Contents
    <2>1. CASE Crash!Attempt
      <3>1. ASSUME NEW s \in Shows(disk), scores' = [scores EXCEPT ![disk] = s]
            PROVE  scores' \in [Files -> Scores \cup {None}]
        BY <3>1, RanKeeps DEF Ran
      <3> QED BY <2>1, <3>1 DEF Crash!Attempt, Crash!Shows, Shows, Crash!rest
    <2>2. CASE Crash!Call
      <3>1. attempt' \in 0..Broken
        BY <2>2 DEF Crash!Call, Control, Agents, Broken
      <3>2. CASE disk' = disk
        BY <2>2, <3>2 DEF Crash!Call, Crash!rest
      <3>3. CASE \E code \in {disk.code, attempt'}, side \in {disk.side, attempt'} :
                   disk' \in {[code |-> code, side |-> side]}
                             \cup Crash!CodeFirst([code |-> code, side |-> side])
        <4>1. PICK code \in {disk.code, attempt'}, side \in {disk.side, attempt'} :
                   disk' \in {[code |-> code, side |-> side]}
                             \cup Crash!CodeFirst([code |-> code, side |-> side])
          BY <3>3
        <4>2. [code |-> code, side |-> side] \in Files
          BY <3>1
        <4>3. disk' \in Files
          BY <4>1, <4>2, CodeFirstIs DEF Crash!CodeFirst, CodeFirst, Crash!Broken, Broken
        <4> QED BY <2>2, <4>3 DEF Crash!Call, Crash!rest
      <3>4. \/ disk' = disk
            \/ \E code \in {disk.code, attempt'}, side \in {disk.side, attempt'} :
                   disk' \in {[code |-> code, side |-> side]}
                             \cup Crash!CodeFirst([code |-> code, side |-> side])
        BY <2>2 DEF Crash!Call
      <3> QED BY <3>2, <3>3, <3>4
    <2>3. CASE Crash!End
      <3>1. disk' \in {disk, Original} \cup CodeFirst(Original)
        BY <2>3 DEF Crash!End, Crash!Left, Crash!Restored, Crash!Original, Original, CodeFirst,
           Crash!CodeFirst, Crash!Broken, Broken
      <3>2. disk' \in Files
        BY <3>1, CodeFirstIs
      <3>3. returned' \in {returned, disk, None} /\ kept' = kept /\ scores' = scores
        BY <1>1, <2>3 DEF Crash!End, Crash!Fails, Crash!rest
      <3> QED BY <3>2, <3>3
    <2>4. CASE Crash!Agent
      <3>1. disk' \in Files
        BY <2>4 DEF Crash!Agent, Crash!CallAgent, Crash!Agents, Crash!Broken, Broken, Agents
      <3> QED BY <1>1, <2>4, <3>1 DEF Crash!Agent, Crash!CallAgent
    <2> QED BY <2>1, <2>2, <2>3, <2>4 DEF Crash!Next
  <1>4. Control'
    <2> USE DEF Form, Control
    <2>1. CASE Crash!Attempt
      BY <2>1, FilesAre DEF Crash!Attempt, Crash!rest, Crash!Passes
    <2>2. CASE Crash!Call
      BY <2>2, FilesAre DEF Crash!Call, Crash!rest
    <2>3. CASE Crash!End
      BY <1>1, <2>3 DEF Crash!End, Crash!Fails, Crash!rest
    <2>4. CASE Crash!Agent
      BY <1>1, <2>4 DEF Crash!Agent, Crash!CallAgent
    <2> QED BY <2>1, <2>2, <2>3, <2>4 DEF Crash!Next
  <1>5. Spend'
    <2>1. cost \in Nat /\ (pc = "call" => cost <= Budget) /\ cost <= Budget + Dearest /\ ~ agent
      <3>1. pc # "done"
        <4>1. CASE Crash!Attempt
          BY <4>1 DEF Crash!Attempt
        <4>2. CASE Crash!Call
          BY <4>2 DEF Crash!Call
        <4>3. CASE Crash!End
          BY <4>3 DEF Crash!End
        <4>4. CASE Crash!Agent
          BY <4>4 DEF Crash!Agent, Crash!CallAgent
        <4> QED BY <4>1, <4>2, <4>3, <4>4 DEF Crash!Next
      <3>2. ~ agent
        BY <3>1 DEF Form, Control
      <3>3. (IF agent /\ which # "fix" THEN Dearest ELSE 0) = 0
        BY <3>2
      <3>4. cost \in Nat /\ (pc = "call" => cost <= Budget) /\ cost <= Budget + Dearest + 0
        BY <3>3 DEF Form, Spend
      <3> QED BY <1>2, <3>2, <3>4
    <2>2. CASE Crash!Attempt
      BY <1>2, <2>1, <2>2 DEF Crash!Attempt, Spend
    <2>3. CASE Crash!Call
      <3>1. cost' = cost \/ \E p \in Prices : cost' = cost + p
        BY <2>3 DEF Crash!Call
      <3>2. cost' \in Nat /\ cost' <= Budget + Dearest
        BY <1>2, <2>1, <2>3, <3>1 DEF Crash!Call
      <3>3. pc' # "call" /\ agent' = agent
        BY <2>3 DEF Crash!Call
      <3> QED BY <1>2, <2>1, <3>2, <3>3 DEF Spend
    <2>4. CASE Crash!End
      BY <1>1, <1>2, <2>1, <2>4 DEF Crash!End, Crash!Fails, Spend, Form, Control
    <2>5. CASE Crash!Agent
      <3>1. PICK p \in Prices : pc' = "done" /\ cost' = cost + p /\ agent' = TRUE
        BY <1>1, <2>5 DEF Crash!Agent, Crash!CallAgent
      <3>2. p \in Nat /\ p <= Dearest
        BY <1>2
      <3>3. cost' \in Nat /\ cost' <= Budget + Dearest + Dearest
        BY <1>2, <2>1, <3>1, <3>2
      <3> QED BY <3>1, <3>3 DEF Spend
    <2> QED BY <2>2, <2>3, <2>4, <2>5 DEF Crash!Next
  <1> QED BY <1>3, <1>4, <1>5 DEF Form

LEMMA CrashKept ==
    ASSUME Form, CrashInv, which = "crash", Crash!Next, which' = which
    PROVE  CrashInv'
  <1> USE DEF Form, CrashInv
  <1>1. ~ agent /\ result = None
    BY DEF Control, Crash!Next, Crash!Attempt, Crash!Call, Crash!End, Crash!Agent, Crash!CallAgent
  <1>2. result' = None => Crash!Success' /\ Crash!Failure'
    BY DEF Crash!Success, Crash!Failure
  <1>3. CASE Crash!Attempt
    <2>1. pc' \in {"call", "end"} /\ result' = None
      BY <1>1, <1>3 DEF Crash!Attempt
    <2>2. CASE \E s \in Shows(disk) : /\ scores' = [scores EXCEPT ![disk] = s] /\ passed' = Passes(s)
                                      /\ pc' \in IF Passes(s) THEN {"end"} ELSE {"call", "end"}
      <3>1. PICK s \in Shows(disk) : /\ scores' = [scores EXCEPT ![disk] = s] /\ passed' = Passes(s)
                                     /\ pc' \in IF Passes(s) THEN {"end"} ELSE {"call", "end"}
        BY <2>2
      <3>2. scores'[disk] = s /\ disk' = disk
        BY <1>3, <3>1 DEF Contents, Crash!Attempt
      <3> QED BY <1>2, <2>1, <3>1, <3>2 DEF Passes
    <2>3. CASE pc' = "end" /\ UNCHANGED <<scores, passed>>
      BY <1>2, <1>3, <2>1, <2>3 DEF Crash!Attempt
    <2>4. Shows(disk) = Crash!Shows(disk) /\ \A s : Passes(s) = Crash!Passes(s)
      BY DEF Shows, Crash!Shows, Passes, Crash!Passes
    <2> QED BY <1>3, <2>2, <2>3, <2>4 DEF Crash!Attempt
  <1>4. CASE Crash!Call
    BY <1>1, <1>2, <1>4 DEF Crash!Call
  <1>5. CASE Crash!End
    <2>1. passed' = passed /\ scores' = scores /\ agent' = agent
      BY <1>5 DEF Crash!End
    <2>2. CASE Crash!Fails
      <3>1. \/ disk' = Original
            \/ "write" \in faults'
            \/ "read" \in faults' /\ passed /\ disk' = disk
        <4>1. \/ ~ passed /\ disk' = Crash!Left
              \/ passed /\ Crash!Return(TRUE, disk)
              \/ passed /\ disk' = disk /\ faults' = {"read"}
              \/ faults' = {"write"}
          BY <1>5 DEF Crash!End
        <4>2. ~ Crash!Return(TRUE, disk)
          BY <1>1, <2>2 DEF Crash!Fails, Crash!Return
        <4> QED BY <4>1, <4>2 DEF Crash!Left, Crash!Restored, Crash!Original, Original
      <3>2. pc' \in {"agent", "done"} /\ result' \in {None, "failed"}
        BY <1>1, <2>2 DEF Crash!Fails, Crash!Return
      <3>3. pc = "end"
        BY <1>5 DEF Crash!End
      <3>4. Crash!Success' /\ Crash!Failure'
        BY <2>1, <3>1, <3>2, <3>3 DEF Crash!Success, Crash!Failure, Original, Crash!Original, Passes,
           Crash!Passes
      <3> QED BY <3>2, <3>4
    <2>3. CASE passed /\ disk' = disk /\ Crash!Return(TRUE, disk)
      <3>1. pc' = "done" /\ result' = "success" /\ returned' = disk /\ Passes(scores[disk])
        BY <1>5, <2>3 DEF Crash!End, Crash!Return
      <3> QED BY <2>1, <2>3, <3>1 DEF Crash!Success, Crash!Failure, Passes, Crash!Passes
    <2> QED BY <1>5, <2>2, <2>3 DEF Crash!End, Crash!Left
  <1>6. CASE Crash!Agent
    BY <1>6 DEF Crash!Agent, Crash!CallAgent, Crash!Return, Crash!Success, Crash!Failure
  <1> QED BY <1>3, <1>4, <1>5, <1>6 DEF Crash!Next

(***************************************************************************)
(* fix_verification_errors_loop                                            *)
(***************************************************************************)

\* New code is only kept when it passed, and then it stays unless a write fails; a call is made
\* about the files on disk.
Remembered ==
    /\ best \in [it : Int, files : Files, issues : Issues \cup {Verify!Unknown}]
    /\ passed => verified # {}
    /\ ~ passed => verified = {}
    /\ kept.code \in {0} \cup verified /\ best.files.code \in {0} \cup verified
    /\ faults \in {{}, {"write"}}
    /\ faults = {} => disk = kept /\ (passed => kept.code \in verified)
    /\ pc \in {"attempt", "call"} => ~ cleared
    /\ pc = "call" \/ (pc = "end" /\ cleared) => disk = kept

VerifyInv ==
    which = "verify" =>
        /\ pc = "start" => /\ disk = Original /\ kept = Original /\ attempt = 0 /\ cost = 0
                           /\ ~ passed /\ verified = {} /\ faults = {}
        /\ pc \in {"attempt", "call", "end"} => Remembered
        /\ Verify!Success /\ Verify!Failure

\* What the loops have in common is the same under the name of an instance.
LEMMA VerifyNames ==
    /\ Verify!Original = Original /\ Verify!Broken = Broken /\ Verify!Agents = Agents
    /\ \A f : Verify!SideFirst(f) = SideFirst(f)
  BY DEF Verify!Original, Original, Verify!Broken, Broken, Verify!Agents, Agents, Verify!SideFirst, SideFirst

LEMMA VerifyForm ==
    ASSUME Form, VerifyInv, which = "verify", Verify!Next, which' = which
    PROVE  Form'
  <1>1. \A f \in BOOLEAN : \A x : Verify!Return(f, x) =>
          pc' = "done" /\ result' \in {"success", "failed"} /\ returned' = x
    BY DEF Verify!Return
  <1>2. Dearest \in Nat /\ \A q \in Prices : q \in Nat /\ q <= Dearest
    BY DearestIs
  <1>3. Contents'
    <2> USE FilesAre DEF Form, Contents
    <2>1. CASE Verify!Begin
      <3>1. ASSUME NEW s \in Shows(disk), scores' = [scores EXCEPT ![disk] = s]
            PROVE  scores' \in [Files -> Scores \cup {None}]
        BY <3>1, RanKeeps DEF Ran
      <3>2. scores' \in [Files -> Scores \cup {None}]
        BY <2>1, <3>1 DEF Verify!Begin, Verify!Shows, Shows
      <3>3. disk' = disk /\ kept' = kept /\ returned' \in {returned, disk}
        BY <2>1 DEF Verify!Begin, Verify!Return, Verify!rest
      <3> QED BY <3>2, <3>3
    <2>2. CASE Verify!Attempt \/ Verify!CallFails \/ Verify!CallEnds
      <3>1. disk' \in {disk, kept} \cup SideFirst(kept)
        BY <2>2, VerifyNames DEF Verify!Attempt, Verify!CallFails, Verify!CallEnds
      <3>2. disk' \in Files
        BY <3>1, SideFirstIs
      <3>3. UNCHANGED <<kept, scores, returned>>
        BY <2>2 DEF Verify!Attempt, Verify!CallFails, Verify!CallEnds
      <3> QED BY <3>2, <3>3
    <2>3. CASE Verify!Call
      <3>1. kept.code \in 0..Broken /\ kept.side \in 0..Broken
        BY DEF Files
      <3>2. PICK code \in {kept.code, attempt}, side \in {kept.side, attempt} :
              \/ disk' = [code |-> code, side |-> side] /\ kept' = disk'
              \/ /\ kept' = kept
                 /\ \E left \in {kept.side, Broken} : disk' = [code |-> code, side |-> left]
              \/ /\ kept' = kept
                 /\ disk' = disk \/ \E c \in {code, Broken} : disk' = [disk EXCEPT !.code = c]
        BY <2>3, VerifyNames DEF Verify!Call
      <3>3. disk' \in Files /\ kept' \in Files
        BY <3>1, <3>2 DEF Files
      <3> QED BY <2>3, <3>3 DEF Verify!Call
    <2>4. CASE Verify!End
      <3>1. best.files \in Files
        BY <2>4 DEF Verify!End, VerifyInv, Remembered
      <3>2. kept' \in {kept, best.files, Original}
        BY <2>4, VerifyNames DEF Verify!End, Verify!Restored
      <3>3. kept' \in Files
        BY <3>1, <3>2
      <3>4. \/ disk' \in {kept'} \cup SideFirst(best.files) \cup {disk, [disk EXCEPT !.side = Broken]}
            \/ disk' = Verify!BackTo(kept')
        BY <2>4, VerifyNames DEF Verify!End
      <3>5. disk' \in Files
        BY <3>1, <3>3, <3>4, SideFirstIs DEF Verify!BackTo, Files
      <3>6. scores' = scores /\ returned' \in {returned, kept'}
        BY <1>1, <2>4 DEF Verify!End, Verify!Fails
      <3> QED BY <3>3, <3>5, <3>6
    <2>5. CASE Verify!Agent
      <3>1. disk' \in Files
        BY <2>5 DEF Verify!Agent, Verify!CallAgent, Verify!Agents, Verify!Broken, Broken, Agents
      <3> QED BY <1>1, <2>5, <3>1 DEF Verify!Agent, Verify!CallAgent
    <2> QED BY <2>1, <2>2, <2>3, <2>4, <2>5 DEF Verify!Next
  <1>4. Control'
    <2> USE DEF Form, Control
    <2>1. CASE Verify!Begin
      <3>1. /\ UNCHANGED <<opt, attempt, passed, agent>> /\ ~ agent /\ cleared' \in BOOLEAN /\ result = None
            /\ \/ pc' = "done" /\ result' \in {"success", "failed"}
               \/ pc' \in {"end", "attempt"} /\ result' = result
        BY <1>1, <2>1 DEF Verify!Begin, Verify!rest, Verify!Passes
      <3> QED BY <3>1
    <2>2. CASE Verify!Attempt \/ Verify!CallFails \/ Verify!CallEnds
      BY <2>2, FilesAre DEF Verify!Attempt, Verify!More, Verify!CallFails, Verify!Again, Verify!CallEnds,
         Verify!rest
    <2>3. CASE Verify!Call
      <3>1. /\ UNCHANGED <<opt, attempt, agent, result>> /\ ~ agent /\ result = None
            /\ pc' \in {"end", "attempt"} /\ passed' \in BOOLEAN /\ cleared' \in BOOLEAN
        BY <2>3 DEF Verify!Call, Verify!Accept, Verify!rest
      <3> QED BY <3>1
    <2>4. CASE Verify!End
      <3>1. /\ pc = "end" /\ ~ agent /\ UNCHANGED <<opt, attempt, passed, cleared, agent>>
            /\ \/ pc' = "done" /\ result' \in {"success", "failed"}
               \/ pc' = "agent" /\ result' = result
        BY <1>1, <2>4 DEF Verify!End, Verify!Fails, Verify!rest
      <3> QED BY <3>1
    <2>5. CASE Verify!Agent
      BY <1>1, <2>5 DEF Verify!Agent, Verify!CallAgent
    <2> QED BY <2>1, <2>2, <2>3, <2>4, <2>5 DEF Verify!Next
  <1>5. Spend'
    <2> pc # "done"
      BY DEF Verify!Next, Verify!Begin, Verify!Attempt, Verify!CallFails, Verify!CallEnds, Verify!Call,
         Verify!End, Verify!Agent, Verify!CallAgent
    <2> agent = FALSE
      BY DEF Form, Control
    <2>1. /\ cost \in Nat /\ (pc = "call" => cost <= Budget) /\ cost <= Budget + Dearest
          /\ pc = "start" => cost = 0
      BY <1>2 DEF Form, Spend, VerifyInv
    <2>2. ASSUME NEW p \in Prices, cost' = cost + p, cost <= Budget, pc' # "call", agent' = agent
          PROVE  Spend'
      <3>1. p \in Nat /\ p <= Dearest
        BY <1>2
      <3>2. cost' \in Nat /\ cost' <= Budget + Dearest
        BY <1>2, <2>1, <2>2, <3>1
      <3> QED BY <1>2, <2>2, <3>2 DEF Spend
    <2>3. CASE cost' = cost /\ agent' = agent /\ (pc' = "call" => cost < Budget)
      BY <1>2, <2>1, <2>3 DEF Spend
    <2>4. CASE Verify!Begin
      <3>1. pc = "start" /\ pc' \in {"done", "end", "attempt"} /\ agent' = agent
        BY <1>1, <2>4 DEF Verify!Begin
      <3>2. cost' = cost \/ \E p \in Prices : cost' = cost + p
        BY <2>4 DEF Verify!Begin
      <3> QED BY <2>1, <2>2, <2>3, <3>1, <3>2
    <2>5. CASE Verify!Attempt
      BY <2>3, <2>5 DEF Verify!Attempt
    <2>10. CASE Verify!CallFails
      <3>1. PICK p \in Prices \cup {0} : cost' = cost + p
        BY <2>10 DEF Verify!CallFails
      <3>2. pc = "call" /\ pc' # "call" /\ agent' = agent
        BY <2>10 DEF Verify!CallFails
      <3>3. CASE p = 0
        BY <2>1, <2>3, <3>1, <3>2, <3>3
      <3> QED BY <2>1, <2>2, <3>1, <3>2, <3>3
    <2>6. CASE Verify!CallEnds
      BY <2>1, <2>2, <2>6 DEF Verify!CallEnds
    <2>7. CASE Verify!Call
      <3>1. pc = "call" /\ pc' # "call" /\ agent' = agent /\ \E p \in Prices : cost' = cost + p
        BY <2>7 DEF Verify!Call
      <3> QED BY <2>1, <2>2, <3>1
    <2>8. CASE Verify!End
      BY <1>1, <2>3, <2>8 DEF Verify!End, Verify!Fails
    <2>9. CASE Verify!Agent
      <3>1. PICK p \in Prices : pc' = "done" /\ cost' = cost + p /\ agent' = TRUE
        BY <1>1, <2>9 DEF Verify!Agent, Verify!CallAgent
      <3>2. p \in Nat /\ p <= Dearest
        BY <1>2
      <3>3. cost' \in Nat /\ cost' <= Budget + Dearest + Dearest
        BY <1>2, <2>1, <3>1, <3>2
      <3> QED BY <3>1, <3>3 DEF Spend
    <2> QED BY <2>4, <2>5, <2>6, <2>7, <2>8, <2>9, <2>10 DEF Verify!Next
  <1> QED BY <1>3, <1>4, <1>5 DEF Form

LEMMA VerifyBegins ==
    ASSUME Form, VerifyInv, which = "verify", Verify!Begin, which' = which
    PROVE  VerifyInv'
  <1>1. /\ disk = Original /\ kept = Original /\ ~ passed /\ verified = {} /\ faults = {} /\ ~ agent
        /\ UNCHANGED <<disk, kept, passed, verified, faults, agent>> /\ result = None
    BY DEF VerifyInv, Verify!Begin, Verify!rest, Form, Control
  <1>2. disk.code = 0 /\ disk.side = 0 /\ disk \in Files
    BY <1>1 DEF Original, Form, Contents
  <1>3. CASE Verify!Return(TRUE, disk) /\ cleared'
    BY <1>1, <1>2, <1>3 DEF Verify!Return, Verify!Success, Verify!Failure, VerifyInv
  <1>4. CASE Verify!Return(FALSE, disk)
    BY <1>1, <1>2, <1>4 DEF Verify!Return, Verify!Success, Verify!Failure, VerifyInv
  <1>5. ASSUME pc' \in {"end", "attempt"}, result' = None, ~ cleared',
               NEW n \in Int, NEW i \in Issues \cup {Verify!Unknown},
               best' = [it |-> n, files |-> disk, issues |-> i]
        PROVE  VerifyInv'
    <2>1. Remembered'
      BY <1>1, <1>2, <1>5 DEF Remembered
    <2> QED BY <1>5, <2>1 DEF VerifyInv, Verify!Success, Verify!Failure
  <1>6. CASE opt.max = 0
    <2>1. \/ Verify!Return(TRUE, disk) /\ cleared'
          \/ /\ pc' = "end" /\ result' = result /\ ~ cleared'
             /\ best' = [it |-> -1, files |-> disk, issues |-> Verify!Unknown]
      <3>1. PICK s \in Verify!Shows(disk) :
               /\ cleared' = Verify!Passes(s)
               /\ IF Verify!Passes(s) THEN Verify!Return(TRUE, disk)
                  ELSE pc' = "end" /\ UNCHANGED <<result, returned>>
        BY <1>6 DEF Verify!Begin
      <3>2. best' = [it |-> -1, files |-> disk, issues |-> Verify!Unknown]
        BY <1>6 DEF Verify!Begin
      <3>3. CASE Verify!Passes(s)
        BY <3>1, <3>3, Zenon
      <3>4. CASE ~ Verify!Passes(s)
        BY <3>1, <3>2, <3>4, Zenon
      <3> QED BY <3>3, <3>4
    <2>2. CASE pc' = "end" /\ result' = result /\ ~ cleared'
               /\ best' = [it |-> -1, files |-> disk, issues |-> Verify!Unknown]
      <3>1. result' = None /\ -1 \in Int
        BY <1>1, <2>2
      <3> QED BY <1>5, <2>2, <3>1
    <2> QED BY <1>3, <2>1, <2>2
  <1>7. CASE opt.max # 0
    <2>1. \/ Verify!Return(FALSE, disk)
          \/ \E n \in Issues \cup {-1} :
               /\ cleared' = (n = 0)
               /\ best' = [it |-> 0, files |-> disk, issues |-> IF n = -1 THEN Verify!Unknown ELSE n]
               /\ \/ n = 0 /\ Verify!Return(TRUE, disk)
                  \/ n # 0 /\ Verify!Return(FALSE, disk)
                  \/ n # 0 /\ pc' = "attempt" /\ result' = result
      BY <1>7 DEF Verify!Begin
    <2>2. ASSUME NEW n \in Issues \cup {-1}, cleared' = (n = 0),
                 best' = [it |-> 0, files |-> disk, issues |-> IF n = -1 THEN Verify!Unknown ELSE n],
                 \/ n = 0 /\ Verify!Return(TRUE, disk)
                 \/ n # 0 /\ Verify!Return(FALSE, disk)
                 \/ n # 0 /\ pc' = "attempt" /\ result' = result
          PROVE  VerifyInv'
      <3>1. (IF n = -1 THEN Verify!Unknown ELSE n) \in Issues \cup {Verify!Unknown}
        OBVIOUS
      <3>2. CASE n = 0 /\ Verify!Return(TRUE, disk)
        <4>1. cleared'
          BY <2>2, <3>2, Zenon
        <4> QED BY <1>3, <3>2, <4>1
      <3>3. CASE n # 0 /\ pc' = "attempt" /\ result' = result
        <4>1. result' = None /\ 0 \in Int
          BY <1>1, <3>3
        <4>2. ~ cleared'
          BY <2>2, <3>3, Zenon
        <4> QED BY <1>5, <2>2, <3>1, <3>3, <4>1, <4>2
      <3> QED BY <1>4, <2>2, <3>2, <3>3
    <2> QED BY <1>4, <2>1, <2>2
  <1> QED BY <1>6, <1>7

LEMMA VerifyCalls ==
    ASSUME Form, VerifyInv, which = "verify", which' = which, Verify!Call
    PROVE  VerifyInv'
  <1>1. PICK n \in Issues, code \in {kept.code, attempt}, side \in {kept.side, attempt} :
          \/ /\ Verify!Accept(code, n)
             /\ disk' = [code |-> code, side |-> side] /\ kept' = disk'
             /\ cleared' = (n = 0)
             /\ pc' = IF n = 0 \/ disk' = disk THEN "end" ELSE "attempt"
             /\ faults' = faults
          \/ /\ Verify!Accept(code, n)
             /\ faults' = {"write"} /\ pc' \in {"attempt", "end"} /\ kept' = kept /\ cleared' = cleared
          \/ /\ pc' = "attempt"
             /\ (disk' = disk /\ faults' = faults) \/ faults' = {"write"}
             /\ UNCHANGED <<kept, best, passed, verified, cleared>>
    BY DEF Verify!Call
  <1>2. Remembered /\ pc = "call" /\ disk = kept /\ ~ cleared /\ result' = None /\ agent' = agent
    BY DEF Verify!Call, VerifyInv, Remembered, Form, Control
  <1>3. attempt \in Int /\ kept \in Files /\ passed \in BOOLEAN
    BY DEF Form, Control, Contents
  <1>4. pc' \in {"attempt", "end"}
    BY <1>1
  <1>5. ASSUME Verify!Accept(code, n)
        PROVE  /\ best' \in [it : Int, files : Files, issues : Issues \cup {Verify!Unknown}]
               /\ passed' => verified' # {}
               /\ ~ passed' => verified' = {}
               /\ best'.files.code \in {0} \cup verified' /\ kept.code \in {0} \cup verified'
               /\ code \in {0} \cup verified'
               /\ passed' /\ faults = {} => code \in verified'
    <2>1. best' \in {best, [it |-> attempt, files |-> kept, issues |-> n]}
      BY <1>5 DEF Verify!Accept, Verify!Judged
    <2>2. best' \in [it : Int, files : Files, issues : Issues \cup {Verify!Unknown}]
      BY <1>2, <1>3, <2>1 DEF Remembered
    <2>3. best'.files \in {best.files, kept}
      BY <2>1
    <2>4. (passed' <=> passed \/ code # kept.code) /\ verified' = verified \cup ({code} \ {kept.code})
      BY <1>5 DEF Verify!Accept
    <2> QED BY <1>2, <2>2, <2>3, <2>4 DEF Remembered
  <1>6. Remembered'
    <2>1. CASE /\ Verify!Accept(code, n)
               /\ disk' = [code |-> code, side |-> side] /\ kept' = disk'
               /\ cleared' = (n = 0)
               /\ pc' = IF n = 0 \/ disk' = disk THEN "end" ELSE "attempt"
               /\ faults' = faults
      <3>1. kept'.code = code
        BY <2>1
      <3>2. pc' = "attempt" => ~ cleared'
        <4>1. pc' = "attempt" => n # 0
          BY <2>1
        <4> QED BY <2>1, <4>1, Zenon
      <3>3. faults' \in {{}, {"write"}}
        BY <1>2, <2>1 DEF Remembered
      <3>4. faults' = {} => faults = {}
        BY <2>1
      <3> QED BY <1>4, <1>5, <2>1, <3>1, <3>2, <3>3, <3>4 DEF Remembered
    <2>2. CASE /\ Verify!Accept(code, n)
               /\ faults' = {"write"} /\ pc' \in {"attempt", "end"} /\ kept' = kept /\ cleared' = cleared
      BY <1>2, <1>5, <2>2 DEF Remembered
    <2>3. CASE /\ pc' = "attempt"
               /\ (disk' = disk /\ faults' = faults) \/ faults' = {"write"}
               /\ UNCHANGED <<kept, best, passed, verified, cleared>>
      BY <1>2, <2>3 DEF Remembered
    <2> QED BY <1>1, <2>1, <2>2, <2>3
  <1> QED BY <1>2, <1>4, <1>6 DEF VerifyInv, Verify!Success, Verify!Failure

LEMMA VerifyEnds ==
    ASSUME Form, VerifyInv, which = "verify", which' = which, Verify!End
    PROVE  VerifyInv'
  <1>1. /\ Remembered /\ pc = "end" /\ ~ agent /\ result = None /\ agent' = agent
        /\ UNCHANGED <<best, last, passed, verified, cleared>> /\ kept \in Files /\ disk \in Files
    BY DEF Verify!End, VerifyInv, Form, Control, Contents
  <1>2. pc' \in {"agent", "done"}
    BY DEF Verify!End, Verify!Return, Verify!Fails
  <1>3. best.files \in Files /\ disk = [code |-> disk.code, side |-> disk.side]
    BY <1>1 DEF Remembered, Files
  <1>4. Verify!Improved' = Verify!Improved
    BY <1>1 DEF Verify!Improved, Verify!Unknown
  <1>5. ASSUME Verify!Fails, \/ "write" \in faults'
                            \/ /\ disk'.code = 0 /\ kept' = disk'
                               /\ disk'.side = 0 \/ (best.it > 0 /\ disk' = best.files)
        PROVE  VerifyInv'
    BY <1>1, <1>2, <1>5 DEF Verify!Fails, Verify!Return, VerifyInv, Verify!Success, Verify!Failure
  <1>6. CASE /\ kept' = (IF cleared THEN kept ELSE Verify!Restored) /\ faults' = faults
             /\ disk' = IF Verify!Improved /\ ~ cleared THEN kept' ELSE Verify!BackTo(kept')
             /\ IF cleared \/ passed \/ Verify!CountsAsClear
                THEN Verify!Return(TRUE, kept') ELSE Verify!Fails
    <2>1. CASE cleared
      <3>1. kept' = kept /\ disk' = disk /\ disk = kept
        BY <1>1, <1>3, <1>6, <2>1 DEF Verify!BackTo, Remembered
      <3>2. pc' = "done" /\ result' = "success" /\ returned' = disk'
        BY <1>6, <2>1, <3>1 DEF Verify!Return
      <3> QED BY <1>1, <2>1, <3>1, <3>2 DEF Remembered, VerifyInv, Verify!Success, Verify!Failure
    <2>2. CASE ~ cleared /\ Verify!Improved
      <3>1. kept' = best.files /\ disk' = best.files /\ best.it > 0
        BY <1>6, <2>2 DEF Verify!Restored, Verify!Improved
      <3>2. CASE passed \/ Verify!CountsAsClear
        <4>1. pc' = "done" /\ result' = "success" /\ returned' = disk'
          BY <1>6, <3>1, <3>2 DEF Verify!Return
        <4>2. best.issues = 0 \/ verified # {}
          BY <1>1, <3>2 DEF Verify!CountsAsClear, Remembered
        <4> QED BY <1>1, <1>4, <2>2, <3>1, <4>1, <4>2 DEF Remembered, VerifyInv, Verify!Success, Verify!Failure
      <3>3. CASE ~ (passed \/ Verify!CountsAsClear)
        <4>1. best.files.code = 0
          BY <1>1, <3>3 DEF Remembered
        <4> QED BY <1>5, <1>6, <2>2, <3>1, <3>3, <4>1
      <3> QED BY <3>2, <3>3
    <2>3. CASE ~ cleared /\ ~ Verify!Improved /\ passed
      <3>1. kept' = kept /\ disk' = disk
        BY <1>3, <1>6, <2>3 DEF Verify!Restored, Verify!BackTo
      <3>2. pc' = "done" /\ result' = "success" /\ returned' = kept
        BY <1>6, <2>3, <3>1 DEF Verify!Return
      <3>3. verified # {} /\ (faults = {} => disk = kept /\ kept.code \in verified)
            /\ (faults = {} \/ faults = {"write"})
        BY <1>1, <2>3 DEF Remembered
      <3> QED BY <1>1, <1>6, <3>1, <3>2, <3>3 DEF VerifyInv, Verify!Success, Verify!Failure
    <2>4. CASE ~ cleared /\ ~ Verify!Improved /\ ~ passed
      <3>1. kept' = Original /\ disk' = Verify!BackTo(Original)
        BY <1>6, <2>4, VerifyNames DEF Verify!Restored
      <3>2. Verify!Fails
        BY <1>6, <2>4 DEF Verify!CountsAsClear
      <3>3. faults = {} \/ faults = {"write"}
        BY <1>1 DEF Remembered
      <3>4. faults = {} => disk' = Original
        BY <1>1, <3>1 DEF Remembered, Verify!BackTo, Original
      <3> QED BY <1>5, <1>6, <3>1, <3>2, <3>3, <3>4 DEF Original
    <2> QED BY <2>1, <2>2, <2>3, <2>4
  <1>7. CASE faults' = {"write"} /\ Verify!Fails
    BY <1>5, <1>7
  <1> QED BY <1>6, <1>7 DEF Verify!End

LEMMA VerifyKept ==
    ASSUME Form, VerifyInv, which = "verify", Verify!Next, which' = which
    PROVE  VerifyInv'
  <1>1. CASE Verify!Attempt
    <2>1. /\ Remembered /\ result' = None /\ agent' = agent /\ pc' \in {"call", "end"} /\ ~ cleared
          /\ UNCHANGED <<kept, best, passed, verified, cleared>>
          /\ \/ disk' = disk /\ faults' = faults /\ pc' = "end"
             \/ disk' = kept /\ faults' = faults
             \/ faults' = {"write"} /\ pc' = "end"
      BY <1>1 DEF Verify!Attempt, VerifyInv, Remembered, Form, Control
    <2>2. Remembered'
      BY <2>1 DEF Remembered
    <2> QED BY <2>1, <2>2 DEF VerifyInv, Verify!Success, Verify!Failure
  <1>2. CASE Verify!CallFails
    <2>1. /\ Remembered /\ result' = None /\ agent' = agent /\ pc' = "attempt" /\ ~ cleared
          /\ UNCHANGED <<disk, kept, best, passed, verified, cleared, faults>>
      BY <1>2 DEF Verify!CallFails, VerifyInv, Remembered, Form, Control
    <2>2. Remembered'
      BY <2>1 DEF Remembered
    <2> QED BY <2>1, <2>2 DEF VerifyInv, Verify!Success, Verify!Failure
  <1>3. CASE Verify!CallEnds
    <2>1. /\ Remembered /\ result' = None /\ agent' = agent /\ pc' = "end" /\ ~ cleared
          /\ UNCHANGED <<disk, kept, passed, verified, cleared, faults>>
          /\ attempt \in Int /\ kept \in Files
      BY <1>3 DEF Verify!CallEnds, VerifyInv, Remembered, Form, Control, Contents
    <2>2. best' = best \/ \E n \in Issues : best' \in {best, [it |-> attempt, files |-> kept, issues |-> n]}
      BY <1>3 DEF Verify!CallEnds, Verify!Judged
    <2>3. Remembered'
      BY <2>1, <2>2 DEF Remembered
    <2> QED BY <2>1, <2>3 DEF VerifyInv, Verify!Success, Verify!Failure
  <1>4. CASE Verify!Agent
    BY <1>4 DEF Verify!Agent, Verify!CallAgent, Verify!Return, Verify!Success, Verify!Failure, VerifyInv
  <1> QED BY <1>1, <1>2, <1>3, <1>4, VerifyBegins, VerifyCalls, VerifyEnds DEF Verify!Next

(***************************************************************************)
(* All three.                                                              *)
(***************************************************************************)

Inv == Form /\ FixInv /\ CrashInv /\ VerifyInv

LEMMA InitInv == Init => Inv
  <1> SUFFICES ASSUME Init PROVE Inv
    OBVIOUS
  <1>1. Dearest \in Nat /\ \A q \in Prices : q \in Nat /\ q <= Dearest
    BY DearestIs
  <1>2. Start /\ which \in {"fix", "crash", "verify"} /\ (which # "crash" => cost = 0) /\ cost \in {0} \cup Prices
    BY DEF Init, Fix!Init, Crash!Init, Verify!Init, Start, Fix!Start, Crash!Start, Verify!Start, Fix!Original,
       Crash!Original, Verify!Original, Original, Fix!Files, Crash!Files, Verify!Files, Files, Fix!Agents, Fix!Broken,
       Crash!Agents, Crash!Broken, Verify!Agents, Verify!Broken, Broken, Agents
  <1>3. Contents
    BY <1>2 DEF Start, Contents, Original, Files, Agents, Broken
  <1>4. Control
    <2>1. opt.max \in Nat
      BY <1>2 DEF Start
    <2>2. /\ pc = "start" /\ result = None /\ agent = FALSE /\ passed = FALSE /\ cleared = FALSE /\ attempt = 0
          /\ opt \in [max : {0, MaxAttempts}, agent : BOOLEAN, protect : BOOLEAN, cloudOnly : BOOLEAN]
      BY <1>2 DEF Start
    <2>3. attempt \in 0..opt.max
      BY <2>1, <2>2
    <2>4. result \in {None, "success", "failed"} /\ (pc = "done" <=> result # None)
      BY <2>2
    <2>5. passed \in BOOLEAN /\ cleared \in BOOLEAN /\ agent \in BOOLEAN /\ (agent => pc = "done")
      BY <2>2
    <2>6. which = "crash" /\ pc = "call" => attempt < opt.max
      BY <2>2
    <2> QED BY <1>2, <2>2, <2>3, <2>4, <2>5, <2>6 DEF Control
  <1>5. Spend
    BY <1>1, <1>2 DEF Start, Spend
  <1>6. FixInv /\ CrashInv /\ VerifyInv
    BY <1>2 DEF Start, FixInv, Fix!Success, Fix!Failure, CrashInv, Crash!Success, Crash!Failure, VerifyInv,
       Verify!Success, Verify!Failure, Original
  <1> QED BY <1>3, <1>4, <1>5, <1>6 DEF Inv, Form

LEMMA NextInv == Inv /\ [Next]_all => Inv'
  <1>1. ASSUME Inv, Next PROVE Inv'
    <2>1. CASE which = "fix" /\ Fix!Next /\ which' = which
      <3>1. Form'
        BY <1>1, <2>1, FixContents, FixControl, FixSpend DEF Inv, Form
      <3>2. FixInv'
        BY <1>1, <2>1, FixKept DEF Inv
      <3> QED BY <2>1, <3>1, <3>2 DEF Inv, CrashInv, VerifyInv
    <2>2. CASE which = "crash" /\ Crash!Next /\ which' = which
      <3>1. Form' /\ CrashInv'
        BY <1>1, <2>2, CrashForm, CrashKept DEF Inv
      <3> QED BY <2>2, <3>1 DEF Inv, FixInv, VerifyInv
    <2>3. CASE which = "verify" /\ Verify!Next /\ which' = which
      <3>1. Form' /\ VerifyInv'
        BY <1>1, <2>3, VerifyForm, VerifyKept DEF Inv
      <3> QED BY <2>3, <3>1 DEF Inv, FixInv, CrashInv
    <2> QED BY <1>1, <2>1, <2>2, <2>3 DEF Next
  <1>2. Inv /\ UNCHANGED all => Inv'
    BY DEF all, vars, Inv, Form, Contents, Control, Spend, FixInv, Memory, CrashInv, VerifyInv, Remembered,
       Verify!Improved, Verify!Unknown, Fix!Success,
       Fix!Failure, Crash!Success, Crash!Failure, Verify!Success, Verify!Failure
  <1> QED BY <1>1, <1>2

(***************************************************************************)
(* The theorems.                                                           *)
(***************************************************************************)

\* What a loop reports, apart from an agent's word, holds of the files it leaves in the sense of
\* its Success and Failure, whatever call, write, read or restore fails.  About the three
\* repair loops, their memory, their writes and their restores.
THEOREM OutcomeHolds == Spec => []OutcomeIsTrue
  <1>1. Inv => OutcomeIsTrue
    BY DEF Inv, Form, Contents, Control, FixInv, CrashInv, VerifyInv, OutcomeIsTrue, TypeOK, SuccessIsEarned,
       FailureIsHarmless
  <1> QED BY InitInv, NextInv, <1>1, PTL DEF Spec

\* The budget is overrun by the call that crosses it and, in two loops, by the agent.  About
\* the checks of the budget in the three loops.
THEOREM SpendIsBounded == Spec => []SpendBound
  <1>1. Inv => SpendBound
    BY DEF Inv, Form, Spend, SpendBound
  <1> QED BY InitInv, NextInv, <1>1, PTL DEF Spec

=============================================================================
