------------------------------ MODULE SyncLock ------------------------------
(***************************************************************************)
(* The per-module lock of pdd/sync_determine_operation.py.  `pdd sync`     *)
(* holds one SyncLock for a basename and language while it works           *)
(* (sync_orchestration.py:2364), and every decision it takes inside        *)
(* acquires the same lock again (sync_determine_operation.py:5955).        *)
(*                                                                         *)
(* The lock is a file that holds the owner's pid, and an flock on the      *)
(* inode that the name had when the file was opened.  The name can be      *)
(* unlinked and created again while older inodes are still open; only the  *)
(* bytes of the inode that has the name can be read.                       *)
(*                                                                         *)
(* The module's names (LockInit, LockNext, Nil, ...) leave those of the    *)
(* loop free: SyncProofs extends both.                                     *)
(***************************************************************************)
EXTENDS Naturals, FiniteSets

CONSTANTS Procs,     \* processes; a process stands for its pid
          Inodes,    \* file identities the name may have
          Nil        \* no file, no descriptor, an empty file

Levels == {"outer", "inner"}
Objects == Procs \X Levels        \* the SyncLock objects

\* Whatever the objects have open, the file system has another inode.
ASSUME ConstantsAssumption ==
    /\ Nil \notin Procs \cup Inodes
    /\ \A open \in [Objects -> Inodes \cup {Nil}] :
          \E i \in Inodes : \A o \in Objects : open[o] # i

Outer(p) == <<p, "outer">>
Inner(p) == <<p, "inner">>
PidOf(o) == o[1]

VARIABLES name,     \* the inode the lock file's name has
          text,     \* what that inode holds: a pid, or Nil if empty
          fd,       \* fd[o]: the inode that o has open
          locked,   \* the objects whose descriptor holds its flock
          at,       \* where each object is
          alive     \* the processes that run

lockVars == <<name, text, fd, locked, at, alive>>

States == {"idle", "exists", "read", "unlink", "touch", "open", "flock",
           "write", "held", "remove", "fail"}

LockTypeOK ==
    /\ name \in Inodes \cup {Nil}
    /\ text \in Procs \cup {Nil}
    /\ fd \in [Objects -> Inodes \cup {Nil}]
    /\ locked \subseteq Objects
    /\ at \in [Objects -> States]
    /\ alive \subseteq Procs
    /\ \A o \in Objects :      \* no descriptor and no flock outlives its call
          /\ fd[o] # Nil => at[o] \in {"flock", "write", "held", "fail"}
          /\ o \in locked => fd[o] # Nil /\ at[o] \in {"write", "held"}

LockInit ==
    /\ name = Nil /\ text = Nil
    /\ fd = [o \in Objects |-> Nil] /\ locked = {}
    /\ at = [o \in Objects |-> "idle"] /\ alive = Procs

-----------------------------------------------------------------------------
Go(o, from, to) == at[o] = from /\ at' = [at EXCEPT ![o] = to]
InUse == {name} \cup {fd[o] : o \in Objects}

\* Decisions are taken, and the outer lock is released, between nested calls.
MayBegin(o) == o = Inner(PidOf(o)) => at[Outer(PidOf(o))] = "held"
MayRelease(o) == o = Outer(PidOf(o)) => at[Inner(PidOf(o))] = "idle"

\* acquire.
Call(o) ==
    /\ MayBegin(o) /\ Go(o, "idle", "exists")
    /\ UNCHANGED <<name, text, fd, locked, alive>>

\* lock_file.exists().
Exists(o) ==
    /\ Go(o, "exists", IF name = Nil THEN "touch" ELSE "read")
    /\ UNCHANGED <<name, text, fd, locked, alive>>

\* Mutants of AfterRead: a dead pid is respected; one's own is refused.
AfterReadMutant2(p) ==
    IF name = Nil \/ text = Nil THEN "unlink"
    ELSE IF text = p THEN "held" ELSE "fail"
AfterReadMutant(p) == IF name = Nil \/ text \notin alive THEN "unlink" ELSE "fail"

\* What the pid in the file makes of an acquire by process p: re-entrant;
\* TimeoutError, an OSError, which the handler at 3404 cleans up after; or
\* a stale, invalid or vanished file, which is removed.
AfterRead(p) ==
    IF name = Nil \/ text \notin alive THEN "unlink"
    ELSE IF text = p THEN "held" ELSE "fail"

Read(o) ==
    /\ Go(o, "read", AfterRead(PidOf(o)))
    /\ UNCHANGED <<name, text, fd, locked, alive>>

\* Remove a file that another process may have made since it was read.
UnlinkStale(o) ==
    /\ Go(o, "unlink", "touch")
    /\ name' = Nil /\ text' = Nil
    /\ UNCHANGED <<fd, locked, alive>>

\* The inode that touch or open gets: the named one, or one not in use (which
\* one does not matter: identities are only compared).
Target == IF name = Nil THEN CHOOSE i \in Inodes : i \notin InUse ELSE name

Touch(o) ==
    /\ Go(o, "touch", "open")
    /\ name' = Target
    /\ UNCHANGED <<text, fd, locked, alive>>

\* open(lock_file, 'w') truncates, whoever's file it is.
Open(o) ==
    /\ Go(o, "open", "flock")
    /\ name' = Target
    /\ fd' = [fd EXCEPT ![o] = name']
    /\ text' = Nil
    /\ UNCHANGED <<locked, alive>>

Conflicts(o) == {x \in locked : fd[x] = fd[o]}

\* flock(LOCK_EX | LOCK_NB); BlockingIOError is an OSError.
Flock(o) ==
    /\ Go(o, "flock", IF Conflicts(o) = {} THEN "write" ELSE "fail")
    /\ locked' = IF Conflicts(o) = {} THEN locked \cup {o} ELSE locked
    /\ UNCHANGED <<name, text, fd, alive>>

\* Write the pid into the inode that is open, which may have lost its name.
WritePid(o) ==
    /\ Go(o, "write", "held")
    /\ text' = IF fd[o] = name THEN PidOf(o) ELSE text
    /\ UNCHANGED <<name, fd, locked, alive>>

\* self.fd.close(); self.fd = None.
Closed(o) == [fd EXCEPT ![o] = Nil]

LeftNameMutant == name
\* lock_file.unlink(missing_ok=True), whoever's file has the name by now.
LeftName == Nil

\* The handler: close the descriptor, unlink the file, raise again.
CleanUp(o) ==
    /\ Go(o, "fail", "idle")
    /\ fd' = Closed(o)
    /\ name' = Nil /\ text' = Nil
    /\ UNCHANGED <<locked, alive>>

\* release: unlock and close; nothing for a re-entrant acquire, whose fd is None.
Unlock(o) ==
    /\ MayRelease(o)
    /\ Go(o, "held", IF fd[o] = Nil THEN "idle" ELSE "remove")
    /\ fd' = Closed(o)
    /\ locked' = locked \ {o}
    /\ UNCHANGED <<name, text, alive>>

\* release: the file is removed after the lock was given up.
RemoveFile(o) ==
    /\ Go(o, "remove", "idle")
    /\ name' = LeftName
    /\ text' = IF LeftName = Nil THEN Nil ELSE text
    /\ UNCHANGED <<fd, locked, alive>>

Acquire(o) == \/ Exists(o) \/ Read(o) \/ UnlinkStale(o) \/ Touch(o) \/ Open(o)
              \/ Flock(o) \/ WritePid(o) \/ CleanUp(o)
Step(o) == Acquire(o) \/ RemoveFile(o)

\* The process dies; the kernel closes its descriptors, the file stays.
Die(p) ==
    /\ p \in alive /\ alive' = alive \ {p}
    /\ at' = [o \in Objects |-> IF PidOf(o) = p THEN "idle" ELSE at[o]]
    /\ fd' = [o \in Objects |-> IF PidOf(o) = p THEN Nil ELSE fd[o]]
    /\ locked' = {o \in locked : PidOf(o) # p}
    /\ UNCHANGED <<name, text>>

LockNext ==
    \/ \E p \in alive, l \in Levels :
          Call(<<p, l>>) \/ Step(<<p, l>>) \/ Unlock(<<p, l>>)
    \/ \E p \in Procs : Die(p)

LockSpec == LockInit /\ [][LockNext]_lockVars

\* A process runs on until its call has returned: nothing in acquire or
\* release waits.  It need not call, release what it holds, or crash.
FairLockSpec == LockSpec /\ \A p \in Procs, l \in Levels :
                               WF_lockVars(p \in alive /\ Step(<<p, l>>))

-----------------------------------------------------------------------------
(* Properties *)

Holds(p) == p \in alive /\ at[Outer(p)] = "held"

\* docs/sync_determination_analysis.md:105: "ensuring only one sync per
\* basename+language".  The code does not: an acquire that reads the file before
\* its owner has written the pid removes it as invalid, and gets a new inode.  So
\* does one that was refused, at the next attempt: its handler removes the file.
MutualExclusion == \A p, q \in Procs : Holds(p) /\ Holds(q) => p = q

\* The lock file never names a process that runs but is done with the lock:
\* such a file would refuse the module to everyone until that process exits.
\* A file without a pid is only ever left by a crash.  About release and the
\* handler of acquire, which remove whatever file has the name.
NoOrphanedName ==
    /\ name # Nil /\ text \in alive => at[Outer(text)] # "idle"
    /\ name # Nil /\ alive = Procs => \E p \in Procs : at[Outer(p)] # "idle"

\* No call leaves anything of its own behind: no descriptor, no flock, no file.
LeavesNothing == LockTypeOK /\ NoOrphanedName

\* A nested acquire is refused only because of another process that is at
\* work on the lock at that moment, never because of the process's own outer
\* lock: neither its pid in the file nor its flock on the inode.
NeverRefusesItself ==
    [][\A p \in Procs : (at[Inner(p)] # "fail" /\ at'[Inner(p)] = "fail") =>
          \E q \in alive \ {p} : at[Outer(q)] # "idle"]_lockVars

\* A lock left behind by processes that died does not keep a survivor out: an
\* acquire that begins when no other process runs obtains the lock (or dies).
ReclaimsStale ==
    \A p \in Procs :
        (alive = {p} /\ at[Outer(p)] = "exists") ~> (Holds(p) \/ p \notin alive)

=============================================================================
