---------------------------- MODULE Transaction ----------------------------
(***************************************************************************)
(* The journaled multi-file transaction of pdd/sync_core/transaction.py.   *)
(* Processes (the sync command, `pdd recover`, baseline, finalize) prepare *)
(* a set of writes, commit it under file locks, and recover what a crash   *)
(* left behind.  The journal of a transaction is one JSON file, rewritten  *)
(* whole from the payload each process read when it started.               *)
(*                                                                         *)
(* A file state (existence, digest, mode, type) is one value of            *)
(* Contents, or Missing, or Special (a symlink, directory or device).      *)
(* Paths are canonical destinations; a path's number is the place of its   *)
(* lock in the sorted order in which _locks takes them.                    *)
(***************************************************************************)
EXTENDS Naturals, Sequences, FiniteSets

CONSTANTS
    Procs,              \* processes that share one checkout
    Txns,               \* transaction identifiers
    Locks,              \* lock files, by rank in the sorted order
    Paths,              \* destinations, each with a lock of the same number
    Contents,           \* states of a regular file
    Missing, Special,   \* no file; something that is not a regular file
    AnyState,           \* PlannedWrite.expected = None
    None,               \* no process, no transaction
    Writes,             \* the destinations of a transaction, in plan order
    Desired,            \* Desired[t][d]: what t writes to d
    Expected,           \* Expected[t][d]: PlannedWrite.expected
    Shared,             \* Shared[t]: its shared_resources locks
    InitDest,           \* the checkout before any transaction
    ConcurrentRecovery, \* may recover start while another process is on t
    MaxEdits, MaxCrashes, MaxFaults,  \* bounds on the environment
    MaxEvents                         \* bound on all three together

States == Contents \cup {Missing, Special}
Installable == Contents \cup {Missing}    \* what a precondition may be
Phases == {"ABSENT", "PREPARED", "COMMITTING", "COMMITTED", "ROLLED_BACK"}
Terminal == {"COMMITTED", "ROLLED_BACK"}
BlobKinds == {"prepared", "rollback"}

\* What the journal of a transaction cannot show: that a process went on with a
\* copy of it older than the file ("copy"), that an installation took effect and
\* then failed ("install"), that a blob was damaged ("blob"), that somebody else
\* wrote just what the transaction writes there ("edit").
Causes == {"copy", "install", "blob", "edit"}

ASSUME ConstantsAssumption ==
    /\ Locks \subseteq Nat /\ Paths \subseteq Locks
    /\ None \notin Procs \cup Txns
    /\ Missing \notin Contents /\ Special \notin Contents \cup {Missing}
    /\ AnyState \notin States
    /\ Writes \in [Txns -> Seq(Paths)]
    /\ Desired \in [Txns -> [Paths -> Contents]]
    /\ Expected \in [Txns -> [Paths -> States \cup {AnyState}]]
    /\ Shared \in [Txns -> SUBSET Locks]
    /\ InitDest \in [Paths -> States]
    /\ ConcurrentRecovery \in BOOLEAN
    /\ MaxEdits \in Nat /\ MaxCrashes \in Nat /\ MaxFaults \in Nat /\ MaxEvents \in Nat

\* A lock file exists once somebody has asked for it.
ASSUME LocksAssumption == IsFiniteSet(Locks)

\* _validate_plan: no destination twice in a plan.
ASSUME PlanAssumption ==
    \A t \in Txns : /\ Writes[t] # <<>>
                    /\ \A i, j \in DOMAIN Writes[t] :
                          Writes[t][i] = Writes[t][j] => i = j

VARIABLES
    dest,      \* the checkout: state of every destination
    journal,   \* journal.json of every transaction
    before,    \* the preconditions recorded in its entries
    bad,       \* its blobs whose bytes do not have the recorded digest
    holder,    \* who holds each lock file
    pc,        \* where each process is
    op,        \* "commit" or "recover": which method took the locks
    txn,       \* the transaction it works on
    view,      \* its copy of the journal payload
    k,         \* the entry its current loop has reached
    noop,      \* prepare: every destination read so far is as desired
    unseen,    \* history: destinations somebody else changed since the process,
               \* holding its locks, last read them
    author,    \* history: the transaction that installed the current state
    misled,    \* history: what happened to a transaction behind its journal
    edits, crashes, faults

disk == <<dest, journal, before, bad>>
local == <<pc, op, txn, view, k, noop>>
env == <<edits, crashes, faults>>
vars == <<disk, holder, local, unseen, author, misled, env>>

Preparing == {"scan", "entry", "blob"}
Critical == {"validate", "precheck", "install", "replace", "record",
             "verify", "restore", "undo"}
Places == {"idle", "prepared", "lock", "discard"} \cup Preparing \cup Critical

NoPayload == [phase |-> "ABSENT", installed |-> {}]
Payloads == [phase : Phases, installed : SUBSET Paths]

DiskOK ==
    /\ dest \in [Paths -> States]
    /\ journal \in [Txns -> Payloads]
    /\ before \in [Txns -> [Paths -> Installable]]
    /\ bad \in [Txns -> SUBSET (BlobKinds \X Paths)]

LocalOK ==
    /\ pc \in [Procs -> Places]
    /\ op \in [Procs -> {"none", "commit", "recover"}]
    /\ txn \in [Procs -> Txns \cup {None}]
    /\ view \in [Procs -> Payloads]
    /\ k \in [Procs -> Nat]
    /\ noop \in [Procs -> BOOLEAN]

TypeOK ==
    /\ DiskOK /\ LocalOK
    /\ holder \in [Locks -> Procs \cup {None}]
    /\ unseen \in [Procs -> SUBSET Paths]
    /\ misled \in SUBSET (Txns \X Causes)
    /\ author \in [Paths -> Txns \cup {None}]
    /\ edits \in Nat /\ crashes \in Nat /\ faults \in Nat

Init ==
    /\ dest = InitDest
    /\ journal = [t \in Txns |-> NoPayload]
    /\ before = [t \in Txns |-> [d \in Paths |-> Missing]]
    /\ bad = [t \in Txns |-> {}]
    /\ holder = [r \in Locks |-> None]
    /\ pc = [p \in Procs |-> "idle"]
    /\ op = [p \in Procs |-> "none"]
    /\ txn = [p \in Procs |-> None]
    /\ view = [p \in Procs |-> NoPayload]
    /\ k = [p \in Procs |-> 1]
    /\ noop = [p \in Procs |-> TRUE]
    /\ unseen = [p \in Procs |-> {}]
    /\ author = [d \in Paths |-> None]
    /\ misled = {}
    /\ edits = 0 /\ crashes = 0 /\ faults = 0

(***************************************************************************)
(* Steps of one process.                                                   *)
(***************************************************************************)
Entries(t) == DOMAIN Writes[t]
Last(t) == Len(Writes[t])
Entry(p) == Writes[txn[p]][k[p]]        \* the destination of the loop's entry
MoreMutant(p) == k[p] < Last(txn[p])
More(p) == k[p] <= Last(txn[p])         \* the loop has entries left
Destinations(t) == {Writes[t][i] : i \in Entries(t)}
Wants(t) == Destinations(t) \cup Shared[t]
Want(p) == Desired[txn[p]][Entry(p)]
Before(p) == before[txn[p]][Entry(p)]
Admits(t, d) == Expected[t][d] \in {AnyState, dest[d]}

\* _entry accepts a missing destination or a regular file.
Regular(d) == dest[d] # Special

\* The lock files p may take next: the least it lacks, if nobody holds it.
NextLockMutant(p, r) == holder[r] = None
NextLockMutant2(p, r) == \A s \in Wants(txn[p]) : s < r => holder[s] = p
NextLock(p, r) ==
    holder[r] = None /\ \A s \in Wants(txn[p]) : s < r => holder[s] = p

\* Phases that recover acts on.
RecoverableMutant(t) == journal[t].phase \in {"PREPARED", "COMMITTING", "ROLLED_BACK"}
RecoverableMutant2(t) == journal[t].phase = "PREPARED"
Recoverable(t) == journal[t].phase \in {"PREPARED", "COMMITTING"}

\* _install_entry may write: the precondition holds and the blob is sound.
ReadyMutant(p) == <<"prepared", Entry(p)>> \notin bad[txn[p]]
Ready(p) == dest[Entry(p)] = Before(p) /\ <<"prepared", Entry(p)>> \notin bad[txn[p]]

To(p, place, n) == /\ pc' = [pc EXCEPT ![p] = place]
                   /\ k' = [k EXCEPT ![p] = n]
                   /\ UNCHANGED <<op, txn, noop>>

\* The method returns or raises; leaving the ExitStack releases every lock.
Leave(p) ==
    /\ pc' = [pc EXCEPT ![p] = "idle"]
    /\ op' = [op EXCEPT ![p] = "none"]
    /\ txn' = [txn EXCEPT ![p] = None]
    /\ view' = [view EXCEPT ![p] = NoPayload]
    /\ k' = [k EXCEPT ![p] = 1]
    /\ noop' = [noop EXCEPT ![p] = TRUE]
    /\ holder' = [r \in Locks |-> IF holder[r] = p THEN None ELSE holder[r]]
    /\ unseen' = [unseen EXCEPT ![p] = {}]

\* p goes on with its copy of the journal, whatever the file says by now.
GoOn(p) == misled' = misled \cup
    (IF journal[txn[p]] = view[p] THEN {} ELSE {<<txn[p], "copy">>})

\* _write_journal replaces the whole file with the writer's payload.
WriteJournal(p, payload) ==
    journal' = [journal EXCEPT ![txn[p]] = payload] /\ GoOn(p)

\* p, under its locks, reads d.
Look(p, d) == unseen' = [unseen EXCEPT ![p] = @ \ {d}]

Working(t) == \E q \in Procs : txn[q] = t

(***************************************************************************)
(* prepare: no lock is held.                                               *)
(***************************************************************************)
Prepare(p, t) ==
    /\ pc[p] = "idle" /\ journal[t].phase = "ABSENT" /\ ~Working(t)
    /\ pc' = [pc EXCEPT ![p] = "scan"]
    /\ txn' = [txn EXCEPT ![p] = t]
    /\ before' = [before EXCEPT ![t] = [d \in Paths |-> Missing]]
    /\ bad' = [bad EXCEPT ![t] = {}]
    /\ UNCHANGED <<dest, journal, holder, op, view, k, noop, unseen, author, misled, env>>

\* current_states, one destination at a time, each against write.expected.
Scan(p) ==
    /\ pc[p] = "scan" /\ More(p)
    /\ \/ /\ Admits(txn[p], Entry(p))
          /\ k' = [k EXCEPT ![p] = @ + 1]
          /\ noop' = [noop EXCEPT ![p] = IF dest[Entry(p)] = Want(p) THEN @ ELSE FALSE]
          /\ UNCHANGED <<pc, op, txn, view, holder, unseen>>
       \/ ~Admits(txn[p], Entry(p)) /\ Leave(p)
    /\ UNCHANGED <<disk, author, misled, env>>

\* Everything already as desired: COMMITTED without a journal.
ScanDone(p) ==
    /\ pc[p] = "scan" /\ ~More(p)
    /\ \/ noop[p] /\ Leave(p)
       \/ ~noop[p] /\ To(p, "entry", 1) /\ UNCHANGED <<view, holder, unseen>>
    /\ UNCHANGED <<disk, author, misled, env>>

\* _entry, first read: the state that becomes the entry's precondition.
EntryRead(p) ==
    LET d == Entry(p) IN
    /\ pc[p] = "entry" /\ More(p)
    /\ \/ /\ Admits(txn[p], d) /\ Regular(d)
          /\ before' = [before EXCEPT ![txn[p]][d] = dest[d]]
          /\ IF dest[d] = Missing THEN To(p, "entry", k[p] + 1)
                                  ELSE To(p, "blob", k[p])
          /\ UNCHANGED <<view, holder, unseen>>
       \/ /\ ~Admits(txn[p], d) \/ ~Regular(d)
          /\ Leave(p) /\ UNCHANGED before
    /\ UNCHANGED <<dest, journal, bad, author, misled, env>>

\* _entry, second read: the bytes kept in the rollback blob.
EntryBlob(p) ==
    LET d == Entry(p) IN
    /\ pc[p] = "blob"
    /\ \/ /\ dest[d] \in Contents
          /\ bad' = [bad EXCEPT ![txn[p]] =
                       @ \cup (IF dest[d] = Before(p) THEN {} ELSE {<<"rollback", d>>})]
          /\ To(p, "entry", k[p] + 1) /\ UNCHANGED <<view, holder, unseen>>
       \/ dest[d] \notin Contents /\ Leave(p) /\ UNCHANGED bad
    /\ UNCHANGED <<dest, journal, before, author, misled, env>>

\* os.replace(temporary, transaction_dir) makes the journal visible.
Publish(p) ==
    /\ pc[p] = "entry" /\ ~More(p)
    /\ WriteJournal(p, [phase |-> "PREPARED", installed |-> {}])
    /\ To(p, "prepared", 1)
    /\ UNCHANGED <<dest, before, bad, view, holder, unseen, author, env>>

(***************************************************************************)
(* commit and recover share the locks, the installation and the rollback.  *)
(***************************************************************************)
\* commit reads the journal before it takes any lock.
CommitRead(p) ==
    /\ pc[p] = "prepared"
    /\ \/ /\ journal[txn[p]].phase = "PREPARED"
          /\ view' = [view EXCEPT ![p] = journal[txn[p]]]
          /\ pc' = [pc EXCEPT ![p] = "lock"]
          /\ op' = [op EXCEPT ![p] = "commit"]
          /\ UNCHANGED <<txn, k, noop, holder, unseen>>
       \/ journal[txn[p]].phase # "PREPARED" /\ Leave(p)
    /\ UNCHANGED <<disk, author, misled, env>>

\* recover reads it without a lock too; a terminal phase is a no-op.
RecoverRead(p, t) ==
    /\ pc[p] = "idle"
    /\ Recoverable(t)
    /\ ConcurrentRecovery \/ ~Working(t)
    /\ view' = [view EXCEPT ![p] = journal[t]]
    /\ txn' = [txn EXCEPT ![p] = t]
    /\ IF journal[t].phase = "PREPARED"
         THEN pc' = [pc EXCEPT ![p] = "discard"] /\ UNCHANGED op
         ELSE /\ pc' = [pc EXCEPT ![p] = "lock"]
              /\ op' = [op EXCEPT ![p] = "recover"]
    /\ UNCHANGED <<disk, holder, k, noop, unseen, author, misled, env>>

\* recover of a PREPARED transaction writes ROLLED_BACK with no lock held.
Discard(p) ==
    /\ pc[p] = "discard"
    /\ WriteJournal(p, [view[p] EXCEPT !.phase = "ROLLED_BACK"])
    /\ Leave(p)
    /\ UNCHANGED <<dest, before, bad, author, env>>

\* _locks: one blocking FileLock at a time, in sorted order.
AcquireLock(p) ==
    /\ pc[p] = "lock"
    /\ \E r \in Wants(txn[p]) :
          /\ NextLock(p, r)
          /\ holder' = [holder EXCEPT ![r] = p]
    /\ UNCHANGED <<disk, local, unseen, author, misled, env>>

LocksHeld(p) ==
    /\ pc[p] = "lock"
    /\ \A r \in Wants(txn[p]) : holder[r] = p
    /\ To(p, "validate", 1) /\ GoOn(p)
    /\ UNCHANGED <<disk, view, holder, unseen, author, env>>

\* _validate_prepared_entries: outside the try in commit, inside in recover.
Validate(p) ==
    /\ pc[p] = "validate"
    /\ \/ /\ bad[txn[p]] = {}
          /\ To(p, IF op[p] = "commit" THEN "precheck" ELSE "install", 1)
          /\ UNCHANGED <<view, holder, unseen>>
       \/ bad[txn[p]] # {} /\ op[p] = "commit" /\ Leave(p)
       \/ /\ bad[txn[p]] # {} /\ op[p] = "recover"
          /\ To(p, "restore", Last(txn[p])) /\ UNCHANGED <<view, holder, unseen>>
    /\ UNCHANGED <<disk, author, misled, env>>

\* commit only: every destination must still be what prepare recorded.
Precheck(p) ==
    /\ pc[p] = "precheck" /\ More(p)
    /\ \/ /\ dest[Entry(p)] = Before(p)
          /\ To(p, "precheck", k[p] + 1)
          /\ Look(p, Entry(p)) /\ UNCHANGED <<view, holder>>
       \/ dest[Entry(p)] # Before(p) /\ Leave(p)
    /\ UNCHANGED <<disk, author, misled, env>>

MarkCommitting(p) ==
    LET payload == [view[p] EXCEPT !.phase = "COMMITTING"] IN
    /\ pc[p] = "precheck" /\ ~More(p)
    /\ view' = [view EXCEPT ![p] = payload]
    /\ WriteJournal(p, payload)
    /\ To(p, "install", 1)
    /\ UNCHANGED <<dest, before, bad, holder, unseen, author, env>>

\* _install_entry up to its write.
InstallCheck(p) ==
    LET installed == dest[Entry(p)] = Want(p) IN
    /\ pc[p] = "install" /\ More(p)
    /\ \/ installed /\ To(p, "record", k[p])
       \/ ~installed /\ Ready(p) /\ To(p, "replace", k[p])
       \/ ~installed /\ ~Ready(p) /\ To(p, "restore", Last(txn[p]))
    /\ Look(p, Entry(p))
    /\ UNCHANGED <<disk, view, holder, author, misled, env>>

\* _replace_destination: the os.replace of a fully written temporary.
Replace(p) ==
    /\ pc[p] = "replace"
    /\ dest' = [dest EXCEPT ![Entry(p)] = Want(p)]
    /\ author' = [author EXCEPT ![Entry(p)] = txn[p]]
    /\ To(p, "record", k[p])
    /\ UNCHANGED <<journal, before, bad, view, holder, unseen, misled, env>>

\* An OSError there becomes a TransactionConflict; it may come before the
\* os.replace or, from the fsync of the directory, after it.
ReplaceFails(p) ==
    /\ pc[p] = "replace" /\ faults < MaxFaults
    /\ faults' = faults + 1
    /\ \/ /\ dest' = [dest EXCEPT ![Entry(p)] = Want(p)]
          /\ author' = [author EXCEPT ![Entry(p)] = txn[p]]
          /\ misled' = misled \cup {<<txn[p], "install">>}
       \/ UNCHANGED <<dest, author, misled>>
    /\ To(p, "restore", Last(txn[p]))
    /\ UNCHANGED <<journal, before, bad, view, holder, unseen, edits, crashes>>

\* item["installed"] = True, then the journal.
FlaggedMutant(p) == view[p]
Flagged(p) == [view[p] EXCEPT !.installed = @ \cup {Entry(p)}]
Record(p) ==
    LET payload == Flagged(p) IN
    /\ pc[p] = "record"
    /\ view' = [view EXCEPT ![p] = payload]
    /\ WriteJournal(p, payload)
    /\ To(p, "install", k[p] + 1)
    /\ UNCHANGED <<dest, before, bad, holder, unseen, author, env>>

InstallDone(p) ==
    /\ pc[p] = "install" /\ ~More(p)
    /\ To(p, "verify", 1)
    /\ UNCHANGED <<disk, view, holder, unseen, author, misled, env>>

\* The re-read of every destination before the commit is declared.
Verify(p) ==
    /\ pc[p] = "verify" /\ More(p)
    /\ IF dest[Entry(p)] = Want(p) THEN To(p, "verify", k[p] + 1)
                                   ELSE To(p, "restore", Last(txn[p]))
    /\ Look(p, Entry(p))
    /\ UNCHANGED <<disk, view, holder, author, misled, env>>

Finish(p) ==
    /\ pc[p] = "verify" /\ ~More(p)
    /\ WriteJournal(p, [view[p] EXCEPT !.phase = "COMMITTED"])
    /\ Leave(p)
    /\ UNCHANGED <<dest, before, bad, author, env>>

(***************************************************************************)
(* _restore_entries: the installed entries, last first.                    *)
(***************************************************************************)
Unrestored(p) == {i \in 1..k[p] : i \in Entries(txn[p])
                                  /\ Writes[txn[p]][i] \in view[p].installed}

RestoreCheck(p) ==
    /\ pc[p] = "restore"
    /\ \E i \in Unrestored(p) :
          LET d == Writes[txn[p]][i]
              rollback == /\ <<"rollback", d>> \in bad[txn[p]]
                          /\ before[txn[p]][d] # Missing
          IN
          /\ \A j \in Unrestored(p) : j <= i
          /\ \/ \* "rollback conflict": the journal stays COMMITTING
                /\ dest[d] # Desired[txn[p]][d]
                /\ WriteJournal(p, view[p]) /\ Leave(p)
             \/ \* any other error leaves without writing the journal
                /\ dest[d] = Desired[txn[p]][d] /\ rollback
                /\ Leave(p) /\ UNCHANGED <<journal, misled>>
             \/ /\ dest[d] = Desired[txn[p]][d] /\ ~rollback
                /\ To(p, "undo", i) /\ Look(p, d)
                /\ UNCHANGED <<journal, view, holder, misled>>
    /\ UNCHANGED <<dest, before, bad, author, env>>

Undo(p) ==
    /\ pc[p] = "undo"
    /\ dest' = [dest EXCEPT ![Entry(p)] = Before(p)]
    /\ author' = [author EXCEPT ![Entry(p)] = None]
    /\ To(p, "restore", k[p] - 1)
    /\ UNCHANGED <<journal, before, bad, view, holder, unseen, misled, env>>

\* The same OSError while restoring: a conflict, so the journal is rewritten.
UndoFails(p) ==
    /\ pc[p] = "undo" /\ faults < MaxFaults
    /\ faults' = faults + 1
    /\ \/ /\ dest' = [dest EXCEPT ![Entry(p)] = Before(p)]
          /\ author' = [author EXCEPT ![Entry(p)] = None]
       \/ UNCHANGED <<dest, author>>
    /\ WriteJournal(p, view[p]) /\ Leave(p)
    /\ UNCHANGED <<before, bad, edits, crashes>>

RollBack(p) ==
    /\ pc[p] = "restore" /\ Unrestored(p) = {}
    /\ WriteJournal(p, [view[p] EXCEPT !.phase = "ROLLED_BACK"])
    /\ Leave(p)
    /\ UNCHANGED <<dest, before, bad, author, env>>

(***************************************************************************)
(* What the code runs against: editors and other tools that take no lock,  *)
(* storage that damages a blob, and processes that die at any point.       *)
(***************************************************************************)
Edit(d, s) ==
    /\ edits < MaxEdits /\ dest[d] # s
    /\ dest' = [dest EXCEPT ![d] = s]
    /\ unseen' = [p \in Procs |-> IF pc[p] \in Critical THEN unseen[p] \cup {d} ELSE {}]
    /\ misled' = misled \cup
         {<<t, "edit">> : t \in {u \in Txns : d \in Destinations(u) /\ Desired[u][d] = s}}
    /\ author' = [author EXCEPT ![d] = None]
    /\ edits' = edits + 1
    /\ UNCHANGED <<journal, before, bad, holder, local, crashes, faults>>

Corrupt(t, d, kind) ==
    /\ faults < MaxFaults
    /\ journal[t].phase \in {"PREPARED", "COMMITTING"}
    /\ d \in Destinations(t)
    /\ kind = "rollback" => before[t][d] # Missing
    /\ bad' = [bad EXCEPT ![t] = @ \cup {<<kind, d>>}]
    /\ misled' = misled \cup {<<t, "blob">>}
    /\ faults' = faults + 1
    /\ UNCHANGED <<dest, journal, before, holder, local, unseen, author, edits, crashes>>

\* The kernel drops the flocks of a dead process.
Crash(p) ==
    /\ pc[p] # "idle" /\ crashes < MaxCrashes
    /\ crashes' = crashes + 1
    /\ Leave(p)
    /\ UNCHANGED <<disk, author, misled, edits, faults>>

Step(p) ==
    \/ Scan(p) \/ ScanDone(p) \/ EntryRead(p) \/ EntryBlob(p) \/ Publish(p)
    \/ CommitRead(p) \/ Discard(p) \/ AcquireLock(p) \/ LocksHeld(p)
    \/ Validate(p) \/ Precheck(p) \/ MarkCommitting(p) \/ InstallCheck(p)
    \/ Replace(p) \/ Record(p) \/ InstallDone(p) \/ Verify(p) \/ Finish(p)
    \/ RestoreCheck(p) \/ Undo(p) \/ RollBack(p)

Call(p) == \E t \in Txns : Prepare(p, t) \/ RecoverRead(p, t)

Environment ==
    \/ \E d \in Paths, s \in States : Edit(d, s)
    \/ \E t \in Txns, d \in Paths, kind \in BlobKinds : Corrupt(t, d, kind)
    \/ \E p \in Procs : Crash(p) \/ ReplaceFails(p) \/ UndoFails(p)

Next ==
    \/ \E p \in Procs : Call(p) \/ Step(p)
    \/ edits + crashes + faults < MaxEvents /\ Environment

Spec == Init /\ [][Next]_vars

\* Every process keeps running (threads of a live command are scheduled); the
\* calls, the edits and the crashes are free not to happen.
FairSpec == Spec /\ \A p \in Procs : WF_vars(Step(p))

\* The operator, or the next sync of the module, runs recover again while the
\* journal is incomplete (recover_incomplete_metadata_transactions), and is not
\* so quick about it that a process blocked in flock never gets the lock.
RecoveredSpec ==
    /\ FairSpec
    /\ \A t \in Txns : SF_vars(\E p \in Procs : RecoverRead(p, t))
    /\ \A p \in Procs : SF_vars(AcquireLock(p))

(***************************************************************************)
(* Properties.                                                             *)
(***************************************************************************)
InPhase(t, phases) == journal[t].phase \in phases

\* Without all locks of its transaction no process changes a destination or makes
\* a journal COMMITTING or COMMITTED; all it writes is a PREPARED journal at the
\* end of prepare, and ROLLED_BACK when recover discards one it read PREPARED.
LocksCoverWrites ==
    [][\A p \in Procs : pc'[p] # pc[p] =>
          \/ /\ dest' = dest
             /\ \A t \in Txns : journal'[t] = journal[t] \/ InPhase(t, {"PREPARED", "ROLLED_BACK"})'
          \/ \A r \in Wants(txn[p]) : holder[r] = p]_vars

\* When the journal becomes COMMITTED, every destination has its new state,
\* whatever crashed, failed or raced before, unless somebody else changed it
\* after the committing process had read it for the last time.
CommitComplete ==
    [][\A t \in Txns : InPhase(t, {"COMMITTED"})' /\ ~InPhase(t, {"COMMITTED"})
          => \E p \in Procs : /\ txn[p] = t
                              /\ \A d \in Destinations(t) :
                                    dest[d] = Desired[t][d] \/ d \in unseen[p]]_vars

\* A transaction not reported as incomplete, and not committed, has left nothing
\* of its own in the checkout: no half-installed set is ever silent, unless
\* something happened to it that its journal does not show (Causes).
RolledBackClean ==
    \A t \in Txns : InPhase(t, {"ABSENT", "PREPARED", "ROLLED_BACK"})
        => (\A d \in Paths : author[d] # t) \/ (\E c \in Causes : <<t, c>> \in misled)

\* COMMITTED and ROLLED_BACK are final, except to a process that read the journal
\* before: only a commit or recover that goes on with a copy from before the
\* outcome, as neither reads the file again under its locks, takes it back.
TerminalIsFinal ==
    [][\A t \in Txns : InPhase(t, Terminal) /\ journal'[t] # journal[t]
          => <<t, "copy">> \in misled']_vars

\* A step of a transaction changes a destination only to its recorded
\* precondition or its new state, and what it overwrites is one of these too;
\* anything else came after the process had last read the destination.
OverwritesOnlyRecorded ==
    [][\A d \in Paths : dest'[d] # dest[d] /\ edits' = edits =>
          \E p \in Procs : LET recorded == {before[txn[p]][d], Desired[txn[p]][d]} IN
              /\ pc[p] \in Critical /\ d \in Destinations(txn[p])
              /\ dest'[d] \in recorded
              /\ dest[d] \in recorded \/ d \in unseen[p]]_vars

\* p is in _locks and still lacks a lock file that q holds.
Blocked(p, q) ==
    /\ pc[p] = "lock" /\ q # p
    /\ \E r \in Wants(txn[p]) : holder[r] = q

\* The wait-for graph has no circle: no set of processes each of which lacks a
\* lock file of another, in whatever order their transactions name the files.
NoDeadlock ==
    \A S \in (SUBSET Procs) \ {{}} : \E p \in S : \A q \in S : ~Blocked(p, q)

\* Somebody else changed a destination of t, so recover reports a conflict.
Conflicting(t) ==
    \E d \in Destinations(t) : dest[d] \notin {before[t][d], Desired[t][d]}

\* What a crash leaves COMMITTING, even a crash of its recoverer, reaches an
\* outcome if recover is run again, unless its destinations were changed since.
RecoveryDecides ==
    \A t \in Txns : InPhase(t, {"COMMITTING"}) ~> InPhase(t, Terminal) \/ Conflicting(t)

=============================================================================
