------------------------- MODULE TransactionProofs -------------------------
(***************************************************************************)
(* Proofs about Transaction for any number of processes, transactions,     *)
(* destinations and locks, any plans, and any number of edits, crashes,    *)
(* faults and racing recoveries.                                           *)
(***************************************************************************)
EXTENDS Transaction, FiniteSetTheorems, WellFoundedInduction, TLAPS

\* A process that is not idle works on a transaction, and the loop index stays
\* inside the plan wherever the entry it names is used.
IndexOK ==
    \A p \in Procs :
        /\ pc[p] # "idle" => txn[p] \in Txns
        /\ pc[p] \in {"blob", "replace", "record", "undo"}
              => k[p] \in 1..Len(Writes[txn[p]])
        /\ pc[p] # "restore" => k[p] >= 1

\* TypeOK without the history variables, which no step reads.
StateOK ==
    /\ DiskOK /\ LocalOK
    /\ holder \in [Locks -> Procs \cup {None}]
    /\ author \in [Paths -> Txns \cup {None}]
    /\ edits \in Nat /\ crashes \in Nat /\ faults \in Nat

TypeInv == StateOK /\ IndexOK

LEMMA PlanFacts ==
    ASSUME NEW t \in Txns
    PROVE  /\ Len(Writes[t]) \in Nat
           /\ Entries(t) = 1..Len(Writes[t])
           /\ \A i \in 1..Len(Writes[t]) :
                 /\ Writes[t][i] \in Paths
                 /\ Writes[t][i] \in Destinations(t)
           /\ Destinations(t) \subseteq Wants(t)
           /\ Wants(t) \subseteq Locks
  <1>1. Writes[t] \in Seq(Paths)
    BY ConstantsAssumption
  <1>2. Shared[t] \subseteq Locks /\ Paths \subseteq Locks
    BY ConstantsAssumption
  <1>3. Entries(t) = 1..Len(Writes[t]) /\ Len(Writes[t]) \in Nat
    BY <1>1 DEF Entries
  <1>4. \A i \in 1..Len(Writes[t]) : Writes[t][i] \in Paths
    BY <1>1
  <1>5. \A i \in 1..Len(Writes[t]) : Writes[t][i] \in Destinations(t)
    BY <1>3 DEF Destinations
  <1>6. Destinations(t) \subseteq Wants(t) /\ Wants(t) \subseteq Locks
    BY <1>2, <1>3, <1>4 DEF Destinations, Wants
  <1> QED BY <1>3, <1>4, <1>5, <1>6

LEMMA InitType == Init => TypeInv
  <1> SUFFICES ASSUME Init PROVE TypeInv
    OBVIOUS
  <1>1. NoPayload \in Payloads
    BY DEF NoPayload, Payloads, Phases
  <1>2. DiskOK
    BY <1>1, ConstantsAssumption DEF Init, DiskOK, Installable, BlobKinds
  <1>3. LocalOK
    BY <1>1 DEF Init, LocalOK, Places
  <1>4. IndexOK
    BY DEF Init, IndexOK
  <1> QED BY <1>2, <1>3, <1>4, ConstantsAssumption DEF Init, TypeInv, StateOK

(***************************************************************************)
(* What the shared parts of the steps do to the local state.               *)
(***************************************************************************)
LEMMA ToType ==
    ASSUME TypeInv, NEW p \in Procs, NEW place \in Places, NEW n \in Nat,
           To(p, place, n), view' \in [Procs -> Payloads],
           pc[p] # "idle", place # "restore" => n >= 1,
           place \in {"blob", "replace", "record", "undo"} => n \in 1..Len(Writes[txn[p]])
    PROVE  LocalOK' /\ IndexOK'
  <1>1. LocalOK'
    BY DEF TypeInv, StateOK, LocalOK, To
  <1>2. IndexOK'
    BY DEF TypeInv, StateOK, LocalOK, IndexOK, To
  <1> QED BY <1>1, <1>2

LEMMA LeaveType ==
    ASSUME TypeInv, NEW p \in Procs, Leave(p)
    PROVE  LocalOK' /\ IndexOK' /\ holder' \in [Locks -> Procs \cup {None}]
  <1>1. NoPayload \in Payloads
    BY DEF NoPayload, Payloads, Phases
  <1>2. LocalOK'
    BY <1>1 DEF TypeInv, StateOK, LocalOK, Leave, Places
  <1>3. IndexOK'
    BY DEF TypeInv, StateOK, LocalOK, IndexOK, Leave
  <1>4. holder' \in [Locks -> Procs \cup {None}]
    BY DEF TypeInv, StateOK, Leave
  <1> QED BY <1>2, <1>3, <1>4

(***************************************************************************)
(* Each step keeps the types.                                              *)
(***************************************************************************)
LEMMA EntryType ==
    ASSUME TypeInv, NEW p \in Procs, txn[p] \in Txns, k[p] \in 1..Len(Writes[txn[p]])
    PROVE  /\ Entry(p) \in Destinations(txn[p]) /\ Entry(p) \in Paths
           /\ Entry(p) \in Wants(txn[p]) /\ Entry(p) \in Locks
           /\ Want(p) \in Contents /\ Before(p) \in Installable
  <1>1. Entry(p) \in Paths /\ Entry(p) \in Destinations(txn[p]) /\ Entry(p) \in Wants(txn[p])
    BY PlanFacts DEF Entry
  <1>2. Want(p) \in Contents
    BY <1>1, ConstantsAssumption DEF Want
  <1>3. Before(p) \in Installable
    BY <1>1 DEF Before, TypeInv, StateOK, DiskOK
  <1> QED BY <1>1, <1>2, <1>3, ConstantsAssumption

LEMMA JournalType ==
    ASSUME TypeInv, NEW p \in Procs, txn[p] \in Txns, NEW payload \in Payloads,
           WriteJournal(p, payload), UNCHANGED <<dest, before, bad>>
    PROVE  DiskOK'
    BY DEF TypeInv, StateOK, DiskOK, WriteJournal

LEMMA PayloadType ==
    ASSUME NEW v \in Payloads
    PROVE  /\ \A f \in Phases : [v EXCEPT !.phase = f] \in Payloads
           /\ \A d \in Paths : [v EXCEPT !.installed = @ \cup {d}] \in Payloads
    BY DEF Payloads

LEMMA SameDisk == TypeInv /\ UNCHANGED disk => DiskOK'
    BY DEF TypeInv, StateOK, DiskOK, disk

LEMMA Gather ==
    ASSUME TypeInv, LocalOK', IndexOK', DiskOK',
           holder' \in [Locks -> Procs \cup {None}],
           author' \in [Paths -> Txns \cup {None}],
           edits' = edits, crashes' \in Nat, faults' \in Nat
    PROVE  TypeInv'
    BY DEF TypeInv, StateOK

\* A step that moves the program counter and changes only files or the journal.
LEMMA MoveType ==
    ASSUME TypeInv, NEW p \in Procs, NEW place \in Places, NEW n \in Nat,
           To(p, place, n), pc[p] # "idle", place # "restore" => n >= 1,
           place \in {"blob", "replace", "record", "undo"} => n \in 1..Len(Writes[txn[p]]),
           view' \in [Procs -> Payloads], DiskOK', author' \in [Paths -> Txns \cup {None}],
           UNCHANGED <<holder, edits, crashes>>, faults' \in Nat
    PROVE  TypeInv'
  <1>1. LocalOK' /\ IndexOK'
    BY ToType
  <1>2. holder' \in [Locks -> Procs \cup {None}] /\ crashes' \in Nat
    BY DEF TypeInv, StateOK
  <1> QED BY <1>1, <1>2, Gather

LEMMA QuietType ==
    ASSUME TypeInv, NEW p \in Procs, NEW place \in Places, NEW n \in Nat,
           To(p, place, n), pc[p] # "idle", place # "restore" => n >= 1,
           place \in {"blob", "replace", "record", "undo"} => n \in 1..Len(Writes[txn[p]]),
           UNCHANGED <<disk, view, holder, author, env>>
    PROVE  TypeInv'
  <1>1. DiskOK'
    BY SameDisk
  <1>2. /\ view' \in [Procs -> Payloads] /\ author' \in [Paths -> Txns \cup {None}]
        /\ faults' \in Nat /\ UNCHANGED <<holder, edits, crashes>>
    BY DEF TypeInv, StateOK, LocalOK, env
  <1> QED BY <1>1, <1>2, MoveType

\* A step in which the call ends.
LEMMA EndType ==
    ASSUME TypeInv, NEW p \in Procs, Leave(p), DiskOK',
           author' \in [Paths -> Txns \cup {None}],
           edits' = edits, crashes' \in Nat, faults' \in Nat
    PROVE  TypeInv'
    BY LeaveType, Gather

LEMMA QuietEndType ==
    ASSUME TypeInv, NEW p \in Procs, Leave(p), UNCHANGED <<disk, author, env>>
    PROVE  TypeInv'
  <1>1. DiskOK'
    BY SameDisk
  <1>2. /\ author' \in [Paths -> Txns \cup {None}] /\ edits' = edits
        /\ crashes' \in Nat /\ faults' \in Nat
    BY DEF TypeInv, StateOK, env
  <1> QED BY <1>1, <1>2, EndType

\* Leaving after a last write of the journal.
LEMMA JournalEndType ==
    ASSUME TypeInv, NEW p \in Procs, pc[p] # "idle", NEW payload \in Payloads,
           WriteJournal(p, payload), Leave(p), UNCHANGED <<dest, before, bad, author, env>>
    PROVE  TypeInv'
  <1>1. txn[p] \in Txns
    BY DEF TypeInv, IndexOK
  <1>2. DiskOK'
    BY <1>1, JournalType
  <1>3. /\ author' \in [Paths -> Txns \cup {None}] /\ edits' = edits
        /\ crashes' \in Nat /\ faults' \in Nat
    BY DEF TypeInv, StateOK, env
  <1> QED BY <1>2, <1>3, EndType

\* Writing the journal and going on.
LEMMA JournalMoveType ==
    ASSUME TypeInv, NEW p \in Procs, pc[p] # "idle", NEW payload \in Payloads,
           NEW place \in Places \ {"restore", "blob", "replace", "record", "undo"},
           NEW n \in Nat, n >= 1, To(p, place, n), WriteJournal(p, payload),
           view' = view \/ view' = [view EXCEPT ![p] = payload],
           UNCHANGED <<dest, before, bad, holder, author, env>>
    PROVE  TypeInv'
  <1>1. txn[p] \in Txns
    BY DEF TypeInv, IndexOK
  <1>2. DiskOK'
    BY <1>1, JournalType
  <1>3. view' \in [Procs -> Payloads]
    BY DEF TypeInv, StateOK, LocalOK
  <1>4. /\ author' \in [Paths -> Txns \cup {None}] /\ faults' \in Nat
        /\ UNCHANGED <<holder, edits, crashes>>
    BY DEF TypeInv, StateOK, env
  <1> QED BY <1>2, <1>3, <1>4, MoveType

\* Changing one destination.
LEMMA DestType ==
    ASSUME TypeInv, NEW d \in Paths, NEW s \in States, NEW a \in Txns \cup {None},
           dest' = [dest EXCEPT ![d] = s], author' = [author EXCEPT ![d] = a],
           UNCHANGED <<before, bad>>, journal' \in [Txns -> Payloads]
    PROVE  DiskOK' /\ author' \in [Paths -> Txns \cup {None}]
    BY DEF TypeInv, StateOK, DiskOK

LEMMA StepType ==
    ASSUME TypeInv, NEW p \in Procs, Step(p) \/ Crash(p) \/ ReplaceFails(p) \/ UndoFails(p)
    PROVE  TypeInv'
  <1>1. pc[p] # "idle" => txn[p] \in Txns
    BY DEF TypeInv, IndexOK
  <1>2. k[p] \in Nat /\ view[p] \in Payloads /\ (pc[p] # "restore" => k[p] >= 1)
    BY DEF TypeInv, StateOK, LocalOK, IndexOK
  <1>3. pc[p] \in {"blob", "replace", "record", "undo"} => k[p] \in 1..Len(Writes[txn[p]])
    BY DEF TypeInv, IndexOK
  <1>4. pc[p] # "idle" /\ More(p) /\ k[p] >= 1 => k[p] \in 1..Len(Writes[txn[p]])
    BY <1>1, <1>2, PlanFacts DEF More, Last
  <1>5. pc[p] # "idle" => Last(txn[p]) \in Nat
    BY <1>1, PlanFacts DEF Last
  <1> USE DEF Places, Critical, Preparing
  <1>6. CASE Scan(p)
    <2>1. CASE Leave(p)
      BY <1>6, <2>1, QuietEndType DEF Scan
    <2>2. CASE UNCHANGED <<pc, op, txn, view, holder, unseen>>
      <3>1. pc[p] = "scan" /\ k' = [k EXCEPT ![p] = @ + 1] /\ noop' \in [Procs -> BOOLEAN]
        BY <1>6, <2>2 DEF Scan, Leave, TypeInv, StateOK, LocalOK
      <3>2. LocalOK'
        BY <2>2, <3>1 DEF TypeInv, StateOK, LocalOK
      <3>3. IndexOK'
        BY <2>2, <3>1 DEF TypeInv, StateOK, LocalOK, IndexOK
      <3>4. DiskOK'
        BY <1>6, SameDisk DEF Scan
      <3> QED BY <1>6, <2>2, <3>2, <3>3, <3>4, Gather DEF Scan, env, TypeInv, StateOK
    <2> QED BY <1>6, <2>1, <2>2 DEF Scan
  <1>7. CASE ScanDone(p)
    BY <1>7, QuietEndType, QuietType DEF ScanDone
  <1>8. CASE EntryRead(p)
    <2>1. pc[p] = "entry" /\ k[p] \in 1..Len(Writes[txn[p]]) /\ txn[p] \in Txns /\ k[p] \in Nat
      BY <1>8, <1>1, <1>2, <1>4 DEF EntryRead
    <2>2. CASE ~(Admits(txn[p], Entry(p)) /\ Regular(Entry(p)))
      BY <1>8, <2>2, <2>1, QuietEndType DEF EntryRead, disk
    <2>3. CASE Admits(txn[p], Entry(p)) /\ Regular(Entry(p))
      <3>1. /\ Entry(p) \in Paths /\ dest[Entry(p)] # Special /\ dest[Entry(p)] \in States
            /\ before' = [before EXCEPT ![txn[p]][Entry(p)] = dest[Entry(p)]]
            /\ UNCHANGED <<dest, journal, bad, view, holder, author, env>>
            /\ To(p, "entry", k[p] + 1) \/ To(p, "blob", k[p])
        BY <1>8, <2>1, <2>3, EntryType DEF EntryRead, Regular, TypeInv, StateOK, DiskOK
      <3>2. DiskOK'
        BY <2>1, <3>1 DEF TypeInv, StateOK, DiskOK, States, Installable
      <3>3. /\ view' \in [Procs -> Payloads] /\ author' \in [Paths -> Txns \cup {None}]
            /\ faults' \in Nat /\ UNCHANGED <<holder, edits, crashes>>
        BY <3>1 DEF TypeInv, StateOK, LocalOK, env
      <3>4. CASE To(p, "entry", k[p] + 1)
        BY <2>1, <3>2, <3>3, <3>4, MoveType
      <3>5. CASE To(p, "blob", k[p])
        BY <1>2, <2>1, <3>2, <3>3, <3>5, MoveType
      <3> QED BY <3>1, <3>4, <3>5
    <2> QED BY <2>2, <2>3
  <1>9. CASE EntryBlob(p)
    <2>1. pc[p] = "blob" /\ txn[p] \in Txns /\ Entry(p) \in Paths
      BY <1>9, <1>1, <1>3, EntryType DEF EntryBlob
    <2>2. CASE Leave(p)
      <3>1. UNCHANGED <<dest, journal, before, author, env>> /\ bad' \in [Txns -> SUBSET (BlobKinds \X Paths)]
        BY <1>9, <2>1 DEF EntryBlob, TypeInv, StateOK, DiskOK, BlobKinds
      <3>2. DiskOK'
        BY <3>1 DEF TypeInv, StateOK, DiskOK
      <3> QED BY <2>2, <3>1, <3>2, EndType DEF TypeInv, StateOK, env
    <2>3. CASE ~Leave(p)
      <3>1. /\ UNCHANGED <<dest, journal, before, view, holder, author, env>>
            /\ bad' \in [Txns -> SUBSET (BlobKinds \X Paths)]
            /\ To(p, "entry", k[p] + 1)
        BY <1>9, <2>1, <2>3 DEF EntryBlob, TypeInv, StateOK, DiskOK, BlobKinds
      <3>2. DiskOK'
        BY <3>1 DEF TypeInv, StateOK, DiskOK
      <3>3. /\ view' \in [Procs -> Payloads] /\ author' \in [Paths -> Txns \cup {None}]
            /\ faults' \in Nat /\ UNCHANGED <<holder, edits, crashes>>
        BY <3>1 DEF TypeInv, StateOK, LocalOK, env
      <3> QED BY <1>2, <2>1, <3>1, <3>2, <3>3, MoveType
    <2> QED BY <2>2, <2>3
  <1>10. CASE Publish(p)
    <2>1. [phase |-> "PREPARED", installed |-> {}] \in Payloads
      BY DEF Payloads, Phases
    <2> QED BY <1>10, <2>1, JournalMoveType DEF Publish
  <1>11. CASE CommitRead(p)
    <2>1. CASE Leave(p)
      BY <1>11, <2>1, QuietEndType DEF CommitRead
    <2>2. CASE ~Leave(p)
      <3>1. /\ pc[p] = "prepared" /\ txn[p] \in Txns
            /\ view' = [view EXCEPT ![p] = journal[txn[p]]]
            /\ pc' = [pc EXCEPT ![p] = "lock"] /\ op' = [op EXCEPT ![p] = "commit"]
            /\ UNCHANGED <<txn, k, noop, holder>>
        BY <1>1, <1>11, <2>2 DEF CommitRead
      <3>2. LocalOK'
        BY <3>1 DEF TypeInv, StateOK, LocalOK, DiskOK
      <3>3. IndexOK'
        BY <3>1 DEF TypeInv, StateOK, LocalOK, IndexOK
      <3>4. DiskOK'
        BY <1>11, SameDisk DEF CommitRead
      <3> QED BY <1>11, <3>1, <3>2, <3>3, <3>4, Gather DEF CommitRead, env, TypeInv, StateOK
    <2> QED BY <2>1, <2>2
  <1>12. CASE Discard(p)
    BY <1>2, <1>12, PayloadType, JournalEndType DEF Discard, Phases
  <1>13. CASE AcquireLock(p)
    <2>1. LocalOK' /\ IndexOK' /\ DiskOK'
      BY <1>13, SameDisk DEF AcquireLock, local, TypeInv, StateOK, LocalOK, IndexOK
    <2>2. holder' \in [Locks -> Procs \cup {None}]
      BY <1>13 DEF AcquireLock, TypeInv, StateOK
    <2> QED BY <1>13, <2>1, <2>2, Gather DEF AcquireLock, env, TypeInv, StateOK
  <1>14. CASE LocksHeld(p)
    BY <1>14, QuietType DEF LocksHeld
  <1>15. CASE Validate(p)
    BY <1>5, <1>15, QuietType, QuietEndType DEF Validate
  <1>16. CASE Precheck(p)
    BY <1>2, <1>16, QuietType, QuietEndType DEF Precheck
  <1>17. CASE MarkCommitting(p)
    <2> DEFINE payload == [view[p] EXCEPT !.phase = "COMMITTING"]
    <2>1. payload \in Payloads
      BY <1>2, PayloadType DEF Phases
    <2>2. /\ pc[p] = "precheck" /\ To(p, "install", 1) /\ WriteJournal(p, payload)
          /\ view' = [view EXCEPT ![p] = payload]
          /\ UNCHANGED <<dest, before, bad, holder, author, env>>
      BY <1>17 DEF MarkCommitting
    <2>3. /\ "install" \in Places \ {"restore", "blob", "replace", "record", "undo"}
          /\ 1 \in Nat /\ 1 >= 1 /\ pc[p] # "idle"
      BY <2>2
    <2> HIDE DEF payload
    <2> QED BY <2>1, <2>2, <2>3, JournalMoveType
  <1>18. CASE InstallCheck(p)
    BY <1>2, <1>4, <1>5, <1>18, QuietType DEF InstallCheck
  <1>19. CASE Replace(p)
    <2>1. pc[p] = "replace" /\ txn[p] \in Txns /\ Entry(p) \in Paths /\ Want(p) \in Contents
      BY <1>1, <1>3, <1>19, EntryType DEF Replace
    <2>2. DiskOK' /\ author' \in [Paths -> Txns \cup {None}]
      BY <1>19, <2>1, DestType DEF Replace, States, TypeInv, StateOK, DiskOK
    <2> QED BY <1>2, <1>3, <1>19, <2>1, <2>2, MoveType DEF Replace, env, TypeInv, StateOK, LocalOK
  <1>20. CASE Record(p)
    <2>1. pc[p] = "record" /\ Entry(p) \in Paths
      BY <1>1, <1>3, <1>20, EntryType DEF Record
    <2> DEFINE payload == Flagged(p)
    <2>2. payload \in Payloads
      BY <1>2, <2>1, PayloadType DEF Flagged
    <2>3. /\ To(p, "install", k[p] + 1) /\ WriteJournal(p, payload)
          /\ view' = [view EXCEPT ![p] = payload]
          /\ UNCHANGED <<dest, before, bad, holder, author, env>>
      BY <1>20 DEF Record
    <2>4. /\ "install" \in Places \ {"restore", "blob", "replace", "record", "undo"}
          /\ k[p] + 1 \in Nat /\ k[p] + 1 >= 1 /\ pc[p] # "idle"
      BY <1>2, <2>1
    <2> HIDE DEF payload
    <2> QED BY <2>2, <2>3, <2>4, JournalMoveType
  <1>21. CASE InstallDone(p)
    BY <1>21, QuietType DEF InstallDone
  <1>22. CASE Verify(p)
    BY <1>2, <1>5, <1>22, QuietType DEF Verify
  <1>23. CASE Finish(p)
    BY <1>2, <1>23, PayloadType, JournalEndType DEF Finish, Phases
  <1>24. CASE RestoreCheck(p)
    <2>1. PICK i \in Unrestored(p) :
            \/ WriteJournal(p, view[p]) /\ Leave(p)
            \/ Leave(p) /\ UNCHANGED journal
            \/ To(p, "undo", i) /\ UNCHANGED <<journal, view, holder>>
      BY <1>24 DEF RestoreCheck
    <2>2. pc[p] = "restore" /\ i \in Nat /\ i \in 1..Len(Writes[txn[p]])
      BY <1>1, <1>24, PlanFacts DEF RestoreCheck, Unrestored
    <2>3. CASE WriteJournal(p, view[p]) /\ Leave(p)
      BY <1>2, <1>24, <2>2, <2>3, JournalEndType DEF RestoreCheck
    <2>4. CASE Leave(p) /\ UNCHANGED journal
      BY <1>24, <2>4, QuietEndType DEF RestoreCheck, disk
    <2>5. CASE To(p, "undo", i) /\ UNCHANGED <<journal, view, holder>>
      BY <1>24, <2>2, <2>5, QuietType DEF RestoreCheck, disk
    <2> QED BY <2>1, <2>3, <2>4, <2>5
  <1>25. CASE Undo(p)
    <2>1. pc[p] = "undo" /\ txn[p] \in Txns /\ Entry(p) \in Paths /\ Before(p) \in Installable
      BY <1>1, <1>3, <1>25, EntryType DEF Undo
    <2>2. DiskOK' /\ author' \in [Paths -> Txns \cup {None}]
      BY <1>25, <2>1, DestType DEF Undo, States, Installable, TypeInv, StateOK, DiskOK
    <2>3. k[p] - 1 \in Nat
      BY <1>3, <2>1, PlanFacts
    <2> QED BY <1>25, <2>1, <2>2, <2>3, MoveType DEF Undo, env, TypeInv, StateOK, LocalOK
  <1>26. CASE RollBack(p)
    BY <1>2, <1>26, PayloadType, JournalEndType DEF RollBack, Phases
  <1>27. CASE Crash(p)
    BY <1>27, SameDisk, EndType DEF Crash, TypeInv, StateOK
  <1>28. CASE ReplaceFails(p)
    <2>1. pc[p] = "replace" /\ txn[p] \in Txns /\ Entry(p) \in Paths /\ Want(p) \in Contents
      BY <1>1, <1>3, <1>28, EntryType DEF ReplaceFails
    <2>2. DiskOK' /\ author' \in [Paths -> Txns \cup {None}]
      <3>1. CASE dest' = [dest EXCEPT ![Entry(p)] = Want(p)] /\ author' = [author EXCEPT ![Entry(p)] = txn[p]]
        BY <1>28, <2>1, <3>1, DestType DEF ReplaceFails, States, TypeInv, StateOK, DiskOK
      <3>2. CASE UNCHANGED <<dest, author>>
        BY <1>28, <3>2 DEF ReplaceFails, TypeInv, StateOK, DiskOK
      <3> QED BY <1>28, <3>1, <3>2 DEF ReplaceFails
    <2>3. /\ To(p, "restore", Last(txn[p])) /\ Last(txn[p]) \in Nat
          /\ view' \in [Procs -> Payloads] /\ faults' \in Nat
          /\ UNCHANGED <<holder, edits, crashes>>
      BY <1>5, <1>28, <2>1 DEF ReplaceFails, TypeInv, StateOK, LocalOK
    <2> QED BY <2>1, <2>2, <2>3, MoveType
  <1>29. CASE UndoFails(p)
    <2>1. pc[p] = "undo" /\ txn[p] \in Txns /\ Entry(p) \in Paths /\ Before(p) \in Installable
      BY <1>1, <1>3, <1>29, EntryType DEF UndoFails
    <2>2. journal' \in [Txns -> Payloads]
      BY <1>2, <1>29, <2>1 DEF UndoFails, WriteJournal, TypeInv, StateOK, DiskOK
    <2>3. DiskOK' /\ author' \in [Paths -> Txns \cup {None}]
      <3>1. CASE dest' = [dest EXCEPT ![Entry(p)] = Before(p)] /\ author' = [author EXCEPT ![Entry(p)] = None]
        BY <1>29, <2>1, <2>2, <3>1, DestType DEF UndoFails, States, Installable
      <3>2. CASE UNCHANGED <<dest, author>>
        BY <1>29, <2>2, <3>2 DEF UndoFails, TypeInv, StateOK, DiskOK
      <3> QED BY <1>29, <3>1, <3>2 DEF UndoFails
    <2> QED BY <1>29, <2>3, EndType DEF UndoFails, TypeInv, StateOK
  <1> QED BY <1>6, <1>7, <1>8, <1>9, <1>10, <1>11, <1>12, <1>13, <1>14, <1>15, <1>16,
             <1>17, <1>18, <1>19, <1>20, <1>21, <1>22, <1>23, <1>24, <1>25, <1>26,
             <1>27, <1>28, <1>29 DEF Step

LEMMA OtherType ==
    ASSUME TypeInv,
           \/ \E p \in Procs : Call(p)
           \/ \E d \in Paths, s \in States : Edit(d, s)
           \/ \E t \in Txns, d \in Paths, kind \in BlobKinds : Corrupt(t, d, kind)
    PROVE  TypeInv'
  <1>1. ASSUME NEW p \in Procs, NEW t \in Txns, Prepare(p, t)
        PROVE  TypeInv'
    <2>1. LocalOK'
      BY <1>1 DEF Prepare, TypeInv, StateOK, LocalOK, Places, Preparing
    <2>2. IndexOK'
      BY <1>1 DEF Prepare, TypeInv, StateOK, LocalOK, IndexOK
    <2>3. DiskOK'
      BY <1>1 DEF Prepare, TypeInv, StateOK, DiskOK, Installable
    <2> QED BY <1>1, <2>1, <2>2, <2>3, Gather DEF Prepare, env, TypeInv, StateOK
  <1>2. ASSUME NEW p \in Procs, NEW t \in Txns, RecoverRead(p, t)
        PROVE  TypeInv'
    <2>1. LocalOK'
      BY <1>2 DEF RecoverRead, TypeInv, StateOK, LocalOK, DiskOK, Places
    <2>2. IndexOK'
      BY <1>2 DEF RecoverRead, TypeInv, StateOK, LocalOK, IndexOK
    <2> QED BY <1>2, <2>1, <2>2, SameDisk, Gather DEF RecoverRead, env, TypeInv, StateOK
  <1>3. ASSUME NEW d \in Paths, NEW s \in States, Edit(d, s)
        PROVE  TypeInv'
    <2>1. DiskOK' /\ author' \in [Paths -> Txns \cup {None}]
      BY <1>3, DestType DEF Edit, TypeInv, StateOK, DiskOK
    <2>2. LocalOK' /\ IndexOK'
      BY <1>3 DEF Edit, local, TypeInv, StateOK, LocalOK, IndexOK
    <2> QED BY <1>3, <2>1, <2>2 DEF Edit, TypeInv, StateOK
  <1>4. ASSUME NEW t \in Txns, NEW d \in Paths, NEW kind \in BlobKinds, Corrupt(t, d, kind)
        PROVE  TypeInv'
    <2>1. DiskOK'
      BY <1>4 DEF Corrupt, TypeInv, StateOK, DiskOK
    <2>2. LocalOK' /\ IndexOK'
      BY <1>4 DEF Corrupt, local, TypeInv, StateOK, LocalOK, IndexOK
    <2> QED BY <1>4, <2>1, <2>2 DEF Corrupt, TypeInv, StateOK
  <1> QED BY <1>1, <1>2, <1>3, <1>4 DEF Call

LEMMA NextType == TypeInv /\ [Next]_vars => TypeInv'
  <1> SUFFICES ASSUME TypeInv, [Next]_vars PROVE TypeInv'
    OBVIOUS
  <1>1. CASE UNCHANGED vars
    BY <1>1 DEF vars, disk, local, env, TypeInv, StateOK, DiskOK, LocalOK, IndexOK
  <1>2. CASE Next
    BY <1>2, StepType, OtherType DEF Next, Environment
  <1> QED BY <1>1, <1>2

(***************************************************************************)
(* The history variables.                                                  *)
(***************************************************************************)
HistoryOK == unseen \in [Procs -> SUBSET Paths] /\ misled \in SUBSET (Txns \X Causes)

LEMMA GoOnType ==
    ASSUME TypeInv, HistoryOK, NEW q \in Procs, pc[q] # "idle", GoOn(q)
    PROVE  misled' \in SUBSET (Txns \X Causes)
  <1>1. txn[q] \in Txns
    BY DEF TypeInv, IndexOK
  <1> QED BY <1>1 DEF HistoryOK, GoOn, Causes

\* How a step changes the history, by the helper it goes through.
LEMMA StepMarks ==
    ASSUME HistoryOK, NEW q \in Procs,
           Step(q) \/ Crash(q) \/ ReplaceFails(q) \/ UndoFails(q)
    PROVE  /\ \/ unseen' = unseen
              \/ \E c \in SUBSET Paths : unseen' = [unseen EXCEPT ![q] = c]
           /\ \/ misled' = misled
              \/ misled' = misled \cup {<<txn[q], "install">>}
              \/ GoOn(q)
           /\ journal' = journal \/ GoOn(q)
  <1> DEFINE Quiet == unseen' = unseen
             Ended == unseen' = [unseen EXCEPT ![q] = {}]
             Seen == \E d : unseen' = [unseen EXCEPT ![q] = @ \ {d}]
  <1>0. Quiet \/ Ended \/ Seen =>
           unseen' = unseen \/ \E c \in SUBSET Paths : unseen' = [unseen EXCEPT ![q] = c]
    <2>1. Ended => \E c \in SUBSET Paths : unseen' = [unseen EXCEPT ![q] = c]
      OBVIOUS
    <2>2. ASSUME NEW d, unseen' = [unseen EXCEPT ![q] = @ \ {d}]
          PROVE  \E c \in SUBSET Paths : unseen' = [unseen EXCEPT ![q] = c]
      <3>1. unseen[q] \ {d} \in SUBSET Paths
        BY DEF HistoryOK
      <3>2. unseen' = [unseen EXCEPT ![q] = unseen[q] \ {d}]
        BY <2>2
      <3> QED BY <3>1, <3>2
    <2> QED BY <2>1, <2>2
  <1> USE DEF Leave, Look, WriteJournal, disk
  <1>1. CASE Scan(q)
    BY <1>1, <1>0 DEF Scan
  <1>2. CASE ScanDone(q)
    BY <1>2, <1>0 DEF ScanDone
  <1>3. CASE EntryRead(q)
    BY <1>3, <1>0 DEF EntryRead
  <1>4. CASE EntryBlob(q)
    BY <1>4, <1>0 DEF EntryBlob
  <1>5. CASE Publish(q)
    BY <1>5, <1>0 DEF Publish
  <1>6. CASE CommitRead(q)
    BY <1>6, <1>0 DEF CommitRead
  <1>7. CASE Discard(q)
    BY <1>7, <1>0 DEF Discard
  <1>8. CASE AcquireLock(q)
    BY <1>8, <1>0 DEF AcquireLock
  <1>9. CASE LocksHeld(q)
    BY <1>9, <1>0 DEF LocksHeld
  <1>10. CASE Validate(q)
    BY <1>10, <1>0 DEF Validate
  <1>11. CASE Precheck(q)
    BY <1>11, <1>0 DEF Precheck
  <1>12. CASE MarkCommitting(q)
    BY <1>12, <1>0 DEF MarkCommitting
  <1>13. CASE InstallCheck(q)
    BY <1>13, <1>0 DEF InstallCheck
  <1>14. CASE Replace(q)
    BY <1>14, <1>0 DEF Replace
  <1>15. CASE Record(q)
    BY <1>15, <1>0 DEF Record
  <1>16. CASE InstallDone(q)
    BY <1>16, <1>0 DEF InstallDone
  <1>17. CASE Verify(q)
    BY <1>17, <1>0 DEF Verify
  <1>18. CASE Finish(q)
    BY <1>18, <1>0 DEF Finish
  <1>19. CASE RestoreCheck(q)
    BY <1>19, <1>0 DEF RestoreCheck
  <1>20. CASE Undo(q)
    BY <1>20, <1>0 DEF Undo
  <1>21. CASE RollBack(q)
    BY <1>21, <1>0 DEF RollBack
  <1>22. CASE Crash(q)
    BY <1>22, <1>0 DEF Crash
  <1>23. CASE ReplaceFails(q)
    BY <1>23, <1>0 DEF ReplaceFails
  <1>24. CASE UndoFails(q)
    BY <1>24, <1>0 DEF UndoFails
  <1> QED BY <1>1, <1>2, <1>3, <1>4, <1>5, <1>6, <1>7, <1>8, <1>9,
             <1>10, <1>11, <1>12, <1>13, <1>14, <1>15, <1>16, <1>17, <1>18,
             <1>19, <1>20, <1>21, <1>22, <1>23, <1>24 DEF Step

\* A step of q changes what q has not seen and what happened behind the journal
\* of q's transaction, and writes a journal only as one who goes on.
LEMMA StepHistory ==
    ASSUME TypeInv, HistoryOK, NEW q \in Procs,
           Step(q) \/ Crash(q) \/ ReplaceFails(q) \/ UndoFails(q)
    PROVE  /\ pc[q] # "idle" /\ txn[q] \in Txns /\ HistoryOK'
           /\ \A p \in Procs : p # q => unseen'[p] = unseen[p]
           /\ misled \subseteq misled'
           /\ journal' = journal \/ GoOn(q)
  <1>1. pc[q] # "idle"
    BY DEF Step, Scan, ScanDone, EntryRead, EntryBlob, Publish, CommitRead, Discard, AcquireLock, LocksHeld,
       Validate, Precheck, MarkCommitting, InstallCheck, Replace, Record, InstallDone, Verify, Finish,
       RestoreCheck, Undo, RollBack, Crash, ReplaceFails, UndoFails
  <1>2. txn[q] \in Txns
    BY <1>1 DEF TypeInv, IndexOK
  <1>3. /\ \/ unseen' = unseen
           \/ \E c \in SUBSET Paths : unseen' = [unseen EXCEPT ![q] = c]
        /\ \/ misled' = misled
           \/ misled' = misled \cup {<<txn[q], "install">>}
           \/ GoOn(q)
        /\ journal' = journal \/ GoOn(q)
    BY StepMarks
  <1>4. HistoryOK' /\ \A p \in Procs : p # q => unseen'[p] = unseen[p]
    <2>1. unseen' \in [Procs -> SUBSET Paths] /\ \A p \in Procs : p # q => unseen'[p] = unseen[p]
      BY <1>3 DEF HistoryOK
    <2>2. misled' \in SUBSET (Txns \X Causes)
      BY <1>1, <1>2, <1>3, GoOnType DEF HistoryOK, Causes
    <2> QED BY <2>1, <2>2 DEF HistoryOK
  <1>5. misled \subseteq misled'
    BY <1>3 DEF GoOn
  <1> QED BY <1>1, <1>2, <1>3, <1>4, <1>5

LEMMA CallHistory ==
    ASSUME NEW q \in Procs, Call(q)
    PROVE  UNCHANGED <<dest, journal, unseen, author, misled>>
  BY DEF Call, Prepare, RecoverRead, disk

LEMMA EditHistory ==
    ASSUME HistoryOK, NEW d \in Paths, NEW s \in States, Edit(d, s)
    PROVE  /\ HistoryOK' /\ misled \subseteq misled'
           /\ \A p \in Procs : pc[p] \in Critical => unseen'[p] = unseen[p] \cup {d}
  <1>1. /\ unseen' = [p \in Procs |-> IF pc[p] \in Critical THEN unseen[p] \cup {d} ELSE {}]
        /\ misled' = misled \cup {<<t, "edit">> :
             t \in {u \in Txns : d \in Destinations(u) /\ Desired[u][d] = s}}
    BY DEF Edit
  <1> QED BY <1>1 DEF HistoryOK, Causes

LEMMA CorruptHistory ==
    ASSUME HistoryOK, NEW t \in Txns, NEW d \in Paths, NEW kind \in BlobKinds, Corrupt(t, d, kind)
    PROVE  /\ HistoryOK' /\ UNCHANGED unseen
           /\ misled' = misled \cup {<<t, "blob">>}
  BY DEF HistoryOK, Corrupt, Causes

LEMMA NextHistory ==
    ASSUME TypeInv, HistoryOK, [Next]_vars
    PROVE  HistoryOK' /\ misled \subseteq misled'
  <1>1. CASE UNCHANGED vars
    BY <1>1 DEF vars, HistoryOK
  <1>2. ASSUME NEW q \in Procs, Step(q) \/ Crash(q) \/ ReplaceFails(q) \/ UndoFails(q)
        PROVE  HistoryOK' /\ misled \subseteq misled'
    BY <1>2, StepHistory
  <1>3. ASSUME NEW q \in Procs, Call(q)
        PROVE  HistoryOK' /\ misled \subseteq misled'
    BY <1>3, CallHistory DEF HistoryOK
  <1>4. ASSUME NEW d \in Paths, NEW s \in States, Edit(d, s)
        PROVE  HistoryOK' /\ misled \subseteq misled'
    BY <1>4, EditHistory
  <1>5. ASSUME NEW t \in Txns, NEW d \in Paths, NEW kind \in BlobKinds, Corrupt(t, d, kind)
        PROVE  HistoryOK' /\ misled \subseteq misled'
    BY <1>5, CorruptHistory
  <1> QED BY <1>1, <1>2, <1>3, <1>4, <1>5 DEF Next, Environment

LEMMA InitHistory == Init => HistoryOK
  BY DEF Init, HistoryOK

\* Type correctness: every variable keeps the form its readers rely on; a
\* precondition, in particular, is never anything but a regular file or none.
THEOREM TypeCorrect == Spec => []TypeOK
  <1>1. Init => TypeInv /\ HistoryOK
    BY InitType, InitHistory
  <1>2. TypeInv /\ HistoryOK /\ [Next]_vars => (TypeInv /\ HistoryOK)'
    BY NextType, NextHistory
  <1>3. TypeInv /\ HistoryOK => TypeOK
    BY DEF TypeInv, StateOK, HistoryOK, TypeOK
  <1> QED BY <1>1, <1>2, <1>3, PTL DEF Spec

(***************************************************************************)
(* The locks: while a process may write, no other process can.             *)
(***************************************************************************)
Untouched(p) ==
    /\ pc'[p] = pc[p] /\ txn'[p] = txn[p] /\ k'[p] = k[p] /\ view'[p] = view[p]
    /\ \A r \in Locks : holder[r] = p <=> holder'[r] = p

LEMMA ToOther ==
    ASSUME TypeInv, NEW q \in Procs, NEW p \in Procs, p # q,
           NEW place, NEW n, To(q, place, n), UNCHANGED holder,
           NEW v, view' = view \/ view' = [view EXCEPT ![q] = v]
    PROVE  Untouched(p)
    BY DEF TypeInv, StateOK, LocalOK, To, Untouched

LEMMA LeaveOther ==
    ASSUME TypeInv, NEW q \in Procs, NEW p \in Procs, p # q, Leave(q)
    PROVE  Untouched(p)
    BY ConstantsAssumption DEF TypeInv, StateOK, LocalOK, Leave, Untouched

LEMMA StepOther ==
    ASSUME TypeInv, NEW q \in Procs, NEW p \in Procs, p # q,
           Step(q) \/ Crash(q) \/ ReplaceFails(q) \/ UndoFails(q)
    PROVE  Untouched(p)
  <1>1. CASE Scan(q)
    BY <1>1, LeaveOther DEF Scan, TypeInv, StateOK, LocalOK, Untouched
  <1>2. CASE ScanDone(q)
    BY <1>2, ToOther, LeaveOther DEF ScanDone
  <1>3. CASE EntryRead(q)
    BY <1>3, ToOther, LeaveOther DEF EntryRead
  <1>4. CASE EntryBlob(q)
    BY <1>4, ToOther, LeaveOther DEF EntryBlob
  <1>5. CASE Publish(q)
    BY <1>5, ToOther, LeaveOther DEF Publish
  <1>6. CASE CommitRead(q)
    BY <1>6, LeaveOther DEF CommitRead, TypeInv, StateOK, LocalOK, Untouched
  <1>7. CASE Discard(q)
    BY <1>7, ToOther, LeaveOther DEF Discard
  <1>8. CASE AcquireLock(q)
    BY <1>8, ConstantsAssumption DEF AcquireLock, TypeInv, StateOK, LocalOK, Untouched, NextLock, local
  <1>9. CASE LocksHeld(q)
    BY <1>9, ToOther, LeaveOther DEF LocksHeld
  <1>10. CASE Validate(q)
    BY <1>10, ToOther, LeaveOther DEF Validate
  <1>11. CASE Precheck(q)
    BY <1>11, ToOther, LeaveOther DEF Precheck
  <1>12. CASE MarkCommitting(q)
    BY <1>12, ToOther, LeaveOther DEF MarkCommitting
  <1>13. CASE InstallCheck(q)
    BY <1>13, ToOther, LeaveOther DEF InstallCheck
  <1>14. CASE Replace(q)
    BY <1>14, ToOther, LeaveOther DEF Replace
  <1>15. CASE Record(q)
    BY <1>15, ToOther, LeaveOther DEF Record
  <1>16. CASE InstallDone(q)
    BY <1>16, ToOther, LeaveOther DEF InstallDone
  <1>17. CASE Verify(q)
    BY <1>17, ToOther, LeaveOther DEF Verify
  <1>18. CASE Finish(q)
    BY <1>18, ToOther, LeaveOther DEF Finish
  <1>19. CASE RestoreCheck(q)
    BY <1>19, ToOther, LeaveOther DEF RestoreCheck
  <1>20. CASE Undo(q)
    BY <1>20, ToOther, LeaveOther DEF Undo
  <1>21. CASE RollBack(q)
    BY <1>21, ToOther, LeaveOther DEF RollBack
  <1>22. CASE Crash(q)
    BY <1>22, ToOther, LeaveOther DEF Crash
  <1>23. CASE ReplaceFails(q)
    BY <1>23, ToOther, LeaveOther DEF ReplaceFails
  <1>24. CASE UndoFails(q)
    BY <1>24, ToOther, LeaveOther DEF UndoFails
  <1> QED BY <1>1, <1>2, <1>3, <1>4, <1>5, <1>6, <1>7, <1>8, <1>9, 
             <1>10, <1>11, <1>12, <1>13, <1>14, <1>15, <1>16, <1>17, 
             <1>18, <1>19, <1>20, <1>21, <1>22, <1>23, <1>24 DEF Step

\* A process gets among the writers only with all its locks, and stays there
\* only while it keeps them.
LEMMA StepSelf ==
    ASSUME TypeInv, NEW q \in Procs, pc'[q] \in Critical,
           Step(q) \/ Crash(q) \/ ReplaceFails(q) \/ UndoFails(q)
    PROVE  /\ UNCHANGED holder /\ txn'[q] = txn[q]
           /\ pc[q] \in Critical \/ \A r \in Wants(txn[q]) : holder[r] = q
  <1>1. CASE Scan(q)
    BY <1>1, TypeInv DEF Scan, TypeInv, StateOK, LocalOK, To, Leave, Critical
  <1>2. CASE ScanDone(q)
    BY <1>2, TypeInv DEF ScanDone, TypeInv, StateOK, LocalOK, To, Leave, Critical
  <1>3. CASE EntryRead(q)
    BY <1>3, TypeInv DEF EntryRead, TypeInv, StateOK, LocalOK, To, Leave, Critical
  <1>4. CASE EntryBlob(q)
    BY <1>4, TypeInv DEF EntryBlob, TypeInv, StateOK, LocalOK, To, Leave, Critical
  <1>5. CASE Publish(q)
    BY <1>5, TypeInv DEF Publish, TypeInv, StateOK, LocalOK, To, Leave, Critical
  <1>6. CASE CommitRead(q)
    BY <1>6, TypeInv DEF CommitRead, TypeInv, StateOK, LocalOK, To, Leave, Critical
  <1>7. CASE Discard(q)
    BY <1>7, TypeInv DEF Discard, TypeInv, StateOK, LocalOK, To, Leave, Critical
  <1>8. CASE AcquireLock(q)
    BY <1>8, TypeInv DEF AcquireLock, TypeInv, StateOK, LocalOK, To, Leave, Critical, local
  <1>9. CASE LocksHeld(q)
    BY <1>9, TypeInv DEF LocksHeld, TypeInv, StateOK, LocalOK, To, Leave, Critical
  <1>10. CASE Validate(q)
    BY <1>10, TypeInv DEF Validate, TypeInv, StateOK, LocalOK, To, Leave, Critical
  <1>11. CASE Precheck(q)
    BY <1>11, TypeInv DEF Precheck, TypeInv, StateOK, LocalOK, To, Leave, Critical
  <1>12. CASE MarkCommitting(q)
    BY <1>12, TypeInv DEF MarkCommitting, TypeInv, StateOK, LocalOK, To, Leave, Critical
  <1>13. CASE InstallCheck(q)
    BY <1>13, TypeInv DEF InstallCheck, TypeInv, StateOK, LocalOK, To, Leave, Critical
  <1>14. CASE Replace(q)
    BY <1>14, TypeInv DEF Replace, TypeInv, StateOK, LocalOK, To, Leave, Critical
  <1>15. CASE Record(q)
    BY <1>15, TypeInv DEF Record, TypeInv, StateOK, LocalOK, To, Leave, Critical
  <1>16. CASE InstallDone(q)
    BY <1>16, TypeInv DEF InstallDone, TypeInv, StateOK, LocalOK, To, Leave, Critical
  <1>17. CASE Verify(q)
    BY <1>17, TypeInv DEF Verify, TypeInv, StateOK, LocalOK, To, Leave, Critical
  <1>18. CASE Finish(q)
    BY <1>18, TypeInv DEF Finish, TypeInv, StateOK, LocalOK, To, Leave, Critical
  <1>19. CASE RestoreCheck(q)
    BY <1>19, TypeInv DEF RestoreCheck, TypeInv, StateOK, LocalOK, To, Leave, Critical
  <1>20. CASE Undo(q)
    BY <1>20, TypeInv DEF Undo, TypeInv, StateOK, LocalOK, To, Leave, Critical
  <1>21. CASE RollBack(q)
    BY <1>21, TypeInv DEF RollBack, TypeInv, StateOK, LocalOK, To, Leave, Critical
  <1>22. CASE Crash(q)
    BY <1>22, TypeInv DEF Crash, TypeInv, StateOK, LocalOK, To, Leave, Critical
  <1>23. CASE ReplaceFails(q)
    BY <1>23, TypeInv DEF ReplaceFails, TypeInv, StateOK, LocalOK, To, Leave, Critical
  <1>24. CASE UndoFails(q)
    BY <1>24, TypeInv DEF UndoFails, TypeInv, StateOK, LocalOK, To, Leave, Critical
  <1> QED BY <1>1, <1>2, <1>3, <1>4, <1>5, <1>6, <1>7, <1>8, <1>9, 
             <1>10, <1>11, <1>12, <1>13, <1>14, <1>15, <1>16, <1>17, 
             <1>18, <1>19, <1>20, <1>21, <1>22, <1>23, <1>24 DEF Step

\* Whoever is past _locks holds every lock of its transaction.
CoveredInv ==
    \A p \in Procs : pc[p] \in Critical => \A r \in Wants(txn[p]) : holder[r] = p

LEMMA LocksInit == Init => CoveredInv
    BY DEF Init, CoveredInv, Critical

LEMMA OtherActions ==
    ASSUME TypeInv, NEW p \in Procs,
           \/ \E q \in Procs : Call(q)
           \/ \E d \in Paths, s \in States : Edit(d, s)
           \/ \E t \in Txns, d \in Paths, kind \in BlobKinds : Corrupt(t, d, kind)
    PROVE  /\ UNCHANGED holder
           /\ pc'[p] \in Critical => pc[p] = pc'[p] /\ txn'[p] = txn[p] /\ k'[p] = k[p]
  <1>1. ASSUME NEW q \in Procs, NEW t \in Txns, Prepare(q, t) \/ RecoverRead(q, t)
        PROVE  /\ UNCHANGED holder /\ k' = k
               /\ pc'[p] \in Critical => pc[p] = pc'[p] /\ txn'[p] = txn[p]
    BY <1>1 DEF Prepare, RecoverRead, TypeInv, StateOK, LocalOK, Critical
  <1>2. CASE \E d \in Paths, s \in States : Edit(d, s)
    BY <1>2 DEF Edit, local
  <1>3. CASE \E t \in Txns, d \in Paths, kind \in BlobKinds : Corrupt(t, d, kind)
    BY <1>3 DEF Corrupt, local
  <1> QED BY <1>1, <1>2, <1>3 DEF Call

LEMMA LocksStep ==
    ASSUME TypeInv, CoveredInv, [Next]_vars
    PROVE  CoveredInv'
  <1> SUFFICES ASSUME NEW p \in Procs, pc'[p] \in Critical, NEW r \in Wants(txn'[p])
               PROVE  holder'[r] = p
    BY DEF CoveredInv
  <1>1. ASSUME pc[p] \in Critical
        PROVE  txn[p] \in Txns /\ Wants(txn[p]) \subseteq Locks
    BY <1>1, PlanFacts DEF TypeInv, IndexOK, Critical
  <1>2. ASSUME NEW q \in Procs, Step(q) \/ Crash(q) \/ ReplaceFails(q) \/ UndoFails(q)
        PROVE  holder'[r] = p
    <2>1. CASE p = q
      BY <1>2, <2>1, StepSelf DEF CoveredInv
    <2>2. CASE p # q
      BY <1>1, <1>2, <2>2, StepOther DEF CoveredInv, Untouched
    <2> QED BY <2>1, <2>2
  <1>3. CASE \/ \E q \in Procs : Call(q)
             \/ \E d \in Paths, s \in States : Edit(d, s)
             \/ \E t \in Txns, d \in Paths, kind \in BlobKinds : Corrupt(t, d, kind)
    BY <1>3, OtherActions DEF CoveredInv
  <1>4. CASE UNCHANGED vars
    BY <1>4 DEF CoveredInv, vars, local
  <1> QED BY <1>2, <1>3, <1>4 DEF Next, Environment

\* What a process that is not past _locks may write.
LEMMA StepOutside ==
    ASSUME TypeInv, NEW q \in Procs, pc[q] \notin Critical,
           Step(q) \/ Crash(q) \/ ReplaceFails(q) \/ UndoFails(q)
    PROVE  /\ UNCHANGED <<dest, author>>
           /\ bad' = bad \/ pc[q] = "blob"
           /\ \/ journal' = journal
              \/ /\ pc[q] = "entry" \/ (pc[q] = "discard" /\ GoOn(q))
                 /\ \A t \in Txns : \/ journal'[t] = journal[t]
                                    \/ journal'[t].phase \in {"PREPARED", "ROLLED_BACK"}
  <1> USE DEF TypeInv, StateOK, DiskOK, LocalOK, Payloads, Critical, WriteJournal, disk
  <1>1. CASE Scan(q)
    BY <1>1 DEF Scan
  <1>2. CASE ScanDone(q)
    BY <1>2 DEF ScanDone
  <1>3. CASE EntryRead(q)
    BY <1>3 DEF EntryRead
  <1>4. CASE EntryBlob(q)
    BY <1>4 DEF EntryBlob
  <1>5. CASE Publish(q)
    BY <1>5 DEF Publish
  <1>6. CASE CommitRead(q)
    BY <1>6 DEF CommitRead
  <1>7. CASE Discard(q)
    BY <1>7 DEF Discard
  <1>8. CASE AcquireLock(q)
    BY <1>8 DEF AcquireLock
  <1>9. CASE LocksHeld(q)
    BY <1>9 DEF LocksHeld
  <1>10. CASE Validate(q)
    BY <1>10 DEF Validate
  <1>11. CASE Precheck(q)
    BY <1>11 DEF Precheck
  <1>12. CASE MarkCommitting(q)
    BY <1>12 DEF MarkCommitting
  <1>13. CASE InstallCheck(q)
    BY <1>13 DEF InstallCheck
  <1>14. CASE Replace(q)
    BY <1>14 DEF Replace
  <1>15. CASE Record(q)
    BY <1>15 DEF Record
  <1>16. CASE InstallDone(q)
    BY <1>16 DEF InstallDone
  <1>17. CASE Verify(q)
    BY <1>17 DEF Verify
  <1>18. CASE Finish(q)
    BY <1>18 DEF Finish
  <1>19. CASE RestoreCheck(q)
    BY <1>19 DEF RestoreCheck
  <1>20. CASE Undo(q)
    BY <1>20 DEF Undo
  <1>21. CASE RollBack(q)
    BY <1>21 DEF RollBack
  <1>22. CASE Crash(q)
    BY <1>22 DEF Crash
  <1>23. CASE ReplaceFails(q)
    BY <1>23 DEF ReplaceFails
  <1>24. CASE UndoFails(q)
    BY <1>24 DEF UndoFails
  <1> QED BY <1>1, <1>2, <1>3, <1>4, <1>5, <1>6, <1>7, <1>8, <1>9,
             <1>10, <1>11, <1>12, <1>13, <1>14, <1>15, <1>16, <1>17, <1>18,
             <1>19, <1>20, <1>21, <1>22, <1>23, <1>24 DEF Step

LEMMA LocksAction ==
    ASSUME TypeInv, CoveredInv, [Next]_vars, NEW p \in Procs, pc'[p] # pc[p]
    PROVE  \/ /\ dest' = dest
              /\ \A t \in Txns : journal'[t] = journal[t]
                                 \/ journal'[t].phase \in {"PREPARED", "ROLLED_BACK"}
           \/ \A r \in Wants(txn[p]) : holder[r] = p
  <1>1. ASSUME NEW q \in Procs, Step(q) \/ Crash(q) \/ ReplaceFails(q) \/ UndoFails(q)
        PROVE  p = q
    BY <1>1, StepOther DEF Untouched
  <1>2. CASE Step(p) \/ Crash(p) \/ ReplaceFails(p) \/ UndoFails(p)
    <2>1. CASE pc[p] \in Critical
      BY <2>1 DEF CoveredInv
    <2>2. CASE pc[p] \notin Critical
      BY <1>2, <2>2, StepOutside
    <2> QED BY <2>1, <2>2
  <1>3. CASE \E q \in Procs : Call(q)
    BY <1>3, CallHistory
  <1>4. CASE \/ \E d \in Paths, s \in States : Edit(d, s)
             \/ \E t \in Txns, d \in Paths, kind \in BlobKinds : Corrupt(t, d, kind)
    BY <1>4 DEF Edit, Corrupt, local
  <1>5. CASE UNCHANGED vars
    BY <1>5 DEF vars, local
  <1> QED BY <1>1, <1>2, <1>3, <1>4, <1>5 DEF Next, Environment

\* Writers hold their locks: whatever races, crashes or fails, only a process that
\* holds every lock of its transaction changes a destination or makes a journal
\* COMMITTING or COMMITTED.  PREPARED and, by recover, ROLLED_BACK are written
\* without one.
THEOREM LocksCover == Spec => LocksCoverWrites
  <1>1. Init => TypeInv /\ CoveredInv
    BY InitType, LocksInit
  <1>2. TypeInv /\ CoveredInv /\ [Next]_vars => (TypeInv /\ CoveredInv)'
    BY NextType, LocksStep
  <1>3. TypeInv /\ CoveredInv /\ [Next]_vars =>
          [\A p \in Procs : pc'[p] # pc[p] =>
             \/ /\ dest' = dest
                /\ \A t \in Txns : journal'[t] = journal[t] \/ InPhase(t, {"PREPARED", "ROLLED_BACK"})'
             \/ \A r \in Wants(txn[p]) : holder[r] = p]_vars
    BY LocksAction DEF InPhase
  <1> QED BY <1>1, <1>2, <1>3, PTL DEF Spec, LocksCoverWrites

(***************************************************************************)
(* Lock files are taken in sorted order, so nobody waits in a circle.      *)
(***************************************************************************)
HoldsOnlyWanted(p) ==
    \A r \in Locks : holder[r] = p =>
        pc[p] \in {"lock"} \cup Critical /\ r \in Wants(txn[p])

\* In _locks, what p holds is the least part of what it wants.
InOrder(p) ==
    pc[p] = "lock" => \A r, s \in Wants(txn[p]) :
        s < r /\ holder[r] = p => holder[s] = p

OrderInv == \A p \in Procs : HoldsOnlyWanted(p) /\ InOrder(p)

LEMMA OrderInit == Init => OrderInv
  <1>1. Init => \A p \in Procs, r \in Locks : holder[r] # p
    BY ConstantsAssumption DEF Init
  <1> QED BY <1>1 DEF Init, OrderInv, HoldsOnlyWanted, InOrder

LEMMA MoveHolds ==
    ASSUME TypeInv, NEW q \in Procs, HoldsOnlyWanted(q), UNCHANGED holder,
           NEW place, NEW n, To(q, place, n), place # "lock",
           pc[q] \in {"lock"} \cup Critical => place \in Critical
    PROVE  HoldsOnlyWanted(q)' /\ InOrder(q)'
    BY DEF TypeInv, StateOK, LocalOK, To, HoldsOnlyWanted, InOrder

LEMMA LeaveHolds ==
    ASSUME TypeInv, NEW q \in Procs, Leave(q)
    PROVE  HoldsOnlyWanted(q)' /\ InOrder(q)'
  <1>1. \A r \in Locks : holder'[r] # q
    BY ConstantsAssumption DEF Leave
  <1> QED BY <1>1 DEF TypeInv, StateOK, LocalOK, Leave, HoldsOnlyWanted, InOrder

LEMMA StepHolds ==
    ASSUME TypeInv, NEW q \in Procs, HoldsOnlyWanted(q), InOrder(q),
           Step(q) \/ Crash(q) \/ ReplaceFails(q) \/ UndoFails(q)
    PROVE  HoldsOnlyWanted(q)' /\ InOrder(q)'
  <1>0. ASSUME pc[q] # "idle"
        PROVE  txn[q] \in Txns /\ Wants(txn[q]) \subseteq Locks
    BY <1>0, PlanFacts DEF TypeInv, IndexOK
  <1>1. CASE Scan(q)
    BY <1>1, LeaveHolds DEF Scan, HoldsOnlyWanted, InOrder
  <1>2. CASE ScanDone(q)
    BY <1>2, MoveHolds, LeaveHolds DEF ScanDone, Critical
  <1>3. CASE EntryRead(q)
    BY <1>3, MoveHolds, LeaveHolds DEF EntryRead, Critical
  <1>4. CASE EntryBlob(q)
    BY <1>4, MoveHolds, LeaveHolds DEF EntryBlob, Critical
  <1>5. CASE Publish(q)
    BY <1>5, MoveHolds, LeaveHolds DEF Publish, Critical
  <1>6. CASE CommitRead(q)
    <2>1. CASE Leave(q)
      BY <2>1, LeaveHolds
    <2>2. CASE UNCHANGED <<txn, holder>> /\ pc' = [pc EXCEPT ![q] = "lock"]
      <3>1. \A r \in Locks : holder[r] # q
        BY <1>6 DEF CommitRead, HoldsOnlyWanted, Critical
      <3> QED BY <1>6, <1>0, <2>2, <3>1 DEF CommitRead, HoldsOnlyWanted, InOrder
    <2> QED BY <1>6, <2>1, <2>2 DEF CommitRead
  <1>7. CASE Discard(q)
    BY <1>7, MoveHolds, LeaveHolds DEF Discard, Critical
  <1>8. CASE AcquireLock(q)
    BY <1>8, <1>0, ConstantsAssumption DEF AcquireLock, TypeInv, StateOK, LocalOK, NextLock, local, HoldsOnlyWanted, InOrder, Critical
  <1>9. CASE LocksHeld(q)
    BY <1>9, MoveHolds, LeaveHolds DEF LocksHeld, Critical
  <1>10. CASE Validate(q)
    BY <1>10, MoveHolds, LeaveHolds DEF Validate, Critical
  <1>11. CASE Precheck(q)
    BY <1>11, MoveHolds, LeaveHolds DEF Precheck, Critical
  <1>12. CASE MarkCommitting(q)
    BY <1>12, MoveHolds, LeaveHolds DEF MarkCommitting, Critical
  <1>13. CASE InstallCheck(q)
    BY <1>13, MoveHolds, LeaveHolds DEF InstallCheck, Critical
  <1>14. CASE Replace(q)
    BY <1>14, MoveHolds, LeaveHolds DEF Replace, Critical
  <1>15. CASE Record(q)
    BY <1>15, MoveHolds, LeaveHolds DEF Record, Critical
  <1>16. CASE InstallDone(q)
    BY <1>16, MoveHolds, LeaveHolds DEF InstallDone, Critical
  <1>17. CASE Verify(q)
    BY <1>17, MoveHolds, LeaveHolds DEF Verify, Critical
  <1>18. CASE Finish(q)
    BY <1>18, MoveHolds, LeaveHolds DEF Finish, Critical
  <1>19. CASE RestoreCheck(q)
    BY <1>19, MoveHolds, LeaveHolds DEF RestoreCheck, Critical
  <1>20. CASE Undo(q)
    BY <1>20, MoveHolds, LeaveHolds DEF Undo, Critical
  <1>21. CASE RollBack(q)
    BY <1>21, MoveHolds, LeaveHolds DEF RollBack, Critical
  <1>22. CASE Crash(q)
    BY <1>22, MoveHolds, LeaveHolds DEF Crash, Critical
  <1>23. CASE ReplaceFails(q)
    BY <1>23, MoveHolds, LeaveHolds DEF ReplaceFails, Critical
  <1>24. CASE UndoFails(q)
    BY <1>24, MoveHolds, LeaveHolds DEF UndoFails, Critical
  <1> QED BY <1>1, <1>2, <1>3, <1>4, <1>5, <1>6, <1>7, <1>8, <1>9, <1>10, <1>11, <1>12, <1>13, <1>14, <1>15, <1>16, <1>17, <1>18, <1>19, <1>20, <1>21, <1>22, <1>23, <1>24 DEF Step

LEMMA OrderStep ==
    ASSUME TypeInv, OrderInv, [Next]_vars
    PROVE  OrderInv'
  <1> SUFFICES ASSUME NEW p \in Procs
               PROVE  HoldsOnlyWanted(p)' /\ InOrder(p)'
    BY DEF OrderInv
  <1>0. ASSUME pc[p] # "idle"
        PROVE  txn[p] \in Txns /\ Wants(txn[p]) \subseteq Locks
    BY <1>0, PlanFacts DEF TypeInv, IndexOK
  <1>1. ASSUME NEW q \in Procs, Step(q) \/ Crash(q) \/ ReplaceFails(q) \/ UndoFails(q)
        PROVE  HoldsOnlyWanted(p)' /\ InOrder(p)'
    <2>1. CASE p = q
      BY <1>1, <2>1, StepHolds DEF OrderInv
    <2>2. CASE p # q
      <3>1. Untouched(p)
        BY <1>1, <2>2, StepOther
      <3> QED BY <1>0, <3>1 DEF Untouched, OrderInv, HoldsOnlyWanted, InOrder
    <2> QED BY <2>1, <2>2
  <1>2. ASSUME NEW q \in Procs, NEW t \in Txns, Prepare(q, t) \/ RecoverRead(q, t)
        PROVE  HoldsOnlyWanted(p)' /\ InOrder(p)'
    <2>1. CASE p = q
      <3>1. pc[p] = "idle" /\ UNCHANGED holder
        BY <1>2, <2>1 DEF Prepare, RecoverRead
      <3>2. \A r \in Locks : holder'[r] # p
        BY <3>1 DEF OrderInv, HoldsOnlyWanted, Critical
      <3>3. txn'[p] = t
        BY <1>2, <2>1 DEF Prepare, RecoverRead, TypeInv, StateOK, LocalOK
      <3>4. Wants(t) \subseteq Locks
        BY PlanFacts
      <3> QED BY <3>2, <3>3, <3>4 DEF HoldsOnlyWanted, InOrder
    <2>2. CASE p # q
      BY <1>2, <2>2 DEF Prepare, RecoverRead, TypeInv, StateOK, LocalOK,
                        OrderInv, HoldsOnlyWanted, InOrder
    <2> QED BY <2>1, <2>2
  <1>3. CASE \/ \E d \in Paths, s \in States : Edit(d, s)
             \/ \E t \in Txns, d \in Paths, kind \in BlobKinds : Corrupt(t, d, kind)
    BY <1>3 DEF Edit, Corrupt, local, OrderInv, HoldsOnlyWanted, InOrder
  <1>4. CASE UNCHANGED vars
    BY <1>4 DEF vars, local, OrderInv, HoldsOnlyWanted, InOrder
  <1> QED BY <1>1, <1>2, <1>3, <1>4 DEF Next, Call, Environment

\* A finite set of numbers that is not empty has a greatest member.
LEMMA Greatest ==
    ASSUME NEW H \in SUBSET Nat, IsFiniteSet(H), H # {}
    PROVE  \E m \in H : \A r \in H : r <= m
  <1> DEFINE Above(r) == {s \in H : s > r}
             R == StrictSubsetOrdering(H)
             T == {Above(r) : r \in H}
  <1>1. T \subseteq SUBSET H /\ T # {}
    OBVIOUS
  <1>2. IsWellFoundedOn(R, SUBSET H)
    BY FS_StrictSubsetOrderingWellFounded, FS_FiniteSubsetsOfFinite
  <1>3. PICK x \in T : \A y \in T : <<y, x>> \notin R
    <2> HIDE DEF R, T
    <2> QED BY <1>1, <1>2, WFMin
  <1>4. PICK m \in H : x = Above(m)
    BY <1>3
  <1>5. ASSUME NEW r \in H, r > m
        PROVE  FALSE
    <2>0. Above(r) \in T
      OBVIOUS
    <2>1. Above(r) \subseteq Above(m)
      <3> SUFFICES ASSUME NEW n \in H, n > r PROVE n > m
        OBVIOUS
      <3> QED BY <1>5
    <2>2. r \in Above(m) /\ r \notin Above(r)
      BY <1>5
    <2> QED BY <1>3, <1>4, <2>0, <2>1, <2>2 DEF StrictSubsetOrdering
  <1> QED BY <1>5

LEMMA NoCircle == TypeInv /\ OrderInv => NoDeadlock
  <1> SUFFICES ASSUME TypeInv, OrderInv, NEW S \in SUBSET Procs, S # {},
                      \A p \in S : \E q \in S : Blocked(p, q)
               PROVE  FALSE
    BY DEF NoDeadlock
  <1> DEFINE H == {r \in Locks : holder[r] \in S}
  <1>1. ASSUME NEW p \in S, NEW q \in S, Blocked(p, q)
        PROVE  \E r \in Wants(txn[p]) : r \in Locks /\ holder[r] = q
    BY <1>1, PlanFacts DEF Blocked, TypeInv, IndexOK
  <1>2. H # {}
    BY <1>1
  <1>3. PICK m \in H : \A r \in H : r <= m
    <2>1. IsFiniteSet(H)
      BY LocksAssumption, FS_Subset
    <2> QED BY <1>2, <2>1, Greatest, ConstantsAssumption
  <1>4. PICK q \in S : Blocked(holder[m], q)
    OBVIOUS
  <1>5. PICK r \in Wants(txn[holder[m]]) : r \in Locks /\ holder[r] = q
    BY <1>1, <1>4
  <1>6. r < m
    BY <1>3, <1>4, <1>5, ConstantsAssumption DEF Blocked
  <1>7. holder[r] = holder[m]
    BY <1>4, <1>5, <1>6 DEF OrderInv, HoldsOnlyWanted, InOrder, Blocked
  <1> QED BY <1>4, <1>5, <1>7 DEF Blocked

\* Freedom from deadlock: however the plans overlap and in whatever order they
\* name their files, no set of processes waits in _locks for each other.
THEOREM LocksAcyclic == Spec => []NoDeadlock
  <1>1. Init => TypeInv /\ OrderInv
    BY InitType, OrderInit
  <1>2. TypeInv /\ OrderInv /\ [Next]_vars => (TypeInv /\ OrderInv)'
    BY NextType, OrderStep
  <1> QED BY <1>1, <1>2, NoCircle, PTL DEF Spec

(***************************************************************************)
(* COMMITTED is written over a complete set only.                          *)
(***************************************************************************)
\* What the verification loop has passed is still so: nobody else may write it.
VerifiedInv ==
    \A p \in Procs : pc[p] = "verify" =>
        \A i \in 1..Len(Writes[txn[p]]) : i < k[p] =>
            \/ dest[Writes[txn[p]][i]] = Desired[txn[p]][Writes[txn[p]][i]]
            \/ Writes[txn[p]][i] \in unseen[p]

\* No copy of the payload is COMMITTED: only Finish makes it so.
ViewInv == \A p \in Procs : view[p].phase # "COMMITTED"

CommitInv == TypeInv /\ HistoryOK /\ CoveredInv /\ VerifiedInv /\ ViewInv

\* Only a process that holds the lock of a destination writes it.
LEMMA WriterHolds ==
    ASSUME TypeInv, CoveredInv, NEW q \in Procs, NEW d \in Paths,
           Step(q) \/ Crash(q) \/ ReplaceFails(q) \/ UndoFails(q), dest'[d] # dest[d]
    PROVE  holder[d] = q /\ pc[q] \in {"replace", "undo"}
  <1>1. ASSUME pc[q] \in {"replace", "undo"}
        PROVE  holder[Entry(q)] = q
    BY <1>1, EntryType DEF CoveredInv, Critical, TypeInv, IndexOK
  <1> USE DEF TypeInv, StateOK, DiskOK, disk
  <1>2. CASE Scan(q)
    BY <1>2, <1>1 DEF Scan
  <1>3. CASE ScanDone(q)
    BY <1>3, <1>1 DEF ScanDone
  <1>4. CASE EntryRead(q)
    BY <1>4, <1>1 DEF EntryRead
  <1>5. CASE EntryBlob(q)
    BY <1>5, <1>1 DEF EntryBlob
  <1>6. CASE Publish(q)
    BY <1>6, <1>1 DEF Publish
  <1>7. CASE CommitRead(q)
    BY <1>7, <1>1 DEF CommitRead
  <1>8. CASE Discard(q)
    BY <1>8, <1>1 DEF Discard
  <1>9. CASE AcquireLock(q)
    BY <1>9, <1>1 DEF AcquireLock
  <1>10. CASE LocksHeld(q)
    BY <1>10, <1>1 DEF LocksHeld
  <1>11. CASE Validate(q)
    BY <1>11, <1>1 DEF Validate
  <1>12. CASE Precheck(q)
    BY <1>12, <1>1 DEF Precheck
  <1>13. CASE MarkCommitting(q)
    BY <1>13, <1>1 DEF MarkCommitting
  <1>14. CASE InstallCheck(q)
    BY <1>14, <1>1 DEF InstallCheck
  <1>15. CASE Replace(q)
    BY <1>15, <1>1 DEF Replace
  <1>16. CASE Record(q)
    BY <1>16, <1>1 DEF Record
  <1>17. CASE InstallDone(q)
    BY <1>17, <1>1 DEF InstallDone
  <1>18. CASE Verify(q)
    BY <1>18, <1>1 DEF Verify
  <1>19. CASE Finish(q)
    BY <1>19, <1>1 DEF Finish
  <1>20. CASE RestoreCheck(q)
    BY <1>20, <1>1 DEF RestoreCheck
  <1>21. CASE Undo(q)
    BY <1>21, <1>1 DEF Undo
  <1>22. CASE RollBack(q)
    BY <1>22, <1>1 DEF RollBack
  <1>23. CASE Crash(q)
    BY <1>23, <1>1 DEF Crash
  <1>24. CASE ReplaceFails(q)
    BY <1>24, <1>1 DEF ReplaceFails
  <1>25. CASE UndoFails(q)
    BY <1>25, <1>1 DEF UndoFails
  <1> QED BY <1>2, <1>3, <1>4, <1>5, <1>6, <1>7, <1>8, <1>9, <1>10, 
             <1>11, <1>12, <1>13, <1>14, <1>15, <1>16, <1>17, <1>18, 
             <1>19, <1>20, <1>21, <1>22, <1>23, <1>24, <1>25 DEF Step

LEMMA VerifyStep ==
    ASSUME TypeInv, NEW q \in Procs, pc'[q] = "verify",
           Step(q) \/ Crash(q) \/ ReplaceFails(q) \/ UndoFails(q)
    PROVE  /\ UNCHANGED dest /\ txn'[q] = txn[q]
           /\ \/ k'[q] = 1
              \/ /\ pc[q] = "verify" /\ k'[q] = k[q] + 1
                 /\ dest[Entry(q)] = Want(q)
                 /\ unseen' = [unseen EXCEPT ![q] = @ \ {Entry(q)}]
  <1>1. CASE Scan(q)
    BY <1>1, TypeInv DEF Scan, TypeInv, StateOK, LocalOK, To, Leave
  <1>2. CASE ScanDone(q)
    BY <1>2, TypeInv DEF ScanDone, TypeInv, StateOK, LocalOK, To, Leave
  <1>3. CASE EntryRead(q)
    BY <1>3, TypeInv DEF EntryRead, TypeInv, StateOK, LocalOK, To, Leave
  <1>4. CASE EntryBlob(q)
    BY <1>4, TypeInv DEF EntryBlob, TypeInv, StateOK, LocalOK, To, Leave
  <1>5. CASE Publish(q)
    BY <1>5, TypeInv DEF Publish, TypeInv, StateOK, LocalOK, To, Leave
  <1>6. CASE CommitRead(q)
    BY <1>6, TypeInv DEF CommitRead, TypeInv, StateOK, LocalOK, To, Leave
  <1>7. CASE Discard(q)
    BY <1>7, TypeInv DEF Discard, TypeInv, StateOK, LocalOK, To, Leave
  <1>8. CASE AcquireLock(q)
    BY <1>8, TypeInv DEF AcquireLock, local
  <1>9. CASE LocksHeld(q)
    BY <1>9, TypeInv DEF LocksHeld, TypeInv, StateOK, LocalOK, To, Leave
  <1>10. CASE Validate(q)
    BY <1>10, TypeInv DEF Validate, TypeInv, StateOK, LocalOK, To, Leave
  <1>11. CASE Precheck(q)
    BY <1>11, TypeInv DEF Precheck, TypeInv, StateOK, LocalOK, To, Leave
  <1>12. CASE MarkCommitting(q)
    BY <1>12, TypeInv DEF MarkCommitting, TypeInv, StateOK, LocalOK, To, Leave
  <1>13. CASE InstallCheck(q)
    BY <1>13, TypeInv DEF InstallCheck, TypeInv, StateOK, LocalOK, To, Leave
  <1>14. CASE Replace(q)
    BY <1>14, TypeInv DEF Replace, TypeInv, StateOK, LocalOK, To, Leave
  <1>15. CASE Record(q)
    BY <1>15, TypeInv DEF Record, TypeInv, StateOK, LocalOK, To, Leave
  <1>16. CASE InstallDone(q)
    BY <1>16, TypeInv DEF InstallDone, TypeInv, StateOK, LocalOK, To, Leave, disk
  <1>17. CASE Verify(q)
    BY <1>17, TypeInv DEF Verify, Look, TypeInv, StateOK, LocalOK, To, Leave, disk
  <1>18. CASE Finish(q)
    BY <1>18, TypeInv DEF Finish, TypeInv, StateOK, LocalOK, To, Leave
  <1>19. CASE RestoreCheck(q)
    BY <1>19, TypeInv DEF RestoreCheck, TypeInv, StateOK, LocalOK, To, Leave
  <1>20. CASE Undo(q)
    BY <1>20, TypeInv DEF Undo, TypeInv, StateOK, LocalOK, To, Leave
  <1>21. CASE RollBack(q)
    BY <1>21, TypeInv DEF RollBack, TypeInv, StateOK, LocalOK, To, Leave
  <1>22. CASE Crash(q)
    BY <1>22, TypeInv DEF Crash, TypeInv, StateOK, LocalOK, To, Leave
  <1>23. CASE ReplaceFails(q)
    BY <1>23, TypeInv DEF ReplaceFails, TypeInv, StateOK, LocalOK, To, Leave
  <1>24. CASE UndoFails(q)
    BY <1>24, TypeInv DEF UndoFails, TypeInv, StateOK, LocalOK, To, Leave
  <1> QED BY <1>1, <1>2, <1>3, <1>4, <1>5, <1>6, <1>7, <1>8, <1>9, 
             <1>10, <1>11, <1>12, <1>13, <1>14, <1>15, <1>16, <1>17, 
             <1>18, <1>19, <1>20, <1>21, <1>22, <1>23, <1>24 DEF Step

LEMMA ViewStep ==
    ASSUME TypeInv, ViewInv, NEW q \in Procs,
           Step(q) \/ Crash(q) \/ ReplaceFails(q) \/ UndoFails(q)
    PROVE  view'[q].phase # "COMMITTED"
  <1> USE DEF ViewInv
  <1>1. CASE Scan(q)
    <2>1. view' = view \/ view' = [view EXCEPT ![q] = NoPayload]
      BY <1>1 DEF Scan, Leave
    <2> QED BY <2>1 DEF TypeInv, StateOK, LocalOK, NoPayload
  <1>2. CASE ScanDone(q)
    BY <1>2, TypeInv DEF ScanDone, TypeInv, StateOK, LocalOK, DiskOK, Leave, NoPayload, Payloads
  <1>3. CASE EntryRead(q)
    BY <1>3, TypeInv DEF EntryRead, TypeInv, StateOK, LocalOK, DiskOK, Leave, NoPayload, Payloads
  <1>4. CASE EntryBlob(q)
    BY <1>4, TypeInv DEF EntryBlob, TypeInv, StateOK, LocalOK, DiskOK, Leave, NoPayload, Payloads
  <1>5. CASE Publish(q)
    BY <1>5, TypeInv DEF Publish, TypeInv, StateOK, LocalOK, DiskOK, Leave, NoPayload, Payloads
  <1>6. CASE CommitRead(q)
    BY <1>6, TypeInv DEF CommitRead, TypeInv, StateOK, LocalOK, DiskOK, Leave, NoPayload, Payloads
  <1>7. CASE Discard(q)
    BY <1>7, TypeInv DEF Discard, TypeInv, StateOK, LocalOK, DiskOK, Leave, NoPayload, Payloads
  <1>8. CASE AcquireLock(q)
    BY <1>8, TypeInv DEF AcquireLock, local
  <1>9. CASE LocksHeld(q)
    BY <1>9, TypeInv DEF LocksHeld, TypeInv, StateOK, LocalOK, DiskOK, Leave, NoPayload, Payloads
  <1>10. CASE Validate(q)
    BY <1>10, TypeInv DEF Validate, TypeInv, StateOK, LocalOK, DiskOK, Leave, NoPayload, Payloads
  <1>11. CASE Precheck(q)
    BY <1>11, TypeInv DEF Precheck, TypeInv, StateOK, LocalOK, DiskOK, Leave, NoPayload, Payloads
  <1>12. CASE MarkCommitting(q)
    BY <1>12, TypeInv DEF MarkCommitting, TypeInv, StateOK, LocalOK, DiskOK, Leave, NoPayload, Payloads
  <1>13. CASE InstallCheck(q)
    BY <1>13, TypeInv DEF InstallCheck, TypeInv, StateOK, LocalOK, DiskOK, Leave, NoPayload, Payloads
  <1>14. CASE Replace(q)
    BY <1>14, TypeInv DEF Replace, TypeInv, StateOK, LocalOK, DiskOK, Leave, NoPayload, Payloads
  <1>15. CASE Record(q)
    BY <1>15, TypeInv DEF Record, Flagged, TypeInv, StateOK, LocalOK, DiskOK, Leave, NoPayload, Payloads
  <1>16. CASE InstallDone(q)
    BY <1>16, TypeInv DEF InstallDone, TypeInv, StateOK, LocalOK, DiskOK, Leave, NoPayload, Payloads
  <1>17. CASE Verify(q)
    BY <1>17, TypeInv DEF Verify, TypeInv, StateOK, LocalOK, DiskOK, Leave, NoPayload, Payloads
  <1>18. CASE Finish(q)
    BY <1>18, TypeInv DEF Finish, TypeInv, StateOK, LocalOK, DiskOK, Leave, NoPayload, Payloads
  <1>19. CASE RestoreCheck(q)
    BY <1>19, TypeInv DEF RestoreCheck, TypeInv, StateOK, LocalOK, DiskOK, Leave, NoPayload, Payloads
  <1>20. CASE Undo(q)
    BY <1>20, TypeInv DEF Undo, TypeInv, StateOK, LocalOK, DiskOK, Leave, NoPayload, Payloads
  <1>21. CASE RollBack(q)
    BY <1>21, TypeInv DEF RollBack, TypeInv, StateOK, LocalOK, DiskOK, Leave, NoPayload, Payloads
  <1>22. CASE Crash(q)
    BY <1>22, TypeInv DEF Crash, TypeInv, StateOK, LocalOK, DiskOK, Leave, NoPayload, Payloads
  <1>23. CASE ReplaceFails(q)
    BY <1>23, TypeInv DEF ReplaceFails, TypeInv, StateOK, LocalOK, DiskOK, Leave, NoPayload, Payloads
  <1>24. CASE UndoFails(q)
    BY <1>24, TypeInv DEF UndoFails, TypeInv, StateOK, LocalOK, DiskOK, Leave, NoPayload, Payloads
  <1> QED BY <1>1, <1>2, <1>3, <1>4, <1>5, <1>6, <1>7, <1>8, <1>9, 
             <1>10, <1>11, <1>12, <1>13, <1>14, <1>15, <1>16, <1>17, 
             <1>18, <1>19, <1>20, <1>21, <1>22, <1>23, <1>24 DEF Step

LEMMA CommitStep ==
    ASSUME CommitInv, [Next]_vars
    PROVE  VerifiedInv' /\ ViewInv'
  <1> USE DEF CommitInv
  <1>1. ASSUME NEW q \in Procs, Step(q) \/ Crash(q) \/ ReplaceFails(q) \/ UndoFails(q)
        PROVE  VerifiedInv' /\ ViewInv'
    <2>1. ViewInv'
      BY <1>1, ViewStep, StepOther DEF ViewInv, Untouched
    <2>2. \A p \in Procs : p # q => unseen'[p] = unseen[p]
      BY <1>1, StepHistory
    <2>3. SUFFICES ASSUME NEW p \in Procs, pc'[p] = "verify",
                          NEW i \in 1..Len(Writes[txn'[p]]), i < k'[p]
                   PROVE  \/ dest'[Writes[txn'[p]][i]] = Desired[txn'[p]][Writes[txn'[p]][i]]
                          \/ Writes[txn'[p]][i] \in unseen'[p]
      BY <2>1 DEF VerifiedInv
    <2>4. CASE p = q
      <3>1. txn[q] \in Txns /\ txn'[q] = txn[q] /\ UNCHANGED dest
        BY <1>1, <2>3, <2>4, NextType, VerifyStep DEF Next, Environment, TypeInv, IndexOK
      <3>2. k'[q] # 1
        BY <2>3, <2>4, <3>1, PlanFacts
      <3>3. /\ pc[q] = "verify" /\ k'[q] = k[q] + 1 /\ dest[Entry(q)] = Want(q)
            /\ unseen'[q] = unseen[q] \ {Entry(q)}
        BY <1>1, <2>3, <2>4, <3>2, VerifyStep DEF HistoryOK
      <3>4. k[q] \in Nat
        BY DEF TypeInv, StateOK, LocalOK
      <3>5. CASE i = k[q]
        BY <2>4, <3>1, <3>3, <3>5 DEF Entry, Want
      <3>6. CASE i < k[q]
        <4>1. Writes[txn[q]][i] # Entry(q) \/ dest[Writes[txn[q]][i]] = Want(q)
          BY <3>3
        <4>2. Writes[txn[q]][i] = Entry(q) => Want(q) = Desired[txn[q]][Writes[txn[q]][i]]
          BY DEF Want
        <4> QED BY <2>3, <2>4, <3>1, <3>3, <3>6, <4>1, <4>2 DEF VerifiedInv
      <3> QED BY <2>3, <2>4, <3>1, <3>3, <3>4, <3>5, <3>6, PlanFacts
    <2>5. CASE p # q
      <3>1. /\ pc[p] = "verify" /\ txn'[p] = txn[p] /\ k'[p] = k[p]
            /\ \A r \in Locks : holder[r] = p => holder'[r] = p
        BY <1>1, <2>3, <2>5, StepOther DEF Untouched
      <3>2. txn[p] \in Txns
        BY <3>1 DEF TypeInv, IndexOK
      <3> DEFINE d == Writes[txn[p]][i]
      <3>3. d \in Paths /\ d \in Wants(txn[p])
        BY <2>3, <3>1, <3>2, PlanFacts
      <3>4. holder[d] = p
        BY <3>1, <3>3 DEF CoveredInv, Critical
      <3>5. dest'[d] = dest[d]
        BY <1>1, <2>5, <3>3, <3>4, WriterHolds
      <3>6. unseen'[p] = unseen[p]
        BY <2>2, <2>5
      <3>7. dest[d] = Desired[txn[p]][d] \/ d \in unseen[p]
        BY <2>3, <3>1 DEF VerifiedInv
      <3> QED BY <2>3, <3>1, <3>5, <3>6, <3>7
    <2> QED BY <2>4, <2>5
  <1>2. ASSUME NEW q \in Procs, NEW t \in Txns, Prepare(q, t) \/ RecoverRead(q, t)
        PROVE  VerifiedInv' /\ ViewInv'
    <2>1. UNCHANGED <<dest, unseen>>
      BY <1>2 DEF Prepare, RecoverRead, disk
    <2>2. VerifiedInv'
      BY <1>2, <2>1, OtherActions DEF Call, VerifiedInv, Critical
    <2>3. ViewInv'
      BY <1>2 DEF Prepare, RecoverRead, Recoverable, ViewInv, TypeInv, StateOK, LocalOK, DiskOK
    <2> QED BY <2>2, <2>3
  <1>3. ASSUME NEW d \in Paths, NEW s \in States, Edit(d, s)
        PROVE  VerifiedInv' /\ ViewInv'
    <2>1. /\ UNCHANGED <<pc, txn, k, view>> /\ dest' = [dest EXCEPT ![d] = s]
          /\ \A p \in Procs : pc[p] = "verify" => unseen'[p] = unseen[p] \cup {d}
      BY <1>3, EditHistory DEF Edit, local, Critical
    <2>2. \A c \in Paths : dest'[c] = dest[c] \/ c = d
      BY <2>1 DEF TypeInv, StateOK, DiskOK
    <2>3. \A p \in Procs : pc[p] = "verify" => txn[p] \in Txns
      BY DEF TypeInv, IndexOK
    <2>4. \A p \in Procs : pc[p] = "verify" =>
             \A i \in 1..Len(Writes[txn[p]]) : Writes[txn[p]][i] \in Paths
      BY <2>3, PlanFacts
    <2> QED BY <2>1, <2>2, <2>4 DEF VerifiedInv, ViewInv
  <1>4. CASE \E t \in Txns, d \in Paths, kind \in BlobKinds : Corrupt(t, d, kind)
    BY <1>4 DEF Corrupt, local, VerifiedInv, ViewInv
  <1>5. CASE UNCHANGED vars
    BY <1>5 DEF vars, local, disk, VerifiedInv, ViewInv
  <1> QED BY <1>1, <1>2, <1>3, <1>4, <1>5 DEF Next, Environment, Call

\* Only Finish makes a journal COMMITTED.
LEMMA CommittedByFinish ==
    ASSUME TypeInv, ViewInv, NEW q \in Procs, NEW t \in Txns,
           Step(q) \/ Crash(q) \/ ReplaceFails(q) \/ UndoFails(q),
           journal'[t].phase = "COMMITTED", journal[t].phase # "COMMITTED"
    PROVE  Finish(q) /\ t = txn[q]
  <1> USE DEF TypeInv, StateOK, DiskOK, LocalOK, ViewInv, Payloads, WriteJournal, disk
  <1>1. CASE Scan(q)
    BY <1>1, TypeInv DEF Scan
  <1>2. CASE ScanDone(q)
    BY <1>2, TypeInv DEF ScanDone
  <1>3. CASE EntryRead(q)
    BY <1>3, TypeInv DEF EntryRead
  <1>4. CASE EntryBlob(q)
    BY <1>4, TypeInv DEF EntryBlob
  <1>5. CASE Publish(q)
    BY <1>5, TypeInv DEF Publish
  <1>6. CASE CommitRead(q)
    BY <1>6, TypeInv DEF CommitRead
  <1>7. CASE Discard(q)
    BY <1>7, TypeInv DEF Discard
  <1>8. CASE AcquireLock(q)
    BY <1>8, TypeInv DEF AcquireLock
  <1>9. CASE LocksHeld(q)
    BY <1>9, TypeInv DEF LocksHeld
  <1>10. CASE Validate(q)
    BY <1>10, TypeInv DEF Validate
  <1>11. CASE Precheck(q)
    BY <1>11, TypeInv DEF Precheck
  <1>12. CASE MarkCommitting(q)
    BY <1>12, TypeInv DEF MarkCommitting
  <1>13. CASE InstallCheck(q)
    BY <1>13, TypeInv DEF InstallCheck
  <1>14. CASE Replace(q)
    BY <1>14, TypeInv DEF Replace
  <1>15. CASE Record(q)
    BY <1>15, TypeInv DEF Record, Flagged
  <1>16. CASE InstallDone(q)
    BY <1>16, TypeInv DEF InstallDone
  <1>17. CASE Verify(q)
    BY <1>17, TypeInv DEF Verify
  <1>18. CASE Finish(q)
    BY <1>18, TypeInv DEF Finish
  <1>19. CASE RestoreCheck(q)
    BY <1>19, TypeInv DEF RestoreCheck
  <1>20. CASE Undo(q)
    BY <1>20, TypeInv DEF Undo
  <1>21. CASE RollBack(q)
    BY <1>21, TypeInv DEF RollBack
  <1>22. CASE Crash(q)
    BY <1>22, TypeInv DEF Crash
  <1>23. CASE ReplaceFails(q)
    BY <1>23, TypeInv DEF ReplaceFails
  <1>24. CASE UndoFails(q)
    BY <1>24, TypeInv DEF UndoFails
  <1> QED BY <1>1, <1>2, <1>3, <1>4, <1>5, <1>6, <1>7, <1>8, <1>9, 
             <1>10, <1>11, <1>12, <1>13, <1>14, <1>15, <1>16, <1>17, 
             <1>18, <1>19, <1>20, <1>21, <1>22, <1>23, <1>24 DEF Step

LEMMA CommitAction ==
    ASSUME CommitInv, [Next]_vars, NEW t \in Txns,
           journal'[t].phase = "COMMITTED", journal[t].phase # "COMMITTED"
    PROVE  \E p \in Procs : /\ txn[p] = t
                            /\ \A d \in Destinations(t) :
                                  dest[d] = Desired[t][d] \/ d \in unseen[p]
  <1> USE DEF CommitInv
  <1>1. PICK q \in Procs : Step(q) \/ Crash(q) \/ ReplaceFails(q) \/ UndoFails(q)
    <2>1. CASE UNCHANGED vars
      BY <2>1 DEF vars, disk
    <2>2. ASSUME NEW p \in Procs, Call(p)
          PROVE  UNCHANGED journal
      BY <2>2, CallHistory
    <2>3. ASSUME \/ \E c \in Paths, s \in States : Edit(c, s)
                 \/ \E u \in Txns, c \in Paths, kind \in BlobKinds : Corrupt(u, c, kind)
          PROVE  UNCHANGED journal
      BY <2>3 DEF Edit, Corrupt
    <2> QED BY <2>1, <2>2, <2>3 DEF Next, Environment
  <1>2. Finish(q) /\ t = txn[q]
    BY <1>1, CommittedByFinish
  <1>3. pc[q] = "verify" /\ ~(k[q] <= Len(Writes[t])) /\ k[q] \in Nat
    BY <1>2 DEF Finish, More, Last, TypeInv, StateOK, LocalOK
  <1>4. ASSUME NEW d \in Destinations(t)
        PROVE  dest[d] = Desired[t][d] \/ d \in unseen[q]
    <2>1. PICK i \in 1..Len(Writes[t]) : d = Writes[t][i]
      BY PlanFacts DEF Destinations
    <2>2. i < k[q]
      BY <1>3, <2>1, PlanFacts
    <2> QED BY <1>2, <1>3, <2>1, <2>2 DEF VerifiedInv
  <1> QED BY <1>2, <1>4

\* The promise of the transaction: COMMITTED is written only when every
\* destination of the plan has its new state, or was changed by someone who takes
\* no lock after the committing process had verified it, for any number of racing
\* commits and recoveries, crashes and faults.
THEOREM CommitIsComplete == Spec => CommitComplete
  <1>1. Init => CommitInv
    BY InitType, InitHistory, LocksInit DEF Init, CommitInv, VerifiedInv, ViewInv, NoPayload
  <1>2. CommitInv /\ [Next]_vars => CommitInv'
    BY NextType, NextHistory, LocksStep, CommitStep DEF CommitInv
  <1>3. CommitInv /\ [Next]_vars =>
          [\A t \in Txns : InPhase(t, {"COMMITTED"})' /\ ~InPhase(t, {"COMMITTED"})
             => \E p \in Procs : /\ txn[p] = t
                                 /\ \A d \in Destinations(t) :
                                       dest[d] = Desired[t][d] \/ d \in unseen[p]]_vars
    BY CommitAction DEF InPhase
  <1> QED BY <1>1, <1>2, <1>3, PTL DEF Spec, CommitComplete

(***************************************************************************)
(* What is overwritten.                                                    *)
(***************************************************************************)
\* A transaction that is being prepared has no journal and no other process.
PreparerInv ==
    \A p \in Procs : pc[p] \in Preparing =>
        /\ journal[txn[p]].phase = "ABSENT"
        /\ \A q \in Procs : q # p => txn[q] # txn[p]

\* What the check of an entry has seen is still so when the entry is written.
CheckedInv ==
    \A p \in Procs :
        /\ pc[p] = "replace" => dest[Entry(p)] = Before(p) \/ Entry(p) \in unseen[p]
        /\ pc[p] = "undo" => dest[Entry(p)] = Want(p) \/ Entry(p) \in unseen[p]

OverwriteInv == TypeInv /\ HistoryOK /\ CoveredInv /\ PreparerInv /\ CheckedInv

\* A step of q changes the records of its own transaction only, the
\* preconditions only while it prepares.
LEMMA StepRecords ==
    ASSUME TypeInv, NEW q \in Procs,
           Step(q) \/ Crash(q) \/ ReplaceFails(q) \/ UndoFails(q)
    PROVE  /\ before' = before \/ pc[q] = "entry"
           /\ \A t \in Txns : t # txn[q] => before'[t] = before[t] /\ journal'[t] = journal[t]
  <1> USE DEF TypeInv, StateOK, DiskOK, WriteJournal, disk
  <1>1. CASE Scan(q)
    BY <1>1 DEF Scan
  <1>2. CASE ScanDone(q)
    BY <1>2 DEF ScanDone
  <1>3. CASE EntryRead(q)
    BY <1>3 DEF EntryRead
  <1>4. CASE EntryBlob(q)
    BY <1>4 DEF EntryBlob
  <1>5. CASE Publish(q)
    BY <1>5 DEF Publish
  <1>6. CASE CommitRead(q)
    BY <1>6 DEF CommitRead
  <1>7. CASE Discard(q)
    BY <1>7 DEF Discard
  <1>8. CASE AcquireLock(q)
    BY <1>8 DEF AcquireLock
  <1>9. CASE LocksHeld(q)
    BY <1>9 DEF LocksHeld
  <1>10. CASE Validate(q)
    BY <1>10 DEF Validate
  <1>11. CASE Precheck(q)
    BY <1>11 DEF Precheck
  <1>12. CASE MarkCommitting(q)
    BY <1>12 DEF MarkCommitting
  <1>13. CASE InstallCheck(q)
    BY <1>13 DEF InstallCheck
  <1>14. CASE Replace(q)
    BY <1>14 DEF Replace
  <1>15. CASE Record(q)
    BY <1>15 DEF Record
  <1>16. CASE InstallDone(q)
    BY <1>16 DEF InstallDone
  <1>17. CASE Verify(q)
    BY <1>17 DEF Verify
  <1>18. CASE Finish(q)
    BY <1>18 DEF Finish
  <1>19. CASE RestoreCheck(q)
    BY <1>19 DEF RestoreCheck
  <1>20. CASE Undo(q)
    BY <1>20 DEF Undo
  <1>21. CASE RollBack(q)
    BY <1>21 DEF RollBack
  <1>22. CASE Crash(q)
    BY <1>22 DEF Crash
  <1>23. CASE ReplaceFails(q)
    BY <1>23 DEF ReplaceFails
  <1>24. CASE UndoFails(q)
    BY <1>24 DEF UndoFails
  <1> QED BY <1>1, <1>2, <1>3, <1>4, <1>5, <1>6, <1>7, <1>8, <1>9, <1>10,
             <1>11, <1>12, <1>13, <1>14, <1>15, <1>16, <1>17, <1>18,
             <1>19, <1>20, <1>21, <1>22, <1>23, <1>24 DEF Step

\* A step of q keeps its transaction or ends it, and prepares what it prepared.
LEMMA StepPrepares ==
    ASSUME TypeInv, NEW q \in Procs,
           Step(q) \/ Crash(q) \/ ReplaceFails(q) \/ UndoFails(q)
    PROVE  /\ txn'[q] \in {txn[q], None}
           /\ pc'[q] \in Preparing =>
                 pc[q] \in Preparing /\ txn'[q] = txn[q] /\ journal' = journal
  <1> USE DEF TypeInv, StateOK, LocalOK, To, Leave, Preparing, disk, local
  <1>1. CASE Scan(q)
    BY <1>1 DEF Scan
  <1>2. CASE ScanDone(q)
    BY <1>2 DEF ScanDone
  <1>3. CASE EntryRead(q)
    BY <1>3 DEF EntryRead
  <1>4. CASE EntryBlob(q)
    BY <1>4 DEF EntryBlob
  <1>5. CASE Publish(q)
    BY <1>5 DEF Publish
  <1>6. CASE CommitRead(q)
    BY <1>6 DEF CommitRead
  <1>7. CASE Discard(q)
    BY <1>7 DEF Discard
  <1>8. CASE AcquireLock(q)
    BY <1>8 DEF AcquireLock
  <1>9. CASE LocksHeld(q)
    BY <1>9 DEF LocksHeld
  <1>10. CASE Validate(q)
    BY <1>10 DEF Validate
  <1>11. CASE Precheck(q)
    BY <1>11 DEF Precheck
  <1>12. CASE MarkCommitting(q)
    BY <1>12 DEF MarkCommitting
  <1>13. CASE InstallCheck(q)
    BY <1>13 DEF InstallCheck
  <1>14. CASE Replace(q)
    BY <1>14 DEF Replace
  <1>15. CASE Record(q)
    BY <1>15 DEF Record
  <1>16. CASE InstallDone(q)
    BY <1>16 DEF InstallDone
  <1>17. CASE Verify(q)
    BY <1>17 DEF Verify
  <1>18. CASE Finish(q)
    BY <1>18 DEF Finish
  <1>19. CASE RestoreCheck(q)
    BY <1>19 DEF RestoreCheck
  <1>20. CASE Undo(q)
    BY <1>20 DEF Undo
  <1>21. CASE RollBack(q)
    BY <1>21 DEF RollBack
  <1>22. CASE Crash(q)
    BY <1>22 DEF Crash
  <1>23. CASE ReplaceFails(q)
    BY <1>23 DEF ReplaceFails
  <1>24. CASE UndoFails(q)
    BY <1>24 DEF UndoFails
  <1> QED BY <1>1, <1>2, <1>3, <1>4, <1>5, <1>6, <1>7, <1>8, <1>9, <1>10,
             <1>11, <1>12, <1>13, <1>14, <1>15, <1>16, <1>17, <1>18,
             <1>19, <1>20, <1>21, <1>22, <1>23, <1>24 DEF Step

\* The write of an entry is begun right after its check.
LEMMA StepChecks ==
    ASSUME TypeInv, NEW q \in Procs, pc'[q] \in {"replace", "undo"},
           Step(q) \/ Crash(q) \/ ReplaceFails(q) \/ UndoFails(q)
    PROVE  /\ UNCHANGED <<dest, before>> /\ txn'[q] = txn[q]
           /\ pc'[q] = "replace" => dest[Writes[txn[q]][k'[q]]] = before[txn[q]][Writes[txn[q]][k'[q]]]
           /\ pc'[q] = "undo" => dest[Writes[txn[q]][k'[q]]] = Desired[txn[q]][Writes[txn[q]][k'[q]]]
  <1> USE DEF TypeInv, StateOK, LocalOK, To, Leave, disk, local
  <1>1. CASE Scan(q)
    BY <1>1 DEF Scan
  <1>2. CASE ScanDone(q)
    BY <1>2 DEF ScanDone
  <1>3. CASE EntryRead(q)
    BY <1>3 DEF EntryRead
  <1>4. CASE EntryBlob(q)
    BY <1>4 DEF EntryBlob
  <1>5. CASE Publish(q)
    BY <1>5 DEF Publish
  <1>6. CASE CommitRead(q)
    BY <1>6 DEF CommitRead
  <1>7. CASE Discard(q)
    BY <1>7 DEF Discard
  <1>8. CASE AcquireLock(q)
    BY <1>8 DEF AcquireLock
  <1>9. CASE LocksHeld(q)
    BY <1>9 DEF LocksHeld
  <1>10. CASE Validate(q)
    BY <1>10 DEF Validate
  <1>11. CASE Precheck(q)
    BY <1>11 DEF Precheck
  <1>12. CASE MarkCommitting(q)
    BY <1>12 DEF MarkCommitting
  <1>13. CASE InstallCheck(q)
    BY <1>13 DEF InstallCheck, Ready, Before, Entry, Want
  <1>14. CASE Replace(q)
    BY <1>14 DEF Replace
  <1>15. CASE Record(q)
    BY <1>15 DEF Record
  <1>16. CASE InstallDone(q)
    BY <1>16 DEF InstallDone
  <1>17. CASE Verify(q)
    BY <1>17 DEF Verify
  <1>18. CASE Finish(q)
    BY <1>18 DEF Finish
  <1>19. CASE RestoreCheck(q)
    BY <1>19 DEF RestoreCheck
  <1>20. CASE Undo(q)
    BY <1>20 DEF Undo
  <1>21. CASE RollBack(q)
    BY <1>21 DEF RollBack
  <1>22. CASE Crash(q)
    BY <1>22 DEF Crash
  <1>23. CASE ReplaceFails(q)
    BY <1>23 DEF ReplaceFails
  <1>24. CASE UndoFails(q)
    BY <1>24 DEF UndoFails
  <1> QED BY <1>1, <1>2, <1>3, <1>4, <1>5, <1>6, <1>7, <1>8, <1>9, <1>10,
             <1>11, <1>12, <1>13, <1>14, <1>15, <1>16, <1>17, <1>18,
             <1>19, <1>20, <1>21, <1>22, <1>23, <1>24 DEF Step

LEMMA PreparerStep ==
    ASSUME OverwriteInv, [Next]_vars
    PROVE  PreparerInv'
  <1> USE DEF OverwriteInv
  <1>1. \A p \in Procs : pc[p] \in Preparing => txn[p] \in Txns
    BY DEF TypeInv, IndexOK, Preparing
  <1>2. ASSUME NEW q \in Procs, Step(q) \/ Crash(q) \/ ReplaceFails(q) \/ UndoFails(q)
        PROVE  PreparerInv'
    <2>1. SUFFICES ASSUME NEW p \in Procs, pc'[p] \in Preparing
                   PROVE  /\ journal'[txn'[p]].phase = "ABSENT"
                          /\ \A r \in Procs : r # p => txn'[r] # txn'[p]
      BY DEF PreparerInv
    <2>2. \A r \in Procs : r # q => pc'[r] = pc[r] /\ txn'[r] = txn[r]
      BY <1>2, StepOther DEF Untouched
    <2>3. CASE p = q
      BY <1>2, <2>1, <2>2, <2>3, StepPrepares DEF PreparerInv
    <2>4. CASE p # q
      <3>1. pc[p] \in Preparing /\ txn'[p] = txn[p] /\ txn[p] \in Txns
        BY <1>1, <2>1, <2>2, <2>4
      <3>2. txn[q] # txn[p] /\ txn'[q] # txn[p]
        BY <1>2, <2>4, <3>1, StepPrepares, ConstantsAssumption DEF PreparerInv
      <3>3. journal'[txn[p]] = journal[txn[p]]
        BY <1>2, <3>1, <3>2, StepRecords
      <3> QED BY <2>2, <3>1, <3>2, <3>3 DEF PreparerInv
    <2> QED BY <2>3, <2>4
  <1>3. ASSUME NEW q \in Procs, NEW t \in Txns, Prepare(q, t)
        PROVE  PreparerInv'
    <2>1. /\ journal[t].phase = "ABSENT" /\ journal' = journal
          /\ \A r \in Procs : txn[r] # t
      BY <1>3 DEF Prepare, Working
    <2>2. /\ txn'[q] = t
          /\ \A r \in Procs : r # q => pc'[r] = pc[r] /\ txn'[r] = txn[r]
      BY <1>3 DEF Prepare, TypeInv, StateOK, LocalOK
    <2> QED BY <1>1, <2>1, <2>2 DEF PreparerInv
  <1>4. ASSUME NEW q \in Procs, NEW t \in Txns, RecoverRead(q, t)
        PROVE  PreparerInv'
    <2>1. journal[t].phase # "ABSENT" /\ journal' = journal
      BY <1>4 DEF RecoverRead, Recoverable, disk
    <2>2. /\ txn'[q] = t /\ pc'[q] \notin Preparing
          /\ \A r \in Procs : r # q => pc'[r] = pc[r] /\ txn'[r] = txn[r]
      BY <1>4 DEF RecoverRead, Preparing, TypeInv, StateOK, LocalOK
    <2> QED BY <1>1, <2>1, <2>2 DEF PreparerInv
  <1>5. CASE \/ \E d \in Paths, s \in States : Edit(d, s)
             \/ \E t \in Txns, d \in Paths, kind \in BlobKinds : Corrupt(t, d, kind)
    BY <1>5 DEF Edit, Corrupt, local, PreparerInv
  <1>6. CASE UNCHANGED vars
    BY <1>6 DEF vars, local, disk, PreparerInv
  <1> QED BY <1>2, <1>3, <1>4, <1>5, <1>6 DEF Next, Environment, Call

LEMMA CheckedStep ==
    ASSUME OverwriteInv, [Next]_vars
    PROVE  CheckedInv'
  <1> USE DEF OverwriteInv
  <1>1. \A p \in Procs : pc[p] \in {"replace", "undo"} =>
          /\ txn[p] \in Txns /\ k[p] \in 1..Len(Writes[txn[p]])
          /\ Writes[txn[p]][k[p]] \in Paths /\ holder[Writes[txn[p]][k[p]]] = p
    <2> SUFFICES ASSUME NEW p \in Procs, pc[p] \in {"replace", "undo"}
                 PROVE  /\ txn[p] \in Txns /\ k[p] \in 1..Len(Writes[txn[p]])
                        /\ Writes[txn[p]][k[p]] \in Paths /\ holder[Writes[txn[p]][k[p]]] = p
      OBVIOUS
    <2>1. txn[p] \in Txns /\ k[p] \in 1..Len(Writes[txn[p]])
      BY DEF TypeInv, IndexOK
    <2>2. \A r \in Wants(txn[p]) : holder[r] = p
      BY DEF CoveredInv, Critical
    <2> QED BY <2>1, <2>2, PlanFacts
  <1>2. \A p \in Procs :
          /\ pc[p] = "replace" => \/ dest[Writes[txn[p]][k[p]]] = before[txn[p]][Writes[txn[p]][k[p]]]
                                  \/ Writes[txn[p]][k[p]] \in unseen[p]
          /\ pc[p] = "undo" => \/ dest[Writes[txn[p]][k[p]]] = Desired[txn[p]][Writes[txn[p]][k[p]]]
                               \/ Writes[txn[p]][k[p]] \in unseen[p]
    BY DEF CheckedInv, Entry, Before, Want
  <1>3. SUFFICES ASSUME NEW p \in Procs, pc'[p] \in {"replace", "undo"}
                 PROVE  LET d == Writes[txn'[p]][k'[p]] IN
                        /\ pc'[p] = "replace" => dest'[d] = before'[txn'[p]][d] \/ d \in unseen'[p]
                        /\ pc'[p] = "undo" => dest'[d] = Desired[txn'[p]][d] \/ d \in unseen'[p]
    BY DEF CheckedInv, Entry, Before, Want
  <1>4. ASSUME NEW q \in Procs, Step(q) \/ Crash(q) \/ ReplaceFails(q) \/ UndoFails(q)
        PROVE  LET d == Writes[txn'[p]][k'[p]] IN
               /\ pc'[p] = "replace" => dest'[d] = before'[txn'[p]][d] \/ d \in unseen'[p]
               /\ pc'[p] = "undo" => dest'[d] = Desired[txn'[p]][d] \/ d \in unseen'[p]
    <2>1. CASE p = q
      BY <1>3, <1>4, <2>1, StepChecks
    <2>2. CASE p # q
      <3>1. pc'[p] = pc[p] /\ txn'[p] = txn[p] /\ k'[p] = k[p]
        BY <1>4, <2>2, StepOther DEF Untouched
      <3>2. before'[txn[p]] = before[txn[p]]
        <4>1. txn[p] \in Txns
          BY <1>1, <1>3, <3>1
        <4>2. pc[q] = "entry" => txn[q] # txn[p]
          BY <2>2 DEF PreparerInv, Preparing
        <4> QED BY <1>4, <4>1, <4>2, StepRecords
      <3>3. dest'[Writes[txn[p]][k[p]]] = dest[Writes[txn[p]][k[p]]]
        BY <1>1, <1>3, <1>4, <2>2, <3>1, WriterHolds
      <3>4. unseen'[p] = unseen[p]
        BY <1>4, <2>2, StepHistory
      <3> QED BY <1>2, <1>3, <3>1, <3>2, <3>3, <3>4
    <2> QED BY <2>1, <2>2
  <1>5. ASSUME NEW q \in Procs, Call(q)
        PROVE  LET d == Writes[txn'[p]][k'[p]] IN
               /\ pc'[p] = "replace" => dest'[d] = before'[txn'[p]][d] \/ d \in unseen'[p]
               /\ pc'[p] = "undo" => dest'[d] = Desired[txn'[p]][d] \/ d \in unseen'[p]
    <2>1. pc'[p] = pc[p] /\ txn'[p] = txn[p] /\ k'[p] = k[p]
      BY <1>3, <1>5, OtherActions DEF Critical
    <2>2. PICK t \in Txns : Prepare(q, t) \/ RecoverRead(q, t)
      BY <1>5 DEF Call
    <2>3. UNCHANGED <<dest, unseen>>
      BY <2>2 DEF Prepare, RecoverRead, disk
    <2>4. before'[txn[p]] = before[txn[p]]
      <3>1. CASE RecoverRead(q, t)
        BY <3>1 DEF RecoverRead, disk
      <3>2. CASE Prepare(q, t)
        <4>1. txn[p] # t /\ txn[p] \in Txns
          BY <1>1, <1>3, <2>1, <3>2 DEF Prepare, Working
        <4>2. before' = [before EXCEPT ![t] = [d \in Paths |-> Missing]]
          BY <3>2 DEF Prepare
        <4>3. before \in [Txns -> [Paths -> Installable]]
          BY DEF TypeInv, StateOK, DiskOK
        <4> QED BY <4>1, <4>2, <4>3
      <3> QED BY <2>2, <3>1, <3>2
    <2> QED BY <1>2, <1>3, <2>1, <2>3, <2>4
  <1>6. ASSUME NEW c \in Paths, NEW s \in States, Edit(c, s)
        PROVE  LET d == Writes[txn'[p]][k'[p]] IN
               /\ pc'[p] = "replace" => dest'[d] = before'[txn'[p]][d] \/ d \in unseen'[p]
               /\ pc'[p] = "undo" => dest'[d] = Desired[txn'[p]][d] \/ d \in unseen'[p]
    <2>1. UNCHANGED <<pc, txn, k, before>> /\ unseen'[p] = unseen[p] \cup {c}
      BY <1>3, <1>6, EditHistory DEF Edit, local, Critical
    <2>2. \A d \in Paths : dest'[d] = dest[d] \/ d \in unseen'[p]
      BY <1>6, <2>1 DEF Edit, TypeInv, StateOK, DiskOK
    <2> QED BY <1>1, <1>2, <1>3, <2>1, <2>2
  <1>7. CASE \E t \in Txns, d \in Paths, kind \in BlobKinds : Corrupt(t, d, kind)
    <2>1. UNCHANGED <<pc, txn, k, before, dest, unseen>>
      BY <1>7 DEF Corrupt, local
    <2> QED BY <1>2, <1>3, <2>1
  <1>8. CASE UNCHANGED vars
    BY <1>2, <1>3, <1>8 DEF vars, local, disk
  <1> QED BY <1>4, <1>5, <1>6, <1>7, <1>8 DEF Next, Environment

\* A write replaces the state of the entry by the other of its two states.
LEMMA WriterWrites ==
    ASSUME TypeInv, NEW q \in Procs, pc[q] \in {"replace", "undo"}, NEW d \in Paths,
           Step(q) \/ Crash(q) \/ ReplaceFails(q) \/ UndoFails(q), dest'[d] # dest[d]
    PROVE  /\ d = Entry(q) /\ before' = before /\ edits' = edits
           /\ pc[q] = "replace" => dest'[d] = Want(q)
           /\ pc[q] = "undo" => dest'[d] = Before(q)
  <1> USE DEF TypeInv, StateOK, DiskOK, disk, env
  <1>1. CASE Scan(q)
    BY <1>1 DEF Scan
  <1>2. CASE ScanDone(q)
    BY <1>2 DEF ScanDone
  <1>3. CASE EntryRead(q)
    BY <1>3 DEF EntryRead
  <1>4. CASE EntryBlob(q)
    BY <1>4 DEF EntryBlob
  <1>5. CASE Publish(q)
    BY <1>5 DEF Publish
  <1>6. CASE CommitRead(q)
    BY <1>6 DEF CommitRead
  <1>7. CASE Discard(q)
    BY <1>7 DEF Discard
  <1>8. CASE AcquireLock(q)
    BY <1>8 DEF AcquireLock
  <1>9. CASE LocksHeld(q)
    BY <1>9 DEF LocksHeld
  <1>10. CASE Validate(q)
    BY <1>10 DEF Validate
  <1>11. CASE Precheck(q)
    BY <1>11 DEF Precheck
  <1>12. CASE MarkCommitting(q)
    BY <1>12 DEF MarkCommitting
  <1>13. CASE InstallCheck(q)
    BY <1>13 DEF InstallCheck
  <1>14. CASE Replace(q)
    BY <1>14 DEF Replace
  <1>15. CASE Record(q)
    BY <1>15 DEF Record
  <1>16. CASE InstallDone(q)
    BY <1>16 DEF InstallDone
  <1>17. CASE Verify(q)
    BY <1>17 DEF Verify
  <1>18. CASE Finish(q)
    BY <1>18 DEF Finish
  <1>19. CASE RestoreCheck(q)
    BY <1>19 DEF RestoreCheck
  <1>20. CASE Undo(q)
    BY <1>20 DEF Undo
  <1>21. CASE RollBack(q)
    BY <1>21 DEF RollBack
  <1>22. CASE Crash(q)
    BY <1>22 DEF Crash
  <1>23. CASE ReplaceFails(q)
    BY <1>23 DEF ReplaceFails
  <1>24. CASE UndoFails(q)
    BY <1>24 DEF UndoFails
  <1> QED BY <1>1, <1>2, <1>3, <1>4, <1>5, <1>6, <1>7, <1>8, <1>9, <1>10,
             <1>11, <1>12, <1>13, <1>14, <1>15, <1>16, <1>17, <1>18,
             <1>19, <1>20, <1>21, <1>22, <1>23, <1>24 DEF Step

LEMMA OverwriteAction ==
    ASSUME OverwriteInv, [Next]_vars, NEW d \in Paths, dest'[d] # dest[d], edits' = edits
    PROVE  \E p \in Procs :
              /\ pc[p] \in Critical /\ d \in Destinations(txn[p])
              /\ dest'[d] \in {before[txn[p]][d], Desired[txn[p]][d]}
              /\ dest[d] \in {before[txn[p]][d], Desired[txn[p]][d]} \/ d \in unseen[p]
  <1> USE DEF OverwriteInv
  <1>1. PICK q \in Procs : Step(q) \/ Crash(q) \/ ReplaceFails(q) \/ UndoFails(q)
    <2>1. CASE UNCHANGED vars
      BY <2>1 DEF vars, disk
    <2>2. ASSUME NEW p \in Procs, Call(p)
          PROVE  UNCHANGED dest
      BY <2>2 DEF Call, Prepare, RecoverRead, disk
    <2>3. ASSUME NEW c \in Paths, NEW s \in States, Edit(c, s)
          PROVE  edits' # edits
      <3>1. edits' = edits + 1 /\ edits \in Nat
        BY <2>3 DEF Edit, TypeInv, StateOK
      <3> QED BY <3>1
    <2>4. CASE \E u \in Txns, c \in Paths, kind \in BlobKinds : Corrupt(u, c, kind)
      BY <2>4 DEF Corrupt
    <2> QED BY <2>1, <2>2, <2>3, <2>4 DEF Next, Environment
  <1>2. pc[q] \in {"replace", "undo"}
    BY <1>1, WriterHolds
  <1>3. /\ d = Entry(q)
        /\ pc[q] = "replace" => dest'[d] = Want(q)
        /\ pc[q] = "undo" => dest'[d] = Before(q)
    BY <1>1, <1>2, WriterWrites
  <1>4. /\ pc[q] = "replace" => dest[d] = Before(q) \/ d \in unseen[q]
        /\ pc[q] = "undo" => dest[d] = Want(q) \/ d \in unseen[q]
    BY <1>3 DEF CheckedInv
  <1>5. pc[q] \in Critical /\ d \in Destinations(txn[q])
    <2>1. txn[q] \in Txns /\ k[q] \in 1..Len(Writes[txn[q]])
      BY <1>2 DEF TypeInv, IndexOK
    <2> QED BY <1>2, <1>3, <2>1, PlanFacts DEF Entry, Critical
  <1>6. Want(q) = Desired[txn[q]][d] /\ Before(q) = before[txn[q]][d]
    BY <1>3 DEF Want, Before
  <1>7. /\ dest'[d] \in {before[txn[q]][d], Desired[txn[q]][d]}
        /\ dest[d] \in {before[txn[q]][d], Desired[txn[q]][d]} \/ d \in unseen[q]
    BY <1>2, <1>3, <1>4, <1>6
  <1> QED BY <1>5, <1>7

\* What a transaction overwrites: every write of a transaction or its rollback,
\* however they race, crash or fail, puts a recorded precondition or a desired
\* state where one of these was, or was when the process last looked: a foreign
\* change is lost only between that look and the os.replace.
THEOREM OverwritesRecorded == Spec => OverwritesOnlyRecorded
  <1>1. Init => OverwriteInv
    BY InitType, InitHistory, LocksInit DEF Init, OverwriteInv, PreparerInv, CheckedInv, Preparing
  <1>2. OverwriteInv /\ [Next]_vars => OverwriteInv'
    BY NextType, NextHistory, LocksStep, PreparerStep, CheckedStep DEF OverwriteInv
  <1>3. OverwriteInv /\ [Next]_vars =>
          [\A d \in Paths : dest'[d] # dest[d] /\ edits' = edits =>
             \E p \in Procs : LET recorded == {before[txn[p]][d], Desired[txn[p]][d]} IN
                 /\ pc[p] \in Critical /\ d \in Destinations(txn[p])
                 /\ dest'[d] \in recorded
                 /\ dest[d] \in recorded \/ d \in unseen[p]]_vars
    BY OverwriteAction
  <1> QED BY <1>1, <1>2, <1>3, PTL DEF Spec, OverwritesOnlyRecorded

(***************************************************************************)
(* Who takes an outcome back.                                              *)
(***************************************************************************)
\* Nobody works with a copy of a journal that has an outcome.
OpenInv == \A p \in Procs : view[p].phase \notin Terminal

FinalInv == TypeInv /\ HistoryOK /\ OpenInv

LEMMA StepOpen ==
    ASSUME TypeInv, OpenInv, NEW q \in Procs,
           Step(q) \/ Crash(q) \/ ReplaceFails(q) \/ UndoFails(q)
    PROVE  view'[q].phase \notin Terminal
  <1> USE DEF TypeInv, StateOK, DiskOK, LocalOK, OpenInv, Payloads, Terminal, NoPayload, To, Leave, WriteJournal, disk, local
  <1>1. CASE Scan(q)
    <2>1. UNCHANGED journal /\ (view' = view \/ view' = [view EXCEPT ![q] = NoPayload])
      BY <1>1 DEF Scan
    <2> QED BY <1>1, <2>1 DEF Scan
  <1>2. CASE ScanDone(q)
    BY <1>2 DEF ScanDone
  <1>3. CASE EntryRead(q)
    BY <1>3 DEF EntryRead
  <1>4. CASE EntryBlob(q)
    BY <1>4 DEF EntryBlob
  <1>5. CASE Publish(q)
    BY <1>5 DEF Publish
  <1>6. CASE CommitRead(q)
    BY <1>6 DEF CommitRead
  <1>7. CASE Discard(q)
    BY <1>7 DEF Discard
  <1>8. CASE AcquireLock(q)
    BY <1>8 DEF AcquireLock
  <1>9. CASE LocksHeld(q)
    BY <1>9 DEF LocksHeld
  <1>10. CASE Validate(q)
    BY <1>10 DEF Validate
  <1>11. CASE Precheck(q)
    BY <1>11 DEF Precheck
  <1>12. CASE MarkCommitting(q)
    BY <1>12 DEF MarkCommitting
  <1>13. CASE InstallCheck(q)
    BY <1>13 DEF InstallCheck
  <1>14. CASE Replace(q)
    BY <1>14 DEF Replace
  <1>15. CASE Record(q)
    <2>1. Flagged(q).phase = view[q].phase
      BY DEF Flagged
    <2> HIDE DEF Flagged
    <2>2. view' = [view EXCEPT ![q] = Flagged(q)] /\ journal' = [journal EXCEPT ![txn[q]] = Flagged(q)]
      BY <1>15 DEF Record
    <2>3. pc[q] = "record"
      BY <1>15 DEF Record
    <2> QED BY <2>1, <2>2, <2>3
  <1>16. CASE InstallDone(q)
    BY <1>16 DEF InstallDone
  <1>17. CASE Verify(q)
    BY <1>17 DEF Verify
  <1>18. CASE Finish(q)
    BY <1>18 DEF Finish
  <1>19. CASE RestoreCheck(q)
    BY <1>19 DEF RestoreCheck
  <1>20. CASE Undo(q)
    BY <1>20 DEF Undo
  <1>21. CASE RollBack(q)
    BY <1>21 DEF RollBack
  <1>22. CASE Crash(q)
    BY <1>22 DEF Crash
  <1>23. CASE ReplaceFails(q)
    BY <1>23 DEF ReplaceFails
  <1>24. CASE UndoFails(q)
    BY <1>24 DEF UndoFails
  <1> QED BY <1>1, <1>2, <1>3, <1>4, <1>5, <1>6, <1>7, <1>8, <1>9, <1>10,
             <1>11, <1>12, <1>13, <1>14, <1>15, <1>16, <1>17, <1>18,
             <1>19, <1>20, <1>21, <1>22, <1>23, <1>24 DEF Step

LEMMA FinalStep ==
    ASSUME FinalInv, [Next]_vars
    PROVE  OpenInv'
  <1> USE DEF FinalInv
  <1>1. ASSUME NEW q \in Procs, Step(q) \/ Crash(q) \/ ReplaceFails(q) \/ UndoFails(q)
        PROVE  OpenInv'
    BY <1>1, StepOther, StepOpen DEF OpenInv, Untouched
  <1>2. ASSUME NEW q \in Procs, NEW t \in Txns, Prepare(q, t) \/ RecoverRead(q, t)
        PROVE  OpenInv'
    <2>1. \/ view' = view
          \/ view' = [view EXCEPT ![q] = journal[t]] /\ journal[t].phase \notin Terminal
      BY <1>2 DEF Prepare, RecoverRead, Recoverable, Terminal
    <2> QED BY <2>1 DEF OpenInv, TypeInv, StateOK, LocalOK
  <1>3. CASE \/ \E d \in Paths, s \in States : Edit(d, s)
             \/ \E t \in Txns, d \in Paths, kind \in BlobKinds : Corrupt(t, d, kind)
    BY <1>3 DEF Edit, Corrupt, local, OpenInv
  <1>4. CASE UNCHANGED vars
    BY <1>4 DEF vars, local, OpenInv
  <1> QED BY <1>1, <1>2, <1>3, <1>4 DEF Next, Environment, Call

LEMMA FinalAction ==
    ASSUME FinalInv, [Next]_vars, NEW t \in Txns, journal[t].phase \in Terminal,
           journal'[t] # journal[t]
    PROVE  <<t, "copy">> \in misled'
  <1> USE DEF FinalInv
  <1>1. ASSUME NEW q \in Procs, Step(q) \/ Crash(q) \/ ReplaceFails(q) \/ UndoFails(q)
        PROVE  <<t, "copy">> \in misled'
    <2>1. t = txn[q] /\ GoOn(q)
      BY <1>1, StepRecords, StepHistory
    <2>2. journal[t] # view[q]
      BY DEF OpenInv
    <2> QED BY <2>1, <2>2 DEF GoOn
  <1>2. ASSUME NEW q \in Procs, Call(q)
        PROVE  journal' = journal
    BY <1>2, CallHistory
  <1>3. ASSUME \/ \E d \in Paths, s \in States : Edit(d, s)
               \/ \E u \in Txns, d \in Paths, kind \in BlobKinds : Corrupt(u, d, kind)
        PROVE  journal' = journal
    BY <1>3 DEF Edit, Corrupt
  <1>4. ASSUME UNCHANGED vars PROVE journal' = journal
    BY <1>4 DEF vars, disk
  <1> QED BY <1>1, <1>2, <1>3, <1>4 DEF Next, Environment

\* COMMITTED and ROLLED_BACK are final to all who read them: whatever crashes,
\* fails or races, only a commit or recover that goes on with a copy of the
\* journal from before the outcome writes over one.
THEOREM OutcomesAreFinal == Spec => TerminalIsFinal
  <1>1. Init => FinalInv
    BY InitType, InitHistory DEF Init, FinalInv, OpenInv, NoPayload, Terminal
  <1>2. FinalInv /\ [Next]_vars => FinalInv'
    BY NextType, NextHistory, FinalStep DEF FinalInv
  <1>3. FinalInv /\ [Next]_vars =>
          [\A t \in Txns : InPhase(t, Terminal) /\ journal'[t] # journal[t]
             => <<t, "copy">> \in misled']_vars
    BY FinalAction DEF InPhase
  <1> QED BY <1>1, <1>2, <1>3, PTL DEF Spec, TerminalIsFinal

(***************************************************************************)
(* A rollback leaves nothing of its transaction behind.                    *)
(***************************************************************************)
\* Nothing happened to t that its journal does not show.
Clear(t) == \A c \in Causes : <<t, c>> \notin misled

\* What is in the checkout from t is what t wants there, and t is COMMITTING or
\* COMMITTED.
AuthorsOK(t) ==
    \A d \in Paths : author[d] = t =>
        /\ journal[t].phase \in {"COMMITTING", "COMMITTED"}
        /\ d \in Destinations(t) /\ dest[d] = Desired[t][d]

\* A crash leaves at most the entry after the recorded ones unrecorded.
OrphanIsNext(t) ==
    \A j \in 1..Len(Writes[t]) :
        author[Writes[t][j]] = t /\ Writes[t][j] \notin journal[t].installed
          => \A i \in 1..(j - 1) : Writes[t][i] \in journal[t].installed

TraceOK(t) ==
    /\ AuthorsOK(t)
    /\ journal[t].phase = "COMMITTING" => bad[t] = {} /\ OrphanIsNext(t)

Installing == {"install", "replace", "record", "verify", "restore", "undo"}

\* p installs or restores, so the journal is COMMITTING and p's copy is true;
\* before that, p's copy is at the stage at which p read it.
Current(p) ==
    pc[p] \in Installing \/ (pc[p] = "validate" /\ op[p] # "commit")
StageOK(p) ==
    /\ Current(p) => journal[txn[p]].phase = "COMMITTING" /\ view[p] = journal[txn[p]]
    /\ pc[p] \in {"discard", "precheck"} => view[p].phase = "PREPARED"
    /\ pc[p] \in {"lock", "validate"}
          => view[p].phase = IF op[p] = "commit" THEN "PREPARED" ELSE "COMMITTING"

\* The first n entries are recorded as installed.
Recorded(p, n) ==
    \A i \in 1..Len(Writes[txn[p]]) : i <= n => Writes[txn[p]][i] \in view[p].installed

\* All that is in the checkout from p's transaction is among its first n entries
\* and recorded, so the rollback gets to it.
InReach(p, n) ==
    \A d \in Paths : author[d] = txn[p] =>
        \E i \in 1..Len(Writes[txn[p]]) :
            i <= n /\ Writes[txn[p]][i] = d /\ d \in view[p].installed

\* Somebody changed one of the first n entries after it was recorded, so the
\* rollback gets stuck on it.
WillConflict(p, n) ==
    \E i \in 1..Len(Writes[txn[p]]) :
        /\ i <= n /\ Writes[txn[p]][i] \in view[p].installed
        /\ dest[Writes[txn[p]][i]] # Desired[txn[p]][Writes[txn[p]][i]]

WorkOK(p) ==
    /\ StageOK(p)
    /\ pc[p] = "precheck" => bad[txn[p]] = {}
    /\ pc[p] \in {"install", "replace", "record"} => Recorded(p, k[p] - 1)
    /\ pc[p] = "replace" => dest[Writes[txn[p]][k[p]]] # Desired[txn[p]][Writes[txn[p]][k[p]]]
    /\ pc[p] = "verify" => Recorded(p, Len(Writes[txn[p]]))
    /\ pc[p] = "restore" => InReach(p, k[p]) \/ WillConflict(p, k[p])
    /\ pc[p] = "undo" => InReach(p, k[p]) \/ WillConflict(p, k[p] - 1)

TraceInv ==
    /\ \A t \in Txns : Clear(t) => TraceOK(t)
    /\ \A p \in Procs : pc[p] # "idle" /\ Clear(txn[p]) => WorkOK(p)

CleanInv == OverwriteInv /\ TraceInv

\* A step of q writes a destination for its transaction or takes it back, and
\* damages no other transaction's blobs.
LEMMA StepAuthors ==
    ASSUME TypeInv, NEW q \in Procs,
           Step(q) \/ Crash(q) \/ ReplaceFails(q) \/ UndoFails(q)
    PROVE  /\ \A t \in Txns : t # txn[q] => bad'[t] = bad[t]
           /\ \A p \in Procs : p # q => op'[p] = op[p]
           /\ \A d \in Paths : \/ author'[d] = author[d] /\ dest'[d] = dest[d]
                               \/ author'[d] \in {txn[q], None}
  <1> USE DEF TypeInv, StateOK, DiskOK, LocalOK, To, Leave, disk, local, env
  <1>1. CASE Scan(q)
    BY <1>1 DEF Scan
  <1>2. CASE ScanDone(q)
    BY <1>2 DEF ScanDone
  <1>3. CASE EntryRead(q)
    BY <1>3 DEF EntryRead
  <1>4. CASE EntryBlob(q)
    BY <1>4 DEF EntryBlob
  <1>5. CASE Publish(q)
    BY <1>5 DEF Publish
  <1>6. CASE CommitRead(q)
    BY <1>6 DEF CommitRead
  <1>7. CASE Discard(q)
    BY <1>7 DEF Discard
  <1>8. CASE AcquireLock(q)
    BY <1>8 DEF AcquireLock
  <1>9. CASE LocksHeld(q)
    BY <1>9 DEF LocksHeld
  <1>10. CASE Validate(q)
    BY <1>10 DEF Validate
  <1>11. CASE Precheck(q)
    BY <1>11 DEF Precheck
  <1>12. CASE MarkCommitting(q)
    BY <1>12 DEF MarkCommitting
  <1>13. CASE InstallCheck(q)
    BY <1>13 DEF InstallCheck
  <1>14. CASE Replace(q)
    BY <1>14 DEF Replace
  <1>15. CASE Record(q)
    BY <1>15 DEF Record
  <1>16. CASE InstallDone(q)
    BY <1>16 DEF InstallDone
  <1>17. CASE Verify(q)
    BY <1>17 DEF Verify
  <1>18. CASE Finish(q)
    BY <1>18 DEF Finish
  <1>19. CASE RestoreCheck(q)
    BY <1>19 DEF RestoreCheck
  <1>20. CASE Undo(q)
    BY <1>20 DEF Undo
  <1>21. CASE RollBack(q)
    BY <1>21 DEF RollBack
  <1>22. CASE Crash(q)
    BY <1>22 DEF Crash
  <1>23. CASE ReplaceFails(q)
    BY <1>23 DEF ReplaceFails
  <1>24. CASE UndoFails(q)
    BY <1>24 DEF UndoFails
  <1> QED BY <1>1, <1>2, <1>3, <1>4, <1>5, <1>6, <1>7, <1>8, <1>9, <1>10,
             <1>11, <1>12, <1>13, <1>14, <1>15, <1>16, <1>17, <1>18,
             <1>19, <1>20, <1>21, <1>22, <1>23, <1>24 DEF Step

\* Nothing from t appears, its records stay.
LEMMA TraceKept ==
    ASSUME NEW t \in Txns, TraceOK(t), journal'[t] = journal[t], bad'[t] = bad[t],
           \A d \in Paths : author'[d] = t => author[d] = t /\ dest'[d] = dest[d]
    PROVE  TraceOK(t)'
  <1>1. AuthorsOK(t)'
    BY DEF TraceOK, AuthorsOK
  <1>2. OrphanIsNext(t) => OrphanIsNext(t)'
    BY PlanFacts DEF OrphanIsNext
  <1> QED BY <1>1, <1>2 DEF TraceOK

\* p stays where it is, its records stay, and nothing it has found changed is put
\* back.
LEMMA WorkKept ==
    ASSUME NEW p \in Procs, WorkOK(p), txn[p] \in Txns,
           UNCHANGED <<pc[p], op[p], txn[p], k[p], view[p]>>,
           Current(p) => journal'[txn[p]] = journal[txn[p]],
           pc[p] = "precheck" => bad'[txn[p]] = bad[txn[p]],
           pc[p] \in {"restore", "undo"} =>
               \A d \in Paths : author'[d] = txn[p] => author[d] = txn[p],
           pc[p] = "replace" => k[p] \in 1..Len(Writes[txn[p]]),
           pc[p] \in {"replace", "restore", "undo"} => \A d \in Destinations(txn[p]) :
               dest[d] # Desired[txn[p]][d] => dest'[d] # Desired[txn[p]][d]
    PROVE  WorkOK(p)'
  <1>1. StageOK(p)'
    BY DEF WorkOK, StageOK, Current
  <1>2. /\ pc'[p] = "precheck" => bad'[txn'[p]] = {}
        /\ pc'[p] \in {"install", "replace", "record"} => Recorded(p, k[p] - 1)'
        /\ pc'[p] = "verify" => Recorded(p, Len(Writes[txn[p]]))'
    BY DEF WorkOK, Recorded
  <1>3. ASSUME pc[p] = "restore" PROVE InReach(p, k[p])' \/ WillConflict(p, k[p])'
    <2>1. CASE InReach(p, k[p])
      BY <1>3, <2>1 DEF InReach
    <2>2. CASE WillConflict(p, k[p])
      BY <1>3, <2>2, PlanFacts DEF WillConflict
    <2> QED BY <1>3, <2>1, <2>2 DEF WorkOK
  <1>4. ASSUME pc[p] = "undo" PROVE InReach(p, k[p])' \/ WillConflict(p, k[p] - 1)'
    <2>1. CASE InReach(p, k[p])
      BY <1>4, <2>1 DEF InReach
    <2>2. CASE WillConflict(p, k[p] - 1)
      BY <1>4, <2>2, PlanFacts DEF WillConflict
    <2> QED BY <1>4, <2>1, <2>2 DEF WorkOK
  <1>5. pc[p] = "replace" =>
          dest'[Writes[txn[p]][k[p]]] # Desired[txn[p]][Writes[txn[p]][k[p]]]
    BY PlanFacts DEF WorkOK
  <1> QED BY <1>1, <1>2, <1>3, <1>4, <1>5 DEF WorkOK

\* The entry p has reached cannot be installed: either everything of t that is in
\* the checkout is recorded, or the entry itself is, and somebody changed it.
LEMMA StuckEntry ==
    ASSUME NEW t \in Txns, TraceOK(t), NEW v, v = journal[t], v.phase = "COMMITTING",
           NEW n \in 1..Len(Writes[t]), dest[Writes[t][n]] # Desired[t][Writes[t][n]],
           \A i \in 1..Len(Writes[t]) : i < n => Writes[t][i] \in v.installed
    PROVE  \/ Writes[t][n] \in v.installed
           \/ \A d \in Paths : author[d] = t =>
                 \E i \in 1..Len(Writes[t]) : Writes[t][i] = d /\ d \in v.installed
  <1> SUFFICES ASSUME Writes[t][n] \notin v.installed, NEW d \in Paths, author[d] = t
               PROVE  \E i \in 1..Len(Writes[t]) : Writes[t][i] = d /\ d \in v.installed
    OBVIOUS
  <1>1. d \in Destinations(t) /\ dest[d] = Desired[t][d]
    BY DEF TraceOK, AuthorsOK
  <1>2. PICK i \in 1..Len(Writes[t]) : Writes[t][i] = d
    BY <1>1, PlanFacts DEF Destinations
  <1>3. i # n
    BY <1>1, <1>2
  <1>4. i > n => Writes[t][i] \in v.installed
    <2>1. OrphanIsNext(t)
      BY DEF TraceOK
    <2>2. i > n => n \in 1..(i - 1)
      BY PlanFacts
    <2> QED BY <1>2, <2>1, <2>2 DEF OrphanIsNext
  <1>5. Writes[t][i] \in v.installed
    BY <1>3, <1>4, PlanFacts
  <1> QED BY <1>2, <1>5

\* A step of q keeps its own records in order: it undoes everything it recorded,
\* or gets stuck on a foreign change, before it may write ROLLED_BACK.
LEMMA StepClean ==
    ASSUME CleanInv, NEW q \in Procs, NEW t \in Txns, t = txn[q], Clear(t)',
           Step(q) \/ Crash(q) \/ ReplaceFails(q) \/ UndoFails(q)
    PROVE  TraceOK(t)' /\ (pc'[q] # "idle" => WorkOK(q)')
  <1>0. TraceOK(t) /\ (pc[q] # "idle" => WorkOK(q)) /\ TypeInv
    BY StepHistory DEF CleanInv, OverwriteInv, TraceInv, Clear
  <1>c. GoOn(q) => view[q] = journal[t]
    BY DEF GoOn, Clear, Causes
  <1>s. pc[q] \in Installing => journal[t].phase = "COMMITTING" /\ view[q] = journal[t]
    <2>1. pc[q] \in Installing => pc[q] # "idle" /\ Current(q)
      BY DEF Installing, Current
    <2> QED BY <1>0, <2>1 DEF WorkOK, StageOK
  <1>r. /\ pc[q] \in {"install", "replace", "record"} => Recorded(q, k[q] - 1)
        /\ pc[q] = "verify" => Recorded(q, Len(Writes[txn[q]]))
        /\ pc[q] = "replace" => dest[Writes[t][k[q]]] # Desired[t][Writes[t][k[q]]]
    BY <1>0 DEF WorkOK
  <1>i. pc[q] \in {"replace", "record", "undo"} => k[q] \in 1..Len(Writes[t])
    BY <1>0 DEF TypeInv, IndexOK
  <1>1. ASSUME journal'[t] = journal[t], UNCHANGED <<bad, author, dest>>
        PROVE  TraceOK(t)'
    BY <1>0, <1>1, TraceKept
  <1>2. pc'[q] \in Preparing => WorkOK(q)'
    BY DEF WorkOK, StageOK, Current, Installing, Preparing
  <1>3. pc[q] \in Preparing => journal[t].phase = "ABSENT"
    BY DEF CleanInv, OverwriteInv, PreparerInv
  <1>4. view[q] \in [phase : Phases, installed : SUBSET Paths]
    BY <1>0 DEF TypeInv, StateOK, LocalOK, Payloads
  <1>5. k[q] \in Nat /\ (pc[q] # "restore" => k[q] >= 1)
    BY <1>0 DEF TypeInv, StateOK, LocalOK, IndexOK
  <1> USE <1>0 DEF TypeInv, StateOK, DiskOK, LocalOK, To, Leave, WriteJournal
  <1>6. CASE Scan(q)
    <2>1. UNCHANGED <<journal, bad, author, dest>> /\ pc'[q] \in Preparing \cup {"idle"}
      BY <1>6 DEF Scan, Preparing, disk
    <2> QED BY <2>1, <1>1, <1>2
  <1>7. CASE ScanDone(q)
    <2>1. UNCHANGED <<journal, bad, author, dest>> /\ pc'[q] \in Preparing \cup {"idle"}
      BY <1>7 DEF ScanDone, Preparing, disk
    <2> QED BY <2>1, <1>1, <1>2
  <1>8. CASE EntryRead(q)
    <2>1. UNCHANGED <<journal, bad, author, dest>> /\ pc'[q] \in Preparing \cup {"idle"}
      BY <1>8 DEF EntryRead, Preparing, disk
    <2> QED BY <2>1, <1>1, <1>2
  <1>9. CASE EntryBlob(q)
    <2>1. UNCHANGED <<journal, author, dest>> /\ pc'[q] \in {"entry", "idle"} /\ pc[q] = "blob"
      BY <1>9 DEF EntryBlob
    <2>2. TraceOK(t)'
      BY <2>1, <1>0, <1>3 DEF TraceOK, AuthorsOK, Preparing
    <2> QED BY <2>1, <2>2, <1>2 DEF Preparing
  <1>10. CASE Publish(q)
    <2>1. /\ UNCHANGED <<author, dest>> /\ pc'[q] = "prepared" /\ pc[q] = "entry"
          /\ journal'[t].phase = "PREPARED" /\ txn'[q] = t
      BY <1>10 DEF Publish
    <2>2. TraceOK(t)'
      BY <2>1, <1>0, <1>3 DEF TraceOK, AuthorsOK, Preparing
    <2>3. WorkOK(q)'
      BY <2>1 DEF WorkOK, StageOK, Current, Installing
    <2> QED BY <2>2, <2>3
  <1>11. CASE CommitRead(q)
    <2>1. /\ UNCHANGED disk /\ UNCHANGED author /\ pc[q] = "prepared"
          /\ \/ pc'[q] = "idle"
             \/ /\ pc'[q] = "lock" /\ op'[q] = "commit" /\ view'[q] = journal[t] /\ txn'[q] = t
                /\ journal[t].phase = "PREPARED"
      BY <1>11 DEF CommitRead
    <2>3. pc'[q] = "lock" => WorkOK(q)'
      BY <2>1 DEF WorkOK, StageOK, Current, Installing, disk
    <2> QED BY <2>1, <2>3, <1>1 DEF disk
  <1>12. CASE Discard(q)
    <2>1. /\ UNCHANGED <<dest, before, bad, author>> /\ pc'[q] = "idle" /\ pc[q] = "discard"
          /\ journal'[t].phase = "ROLLED_BACK" /\ GoOn(q)
      BY <1>12, <1>4 DEF Discard
    <2>2. journal[t].phase = "PREPARED"
      BY <2>1, <1>0, <1>c DEF WorkOK, StageOK
    <2>3. \A d \in Paths : author[d] # t
      BY <2>2, <1>0 DEF TraceOK, AuthorsOK
    <2> QED BY <2>1, <2>3 DEF TraceOK, AuthorsOK
  <1>13. CASE AcquireLock(q)
    <2>1. UNCHANGED disk /\ UNCHANGED <<author, local>>
      BY <1>13 DEF AcquireLock
    <2>2. WorkOK(q)'
      BY <1>13, <2>1, <1>0 DEF WorkOK, StageOK, Current, Installing, local, disk, AcquireLock
    <2> QED BY <2>1, <2>2, <1>1 DEF disk
  <1>14. CASE LocksHeld(q)
    <2>1. /\ UNCHANGED disk /\ UNCHANGED <<author, txn, op, view>> /\ pc[q] = "lock" /\ pc'[q] = "validate"
          /\ GoOn(q)
      BY <1>14 DEF LocksHeld
    <2>2. WorkOK(q)'
      BY <2>1, <1>0, <1>c DEF WorkOK, StageOK, Current, Installing, disk
    <2> QED BY <2>1, <2>2, <1>1 DEF disk
  <1>15. CASE Validate(q)
    <2>1. /\ UNCHANGED disk /\ UNCHANGED author /\ pc[q] = "validate"
          /\ \/ pc'[q] = "idle"
             \/ /\ UNCHANGED <<txn, op, view>>
                /\ \/ bad[t] = {} /\ op[q] = "commit" /\ pc'[q] = "precheck"
                   \/ bad[t] = {} /\ op[q] # "commit" /\ pc'[q] = "install" /\ k'[q] = 1
                   \/ bad[t] # {} /\ op[q] = "recover"
      BY <1>15 DEF Validate
    <2>2. op[q] # "commit" => journal[t].phase = "COMMITTING" /\ bad[t] = {}
      BY <2>1, <1>0 DEF WorkOK, StageOK, Current, TraceOK
    <2>3. ASSUME pc'[q] # "idle" PROVE StageOK(q)'
      BY <2>1, <2>2, <2>3, <1>0 DEF WorkOK, StageOK, Current, Installing, disk
    <2>4. ASSUME pc'[q] = "install" PROVE Recorded(q, k[q] - 1)'
      BY <2>1, <2>2, <2>4, PlanFacts DEF Recorded
    <2>5. ASSUME pc'[q] # "idle" PROVE WorkOK(q)'
      BY <2>1, <2>2, <2>3, <2>4, <2>5 DEF WorkOK, disk
    <2> QED BY <2>1, <2>5, <1>1 DEF disk
  <1>16. CASE Precheck(q)
    <2>1. /\ UNCHANGED disk /\ UNCHANGED author /\ pc[q] = "precheck"
          /\ pc'[q] = "idle" \/ (UNCHANGED <<txn, op, view>> /\ pc'[q] = "precheck")
      BY <1>16 DEF Precheck
    <2>2. pc'[q] # "idle" => WorkOK(q)'
      BY <2>1, <1>0 DEF WorkOK, StageOK, Current, Installing, disk
    <2> QED BY <2>1, <2>2, <1>1 DEF disk
  <1>17. CASE MarkCommitting(q)
    <2>1. /\ UNCHANGED <<dest, bad, author, txn>> /\ pc[q] = "precheck" /\ pc'[q] = "install" /\ k'[q] = 1
          /\ journal'[t] = [view[q] EXCEPT !.phase = "COMMITTING"] /\ view'[q] = journal'[t]
          /\ GoOn(q)
      BY <1>17 DEF MarkCommitting
    <2>2. journal'[t].phase = "COMMITTING"
      BY <2>1, <1>4
    <2>3. bad[t] = {} /\ \A d \in Paths : author[d] # t
      BY <2>1, <1>0, <1>c DEF WorkOK, StageOK, TraceOK, AuthorsOK
    <2>4. TraceOK(t)'
      BY <2>1, <2>3, PlanFacts DEF TraceOK, AuthorsOK, OrphanIsNext
    <2>5. WorkOK(q)'
      BY <2>1, <2>2, PlanFacts DEF WorkOK, StageOK, Current, Installing, Recorded
    <2> QED BY <2>4, <2>5
  <1>18. CASE InstallCheck(q)
    <2>1. /\ UNCHANGED disk /\ UNCHANGED <<author, txn, view>> /\ pc[q] = "install" /\ More(q)
          /\ pc'[q] \in {"replace", "restore"} => dest[Entry(q)] # Want(q)
          /\ \/ pc'[q] \in {"record", "replace"} /\ k'[q] = k[q]
             \/ pc'[q] = "restore" /\ k'[q] = Len(Writes[t])
      BY <1>18 DEF InstallCheck, Last
    <2>2. journal[t].phase = "COMMITTING" /\ view[q] = journal[t] /\ Recorded(q, k[q] - 1)
      BY <2>1, <1>s, <1>r DEF Installing
    <2>3. StageOK(q)'
      BY <2>1, <2>2 DEF StageOK, Current, Installing, disk
    <2>4. ASSUME pc'[q] # "restore" PROVE WorkOK(q)'
      <3>1. Recorded(q, k[q] - 1)'
        BY <2>1, <2>2, <2>4 DEF Recorded
      <3>2. pc'[q] = "replace" =>
               dest'[Writes[txn'[q]][k'[q]]] # Desired[txn'[q]][Writes[txn'[q]][k'[q]]]
        BY <2>1, <2>4 DEF Entry, Want, disk
      <3> QED BY <2>1, <2>3, <2>4, <3>1, <3>2 DEF WorkOK
    <2>5. ASSUME pc'[q] = "restore" PROVE InReach(q, k[q])' \/ WillConflict(q, k[q])'
      <3>1. k[q] \in 1..Len(Writes[t]) /\ dest[Writes[t][k[q]]] # Desired[t][Writes[t][k[q]]]
        BY <2>1, <2>5, <1>5, PlanFacts DEF More, Last, Entry, Want
      <3>2. CASE Writes[t][k[q]] \in view[q].installed
        <4>0. k[q] <= k'[q]
          BY <2>1, <2>5, <3>1
        <4>1. WillConflict(q, k[q])'
          BY <2>1, <2>5, <3>1, <3>2, <4>0 DEF WillConflict, disk
        <4> QED BY <4>1
      <3>3. CASE Writes[t][k[q]] \notin view[q].installed
        <4>1. ASSUME NEW d \in Paths, author[d] = t
              PROVE  \E i \in 1..Len(Writes[t]) : Writes[t][i] = d /\ d \in view[q].installed
          <5>1. \A i \in 1..Len(Writes[t]) : i < k[q] => Writes[t][i] \in view[q].installed
            <6>1. \A i \in 1..Len(Writes[t]) : i < k[q] => i <= k[q] - 1
              BY <1>5
            <6> QED BY <2>2, <6>1 DEF Recorded
          <5> QED BY <2>2, <3>1, <3>3, <4>1, <5>1, <1>0, StuckEntry
        <4>2. InReach(q, k[q])'
          BY <2>1, <2>5, <4>1, PlanFacts DEF InReach
        <4> QED BY <4>2
      <3> QED BY <3>2, <3>3
    <2>6. WorkOK(q)'
      BY <2>3, <2>4, <2>5 DEF WorkOK
    <2> QED BY <2>1, <2>6, <1>1 DEF disk
  <1>19. CASE Replace(q)
    <2>1. /\ UNCHANGED <<journal, bad, txn, view, k>> /\ pc[q] = "replace" /\ pc'[q] = "record"
      BY <1>19 DEF Replace
    <2>2. k[q] \in 1..Len(Writes[t]) /\ Recorded(q, k[q] - 1) /\ journal[t].phase = "COMMITTING" /\ view[q] = journal[t]
      BY <2>1, <1>s, <1>r, <1>i DEF Installing
    <2>3. /\ dest' = [dest EXCEPT ![Writes[t][k[q]]] = Desired[t][Writes[t][k[q]]]]
          /\ author' = [author EXCEPT ![Writes[t][k[q]]] = t]
          /\ Writes[t][k[q]] \in Paths /\ Writes[t][k[q]] \in Destinations(t)
      BY <1>19, <2>2, PlanFacts DEF Replace, Entry, Want
    <2>4. AuthorsOK(t)'
      BY <2>1, <2>2, <2>3, <1>0 DEF TraceOK, AuthorsOK, TypeInv, StateOK, DiskOK
    <2>5. OrphanIsNext(t)'
      <3> SUFFICES ASSUME NEW j \in 1..Len(Writes[t]), author'[Writes[t][j]] = t,
                          Writes[t][j] \notin journal[t].installed, NEW i \in 1..(j - 1)
                   PROVE  Writes[t][i] \in journal[t].installed
        BY <2>1 DEF OrphanIsNext
      <3>1. CASE j = k[q]
        <4>1. i \in 1..Len(Writes[t]) /\ i <= k[q] - 1
          BY <2>2, <3>1, PlanFacts
        <4> QED BY <2>2, <4>1 DEF Recorded
      <3>2. CASE j # k[q]
        <4>1. Writes[t][j] # Writes[t][k[q]] /\ Writes[t][j] \in Paths
          BY <2>2, <3>2, PlanFacts, PlanAssumption DEF Entries
        <4>2. author[Writes[t][j]] = t
          BY <2>3, <4>1 DEF TypeInv, StateOK
        <4> QED BY <2>2, <4>2, <1>0 DEF TraceOK, OrphanIsNext
      <3> QED BY <3>1, <3>2
    <2>6. TraceOK(t)'
      BY <2>1, <2>4, <2>5, <1>0 DEF TraceOK
    <2>7. WorkOK(q)'
      BY <2>1, <2>2 DEF WorkOK, StageOK, Current, Installing, Recorded
    <2> QED BY <2>6, <2>7
  <1>20. CASE Record(q)
    <2>1. /\ UNCHANGED <<dest, bad, author, txn>> /\ pc[q] = "record" /\ pc'[q] = "install" /\ k'[q] = k[q] + 1
          /\ journal'[t] = Flagged(q) /\ view'[q] = Flagged(q)
      BY <1>20 DEF Record
    <2>2. /\ k[q] \in 1..Len(Writes[t]) /\ Recorded(q, k[q] - 1)
          /\ journal[t].phase = "COMMITTING" /\ view[q] = journal[t]
      BY <2>1, <1>s, <1>r, <1>i DEF Installing
    <2>3. /\ Flagged(q).phase = "COMMITTING"
          /\ Flagged(q).installed = journal[t].installed \cup {Writes[t][k[q]]}
      BY <2>2, <1>4 DEF Flagged, Entry
    <2>4. TraceOK(t)'
      BY <2>1, <2>2, <2>3, <1>0 DEF TraceOK, AuthorsOK, OrphanIsNext
    <2>5. Recorded(q, k[q] - 1)'
      <3>1. ASSUME NEW i \in 1..Len(Writes[t]), i <= k[q]
            PROVE  Writes[t][i] \in Flagged(q).installed
        <4>1. i <= k[q] - 1 \/ i = k[q]
          BY <3>1, <1>5
        <4> QED BY <2>2, <2>3, <3>1, <4>1 DEF Recorded
      <3>2. k'[q] - 1 = k[q]
        BY <2>1, <1>5
      <3> QED BY <2>1, <3>1, <3>2 DEF Recorded
    <2>6. WorkOK(q)'
      BY <2>1, <2>3, <2>5 DEF WorkOK, StageOK, Current, Installing
    <2> QED BY <2>4, <2>6
  <1>21. CASE InstallDone(q)
    <2>1. /\ UNCHANGED disk /\ UNCHANGED <<author, txn, view>> /\ pc[q] = "install"
          /\ pc'[q] = "verify" /\ ~More(q)
      BY <1>21 DEF InstallDone
    <2>2. StageOK(q)'
      BY <2>1, <1>s DEF StageOK, Current, Installing, disk
    <2>3. Recorded(q, Len(Writes[txn[q]]))'
      <3>1. \A i \in 1..Len(Writes[t]) : i <= k[q] - 1
        BY <2>1, <1>5, PlanFacts DEF More, Last
      <3>2. Recorded(q, k[q] - 1)
        BY <2>1, <1>r
      <3> QED BY <2>1, <3>1, <3>2 DEF Recorded
    <2>4. WorkOK(q)'
      BY <2>1, <2>2, <2>3 DEF WorkOK
    <2> QED BY <2>1, <2>4, <1>1 DEF disk
  <1>22. CASE Verify(q)
    <2>1. /\ UNCHANGED disk /\ UNCHANGED <<author, txn, view>> /\ pc[q] = "verify"
          /\ pc'[q] = "verify" \/ (pc'[q] = "restore" /\ k'[q] = Len(Writes[t]))
      BY <1>22 DEF Verify, Last
    <2>2. StageOK(q)' /\ Recorded(q, Len(Writes[txn[q]]))
      BY <2>1, <1>s, <1>r DEF StageOK, Current, Installing, disk
    <2>3. Recorded(q, Len(Writes[txn[q]]))'
      BY <2>1, <2>2 DEF Recorded
    <2>4. ASSUME k'[q] = Len(Writes[t]) PROVE InReach(q, k[q])'
      <3>1. ASSUME NEW d \in Paths, author[d] = t
            PROVE  \E i \in 1..Len(Writes[t]) :
                      i <= Len(Writes[t]) /\ Writes[t][i] = d /\ d \in view[q].installed
        <4>1. d \in Destinations(t) /\ Len(Writes[t]) \in Nat
          BY <3>1, PlanFacts DEF TraceOK, AuthorsOK
        <4>2. PICK i \in 1..Len(Writes[t]) : Writes[t][i] = d
          BY <4>1, PlanFacts DEF Destinations
        <4>3. i <= Len(Writes[t]) /\ d \in view[q].installed
          BY <2>2, <4>1, <4>2 DEF Recorded
        <4> QED BY <4>2, <4>3
      <3>2. txn'[q] = t /\ author' = author /\ view'[q] = view[q] /\ k'[q] = Len(Writes[t])
        BY <2>1, <2>4
      <3> QED BY <3>1, <3>2 DEF InReach
    <2>5. WorkOK(q)'
      BY <2>1, <2>2, <2>3, <2>4 DEF WorkOK
    <2> QED BY <2>1, <2>5, <1>1 DEF disk
  <1>23. CASE Finish(q)
    <2>1. /\ UNCHANGED <<dest, bad, author>> /\ pc[q] = "verify" /\ pc'[q] = "idle"
          /\ journal'[t].phase = "COMMITTED"
      BY <1>23, <1>4 DEF Finish
    <2> QED BY <2>1, <1>0 DEF TraceOK, AuthorsOK
  <1>24. CASE RestoreCheck(q)
    <2>1. /\ UNCHANGED <<dest, bad, author>> /\ pc[q] = "restore" /\ journal'[t] \in {journal[t], view[q]}
      BY <1>24 DEF RestoreCheck
    <2>2. journal[t].phase = "COMMITTING" /\ view[q] = journal[t]
      BY <2>1, <1>s DEF Installing
    <2>3. TraceOK(t)'
      BY <2>1, <2>2, <1>1
    <2>4. ASSUME pc'[q] # "idle" PROVE WorkOK(q)'
      <3>1. PICK i \in Unrestored(q) :
               /\ \A j \in Unrestored(q) : j <= i
               /\ dest[Writes[t][i]] = Desired[t][Writes[t][i]]
               /\ pc'[q] = "undo" /\ k'[q] = i /\ UNCHANGED <<txn, op, view, journal>>
        BY <1>24, <2>4 DEF RestoreCheck
      <3>2. StageOK(q)'
        BY <2>2, <3>1 DEF StageOK, Current, Installing
      <3>3. \A j \in 1..Len(Writes[t]) : j <= k[q] /\ Writes[t][j] \in view[q].installed => j <= i
        BY <3>1, PlanFacts DEF Unrestored
      <3>4. CASE InReach(q, k[q])
        <4>1. InReach(q, k[q])'
          BY <2>1, <3>1, <3>3, <3>4 DEF InReach
        <4> QED BY <3>1, <3>2, <4>1 DEF WorkOK
      <3>5. CASE WillConflict(q, k[q])
        <4>1. PICK j \in 1..Len(Writes[t]) :
                 /\ j <= k[q] /\ Writes[t][j] \in view[q].installed
                 /\ dest[Writes[t][j]] # Desired[t][Writes[t][j]]
          BY <3>5 DEF WillConflict
        <4>2. j <= i - 1 /\ j <= i /\ i \in Nat
          <5>1. i \in Nat /\ j \in Nat
            BY <3>1, <4>1, <1>5 DEF Unrestored
          <5>2. j <= i /\ j # i
            BY <3>1, <3>3, <4>1
          <5> QED BY <5>1, <5>2
        <4>3. WillConflict(q, k[q] - 1)'
          BY <2>1, <3>1, <4>1, <4>2 DEF WillConflict
        <4> QED BY <3>1, <3>2, <4>3 DEF WorkOK
      <3> QED BY <2>1, <3>4, <3>5, <1>0 DEF WorkOK
    <2> QED BY <2>3, <2>4
  <1>25. CASE Undo(q)
    <2>1. /\ UNCHANGED <<journal, bad, txn, view>> /\ pc[q] = "undo" /\ pc'[q] = "restore" /\ k'[q] = k[q] - 1
      BY <1>25 DEF Undo
    <2>2. k[q] \in 1..Len(Writes[t]) /\ journal[t].phase = "COMMITTING" /\ view[q] = journal[t]
      BY <2>1, <1>s, <1>i DEF Installing
    <2>3. /\ \A d \in Paths : d # Writes[t][k[q]] => dest'[d] = dest[d] /\ author'[d] = author[d]
          /\ Writes[t][k[q]] \in Paths /\ author'[Writes[t][k[q]]] = None
      BY <1>25, <2>2, PlanFacts DEF Undo, Entry, TypeInv, StateOK, DiskOK
    <2>4. \A d \in Paths : author'[d] = t => d # Writes[t][k[q]] /\ author[d] = t /\ dest'[d] = dest[d]
      BY <2>3, ConstantsAssumption
    <2>5. TraceOK(t)'
      BY <2>1, <2>4, <1>0, TraceKept
    <2>6. StageOK(q)'
      BY <2>1, <2>2 DEF StageOK, Current, Installing
    <2>7. CASE InReach(q, k[q])
      <3>1. InReach(q, k[q])'
        <4>1. ASSUME NEW d \in Paths, author'[d] = t
              PROVE  \E i \in 1..Len(Writes[t]) :
                        i <= k[q] - 1 /\ Writes[t][i] = d /\ d \in view[q].installed
          <5>1. PICK i \in 1..Len(Writes[t]) : i <= k[q] /\ Writes[t][i] = d /\ d \in view[q].installed
            BY <2>4, <2>7, <4>1 DEF InReach
          <5>2. i # k[q]
            BY <2>4, <4>1, <5>1
          <5>3. i <= k[q] - 1
            BY <2>2, <5>1, <5>2
          <5> QED BY <5>1, <5>3
        <4>2. txn'[q] = t /\ view'[q] = view[q] /\ k'[q] = k[q] - 1
          BY <2>1
        <4> QED BY <4>1, <4>2 DEF InReach
      <3> QED BY <2>1, <2>5, <2>6, <3>1 DEF WorkOK
    <2>8. CASE WillConflict(q, k[q] - 1)
      <3>1. PICK i \in 1..Len(Writes[t]) :
               /\ i <= k[q] - 1 /\ Writes[t][i] \in view[q].installed
               /\ dest[Writes[t][i]] # Desired[t][Writes[t][i]]
        BY <2>8 DEF WillConflict
      <3>0. i # k[q]
        BY <2>2, <3>1
      <3>2. Writes[t][i] # Writes[t][k[q]] /\ Writes[t][i] \in Paths
        BY <2>2, <3>0, PlanFacts, PlanAssumption DEF Entries
      <3>3. WillConflict(q, k[q])'
        BY <2>1, <2>3, <3>1, <3>2 DEF WillConflict
      <3> QED BY <2>1, <2>5, <2>6, <3>3 DEF WorkOK
    <2> QED BY <2>1, <2>5, <2>7, <2>8, <1>0 DEF WorkOK
  <1>26. CASE RollBack(q)
    <2>1. /\ UNCHANGED <<dest, bad, author>> /\ pc[q] = "restore" /\ pc'[q] = "idle"
          /\ journal'[t].phase = "ROLLED_BACK" /\ Unrestored(q) = {}
      BY <1>26, <1>4 DEF RollBack
    <2>2. \A i \in 1..Len(Writes[t]) : i <= k[q] => Writes[t][i] \notin view[q].installed
      BY <2>1, <1>5, PlanFacts DEF Unrestored
    <2>3. ~ WillConflict(q, k[q])
      BY <2>2 DEF WillConflict
    <2>4. \A d \in Paths : author[d] # t
      BY <2>1, <2>2, <2>3, <1>0 DEF WorkOK, InReach
    <2> QED BY <2>1, <2>4 DEF TraceOK, AuthorsOK
  <1>27. CASE Crash(q)
    <2>1. UNCHANGED disk /\ UNCHANGED author /\ pc'[q] = "idle"
      BY <1>27 DEF Crash
    <2> QED BY <2>1, <1>1 DEF disk
  <1>28. CASE ReplaceFails(q)
    <2>1. <<t, "install">> \notin misled'
      BY DEF Clear, Causes
    <2>2. /\ UNCHANGED <<journal, bad, author, dest, txn, view>> /\ pc[q] = "replace"
          /\ pc'[q] = "restore" /\ k'[q] = Len(Writes[t])
      BY <1>28, <2>1 DEF ReplaceFails, Last
    <2>3. /\ k[q] \in 1..Len(Writes[t]) /\ Recorded(q, k[q] - 1)
          /\ journal[t].phase = "COMMITTING" /\ view[q] = journal[t]
          /\ dest[Writes[t][k[q]]] # Desired[t][Writes[t][k[q]]]
      BY <2>2, <1>s, <1>r, <1>i DEF Installing
    <2>4. \A i \in 1..Len(Writes[t]) : i < k[q] => Writes[t][i] \in view[q].installed
      <3>1. \A i \in 1..Len(Writes[t]) : i < k[q] => i <= k[q] - 1
        BY <1>5
      <3> QED BY <2>3, <3>1 DEF Recorded
    <2>5. StageOK(q)'
      BY <2>2, <2>3 DEF StageOK, Current, Installing
    <2>6. InReach(q, k[q])' \/ WillConflict(q, k[q])'
      <3>1. CASE Writes[t][k[q]] \in view[q].installed
        <4>1. k[q] <= k'[q]
          BY <2>2, <2>3
        <4>2. WillConflict(q, k[q])'
          BY <2>2, <2>3, <3>1, <4>1 DEF WillConflict
        <4> QED BY <4>2
      <3>2. CASE Writes[t][k[q]] \notin view[q].installed
        <4>1. \A d \in Paths : author[d] = t =>
                 \E i \in 1..Len(Writes[t]) : Writes[t][i] = d /\ d \in view[q].installed
          BY <2>3, <2>4, <3>2, <1>0, StuckEntry
        <4>2. InReach(q, k[q])'
          BY <2>2, <4>1, PlanFacts DEF InReach
        <4> QED BY <4>2
      <3> QED BY <3>1, <3>2
    <2>7. WorkOK(q)'
      BY <2>2, <2>5, <2>6 DEF WorkOK
    <2> QED BY <2>2, <2>7, <1>1
  <1>29. CASE UndoFails(q)
    <2>1. /\ pc[q] = "undo" /\ pc'[q] = "idle" /\ journal'[t] = view[q] /\ bad' = bad
          /\ \/ UNCHANGED <<dest, author>>
             \/ /\ dest' = [dest EXCEPT ![Entry(q)] = Before(q)]
                /\ author' = [author EXCEPT ![Entry(q)] = None]
      BY <1>29 DEF UndoFails
    <2>2. journal'[t] = journal[t]
      BY <2>1, <1>s DEF Installing
    <2>3. \A d \in Paths : author'[d] = t => author[d] = t /\ dest'[d] = dest[d]
      BY <2>1, ConstantsAssumption
    <2>4. TraceOK(t)'
      BY <2>1, <2>2, <2>3, <1>0, TraceKept
    <2> QED BY <2>1, <2>4
  <1> QED BY <1>6, <1>7, <1>8, <1>9, <1>10, <1>11, <1>12, <1>13, <1>14, <1>15,
             <1>16, <1>17, <1>18, <1>19, <1>20, <1>21, <1>22, <1>23,
             <1>24, <1>25, <1>26, <1>27, <1>28, <1>29 DEF Step

\* Another process at work on t disturbs nothing p relies on.
LEMMA SameTxn ==
    ASSUME CleanInv, NEW p \in Procs, NEW q \in Procs, p # q, pc[p] # "idle",
           NEW t \in Txns, t = txn[p], t = txn[q], Clear(t)', WorkOK(p),
           Step(q) \/ Crash(q) \/ ReplaceFails(q) \/ UndoFails(q)
    PROVE  /\ pc[p] = "precheck" => bad'[t] = bad[t]
           /\ Current(p) => journal'[t] = journal[t]
           /\ pc[p] \in Critical => UNCHANGED <<dest, author>>
  <1> USE DEF CleanInv, OverwriteInv
  <1>1. PICK r \in Wants(t) : TRUE
    <2>1. Writes[t] # <<>> /\ Writes[t] \in Seq(Paths)
      BY PlanAssumption, ConstantsAssumption
    <2>2. Len(Writes[t]) \in Nat /\ Len(Writes[t]) # 0
      BY <2>1
    <2>3. Writes[t][1] \in Wants(t)
      BY <2>2, PlanFacts
    <2> QED BY <2>3
  <1>2. ASSUME pc[p] \in Critical, pc[q] \in Critical PROVE FALSE
    <2>1. CoveredInv
      OBVIOUS
    <2>2. holder[r] = p /\ holder[r] = q
      BY <1>1, <1>2, <2>1 DEF CoveredInv
    <2> QED BY <2>2
  <1>3. pc[q] \notin Preparing
    BY DEF PreparerInv
  <1>4. Current(p) \/ pc[p] = "precheck" => pc[p] \in Critical
    BY DEF Current, Installing, Critical
  <1>b. pc[q] # "blob" /\ pc[q] # "entry"
    BY <1>3 DEF Preparing
  <1>5. ASSUME pc[p] \in Critical
        PROVE  /\ UNCHANGED <<dest, author, bad>>
               /\ journal' = journal \/ (pc[q] = "discard" /\ GoOn(q))
    BY <1>2, <1>5, <1>b, StepOutside
  <1>6. ASSUME Current(p), pc[q] = "discard", GoOn(q) PROVE FALSE
    <2>0. misled \subseteq misled'
      BY StepHistory
    <2>1. pc[q] # "idle" /\ Clear(txn[q])
      BY <1>6, <2>0 DEF Clear
    <2>2. view[q].phase = "PREPARED"
      BY <1>6, <2>1 DEF TraceInv, WorkOK, StageOK
    <2>3. journal[txn[q]] = view[q]
      BY <1>6 DEF GoOn, Clear, Causes
    <2> QED BY <1>6, <2>2, <2>3 DEF WorkOK, StageOK
  <1> QED BY <1>4, <1>5, <1>6

LEMMA TraceStep ==
    ASSUME CleanInv, [Next]_vars
    PROVE  TraceInv'
  <1> USE DEF CleanInv, OverwriteInv
  <1>0. misled \subseteq misled'
    BY NextHistory
  <1>1. SUFFICES /\ \A u \in Txns : Clear(u)' => TraceOK(u)'
                 /\ \A p \in Procs, u \in Txns :
                     pc'[p] # "idle" /\ txn'[p] = u /\ Clear(u)' => WorkOK(p)'
    BY NextType DEF TraceInv, TypeInv, IndexOK
  <1>2. None \notin Txns /\ \A p \in Procs : pc[p] # "idle" => txn[p] \in Txns
    BY ConstantsAssumption DEF TypeInv, IndexOK
  <1>n. \A p \in Procs : pc[p] = "replace" => k[p] \in 1..Len(Writes[txn[p]])
    BY DEF TypeInv, IndexOK
  <1>3. ASSUME NEW q \in Procs, Step(q) \/ Crash(q) \/ ReplaceFails(q) \/ UndoFails(q)
        PROVE  /\ \A u \in Txns : Clear(u)' => TraceOK(u)'
               /\ \A p \in Procs, u \in Txns :
                     pc'[p] # "idle" /\ txn'[p] = u /\ Clear(u)' => WorkOK(p)'
    <2>2. pc[q] # "idle" /\ txn[q] \in Txns
      BY <1>3, StepHistory
    <2>3. \A t \in Txns : t # txn[q] =>
            /\ journal'[t] = journal[t] /\ bad'[t] = bad[t]
            /\ \A d \in Paths : author'[d] = t => author[d] = t /\ dest'[d] = dest[d]
      BY <1>2, <1>3, StepRecords, StepAuthors
    <2>4. ASSUME NEW t \in Txns, Clear(t)' PROVE TraceOK(t)'
      <3>1. CASE t = txn[q]
        BY <1>3, <2>4, <3>1, StepClean
      <3>2. CASE t # txn[q]
        <4>1. TraceOK(t)
          BY <1>0, <2>4 DEF TraceInv, Clear
        <4> QED BY <2>3, <3>2, <4>1, TraceKept
      <3> QED BY <3>1, <3>2
    <2>5. ASSUME NEW p \in Procs, NEW w \in Txns, pc'[p] # "idle", txn'[p] = w, Clear(w)'
          PROVE  WorkOK(p)'
      <3>1. CASE p = q
        <4>1. txn'[q] = txn[q]
          BY <1>3, <2>5, <3>1, NextType, StepPrepares, <1>2
             DEF Next, Environment, TypeInv, IndexOK
        <4>2. w = txn[q] /\ Clear(w)'
          BY <2>5, <3>1, <4>1
        <4> QED BY <1>3, <2>5, <3>1, <4>2, StepClean
      <3>2. CASE p # q
        <4>1. UNCHANGED <<pc[p], op[p], txn[p], k[p], view[p]>>
          BY <1>3, <3>2, StepOther, StepAuthors DEF Untouched
        <4>2. txn[p] = w /\ txn[p] \in Txns /\ pc[p] # "idle"
          BY <1>2, <2>5, <4>1
        <4>3. WorkOK(p)
          BY <1>0, <2>5, <4>2 DEF TraceInv, Clear
        <4>4. CASE txn[p] = txn[q]
          <5>1. /\ pc[p] = "precheck" => bad'[txn[p]] = bad[txn[p]]
                /\ Current(p) => journal'[txn[p]] = journal[txn[p]]
                /\ pc[p] \in Critical => UNCHANGED <<dest, author>>
            BY <1>3, <2>5, <3>2, <4>2, <4>3, <4>4, SameTxn
          <5>2. pc[p] \in {"replace", "restore", "undo"} => UNCHANGED <<dest, author>>
            BY <5>1 DEF Critical
          <5> QED BY <1>n, <4>1, <4>2, <4>3, <5>1, <5>2, WorkKept
        <4>5. CASE txn[p] # txn[q]
          <5>1. ASSUME pc[p] \in {"replace", "restore", "undo"}, NEW d \in Destinations(txn[p])
                PROVE  dest'[d] = dest[d]
            <6>1. d \in Paths /\ holder[d] = p
              BY <4>2, <5>1, PlanFacts DEF CoveredInv, Critical, Destinations
            <6> QED BY <1>3, <3>2, <6>1, WriterHolds
          <5> QED BY <1>n, <2>3, <4>1, <4>2, <4>3, <4>5, <5>1, WorkKept
        <4> QED BY <4>4, <4>5
      <3> QED BY <3>1, <3>2
    <2> QED BY <2>4, <2>5
  <1>4. ASSUME NEW q \in Procs, NEW t \in Txns, Prepare(q, t)
        PROVE  /\ \A u \in Txns : Clear(u)' => TraceOK(u)'
               /\ \A p \in Procs, u \in Txns :
                     pc'[p] # "idle" /\ txn'[p] = u /\ Clear(u)' => WorkOK(p)'
    <2>1. /\ UNCHANGED <<dest, journal, author, op, view, k, misled>> /\ pc'[q] = "scan"
          /\ journal[t].phase = "ABSENT" /\ \A p \in Procs : txn[p] # t
          /\ \A u \in Txns : u # t => bad'[u] = bad[u]
          /\ \A p \in Procs : p # q => pc'[p] = pc[p] /\ txn'[p] = txn[p]
      BY <1>4 DEF Prepare, Working, TypeInv, StateOK, DiskOK, LocalOK
    <2>2. ASSUME NEW u \in Txns, Clear(u)' PROVE TraceOK(u)'
      <3>1. TraceOK(u)
        BY <1>0, <2>2 DEF TraceInv, Clear
      <3>2. CASE u = t
        BY <2>1, <3>1, <3>2 DEF TraceOK, AuthorsOK
      <3>3. CASE u # t
        BY <2>1, <3>1, <3>3, TraceKept
      <3> QED BY <3>2, <3>3
    <2>3. ASSUME NEW p \in Procs, NEW w \in Txns, pc'[p] # "idle", txn'[p] = w, Clear(w)'
          PROVE  WorkOK(p)'
      <3>1. CASE p = q
        BY <2>1, <3>1 DEF WorkOK, StageOK, Current, Installing
      <3>2. CASE p # q
        <4>1. pc[p] # "idle" /\ Clear(txn[p]) /\ txn[p] \in Txns /\ txn[p] # t
          BY <1>2, <1>0, <2>1, <2>3, <3>2 DEF Clear
        <4>2. WorkOK(p)
          BY <4>1 DEF TraceInv
        <4> QED BY <1>n, <2>1, <3>2, <4>1, <4>2, WorkKept
      <3> QED BY <3>1, <3>2
    <2> QED BY <2>2, <2>3
  <1>5. ASSUME NEW q \in Procs, NEW t \in Txns, RecoverRead(q, t)
        PROVE  /\ \A u \in Txns : Clear(u)' => TraceOK(u)'
               /\ \A p \in Procs, u \in Txns :
                     pc'[p] # "idle" /\ txn'[p] = u /\ Clear(u)' => WorkOK(p)'
    <2>1. /\ UNCHANGED <<dest, journal, bad, author, k, misled>>
          /\ journal[t].phase \in {"PREPARED", "COMMITTING"}
          /\ \A p \in Procs : p # q => /\ pc'[p] = pc[p] /\ txn'[p] = txn[p]
                                       /\ op'[p] = op[p] /\ view'[p] = view[p]
      BY <1>5 DEF RecoverRead, Recoverable, TypeInv, StateOK, LocalOK, disk
    <2>2. /\ txn'[q] = t /\ view'[q] = journal[t]
          /\ \/ journal[t].phase = "PREPARED" /\ pc'[q] = "discard"
             \/ journal[t].phase = "COMMITTING" /\ pc'[q] = "lock" /\ op'[q] = "recover"
      BY <1>5, <2>1 DEF RecoverRead, TypeInv, StateOK, LocalOK
    <2>3. ASSUME NEW u \in Txns, Clear(u)' PROVE TraceOK(u)'
      <3>1. TraceOK(u)
        BY <1>0, <2>3 DEF TraceInv, Clear
      <3> QED BY <2>1, <3>1, TraceKept
    <2>4. ASSUME NEW p \in Procs, NEW w \in Txns, pc'[p] # "idle", txn'[p] = w, Clear(w)'
          PROVE  WorkOK(p)'
      <3>1. CASE p = q
        BY <2>2, <3>1 DEF WorkOK, StageOK, Current, Installing
      <3>2. CASE p # q
        <4>1. pc[p] # "idle" /\ Clear(txn[p]) /\ txn[p] \in Txns
          BY <1>2, <1>0, <2>1, <2>4, <3>2 DEF Clear
        <4>2. WorkOK(p)
          BY <4>1 DEF TraceInv
        <4> QED BY <1>n, <2>1, <3>2, <4>1, <4>2, WorkKept
      <3> QED BY <3>1, <3>2
    <2> QED BY <2>3, <2>4
  <1>6. ASSUME NEW c \in Paths, NEW s \in States, Edit(c, s)
        PROVE  /\ \A u \in Txns : Clear(u)' => TraceOK(u)'
               /\ \A p \in Procs, u \in Txns :
                     pc'[p] # "idle" /\ txn'[p] = u /\ Clear(u)' => WorkOK(p)'
    <2>1. /\ UNCHANGED <<journal, bad, pc, op, txn, k, view>>
          /\ \A d \in Paths : d # c => dest'[d] = dest[d] /\ author'[d] = author[d]
          /\ author'[c] = None /\ dest'[c] = s
      BY <1>6 DEF Edit, TypeInv, StateOK, DiskOK, local
    <2>2. ASSUME NEW t \in Txns, NEW d \in Paths, author'[d] = t
          PROVE  author[d] = t /\ dest'[d] = dest[d]
      <3>1. d # c
        BY <1>2, <2>1, <2>2
      <3> QED BY <2>1, <2>2, <3>1
    <2>3. ASSUME NEW t \in Txns, Clear(t)', NEW d \in Destinations(t), dest[d] # Desired[t][d]
          PROVE  dest'[d] # Desired[t][d]
      <3>1. d \in Paths
        BY PlanFacts DEF Destinations
      <3>2. misled' = misled \cup {<<u, "edit">> :
               u \in {v \in Txns : c \in Destinations(v) /\ Desired[v][c] = s}}
        BY <1>6 DEF Edit
      <3>3. d = c => Desired[t][c] # s
        BY <2>3, <3>2 DEF Clear, Causes
      <3> QED BY <2>1, <2>3, <3>1, <3>3
    <2>4. ASSUME NEW t \in Txns, Clear(t)' PROVE TraceOK(t)'
      <3>1. TraceOK(t)
        BY <1>0, <2>4 DEF TraceInv, Clear
      <3> QED BY <2>1, <2>2, <3>1, TraceKept
    <2>5. ASSUME NEW p \in Procs, NEW w \in Txns, pc'[p] # "idle", txn'[p] = w, Clear(w)'
          PROVE  WorkOK(p)'
      <3>1. pc[p] # "idle" /\ Clear(txn[p]) /\ txn[p] \in Txns /\ txn[p] = w
        BY <1>2, <1>0, <2>1, <2>5 DEF Clear
      <3>2. WorkOK(p)
        BY <3>1 DEF TraceInv
      <3> QED BY <1>n, <2>1, <2>2, <2>3, <2>5, <3>1, <3>2, WorkKept
    <2> QED BY <2>4, <2>5
  <1>7. ASSUME NEW u \in Txns, NEW c \in Paths, NEW kind \in BlobKinds, Corrupt(u, c, kind)
        PROVE  /\ \A w \in Txns : Clear(w)' => TraceOK(w)'
               /\ \A p \in Procs, w \in Txns :
                     pc'[p] # "idle" /\ txn'[p] = w /\ Clear(w)' => WorkOK(p)'
    <2>1. /\ UNCHANGED <<dest, journal, author, pc, op, txn, k, view>>
          /\ \A t \in Txns : t # u => bad'[t] = bad[t]
          /\ misled' = misled \cup {<<u, "blob">>}
      BY <1>7 DEF Corrupt, local, TypeInv, StateOK, DiskOK
    <2>2. \A t \in Txns : Clear(t)' => t # u
      BY <2>1 DEF Clear, Causes
    <2>3. ASSUME NEW t \in Txns, Clear(t)' PROVE TraceOK(t)'
      <3>1. TraceOK(t)
        BY <1>0, <2>3 DEF TraceInv, Clear
      <3> QED BY <2>1, <2>2, <2>3, <3>1, TraceKept
    <2>4. ASSUME NEW p \in Procs, NEW w \in Txns, pc'[p] # "idle", txn'[p] = w, Clear(w)'
          PROVE  WorkOK(p)'
      <3>1. pc[p] # "idle" /\ Clear(txn[p]) /\ txn[p] \in Txns /\ txn[p] # u
        BY <1>2, <1>0, <2>1, <2>2, <2>4 DEF Clear
      <3>2. WorkOK(p)
        BY <3>1 DEF TraceInv
      <3> QED BY <1>n, <2>1, <3>1, <3>2, WorkKept
    <2> QED BY <2>3, <2>4
  <1>8. CASE UNCHANGED vars
    <2>1. UNCHANGED <<journal, bad, dest, author, pc, op, txn, k, view, misled>>
      BY <1>8 DEF vars, local, disk
    <2>2. ASSUME NEW t \in Txns, Clear(t)' PROVE TraceOK(t)'
      <3>1. TraceOK(t)
        BY <1>0, <2>2 DEF TraceInv, Clear
      <3> QED BY <2>1, <3>1, TraceKept
    <2>3. ASSUME NEW p \in Procs, NEW w \in Txns, pc'[p] # "idle", txn'[p] = w, Clear(w)'
          PROVE  WorkOK(p)'
      <3>1. pc[p] # "idle" /\ Clear(txn[p]) /\ txn[p] \in Txns
        BY <1>2, <2>1, <2>3 DEF Clear
      <3>2. WorkOK(p)
        BY <3>1 DEF TraceInv
      <3> QED BY <1>n, <2>1, <3>1, <3>2, WorkKept
    <2> QED BY <2>2, <2>3
  <1> QED BY <1>3, <1>4, <1>5, <1>6, <1>7, <1>8 DEF Next, Environment, Call

LEMMA CleanImplies == CleanInv => RolledBackClean
  BY DEF CleanInv, TraceInv, TraceOK, AuthorsOK, RolledBackClean, InPhase, Clear

\* Nothing half-installed is silent, for any number of crashes, edits, racing
\* recoveries and failing file operations: what is in the checkout from a
\* transaction that is neither committed nor reported as incomplete is from one
\* that a process recovered or committed with an outdated copy of its journal, or
\* an installation of which failed after it took effect, or whose blobs were
\* damaged, or whose very writes somebody else made.
THEOREM NothingIsSilent == Spec => []RolledBackClean
  <1>1. Init => CleanInv
    <2>1. Init => OverwriteInv
      BY InitType, InitHistory, LocksInit
         DEF Init, OverwriteInv, PreparerInv, CheckedInv, Preparing
    <2>2. Init => TraceInv
      BY ConstantsAssumption DEF Init, TraceInv, TraceOK, AuthorsOK, NoPayload
    <2> QED BY <2>1, <2>2 DEF CleanInv
  <1>2. CleanInv /\ [Next]_vars => CleanInv'
    BY NextType, NextHistory, LocksStep, PreparerStep, CheckedStep, TraceStep
       DEF CleanInv, OverwriteInv
  <1> QED BY <1>1, <1>2, CleanImplies, PTL DEF Spec

=============================================================================
