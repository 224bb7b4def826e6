------------------------------ MODULE HubProofs ------------------------------
(***************************************************************************)
(* The two parts of the hub's own process that do not talk to a spoke: the *)
(* entry-tree store its threads share, and the console its operator        *)
(* drives.  The two have no variable in common; each section states and    *)
(* proves what its own module promises.                                    *)
(*                                                                         *)
(* The store is safe for every number of threads and processes, every set  *)
(* of entries and values and any number of faults.  The console is safe    *)
(* for every set of spokes and protocols, any number of commands, reads    *)
(* and progress lines, and a channel of any capacity.                      *)
(***************************************************************************)
EXTENDS EntryStore, OperatorConsole, TLAPS

(***************************************************************************)
(*                        The store of entry trees.                        *)
(***************************************************************************)

(* The locks: what a thread holds at each step, and that an exclusive      *)
(* flock excludes everybody else, of its own and of other processes.       *)
Past(t) == pc[t] \in {"open", "stage", "commit", "restore", "drop", "fields"}

LockInv ==
    \A t \in Threads :
        /\ pc[t] \in {"idle", "flock"} => fl[t] = "none"
        /\ Past(t) => fl[t] = Mode(op[t])
        /\ pc[t] = "unlock" => fl[t] = "none" \/ fl[t] = Mode(op[t])
        /\ pc[t] = "unlock" /\ res[t] = "ok" => fl[t] = Mode(op[t])
        /\ pc[t] # "idle" => op[t] \in Ops
        /\ pc[t] \in {"stage", "commit", "restore", "drop"} => op[t] \in Transactions
        /\ pc[t] = "fields" => op[t] \in FieldUpdates
        /\ fl[t] = "exclusive" => \A u \in Threads \ {t} : fl[u] = "none"

(* What a thread knows of the disk while it holds the exclusive lock.      *)
WriterInv ==
    \A t \in Threads :
        /\ backup[t] # Missing => pc[t] \in {"commit", "restore", "drop"}
        /\ pc[t] \in {"commit", "restore"} =>
              dir = Missing /\ snap[t] = loadEntryDirsUnlocked(backup[t])
        /\ pc[t] = "restore" => backup[t] # Missing
        /\ pc[t] = "stage" => snap[t] = loadEntryDirsUnlocked(dir)
        /\ pc[t] \in {"stage", "commit"} =>
              MutateOk(op[t], snap[t]) /\ next[t] = Mutate(op[t], snap[t])
        /\ pc[t] = "drop" => dir = next[t]
        /\ pc[t] = "unlock" /\ op[t] \in Transactions /\ res[t] = "ok" => dir = next[t]
        /\ pc[t] = "fields" => dir # Missing /\ dir[op[t].entry] # None

(* Where the last committed tree is.                                       *)
CommittedInv ==
    /\ dir # Missing => dir = committed
    /\ dir = Missing /\ (\A t \in Threads : pc[t] \notin {"commit", "restore"}) =>
          committed = EmptyTree \/ committed \in orphans
    /\ \A t \in Threads : pc[t] \in {"commit", "restore"} =>
          IF backup[t] = Missing THEN committed = EmptyTree \/ committed \in orphans
                                 ELSE backup[t] = committed

(* Before the first fault an entry is torn only by the field update that   *)
(* is running, and only in the fields it has not written yet.              *)
WholeInv ==
    faults = 0 =>
        /\ (\A t \in Threads : pc[t] # "fields") => Whole(committed)
        /\ \A t \in Threads : pc[t] \in {"stage", "commit"} => Whole(next[t])
        /\ \A t \in Threads : pc[t] = "fields" =>
              /\ \A e \in Entries \ {op[t].entry} : committed[e] = None \/ committed[e] \in Written
              /\ \A f \in Fields \ todo[t] : committed[op[t].entry][f] = op[t].value[f]

IInv == TypeOK /\ LockInv /\ WriterInv /\ CommittedInv /\ WholeInv

-----------------------------------------------------------------------------
(* The operators the model is built from.                                  *)

(* Only a plain load takes the locks shared.                               *)
LEMMA OpFacts ==
    ASSUME NEW o \in Ops \cup {NoOp}
    PROVE  /\ Mode(o) \in {"shared", "exclusive"}
           /\ o \in Transactions => /\ Mode(o) = "exclusive"
                                    /\ o.kind \in {"add", "replace", "remove"}
                                    /\ o.entry \in Entries
                                    /\ o.kind # "remove" => o.value \in Written
           /\ o \in FieldUpdates => /\ Mode(o) = "exclusive"
                                    /\ o.kind = "fields"
                                    /\ o.entry \in Entries
                                    /\ o.value \in Written
    BY DEF Ops, NoOp, Loads, Transactions, FieldUpdates, Mode

(* What a caller writes is an entry.                                       *)
LEMMA WrittenEntry == Written \subseteq Entry
    BY DEF Written, Entry

(* Reading a tree, present or not, and mutating it gives a tree.           *)
LEMMA TreeFacts ==
    ASSUME NEW d \in Tree \cup {Missing}
    PROVE  /\ EmptyTree \in Tree
           /\ Missing \notin Tree
           /\ None \notin Entry
           /\ loadEntryDirsUnlocked(d) \in Tree
           /\ \A o \in Transactions : Mutate(o, loadEntryDirsUnlocked(d)) \in Tree
<1>1. EmptyTree \in Tree /\ loadEntryDirsUnlocked(d) \in Tree
    BY DEF EmptyTree, Tree, loadEntryDirsUnlocked
<1>2. Missing \notin Tree /\ None \notin Entry
    BY MissingIsNoTree, NoneIsNoEntry DEF Tree, Entry
<1>3. ASSUME NEW o \in Transactions
      PROVE  Mutate(o, loadEntryDirsUnlocked(d)) \in Tree
    <2>1. o.entry \in Entries /\ (o.kind # "remove" => o.value \in Entry)
        BY <1>3, WrittenEntry DEF Transactions
    <2> QED
        BY <1>1, <2>1 DEF Mutate, Tree
<1> QED
    BY <1>1, <1>2, <1>3

-----------------------------------------------------------------------------
(* Type correctness.                                                       *)

(* An empty registry directory and idle threads are well typed.            *)
LEMMA InitTypeOK == Init => TypeOK
    BY TreeFacts, MissingIsNoTree DEF Init, TypeOK, Steps, LockModes, Outcomes, Ops

(* Every step keeps the types.  Restoring needs WriterInv: the backup put  *)
(* back at the tree's path is one that was really moved aside.             *)
LEMMA NextTypeOK == TypeOK /\ LockInv /\ WriterInv /\ [Next]_vars => TypeOK'
<1> SUFFICES ASSUME TypeOK, LockInv, WriterInv, [Next]_vars
             PROVE  TypeOK'
    OBVIOUS
<1>a. /\ EmptyTree \in Tree
      /\ loadEntryDirsUnlocked(dir) \in Tree
      /\ \A o \in Transactions : Mutate(o, loadEntryDirsUnlocked(dir)) \in Tree
    BY TreeFacts DEF TypeOK
<1>b. \A o \in Ops : Mode(o) \in LockModes
    BY OpFacts DEF LockModes
<1>1. ASSUME NEW t \in Threads, NEW o \in Ops, LockMutex(t, o) PROVE TypeOK'
    BY <1>1, <1>b DEF TypeOK, LockMutex, disk, Steps
<1>2. ASSUME NEW t \in Threads, lockEntryTree(t) PROVE TypeOK'
    <2>1. op[t] \in Ops
        BY <1>2 DEF lockEntryTree, LockInv
    <2> QED
        BY <1>2, <2>1, <1>b DEF TypeOK, lockEntryTree, disk, local, Steps
<1>3. ASSUME NEW t \in Threads, Unlock(t) PROVE TypeOK'
    BY <1>3, <1>a DEF TypeOK, Unlock, Forget, disk, Steps, LockModes, Outcomes
<1>4. ASSUME NEW t \in Threads, LoadEntryDirs(t) PROVE TypeOK'
    BY <1>4, <1>a DEF TypeOK, LoadEntryDirs, Return, disk, locks, Steps, Outcomes
<1>5. ASSUME NEW t \in Threads, LoadForTransact(t) PROVE TypeOK'
    BY <1>5, <1>a DEF TypeOK, LoadForTransact, Return, disk, locks, Steps, Outcomes
<1>6. ASSUME NEW t \in Threads, MoveAside(t) PROVE TypeOK'
    BY <1>6 DEF TypeOK, MoveAside, locks, local, Steps
<1>7. ASSUME NEW t \in Threads, CommitTree(t) PROVE TypeOK'
    BY <1>7 DEF TypeOK, CommitTree, locks, local, Steps
<1>8. ASSUME NEW t \in Threads, RestoreTree(t) PROVE TypeOK'
    BY <1>8 DEF TypeOK, RestoreTree, Return, locks, Steps, Outcomes
<1>9. ASSUME NEW t \in Threads, DropBackup(t) PROVE TypeOK'
    BY <1>9 DEF TypeOK, DropBackup, Return, locks, Steps, Outcomes
<1>10. ASSUME NEW t \in Threads, UpdateEntryFields(t) PROVE TypeOK'
    BY <1>10, <1>a DEF TypeOK, UpdateEntryFields, Return, disk, locks, Steps, Outcomes
<1>11. ASSUME NEW t \in Threads, FieldsDone(t) PROVE TypeOK'
    BY <1>11 DEF TypeOK, FieldsDone, Return, disk, locks, Steps, Outcomes
<1>12. ASSUME NEW t \in Threads, NEW f \in Fields, WriteField(t, f) PROVE TypeOK'
    <2>1. /\ dir \in Tree
          /\ op[t].entry \in Entries
          /\ dir[op[t].entry] \in Entry
          /\ op[t].value \in Entry
        BY <1>12, OpFacts, WrittenEntry DEF TypeOK, WriterInv, LockInv, WriteField, Tree, Ops
    <2>2. [dir EXCEPT ![op[t].entry][f] = op[t].value[f]] \in Tree
        BY <2>1 DEF Tree, Entry
    <2> QED
        BY <1>12, <2>2 DEF TypeOK, WriteField, locks
<1>13. ASSUME NEW t \in Threads, Failure(t) PROVE TypeOK'
    <2>1. ASSUME LockFails(t) \/ ReadFails(t) \/ StageFails(t) \/ CommitFails(t) PROVE TypeOK'
        BY <2>1 DEF TypeOK, LockFails, ReadFails, StageFails, CommitFails, Fault, Return,
                    disk, locks, Steps, Outcomes
    <2>2. ASSUME RestoreFails(t) PROVE TypeOK'
        BY <2>2 DEF TypeOK, WriterInv, RestoreFails, Fault, Return, locks, Steps, Outcomes
    <2>3. ASSUME DropBackupFails(t) \/ WriteFieldFails(t) PROVE TypeOK'
        BY <2>3 DEF TypeOK, DropBackupFails, WriteFieldFails, Fault, Return, disk, locks, Steps, Outcomes
    <2> QED
        BY <1>13, <2>1, <2>2, <2>3 DEF Failure
<1>14. ASSUME NEW p \in Procs, Crash(p) PROVE TypeOK'
    BY <1>14, <1>a DEF TypeOK, Crash, Forget, Fault, InCrash, Steps, LockModes, Outcomes
<1>15. CASE UNCHANGED vars
    BY <1>15 DEF TypeOK, vars, disk, locks, local
<1> QED
    BY <1>1, <1>2, <1>3, <1>4, <1>5, <1>6, <1>7, <1>8, <1>9, <1>10, <1>11, <1>12, <1>13,
       <1>14, <1>15 DEF Next, Step

-----------------------------------------------------------------------------
(* The locks.                                                              *)

(* Nobody holds a lock at the start.                                       *)
LEMMA InitLockInv == Init => LockInv
    BY DEF Init, LockInv, Past

(* Taking an exclusive flock waits for everybody, a shared one for writers;*)
(* every other step keeps or gives up what the thread holds.               *)
LEMMA NextLockInv == TypeOK /\ LockInv /\ [Next]_vars => LockInv'
<1> SUFFICES ASSUME TypeOK, LockInv, [Next]_vars
             PROVE  LockInv'
    OBVIOUS
<1>a. \A o \in Ops : Mode(o) \in {"shared", "exclusive"}
    BY OpFacts
<1>1. ASSUME NEW t \in Threads, NEW o \in Ops, LockMutex(t, o) PROVE LockInv'
    BY <1>1 DEF TypeOK, LockInv, Past, LockMutex
<1>2. ASSUME NEW t \in Threads, lockEntryTree(t) PROVE LockInv'
    BY <1>2, <1>a DEF TypeOK, LockInv, Past, lockEntryTree, local, LockModes
<1>3. ASSUME NEW t \in Threads, Unlock(t) PROVE LockInv'
    BY <1>3 DEF TypeOK, LockInv, Past, Unlock, Forget
<1>4. ASSUME NEW t \in Threads, LoadEntryDirs(t) PROVE LockInv'
    BY <1>4 DEF TypeOK, LockInv, Past, LoadEntryDirs, Return, locks
<1>5. ASSUME NEW t \in Threads, LoadForTransact(t) PROVE LockInv'
    BY <1>5 DEF TypeOK, LockInv, Past, LoadForTransact, Return, locks
<1>6. ASSUME NEW t \in Threads, MoveAside(t) \/ CommitTree(t) PROVE LockInv'
    BY <1>6 DEF TypeOK, LockInv, Past, MoveAside, CommitTree, locks, local
<1>7. ASSUME NEW t \in Threads, RestoreTree(t) \/ DropBackup(t) PROVE LockInv'
    BY <1>7 DEF TypeOK, LockInv, Past, RestoreTree, DropBackup, Return, locks
<1>8. ASSUME NEW t \in Threads, UpdateEntryFields(t) PROVE LockInv'
    BY <1>8 DEF TypeOK, LockInv, Past, UpdateEntryFields, Return, locks
<1>9. ASSUME NEW t \in Threads, FieldsDone(t) PROVE LockInv'
    BY <1>9 DEF TypeOK, LockInv, Past, FieldsDone, Return, locks
<1>10. ASSUME NEW t \in Threads, NEW f \in Fields, WriteField(t, f) PROVE LockInv'
    BY <1>10 DEF TypeOK, LockInv, Past, WriteField, locks
<1>11. ASSUME NEW t \in Threads, Failure(t) PROVE LockInv'
    <2>1. ASSUME LockFails(t) \/ ReadFails(t) \/ StageFails(t) PROVE LockInv'
        BY <2>1 DEF TypeOK, LockInv, Past, LockFails, ReadFails, StageFails, Return, locks
    <2>2. ASSUME CommitFails(t) \/ RestoreFails(t) PROVE LockInv'
        BY <2>2 DEF TypeOK, LockInv, Past, CommitFails, RestoreFails, Return, locks
    <2>3. ASSUME DropBackupFails(t) \/ WriteFieldFails(t) PROVE LockInv'
        BY <2>3 DEF TypeOK, LockInv, Past, DropBackupFails, WriteFieldFails, Return, locks
    <2> QED
        BY <1>11, <2>1, <2>2, <2>3 DEF Failure
<1>12. ASSUME NEW p \in Procs, Crash(p) PROVE LockInv'
    BY <1>12 DEF TypeOK, LockInv, Past, Crash, Forget, InCrash
<1>13. CASE UNCHANGED vars
    BY <1>13 DEF LockInv, Past, vars, locks, local
<1> QED
    BY <1>1, <1>2, <1>3, <1>4, <1>5, <1>6, <1>7, <1>8, <1>9, <1>10, <1>11, <1>12, <1>13
    DEF Next, Step

(* A thread in the middle of a change is alone past the locks: every other *)
(* thread holds no flock, and so is idle, waiting for it, or giving up.    *)
LEMMA WriterIsAlone ==
    ASSUME TypeOK, LockInv,
           NEW t \in Threads,
           \/ pc[t] \in {"stage", "commit", "restore", "drop", "fields"}
           \/ pc[t] = "open" /\ op[t] \notin Loads
           \/ pc[t] = "unlock" /\ res[t] = "ok" /\ op[t] \notin Loads,
           NEW u \in Threads \ {t}
    PROVE  /\ fl[u] = "none"
           /\ pc[u] \in {"idle", "flock", "unlock"}
           /\ pc[u] = "unlock" => res[u] # "ok"
<1>1. op[t] \in Ops /\ op[u] \in Ops \cup {NoOp}
    BY DEF TypeOK, LockInv
<1>2. op[t] \notin Loads => Mode(op[t]) = "exclusive"
    BY <1>1 DEF Ops, Loads, Transactions, FieldUpdates, Mode
<1>3. op[t] \in Transactions \cup FieldUpdates => op[t] \notin Loads
    BY DEF Transactions, FieldUpdates, Loads
<1>4. op[t] \notin Loads
    BY <1>3 DEF LockInv
<1>5. fl[t] = "exclusive"
    BY <1>2, <1>4 DEF LockInv, Past
<1>6. fl[u] = "none"
    BY <1>5 DEF LockInv
<1>7. Mode(op[u]) # "none"
    BY <1>1, OpFacts
<1> QED
    BY <1>6, <1>7 DEF TypeOK, LockInv, Past, Steps

-----------------------------------------------------------------------------
(* What a writer knows of the disk.                                        *)

(* Nobody is past the locks at the start.                                  *)
LEMMA InitWriterInv == Init => WriterInv
    BY DEF Init, WriterInv

(* A writer's own steps establish what it knows of the disk, and nobody    *)
(* else's can disturb it: it is alone past the locks.                      *)
LEMMA NextWriterInv == TypeOK /\ LockInv /\ WriterInv /\ [Next]_vars => WriterInv'
<1> SUFFICES ASSUME TypeOK, LockInv, WriterInv, [Next]_vars
             PROVE  WriterInv'
    OBVIOUS
<1> USE DEF loadEntryDirsUnlocked
<1>1. ASSUME NEW t \in Threads, NEW o \in Ops, LockMutex(t, o) PROVE WriterInv'
    BY <1>1 DEF TypeOK, WriterInv, LockMutex, disk
<1>2. ASSUME NEW t \in Threads, lockEntryTree(t) PROVE WriterInv'
    BY <1>2 DEF TypeOK, WriterInv, lockEntryTree, disk, local
<1>3. ASSUME NEW t \in Threads, Unlock(t) PROVE WriterInv'
    BY <1>3 DEF TypeOK, WriterInv, Unlock, Forget, disk
<1>4. ASSUME NEW t \in Threads, LoadEntryDirs(t) PROVE WriterInv'
    <2>1. op[t] \notin Transactions
        BY <1>4 DEF LoadEntryDirs, Transactions
    <2> QED
        BY <1>4, <2>1 DEF TypeOK, WriterInv, LoadEntryDirs, Return, disk, locks
<1>5. ASSUME NEW t \in Threads, LoadForTransact(t) PROVE WriterInv'
    BY <1>5 DEF TypeOK, WriterInv, LoadForTransact, Return, disk, locks
<1>6. ASSUME NEW t \in Threads, MoveAside(t) PROVE WriterInv'
    <2>1. \A u \in Threads \ {t} : pc[u] \in {"idle", "flock", "unlock"} /\ (pc[u] = "unlock" => res[u] # "ok")
        BY <1>6, WriterIsAlone DEF MoveAside
    <2> QED
        BY <1>6, <2>1 DEF TypeOK, WriterInv, MoveAside, locks, local
<1>7. ASSUME NEW t \in Threads, CommitTree(t) PROVE WriterInv'
    <2>1. \A u \in Threads \ {t} : pc[u] \in {"idle", "flock", "unlock"} /\ (pc[u] = "unlock" => res[u] # "ok")
        BY <1>7, WriterIsAlone DEF CommitTree
    <2> QED
        BY <1>7, <2>1 DEF TypeOK, WriterInv, CommitTree, locks, local
<1>8. ASSUME NEW t \in Threads, RestoreTree(t) PROVE WriterInv'
    <2>1. \A u \in Threads \ {t} : pc[u] \in {"idle", "flock", "unlock"} /\ (pc[u] = "unlock" => res[u] # "ok")
        BY <1>8, WriterIsAlone DEF RestoreTree
    <2> QED
        BY <1>8, <2>1 DEF TypeOK, WriterInv, RestoreTree, Return, locks
<1>9. ASSUME NEW t \in Threads, DropBackup(t) PROVE WriterInv'
    BY <1>9 DEF TypeOK, WriterInv, DropBackup, Return, locks
<1>10. ASSUME NEW t \in Threads, UpdateEntryFields(t) PROVE WriterInv'
    <2>1. op[t].entry \in Entries /\ op[t] \notin Transactions
        BY <1>10 DEF UpdateEntryFields, FieldUpdates, Transactions
    <2> QED
        BY <1>10, <2>1 DEF TypeOK, WriterInv, UpdateEntryFields, Return, disk, locks, EmptyTree
<1>11. ASSUME NEW t \in Threads, FieldsDone(t) PROVE WriterInv'
    <2>1. op[t] \notin Transactions
        BY <1>11 DEF FieldsDone, LockInv, FieldUpdates, Transactions
    <2> QED
        BY <1>11, <2>1 DEF TypeOK, WriterInv, FieldsDone, Return, disk, locks
<1>12. ASSUME NEW t \in Threads, NEW f \in Fields, WriteField(t, f) PROVE WriterInv'
    <2>1. \A u \in Threads \ {t} : pc[u] \in {"idle", "flock", "unlock"} /\ (pc[u] = "unlock" => res[u] # "ok")
        BY <1>12, WriterIsAlone DEF WriteField
    <2>2. dir \in Tree /\ op[t] \in FieldUpdates
        BY <1>12 DEF TypeOK, WriterInv, LockInv, WriteField
    <2>3. op[t].entry \in Entries /\ op[t].value \in Entry
        BY <2>2, WrittenEntry DEF FieldUpdates
    <2>4. dir' \in Tree /\ dir'[op[t].entry] \in Entry
        BY <1>12, <2>2, <2>3 DEF WriterInv, WriteField, Tree, Entry
    <2>5. dir' # Missing /\ dir'[op[t].entry] # None
        BY <2>4, TreeFacts
    <2> QED
        BY <1>12, <2>1, <2>5 DEF TypeOK, WriterInv, WriteField, locks
<1>13. ASSUME NEW t \in Threads, Failure(t) PROVE WriterInv'
    <2>1. ASSUME LockFails(t) \/ ReadFails(t) \/ StageFails(t) \/ CommitFails(t) PROVE WriterInv'
        BY <2>1 DEF TypeOK, WriterInv, LockFails, ReadFails, StageFails, CommitFails, Return, disk, locks
    <2>2. ASSUME RestoreFails(t) \/ DropBackupFails(t) PROVE WriterInv'
        BY <2>2 DEF TypeOK, WriterInv, RestoreFails, DropBackupFails, Return, locks
    <2>3. ASSUME WriteFieldFails(t) PROVE WriterInv'
        BY <2>3 DEF TypeOK, WriterInv, WriteFieldFails, Return, disk, locks
    <2> QED
        BY <1>13, <2>1, <2>2, <2>3 DEF Failure
<1>14. ASSUME NEW p \in Procs, Crash(p) PROVE WriterInv'
    BY <1>14 DEF TypeOK, WriterInv, Crash, Forget, InCrash
<1>15. CASE UNCHANGED vars
    BY <1>15 DEF WriterInv, vars, disk, locks, local
<1> QED
    BY <1>1, <1>2, <1>3, <1>4, <1>5, <1>6, <1>7, <1>8, <1>9, <1>10, <1>11, <1>12, <1>13,
       <1>14, <1>15 DEF Next, Step

-----------------------------------------------------------------------------
(* Where the last committed tree is.                                       *)

(* The empty registry is the committed tree.                               *)
LEMMA InitCommittedInv == Init => CommittedInv
    BY DEF Init, CommittedInv

(* The committed tree moves from the path to a backup, and from there back *)
(* to the path or to the trees left behind; it is never dropped before its *)
(* replacement is in place.                                                *)
LEMMA NextCommittedInv ==
    TypeOK /\ LockInv /\ WriterInv /\ CommittedInv /\ [Next]_vars => CommittedInv'
<1> SUFFICES ASSUME TypeOK, LockInv, WriterInv, CommittedInv, [Next]_vars
             PROVE  CommittedInv'
    OBVIOUS
<1> USE DEF loadEntryDirsUnlocked
<1>1. ASSUME NEW t \in Threads, NEW o \in Ops, LockMutex(t, o) PROVE CommittedInv'
    BY <1>1 DEF TypeOK, CommittedInv, LockMutex, disk
<1>2. ASSUME NEW t \in Threads, lockEntryTree(t) \/ Unlock(t) PROVE CommittedInv'
    BY <1>2 DEF TypeOK, CommittedInv, lockEntryTree, Unlock, disk
<1>3. ASSUME NEW t \in Threads, LoadEntryDirs(t) \/ LoadForTransact(t) PROVE CommittedInv'
    BY <1>3 DEF TypeOK, CommittedInv, LoadEntryDirs, LoadForTransact, Return, disk
<1>4. ASSUME NEW t \in Threads, MoveAside(t) PROVE CommittedInv'
    <2>1. \A u \in Threads \ {t} : pc[u] \in {"idle", "flock", "unlock"}
        BY <1>4, WriterIsAlone DEF MoveAside
    <2> QED
        BY <1>4, <2>1 DEF TypeOK, CommittedInv, MoveAside
<1>5. ASSUME NEW t \in Threads, CommitTree(t) PROVE CommittedInv'
    <2>1. \A u \in Threads \ {t} : pc[u] \in {"idle", "flock", "unlock"}
        BY <1>5, WriterIsAlone DEF CommitTree
    <2>2. next[t] # Missing
        BY TreeFacts DEF TypeOK
    <2> QED
        BY <1>5, <2>1, <2>2 DEF TypeOK, CommittedInv, CommitTree
<1>6. ASSUME NEW t \in Threads, RestoreTree(t) PROVE CommittedInv'
    <2>1. \A u \in Threads \ {t} : pc[u] \in {"idle", "flock", "unlock"}
        BY <1>6, WriterIsAlone DEF RestoreTree
    <2>2. backup[t] # Missing
        BY <1>6 DEF RestoreTree, WriterInv
    <2>3. backup[t] = committed
        BY <1>6, <2>2 DEF RestoreTree, CommittedInv, TypeOK
    <2> QED
        BY <1>6, <2>1, <2>2, <2>3 DEF TypeOK, CommittedInv, RestoreTree, Return
<1>7. ASSUME NEW t \in Threads, DropBackup(t) PROVE CommittedInv'
    BY <1>7 DEF TypeOK, CommittedInv, DropBackup, Return
<1>8. ASSUME NEW t \in Threads, UpdateEntryFields(t) \/ FieldsDone(t) PROVE CommittedInv'
    BY <1>8 DEF TypeOK, CommittedInv, UpdateEntryFields, FieldsDone, Return, disk
<1>9. ASSUME NEW t \in Threads, NEW f \in Fields, WriteField(t, f) PROVE CommittedInv'
    <2>1. \A u \in Threads : pc[u] \notin {"commit", "restore"}
        BY <1>9, WriterIsAlone DEF WriteField
    <2>2. dir' # Missing
        BY <1>9, NextWriterInv DEF WriteField, WriterInv
    <2> QED
        BY <1>9, <2>1, <2>2 DEF TypeOK, CommittedInv, WriteField
<1>10. ASSUME NEW t \in Threads, Failure(t) PROVE CommittedInv'
    <2>1. ASSUME LockFails(t) \/ ReadFails(t) \/ StageFails(t) \/ WriteFieldFails(t) PROVE CommittedInv'
        BY <2>1 DEF TypeOK, CommittedInv, LockFails, ReadFails, StageFails, WriteFieldFails, Return, disk
    <2>2. ASSUME CommitFails(t) PROVE CommittedInv'
        <3>1. \A u \in Threads \ {t} : pc[u] \in {"idle", "flock", "unlock"}
            BY <2>2, WriterIsAlone DEF CommitFails
        <3> QED
            BY <2>2, <3>1 DEF TypeOK, CommittedInv, CommitFails, Return, disk
    <2>3. ASSUME RestoreFails(t) PROVE CommittedInv'
        <3>1. \A u \in Threads \ {t} : pc[u] \in {"idle", "flock", "unlock"}
            BY <2>3, WriterIsAlone DEF RestoreFails
        <3> QED
            BY <2>3, <3>1 DEF TypeOK, WriterInv, CommittedInv, RestoreFails, Return
    <2>4. ASSUME DropBackupFails(t) PROVE CommittedInv'
        BY <2>4 DEF TypeOK, CommittedInv, DropBackupFails, Return
    <2> QED
        BY <1>10, <2>1, <2>2, <2>3, <2>4 DEF Failure
<1>11. ASSUME NEW p \in Procs, Crash(p) PROVE CommittedInv'
    BY <1>11 DEF TypeOK, WriterInv, CommittedInv, Crash, InCrash
<1>12. CASE UNCHANGED vars
    BY <1>12 DEF CommittedInv, vars, disk
<1> QED
    BY <1>1, <1>2, <1>3, <1>4, <1>5, <1>6, <1>7, <1>8, <1>9, <1>10, <1>11, <1>12
    DEF Next, Step

-----------------------------------------------------------------------------
(* Torn entries.                                                           *)

(* An empty registry has no torn entry.                                    *)
LEMMA InitWholeInv == Init => WholeInv
    BY DEF Init, WholeInv, Whole, EmptyTree

(* Only a field update in progress, or one that a fault cut short, leaves  *)
(* an entry whose fields were not written together.                        *)
LEMMA NextWholeInv ==
    TypeOK /\ LockInv /\ WriterInv /\ CommittedInv /\ WholeInv /\ [Next]_vars => WholeInv'
<1> SUFFICES ASSUME TypeOK, LockInv, WriterInv, CommittedInv, WholeInv, [Next]_vars, faults' = 0
             PROVE  WholeInv'
    BY DEF WholeInv
<1>a. faults \in Nat
    BY DEF TypeOK
<1>1. ASSUME NEW t \in Threads, NEW o \in Ops, LockMutex(t, o) PROVE WholeInv'
    BY <1>1 DEF TypeOK, WholeInv, Whole, LockMutex, disk
<1>2. ASSUME NEW t \in Threads, lockEntryTree(t) PROVE WholeInv'
    BY <1>2 DEF TypeOK, WholeInv, Whole, lockEntryTree, disk, local
<1>3. ASSUME NEW t \in Threads, Unlock(t) PROVE WholeInv'
    BY <1>3 DEF TypeOK, WholeInv, Whole, Unlock, Forget, disk
<1>4. ASSUME NEW t \in Threads, LoadEntryDirs(t) PROVE WholeInv'
    BY <1>4 DEF TypeOK, WholeInv, Whole, LoadEntryDirs, Return, disk
<1>5. ASSUME NEW t \in Threads, LoadForTransact(t) PROVE WholeInv'
    <2> DEFINE tree == loadEntryDirsUnlocked(dir)
    <2>1. \A u \in Threads : pc[u] # "fields"
        <3>1. op[t] \notin Loads
            BY <1>5 DEF LoadForTransact, Loads, Transactions
        <3> QED
            BY <1>5, <3>1, WriterIsAlone DEF LoadForTransact
    <2>2. Whole(tree)
        BY <1>5, <2>1 DEF LoadForTransact, WholeInv, CommittedInv, loadEntryDirsUnlocked, Whole, EmptyTree
    <2>3. tree \in Tree
        BY TreeFacts DEF TypeOK
    <2>4. op[t].entry \in Entries /\ (op[t].kind # "remove" => op[t].value \in Written)
        BY <1>5 DEF LoadForTransact, Transactions
    <2>5. Whole(Mutate(op[t], tree))
        BY <2>2, <2>3, <2>4 DEF Whole, Mutate, Tree
    <2> HIDE DEF tree
    <2>6. /\ next' = next \/ next' = [next EXCEPT ![t] = Mutate(op[t], tree)]
          /\ pc'[t] = "stage" => next'[t] = Mutate(op[t], tree)
          /\ \A u \in Threads \ {t} : pc'[u] = pc[u] /\ next'[u] = next[u]
          /\ pc'[t] \in {"stage", "unlock"}
          /\ UNCHANGED <<committed, op, todo, faults>>
        BY <1>5 DEF tree, TypeOK, LoadForTransact, Return, disk
    <2> QED
        BY <2>1, <2>5, <2>6 DEF TypeOK, WholeInv, Whole
<1>6. ASSUME NEW t \in Threads, MoveAside(t) PROVE WholeInv'
    BY <1>6 DEF TypeOK, WholeInv, Whole, MoveAside, local
<1>7. ASSUME NEW t \in Threads, CommitTree(t) PROVE WholeInv'
    <2>1. \A u \in Threads \ {t} : pc[u] \in {"idle", "flock", "unlock"}
        BY <1>7, WriterIsAlone DEF CommitTree
    <2> QED
        BY <1>7, <2>1 DEF TypeOK, WholeInv, Whole, CommitTree, local
<1>8. ASSUME NEW t \in Threads, RestoreTree(t) \/ DropBackup(t) PROVE WholeInv'
    BY <1>8 DEF TypeOK, WholeInv, Whole, RestoreTree, DropBackup, Return
<1>9. ASSUME NEW t \in Threads, UpdateEntryFields(t) PROVE WholeInv'
    <2>1. op[t] \notin Loads
        BY <1>9 DEF UpdateEntryFields, Loads, FieldUpdates
    <2>2. \A u \in Threads \ {t} : pc[u] \in {"idle", "flock", "unlock"}
        BY <1>9, <2>1, WriterIsAlone DEF UpdateEntryFields
    <2>3. Whole(committed)
        BY <1>9, <2>2 DEF UpdateEntryFields, WholeInv
    <2>4. pc'[t] = "fields" =>
             \A f \in Fields \ todo'[t] : committed'[op'[t].entry][f] = op'[t].value[f]
        <3>1. op[t].entry \in Entries
            BY <1>9 DEF UpdateEntryFields, FieldUpdates
        <3>2. loadEntryDirsUnlocked(dir)[op[t].entry] # None => dir = committed /\ dir # Missing
            BY <3>1 DEF CommittedInv, loadEntryDirsUnlocked, EmptyTree
        <3> QED
            BY <1>9, <3>2 DEF TypeOK, UpdateEntryFields, Return, loadEntryDirsUnlocked, disk
    <2> QED
        BY <1>9, <2>2, <2>3, <2>4 DEF TypeOK, WholeInv, Whole, UpdateEntryFields, Return, disk
<1>10. ASSUME NEW t \in Threads, FieldsDone(t) PROVE WholeInv'
    <2>1. \A u \in Threads \ {t} : pc[u] \in {"idle", "flock", "unlock"}
        BY <1>10, WriterIsAlone DEF FieldsDone
    <2>2. op[t].entry \in Entries /\ op[t].value \in Written
        BY <1>10 DEF FieldsDone, LockInv, FieldUpdates
    <2>3. committed[op[t].entry] \in Entry
        BY <1>10, <2>2 DEF FieldsDone, TypeOK, WriterInv, CommittedInv, Tree
    <2>4. \A f \in Fields : committed[op[t].entry][f] = op[t].value[f]
        BY <1>10 DEF FieldsDone, WholeInv
    <2>5. committed[op[t].entry] = op[t].value
        BY <2>2, <2>3, <2>4, WrittenEntry DEF Entry
    <2>6. Whole(committed)
        BY <1>10, <2>2, <2>5 DEF FieldsDone, WholeInv, Whole
    <2> QED
        BY <1>10, <2>1, <2>6 DEF TypeOK, WholeInv, Whole, FieldsDone, Return, disk
<1>11. ASSUME NEW t \in Threads, NEW f \in Fields, WriteField(t, f) PROVE WholeInv'
    <2>1. \A u \in Threads \ {t} : pc[u] \in {"idle", "flock", "unlock"}
        BY <1>11, WriterIsAlone DEF WriteField
    <2>2. op[t].entry \in Entries
        BY <1>11 DEF WriteField, LockInv, FieldUpdates
    <2>3. dir = committed /\ dir \in Tree /\ dir[op[t].entry] \in Entry
        BY <1>11, <2>2 DEF WriteField, TypeOK, WriterInv, CommittedInv, Tree
    <2>4. /\ \A e \in Entries \ {op[t].entry} : committed'[e] = committed[e]
          /\ \A g \in Fields : committed'[op[t].entry][g] =
                IF g = f THEN op[t].value[f] ELSE committed[op[t].entry][g]
        BY <1>11, <2>2, <2>3 DEF WriteField, Tree, Entry
    <2>5. /\ UNCHANGED <<pc, op, next, faults>>
          /\ pc[t] = "fields"
          /\ \A u \in Threads \ {t} : todo'[u] = todo[u]
          /\ todo'[t] = todo[t] \ {f}
        BY <1>11 DEF TypeOK, WriteField
    <2> QED
        BY <2>1, <2>4, <2>5 DEF WholeInv, Whole
<1>12. ASSUME NEW t \in Threads, Failure(t) PROVE WholeInv'
    <2>1. faults' = faults + 1
        BY <1>12 DEF Failure, Fault, LockFails, ReadFails, StageFails, CommitFails,
                     RestoreFails, DropBackupFails, WriteFieldFails
    <2> QED
        BY <2>1, <1>a
<1>13. ASSUME NEW p \in Procs, Crash(p) PROVE WholeInv'
    BY <1>13, <1>a DEF Crash, Fault
<1>14. CASE UNCHANGED vars
    BY <1>14 DEF WholeInv, Whole, vars, disk, local
<1> QED
    BY <1>1, <1>2, <1>3, <1>4, <1>5, <1>6, <1>7, <1>8, <1>9, <1>10, <1>11, <1>12, <1>13,
       <1>14 DEF Next, Step

-----------------------------------------------------------------------------
(* The inductive invariant, and what follows from it.                      *)

(* The conjunction above is an invariant of the store.                     *)
THEOREM InductiveInvariant == Spec => []IInv
<1>1. Init => IInv
    BY InitTypeOK, InitLockInv, InitWriterInv, InitCommittedInv, InitWholeInv DEF IInv
<1>2. IInv /\ [Next]_vars => IInv'
    BY NextTypeOK, NextLockInv, NextWriterInv, NextCommittedInv, NextWholeInv DEF IInv
<1> QED
    BY <1>1, <1>2, PTL DEF Spec

(* Every variable keeps its type; in particular only complete trees are    *)
(* ever left in backup directories.                                        *)
THEOREM TypeCorrect == Spec => []TypeOK
<1>1. IInv => TypeOK
    BY DEF IInv
<1> QED
    BY <1>1, InductiveInvariant, PTL

(* The tree a swap is about: the writer's, for there is only one.          *)
LogicalIs ==
    /\ \A t \in Threads : pc[t] \in {"commit", "restore"} =>
          Logical = loadEntryDirsUnlocked(backup[t])
    /\ (\A t \in Threads : pc[t] \notin {"commit", "restore"}) =>
          Logical = loadEntryDirsUnlocked(dir)

(* The inductive invariant fixes the refinement mapping: at most one       *)
(* thread is in mid-swap, and then its backup is the tree.                 *)
LEMMA LogicalTree == IInv => LogicalIs
<1> SUFFICES ASSUME IInv PROVE LogicalIs
    OBVIOUS
<1>1. ASSUME NEW t \in Threads, pc[t] \in {"commit", "restore"}
      PROVE  Logical = loadEntryDirsUnlocked(backup[t])
    <2>1. \A u \in Threads \ {t} : pc[u] \in {"idle", "flock", "unlock"}
        BY <1>1, WriterIsAlone DEF IInv
    <2>2. CASE backup[t] # Missing
        <3>1. Swapping = {t}
            BY <1>1, <2>1, <2>2 DEF Swapping
        <3> QED
            BY <2>2, <3>1 DEF Logical, loadEntryDirsUnlocked
    <2>3. CASE backup[t] = Missing
        <3>1. Swapping = {}
            BY <1>1, <2>1, <2>3 DEF Swapping
        <3>2. dir = Missing
            BY <1>1 DEF IInv, WriterInv
        <3> QED
            BY <2>3, <3>1, <3>2 DEF Logical, loadEntryDirsUnlocked
    <2> QED
        BY <2>2, <2>3
<1>2. ASSUME \A t \in Threads : pc[t] \notin {"commit", "restore"}
      PROVE  Logical = loadEntryDirsUnlocked(dir)
    <2>1. Swapping = {}
        BY <1>2 DEF Swapping
    <2> QED
        BY <2>1 DEF Logical
<1> QED
    BY <1>1, <1>2 DEF LogicalIs

(* The same of the state after a step.                                     *)
LEMMA LogicalTreeNext == IInv' => LogicalIs'
    BY LogicalTree, PTL

(* TransactEntryDirs loses no update, whatever other threads and processes *)
(* do and whatever fails: the tree it replaces is the tree it read.        *)
THEOREM TransactionsLoseNoUpdate == Spec => []NoLostUpdate
<1>1. IInv => NoLostUpdate
    <2> SUFFICES ASSUME IInv, NEW t \in Threads
                 PROVE  /\ pc[t] \in {"stage", "commit", "restore"} => Logical = snap[t]
                        /\ pc[t] = "unlock" /\ op[t] \in Transactions /\ res[t] = "ok" => dir = next[t]
        BY DEF NoLostUpdate
    <2>1. CASE pc[t] = "stage"
        <3>1. \A u \in Threads : pc[u] \notin {"commit", "restore"}
            BY <2>1, WriterIsAlone DEF IInv
        <3> QED
            BY <2>1, <3>1, LogicalTree DEF LogicalIs, IInv, WriterInv
    <2>2. CASE pc[t] \in {"commit", "restore"}
        BY <2>2, LogicalTree DEF LogicalIs, IInv, WriterInv
    <2> QED
        BY <2>1, <2>2 DEF IInv, WriterInv
<1> QED
    BY <1>1, InductiveInvariant, PTL

(* No failed rename and no crash destroys the last committed tree.         *)
THEOREM CommittedTreeSurvives == Spec => []CommittedTreeOnDisk
<1>1. IInv => CommittedTreeOnDisk
    BY DEF IInv, WriterInv, CommittedInv, CommittedTreeOnDisk, loadEntryDirsUnlocked
<1> QED
    BY <1>1, InductiveInvariant, PTL

(* Under the shared locks a reader meets neither the gap of a swap nor     *)
(* half a field update.                                                    *)
THEOREM ReadersAreIsolated == Spec => []ReadersSeeWholeTrees
<1>1. IInv => ReadersSeeWholeTrees
    <2> SUFFICES ASSUME IInv, NEW t \in Threads, Holds(t, "shared")
                 PROVE  \/ loadEntryDirsUnlocked(dir) = committed /\ (Whole(committed) \/ faults > 0)
                        \/ dir = Missing /\ committed \in orphans
        BY DEF ReadersSeeWholeTrees
    <2>1. \A u \in Threads : pc[u] \notin {"commit", "restore", "fields"}
        <3> SUFFICES ASSUME NEW u \in Threads, pc[u] \in {"commit", "restore", "fields"}
                     PROVE  FALSE
            OBVIOUS
        <3>1. u # t
            <4>1. op[u] \in Transactions \cup FieldUpdates /\ fl[u] = Mode(op[u])
                BY DEF IInv, LockInv, Past
            <4>2. Mode(op[u]) = "exclusive"
                BY <4>1 DEF Transactions, FieldUpdates, Mode
            <4> QED
                BY <4>1, <4>2 DEF Holds
        <3> QED
            BY <3>1, WriterIsAlone DEF IInv, Holds
    <2>2. faults > 0 \/ Whole(committed)
        BY <2>1 DEF IInv, TypeOK, WholeInv
    <2> QED
        BY <2>1, <2>2 DEF IInv, CommittedInv, loadEntryDirsUnlocked
<1> QED
    BY <1>1, InductiveInvariant, PTL

-----------------------------------------------------------------------------
(* The store implements the atomic one.                                    *)

(* The mapped tree depends on the disk and the program counters only.      *)
LEMMA LogicalUnchanged ==
    ASSUME UNCHANGED <<dir, backup>>, Swapping' = Swapping
    PROVE  Logical' = Logical
    BY DEF Logical, loadEntryDirsUnlocked

(* A transaction the store commits is one of the atomic store's.           *)
LEMMA MutateIsAtomic ==
    ASSUME NEW o \in Transactions, MutateOk(o, Logical), Logical' = Mutate(o, Logical),
           orphans' = orphans
    PROVE  Atomic!Next
<1>1. /\ o.kind \in {"add", "replace", "remove"}
      /\ o.entry \in Entries
      /\ o.kind # "remove" => o.value \in Written
    BY DEF Transactions
<1>2. CASE o.kind = "add"
    <2>1. o.value \in Atomic!Entry /\ Atomic!Add(o.entry, o.value)
        BY <1>1, <1>2, WrittenEntry
        DEF MutateOk, Mutate, Atomic!Add, Atomic!Entry, Atomic!Fields, Entry, Fields
    <2> QED
        BY <1>1, <2>1 DEF Atomic!Next
<1>3. CASE o.kind = "replace"
    <2>1. o.value \in Atomic!Entry /\ Atomic!Replace(o.entry, o.value)
        BY <1>1, <1>3, WrittenEntry
        DEF MutateOk, Mutate, Atomic!Replace, Atomic!Entry, Atomic!Fields, Entry, Fields
    <2> QED
        BY <1>1, <2>1 DEF Atomic!Next
<1>4. CASE o.kind = "remove"
    <2>1. Atomic!Remove(o.entry)
        BY <1>4 DEF Mutate, Atomic!Remove
    <2> QED
        BY <1>1, <2>1 DEF Atomic!Next
<1> QED
    BY <1>1, <1>2, <1>3, <1>4

(* A step maps to one step of the atomic store or to none: only a commit,  *)
(* a field write, a failed restore and a crash in mid-swap are visible.    *)
LEMMA StepSimulation ==
    ASSUME IInv, IInv', [Next]_vars
    PROVE  Atomic!Next \/ (Logical' = Logical /\ orphans' = orphans)
<1> DEFINE Same == Logical' = Logical /\ orphans' = orphans
<1>1. ASSUME NEW t \in Threads, NEW o \in Ops, LockMutex(t, o) PROVE Same
    <2>1. Swapping' = Swapping
        BY <1>1 DEF IInv, TypeOK, LockMutex, disk, Swapping
    <2> QED
        BY <1>1, <2>1, LogicalUnchanged DEF LockMutex, disk
<1>2. ASSUME NEW t \in Threads, lockEntryTree(t) \/ Unlock(t) PROVE Same
    <2>1. Swapping' = Swapping
        BY <1>2 DEF IInv, TypeOK, lockEntryTree, Unlock, disk, Swapping
    <2> QED
        BY <1>2, <2>1, LogicalUnchanged DEF lockEntryTree, Unlock, disk
<1>3. ASSUME NEW t \in Threads, LoadEntryDirs(t) \/ LoadForTransact(t) PROVE Same
    <2>1. Swapping' = Swapping
        BY <1>3 DEF IInv, TypeOK, LoadEntryDirs, LoadForTransact, Return, disk, Swapping
    <2> QED
        BY <1>3, <2>1, LogicalUnchanged DEF LoadEntryDirs, LoadForTransact, disk
<1>4. ASSUME NEW t \in Threads, UpdateEntryFields(t) \/ FieldsDone(t) PROVE Same
    <2>1. Swapping' = Swapping
        BY <1>4 DEF IInv, TypeOK, UpdateEntryFields, FieldsDone, Return, disk, Swapping
    <2> QED
        BY <1>4, <2>1, LogicalUnchanged DEF UpdateEntryFields, FieldsDone, disk
<1>5. ASSUME NEW t \in Threads, MoveAside(t) PROVE Same
    <2>1. \A u \in Threads : pc[u] \notin {"commit", "restore"}
        BY <1>5, WriterIsAlone DEF IInv, MoveAside
    <2>2. Logical = loadEntryDirsUnlocked(dir)
        BY <2>1, LogicalTree DEF LogicalIs
    <2>3. pc'[t] = "commit" /\ backup'[t] = dir
        BY <1>5 DEF IInv, TypeOK, MoveAside
    <2>4. Logical' = loadEntryDirsUnlocked(dir)
        BY <2>3, LogicalTreeNext DEF LogicalIs, loadEntryDirsUnlocked
    <2> QED
        BY <1>5, <2>2, <2>4 DEF MoveAside
<1>6. ASSUME NEW t \in Threads, CommitTree(t) PROVE Atomic!Next
    <2>1. Logical = snap[t] /\ op[t] \in Transactions
        BY <1>6, LogicalTree DEF LogicalIs, CommitTree, IInv, WriterInv, LockInv
    <2>2. \A u \in Threads \ {t} : pc[u] \in {"idle", "flock", "unlock"}
        BY <1>6, WriterIsAlone DEF IInv, CommitTree
    <2>3. \A u \in Threads : pc'[u] \notin {"commit", "restore"}
        BY <1>6, <2>2 DEF CommitTree, IInv, TypeOK
    <2>4. next[t] # Missing
        BY TreeFacts DEF IInv, TypeOK
    <2>5. Logical' = next[t]
        BY <1>6, <2>3, <2>4, LogicalTreeNext DEF LogicalIs, CommitTree, loadEntryDirsUnlocked
    <2>6. MutateOk(op[t], Logical) /\ next[t] = Mutate(op[t], Logical)
        BY <1>6, <2>1 DEF CommitTree, IInv, WriterInv
    <2> QED
        BY <1>6, <2>1, <2>5, <2>6, MutateIsAtomic DEF CommitTree
<1>7. ASSUME NEW t \in Threads, RestoreTree(t) PROVE Same
    <2>1. Logical = loadEntryDirsUnlocked(backup[t])
        BY <1>7, LogicalTree DEF LogicalIs, RestoreTree
    <2>2. \A u \in Threads \ {t} : pc[u] \in {"idle", "flock", "unlock"}
        BY <1>7, WriterIsAlone DEF IInv, RestoreTree
    <2>3. \A u \in Threads : pc'[u] \notin {"commit", "restore"}
        BY <1>7, <2>2 DEF RestoreTree, Return, IInv, TypeOK
    <2> QED
        BY <1>7, <2>1, <2>3, LogicalTreeNext DEF LogicalIs, RestoreTree, loadEntryDirsUnlocked
<1>8. ASSUME NEW t \in Threads, DropBackup(t) \/ DropBackupFails(t) PROVE Same
    <2>1. \A u \in Threads : pc[u] \notin {"commit", "restore"}
        BY <1>8, WriterIsAlone DEF IInv, DropBackup, DropBackupFails
    <2>2. \A u \in Threads : pc'[u] \notin {"commit", "restore"}
        BY <1>8, <2>1 DEF DropBackup, DropBackupFails, Return, IInv, TypeOK
    <2> QED
        BY <1>8, <2>1, <2>2, LogicalTree, LogicalTreeNext
        DEF LogicalIs, DropBackup, DropBackupFails, loadEntryDirsUnlocked
<1>9. ASSUME NEW t \in Threads, NEW f \in Fields, WriteField(t, f) PROVE Atomic!Next
    <2>1. \A u \in Threads : pc[u] \notin {"commit", "restore"}
        BY <1>9, WriterIsAlone DEF IInv, WriteField
    <2>2. dir # Missing /\ dir[op[t].entry] # None /\ dir' # Missing
        BY <1>9 DEF IInv, WriterInv, WriteField
    <2>3. Logical = dir /\ Logical' = dir'
        BY <1>9, <2>1, <2>2, LogicalTree, LogicalTreeNext
        DEF LogicalIs, loadEntryDirsUnlocked, WriteField
    <2>4. op[t].entry \in Entries /\ op[t].value[f] \in Values /\ f \in Atomic!Fields
        BY <1>9 DEF WriteField, IInv, LockInv, FieldUpdates, Written, Atomic!Fields, Fields
    <2>5. Atomic!UpdateField(op[t].entry, f, op[t].value[f])
        BY <1>9, <2>2, <2>3 DEF WriteField, Atomic!UpdateField
    <2> QED
        BY <2>4, <2>5 DEF Atomic!Next
<1>10. ASSUME NEW t \in Threads,
              LockFails(t) \/ ReadFails(t) \/ StageFails(t) \/ WriteFieldFails(t)
       PROVE  Same
    <2>1. Swapping' = Swapping
        BY <1>10 DEF IInv, TypeOK, LockFails, ReadFails, StageFails, WriteFieldFails,
                     Return, disk, Swapping
    <2> QED
        BY <1>10, <2>1, LogicalUnchanged DEF LockFails, ReadFails, StageFails, WriteFieldFails, disk
<1>11. ASSUME NEW t \in Threads, CommitFails(t) PROVE Same
    <2>1. Swapping' = Swapping
        BY <1>11 DEF IInv, TypeOK, CommitFails, Return, disk, Swapping
    <2> QED
        BY <1>11, <2>1, LogicalUnchanged DEF CommitFails, disk
<1>12. ASSUME NEW t \in Threads, RestoreFails(t) PROVE Atomic!Next
    <2>1. Logical = backup[t] /\ dir = Missing
        BY <1>12, LogicalTree DEF LogicalIs, RestoreFails, IInv, WriterInv, loadEntryDirsUnlocked
    <2>2. \A u \in Threads \ {t} : pc[u] \in {"idle", "flock", "unlock"}
        BY <1>12, WriterIsAlone DEF IInv, RestoreFails
    <2>3. \A u \in Threads : pc'[u] \notin {"commit", "restore"}
        BY <1>12, <2>2 DEF RestoreFails, Return, IInv, TypeOK
    <2>4. Logical' = EmptyTree
        BY <1>12, <2>1, <2>3, LogicalTreeNext DEF LogicalIs, RestoreFails, loadEntryDirsUnlocked
    <2> QED
        BY <1>12, <2>1, <2>4
        DEF RestoreFails, Atomic!Next, Atomic!SetAside, Atomic!EmptyTree, EmptyTree
<1>13. ASSUME NEW p \in Procs, Crash(p) PROVE Atomic!Next \/ Same
    <2> DEFINE Swap(u) == pc[u] \in {"commit", "restore"}
    <2>1. /\ dir' = dir
          /\ \A u \in Threads \ InCrash(p) : pc'[u] = pc[u] /\ backup'[u] = backup[u]
          /\ \A u \in InCrash(p) : pc'[u] = "idle"
        BY <1>13 DEF Crash, InCrash
    <2>2. CASE \E t \in InCrash(p) : backup[t] # Missing
        <3>1. PICK t \in InCrash(p) : backup[t] # Missing
            BY <2>2
        <3>2. t \in Threads /\ pc[t] \in {"commit", "restore", "drop"} /\ backup[t] \in Tree
            BY <3>1 DEF InCrash, IInv, TypeOK, WriterInv
        <3>3. \A u \in Threads \ {t} : pc[u] \in {"idle", "flock", "unlock"}
            BY <3>2, WriterIsAlone DEF IInv
        <3>4. \A u \in Threads \ {t} : backup[u] = Missing
            BY <3>3 DEF IInv, WriterInv
        <3>5. orphans' = orphans \cup {backup[t]}
            BY <1>13, <3>1, <3>2, <3>4 DEF Crash, InCrash
        <3>6. \A u \in Threads : ~Swap(u)'
            BY <2>1, <3>1, <3>3
        <3>7. Logical' = loadEntryDirsUnlocked(dir)
            BY <2>1, <3>6, LogicalTreeNext DEF LogicalIs, loadEntryDirsUnlocked
        <3>8. CASE Swap(t)
            <4>1. Logical = backup[t] /\ dir = Missing
                BY <3>1, <3>2, <3>8, LogicalTree
                DEF LogicalIs, IInv, WriterInv, loadEntryDirsUnlocked
            <4> QED
                BY <3>5, <3>7, <4>1
                DEF Atomic!Next, Atomic!SetAside, Atomic!EmptyTree, EmptyTree, loadEntryDirsUnlocked
        <3>9. CASE ~Swap(t)
            <4>1. Logical = loadEntryDirsUnlocked(dir)
                BY <3>3, <3>9, LogicalTree DEF LogicalIs
            <4>2. Atomic!LeaveBehind(backup[t]) /\ backup[t] \in Atomic!Tree
                BY <3>2, <3>5, <3>7, <4>1
                DEF Atomic!LeaveBehind, Atomic!Tree, Atomic!Entry, Atomic!Fields, Tree, Entry, Fields
            <4> QED
                BY <4>2 DEF Atomic!Next
        <3> QED
            BY <3>8, <3>9
    <2>3. CASE \A t \in InCrash(p) : backup[t] = Missing
        <3>1. orphans' = orphans
            BY <1>13, <2>3 DEF Crash, InCrash
        <3>2. CASE \E u \in Threads \ InCrash(p) : Swap(u)
            <4>1. PICK u \in Threads \ InCrash(p) : Swap(u)
                BY <3>2
            <4>2. Swap(u)' /\ backup'[u] = backup[u]
                BY <2>1, <4>1
            <4> QED
                BY <3>1, <4>1, <4>2, LogicalTree, LogicalTreeNext
                DEF LogicalIs, loadEntryDirsUnlocked
        <3>3. CASE \A u \in Threads \ InCrash(p) : ~Swap(u)
            <4>1. \A u \in Threads : ~Swap(u)'
                BY <2>1, <3>3
            <4>2. Logical' = loadEntryDirsUnlocked(dir)
                BY <2>1, <4>1, LogicalTreeNext DEF LogicalIs, loadEntryDirsUnlocked
            <4>3. ASSUME NEW t \in InCrash(p), Swap(t)
                  PROVE  Logical = loadEntryDirsUnlocked(dir)
                <5>1. t \in Threads /\ dir = Missing /\ backup[t] = Missing
                    BY <2>3, <4>3 DEF InCrash, IInv, WriterInv
                <5> QED
                    BY <4>3, <5>1, LogicalTree DEF LogicalIs
            <4>4. Logical = loadEntryDirsUnlocked(dir)
                BY <3>3, <4>3, LogicalTree DEF LogicalIs
            <4> QED
                BY <3>1, <4>2, <4>4
        <3> QED
            BY <3>2, <3>3
    <2> QED
        BY <2>2, <2>3
<1>14. CASE UNCHANGED vars
    <2>1. Swapping' = Swapping
        BY <1>14 DEF vars, disk, Swapping
    <2> QED
        BY <1>14, <2>1, LogicalUnchanged DEF vars, disk
<1> QED
    BY <1>1, <1>2, <1>3, <1>4, <1>5, <1>6, <1>7, <1>8, <1>9, <1>10, <1>11, <1>12, <1>13,
       <1>14 DEF Next, Step, Failure

(* Every behaviour of the store, with all its locks, renames, failures and *)
(* crashes, is a behaviour of the atomic registry its callers rely on.     *)
THEOREM ImplementsAtomicTree == Spec => RefinesAtomicTree
<1>1. Init => Atomic!Init
    BY DEF Init, Atomic!Init, Logical, Swapping, loadEntryDirsUnlocked, EmptyTree, Atomic!EmptyTree
<1>2. IInv /\ IInv' /\ [Next]_vars => [Atomic!Next]_<<Logical, orphans>>
    BY StepSimulation
<1> QED
    BY <1>1, <1>2, InductiveInvariant, PTL DEF Spec, RefinesAtomicTree, Atomic!Spec

(***************************************************************************)
(*                               The console.                              *)
(***************************************************************************)

(* A screen: a record of the fields the screens share, in a phase of its   *)
(* own.                                                                    *)
PhaseNames == UNION {Phases[kd] : kd \in DOMAIN Phases}

Actions ==
    {"change", "edit", "sni", "changeSpoke", "editSpoke", "sniSpoke",
     "usage", "spokeUsage", "addPackage", "logs", "service", "force", "add",
     "remove", "reset"} \cup subscriptionActions

Screen ==
    [kind : DOMAIN Phases, phase : PhaseNames, able : BOOLEAN,
     action : Actions \cup {Nil}, node : Nodes \cup {Nil},
     proto : Protos \cup {Nil},
     shown : ((Nodes \cup {Nil}) \X (Protos \cup {Nil})) \cup {Nil},
     load : Nat, fields : BOOLEAN, ask : BOOLEAN, redirected : BOOLEAN,
     resumeIssue : BOOLEAN, pickHost : BOOLEAN,
     refused : {"no", "current", "error"}, tag : BOOLEAN, ch : Nat,
     complete : BOOLEAN, failed : BOOLEAN]

IsScreen(f) == f \in Screen /\ f.phase \in Phases[f.kind]

(* What leads each screen to its forms: a protocol or a spoke is edited    *)
(* with what was read of it at hand, a selection of protocols and a        *)
(* service action are never those of an edit, and Setup has no command     *)
(* before its confirmation.                                                *)
ChosenAt(f, p) ==
    /\ f.kind = "protocols" =>
         /\ p = "Select" => f.action # "editSpoke"
         /\ f.action = "editSpoke" /\ p \in {"Form", "Confirm", "Running"} =>
              f.fields /\ (f.node # Nil => f.shown = <<f.node, f.proto>>)
    /\ f.kind = "monitor" =>
         /\ p = "ServiceConfirm" => f.action = "service"
         /\ f.action = "spokeUsage" /\ f.node # Nil
              /\ p \in {"Form", "Confirm", "Running"} =>
              f.shown = <<f.node, Nil>>
    /\ f.kind = "install" /\ p \in {"Preflight", "Form", "Confirm"} => f.ch = 0

Chosen(f) == ChosenAt(f, f.phase)

(* A screen between two messages: what it is, and that a request for       *)
(* Certificate management was already answered.                            *)
Rests(f) == IsScreen(f) /\ Chosen(f) /\ ~f.ask

(* A screen of this session.                                               *)
Settled(f) == Rests(f) /\ f.ch <= Len(runs) /\ f.load <= MaxLoadID

Message == [done : BOOLEAN, ok : BOOLEAN, tag : BOOLEAN]
Run == [selfupdate : BOOLEAN, working : BOOLEAN, ok : BOOLEAN, tag : BOOLEAN,
        sent : Nat, chan : Seq(Message), waiters : Nat]

ShapeInv ==
    /\ Settled(flow)
    /\ flow.kind = "menu" => flow = MainMenu
    /\ suspended # Nil =>
         /\ Settled(suspended) /\ suspended.kind # "menu"
         /\ flow.kind = "certificates" /\ flow.redirected
    /\ runs \in Seq(Run)
    /\ \A r \in DOMAIN runs : Len(runs[r].chan) <= Cap
    /\ replaced \in BOOLEAN /\ late \in BOOLEAN

(* A command still at work, or whose last lines nobody read, is the one    *)
(* of the open screen, whose single receive will take them; its last line, *)
(* and no other, is its result.                                            *)
Live(r) == runs[r].working \/ runs[r].chan # <<>>

LiveInv ==
    \A r \in DOMAIN runs : Live(r) =>
      /\ flow.ch = r /\ flow.phase = "Running"
      /\ ~flow.complete /\ ~flow.failed
      /\ runs[r].waiters = 1
      /\ runs[r].selfupdate = (flow.kind = "selfupdate")
      /\ \A i \in 1..Len(runs[r].chan) :
           /\ runs[r].chan[i].done = (~runs[r].working /\ i = Len(runs[r].chan))
           /\ runs[r].chan[i].done =>
                /\ runs[r].chan[i].ok = runs[r].ok
                /\ runs[r].selfupdate /\ runs[r].tag => runs[r].chan[i].tag

(* What a screen says of its command, while it is open or suspended.       *)
Truthful(f) ==
    f.ch # 0 =>
      /\ f.complete => ~runs[f.ch].working /\ runs[f.ch].ok
      /\ f.failed => ~runs[f.ch].working /\ ~runs[f.ch].ok

TruthInv == Truthful(flow) /\ (suspended # Nil => Truthful(suspended))

(* The replaced binary is the work of the command on screen, and the       *)
(* screen knows, or is about to be told.                                   *)
ReplacedInv ==
    replaced =>
      /\ flow.kind = "selfupdate" /\ flow.ch # 0
      /\ flow.phase \in {"Running", "Done"}
      /\ runs[flow.ch].selfupdate /\ runs[flow.ch].tag
      /\ Live(flow.ch) \/ flow.tag

ConsoleInv ==
    ShapeInv /\ (late \/ (LiveInv /\ TruthInv /\ ReplacedInv))

-----------------------------------------------------------------------------
(* What a key may do to the open screen.                                   *)

(* The screen g is the screen f but for its phase, what it shows and asks: *)
(* same screen, same command, same report of it.                           *)
Frame(f, g) ==
    /\ g \in Screen
    /\ g.kind = f.kind /\ g.redirected = f.redirected /\ g.tag = f.tag
    /\ g.ch = f.ch /\ g.complete = f.complete /\ g.failed = f.failed
    /\ g.ask => f.kind # "certificates"

(* A command starts on its screen, which shows nothing of an earlier one.  *)
Starts(f, o) ==
    /\ o.cmd.type = "run" /\ ~o.done
    /\ o.flow.phase = "Running" /\ o.flow.ch = Len(runs) + 1
    /\ ~o.flow.complete /\ ~o.flow.failed /\ ~o.flow.ask

(* No command starts, and what the screen says of its command stays.       *)
Stays(f, o) ==
    /\ o.cmd.type # "run"
    /\ o.flow.phase # "Running"
    /\ o.flow.ch = f.ch /\ o.flow.complete = f.complete
    /\ o.flow.failed = f.failed \/ f.ch = 0

(* The outcome o of a key: a screen of the same kind that is well formed,  *)
(* a start or not, out of the running phase only by a completed command,   *)
(* and out of the program if the binary was replaced.                      *)
Sound(f, o) ==
    /\ IsScreen(o.flow) /\ Chosen(o.flow)
    /\ o.flow.kind = f.kind /\ o.flow.redirected = f.redirected
    /\ o.flow.tag = f.tag
    /\ o.flow.ask => f.kind # "certificates"
    /\ Starts(f, o) \/ Stays(f, o)
    /\ f.phase = "Running" =>
         f.complete /\ o.flow.phase = "Done" /\ ~o.done /\ ~o.flow.ask
    /\ f.kind = "selfupdate" /\ f.phase = "Done" /\ f.tag => o.cmd = QuitCmd

(* The key is not one of a running or a replaced screen.                   *)
Free(f) == f.phase # "Running" /\ ~(f.kind = "selfupdate" /\ f.phase = "Done")

(* The kinds whose forms carry no state of a spoke.                        *)
Plain(f) == f.kind \notin {"install", "protocols", "monitor"}

(* The phases of each screen, as a set of strings.                         *)
LEMMA PhaseFacts ==
    /\ DOMAIN Phases = {"menu", "quit", "install", "protocols", "relay",
         "subscribe", "monitor", "core", "certificates", "nodes",
         "selfupdate", "regenerate", "uninstall"}
    /\ Phases["menu"] = {"Menu"}
    /\ Phases["quit"] = {"Quit"}
    /\ Phases["install"] = {"Preflight", "Form", "Confirm", "Running", "Done"}
    /\ Phases["protocols"] =
         {"LoadErr", "Action", "Select", "EditPick", "Loading", "Form",
          "Confirm", "Running", "Done"}
    /\ Phases["relay"] =
         {"Action", "Landing", "Relay", "Confirm", "Running", "Done"}
    /\ Phases["subscribe"] =
         {"LoadErr", "Action", "Form", "Reorder", "Confirm", "Running", "Done"}
    /\ Phases["monitor"] =
         {"LoadErr", "Action", "Form", "Loading", "Confirm", "ServiceConfirm",
          "Running", "Done", "LogsLoading", "Logs"}
    /\ Phases["core"] =
         {"Action", "StableLoading", "StableSelect", "Confirm", "Running",
          "Done", "LogsLoading", "Logs"}
    /\ Phases["certificates"] =
         {"List", "ZonePick", "ZoneList", "HostForm", "ZoneForm", "RenewPick",
          "RenewConfirm", "CertPick", "CertDeleteConfirm", "ZoneDeletePick",
          "ZoneDeleteConfirm", "Running", "Done"}
    /\ Phases["nodes"] =
         {"List", "Form", "HostKeyScan", "HostKeyConfirm", "DeletePick",
          "RemoveConfirm", "ForceConfirm", "Running", "Done"}
    /\ Phases["selfupdate"] = {"Checking", "Check", "Confirm", "Running", "Done"}
    /\ Phases["regenerate"] = {"Select", "Confirm", "Running", "Done"}
    /\ Phases["uninstall"] = {"Confirm", "Running", "Done"}
BY DEF Phases, installPhase, protocolPhase, relayPhase, subscriptionPhase,
       monitorPhase, corePhase, certPhase, nodePhase, selfUpdatePhase,
       regeneratePhase, uninstallPhase

(* A phase of a screen is a phase.                                         *)
LEMMA PhaseIsNamed ==
    ASSUME NEW kd \in DOMAIN Phases, NEW p \in Phases[kd]
    PROVE  p \in PhaseNames
BY DEF PhaseNames

(* A change of phase changes nothing else.                                 *)
LEMMA PhaseChange ==
    ASSUME NEW f \in Screen, NEW p \in PhaseNames,
           NEW g, g = [f EXCEPT !.phase = p]
    PROVE  /\ g \in Screen /\ g.phase = p
           /\ g.kind = f.kind /\ g.redirected = f.redirected /\ g.tag = f.tag
           /\ g.ch = f.ch /\ g.complete = f.complete /\ g.failed = f.failed
           /\ g.ask = f.ask /\ g.action = f.action /\ g.node = f.node
           /\ g.proto = f.proto /\ g.shown = f.shown /\ g.fields = f.fields
           /\ g.load = f.load /\ g.refused = f.refused /\ g.able = f.able
           /\ g.pickHost = f.pickHost /\ g.resumeIssue = f.resumeIssue
BY Zenon DEF Screen

(* An outcome that starts nothing.                                         *)
LEMMA Quiet ==
    ASSUME NEW f, NEW g, NEW cmd, NEW d,
           Rests(f), Free(f), Frame(f, g), Chosen(g), cmd.type # "run",
           g.phase \in Phases[f.kind], g.phase # "Running",
           NEW o, o = Out(g, cmd, d)
    PROVE  Sound(f, o)
<1>1. o.flow = g /\ o.cmd = cmd /\ o.done = d
  BY DEF Out
<1>2. Stays(f, o)
  BY <1>1 DEF Stays, Frame
<1> QED BY <1>1, <1>2 DEF Sound, Frame, Free, IsScreen

(* Only one of the commands a handler returns is a run.                    *)
LEMMA CommandTypes ==
    /\ NoCmd.type # "run" /\ QuitCmd.type # "run" /\ RunCmd.type = "run"
    /\ \A what, id, nd, pr : LoadCmd(what, id, nd, pr).type # "run"
BY DEF NoCmd, QuitCmd, RunCmd, LoadCmd

(* Staying in a phase that is not the running one.                         *)
LEMMA StaySound ==
    ASSUME NEW f, NEW g, Rests(f), Free(f), Frame(f, g), Chosen(g),
           g.phase \in Phases[f.kind], g.phase # "Running",
           NEW o \in Stay(g)
    PROVE  Sound(f, o)
<1>1. o = Out(g, NoCmd, FALSE)
  BY DEF Stay
<1> QED BY <1>1, Quiet, CommandTypes

(* Leaving the screen.                                                     *)
LEMMA CloseSound ==
    ASSUME NEW f, NEW g, Rests(f), Free(f), Frame(f, g), Chosen(g),
           g.phase \in Phases[f.kind], g.phase # "Running",
           NEW o \in Close(g)
    PROVE  Sound(f, o)
<1>1. o = Out(g, NoCmd, TRUE)
  BY DEF Close
<1> QED BY <1>1, Quiet, CommandTypes

(* A screen is framed by itself.                                           *)
LEMMA FrameSelf ==
    ASSUME NEW f, Rests(f)
    PROVE  Frame(f, f)
BY DEF Rests, IsScreen, Frame

(* A change of phase keeps the frame.                                      *)
LEMMA FramePhase ==
    ASSUME NEW f, NEW g, NEW p \in PhaseNames, NEW h, Frame(f, g),
           h = [g EXCEPT !.phase = p]
    PROVE  Frame(f, h) /\ h.phase = p
<1>1. g \in Screen
  BY DEF Frame
<1>2. /\ h \in Screen /\ h.phase = p
      /\ h.kind = g.kind /\ h.redirected = g.redirected /\ h.tag = g.tag
      /\ h.ch = g.ch /\ h.complete = g.complete /\ h.failed = g.failed
      /\ h.ask = g.ask
  BY <1>1, PhaseChange
<1> QED BY <1>2 DEF Frame

(* A screen without state of a spoke is always well chosen.                *)
LEMMA PlainChosen ==
    ASSUME NEW f, NEW g, Plain(f), g.kind = f.kind
    PROVE  Chosen(g)
BY DEF Plain, Chosen, ChosenAt

(* Moving on to another phase in which the screen is well chosen.          *)
LEMMA GotoSound ==
    ASSUME NEW f, NEW g, NEW p, Rests(f), Free(f), Frame(f, g),
           p \in Phases[f.kind], p # "Running",
           Chosen([g EXCEPT !.phase = p]),
           NEW o \in Goto(g, p)
    PROVE  Sound(f, o)
<1>1. p \in PhaseNames
  BY PhaseIsNamed DEF Rests, IsScreen, Screen
<1>2. Frame(f, [g EXCEPT !.phase = p]) /\ [g EXCEPT !.phase = p].phase = p
  BY <1>1, FramePhase
<1>3. o \in Stay([g EXCEPT !.phase = p])
  BY DEF Goto
<1> QED BY <1>2, <1>3, StaySound

(* Moving on to another phase, in a screen without state of a spoke.       *)
LEMMA GotoPlain ==
    ASSUME NEW f, NEW g, NEW p, Rests(f), Free(f), Frame(f, g), Plain(f),
           p \in Phases[f.kind], p # "Running",
           NEW o \in Goto(g, p)
    PROVE  Sound(f, o)
<1>1. p \in PhaseNames
  BY PhaseIsNamed DEF Rests, IsScreen, Screen
<1>2. Frame(f, [g EXCEPT !.phase = p])
  BY <1>1, FramePhase
<1>3. Chosen([g EXCEPT !.phase = p])
  BY <1>2, PlainChosen DEF Frame
<1> QED BY <1>3, GotoSound

(* resetRun changes the run state and nothing else.                        *)
LEMMA RunChange ==
    ASSUME NEW f \in Screen, runs \in Seq(Run)
    PROVE  LET g == resetRun(f) IN
           /\ g \in Screen /\ g.phase = f.phase
           /\ g.kind = f.kind /\ g.redirected = f.redirected /\ g.tag = f.tag
           /\ g.ch = Len(runs) + 1 /\ g.complete = FALSE /\ g.failed = FALSE
           /\ g.ask = f.ask /\ g.action = f.action /\ g.node = f.node
           /\ g.proto = f.proto /\ g.shown = f.shown /\ g.fields = f.fields
<1>1. PICK n \in Nat : n = Len(runs) + 1
  OBVIOUS
<1>2. PICK g : g = [f EXCEPT !.ch = n, !.complete = FALSE, !.failed = FALSE]
  OBVIOUS
<1>3. g \in Screen
  BY <1>2, Zenon DEF Screen
<1>4. /\ g.phase = f.phase
      /\ g.kind = f.kind /\ g.redirected = f.redirected /\ g.tag = f.tag
      /\ g.ch = n /\ g.complete = FALSE /\ g.failed = FALSE
      /\ g.ask = f.ask /\ g.action = f.action /\ g.node = f.node
      /\ g.proto = f.proto /\ g.shown = f.shown /\ g.fields = f.fields
  BY <1>2, Zenon DEF Screen
<1>5. g = resetRun(f)
  BY <1>1, <1>2 DEF resetRun
<1> QED BY <1>1, <1>3, <1>4, <1>5

(* Starting a command.                                                     *)
LEMMA LaunchSound ==
    ASSUME NEW f, NEW g, Rests(f), Free(f), Frame(f, g), ~g.ask,
           "Running" \in Phases[f.kind], runs \in Seq(Run),
           Plain(f) \/ Chosen([g EXCEPT !.phase = "Running"]),
           NEW o \in Launch(g)
    PROVE  Sound(f, o)
<1> DEFINE h == [resetRun(g) EXCEPT !.phase = "Running"]
<1>1. g \in Screen
  BY DEF Frame
<1>2. Len(runs) + 1 \in Nat
  OBVIOUS
<1>3. /\ h \in Screen /\ h.phase = "Running"
      /\ h.kind = g.kind /\ h.redirected = g.redirected /\ h.tag = g.tag
      /\ h.ch = Len(runs) + 1 /\ h.complete = FALSE /\ h.failed = FALSE
      /\ h.ask = g.ask /\ h.action = g.action /\ h.node = g.node
      /\ h.proto = g.proto /\ h.shown = g.shown /\ h.fields = g.fields
  <2>1. "Running" \in PhaseNames
    BY PhaseIsNamed DEF Rests, IsScreen, Screen
  <2>2. PICK e : e = resetRun(g)
    OBVIOUS
  <2>3. /\ e \in Screen
        /\ e.kind = g.kind /\ e.redirected = g.redirected /\ e.tag = g.tag
        /\ e.ch = Len(runs) + 1 /\ e.complete = FALSE /\ e.failed = FALSE
        /\ e.ask = g.ask /\ e.action = g.action /\ e.node = g.node
        /\ e.proto = g.proto /\ e.shown = g.shown /\ e.fields = g.fields
    BY <1>1, <2>2, RunChange
  <2>4. h = [e EXCEPT !.phase = "Running"]
    BY <2>2
  <2> HIDE DEF h
  <2> QED BY <2>1, <2>3, <2>4, PhaseChange
<1>4. o.flow = h /\ o.cmd = RunCmd /\ o.done = FALSE
  BY DEF Launch, Out
<1> HIDE DEF h
<1>5. Chosen(h)
  <2>1. CASE Plain(f)
    BY <2>1, <1>3, PlainChosen DEF Frame
  <2>2. CASE Chosen([g EXCEPT !.phase = "Running"])
    BY <2>2, <1>1, <1>3, PhaseChange DEF Chosen, ChosenAt
  <2> QED BY <2>1, <2>2
<1>6. Starts(f, o)
  BY <1>3, <1>4, CommandTypes DEF Starts
<1> QED BY <1>3, <1>4, <1>5, <1>6 DEF Sound, Frame, Free, IsScreen

(* Enter leaves the running phase once the command completed.              *)
LEMMA RunningSound ==
    ASSUME NEW f, NEW k, Rests(f), "Done" \in Phases[f.kind],
           NEW o \in RunningKey(f, k)
    PROVE  Sound(f, o)
<1> DEFINE g == [f EXCEPT !.phase = "Done"]
<1>1. f.phase = "Running" /\ f.complete /\ o \in Stay(g)
  BY DEF RunningKey, When, Goto
<1>2. "Done" \in PhaseNames /\ f \in Screen
  BY PhaseIsNamed DEF Rests, IsScreen, Screen
<1>3. /\ g \in Screen /\ g.phase = "Done"
      /\ g.kind = f.kind /\ g.redirected = f.redirected /\ g.tag = f.tag
      /\ g.ch = f.ch /\ g.complete = f.complete /\ g.failed = f.failed
      /\ g.ask = f.ask
  BY <1>2, PhaseChange
<1>4. o.flow = g /\ o.cmd = NoCmd /\ o.done = FALSE
  BY <1>1 DEF Stay, Out
<1> HIDE DEF g
<1>5. Chosen(g)
  BY <1>3 DEF Chosen, ChosenAt
<1>6. Stays(f, o)
  BY <1>3, <1>4, CommandTypes DEF Stays
<1> QED BY <1>1, <1>3, <1>4, <1>5, <1>6 DEF Sound, IsScreen, Rests

(* Any key closes a finished screen.                                       *)
LEMMA DoneSound ==
    ASSUME NEW f, NEW k, Rests(f), f.kind # "selfupdate",
           NEW o \in handleDoneKey(f, k)
    PROVE  Sound(f, o)
<1>1. f.phase = "Done" /\ o \in Close(f)
  BY DEF handleDoneKey, When
<1>2. f.phase \in Phases[f.kind]
  BY DEF Rests, IsScreen
<1> QED BY <1>1, <1>2, FrameSelf, CloseSound DEF Rests, Free

(* Closing the screen as it stands.                                        *)
LEMMA CloseHere ==
    ASSUME NEW f, Rests(f), Free(f), NEW o \in Close(f)
    PROVE  Sound(f, o)
BY FrameSelf, CloseSound DEF Rests, IsScreen, Free

(* Moving on from the screen as it stands.                                 *)
LEMMA GotoHere ==
    ASSUME NEW f, NEW p, Rests(f), Free(f), Plain(f),
           p \in Phases[f.kind], p # "Running", NEW o \in Goto(f, p)
    PROVE  Sound(f, o)
BY FrameSelf, GotoPlain

(* A key that changes nothing.                                             *)
LEMMA StayHere ==
    ASSUME NEW f, Rests(f), Free(f), NEW o \in Stay(f)
    PROVE  Sound(f, o)
BY FrameSelf, StaySound DEF Rests, IsScreen, Free

(* A command that starts from the screen as it stands.                     *)
LEMMA LaunchHere ==
    ASSUME NEW f, Rests(f), Free(f), Plain(f), runs \in Seq(Run),
           "Running" \in Phases[f.kind], NEW o \in Launch(f)
    PROVE  Sound(f, o)
BY FrameSelf, LaunchSound DEF Rests

(* A picked action changes nothing but the action.                         *)
LEMMA ActionChange ==
    ASSUME NEW f, NEW g, NEW a \in Actions \cup {Nil}, Rests(f),
           g = [f EXCEPT !.action = a]
    PROVE  /\ Frame(f, g) /\ g.phase = f.phase /\ g.ask = f.ask /\ g.action = a
           /\ g.node = f.node /\ g.shown = f.shown /\ g.fields = f.fields
           /\ g.proto = f.proto
<1>1. f \in Screen
  BY DEF Rests, IsScreen
<1>2. /\ g \in Screen /\ g.phase = f.phase
      /\ g.kind = f.kind /\ g.redirected = f.redirected /\ g.tag = f.tag
      /\ g.ch = f.ch /\ g.complete = f.complete /\ g.failed = f.failed
      /\ g.ask = f.ask /\ g.action = a
      /\ g.node = f.node /\ g.shown = f.shown /\ g.fields = f.fields
      /\ g.proto = f.proto
  BY <1>1, Zenon DEF Screen
<1> QED BY <1>2 DEF Frame, Rests

(* The keys of Relay.                                                      *)
LEMMA RelaySound ==
    ASSUME NEW f, NEW k, Rests(f), f.kind = "relay", runs \in Seq(Run),
           NEW o \in relayKey(f, k)
    PROVE  Sound(f, o)
<1> DEFINE P == Phases[f.kind]
<1>0. /\ "Done" \in P /\ "Running" \in P /\ "Confirm" \in P
      /\ "Landing" \in P /\ "Relay" \in P /\ "Action" \in P
  BY PhaseFacts
<1> HIDE DEF P
<1>1. Plain(f) /\ f \in Screen
  BY DEF Plain, Rests, IsScreen
<1>2. \/ f.phase = "Action" /\ o \in relayStartAction(f)
      \/ f.phase = "Action" /\ o \in Close(f)
      \/ f.phase \in {"Landing", "Relay"} /\ o \in confirmPick(f)
      \/ f.phase \in {"Landing", "Relay", "Confirm"} /\ o \in relayBack(f)
      \/ f.phase = "Confirm" /\ o \in relayStart(f)
      \/ o \in RunningKey(f, k)
      \/ o \in handleDoneKey(f, k)
  BY DEF relayKey, When
<1>3. CASE f.phase = "Action" /\ o \in relayStartAction(f)
  <2>1. PICK a \in {"add", "change", "remove", "reset"} :
          \/ o \in Stay([f EXCEPT !.action = a])
          \/ o \in Goto([f EXCEPT !.action = a], "Landing")
    BY <1>3 DEF relayStartAction
  <2>2. PICK g : g = [f EXCEPT !.action = a]
    OBVIOUS
  <2>3. Frame(f, g) /\ g.phase = f.phase
    BY <2>2, ActionChange DEF Actions
  <2>4. Chosen(g) /\ Free(f) /\ g.phase \in Phases[f.kind]
    BY <1>0, <1>1, <1>3, <2>3, PlainChosen DEF Frame, P, Free
  <2> QED BY <1>0, <1>1, <1>3, <2>1, <2>2, <2>3, <2>4, StaySound, GotoPlain DEF P
<1>4. CASE f.phase = "Action" /\ o \in Close(f)
  BY <1>4, CloseHere DEF Free
<1>5. CASE f.phase \in {"Landing", "Relay"} /\ o \in confirmPick(f)
  BY <1>0, <1>1, <1>5, GotoHere DEF Free, P, confirmPick
<1>6. CASE f.phase \in {"Landing", "Relay", "Confirm"} /\ o \in relayBack(f)
  BY <1>0, <1>1, <1>6, GotoHere DEF Free, P, relayBack
<1>7. CASE f.phase = "Confirm" /\ o \in relayStart(f)
  BY <1>0, <1>1, <1>7, StayHere, LaunchHere DEF Free, P, relayStart, When
<1>8. CASE o \in RunningKey(f, k)
  BY <1>0, <1>8, RunningSound DEF P
<1>9. CASE o \in handleDoneKey(f, k)
  BY <1>9, DoneSound
<1> QED BY <1>2, <1>3, <1>4, <1>5, <1>6, <1>7, <1>8, <1>9

(* The keys of Regenerate node configs.                                    *)
LEMMA RegenerateSound ==
    ASSUME NEW f, NEW k, Rests(f), f.kind = "regenerate", runs \in Seq(Run),
           NEW o \in regenerateKey(f, k)
    PROVE  Sound(f, o)
<1> DEFINE P == Phases[f.kind]
<1>0. "Done" \in P /\ "Running" \in P /\ "Confirm" \in P /\ "Select" \in P
  BY PhaseFacts
<1> HIDE DEF P
<1>1. Plain(f)
  BY DEF Plain
<1>2. \/ f.phase \in {"Select", "Confirm"} /\
           (o \in Goto(f, "Confirm") \/ o \in Goto(f, "Select") \/ o \in Close(f))
      \/ f.phase = "Confirm" /\ o \in regenerateStart(f)
      \/ o \in RunningKey(f, k)
      \/ o \in handleDoneKey(f, k)
  BY DEF regenerateKey, When
<1>3. CASE f.phase \in {"Select", "Confirm"} /\
           (o \in Goto(f, "Confirm") \/ o \in Goto(f, "Select") \/ o \in Close(f))
  BY <1>0, <1>1, <1>3, GotoHere, CloseHere DEF Free, P
<1>4. CASE f.phase = "Confirm" /\ o \in regenerateStart(f)
  BY <1>0, <1>1, <1>4, GotoHere, LaunchHere DEF Free, P, regenerateStart
<1>5. CASE o \in RunningKey(f, k)
  BY <1>0, <1>5, RunningSound DEF P
<1>6. CASE o \in handleDoneKey(f, k)
  BY <1>6, DoneSound
<1> QED BY <1>2, <1>3, <1>4, <1>5, <1>6

(* The keys of Uninstall.                                                  *)
LEMMA UninstallSound ==
    ASSUME NEW f, NEW k, Rests(f), f.kind = "uninstall", runs \in Seq(Run),
           NEW o \in uninstallKey(f, k)
    PROVE  Sound(f, o)
<1>0. "Done" \in Phases[f.kind] /\ "Running" \in Phases[f.kind]
  BY PhaseFacts
<1>1. Plain(f)
  BY DEF Plain
<1>2. \/ f.phase = "Confirm" /\ (o \in Launch(f) \/ o \in Close(f))
      \/ o \in RunningKey(f, k)
      \/ o \in handleDoneKey(f, k)
  BY DEF uninstallKey, uninstallStart, When
<1>3. CASE f.phase = "Confirm" /\ (o \in Launch(f) \/ o \in Close(f))
  BY <1>0, <1>1, <1>3, LaunchHere, CloseHere DEF Free
<1>4. CASE o \in RunningKey(f, k)
  BY <1>0, <1>4, RunningSound
<1>5. CASE o \in handleDoneKey(f, k)
  BY <1>5, DoneSound
<1> QED BY <1>2, <1>3, <1>4, <1>5

(* Moving on with a background read.                                       *)
LEMMA LoadPlain ==
    ASSUME NEW f, NEW g, NEW p, NEW cmd, Rests(f), Free(f), Frame(f, g), Plain(f),
           p \in Phases[f.kind], p # "Running", cmd.type # "run",
           NEW o, o = Out([g EXCEPT !.phase = p], cmd, FALSE)
    PROVE  Sound(f, o)
<1>1. p \in PhaseNames
  BY PhaseIsNamed DEF Rests, IsScreen, Screen
<1>2. Frame(f, [g EXCEPT !.phase = p]) /\ [g EXCEPT !.phase = p].phase = p
  BY <1>1, FramePhase
<1>3. Chosen([g EXCEPT !.phase = p])
  BY <1>2, PlainChosen DEF Frame
<1> QED BY <1>2, <1>3, Quiet

(* The keys of Core management.                                            *)
LEMMA CoreSound ==
    ASSUME NEW f, NEW k, Rests(f), f.kind = "core", runs \in Seq(Run),
           NEW o \in coreKey(f, k)
    PROVE  Sound(f, o)
<1> DEFINE P == Phases[f.kind]
<1>0. /\ "Done" \in P /\ "Running" \in P /\ "Confirm" \in P /\ "Action" \in P
      /\ "StableSelect" \in P /\ "StableLoading" \in P /\ "LogsLoading" \in P
  BY PhaseFacts
<1> HIDE DEF P
<1>1. Plain(f) /\ f.phase \in Phases[f.kind]
  BY DEF Plain, Rests, IsScreen
<1>2. \/ f.phase = "Action" /\ o \in coreActivate(f)
      \/ /\ f.phase \in {"Action", "StableSelect", "Confirm", "StableLoading",
                         "LogsLoading", "Logs"}
         /\ \/ o \in Goto(f, "Confirm") \/ o \in Goto(f, "Action")
            \/ o \in Goto(f, "StableSelect") \/ o \in Close(f)
            \/ o \in Launch(f) \/ o \in loadLogsCmd(f)
      \/ o \in RunningKey(f, k)
      \/ o \in handleDoneKey(f, k)
  BY DEF coreKey, coreStart, When
<1>3. CASE f.phase = "Action" /\ o \in coreActivate(f)
  <2> DEFINE pick(a) == [f EXCEPT !.action = a]
  <2>1. \/ o \in loadLogsCmd(pick("logs"))
        \/ o \in loadStableTagsCmd(pick("change"))
        \/ o \in Stay(pick("change"))
        \/ o \in Goto(pick("service"), "Confirm")
        \/ o \in Stay(pick("service"))
    BY <1>3 DEF coreActivate
  <2>2. \A a \in {"logs", "change", "service"} :
           Frame(f, pick(a)) /\ pick(a).phase = f.phase /\ Chosen(pick(a))
    <3> TAKE a \in {"logs", "change", "service"}
    <3>1. Frame(f, pick(a)) /\ pick(a).phase = f.phase
      BY ActionChange DEF Actions
    <3> HIDE DEF pick
    <3> QED BY <1>1, <3>1, PlainChosen DEF Frame
  <2> HIDE DEF pick
  <2>3. Free(f) /\ f.phase # "Running"
    BY <1>3 DEF Free
  <2>4. CASE o \in loadLogsCmd(pick("logs"))
    BY <1>0, <1>1, <2>2, <2>3, <2>4, LoadPlain, CommandTypes DEF loadLogsCmd, P
  <2>5. CASE o \in loadStableTagsCmd(pick("change"))
    BY <1>0, <1>1, <2>2, <2>3, <2>5, LoadPlain, CommandTypes DEF loadStableTagsCmd, P
  <2>6. CASE o \in Stay(pick("change")) \/ o \in Stay(pick("service"))
    BY <1>1, <2>2, <2>3, <2>6, StaySound
  <2>7. CASE o \in Goto(pick("service"), "Confirm")
    BY <1>0, <1>1, <2>2, <2>3, <2>7, GotoPlain DEF P
  <2> QED BY <2>1, <2>4, <2>5, <2>6, <2>7
<1>4. CASE /\ f.phase \in {"Action", "StableSelect", "Confirm", "StableLoading",
                           "LogsLoading", "Logs"}
           /\ \/ o \in Goto(f, "Confirm") \/ o \in Goto(f, "Action")
              \/ o \in Goto(f, "StableSelect") \/ o \in Close(f)
              \/ o \in Launch(f) \/ o \in loadLogsCmd(f)
  <2>1. Free(f)
    BY <1>4 DEF Free
  <2>2. CASE o \in loadLogsCmd(f)
    BY <1>0, <1>1, <2>1, <2>2, FrameSelf, LoadPlain, CommandTypes DEF loadLogsCmd, P
  <2>3. CASE o \notin loadLogsCmd(f)
    BY <1>0, <1>1, <1>4, <2>1, <2>3, GotoHere, CloseHere, LaunchHere DEF P
  <2> QED BY <2>2, <2>3
<1>5. CASE o \in RunningKey(f, k)
  BY <1>0, <1>5, RunningSound DEF P
<1>6. CASE o \in handleDoneKey(f, k)
  BY <1>6, DoneSound
<1> QED BY <1>2, <1>3, <1>4, <1>5, <1>6

(* A spoke or nothing is chosen, and nothing else changes.                 *)
LEMMA NodeChange ==
    ASSUME NEW f, NEW g, NEW n \in Nodes \cup {Nil}, Rests(f),
           g = [f EXCEPT !.node = n]
    PROVE  /\ Frame(f, g) /\ g.phase = f.phase /\ g.ask = f.ask
           /\ g.node = n /\ g.action = f.action /\ g.shown = f.shown
           /\ g.fields = f.fields /\ g.proto = f.proto
<1>1. f \in Screen
  BY DEF Rests, IsScreen
<1>2. /\ g \in Screen /\ g.phase = f.phase
      /\ g.kind = f.kind /\ g.redirected = f.redirected /\ g.tag = f.tag
      /\ g.ch = f.ch /\ g.complete = f.complete /\ g.failed = f.failed
      /\ g.ask = f.ask /\ g.node = n /\ g.action = f.action
      /\ g.shown = f.shown /\ g.fields = f.fields /\ g.proto = f.proto
  BY <1>1, Zenon DEF Screen
<1> QED BY <1>2 DEF Frame, Rests

(* Certificate management is asked for, and nothing else changes.          *)
LEMMA AskChange ==
    ASSUME NEW f, NEW g, Rests(f), f.kind # "certificates",
           g = [f EXCEPT !.ask = TRUE]
    PROVE  /\ Frame(f, g) /\ g.phase = f.phase
           /\ g.node = f.node /\ g.action = f.action /\ g.shown = f.shown
           /\ g.fields = f.fields /\ g.proto = f.proto
<1>1. f \in Screen
  BY DEF Rests, IsScreen
<1>2. /\ g \in Screen /\ g.phase = f.phase
      /\ g.kind = f.kind /\ g.redirected = f.redirected /\ g.tag = f.tag
      /\ g.ch = f.ch /\ g.complete = f.complete /\ g.failed = f.failed
      /\ g.node = f.node /\ g.action = f.action
      /\ g.shown = f.shown /\ g.fields = f.fields /\ g.proto = f.proto
  BY <1>1, Zenon DEF Screen
<1> QED BY <1>2 DEF Frame

(* The keys of Subscription settings.                                      *)
LEMMA SubscribeSound ==
    ASSUME NEW f, NEW k, Rests(f), f.kind = "subscribe", runs \in Seq(Run),
           NEW o \in subscriptionsKey(f, k)
    PROVE  Sound(f, o)
<1> DEFINE P == Phases[f.kind]
<1>0. /\ "Done" \in P /\ "Running" \in P /\ "Confirm" \in P /\ "Action" \in P
      /\ "Form" \in P /\ "Reorder" \in P
  BY PhaseFacts
<1> HIDE DEF P
<1>1. Plain(f) /\ f.phase \in Phases[f.kind] /\ f \in Screen
  BY DEF Plain, Rests, IsScreen
<1>2. \/ f.phase = "Action" /\ o \in subscriptionsActivate(f)
      \/ f.phase = "Form" /\ o \in subscriptionsComplete(f)
      \/ f.phase = "Form" /\ o \in Stay([f EXCEPT !.node = Nil])
      \/ f.phase = "Confirm" /\ o \in subscriptionsStart(f)
      \/ /\ f.phase \in {"LoadErr", "Action", "Form", "Reorder", "Confirm"}
         /\ \/ o \in Goto(f, "Confirm") \/ o \in Goto(f, "Action")
            \/ o \in Goto(f, "Reorder") \/ o \in Goto(f, "Form")
            \/ o \in Close(f)
      \/ o \in RunningKey(f, k)
      \/ o \in handleDoneKey(f, k)
  BY DEF subscriptionsKey, When
<1>3. CASE f.phase = "Action" /\ o \in subscriptionsActivate(f)
  <2>1. CASE o \in {Out([f EXCEPT !.node = Nil, !.action = a,
                   !.fields = a \notin {"reorder", "refresh"},
                   !.phase = CASE a = "reorder" -> "Reorder"
                               [] a = "refresh" -> "Confirm"
                               [] OTHER -> "Form"], NoCmd, FALSE) :
                      a \in subscriptionActions}
    <3>1. PICK a \in subscriptionActions :
            o = Out([f EXCEPT !.node = Nil, !.action = a,
                   !.fields = a \notin {"reorder", "refresh"},
                   !.phase = CASE a = "reorder" -> "Reorder"
                               [] a = "refresh" -> "Confirm"
                               [] OTHER -> "Form"], NoCmd, FALSE)
      BY <2>1
    <3>2. PICK b \in BOOLEAN : b = (a \notin {"reorder", "refresh"})
      OBVIOUS
    <3>3. PICK p \in {"Reorder", "Confirm", "Form"} :
            p = CASE a = "reorder" -> "Reorder"
                  [] a = "refresh" -> "Confirm"
                  [] OTHER -> "Form"
      OBVIOUS
    <3>4. PICK g : g = [f EXCEPT !.node = Nil, !.action = a, !.fields = b, !.phase = p]
      OBVIOUS
    <3>5. a \in Actions /\ p \in PhaseNames
      BY <1>0, <1>1, PhaseIsNamed DEF Actions, P, Screen
    <3>6. /\ g \in Screen /\ g.phase = p
          /\ g.kind = f.kind /\ g.redirected = f.redirected /\ g.tag = f.tag
          /\ g.ch = f.ch /\ g.complete = f.complete /\ g.failed = f.failed
          /\ g.ask = f.ask
      BY <1>1, <3>4, <3>5, Zenon DEF Screen
    <3>7. Frame(f, g) /\ Chosen(g) /\ Free(f)
      BY <1>1, <1>3, <3>6, PlainChosen DEF Frame, Rests, Free
    <3>8. o = Out(g, NoCmd, FALSE)
      BY <3>1, <3>2, <3>3, <3>4
    <3> QED BY <1>0, <3>6, <3>7, <3>8, Quiet, CommandTypes DEF P
  <2>2. CASE o \in {Out([f EXCEPT !.node = Nil, !.action = a], NoCmd, FALSE) :
                      a \in {"editSpoke", "editGroup", "deleteGroup"}}
    <3>1. PICK a \in {"editSpoke", "editGroup", "deleteGroup"} :
            o = Out([f EXCEPT !.node = Nil, !.action = a], NoCmd, FALSE)
      BY <2>2
    <3>2. PICK g : g = [f EXCEPT !.node = Nil, !.action = a]
      OBVIOUS
    <3>3. a \in Actions
      BY DEF Actions, subscriptionActions
    <3>4. /\ g \in Screen /\ g.phase = f.phase
          /\ g.kind = f.kind /\ g.redirected = f.redirected /\ g.tag = f.tag
          /\ g.ch = f.ch /\ g.complete = f.complete /\ g.failed = f.failed
          /\ g.ask = f.ask
      BY <1>1, <3>2, <3>3, Zenon DEF Screen
    <3>5. Frame(f, g) /\ Chosen(g) /\ Free(f)
      BY <1>1, <1>3, <3>4, PlainChosen DEF Frame, Rests, Free
    <3> QED BY <1>1, <1>3, <3>1, <3>2, <3>4, <3>5, Quiet, CommandTypes
  <2> QED BY <1>3, <2>1, <2>2 DEF subscriptionsActivate
<1>4. CASE f.phase = "Form" /\ o \in subscriptionsComplete(f)
  <2>1. CASE f.action \in {"editSpoke", "editGroup"} /\ f.node = Nil
    <3>1. PICK n \in Nodes : o = Out([f EXCEPT !.node = n], NoCmd, FALSE)
      BY <1>4, <2>1 DEF subscriptionsComplete
    <3>2. PICK g : g = [f EXCEPT !.node = n]
      OBVIOUS
    <3>3. Frame(f, g) /\ g.phase = f.phase
      BY <3>2, NodeChange
    <3>4. Chosen(g) /\ Free(f)
      BY <1>1, <1>4, <3>3, PlainChosen DEF Frame, Free
    <3> QED BY <1>1, <1>4, <3>1, <3>2, <3>3, <3>4, Quiet, CommandTypes
  <2>2. CASE ~(f.action \in {"editSpoke", "editGroup"} /\ f.node = Nil)
    BY <1>0, <1>1, <1>4, <2>2, GotoHere DEF subscriptionsComplete, Free, P
  <2> QED BY <2>1, <2>2
<1>5. CASE f.phase = "Form" /\ o \in Stay([f EXCEPT !.node = Nil])
  <2>1. PICK g : g = [f EXCEPT !.node = Nil]
    OBVIOUS
  <2>2. Frame(f, g) /\ g.phase = f.phase
    BY <2>1, NodeChange
  <2> QED BY <1>1, <1>5, <2>1, <2>2, StaySound, PlainChosen DEF Frame, Free
<1>6. CASE f.phase = "Confirm" /\ o \in subscriptionsStart(f)
  BY <1>0, <1>1, <1>6, GotoHere, LaunchHere DEF Free, P, subscriptionsStart
<1>7. CASE /\ f.phase \in {"LoadErr", "Action", "Form", "Reorder", "Confirm"}
           /\ \/ o \in Goto(f, "Confirm") \/ o \in Goto(f, "Action")
              \/ o \in Goto(f, "Reorder") \/ o \in Goto(f, "Form")
              \/ o \in Close(f)
  BY <1>0, <1>1, <1>7, GotoHere, CloseHere DEF Free, P
<1>8. CASE o \in RunningKey(f, k)
  BY <1>0, <1>8, RunningSound DEF P
<1>9. CASE o \in handleDoneKey(f, k)
  BY <1>9, DoneSound
<1> QED BY <1>2, <1>3, <1>4, <1>5, <1>6, <1>7, <1>8, <1>9

(* Self-update: a refused check may only be closed, and a finished update  *)
(* that replaced the binary may only quit.                                 *)
LEMMA SelfUpdateSound ==
    ASSUME NEW f, NEW k, Rests(f), f.kind = "selfupdate", runs \in Seq(Run),
           NEW o \in selfUpdateKey(f, k)
    PROVE  Sound(f, o)
<1> DEFINE P == Phases[f.kind]
<1>0. /\ "Done" \in P /\ "Running" \in P /\ "Confirm" \in P /\ "Check" \in P
  BY PhaseFacts
<1> HIDE DEF P
<1>1. Plain(f) /\ f.phase \in Phases[f.kind] /\ f \in Screen
  BY DEF Plain, Rests, IsScreen
<1>2. \/ /\ f.phase \in {"Checking", "Check", "Confirm"}
         /\ \/ o \in Goto(f, "Confirm") \/ o \in Goto(f, "Check")
            \/ o \in Close(f)
      \/ f.phase = "Confirm" /\ o \in selfUpdateStart(f)
      \/ o \in RunningKey(f, k)
      \/ o \in selfUpdateDoneKey(f, k)
  BY DEF selfUpdateKey, When
<1>3. CASE /\ f.phase \in {"Checking", "Check", "Confirm"}
           /\ \/ o \in Goto(f, "Confirm") \/ o \in Goto(f, "Check")
              \/ o \in Close(f)
  BY <1>0, <1>1, <1>3, GotoHere, CloseHere DEF Free, P
<1>4. CASE f.phase = "Confirm" /\ o \in selfUpdateStart(f)
  <2>1. CASE f.able
    BY <1>0, <1>1, <1>4, <2>1, LaunchHere DEF Free, P, selfUpdateStart
  <2>2. CASE ~f.able
    <3>1. PICK g : g = [f EXCEPT !.phase = "Check", !.refused = "error"]
      OBVIOUS
    <3>2. PICK p \in PhaseNames : p = "Check"
      BY <1>0, <1>1, PhaseIsNamed DEF P, Screen
    <3>3. PICK r \in {"no", "current", "error"} : r = "error"
      OBVIOUS
    <3>4. g = [f EXCEPT !.phase = p, !.refused = r]
      BY <3>1, <3>2, <3>3
    <3>5. /\ g \in Screen /\ g.phase = p
          /\ g.kind = f.kind /\ g.redirected = f.redirected /\ g.tag = f.tag
          /\ g.ch = f.ch /\ g.complete = f.complete /\ g.failed = f.failed
          /\ g.ask = f.ask
      BY <1>1, <3>4, Zenon DEF Screen
    <3>6. Frame(f, g) /\ Chosen(g) /\ Free(f)
      BY <1>1, <1>4, <3>5, PlainChosen DEF Frame, Rests, Free
    <3> QED BY <1>0, <1>4, <2>2, <3>1, <3>2, <3>5, <3>6, StaySound DEF selfUpdateStart, P
  <2> QED BY <2>1, <2>2
<1>5. CASE o \in RunningKey(f, k)
  BY <1>0, <1>5, RunningSound DEF P
<1>6. CASE o \in selfUpdateDoneKey(f, k)
  <2>1. f.phase = "Done"
    BY <1>6 DEF selfUpdateDoneKey, When
  <2>2. /\ o.flow = f /\ o.cmd.type # "run"
        /\ f.tag => o.cmd = QuitCmd
    BY <1>6, CommandTypes DEF selfUpdateDoneKey, When, handleDoneKey, Close, Out
  <2>3. Stays(f, o)
    BY <2>1, <2>2 DEF Stays
  <2> QED BY <1>1, <2>1, <2>2, <2>3 DEF Sound, Rests
<1> QED BY <1>2, <1>3, <1>4, <1>5, <1>6

(* Certificate management goes on with the domain: back to the list, to    *)
(* the zone, or to the command.                                            *)
LEMMA ContinueSound ==
    ASSUME NEW f, NEW g, Rests(f), Free(f), f.kind = "certificates",
           Frame(f, g), ~g.ask, runs \in Seq(Run), NEW o \in continueAdd(g)
    PROVE  Sound(f, o)
<1>0. /\ "List" \in Phases[f.kind] /\ "ZoneForm" \in Phases[f.kind]
      /\ "Running" \in Phases[f.kind]
  BY PhaseFacts
<1>1. Plain(f) /\ f \in Screen
  BY DEF Plain, Rests, IsScreen
<1>2. CASE o \in Goto(g, "List")
  BY <1>0, <1>1, <1>2, GotoPlain
<1>3. CASE o \in Stay([g EXCEPT !.resumeIssue = TRUE, !.phase = "ZoneForm"])
  <2>1. PICK h : h = [g EXCEPT !.resumeIssue = TRUE, !.phase = "ZoneForm"]
    OBVIOUS
  <2>2. "ZoneForm" \in PhaseNames
    BY <1>0, <1>1, PhaseIsNamed DEF Screen
  <2>3. /\ h \in Screen /\ h.phase = "ZoneForm"
        /\ h.kind = g.kind /\ h.redirected = g.redirected /\ h.tag = g.tag
        /\ h.ch = g.ch /\ h.complete = g.complete /\ h.failed = g.failed
        /\ h.ask = g.ask
    BY <2>1, <2>2, Zenon DEF Screen, Frame
  <2>4. Frame(f, h)
    BY <2>3 DEF Frame
  <2> QED BY <1>0, <1>1, <1>3, <2>1, <2>3, <2>4, StaySound, PlainChosen DEF Frame
<1>4. CASE o \in startCertificateRun(g)
  BY <1>0, <1>1, <1>4, LaunchSound DEF startCertificateRun
<1> QED BY <1>2, <1>3, <1>4 DEF continueAdd

(* The keys of Certificate management.                                     *)
LEMMA CertificatesSound ==
    ASSUME NEW f, NEW k, Rests(f), f.kind = "certificates", runs \in Seq(Run),
           NEW o \in certificatesKey(f, k)
    PROVE  Sound(f, o)
<1> DEFINE P == Phases[f.kind]
<1>0. /\ "Done" \in P /\ "Running" \in P /\ "List" \in P /\ "ZonePick" \in P
      /\ "ZoneList" \in P /\ "HostForm" \in P /\ "ZoneForm" \in P
      /\ "RenewPick" \in P /\ "RenewConfirm" \in P /\ "CertPick" \in P
      /\ "CertDeleteConfirm" \in P /\ "ZoneDeletePick" \in P
      /\ "ZoneDeleteConfirm" \in P
  BY PhaseFacts
<1> HIDE DEF P
<1>1. Plain(f) /\ f.phase \in Phases[f.kind] /\ f \in Screen /\ ~f.ask
  BY DEF Plain, Rests, IsScreen
<1>2. f.phase # "Running" /\ Free(f)
  BY DEF certificatesKey, Free
<1>3. Frame(f, f)
  BY FrameSelf
<1>4. /\ "ZonePick" \in PhaseNames /\ "ZoneList" \in PhaseNames
      /\ "ZoneForm" \in PhaseNames
  BY <1>0, <1>1, PhaseIsNamed DEF P, Screen
<1>5. CASE f.phase = "Done"
  BY <1>0, <1>1, <1>2, <1>5, GotoHere, CloseHere DEF P, certificatesKey
<1>6. CASE f.phase = "HostForm" /\ k = "enter"
  BY <1>2, <1>3, <1>1, <1>6, ContinueSound DEF certificatesKey, updateForm, completeForm, When
<1>7. CASE f.phase = "ZoneForm" /\ k = "enter"
  <2>1. PICK h : h = [f EXCEPT !.pickHost = FALSE, !.resumeIssue = FALSE]
    OBVIOUS
  <2>2. /\ h \in Screen
        /\ h.kind = f.kind /\ h.redirected = f.redirected /\ h.tag = f.tag
        /\ h.ch = f.ch /\ h.complete = f.complete /\ h.failed = f.failed
        /\ h.ask = f.ask
    BY <1>1, <2>1, Zenon DEF Screen
  <2>4. Frame(f, h) /\ ~h.ask
    BY <1>1, <2>2 DEF Frame
  <2>3. \/ o \in Goto(f, "ZoneList")
        \/ o \in Goto(h, "HostForm") \/ o \in Goto(h, "ZoneList")
        \/ o \in continueAdd(h)
    BY <1>7, <2>1 DEF certificatesKey, updateForm, completeForm, completeZoneForm, When
  <2> QED BY <1>0, <1>1, <1>2, <1>3, <2>3, <2>4, GotoPlain, ContinueSound DEF P
<1>8. CASE f.phase \in {"HostForm", "ZoneForm"} /\ k # "enter"
  <2>1. o \in cancelForm(f)
    BY <1>8 DEF certificatesKey, updateForm, When
  <2>2. PICK h : o \in Stay(h) /\
          \/ h = [f EXCEPT !.pickHost = FALSE, !.phase = "ZonePick"]
          \/ h = [f EXCEPT !.resumeIssue = FALSE, !.phase = "ZoneList"]
          \/ h = [f EXCEPT !.phase = "ZonePick"]
    BY <2>1, <1>8 DEF cancelForm
  <2>3. /\ h \in Screen /\ h.phase \in {"ZonePick", "ZoneList"}
        /\ h.kind = f.kind /\ h.redirected = f.redirected /\ h.tag = f.tag
        /\ h.ch = f.ch /\ h.complete = f.complete /\ h.failed = f.failed
        /\ h.ask = f.ask
    <3>1. CASE h = [f EXCEPT !.pickHost = FALSE, !.phase = "ZonePick"]
      BY <1>1, <1>4, <3>1, Zenon DEF Screen
    <3>2. CASE h = [f EXCEPT !.resumeIssue = FALSE, !.phase = "ZoneList"]
      BY <1>1, <1>4, <3>2, Zenon DEF Screen
    <3>3. CASE h = [f EXCEPT !.phase = "ZonePick"]
      BY <1>1, <1>4, <3>3, PhaseChange
    <3> QED BY <2>2, <3>1, <3>2, <3>3
  <2>4. Frame(f, h) /\ h.phase \in Phases[f.kind] /\ h.phase # "Running"
    BY <1>0, <1>1, <2>3 DEF Frame, P
  <2> QED BY <1>1, <1>2, <2>2, <2>4, StaySound, PlainChosen DEF Frame
<1>9. CASE f.phase = "List"
  BY <1>0, <1>1, <1>2, <1>9, GotoHere, CloseHere DEF P, certificatesKey, updateList, When
<1>10. CASE f.phase = "ZonePick"
  <2>1. \/ o \in Goto(f, "HostForm") \/ o \in Goto(f, "List")
        \/ o \in Stay([f EXCEPT !.pickHost = TRUE, !.phase = "ZoneForm"])
    BY <1>10 DEF certificatesKey, updateZonePick, When
  <2>2. CASE o \in Stay([f EXCEPT !.pickHost = TRUE, !.phase = "ZoneForm"])
    <3>1. PICK h : h = [f EXCEPT !.pickHost = TRUE, !.phase = "ZoneForm"]
      OBVIOUS
    <3>2. /\ h \in Screen /\ h.phase = "ZoneForm"
          /\ h.kind = f.kind /\ h.redirected = f.redirected /\ h.tag = f.tag
          /\ h.ch = f.ch /\ h.complete = f.complete /\ h.failed = f.failed
          /\ h.ask = f.ask
      BY <1>1, <1>4, <3>1, Zenon DEF Screen
    <3>3. Frame(f, h) /\ h.phase \in Phases[f.kind] /\ h.phase # "Running"
      BY <1>0, <1>1, <3>2 DEF Frame, P
    <3> QED BY <1>1, <1>2, <2>2, <3>1, <3>3, StaySound, PlainChosen DEF Frame
  <2>3. CASE o \in Goto(f, "HostForm") \/ o \in Goto(f, "List")
    BY <1>0, <1>1, <1>2, <2>3, GotoHere DEF P
  <2> QED BY <2>1, <2>2, <2>3
<1>11. CASE f.phase = "ZoneList"
  BY <1>0, <1>1, <1>2, <1>11, GotoHere DEF P, certificatesKey, updateZoneList, When
<1>12. CASE f.phase \in {"RenewPick", "RenewConfirm"}
  BY <1>0, <1>1, <1>2, <1>12, GotoHere, LaunchHere
     DEF P, certificatesKey, updateRenew, startCertificateRun, When
<1>13. CASE f.phase \in {"CertPick", "CertDeleteConfirm"}
  BY <1>0, <1>1, <1>2, <1>13, GotoHere DEF P, certificatesKey, updateCertDelete, When
<1>14. CASE f.phase \in {"ZoneDeletePick", "ZoneDeleteConfirm"}
  BY <1>0, <1>1, <1>2, <1>14, GotoHere DEF P, certificatesKey, updateZoneDelete, When
<1>15. \/ f.phase \in {"Done", "HostForm", "ZoneForm", "List", "ZonePick", "ZoneList"}
       \/ f.phase \in {"RenewPick", "RenewConfirm", "CertPick", "CertDeleteConfirm",
                       "ZoneDeletePick", "ZoneDeleteConfirm"}
  BY DEF certificatesKey
<1> QED BY <1>5, <1>6, <1>7, <1>8, <1>9, <1>10, <1>11, <1>12, <1>13, <1>14, <1>15

(* The keys of Spoke nodes.                                                *)
LEMMA NodesSound ==
    ASSUME NEW f, NEW k, Rests(f), f.kind = "nodes", runs \in Seq(Run),
           NEW o \in nodesKey(f, k)
    PROVE  Sound(f, o)
<1> DEFINE P == Phases[f.kind]
<1>0. /\ "Done" \in P /\ "Running" \in P /\ "List" \in P /\ "Form" \in P
      /\ "HostKeyScan" \in P /\ "HostKeyConfirm" \in P /\ "DeletePick" \in P
      /\ "RemoveConfirm" \in P /\ "ForceConfirm" \in P
  BY PhaseFacts
<1> HIDE DEF P
<1>1. Plain(f) /\ f.phase \in Phases[f.kind] /\ f \in Screen /\ ~f.ask
  BY DEF Plain, Rests, IsScreen
<1>2. f.phase # "Running" /\ Free(f)
  BY DEF nodesKey, Free
<1>3. Frame(f, f)
  BY FrameSelf
<1>4. /\ "DeletePick" \in PhaseNames /\ "RemoveConfirm" \in PhaseNames
      /\ "ForceConfirm" \in PhaseNames
  BY <1>0, <1>1, PhaseIsNamed DEF P, Screen
<1>5. CASE f.phase = "Done"
  BY <1>0, <1>1, <1>2, <1>5, GotoHere DEF P, nodesKey
<1>6. CASE f.phase = "Form"
  <2>1. \/ o \in Goto(f, "List")
        \/ o = Out([f EXCEPT !.phase = "HostKeyScan"],
                   LoadCmd("scan", 0, Nil, Nil), FALSE)
        \/ o \in Stay([f EXCEPT !.ask = TRUE])
    BY <1>6 DEF nodesKey, nodesUpdateForm, nodesCompleteForm, validateForm, When
  <2>2. CASE o \in Goto(f, "List")
    BY <1>0, <1>1, <1>2, <2>2, GotoHere DEF P
  <2>3. CASE o = Out([f EXCEPT !.phase = "HostKeyScan"],
                     LoadCmd("scan", 0, Nil, Nil), FALSE)
    BY <1>0, <1>1, <1>2, <1>3, <2>3, LoadPlain, CommandTypes DEF P
  <2>4. CASE o \in Stay([f EXCEPT !.ask = TRUE])
    <3>1. PICK g : g = [f EXCEPT !.ask = TRUE]
      OBVIOUS
    <3>2. Frame(f, g) /\ g.phase = f.phase
      BY <3>1, AskChange
    <3> QED BY <1>1, <1>2, <2>4, <3>1, <3>2, StaySound, PlainChosen DEF Frame
  <2> QED BY <2>1, <2>2, <2>3, <2>4
<1>7. CASE f.phase = "HostKeyConfirm"
  BY <1>0, <1>1, <1>2, <1>7, GotoHere, LaunchHere
     DEF P, nodesKey, updateHostKeyConfirm, startAdd, When
<1>8. CASE f.phase = "List"
  <2>1. \/ o \in Goto(f, "Form") \/ o \in Close(f)
        \/ o \in {Out([f EXCEPT !.action = a, !.phase = "DeletePick"],
                      NoCmd, FALSE) : a \in {Nil, "force"}}
    BY <1>8 DEF nodesKey, nodesUpdateList, When
  <2>2. CASE o \in Goto(f, "Form") \/ o \in Close(f)
    BY <1>0, <1>1, <1>2, <2>2, GotoHere, CloseHere DEF P
  <2>3. CASE o \in {Out([f EXCEPT !.action = a, !.phase = "DeletePick"],
                        NoCmd, FALSE) : a \in {Nil, "force"}}
    <3>1. PICK a \in {Nil, "force"} :
            o = Out([f EXCEPT !.action = a, !.phase = "DeletePick"], NoCmd, FALSE)
      BY <2>3
    <3>2. PICK g : g = [f EXCEPT !.action = a, !.phase = "DeletePick"]
      OBVIOUS
    <3>3. a \in Actions \cup {Nil}
      BY DEF Actions
    <3>4. /\ g \in Screen /\ g.phase = "DeletePick"
          /\ g.kind = f.kind /\ g.redirected = f.redirected /\ g.tag = f.tag
          /\ g.ch = f.ch /\ g.complete = f.complete /\ g.failed = f.failed
          /\ g.ask = f.ask
      BY <1>1, <1>4, <3>2, <3>3, Zenon DEF Screen
    <3>5. Frame(f, g) /\ Chosen(g)
      BY <1>1, <3>4, PlainChosen DEF Frame
    <3> QED BY <1>0, <1>2, <3>1, <3>2, <3>4, <3>5, Quiet, CommandTypes DEF P
  <2> QED BY <2>1, <2>2, <2>3
<1>9. CASE f.phase = "DeletePick"
  <2>1. \/ o \in Goto([f EXCEPT !.action = Nil], "List")
        \/ o \in {Out([f EXCEPT !.node = n,
                                !.phase = IF f.action = "force"
                                          THEN "ForceConfirm"
                                          ELSE "RemoveConfirm"],
                      NoCmd, FALSE) : n \in Nodes}
    BY <1>9 DEF nodesKey, updatePick, When
  <2>2. CASE o \in Goto([f EXCEPT !.action = Nil], "List")
    <3>1. PICK g : g = [f EXCEPT !.action = Nil]
      OBVIOUS
    <3>2. Frame(f, g)
      BY <3>1, ActionChange
    <3> QED BY <1>0, <1>1, <1>2, <2>2, <3>1, <3>2, GotoPlain DEF P
  <2>3. CASE o \in {Out([f EXCEPT !.node = n,
                                !.phase = IF f.action = "force"
                                          THEN "ForceConfirm"
                                          ELSE "RemoveConfirm"],
                      NoCmd, FALSE) : n \in Nodes}
    <3>1. PICK p \in {"ForceConfirm", "RemoveConfirm"} :
            p = IF f.action = "force" THEN "ForceConfirm" ELSE "RemoveConfirm"
      OBVIOUS
    <3>2. PICK n \in Nodes : o = Out([f EXCEPT !.node = n, !.phase = p], NoCmd, FALSE)
      BY <2>3, <3>1
    <3>3. PICK g : g = [f EXCEPT !.node = n, !.phase = p]
      OBVIOUS
    <3>4. p \in PhaseNames
      BY <1>4, <3>1
    <3>5. /\ g \in Screen /\ g.phase = p
          /\ g.kind = f.kind /\ g.redirected = f.redirected /\ g.tag = f.tag
          /\ g.ch = f.ch /\ g.complete = f.complete /\ g.failed = f.failed
          /\ g.ask = f.ask
      BY <1>1, <3>3, <3>4, Zenon DEF Screen
    <3>6. Frame(f, g) /\ Chosen(g)
      BY <1>1, <3>5, PlainChosen DEF Frame
    <3> QED BY <1>0, <1>2, <3>2, <3>3, <3>5, <3>6, Quiet, CommandTypes DEF P
  <2> QED BY <2>1, <2>2, <2>3
<1>10. CASE f.phase \in {"RemoveConfirm", "ForceConfirm"}
  <2>1. PICK s : s = [f EXCEPT !.node = Nil]
    OBVIOUS
  <2>2. \/ o \in Launch(s) \/ o \in Goto([s EXCEPT !.action = Nil], "List")
    BY <1>10, <2>1 DEF nodesKey, updateRemoval, startRemove, startForceDetach, When
  <2>3. Frame(f, s) /\ s.ask = f.ask
    BY <2>1, NodeChange
  <2>4. PICK g : g = [s EXCEPT !.action = Nil]
    OBVIOUS
  <2>5. /\ g \in Screen
        /\ g.kind = s.kind /\ g.redirected = s.redirected /\ g.tag = s.tag
        /\ g.ch = s.ch /\ g.complete = s.complete /\ g.failed = s.failed
        /\ g.ask = s.ask
    BY <2>3, <2>4, Zenon DEF Screen, Frame
  <2>6. Frame(f, g)
    BY <2>3, <2>5 DEF Frame
  <2> QED BY <1>0, <1>1, <1>2, <2>2, <2>3, <2>4, <2>6, GotoPlain, LaunchSound DEF P
<1>11. f.phase \in {"Done", "Form", "HostKeyConfirm", "List", "DeletePick",
                    "RemoveConfirm", "ForceConfirm"}
  BY DEF nodesKey
<1> QED BY <1>5, <1>6, <1>7, <1>8, <1>9, <1>10, <1>11

(* Moving on to a phase for which the screen is well chosen.               *)
LEMMA GotoAt ==
    ASSUME NEW f, NEW p, Rests(f), Free(f), ChosenAt(f, p),
           p \in Phases[f.kind], p # "Running", NEW o \in Goto(f, p)
    PROVE  Sound(f, o)
<1>1. p \in PhaseNames /\ f \in Screen
  BY PhaseIsNamed DEF Rests, IsScreen, Screen
<1>2. PICK g : g = [f EXCEPT !.phase = p]
  OBVIOUS
<1>3. /\ g.phase = p /\ g.kind = f.kind /\ g.ch = f.ch /\ g.action = f.action
      /\ g.node = f.node /\ g.proto = f.proto /\ g.shown = f.shown
      /\ g.fields = f.fields
  BY <1>1, <1>2, PhaseChange
<1>4. Chosen(g)
  BY <1>3 DEF Chosen, ChosenAt
<1> QED BY <1>2, <1>4, FrameSelf, GotoSound

(* A command that starts from a screen well chosen for it.                 *)
LEMMA LaunchAt ==
    ASSUME NEW f, Rests(f), Free(f), ChosenAt(f, "Running"), runs \in Seq(Run),
           "Running" \in Phases[f.kind], NEW o \in Launch(f)
    PROVE  Sound(f, o)
<1>1. "Running" \in PhaseNames /\ f \in Screen
  BY PhaseIsNamed DEF Rests, IsScreen, Screen
<1>2. PICK g : g = [f EXCEPT !.phase = "Running"]
  OBVIOUS
<1>3. /\ g.phase = "Running" /\ g.kind = f.kind /\ g.ch = f.ch
      /\ g.action = f.action /\ g.node = f.node /\ g.proto = f.proto
      /\ g.shown = f.shown /\ g.fields = f.fields
  BY <1>1, <1>2, PhaseChange
<1>4. Chosen(g)
  BY <1>3 DEF Chosen, ChosenAt
<1> QED BY <1>2, <1>4, FrameSelf, LaunchSound DEF Rests

(* The keys of Setup.                                                      *)
LEMMA InstallSound ==
    ASSUME NEW f, NEW k, Rests(f), f.kind = "install", runs \in Seq(Run),
           NEW o \in installKey(f, k)
    PROVE  Sound(f, o)
<1> DEFINE P == Phases[f.kind]
<1>0. "Done" \in P /\ "Running" \in P /\ "Confirm" \in P /\ "Form" \in P
  BY PhaseFacts
<1> HIDE DEF P
<1>1. f.phase \in Phases[f.kind] /\ f \in Screen /\ ~f.ask
  BY DEF Rests, IsScreen
<1>2. \/ /\ f.phase \in {"Preflight", "Form", "Confirm"}
         /\ \/ o \in Goto(f, "Form") \/ o \in Close(f) \/ o \in Goto(f, "Confirm")
            \/ o \in Stay([f EXCEPT !.ask = TRUE]) \/ o \in Launch(f)
            \/ o \in buildConfigFails(f)
      \/ o \in RunningKey(f, k)
      \/ o \in handleDoneKey(f, k)
  BY DEF installKey, installComplete, installStart, When
<1>3. CASE /\ f.phase \in {"Preflight", "Form", "Confirm"}
           /\ \/ o \in Goto(f, "Form") \/ o \in Close(f) \/ o \in Goto(f, "Confirm")
              \/ o \in Stay([f EXCEPT !.ask = TRUE]) \/ o \in Launch(f)
              \/ o \in buildConfigFails(f)
  <2>1. Free(f) /\ f.ch = 0 /\ f.phase # "Running"
    BY <1>3 DEF Free, Rests, Chosen, ChosenAt
  <2>2. \A p : ChosenAt(f, p)
    BY <2>1 DEF ChosenAt
  <2>3. CASE o \in Goto(f, "Form") \/ o \in Close(f) \/ o \in Goto(f, "Confirm")
             \/ o \in Launch(f)
    BY <1>0, <2>1, <2>2, <2>3, GotoAt, CloseHere, LaunchAt DEF P
  <2>4. CASE o \in Stay([f EXCEPT !.ask = TRUE])
    <3>1. PICK g : g = [f EXCEPT !.ask = TRUE]
      OBVIOUS
    <3>2. Frame(f, g) /\ g.phase = f.phase
      BY <3>1, AskChange
    <3>3. Chosen(g)
      BY <2>1, <3>2 DEF Frame, Chosen, ChosenAt
    <3> QED BY <1>1, <2>1, <2>4, <3>1, <3>2, <3>3, StaySound
  <2>5. CASE o \in buildConfigFails(f)
    <3>1. PICK g : g = [f EXCEPT !.phase = "Done", !.failed = TRUE]
      OBVIOUS
    <3>2. "Done" \in PhaseNames
      BY <1>0, <1>1, PhaseIsNamed DEF P, Screen
    <3>3. /\ g \in Screen /\ g.phase = "Done"
          /\ g.kind = f.kind /\ g.redirected = f.redirected /\ g.tag = f.tag
          /\ g.ch = f.ch /\ g.complete = f.complete
          /\ g.ask = f.ask
      BY <1>1, <3>1, <3>2, Zenon DEF Screen
    <3>4. o.flow = g /\ o.cmd = NoCmd /\ o.done = FALSE
      BY <2>5, <3>1 DEF buildConfigFails, Stay, Out
    <3>5. Chosen(g) /\ Stays(f, o)
      BY <2>1, <3>3, <3>4, CommandTypes DEF Chosen, ChosenAt, Stays
    <3> QED BY <1>0, <1>1, <2>1, <3>3, <3>4, <3>5 DEF Sound, IsScreen, P
  <2> QED BY <1>3, <2>3, <2>4, <2>5
<1>4. CASE o \in RunningKey(f, k)
  BY <1>0, <1>4, RunningSound DEF P
<1>5. CASE o \in handleDoneKey(f, k)
  BY <1>5, DoneSound
<1> QED BY <1>2, <1>3, <1>4, <1>5

(* Cancelling a read moves its id on and changes nothing else.             *)
LEMMA CancelChange ==
    ASSUME NEW f \in Screen, NEW g, g = [f EXCEPT !.load = @ + 1]
    PROVE  /\ g \in Screen /\ g.phase = f.phase
           /\ g.kind = f.kind /\ g.redirected = f.redirected /\ g.tag = f.tag
           /\ g.ch = f.ch /\ g.complete = f.complete /\ g.failed = f.failed
           /\ g.ask = f.ask /\ g.action = f.action /\ g.node = f.node
           /\ g.proto = f.proto /\ g.shown = f.shown /\ g.fields = f.fields
<1>1. PICK l \in Nat : l = f.load + 1
  BY DEF Screen
<1>2. g = [f EXCEPT !.load = l]
  BY <1>1 DEF Screen
<1> QED BY <1>2, Zenon DEF Screen

(* An action is picked: no spoke is chosen yet and nothing is shown.       *)
Picked(f, a) ==
    [[cancelSpokeStateLoad(f) EXCEPT !.node = Nil, !.shown = Nil]
       EXCEPT !.action = a]

(* Picking an action forgets the spoke and keeps the frame.                *)
LEMMA PickChange ==
    ASSUME NEW f, Rests(f), NEW a \in Actions, NEW g, g = Picked(f, a)
    PROVE  /\ Frame(f, g) /\ g.phase = f.phase /\ g.action = a /\ g.node = Nil
           /\ g.ask = f.ask
<1>1. PICK c : c = cancelSpokeStateLoad(f)
  OBVIOUS
<1>2. f \in Screen
  BY DEF Rests, IsScreen
<1>3. /\ c \in Screen /\ c.phase = f.phase
      /\ c.kind = f.kind /\ c.redirected = f.redirected /\ c.tag = f.tag
      /\ c.ch = f.ch /\ c.complete = f.complete /\ c.failed = f.failed
      /\ c.ask = f.ask
  BY <1>1, <1>2, CancelChange DEF cancelSpokeStateLoad
<1>4. g = [[c EXCEPT !.node = Nil, !.shown = Nil] EXCEPT !.action = a]
  BY <1>1 DEF Picked
<1>5. /\ g \in Screen /\ g.phase = c.phase
      /\ g.kind = c.kind /\ g.redirected = c.redirected /\ g.tag = c.tag
      /\ g.ch = c.ch /\ g.complete = c.complete /\ g.failed = c.failed
      /\ g.ask = c.ask /\ g.action = a /\ g.node = Nil
  BY <1>3, <1>4, Zenon DEF Screen
<1> QED BY <1>3, <1>5 DEF Frame, Rests

(* A form opens on what is chosen, or the selector of a spoke.             *)
Opened(g) == [g EXCEPT !.phase = "Form", !.fields = TRUE]

(* Opening the form keeps what was picked.                                 *)
LEMMA FormChange ==
    ASSUME NEW f, NEW g, Frame(f, g), "Form" \in Phases[f.kind], NEW h,
           h = Opened(g)
    PROVE  /\ Frame(f, h) /\ h.phase = "Form" /\ h.action = g.action
           /\ h.fields = TRUE /\ h.ask = g.ask /\ h.node = g.node
           /\ h.proto = g.proto /\ h.shown = g.shown
<1>1. g \in Screen /\ f.kind = g.kind
  BY DEF Frame
<1>2. "Form" \in PhaseNames
  BY <1>1, PhaseIsNamed DEF Screen
<1>3. /\ h \in Screen /\ h.phase = "Form"
      /\ h.kind = g.kind /\ h.redirected = g.redirected /\ h.tag = g.tag
      /\ h.ch = g.ch /\ h.complete = g.complete /\ h.failed = g.failed
      /\ h.ask = g.ask /\ h.action = g.action /\ h.node = g.node
      /\ h.proto = g.proto /\ h.shown = g.shown /\ h.fields = TRUE
  BY <1>1, <1>2, Zenon DEF Screen, Opened
<1> QED BY <1>3 DEF Frame

(* Opening the form of a spoke forgets the spoke chosen before.            *)
LEMMA SelectorChange ==
    ASSUME NEW f, NEW g, Frame(f, g), "Form" \in Phases[f.kind], NEW h,
           h = startSpokeSelector(g)
    PROVE  /\ Frame(f, h) /\ h.phase = "Form" /\ h.action = g.action
           /\ h.fields = TRUE /\ h.ask = g.ask /\ h.node = Nil
<1>1. g \in Screen /\ f.kind = g.kind
  BY DEF Frame
<1>2. "Form" \in PhaseNames
  BY <1>1, PhaseIsNamed DEF Screen
<1>3. /\ h \in Screen /\ h.phase = "Form"
      /\ h.kind = g.kind /\ h.redirected = g.redirected /\ h.tag = g.tag
      /\ h.ch = g.ch /\ h.complete = g.complete /\ h.failed = g.failed
      /\ h.ask = g.ask /\ h.action = g.action /\ h.node = Nil
      /\ h.fields = TRUE
  BY <1>1, <1>2, Zenon DEF Screen, startSpokeSelector
<1> QED BY <1>3 DEF Frame

(* Protocol settings: an action is picked.                                 *)
LEMMA ProtocolsActivated ==
    ASSUME NEW f, Rests(f), f.kind = "protocols", f.phase = "Action",
           NEW o \in protocolsActivate(f)
    PROVE  Sound(f, o)
<1> DEFINE A == {"change", "edit", "sni", "changeSpoke", "editSpoke", "sniSpoke"}
<1>0. /\ "Select" \in Phases[f.kind] /\ "EditPick" \in Phases[f.kind]
      /\ "Form" \in Phases[f.kind] /\ "Action" \in Phases[f.kind]
  BY PhaseFacts
<1>1. \A a \in A : /\ Frame(f, Picked(f, a)) /\ Picked(f, a).phase = "Action"
                   /\ Picked(f, a).action = a /\ Picked(f, a).node = Nil
  BY PickChange DEF Actions
<1>2. \/ o \in Goto(Picked(f, "change"), "Select")
      \/ o \in Goto(Picked(f, "edit"), "EditPick")
      \/ o \in Stay(Opened(Picked(f, "sni")))
      \/ o \in Stay(Picked(f, "sni"))
      \/ \E a \in {"changeSpoke", "editSpoke", "sniSpoke"} :
            o = Out(startSpokeSelector(Picked(f, a)), NoCmd, FALSE)
      \/ \E a \in {"changeSpoke", "editSpoke", "sniSpoke"} :
            o = Out(Picked(f, a), NoCmd, FALSE)
  BY DEF protocolsActivate, Picked, Opened
<1>3. Free(f) /\ f.kind \in DOMAIN Phases
  BY DEF Free, Rests, IsScreen, Screen
<1>4. "Select" \in PhaseNames /\ "EditPick" \in PhaseNames
  BY <1>0, <1>3, PhaseIsNamed
<1>5. CASE o \in Goto(Picked(f, "change"), "Select") \/ o \in Goto(Picked(f, "edit"), "EditPick")
  <2>1. PICK a \in {"change", "edit"}, p \in {"Select", "EditPick"} : o \in Goto(Picked(f, a), p)
    BY <1>5
  <2>2. PICK g : g = [Picked(f, a) EXCEPT !.phase = p]
    OBVIOUS
  <2>3. Picked(f, a) \in Screen /\ Picked(f, a).kind = f.kind
    BY <1>1 DEF Frame
  <2>4. g.phase = p /\ g.kind = f.kind /\ g.action = a
    BY <1>1, <1>4, <2>2, <2>3, PhaseChange
  <2>5. Chosen(g)
    BY <2>4 DEF Chosen, ChosenAt
  <2> QED BY <1>0, <1>1, <1>3, <2>1, <2>2, <2>5, GotoSound
<1>6. CASE \/ o \in Stay(Opened(Picked(f, "sni")))
           \/ \E a \in {"changeSpoke", "editSpoke", "sniSpoke"} :
                 o = Out(startSpokeSelector(Picked(f, a)), NoCmd, FALSE)
  <2>0. PICK a \in A : \/ o = Out(Opened(Picked(f, a)), NoCmd, FALSE)
                       \/ o = Out(startSpokeSelector(Picked(f, a)), NoCmd, FALSE)
    BY <1>6 DEF Stay
  <2>1. PICK h : /\ o = Out(h, NoCmd, FALSE)
                 /\ \/ h = Opened(Picked(f, a))
                    \/ h = startSpokeSelector(Picked(f, a))
    BY <2>0
  <2>2. /\ Frame(f, h) /\ h.phase = "Form" /\ h.node = Nil /\ h.fields = TRUE
    <3>0. PICK g : g = Picked(f, a)
      OBVIOUS
    <3>1. Frame(f, g) /\ g.node = Nil
      BY <1>1, <2>0, <3>0
    <3>2. CASE h = Opened(g)
      BY <1>0, <3>1, <3>2, FormChange
    <3>3. CASE h = startSpokeSelector(g)
      BY <1>0, <3>1, <3>3, SelectorChange
    <3> QED BY <2>1, <3>0, <3>2, <3>3
  <2>3. Chosen(h)
    BY <2>2 DEF Chosen, ChosenAt, Frame
  <2> QED BY <1>0, <1>3, <2>1, <2>2, <2>3, Quiet, CommandTypes
<1>7. CASE \/ o \in Stay(Picked(f, "sni"))
           \/ \E a \in {"changeSpoke", "editSpoke", "sniSpoke"} :
                 o = Out(Picked(f, a), NoCmd, FALSE)
  <2>1. PICK a \in A : o = Out(Picked(f, a), NoCmd, FALSE)
    BY <1>7 DEF Stay
  <2>2. Chosen(Picked(f, a))
    BY <1>1 DEF Chosen, ChosenAt, Frame
  <2> QED BY <1>0, <1>1, <1>3, <2>1, <2>2, Quiet, CommandTypes
<1> QED BY <1>2, <1>5, <1>6, <1>7

(* Protocol settings: the protocols of a set are chosen.                   *)
LEMMA ProtocolsSelected ==
    ASSUME NEW f, Rests(f), f.kind = "protocols", f.phase = "Select",
           NEW o \in prepareChangeConfirm(f)
    PROVE  Sound(f, o)
<1>0. /\ "Form" \in Phases[f.kind] /\ "Confirm" \in Phases[f.kind]
      /\ f \in Screen /\ f.action # "editSpoke"
  BY PhaseFacts DEF Rests, IsScreen, Chosen, ChosenAt
<1>1. PICK b \in BOOLEAN :
        o = Out([f EXCEPT !.fields = b, !.phase = IF b THEN "Form" ELSE "Confirm"],
                NoCmd, FALSE)
  BY DEF prepareChangeConfirm, When
<1>2. PICK p \in {"Form", "Confirm"} : p = IF b THEN "Form" ELSE "Confirm"
  OBVIOUS
<1>3. PICK g : g = [f EXCEPT !.fields = b, !.phase = p]
  OBVIOUS
<1>4. p \in PhaseNames
  BY <1>0, PhaseIsNamed DEF Screen
<1>5. /\ g \in Screen /\ g.phase = p
      /\ g.kind = f.kind /\ g.redirected = f.redirected /\ g.tag = f.tag
      /\ g.ch = f.ch /\ g.complete = f.complete /\ g.failed = f.failed
      /\ g.ask = f.ask /\ g.action = f.action
  BY <1>0, <1>3, <1>4, Zenon DEF Screen
<1>6. Frame(f, g) /\ Chosen(g) /\ Free(f)
  BY <1>0, <1>5 DEF Frame, Rests, Chosen, ChosenAt, Free
<1>7. g.phase \in Phases[f.kind] /\ g.phase # "Running" /\ NoCmd.type # "run"
  BY <1>0, <1>5, CommandTypes
<1>8. o = Out(g, NoCmd, FALSE)
  BY <1>1, <1>2, <1>3
<1> QED BY <1>6, <1>7, <1>8, Quiet

(* Protocol settings: a protocol is chosen, and what a spoke holds of it   *)
(* is read first.                                                          *)
LEMMA ProtocolsEdited ==
    ASSUME NEW f, Rests(f), f.kind = "protocols", f.phase = "EditPick",
           NEW o \in startEditForm(f)
    PROVE  Sound(f, o)
<1>0. "Form" \in Phases[f.kind] /\ "Loading" \in Phases[f.kind] /\ f \in Screen
  BY PhaseFacts DEF Rests, IsScreen
<1>1. "Form" \in PhaseNames /\ "Loading" \in PhaseNames /\ Free(f)
  BY <1>0, PhaseIsNamed DEF Screen, Free
<1>2. CASE f.action = "editSpoke"
  <2> DEFINE nx(q) == [cancelSpokeStateLoad(f) EXCEPT
                        !.proto = q, !.shown = Nil, !.phase = "Loading"]
  <2>1. PICK q \in Protos :
          o = Out(nx(q), LoadCmd("state", nx(q).load, f.node, q), FALSE)
    BY <1>2 DEF startEditForm, When
  <2>2. PICK c : c = cancelSpokeStateLoad(f)
    OBVIOUS
  <2>3. PICK g : g = [c EXCEPT !.proto = q, !.shown = Nil, !.phase = "Loading"]
    OBVIOUS
  <2>4. /\ c \in Screen
        /\ c.kind = f.kind /\ c.redirected = f.redirected /\ c.tag = f.tag
        /\ c.ch = f.ch /\ c.complete = f.complete /\ c.failed = f.failed
        /\ c.ask = f.ask
    BY <1>0, <2>2, CancelChange DEF cancelSpokeStateLoad
  <2>5. /\ g \in Screen /\ g.phase = "Loading"
        /\ g.kind = c.kind /\ g.redirected = c.redirected /\ g.tag = c.tag
        /\ g.ch = c.ch /\ g.complete = c.complete /\ g.failed = c.failed
        /\ g.ask = c.ask
    BY <1>1, <2>3, <2>4, Zenon DEF Screen
  <2>6. Frame(f, g) /\ Chosen(g)
    BY <2>4, <2>5 DEF Frame, Rests, Chosen, ChosenAt
  <2>7. o = Out(g, LoadCmd("state", g.load, f.node, q), FALSE)
    BY <2>1, <2>2, <2>3
  <2> QED BY <1>0, <1>1, <2>5, <2>6, <2>7, Quiet, CommandTypes
<1>3. CASE f.action # "editSpoke"
  <2>1. PICK q \in Protos :
          o = Out([f EXCEPT !.proto = q, !.phase = "Form", !.fields = TRUE], NoCmd, FALSE)
    BY <1>3 DEF startEditForm, When
  <2>2. PICK g : g = [f EXCEPT !.proto = q, !.phase = "Form", !.fields = TRUE]
    OBVIOUS
  <2>3. /\ g \in Screen /\ g.phase = "Form"
        /\ g.kind = f.kind /\ g.redirected = f.redirected /\ g.tag = f.tag
        /\ g.ch = f.ch /\ g.complete = f.complete /\ g.failed = f.failed
        /\ g.ask = f.ask /\ g.action = f.action
    BY <1>0, <1>1, <2>2, Zenon DEF Screen
  <2>4. Frame(f, g) /\ Chosen(g)
    BY <1>3, <2>3 DEF Frame, Rests, Chosen, ChosenAt
  <2> QED BY <1>0, <1>1, <2>1, <2>2, <2>3, <2>4, Quiet, CommandTypes
<1> QED BY <1>2, <1>3

(* Protocol settings: a form is completed, or left by its first field.     *)
LEMMA ProtocolsCompleted ==
    ASSUME NEW f, Rests(f), f.kind = "protocols", f.phase = "Form",
           NEW o, o \in protocolsComplete(f) \/ o \in previousField(f)
    PROVE  Sound(f, o)
<1>0. /\ "Form" \in Phases[f.kind] /\ "Confirm" \in Phases[f.kind]
      /\ "Select" \in Phases[f.kind] /\ "EditPick" \in Phases[f.kind]
      /\ "Action" \in Phases[f.kind] /\ f \in Screen /\ Free(f)
  BY PhaseFacts DEF Rests, IsScreen, Free
<1>1. /\ "Form" \in PhaseNames /\ "Select" \in PhaseNames
      /\ "EditPick" \in PhaseNames
  BY <1>0, PhaseIsNamed DEF Screen
<1>2. CASE o \in protocolsComplete(f) /\ SpokeAction(f) /\ f.node = Nil
  <2>1. PICK p \in {"Select", "EditPick", "Form"} :
          p = CASE f.action = "changeSpoke" -> "Select"
                [] f.action = "editSpoke" -> "EditPick"
                [] OTHER -> "Form"
    OBVIOUS
  <2>2. PICK n \in Nodes : o = Out([f EXCEPT !.node = n, !.phase = p], NoCmd, FALSE)
    BY <1>2, <2>1 DEF protocolsComplete
  <2>3. PICK g : g = [f EXCEPT !.node = n, !.phase = p]
    OBVIOUS
  <2>4. p \in PhaseNames
    BY <1>1
  <2>5. /\ g \in Screen /\ g.phase = p
        /\ g.kind = f.kind /\ g.redirected = f.redirected /\ g.tag = f.tag
        /\ g.ch = f.ch /\ g.complete = f.complete /\ g.failed = f.failed
        /\ g.ask = f.ask /\ g.action = f.action
    BY <1>0, <2>3, <2>4, Zenon DEF Screen
  <2>6. Frame(f, g) /\ Chosen(g)
    BY <1>2, <2>1, <2>5 DEF Frame, Rests, Chosen, ChosenAt
  <2> QED BY <1>0, <2>2, <2>3, <2>5, <2>6, Quiet, CommandTypes
<1>3. CASE o \in protocolsComplete(f) /\ ~(SpokeAction(f) /\ f.node = Nil)
  <2>1. o \in Goto(f, "Confirm")
    BY <1>3 DEF protocolsComplete
  <2>2. ChosenAt(f, "Confirm")
    BY DEF Rests, Chosen, ChosenAt
  <2> QED BY <1>0, <2>1, <2>2, GotoAt
<1>4. CASE o \in previousField(f)
  <2>1. \/ o \in Goto(f, "Action")
        \/ o \in Goto(f, "Select") /\ f.action \in {"changeSpoke", "change"}
        \/ o \in Goto(f, "EditPick")
        \/ o \in Stay(startSpokeSelector(f)) /\ f.action = "sniSpoke"
    BY <1>4 DEF previousField, Goto
  <2>2. CASE o \in Stay(startSpokeSelector(f))
    <3>1. PICK h : h = startSpokeSelector(f)
      OBVIOUS
    <3>2. Frame(f, h) /\ h.phase = "Form" /\ h.node = Nil /\ h.fields = TRUE
      BY <1>0, <3>1, FrameSelf, SelectorChange
    <3>3. Chosen(h)
      BY <3>2 DEF Frame, Chosen, ChosenAt
    <3> QED BY <1>0, <2>2, <3>1, <3>2, <3>3, StaySound
  <2>3. CASE o \in Goto(f, "Action") \/ o \in Goto(f, "EditPick")
    <3>1. ChosenAt(f, "Action") /\ ChosenAt(f, "EditPick")
      BY DEF ChosenAt
    <3> QED BY <1>0, <2>3, <3>1, GotoAt
  <2>4. CASE o \in Goto(f, "Select") /\ f.action \in {"changeSpoke", "change"}
    <3>1. ChosenAt(f, "Select")
      BY <2>4 DEF ChosenAt
    <3> QED BY <1>0, <2>4, <3>1, GotoAt
  <2> QED BY <2>1, <2>2, <2>3, <2>4
<1> QED BY <1>2, <1>3, <1>4

(* The keys of Protocol settings.                                          *)
LEMMA ProtocolsSound ==
    ASSUME NEW f, NEW k, Rests(f), f.kind = "protocols", runs \in Seq(Run),
           NEW o \in protocolsKey(f, k)
    PROVE  Sound(f, o)
<1> DEFINE P == Phases[f.kind]
<1>0. /\ "Done" \in P /\ "Running" \in P /\ "Confirm" \in P /\ "Form" \in P
      /\ "Action" \in P /\ "Select" \in P /\ "EditPick" \in P /\ "Loading" \in P
  BY PhaseFacts
<1> HIDE DEF P
<1>1. f.phase \in Phases[f.kind] /\ f \in Screen /\ ~f.ask
  BY DEF Rests, IsScreen
<1>2. \/ f.phase = "Action" /\ o \in protocolsActivate(f)
      \/ f.phase = "Select" /\ o \in prepareChangeConfirm(f)
      \/ f.phase = "EditPick" /\ o \in startEditForm(f)
      \/ f.phase \in {"Select", "EditPick"} /\ o \in Stay(startSpokeSelector(f))
      \/ f.phase \in {"Select", "EditPick"} /\ o \in Goto(f, "Action")
      \/ /\ f.phase = "Loading"
         /\ o = Out([cancelSpokeStateLoad(f) EXCEPT !.phase = "EditPick"],
                    NoCmd, k = "esc")
      \/ f.phase = "Form" /\ (o \in protocolsComplete(f) \/ o \in previousField(f))
      \/ f.phase = "Confirm" /\ o \in Launch(f)
      \/ f.phase = "Confirm" /\ o \in backFromConfirm(f)
      \/ f.phase \in {"LoadErr", "Action", "Select", "EditPick", "Form", "Confirm"}
           /\ o \in Close(f)
      \/ o \in RunningKey(f, k)
      \/ o \in handleDoneKey(f, k)
  BY DEF protocolsKey, protocolsStart, When
<1>3. CASE \/ f.phase = "Action" /\ o \in protocolsActivate(f)
           \/ f.phase = "Select" /\ o \in prepareChangeConfirm(f)
           \/ f.phase = "EditPick" /\ o \in startEditForm(f)
           \/ f.phase = "Form" /\ (o \in protocolsComplete(f) \/ o \in previousField(f))
  BY <1>3, ProtocolsActivated, ProtocolsSelected, ProtocolsEdited, ProtocolsCompleted
<1>4. CASE f.phase \in {"Select", "EditPick"} /\ o \in Stay(startSpokeSelector(f))
  <2>1. PICK h : h = startSpokeSelector(f)
    OBVIOUS
  <2>2. Frame(f, h) /\ h.phase = "Form" /\ h.node = Nil /\ h.fields = TRUE
    BY <1>0, <2>1, FrameSelf, SelectorChange DEF P
  <2>3. Chosen(h) /\ Free(f)
    BY <1>4, <2>2 DEF Frame, Chosen, ChosenAt, Free
  <2> QED BY <1>0, <1>4, <2>1, <2>2, <2>3, StaySound DEF P
<1>5. CASE f.phase \in {"Select", "EditPick"} /\ o \in Goto(f, "Action")
  <2>1. ChosenAt(f, "Action") /\ Free(f)
    BY <1>5 DEF ChosenAt, Free
  <2> QED BY <1>0, <1>5, <2>1, GotoAt DEF P
<1>6. CASE /\ f.phase = "Loading"
           /\ o = Out([cancelSpokeStateLoad(f) EXCEPT !.phase = "EditPick"],
                      NoCmd, k = "esc")
  <2>1. PICK c : c = cancelSpokeStateLoad(f)
    OBVIOUS
  <2>2. PICK g : g = [c EXCEPT !.phase = "EditPick"]
    OBVIOUS
  <2>3. /\ c \in Screen
        /\ c.kind = f.kind /\ c.redirected = f.redirected /\ c.tag = f.tag
        /\ c.ch = f.ch /\ c.complete = f.complete /\ c.failed = f.failed
        /\ c.ask = f.ask
    BY <1>1, <2>1, CancelChange DEF cancelSpokeStateLoad
  <2>4. "EditPick" \in PhaseNames
    BY <1>0, <1>1, PhaseIsNamed DEF P, Screen
  <2>5. Frame(f, c)
    BY <1>1, <2>3 DEF Frame
  <2>6. Frame(f, g) /\ g.phase = "EditPick"
    BY <2>2, <2>4, <2>5, FramePhase
  <2>7. Chosen(g) /\ Free(f)
    BY <1>6, <2>6 DEF Frame, Chosen, ChosenAt, Free
  <2>8. PICK d : d = (k = "esc")
    OBVIOUS
  <2>9. o = Out(g, NoCmd, d)
    BY <1>6, <2>1, <2>2, <2>8
  <2> QED BY <1>0, <2>6, <2>7, <2>9, Quiet, CommandTypes DEF P
<1>7. CASE f.phase = "Confirm" /\ o \in Launch(f)
  <2>1. ChosenAt(f, "Running") /\ Free(f)
    BY <1>7 DEF Rests, Chosen, ChosenAt, Free
  <2> QED BY <1>0, <1>7, <2>1, LaunchAt DEF P
<1>8. CASE f.phase = "Confirm" /\ o \in backFromConfirm(f)
  <2>1. \/ o \in Goto(f, "Form") \/ o \in Goto(f, "EditPick") \/ o \in Goto(f, "Action")
        \/ o \in Goto(f, "Select") /\ ~f.fields
    BY <1>8 DEF backFromConfirm
  <2>2. /\ ChosenAt(f, "Form") /\ ChosenAt(f, "EditPick") /\ ChosenAt(f, "Action")
        /\ ~f.fields => ChosenAt(f, "Select")
    BY <1>8 DEF Rests, Chosen, ChosenAt
  <2> QED BY <1>0, <1>8, <2>1, <2>2, GotoAt DEF P, Free
<1>9. CASE f.phase \in {"LoadErr", "Action", "Select", "EditPick", "Form", "Confirm"}
             /\ o \in Close(f)
  BY <1>9, CloseHere DEF Free
<1>10. CASE o \in RunningKey(f, k)
  BY <1>0, <1>10, RunningSound DEF P
<1>11. CASE o \in handleDoneKey(f, k)
  BY <1>11, DoneSound
<1> QED BY <1>2, <1>3, <1>4, <1>5, <1>6, <1>7, <1>8, <1>9, <1>10, <1>11

(* Monitoring: the selector of a spoke's traffic.                          *)
LEMMA TrafficSelectorChange ==
    ASSUME NEW f, NEW g, Frame(f, g), "Form" \in Phases[f.kind],
           "Action" \in Phases[f.kind], NEW h, h = startSpokeTrafficSelector(g)
    PROVE  /\ Frame(f, h) /\ h.phase \in {"Action", "Form"}
           /\ h.action = g.action /\ h.ask = g.ask /\ h.node = Nil
<1>1. g \in Screen /\ f.kind = g.kind
  BY DEF Frame
<1>2. "Form" \in PhaseNames /\ "Action" \in PhaseNames
  BY <1>1, PhaseIsNamed DEF Screen
<1>3. PICK c : c = cancelSpokeUsageLoad(g)
  OBVIOUS
<1>4. /\ c \in Screen
      /\ c.kind = g.kind /\ c.redirected = g.redirected /\ c.tag = g.tag
      /\ c.ch = g.ch /\ c.complete = g.complete /\ c.failed = g.failed
      /\ c.ask = g.ask /\ c.action = g.action
  BY <1>1, <1>3, CancelChange DEF cancelSpokeUsageLoad
<1>5. PICK p \in {"Action", "Form"} : p = IF Nodes = {} THEN "Action" ELSE "Form"
  OBVIOUS
<1>6. p \in PhaseNames
  BY <1>2
<1>7. h = [c EXCEPT !.node = Nil, !.shown = Nil, !.phase = p, !.fields = TRUE]
  BY <1>3, <1>5 DEF startSpokeTrafficSelector
<1>8. /\ h \in Screen /\ h.phase = p
      /\ h.kind = c.kind /\ h.redirected = c.redirected /\ h.tag = c.tag
      /\ h.ch = c.ch /\ h.complete = c.complete /\ h.failed = c.failed
      /\ h.ask = c.ask /\ h.action = c.action /\ h.node = Nil
  BY <1>4, <1>6, <1>7, Zenon DEF Screen
<1> QED BY <1>4, <1>8 DEF Frame

(* Monitoring: the logs are read.                                          *)
LEMMA LogsSound ==
    ASSUME NEW f, NEW g, Rests(f), Free(f), f.kind = "monitor", Frame(f, g),
           NEW o \in loadServiceLogsCmd(g)
    PROVE  Sound(f, o)
<1>1. "LogsLoading" \in Phases[f.kind] /\ f \in Screen
  BY PhaseFacts DEF Rests, IsScreen
<1>2. "LogsLoading" \in PhaseNames
  BY <1>1, PhaseIsNamed DEF Screen
<1>3. PICK h : h = [g EXCEPT !.phase = "LogsLoading"]
  OBVIOUS
<1>4. Frame(f, h) /\ h.phase = "LogsLoading"
  BY <1>2, <1>3, FramePhase
<1>5. Chosen(h)
  BY <1>4 DEF Frame, Chosen, ChosenAt
<1>6. o = Out(h, LoadCmd("monitorLogs", 0, Nil, Nil), FALSE)
  BY <1>3 DEF loadServiceLogsCmd
<1> QED BY <1>1, <1>4, <1>5, <1>6, Quiet, CommandTypes

(* Monitoring: an action is picked.                                        *)
LEMMA MonitorActivated ==
    ASSUME NEW f, Rests(f), f.kind = "monitor", f.phase = "Action",
           NEW o \in monitorActivate(f)
    PROVE  Sound(f, o)
<1> DEFINE A == {"local", "usage", "editSpoke", "spokeUsage", "addPackage",
                 "reset", "logs", "service"}
<1>0. /\ "ServiceConfirm" \in Phases[f.kind] /\ "Form" \in Phases[f.kind]
      /\ "Action" \in Phases[f.kind] /\ Free(f) /\ f \in Screen
  BY PhaseFacts DEF Free, Rests, IsScreen
<1>1. \A a \in A : /\ Frame(f, Picked(f, a)) /\ Picked(f, a).phase = "Action"
                   /\ Picked(f, a).action = a /\ Picked(f, a).node = Nil
  BY PickChange DEF Actions, subscriptionActions
<1>2. \/ \E a \in A : o = Out(Opened(Picked(f, a)), NoCmd, FALSE)
      \/ \E a \in A : o = Out(Picked(f, a), NoCmd, FALSE)
      \/ o = Out(startSpokeTrafficSelector(Picked(f, "spokeUsage")), NoCmd, FALSE)
      \/ o \in loadServiceLogsCmd(Picked(f, "logs"))
      \/ o = Out([Picked(f, "service") EXCEPT !.phase = "ServiceConfirm"], NoCmd, FALSE)
  <2> DEFINE pick(a) == [[cancelSpokeUsageLoad(f) EXCEPT !.node = Nil, !.shown = Nil]
                           EXCEPT !.action = a]
             form(a) == [pick(a) EXCEPT !.phase = "Form", !.fields = TRUE]
  <2>1. \A a : pick(a) = Picked(f, a)
    BY DEF Picked, cancelSpokeUsageLoad, cancelSpokeStateLoad
  <2>2. \A a : form(a) = Opened(pick(a))
    BY DEF Opened
  <2>3. \/ o \in {Out(form(a), NoCmd, FALSE) : a \in {"local", "usage"}}
        \/ o \in Stay(form("editSpoke")) \/ o \in Stay(pick("editSpoke"))
        \/ o \in Stay(startSpokeTrafficSelector(pick("spokeUsage")))
        \/ o \in Stay(pick("spokeUsage"))
        \/ o \in {Out(IF f.able THEN form(a) ELSE pick(a), NoCmd, FALSE) :
                    a \in {"addPackage", "reset"}}
        \/ o \in loadServiceLogsCmd(pick("logs"))
        \/ o \in Stay([pick("service") EXCEPT !.phase = "ServiceConfirm"])
        \/ o \in Stay(pick("service"))
    BY DEF monitorActivate
  <2> HIDE DEF pick, form
  <2> QED BY <2>1, <2>2, <2>3 DEF Stay
<1>3. CASE \E a \in A : o = Out(Opened(Picked(f, a)), NoCmd, FALSE)
  <2>1. PICK a \in A : o = Out(Opened(Picked(f, a)), NoCmd, FALSE)
    BY <1>3
  <2>2. PICK g : g = Picked(f, a)
    OBVIOUS
  <2>3. PICK h : h = Opened(g)
    OBVIOUS
  <2>4. Frame(f, g) /\ g.node = Nil
    BY <1>1, <2>2
  <2>5. Frame(f, h) /\ h.node = Nil /\ h.phase = "Form"
    BY <1>0, <2>3, <2>4, FormChange
  <2>6. Chosen(h)
    BY <2>5 DEF Frame, Chosen, ChosenAt
  <2> QED BY <1>0, <2>1, <2>2, <2>3, <2>5, <2>6, Quiet, CommandTypes
<1>4. CASE \E a \in A : o = Out(Picked(f, a), NoCmd, FALSE)
  <2>1. PICK a \in A : o = Out(Picked(f, a), NoCmd, FALSE)
    BY <1>4
  <2>2. Chosen(Picked(f, a))
    BY <1>1 DEF Chosen, ChosenAt, Frame
  <2> QED BY <1>0, <1>1, <2>1, <2>2, Quiet, CommandTypes
<1>5. CASE o = Out(startSpokeTrafficSelector(Picked(f, "spokeUsage")), NoCmd, FALSE)
  <2>1. PICK g : g = Picked(f, "spokeUsage")
    OBVIOUS
  <2>2. PICK h : h = startSpokeTrafficSelector(g)
    OBVIOUS
  <2>3. Frame(f, g)
    BY <1>1, <2>1
  <2>4. Frame(f, h) /\ h.node = Nil /\ h.phase \in {"Action", "Form"}
    BY <1>0, <2>2, <2>3, TrafficSelectorChange
  <2>5. Chosen(h)
    BY <2>4 DEF Frame, Chosen, ChosenAt
  <2> QED BY <1>0, <1>5, <2>1, <2>2, <2>4, <2>5, Quiet, CommandTypes
<1>6. CASE o \in loadServiceLogsCmd(Picked(f, "logs"))
  BY <1>0, <1>1, <1>6, LogsSound
<1>7. CASE o = Out([Picked(f, "service") EXCEPT !.phase = "ServiceConfirm"], NoCmd, FALSE)
  <2>1. PICK g : g = Picked(f, "service")
    OBVIOUS
  <2>2. PICK h : h = [g EXCEPT !.phase = "ServiceConfirm"]
    OBVIOUS
  <2>3. "ServiceConfirm" \in PhaseNames
    BY <1>0, PhaseIsNamed DEF Screen
  <2>4. Frame(f, g) /\ g.action = "service"
    BY <1>1, <2>1
  <2>5. Frame(f, h) /\ h.phase = "ServiceConfirm"
    BY <2>2, <2>3, <2>4, FramePhase
  <2>6. h.action = "service"
    BY <2>2, <2>3, <2>4, PhaseChange DEF Frame
  <2>7. Chosen(h)
    BY <2>5, <2>6 DEF Frame, Chosen, ChosenAt
  <2> QED BY <1>0, <1>7, <2>1, <2>2, <2>5, <2>7, Quiet, CommandTypes
<1> QED BY <1>2, <1>3, <1>4, <1>5, <1>6, <1>7

(* Monitoring: a form is completed; the usage of a spoke is read before    *)
(* its form opens.                                                         *)
LEMMA MonitorCompleted ==
    ASSUME NEW f, Rests(f), f.kind = "monitor", f.phase = "Form",
           NEW o \in monitorComplete(f)
    PROVE  Sound(f, o)
<1>0. /\ "Loading" \in Phases[f.kind] /\ "Confirm" \in Phases[f.kind]
      /\ f.phase \in Phases[f.kind] /\ f \in Screen /\ Free(f)
  BY PhaseFacts DEF Rests, IsScreen, Free
<1>1. \/ f.action = "editSpoke" /\ \E n \in Nodes :
           o = Out([f EXCEPT !.node = n], NoCmd, FALSE)
      \/ f.node = Nil /\ \E n \in Nodes : o = startSpokeTrafficUsageLoad(f, n)
      \/ o \in Goto(f, "Confirm")
      \/ o \in Stay([f EXCEPT !.ask = TRUE])
  BY DEF monitorComplete, When
<1>2. CASE f.action = "editSpoke" /\ \E n \in Nodes :
             o = Out([f EXCEPT !.node = n], NoCmd, FALSE)
  <2>1. PICK n \in Nodes : o = Out([f EXCEPT !.node = n], NoCmd, FALSE)
    BY <1>2
  <2>2. PICK g : g = [f EXCEPT !.node = n]
    OBVIOUS
  <2>3. Frame(f, g) /\ g.phase = f.phase /\ g.action = f.action
    BY <2>2, NodeChange
  <2>4. Chosen(g)
    BY <1>2, <2>3 DEF Frame, Chosen, ChosenAt
  <2> QED BY <1>0, <2>1, <2>2, <2>3, <2>4, Quiet, CommandTypes
<1>3. CASE f.node = Nil /\ \E n \in Nodes : o = startSpokeTrafficUsageLoad(f, n)
  <2>1. PICK n \in Nodes : o = startSpokeTrafficUsageLoad(f, n)
    BY <1>3
  <2>2. PICK c : c = cancelSpokeUsageLoad(f)
    OBVIOUS
  <2>3. /\ c \in Screen
        /\ c.kind = f.kind /\ c.redirected = f.redirected /\ c.tag = f.tag
        /\ c.ch = f.ch /\ c.complete = f.complete /\ c.failed = f.failed
        /\ c.ask = f.ask
    BY <1>0, <2>2, CancelChange DEF cancelSpokeUsageLoad
  <2>4. PICK g : g = [c EXCEPT !.node = n, !.shown = Nil, !.phase = "Loading"]
    OBVIOUS
  <2>5. "Loading" \in PhaseNames
    BY <1>0, PhaseIsNamed DEF Screen
  <2>6. /\ g \in Screen /\ g.phase = "Loading"
        /\ g.kind = c.kind /\ g.redirected = c.redirected /\ g.tag = c.tag
        /\ g.ch = c.ch /\ g.complete = c.complete /\ g.failed = c.failed
        /\ g.ask = c.ask
    BY <2>3, <2>4, <2>5, Zenon DEF Screen
  <2>7. Frame(f, g) /\ Chosen(g)
    BY <2>3, <2>6 DEF Frame, Rests, Chosen, ChosenAt
  <2>8. o = Out(g, LoadCmd("usage", g.load, n, Nil), FALSE)
    BY <2>1, <2>2, <2>4 DEF startSpokeTrafficUsageLoad
  <2> QED BY <1>0, <2>6, <2>7, <2>8, Quiet, CommandTypes
<1>4. CASE o \in Goto(f, "Confirm")
  <2>1. ChosenAt(f, "Confirm")
    BY DEF Rests, Chosen, ChosenAt
  <2> QED BY <1>0, <1>4, <2>1, GotoAt
<1>5. CASE o \in Stay([f EXCEPT !.ask = TRUE])
  <2>1. PICK g : g = [f EXCEPT !.ask = TRUE]
    OBVIOUS
  <2>2. /\ Frame(f, g) /\ g.phase = f.phase /\ g.node = f.node
        /\ g.action = f.action /\ g.shown = f.shown /\ g.fields = f.fields
        /\ g.proto = f.proto
    BY <2>1, AskChange
  <2>3. Chosen(g)
    BY <2>2 DEF Frame, Rests, Chosen, ChosenAt
  <2> QED BY <1>0, <1>5, <2>1, <2>2, <2>3, StaySound
<1> QED BY <1>1, <1>2, <1>3, <1>4, <1>5

(* The keys of Monitoring.                                                 *)
LEMMA MonitorSound ==
    ASSUME NEW f, NEW k, Rests(f), f.kind = "monitor", runs \in Seq(Run),
           NEW o \in monitorKey(f, k)
    PROVE  Sound(f, o)
<1> DEFINE P == Phases[f.kind]
<1>0. /\ "Done" \in P /\ "Running" \in P /\ "Confirm" \in P /\ "Form" \in P
      /\ "Action" \in P
  BY PhaseFacts
<1> HIDE DEF P
<1>1. f.phase \in Phases[f.kind] /\ f \in Screen /\ ~f.ask
  BY DEF Rests, IsScreen
<1>2. \/ f.phase = "Action" /\ o \in monitorActivate(f)
      \/ f.phase = "Form" /\ o \in monitorComplete(f)
      \/ f.phase = "Form" /\ o \in Stay([f EXCEPT !.node = Nil])
      \/ f.phase \in {"Form", "Loading"} /\ o \in Stay(startSpokeTrafficSelector(f))
      \/ f.phase = "Loading" /\ o \in Close(cancelSpokeUsageLoad(f))
      \/ f.phase \in {"Confirm", "ServiceConfirm"} /\ o \in Launch(f)
      \/ f.phase = "Confirm" /\ o \in Goto(f, "Form")
      \/ f.phase \in {"Form", "Confirm", "ServiceConfirm", "LogsLoading", "Logs"}
           /\ o \in Goto(f, "Action")
      \/ f.phase = "Logs" /\ o \in loadServiceLogsCmd(f)
      \/ f.phase \in {"LoadErr", "Action", "Form", "Confirm", "ServiceConfirm"}
           /\ o \in Close(f)
      \/ o \in RunningKey(f, k)
      \/ o \in handleDoneKey(f, k)
  BY DEF monitorKey, monitorStart, startServiceRun, When, Goto
<1>3. CASE \/ f.phase = "Action" /\ o \in monitorActivate(f)
           \/ f.phase = "Form" /\ o \in monitorComplete(f)
  BY <1>3, MonitorActivated, MonitorCompleted
<1>4. CASE f.phase = "Form" /\ o \in Stay([f EXCEPT !.node = Nil])
  <2>1. PICK g : g = [f EXCEPT !.node = Nil]
    OBVIOUS
  <2>2. Frame(f, g) /\ g.phase = f.phase /\ g.node = Nil
    BY <2>1, NodeChange
  <2>3. Chosen(g) /\ Free(f)
    BY <1>4, <2>2 DEF Frame, Chosen, ChosenAt, Free
  <2> QED BY <1>1, <1>4, <2>1, <2>2, <2>3, StaySound
<1>5. CASE f.phase \in {"Form", "Loading"} /\ o \in Stay(startSpokeTrafficSelector(f))
  <2>1. PICK h : h = startSpokeTrafficSelector(f)
    OBVIOUS
  <2>2. Frame(f, h) /\ h.phase \in {"Action", "Form"} /\ h.node = Nil
    BY <1>0, <2>1, FrameSelf, TrafficSelectorChange DEF P
  <2>3. Chosen(h) /\ Free(f)
    BY <1>5, <2>2 DEF Frame, Chosen, ChosenAt, Free
  <2> QED BY <1>0, <1>5, <2>1, <2>2, <2>3, StaySound DEF P
<1>6. CASE f.phase = "Loading" /\ o \in Close(cancelSpokeUsageLoad(f))
  <2>1. PICK c : c = cancelSpokeUsageLoad(f)
    OBVIOUS
  <2>2. /\ c \in Screen /\ c.phase = f.phase
        /\ c.kind = f.kind /\ c.redirected = f.redirected /\ c.tag = f.tag
        /\ c.ch = f.ch /\ c.complete = f.complete /\ c.failed = f.failed
        /\ c.ask = f.ask
    BY <1>1, <2>1, CancelChange DEF cancelSpokeUsageLoad
  <2>3. Frame(f, c) /\ Chosen(c) /\ Free(f)
    BY <1>1, <1>6, <2>2 DEF Frame, Chosen, ChosenAt, Free
  <2> QED BY <1>1, <1>6, <2>1, <2>2, <2>3, CloseSound
<1>7. CASE f.phase \in {"Confirm", "ServiceConfirm"} /\ o \in Launch(f)
  <2>1. ChosenAt(f, "Running") /\ Free(f)
    BY <1>7 DEF Rests, Chosen, ChosenAt, Free
  <2> QED BY <1>0, <1>7, <2>1, LaunchAt DEF P
<1>8. CASE f.phase = "Confirm" /\ o \in Goto(f, "Form")
  <2>1. ChosenAt(f, "Form") /\ Free(f)
    BY <1>8 DEF Rests, Chosen, ChosenAt, Free
  <2> QED BY <1>0, <1>8, <2>1, GotoAt DEF P
<1>9. CASE f.phase \in {"Form", "Confirm", "ServiceConfirm", "LogsLoading", "Logs"}
             /\ o \in Goto(f, "Action")
  <2>1. ChosenAt(f, "Action") /\ Free(f)
    BY <1>9 DEF ChosenAt, Free
  <2> QED BY <1>0, <1>9, <2>1, GotoAt DEF P
<1>10. CASE f.phase = "Logs" /\ o \in loadServiceLogsCmd(f)
  BY <1>10, FrameSelf, LogsSound DEF Free
<1>11. CASE f.phase \in {"LoadErr", "Action", "Form", "Confirm", "ServiceConfirm"}
              /\ o \in Close(f)
  BY <1>11, CloseHere DEF Free
<1>12. CASE o \in RunningKey(f, k)
  BY <1>0, <1>12, RunningSound DEF P
<1>13. CASE o \in handleDoneKey(f, k)
  BY <1>13, DoneSound
<1> QED BY <1>2, <1>3, <1>4, <1>5, <1>6, <1>7, <1>8, <1>9, <1>10, <1>11, <1>12, <1>13

(* Every key on every screen.                                              *)
LEMMA KeySound ==
    ASSUME NEW f, NEW k, Rests(f), runs \in Seq(Run), NEW o \in handleKey(f, k)
    PROVE  Sound(f, o)
BY InstallSound, ProtocolsSound, RelaySound, SubscribeSound, MonitorSound,
   CoreSound, CertificatesSound, NodesSound, SelfUpdateSound, RegenerateSound,
   UninstallSound DEF handleKey

-----------------------------------------------------------------------------
(* What the answer of a background read may do to the open screen.         *)

(* The screen after an answer, which leaves a running or finished screen   *)
(* alone unless it comes late.                                             *)
Answered(f, g, what) ==
    /\ Rests(g)
    /\ g.kind = f.kind /\ g.redirected = f.redirected /\ g.tag = f.tag
    /\ g.ch = f.ch /\ g.complete = f.complete /\ g.failed = f.failed
    /\ f.phase \in {"Running", "Done"} /\ WaitsFor(f, what) => g = f
    /\ f.kind \in {"menu", "quit"} => g = f
    /\ g.phase = "Running" => g = f

(* An answer the screen ignores.                                           *)
LEMMA Ignored ==
    ASSUME NEW f, NEW what, Rests(f)
    PROVE  Answered(f, f, what)
BY DEF Answered

(* An answer that moves the screen to another phase, and what it shows.    *)
LEMMA Moved ==
    ASSUME NEW f, NEW g, NEW what, Rests(f), Frame(f, g), ~g.ask, Chosen(g),
           g.phase \in Phases[f.kind], g.phase # "Running",
           f.kind \notin {"menu", "quit"},
           f.phase \notin {"Running", "Done"} \/ ~WaitsFor(f, what)
    PROVE  Answered(f, g, what)
BY DEF Answered, Rests, IsScreen, Frame

(* An answer that moves a waiting screen to another phase.                 *)
LEMMA MovedPhase ==
    ASSUME NEW f, NEW p, NEW g, NEW what, Rests(f), p \in Phases[f.kind],
           p # "Running", f.kind \notin {"menu", "quit"}, ChosenAt(f, p),
           f.phase \notin {"Running", "Done"} \/ ~WaitsFor(f, what),
           g = [f EXCEPT !.phase = p]
    PROVE  Answered(f, g, what)
<1>1. p \in PhaseNames /\ f \in Screen /\ ~f.ask
  BY PhaseIsNamed DEF Rests, IsScreen, Screen
<1>2. /\ g \in Screen /\ g.phase = p
      /\ g.kind = f.kind /\ g.redirected = f.redirected /\ g.tag = f.tag
      /\ g.ch = f.ch /\ g.complete = f.complete /\ g.failed = f.failed
      /\ g.ask = f.ask /\ g.action = f.action /\ g.node = f.node
      /\ g.proto = f.proto /\ g.shown = f.shown /\ g.fields = f.fields
  BY <1>1, PhaseChange
<1>3. Chosen(g)
  BY <1>2 DEF Chosen, ChosenAt
<1>4. Frame(f, g)
  BY <1>1, <1>2 DEF Frame
<1> QED BY <1>1, <1>2, <1>3, <1>4, Moved

(* What a spoke holds, read for the edit that asked for it.                *)
LEMMA StateAnswered ==
    ASSUME NEW f, NEW msg, NEW what, Rests(f), f.kind = "protocols",
           NEW g \in handleSpokeProtocolState(f, msg)
    PROVE  Answered(f, g, what)
<1>0. /\ "EditPick" \in Phases[f.kind] /\ "Form" \in Phases[f.kind]
      /\ f \in Screen /\ ~f.ask
  BY PhaseFacts DEF Rests, IsScreen
<1>1. CASE \/ f.phase # "Loading" \/ msg.id # f.load
           \/ msg.node # f.node \/ msg.proto # f.proto
  BY <1>1, Ignored DEF handleSpokeProtocolState
<1>2. CASE ~(\/ f.phase # "Loading" \/ msg.id # f.load
             \/ msg.node # f.node \/ msg.proto # f.proto)
  <2>1. PICK c : c = cancelSpokeStateLoad(f)
    OBVIOUS
  <2>2. /\ c \in Screen /\ c.phase = f.phase
        /\ c.kind = f.kind /\ c.redirected = f.redirected /\ c.tag = f.tag
        /\ c.ch = f.ch /\ c.complete = f.complete /\ c.failed = f.failed
        /\ c.ask = f.ask /\ c.action = f.action /\ c.node = f.node
        /\ c.proto = f.proto
    BY <1>0, <2>1, CancelChange DEF cancelSpokeStateLoad
  <2>3. "EditPick" \in PhaseNames /\ "Form" \in PhaseNames
    BY <1>0, PhaseIsNamed DEF Screen
  <2>4. Frame(f, c)
    BY <1>0, <2>2 DEF Frame
  <2>5. \/ g = [c EXCEPT !.phase = "EditPick"]
        \/ g = [c EXCEPT !.shown = <<msg.node, msg.proto>>, !.phase = "Form",
                         !.fields = TRUE]
    BY <1>2, <2>1 DEF handleSpokeProtocolState, RejectSpokeState, When
  <2>6. CASE g = [c EXCEPT !.phase = "EditPick"]
    <3>1. Frame(f, g) /\ g.phase = "EditPick" /\ g.ask = c.ask
      BY <2>2, <2>3, <2>4, <2>6, FramePhase, PhaseChange
    <3>2. Chosen(g)
      BY <3>1 DEF Frame, Chosen, ChosenAt
    <3> QED BY <1>0, <1>2, <2>2, <3>1, <3>2, Moved
  <2>7. CASE g = [c EXCEPT !.shown = <<msg.node, msg.proto>>, !.phase = "Form",
                           !.fields = TRUE]
    <3>1. PICK s : s = <<msg.node, msg.proto>>
      OBVIOUS
    <3>2. s = <<f.node, f.proto>>
      BY <1>2, <3>1
    <3>3. s \in (Nodes \cup {Nil}) \X (Protos \cup {Nil})
      BY <1>0, <3>2 DEF Screen
    <3>4. g = [c EXCEPT !.shown = s, !.phase = "Form", !.fields = TRUE]
      BY <2>7, <3>1
    <3>5. /\ g \in Screen /\ g.phase = "Form" /\ g.shown = s /\ g.fields = TRUE
          /\ g.kind = c.kind /\ g.redirected = c.redirected /\ g.tag = c.tag
          /\ g.ch = c.ch /\ g.complete = c.complete /\ g.failed = c.failed
          /\ g.ask = c.ask /\ g.action = c.action /\ g.node = c.node
          /\ g.proto = c.proto
      BY <2>2, <2>3, <3>3, <3>4, Zenon DEF Screen
    <3>6. Frame(f, g) /\ Chosen(g)
      BY <1>0, <2>2, <3>2, <3>5 DEF Frame, Chosen, ChosenAt
    <3> QED BY <1>0, <1>2, <2>2, <3>5, <3>6, Moved
  <2> QED BY <2>5, <2>6, <2>7
<1> QED BY <1>1, <1>2

(* The traffic a spoke reports, read for the form that asked for it.       *)
LEMMA UsageAnswered ==
    ASSUME NEW f, NEW msg, NEW what, Rests(f), f.kind = "monitor",
           NEW g \in handleSpokeTrafficUsage(f, msg)
    PROVE  Answered(f, g, what)
<1>0. /\ "Action" \in Phases[f.kind] /\ "Form" \in Phases[f.kind]
      /\ f \in Screen /\ ~f.ask
  BY PhaseFacts DEF Rests, IsScreen
<1>1. CASE f.phase # "Loading" \/ msg.id # f.load \/ msg.node # f.node
  BY <1>1, Ignored DEF handleSpokeTrafficUsage
<1>2. CASE ~(f.phase # "Loading" \/ msg.id # f.load \/ msg.node # f.node)
  <2>1. PICK c : c = cancelSpokeUsageLoad(f)
    OBVIOUS
  <2>2. /\ c \in Screen /\ c.phase = f.phase
        /\ c.kind = f.kind /\ c.redirected = f.redirected /\ c.tag = f.tag
        /\ c.ch = f.ch /\ c.complete = f.complete /\ c.failed = f.failed
        /\ c.ask = f.ask /\ c.action = f.action /\ c.node = f.node
    BY <1>0, <2>1, CancelChange DEF cancelSpokeUsageLoad
  <2>3. "Form" \in PhaseNames
    BY <1>0, PhaseIsNamed DEF Screen
  <2>4. Frame(f, c)
    BY <1>0, <2>2 DEF Frame
  <2>5. \/ g = startSpokeTrafficSelector(c)
        \/ g = [c EXCEPT !.shown = <<msg.node, Nil>>, !.phase = "Form", !.fields = TRUE]
    BY <1>2, <2>1 DEF handleSpokeTrafficUsage
  <2>6. CASE g = startSpokeTrafficSelector(c)
    <3>1. Frame(f, g) /\ g.phase \in {"Action", "Form"} /\ g.ask = c.ask /\ g.node = Nil
      BY <1>0, <2>4, <2>6, TrafficSelectorChange
    <3>2. Chosen(g)
      BY <3>1 DEF Frame, Chosen, ChosenAt
    <3> QED BY <1>0, <1>2, <2>2, <3>1, <3>2, Moved
  <2>7. CASE g = [c EXCEPT !.shown = <<msg.node, Nil>>, !.phase = "Form", !.fields = TRUE]
    <3>1. PICK s : s = <<msg.node, Nil>>
      OBVIOUS
    <3>2. s = <<f.node, Nil>>
      BY <1>2, <3>1
    <3>3. s \in (Nodes \cup {Nil}) \X (Protos \cup {Nil})
      BY <1>0, <3>2 DEF Screen
    <3>4. g = [c EXCEPT !.shown = s, !.phase = "Form", !.fields = TRUE]
      BY <2>7, <3>1
    <3>5. /\ g \in Screen /\ g.phase = "Form" /\ g.shown = s
          /\ g.kind = c.kind /\ g.redirected = c.redirected /\ g.tag = c.tag
          /\ g.ch = c.ch /\ g.complete = c.complete /\ g.failed = c.failed
          /\ g.ask = c.ask /\ g.action = c.action /\ g.node = c.node
      BY <2>2, <2>3, <3>3, <3>4, Zenon DEF Screen
    <3>6. Frame(f, g) /\ Chosen(g)
      BY <1>0, <2>2, <3>2, <3>5 DEF Frame, Chosen, ChosenAt
    <3> QED BY <1>0, <1>2, <2>2, <3>5, <3>6, Moved
  <2> QED BY <2>5, <2>6, <2>7
<1> QED BY <1>1, <1>2

(* The check for a newer release.                                          *)
LEMMA CheckAnswered ==
    ASSUME NEW f, NEW msg, Rests(f), f.kind = "selfupdate", msg.what = "checked",
           NEW g \in applyCheckResult(f, msg)
    PROVE  Answered(f, g, msg.what)
<1>0. "Check" \in Phases[f.kind] /\ f \in Screen /\ ~f.ask
  BY PhaseFacts DEF Rests, IsScreen
<1>1. PICK r \in {"no", "current", "error"} : g = [f EXCEPT !.phase = "Check", !.refused = r]
  BY DEF applyCheckResult
<1>2. "Check" \in PhaseNames
  BY <1>0, PhaseIsNamed DEF Screen
<1>3. /\ g \in Screen /\ g.phase = "Check"
      /\ g.kind = f.kind /\ g.redirected = f.redirected /\ g.tag = f.tag
      /\ g.ch = f.ch /\ g.complete = f.complete /\ g.failed = f.failed
      /\ g.ask = f.ask
  BY <1>0, <1>1, <1>2, Zenon DEF Screen
<1>4. Frame(f, g) /\ Chosen(g)
  BY <1>0, <1>3 DEF Frame, Chosen, ChosenAt
<1>5. f.phase \notin {"Running", "Done"} \/ ~WaitsFor(f, msg.what)
  BY DEF WaitsFor
<1> QED BY <1>0, <1>3, <1>4, <1>5, Moved

(* Every answer on every screen.                                           *)
LEMMA AnswerSound ==
    ASSUME NEW f, NEW msg, Rests(f), NEW g \in handleLoad(f, msg)
    PROVE  Answered(f, g, msg.what)
<1>1. CASE f.kind = "protocols" /\ msg.what = "state"
  BY <1>1, StateAnswered DEF handleLoad
<1>2. CASE f.kind = "monitor" /\ msg.what = "usage"
  BY <1>2, UsageAnswered DEF handleLoad
<1>3. CASE f.kind = "monitor" /\ msg.what = "monitorLogs"
  <2>1. g = [f EXCEPT !.phase = "Logs"]
    BY <1>3 DEF handleLoad
  <2>2. /\ "Logs" \in Phases[f.kind] /\ ChosenAt(f, "Logs")
        /\ f.phase \notin {"Running", "Done"} \/ ~WaitsFor(f, msg.what)
    BY <1>3, PhaseFacts DEF ChosenAt, WaitsFor
  <2> QED BY <1>3, <2>1, <2>2, MovedPhase
<1>4. CASE f.kind = "core" /\ msg.what = "coreLogs"
  <2>1. g = [f EXCEPT !.phase = "Logs"]
    BY <1>4 DEF handleLoad
  <2>2. /\ "Logs" \in Phases[f.kind] /\ ChosenAt(f, "Logs")
        /\ f.phase \notin {"Running", "Done"} \/ ~WaitsFor(f, msg.what)
    BY <1>4, PhaseFacts DEF ChosenAt, WaitsFor
  <2> QED BY <1>4, <2>1, <2>2, MovedPhase
<1>5. CASE f.kind = "core" /\ msg.what = "tags"
  <2>1. PICK p \in {"Action", "StableSelect"} : g = [f EXCEPT !.phase = p]
    BY <1>5 DEF handleLoad, applyStableTags
  <2>2. /\ p \in Phases[f.kind] /\ ChosenAt(f, p)
        /\ f.phase \notin {"Running", "Done"} \/ ~WaitsFor(f, msg.what)
    BY <1>5, PhaseFacts DEF ChosenAt, WaitsFor
  <2> QED BY <1>5, <2>1, <2>2, MovedPhase
<1>6. CASE f.kind = "selfupdate" /\ msg.what = "checked"
  BY <1>6, CheckAnswered DEF handleLoad
<1>7. CASE f.kind = "nodes" /\ msg.what = "scan"
  <2>1. CASE f.phase # "HostKeyScan"
    BY <1>7, <2>1, Ignored DEF handleLoad, handleHostKeyScan
  <2>2. CASE f.phase = "HostKeyScan"
    <3>1. PICK p \in {"List", "HostKeyConfirm"} : g = [f EXCEPT !.phase = p]
      BY <1>7, <2>2 DEF handleLoad, handleHostKeyScan
    <3>2. p \in Phases[f.kind] /\ ChosenAt(f, p)
      BY <1>7, PhaseFacts DEF ChosenAt
    <3> QED BY <1>7, <2>2, <3>1, <3>2, MovedPhase
  <2> QED BY <2>1, <2>2
<1>8. CASE /\ ~(f.kind = "protocols" /\ msg.what = "state")
           /\ ~(f.kind = "monitor" /\ msg.what = "usage")
           /\ ~(f.kind = "monitor" /\ msg.what = "monitorLogs")
           /\ ~(f.kind = "core" /\ msg.what = "coreLogs")
           /\ ~(f.kind = "core" /\ msg.what = "tags")
           /\ ~(f.kind = "selfupdate" /\ msg.what = "checked")
           /\ ~(f.kind = "nodes" /\ msg.what = "scan")
  BY <1>8, Ignored DEF handleLoad
<1> QED BY <1>1, <1>2, <1>3, <1>4, <1>5, <1>6, <1>7, <1>8

-----------------------------------------------------------------------------
(* What a line of a run may do to the open screen.                         *)
Reported(f, g, w, msg) ==
    /\ Rests(g)
    /\ g.kind = f.kind /\ g.redirected = f.redirected /\ g.ch = f.ch
    /\ g.load = f.load
    /\ w \in {0, f.ch}
    /\ f.kind \in {"menu", "quit"} => g = f
    /\ f.phase = "Running" /\ msg.done =>
         /\ g.phase \in {"Running", "Done"} /\ w = 0
         /\ g.complete = (f.complete \/ msg.ok) /\ g.failed = ~msg.ok
    /\ f.phase = "Running" /\ ~msg.done =>
         /\ g.phase = "Running" /\ w = f.ch
         /\ g.complete = f.complete /\ g.failed = f.failed
    /\ f.phase = "Running" /\ f.kind = "selfupdate" => g.tag = (f.tag \/ msg.tag)

(* handleCommandRun keeps the screen but for its run state and, after a    *)
(* failure, its phase.                                                     *)
LEMMA CommandRunEffect ==
    ASSUME NEW f, NEW msg \in Message, Rests(f), "Done" \in Phases[f.kind],
           NEW e, e = handleCommandRun(f, msg).flow
    PROVE  /\ e \in Screen /\ e.kind = f.kind /\ e.redirected = f.redirected
           /\ e.tag = f.tag /\ e.ch = f.ch /\ e.load = f.load /\ ~e.ask
           /\ e.phase = IF msg.done /\ ~msg.ok THEN "Done" ELSE f.phase
           /\ Chosen(e)
           /\ msg.done => e.complete = (f.complete \/ msg.ok) /\ e.failed = ~msg.ok
           /\ ~msg.done => e = f
           /\ handleCommandRun(f, msg).wait = IF msg.done THEN 0 ELSE f.ch
           /\ handleCommandRun(f, msg) =
                [flow |-> e, wait |-> IF msg.done THEN 0 ELSE f.ch]
<1>0. f \in Screen /\ ~f.ask /\ f.phase \in PhaseNames /\ "Done" \in PhaseNames
  BY PhaseIsNamed DEF Rests, IsScreen, Screen
<1>1. handleCommandRun(f, msg) = [flow |-> e, wait |-> IF msg.done THEN 0 ELSE f.ch]
  BY DEF handleCommandRun
<1>2. CASE ~msg.done
  BY <1>0, <1>1, <1>2 DEF handleCommandRun, Rests
<1>3. CASE msg.done
  <2>1. PICK a \in BOOLEAN : a = ~msg.ok
    BY DEF Message
  <2>2. PICK b \in BOOLEAN : b = (f.complete \/ msg.ok)
    OBVIOUS
  <2>3. PICK p \in PhaseNames : p = IF msg.ok THEN f.phase ELSE "Done"
    BY <1>0
  <2>4. e = [f EXCEPT !.failed = a, !.complete = b, !.phase = p]
    <3>1. e = [f EXCEPT !.failed = ~msg.ok, !.complete = @ \/ msg.ok,
                        !.phase = IF msg.ok THEN @ ELSE "Done"]
      BY <1>3 DEF handleCommandRun
    <3> QED BY <1>0, <2>1, <2>2, <2>3, <3>1 DEF Screen
  <2>5. e \in Screen
    BY <1>0, <2>4, Zenon DEF Screen
  <2>6. /\ e.phase = p /\ e.complete = b /\ e.failed = a
        /\ e.kind = f.kind /\ e.redirected = f.redirected /\ e.tag = f.tag
        /\ e.ch = f.ch /\ e.load = f.load /\ e.ask = f.ask
        /\ e.action = f.action /\ e.node = f.node /\ e.proto = f.proto
        /\ e.shown = f.shown /\ e.fields = f.fields
    BY <1>0, <2>4, Zenon DEF Screen
  <2>7. Chosen(e)
    BY <2>3, <2>6 DEF Rests, Chosen, ChosenAt
  <2> QED BY <1>0, <1>1, <1>3, <2>1, <2>2, <2>3, <2>5, <2>6, <2>7
<1> QED BY <1>2, <1>3

(* A line of a run on every screen.                                        *)
LEMMA LineSound ==
    ASSUME NEW f, NEW msg \in Message, Rests(f)
    PROVE  Reported(f, handleRun(f, msg).flow, handleRun(f, msg).wait, msg)
<1>0. f \in Screen /\ f.phase \in Phases[f.kind] /\ ~f.ask /\ f.kind \in DOMAIN Phases
  BY DEF Rests, IsScreen, Screen
<1>1. CASE f.kind \in {"menu", "quit"}
  <2>1. handleRun(f, msg) = [flow |-> f, wait |-> 0]
    BY <1>1 DEF handleRun
  <2>2. f.phase # "Running"
    BY <1>0, <1>1, PhaseFacts
  <2> QED BY <2>1, <2>2 DEF Reported
<1>2. CASE f.kind \notin {"menu", "quit"}
  <2> DEFINE e == handleCommandRun(f, msg).flow
             w == IF msg.done THEN 0 ELSE f.ch
  <2>1. "Done" \in Phases[f.kind]
    BY <1>0, <1>2, PhaseFacts
  <2>2. /\ e \in Screen /\ e.kind = f.kind /\ e.redirected = f.redirected
        /\ e.tag = f.tag /\ e.ch = f.ch /\ e.load = f.load /\ ~e.ask
        /\ e.phase = IF msg.done /\ ~msg.ok THEN "Done" ELSE f.phase
        /\ Chosen(e)
        /\ msg.done => e.complete = (f.complete \/ msg.ok) /\ e.failed = ~msg.ok
        /\ ~msg.done => e = f
        /\ handleCommandRun(f, msg) = [flow |-> e, wait |-> w]
    BY <2>1, CommandRunEffect
  <2> HIDE DEF e
  <2>3. CASE f.kind \in {"nodes", "certificates"}
    <3>1. CASE f.phase # "Running"
      <4>1. handleRun(f, msg) = [flow |-> f, wait |-> 0]
        BY <2>3, <3>1 DEF handleRun
      <4> QED BY <1>2, <3>1, <4>1 DEF Reported
    <3>2. CASE f.phase = "Running"
      <4>1. PICK p \in {"Running", "Done"} : p = IF msg.done THEN "Done" ELSE e.phase
        BY <2>2, <3>2
      <4>2. PICK g : g = [e EXCEPT !.phase = p]
        OBVIOUS
      <4>3. handleRun(f, msg) = [flow |-> g, wait |-> w]
        <5>1. handleRun(f, msg) =
                [handleCommandRun(f, msg) EXCEPT !.flow.phase = IF msg.done THEN "Done" ELSE @]
          BY <2>3, <3>2 DEF handleRun
        <5> QED BY <2>2, <4>1, <4>2, <5>1
      <4>4. p \in PhaseNames /\ p \in Phases[f.kind]
        BY <1>0, <2>1, <3>2, PhaseIsNamed
      <4>5. /\ g \in Screen /\ g.phase = p
            /\ g.kind = e.kind /\ g.redirected = e.redirected /\ g.tag = e.tag
            /\ g.ch = e.ch /\ g.complete = e.complete /\ g.failed = e.failed
            /\ g.ask = e.ask /\ g.load = e.load
        BY <2>2, <4>2, <4>4, PhaseChange
      <4>6. Rests(g)
        BY <1>0, <2>2, <2>3, <4>4, <4>5 DEF Rests, IsScreen, Chosen, ChosenAt
      <4> QED BY <1>2, <2>2, <2>3, <3>2, <4>1, <4>3, <4>5, <4>6 DEF Reported
    <3> QED BY <3>1, <3>2
  <2>4. CASE f.kind = "selfupdate"
    <3>1. PICK b \in BOOLEAN : b = (e.tag \/ msg.tag)
      OBVIOUS
    <3>2. PICK g : g = [e EXCEPT !.tag = b]
      OBVIOUS
    <3>3. handleRun(f, msg) = [flow |-> g, wait |-> w]
      <4>1. handleRun(f, msg) =
              [handleCommandRun(f, msg) EXCEPT !.flow.tag = @ \/ msg.tag]
        BY <2>4 DEF handleRun
      <4> QED BY <2>2, <3>1, <3>2, <4>1
    <3>4. /\ g \in Screen /\ g.phase = e.phase /\ g.tag = b
          /\ g.kind = e.kind /\ g.redirected = e.redirected
          /\ g.ch = e.ch /\ g.complete = e.complete /\ g.failed = e.failed
          /\ g.ask = e.ask /\ g.load = e.load
      BY <2>2, <3>2, Zenon DEF Screen
    <3>5. Rests(g)
      BY <1>0, <2>1, <2>2, <2>4, <3>4 DEF Rests, IsScreen, Chosen, ChosenAt
    <3> QED BY <1>2, <2>2, <2>4, <3>1, <3>3, <3>4, <3>5 DEF Reported
  <2>5. CASE f.kind \notin {"nodes", "certificates", "selfupdate"}
    <3>1. handleRun(f, msg) = [flow |-> e, wait |-> w]
      BY <1>2, <2>2, <2>5 DEF handleRun
    <3>2. Rests(e)
      BY <1>0, <2>1, <2>2 DEF Rests, IsScreen
    <3> QED BY <1>2, <2>2, <2>5, <3>1, <3>2 DEF Reported
  <2> QED BY <2>3, <2>4, <2>5
<1> QED BY <1>1, <1>2

-----------------------------------------------------------------------------
(* The steps of the program.                                               *)

(* A fresh screen is at rest and has no command.                           *)
LEMMA FreshRests ==
    ASSUME NEW kd \in DOMAIN Phases, NEW p \in Phases[kd], NEW able \in BOOLEAN,
           kd \in {"protocols", "monitor"} => p \in {"Action", "LoadErr"},
           NEW f, f = Fresh(kd, p, able)
    PROVE  /\ Rests(f) /\ f.kind = kd /\ f.phase = p /\ f.ch = 0 /\ f.load = 0
           /\ f.node = Nil /\ ~f.complete /\ ~f.failed /\ f.redirected = FALSE
<1>1. p \in PhaseNames
  BY PhaseIsNamed
<1>2. /\ f.kind = kd /\ f.phase = p /\ f.ch = 0 /\ f.load = 0 /\ f.node = Nil
      /\ f.complete = FALSE /\ f.failed = FALSE /\ f.ask = FALSE
      /\ f.action = Nil /\ f.redirected = FALSE /\ f.fields = FALSE
  BY DEF Fresh
<1>3. f \in Screen
  BY <1>1 DEF Fresh, Screen
<1>4. Chosen(f)
  BY <1>2 DEF Chosen, ChosenAt
<1> QED BY <1>2, <1>3, <1>4 DEF Rests, IsScreen

(* The main menu.                                                          *)
LEMMA MenuRests ==
    /\ Rests(MainMenu) /\ MainMenu.kind = "menu" /\ MainMenu.phase = "Menu"
    /\ MainMenu.ch = 0 /\ MainMenu.load = 0 /\ ~MainMenu.complete /\ ~MainMenu.failed
<1>1. "menu" \in DOMAIN Phases /\ "Menu" \in Phases["menu"]
  BY PhaseFacts
<1>2. MainMenu = Fresh("menu", "Menu", FALSE)
  BY DEF MainMenu
<1> QED BY <1>1, <1>2, FreshRests

(* The screen of a program that ended.                                     *)
LEMMA QuitRests ==
    /\ Rests(QuitState) /\ QuitState.kind = "quit" /\ QuitState.phase = "Quit"
    /\ QuitState.ch = 0 /\ QuitState.load = 0
<1>1. "quit" \in DOMAIN Phases /\ "Quit" \in Phases["quit"]
  BY PhaseFacts
<1>2. QuitState = Fresh("quit", "Quit", FALSE)
  BY DEF QuitState
<1> QED BY <1>1, <1>2, FreshRests

(* Certificate management opened on behalf of another screen.              *)
LEMMA CertManagerRests ==
    ASSUME NEW f \in newCertManagerForDomain
    PROVE  /\ Rests(f) /\ f.kind = "certificates" /\ f.redirected
           /\ f.phase # "Running" /\ f.ch = 0 /\ f.load = 0
<1>1. PICK e : e = Fresh("certificates", "List", FALSE)
  OBVIOUS
<1>2. /\ "certificates" \in DOMAIN Phases /\ "List" \in Phases["certificates"]
      /\ "HostForm" \in Phases["certificates"] /\ "ZoneForm" \in Phases["certificates"]
  BY PhaseFacts
<1>3. /\ Rests(e) /\ e.kind = "certificates" /\ e.ch = 0 /\ e.load = 0
  BY <1>1, <1>2, FreshRests
<1>4. e \in Screen /\ e.ask = FALSE
  BY <1>1, <1>3 DEF Rests, IsScreen, Fresh
<1>5. "HostForm" \in PhaseNames /\ "ZoneForm" \in PhaseNames
  BY <1>2, PhaseIsNamed
<1>6. /\ f \in Screen /\ f.kind = e.kind /\ f.redirected = TRUE /\ f.ch = e.ch
      /\ f.load = e.load /\ f.ask = e.ask /\ f.phase \in {"HostForm", "ZoneForm"}
  <2>1. PICK c : c = [e EXCEPT !.redirected = TRUE]
    OBVIOUS
  <2>2. /\ c \in Screen /\ c.kind = e.kind /\ c.redirected = TRUE /\ c.ch = e.ch
        /\ c.load = e.load /\ c.ask = e.ask
    BY <1>4, <2>1, Zenon DEF Screen
  <2>3. \/ f = [c EXCEPT !.phase = "HostForm"]
        \/ f = [c EXCEPT !.phase = "ZoneForm", !.resumeIssue = TRUE]
    BY <1>1, <2>1 DEF newCertManagerForDomain
  <2>4. CASE f = [c EXCEPT !.phase = "HostForm"]
    BY <1>5, <2>2, <2>4, PhaseChange
  <2>5. CASE f = [c EXCEPT !.phase = "ZoneForm", !.resumeIssue = TRUE]
    <3>1. /\ f \in Screen /\ f.kind = c.kind /\ f.redirected = c.redirected
          /\ f.ch = c.ch /\ f.load = c.load /\ f.ask = c.ask /\ f.phase = "ZoneForm"
      BY <1>5, <2>2, <2>5, Zenon DEF Screen
    <3> QED BY <2>2, <3>1
  <2> QED BY <2>3, <2>4, <2>5
<1> QED BY <1>2, <1>3, <1>4, <1>6 DEF Rests, IsScreen, Chosen, ChosenAt

(* What a returned command does to the runs.                               *)
LEMMA IssueEffect ==
    ASSUME NEW cmd, NEW kd, Issue(cmd, kd)
    PROVE  /\ cmd.type = "run" => runs' = Append(runs, NewRun(kd))
           /\ cmd.type # "run" => runs' = runs
BY DEF Issue

(* Nobody is left at work.                                                 *)
NoLive == \A r \in DOMAIN runs : ~Live(r)

(* A key that has an outcome finds no command at work.                     *)
LEMMA KeyMeansIdle ==
    ASSUME NEW k, NEW o \in handleKey(flow, k), ShapeInv, LiveInv
    PROVE  NoLive
<1>1. Sound(flow, o)
  BY KeySound DEF ShapeInv, Settled
<1> QED BY <1>1 DEF Sound, LiveInv, NoLive

(* The menu has no keys of a screen.                                       *)
LEMMA KeyKinds ==
    ASSUME NEW f, NEW k, NEW o \in handleKey(f, k)
    PROVE  f.kind \notin {"menu", "quit"}
BY DEF handleKey

(* The start of the program.                                               *)
LEMMA InitSafe ==
    ASSUME ConsoleInit
    PROVE  ConsoleInv
<1>1. Len(runs) = 0 /\ MaxLoadID \in Nat /\ runs \in Seq(Run) /\ DOMAIN runs = {}
  BY ConsoleAssumption DEF ConsoleInit
<1>2. ShapeInv
  <2>1. Settled(flow) /\ flow = MainMenu
    BY <1>1, MenuRests DEF ConsoleInit, Settled
  <2>2. suspended = Nil /\ replaced \in BOOLEAN /\ late \in BOOLEAN
    BY DEF ConsoleInit
  <2> QED BY <1>1, <2>1, <2>2 DEF ShapeInv
<1>3. LiveInv /\ TruthInv /\ ReplacedInv
  BY <1>1, MenuRests DEF ConsoleInit, LiveInv, TruthInv, Truthful, ReplacedInv
<1> QED BY <1>2, <1>3 DEF ConsoleInv

(* The end of the program.                                                 *)
LEMMA ExitSafe ==
    ASSUME Exit
    PROVE  ConsoleInv'
<1>1. Len(runs') = 0 /\ MaxLoadID \in Nat /\ runs' \in Seq(Run) /\ DOMAIN runs' = {}
  BY ConsoleAssumption DEF Exit
<1>2. ShapeInv'
  <2>1. Settled(flow)' /\ flow'.kind # "menu"
    BY <1>1, QuitRests DEF Exit, Settled
  <2>2. suspended' = Nil /\ replaced' \in BOOLEAN /\ late' \in BOOLEAN
    BY DEF Exit
  <2> QED BY <1>1, <2>1, <2>2 DEF ShapeInv
<1>3. LiveInv' /\ TruthInv' /\ ReplacedInv'
  BY <1>1, QuitRests DEF Exit, LiveInv, TruthInv, Truthful, ReplacedInv
<1> QED BY <1>2, <1>3 DEF ConsoleInv

(* A screen opens from the menu, where nothing can be at work.             *)
LEMMA ActivateSafe ==
    ASSUME ConsoleInv, Activate
    PROVE  ConsoleInv'
<1>1. PICK able \in BOOLEAN, kind \in Screens :
        \E phase \in Phases[kind] :
          /\ flow' = Fresh(kind, phase, able)
          /\ kind \in {"protocols", "monitor"} => phase \in {"Action", "LoadErr"}
          /\ Issue(IF kind = "selfupdate" THEN checkCmd ELSE NoCmd, kind)
  BY PhaseFacts DEF Activate, Screens
<1>2. PICK phase \in Phases[kind] :
        /\ flow' = Fresh(kind, phase, able)
        /\ kind \in {"protocols", "monitor"} => phase \in {"Action", "LoadErr"}
        /\ Issue(IF kind = "selfupdate" THEN checkCmd ELSE NoCmd, kind)
  BY <1>1
<1>3. kind \in DOMAIN Phases /\ kind \notin {"menu", "quit"}
  BY DEF Screens
<1>4. /\ Rests(flow') /\ flow'.kind = kind /\ flow'.ch = 0 /\ flow'.load = 0
      /\ ~flow'.complete /\ ~flow'.failed
  <2>1. PICK f : f = Fresh(kind, phase, able)
    OBVIOUS
  <2>2. /\ Rests(f) /\ f.kind = kind /\ f.ch = 0 /\ f.load = 0
        /\ ~f.complete /\ ~f.failed
    <3>1. Rests(f)
      BY <1>1, <1>2, <1>3, <2>1, FreshRests
    <3>2. f.kind = kind /\ f.ch = 0 /\ f.load = 0 /\ ~f.complete /\ ~f.failed
      BY <2>1 DEF Fresh
    <3> QED BY <3>1, <3>2
  <2> QED BY <1>2, <2>1, <2>2
<1>5. runs' = runs
  <2>1. PICK cmd : cmd = IF kind = "selfupdate" THEN checkCmd ELSE NoCmd
    OBVIOUS
  <2>2. cmd.type # "run"
    BY <2>1, CommandTypes DEF checkCmd
  <2> QED BY <1>2, <2>1, <2>2, IssueEffect
<1>6. flow.kind = "menu" /\ flow.phase = "Menu" /\ UNCHANGED <<suspended, replaced, late>>
  BY MenuRests DEF Activate, ConsoleInv, ShapeInv
<1>7. suspended = Nil
  BY <1>6 DEF ConsoleInv, ShapeInv
<1>8. ShapeInv
  BY DEF ConsoleInv
<1>9. Len(runs) \in Nat /\ MaxLoadID \in Nat
  BY <1>8, ConsoleAssumption DEF ShapeInv
<1>10. ShapeInv'
  BY <1>3, <1>4, <1>5, <1>6, <1>7, <1>8, <1>9 DEF ShapeInv, Settled
<1>11. CASE late
  BY <1>6, <1>10, <1>11 DEF ConsoleInv
<1>12. CASE ~late
  <2>1. LiveInv /\ TruthInv /\ ReplacedInv
    BY <1>12 DEF ConsoleInv
  <2>2. NoLive
    BY <1>6, <2>1 DEF LiveInv, NoLive
  <2>3. LiveInv'
    BY <1>5, <2>2 DEF NoLive, LiveInv, Live
  <2>4. TruthInv' /\ ReplacedInv'
    BY <1>4, <1>5, <1>6, <1>7, <2>1 DEF TruthInv, Truthful, ReplacedInv
  <2> QED BY <1>10, <2>3, <2>4 DEF ConsoleInv
<1> QED BY <1>11, <1>12

(* The program starts again with nothing at work.                          *)
LEMMA RelaunchSafe ==
    ASSUME ConsoleInv, Relaunch
    PROVE  ConsoleInv'
<1>1. /\ flow.kind = "quit" /\ flow' = MainMenu
      /\ UNCHANGED <<suspended, runs, loads, replaced, late>>
  BY DEF Relaunch
<1>2. ShapeInv /\ suspended = Nil
  BY <1>1 DEF ConsoleInv, ShapeInv
<1>3. Len(runs) \in Nat /\ MaxLoadID \in Nat
  BY <1>2, ConsoleAssumption DEF ShapeInv
<1>4. ShapeInv'
  BY <1>1, <1>2, <1>3, MenuRests DEF ShapeInv, Settled
<1>5. flow.phase = "Quit"
  BY <1>1, <1>2, PhaseFacts DEF ShapeInv, Settled, Rests, IsScreen
<1>6. CASE late
  BY <1>1, <1>4, <1>6 DEF ConsoleInv
<1>7. CASE ~late
  <2>1. LiveInv /\ TruthInv /\ ReplacedInv
    BY <1>7 DEF ConsoleInv
  <2>2. NoLive
    BY <1>5, <2>1 DEF LiveInv, NoLive
  <2>3. LiveInv'
    BY <1>1, <2>2 DEF NoLive, LiveInv, Live
  <2>4. TruthInv' /\ ReplacedInv'
    BY <1>1, <1>2, <2>1, MenuRests DEF TruthInv, Truthful, ReplacedInv
  <2> QED BY <1>4, <2>3, <2>4 DEF ConsoleInv
<1> QED BY <1>6, <1>7

(* An answer reaches the open screen.                                      *)
LEMMA AnswerSafe ==
    ASSUME ConsoleInv, Answer
    PROVE  ConsoleInv'
<1>1. PICK req \in BagToSet(loads), err \in BOOLEAN :
        LET msg == [what |-> req.what, id |-> req.id, node |-> req.node,
                    proto |-> req.proto, err |-> err]
        IN  /\ flow' \in handleLoad(flow, msg)
            /\ flow'.load <= MaxLoadID
            /\ late' = (late \/ (flow' # flow /\ ~WaitsFor(flow, req.what)))
            /\ UNCHANGED <<suspended, runs, replaced>>
  BY DEF Answer
<1>2. Answered(flow, flow', req.what)
  <2>1. PICK msg : msg = [what |-> req.what, id |-> req.id, node |-> req.node,
                          proto |-> req.proto, err |-> err]
    OBVIOUS
  <2>2. msg.what = req.what /\ flow' \in handleLoad(flow, msg)
    BY <1>1, <2>1
  <2>3. Rests(flow)
    BY DEF ConsoleInv, ShapeInv, Settled
  <2>4. Answered(flow, flow', msg.what)
    BY <2>2, <2>3, AnswerSound
  <2> QED BY <2>2, <2>4
<1>3. ShapeInv
  BY DEF ConsoleInv
<1>4. ShapeInv'
  BY <1>1, <1>2, <1>3 DEF ShapeInv, Settled, Answered
<1>5. CASE late'
  BY <1>4, <1>5 DEF ConsoleInv
<1>6. CASE ~late'
  <2>1. ~late /\ LiveInv /\ TruthInv /\ ReplacedInv
    BY <1>1, <1>6 DEF ConsoleInv
  <2>2. flow' = flow \/ WaitsFor(flow, req.what)
    BY <1>1, <1>6
  <2>3. flow.phase \in {"Running", "Done"} => flow' = flow
    BY <1>2, <2>2 DEF Answered
  <2>4. LiveInv'
    <3>1. CASE flow' = flow
      BY <1>1, <2>1, <3>1 DEF LiveInv, Live
    <3>2. CASE flow' # flow
      <4>1. NoLive
        BY <2>1, <2>3, <3>2 DEF LiveInv, NoLive
      <4> QED BY <1>1, <4>1 DEF LiveInv, NoLive, Live
    <3> QED BY <3>1, <3>2
  <2>5. TruthInv'
    BY <1>1, <1>2, <2>1 DEF TruthInv, Truthful, Answered
  <2>6. ReplacedInv'
    BY <1>1, <2>1, <2>3 DEF ReplacedInv, Live
  <2> QED BY <1>4, <2>4, <2>5, <2>6 DEF ConsoleInv
<1> QED BY <1>5, <1>6

(* A screen that is answered drops its request and nothing else.           *)
LEMMA AskDropped ==
    ASSUME NEW f, IsScreen(f), Chosen(f), NEW g, g = [f EXCEPT !.ask = FALSE]
    PROVE  /\ Rests(g) /\ g.kind = f.kind /\ g.ch = f.ch /\ g.load = f.load
           /\ g.complete = f.complete /\ g.failed = f.failed
<1>1. f \in Screen
  BY DEF IsScreen
<1>2. g \in Screen
  BY <1>1, Zenon DEF Screen
<1>3. /\ g.kind = f.kind /\ g.phase = f.phase /\ g.ch = f.ch /\ g.load = f.load
      /\ g.complete = f.complete /\ g.failed = f.failed /\ g.ask = FALSE
      /\ g.action = f.action /\ g.node = f.node /\ g.proto = f.proto
      /\ g.shown = f.shown /\ g.fields = f.fields
  BY <1>1, Zenon DEF Screen
<1> QED BY <1>2, <1>3 DEF Rests, IsScreen, Chosen, ChosenAt

(* The runs after a command started: the old ones, and one at work with an *)
(* empty channel and one receive.                                          *)
LEMMA RunAppended ==
    ASSUME runs \in Seq(Run), NEW kd, runs' = Append(runs, NewRun(kd))
    PROVE  /\ runs' \in Seq(Run) /\ Len(runs') = Len(runs) + 1
           /\ DOMAIN runs' = DOMAIN runs \cup {Len(runs) + 1}
           /\ \A r \in DOMAIN runs : r # Len(runs) + 1 /\ runs'[r] = runs[r]
           /\ runs'[Len(runs) + 1].chan = <<>>
           /\ runs'[Len(runs) + 1].waiters = 1
           /\ runs'[Len(runs) + 1].selfupdate = (kd = "selfupdate")
           /\ Len(runs'[Len(runs) + 1].chan) = 0
<1>1. PICK e : e = NewRun(kd)
  OBVIOUS
<1>2. /\ e.chan = <<>> /\ e.waiters = 1 /\ e.selfupdate = (kd = "selfupdate")
      /\ Len(e.chan) = 0
  BY <1>1 DEF NewRun
<1>3. e \in Run
  BY <1>1 DEF NewRun, Run
<1>4. PICK q : q = runs'
  OBVIOUS
<1>5. /\ q \in Seq(Run) /\ Len(q) = Len(runs) + 1
      /\ DOMAIN q = DOMAIN runs \cup {Len(runs) + 1}
      /\ \A r \in DOMAIN runs : r # Len(runs) + 1 /\ q[r] = runs[r]
      /\ q[Len(runs) + 1] = e
  <2>1. q = Append(runs, e)
    BY <1>1, <1>4
  <2> QED BY <1>3, <2>1
<1> QED BY <1>2, <1>4, <1>5

(* Where the outcome o of a key leads: to Certificate management on behalf *)
(* of the screen, back to the screen kept aside, to the menu, or on.       *)
Leads(o) ==
    CASE o.flow.ask ->
           /\ suspended' = [o.flow EXCEPT !.ask = FALSE]
           /\ flow' \in newCertManagerForDomain
      [] ~o.flow.ask /\ o.done /\ flow.kind = "certificates" ->
           /\ flow' \in resumeSuspendedFlow(suspended)
           /\ suspended' = Nil
      [] ~o.flow.ask /\ o.done /\ flow.kind # "certificates" ->
           /\ flow' = MainMenu
           /\ UNCHANGED suspended
      [] OTHER ->
           /\ flow' = o.flow
           /\ UNCHANGED suspended

(* What follows of it.                                                     *)
Led(o) ==
    /\ Starts(flow, o) => flow' = o.flow /\ suspended' = suspended
    /\ \/ flow'.ch = 0
       \/ flow' = suspended /\ suspended # Nil
       \/ flow' = o.flow
    /\ \/ suspended' = Nil
       \/ suspended' = suspended
       \/ suspended' = [o.flow EXCEPT !.ask = FALSE] /\ Stays(flow, o)
    /\ flow.kind # "certificates" /\ ~o.flow.ask /\ ~o.done => flow' = o.flow

(* The screens a key leaves, and the screen it shows, are well formed.     *)
LEMMA PressShape ==
    ASSUME ShapeInv, NEW k, NEW o \in handleKey(flow, k), Sound(flow, o),
           o.flow.load <= MaxLoadID, Issue(o.cmd, flow.kind),
           UNCHANGED <<replaced, late>>,
           Leads(o)
    PROVE  ShapeInv' /\ Led(o)
<1>1. flow.kind \notin {"menu", "quit"}
  BY KeyKinds
<1>2. /\ runs \in Seq(Run) /\ Len(runs) \in Nat /\ MaxLoadID \in Nat /\ 0 <= Cap
      /\ \A r \in DOMAIN runs : Len(runs[r].chan) <= Cap
  BY ConsoleAssumption DEF ShapeInv
<1>3. o.flow.ask => flow.kind # "certificates" /\ Stays(flow, o) /\ suspended = Nil
  BY DEF Sound, Starts, ShapeInv
<1>4. o.flow.ch <= Len(runs') /\ Len(runs) <= Len(runs') /\ Len(runs') \in Nat
      /\ runs' \in Seq(Run) /\ \A r \in DOMAIN runs' : Len(runs'[r].chan) <= Cap
  <2>1. CASE Starts(flow, o)
    <3>1. runs' = Append(runs, NewRun(flow.kind)) /\ o.flow.ch = Len(runs) + 1
      BY <2>1, IssueEffect DEF Starts
    <3>2. /\ runs' \in Seq(Run) /\ Len(runs') = Len(runs) + 1
          /\ DOMAIN runs' = DOMAIN runs \cup {Len(runs) + 1}
          /\ \A r \in DOMAIN runs : r # Len(runs) + 1 /\ runs'[r] = runs[r]
          /\ Len(runs'[Len(runs) + 1].chan) = 0
      BY <1>2, <3>1, RunAppended
    <3> QED BY <1>2, <3>1, <3>2
  <2>2. CASE Stays(flow, o)
    <3>1. runs' = runs /\ o.flow.ch = flow.ch
      BY <2>2, IssueEffect DEF Stays
    <3> QED BY <1>2, <3>1 DEF ShapeInv, Settled
  <2> QED BY <2>1, <2>2 DEF Sound
<1>5. replaced' \in BOOLEAN /\ late' \in BOOLEAN
  BY DEF ShapeInv
<1>6. CASE o.flow.ask
  <2>1. suspended' = [o.flow EXCEPT !.ask = FALSE] /\ flow' \in newCertManagerForDomain
    BY <1>6 DEF Leads
  <2>2. /\ Rests(flow') /\ flow'.kind = "certificates" /\ flow'.redirected
        /\ flow'.ch = 0 /\ flow'.load = 0
    BY <2>1, CertManagerRests
  <2>3. /\ Rests(suspended') /\ suspended'.kind = flow.kind
        /\ suspended'.ch = o.flow.ch /\ suspended'.load = o.flow.load
    BY <2>1, AskDropped DEF Sound
  <2>4. Settled(flow)' /\ Settled(suspended)'
    BY <1>2, <1>4, <2>2, <2>3 DEF Settled
  <2>5. ShapeInv'
    BY <1>1, <1>4, <1>5, <2>2, <2>3, <2>4 DEF ShapeInv
  <2>6. ~Starts(flow, o)
    BY <1>6 DEF Starts
  <2> QED BY <1>3, <1>6, <2>1, <2>2, <2>5, <2>6 DEF Led
<1>7. CASE ~o.flow.ask /\ o.done /\ flow.kind = "certificates"
  <2>1. /\ flow' = IF suspended = Nil THEN MainMenu ELSE suspended
        /\ suspended' = Nil
    BY <1>7 DEF Leads, resumeSuspendedFlow
  <2>2. CASE suspended = Nil
    <3>1. Settled(flow)' /\ flow' = MainMenu
      BY <1>2, <1>4, <2>1, <2>2, MenuRests DEF Settled
    <3>2. ShapeInv'
      BY <1>4, <1>5, <2>1, <3>1 DEF ShapeInv
    <3>3. ~Starts(flow, o) /\ flow'.ch = 0
      BY <1>7, <3>1, MenuRests DEF Starts
    <3> QED BY <1>7, <2>1, <3>2, <3>3 DEF Led
  <2>3. CASE suspended # Nil
    <3>1. Rests(suspended) /\ suspended.ch <= Len(runs) /\ suspended.load <= MaxLoadID
          /\ suspended.ch \in Nat /\ suspended.kind # "menu"
      BY <2>3 DEF ShapeInv, Settled, Rests, IsScreen, Screen
    <3>2. Settled(flow)' /\ flow' = suspended
      BY <1>2, <1>4, <2>1, <2>3, <3>1 DEF Settled
    <3>3. ShapeInv'
      BY <1>4, <1>5, <2>1, <3>1, <3>2 DEF ShapeInv
    <3>4. ~Starts(flow, o)
      BY <1>7 DEF Starts
    <3> QED BY <1>7, <2>1, <2>3, <3>2, <3>3, <3>4 DEF Led
  <2> QED BY <2>2, <2>3
<1>8. CASE ~o.flow.ask /\ o.done /\ flow.kind # "certificates"
  <2>1. flow' = MainMenu /\ suspended' = suspended /\ suspended = Nil
    BY <1>8 DEF Leads, ShapeInv
  <2>2. Settled(flow)'
    BY <1>2, <1>4, <2>1, MenuRests DEF Settled
  <2>3. ShapeInv'
    BY <1>4, <1>5, <2>1, <2>2 DEF ShapeInv
  <2>4. ~Starts(flow, o) /\ flow'.ch = 0
    BY <1>8, <2>1, MenuRests DEF Starts
  <2> QED BY <1>8, <2>1, <2>3, <2>4 DEF Led
<1>9. CASE ~o.flow.ask /\ ~o.done
  <2>1. flow' = o.flow /\ suspended' = suspended
    BY <1>9 DEF Leads
  <2>2. Settled(flow)' /\ flow'.kind = flow.kind /\ flow'.redirected = flow.redirected
    BY <1>4, <1>9, <2>1 DEF Settled, Rests, Sound
  <2>3. suspended # Nil => Settled(suspended)'
    <3>1. suspended # Nil => Rests(suspended) /\ suspended.ch <= Len(runs)
            /\ suspended.load <= MaxLoadID /\ suspended.ch \in Nat
      BY DEF ShapeInv, Settled, Rests, IsScreen, Screen
    <3> QED BY <1>2, <1>4, <2>1, <3>1 DEF Settled
  <2>4. ShapeInv'
    BY <1>1, <1>4, <1>5, <2>1, <2>2, <2>3 DEF ShapeInv
  <2> QED BY <2>1, <2>4 DEF Led
<1> QED BY <1>6, <1>7, <1>8, <1>9

(* A key keeps the account of the commands: none was at work, so a command *)
(* it starts is the only one, and what a screen said of its own remains.   *)
LEMMA PressAccount ==
    ASSUME ShapeInv, LiveInv, TruthInv, ReplacedInv,
           NEW k, NEW o \in handleKey(flow, k), Sound(flow, o), o.cmd # QuitCmd,
           Issue(o.cmd, flow.kind), UNCHANGED replaced,
           Led(o)
    PROVE  LiveInv' /\ TruthInv' /\ ReplacedInv'
<1>1. NoLive
  BY KeyMeansIdle
<1>2. /\ runs \in Seq(Run)
      /\ flow.ch \in 0..Len(runs)
      /\ suspended # Nil => suspended.ch \in 0..Len(runs)
  BY DEF ShapeInv, Settled, Rests, IsScreen, Screen
<1>3. Truthful(flow) /\ (suspended # Nil => Truthful(suspended))
  BY DEF TruthInv
<1>4. CASE Starts(flow, o)
  <2> DEFINE n == Len(runs) + 1
  <2>1. flow' = o.flow /\ suspended' = suspended
    BY <1>4 DEF Led
  <2>2. runs' = Append(runs, NewRun(flow.kind))
    BY <1>4, IssueEffect DEF Starts
  <2>3. /\ DOMAIN runs' = DOMAIN runs \cup {n}
        /\ \A r \in DOMAIN runs : r # n /\ runs'[r] = runs[r]
        /\ runs'[n].chan = <<>> /\ runs'[n].waiters = 1
        /\ runs'[n].selfupdate = (flow.kind = "selfupdate")
        /\ Len(runs'[n].chan) = 0
    BY <1>2, <2>2, RunAppended
  <2>4. /\ flow'.ch = n /\ flow'.phase = "Running" /\ ~flow'.complete
        /\ ~flow'.failed /\ flow'.kind = flow.kind
    BY <1>4, <2>1 DEF Starts, Sound
  <2> HIDE DEF n
  <2>5. LiveInv'
    <3>1. \A r \in DOMAIN runs : ~Live(r)'
      BY <1>1, <2>3 DEF NoLive, Live
    <3>2. 1..Len(runs'[n].chan) = {}
      BY <2>3
    <3> QED BY <2>3, <2>4, <3>1, <3>2 DEF LiveInv
  <2>6. TruthInv'
    <3>1. Truthful(flow)'
      BY <2>4 DEF Truthful
    <3>2. suspended' # Nil => Truthful(suspended)'
      <4>1. ASSUME suspended # Nil, suspended.ch # 0
            PROVE  runs'[suspended.ch] = runs[suspended.ch]
        <5>1. suspended.ch \in DOMAIN runs
          BY <1>2, <4>1
        <5> QED BY <2>3, <5>1
      <4> QED BY <1>3, <2>1, <4>1 DEF Truthful
    <3> QED BY <3>1, <3>2 DEF TruthInv
  <2>7. ReplacedInv'
    <3>1. flow.phase # "Running"
      BY <1>4 DEF Starts, Sound
    <3>2. ASSUME replaced PROVE FALSE
      <4>1. /\ flow.kind = "selfupdate" /\ flow.ch # 0 /\ flow.phase = "Done"
            /\ (Live(flow.ch) \/ flow.tag)
        BY <3>1, <3>2 DEF ReplacedInv
      <4>2. flow.tag
        BY <1>1, <1>2, <4>1 DEF NoLive
      <4> QED BY <4>1, <4>2 DEF Sound
    <3> QED BY <3>2 DEF ReplacedInv
  <2> QED BY <2>5, <2>6, <2>7
<1>5. CASE Stays(flow, o)
  <2>1. runs' = runs
    BY <1>5, IssueEffect DEF Stays
  <2>2. LiveInv'
    BY <1>1, <2>1 DEF NoLive, LiveInv, Live
  <2>3. Truthful(o.flow)
    BY <1>3, <1>5 DEF Truthful, Stays
  <2>4. Truthful(flow)'
    BY <1>3, <2>1, <2>3 DEF Truthful, Led
  <2>5. suspended' # Nil => Truthful(suspended)'
    <3>1. CASE suspended' = suspended
      BY <1>3, <2>1, <3>1 DEF Truthful
    <3>2. CASE suspended' = [o.flow EXCEPT !.ask = FALSE]
      <4>1. PICK g : g = [o.flow EXCEPT !.ask = FALSE]
        OBVIOUS
      <4>2. g.ch = o.flow.ch /\ g.complete = o.flow.complete /\ g.failed = o.flow.failed
        BY <4>1, AskDropped DEF Sound
      <4> QED BY <2>1, <2>3, <3>2, <4>1, <4>2 DEF Truthful
    <3> QED BY <3>1, <3>2 DEF Led
  <2>6. TruthInv'
    BY <2>4, <2>5 DEF TruthInv
  <2>7. ReplacedInv'
    <3>1. SUFFICES ASSUME replaced PROVE ReplacedInv'
      BY DEF ReplacedInv
    <3>2. /\ flow.kind = "selfupdate" /\ flow.ch # 0
          /\ flow.phase \in {"Running", "Done"}
          /\ runs[flow.ch].selfupdate /\ runs[flow.ch].tag
          /\ Live(flow.ch) \/ flow.tag
      BY <3>1 DEF ReplacedInv
    <3>3. flow.tag
      BY <1>1, <1>2, <3>2 DEF NoLive
    <3>4. flow.phase = "Running"
      BY <3>2, <3>3 DEF Sound
    <3>5. /\ flow' = o.flow /\ o.flow.phase = "Done" /\ o.flow.tag
          /\ o.flow.kind = "selfupdate" /\ o.flow.ch = flow.ch
      BY <1>5, <3>2, <3>3, <3>4 DEF Sound, Stays, Led
    <3> QED BY <2>1, <3>2, <3>5 DEF ReplacedInv
  <2> QED BY <2>2, <2>6, <2>7
<1> QED BY <1>4, <1>5 DEF Sound

(* A key keeps the invariant.                                              *)
LEMMA PressSafe ==
    ASSUME ConsoleInv, Press
    PROVE  ConsoleInv'
<1>1. ShapeInv
  BY DEF ConsoleInv
<1>2. PICK k \in Keys : \E o \in handleKey(flow, k) :
        IF o.cmd = QuitCmd THEN Exit
        ELSE /\ o.flow.load <= MaxLoadID
             /\ Issue(o.cmd, flow.kind)
             /\ Leads(o)
             /\ UNCHANGED <<replaced, late>>
  BY DEF Press, Leads
<1>3. PICK o \in handleKey(flow, k) :
        IF o.cmd = QuitCmd THEN Exit
        ELSE /\ o.flow.load <= MaxLoadID
             /\ Issue(o.cmd, flow.kind)
             /\ Leads(o)
             /\ UNCHANGED <<replaced, late>>
  BY <1>2
<1>4. CASE o.cmd = QuitCmd
  BY <1>3, <1>4, ExitSafe
<1>5. CASE o.cmd # QuitCmd
  <2>1. /\ o.flow.load <= MaxLoadID /\ Issue(o.cmd, flow.kind) /\ Leads(o)
        /\ UNCHANGED <<replaced, late>>
    BY <1>3, <1>5
  <2>2. Sound(flow, o)
    BY <1>1, <1>3, KeySound DEF ShapeInv, Settled
  <2>3. ShapeInv' /\ Led(o)
    BY <1>1, <1>3, <2>1, <2>2, PressShape
  <2>4. CASE late
    BY <2>1, <2>3, <2>4 DEF ConsoleInv
  <2>5. CASE ~late
    <3>1. LiveInv /\ TruthInv /\ ReplacedInv
      BY <2>5 DEF ConsoleInv
    <3>2. LiveInv' /\ TruthInv' /\ ReplacedInv'
      BY <1>1, <1>3, <1>5, <2>1, <2>2, <2>3, <3>1, PressAccount
    <3> QED BY <2>3, <3>2 DEF ConsoleInv
  <2> QED BY <2>4, <2>5
<1> QED BY <1>4, <1>5

-----------------------------------------------------------------------------
(* The steps of a command.                                                 *)

(* One command changes, and the others stay.                               *)
LEMMA RunReplaced ==
    ASSUME runs \in Seq(Run), NEW r \in DOMAIN runs, NEW e \in Run,
           NEW q, q = [runs EXCEPT ![r] = e]
    PROVE  /\ q \in Seq(Run) /\ Len(q) = Len(runs) /\ DOMAIN q = DOMAIN runs
           /\ q[r] = e /\ \A s \in DOMAIN runs : s # r => q[s] = runs[s]
OBVIOUS

(* A step of one command leaves the screens as they are.                   *)
LEMMA RunShape ==
    ASSUME ShapeInv, UNCHANGED <<flow, suspended, late>>, replaced' \in BOOLEAN,
           runs' \in Seq(Run), Len(runs') = Len(runs),
           \A r \in DOMAIN runs' : Len(runs'[r].chan) <= Cap
    PROVE  ShapeInv'
BY DEF ShapeInv, Settled

(* The fields of a command.                                                *)
LEMMA RunTyped ==
    ASSUME runs \in Seq(Run), NEW r \in DOMAIN runs
    PROVE  /\ runs[r] \in Run
           /\ runs[r].chan \in Seq(Message) /\ Len(runs[r].chan) \in Nat
           /\ runs[r].waiters \in Nat /\ runs[r].sent \in Nat
           /\ runs[r].working \in BOOLEAN /\ runs[r].selfupdate \in BOOLEAN
           /\ runs[r].ok \in BOOLEAN /\ runs[r].tag \in BOOLEAN
<1>1. runs[r] \in Run
  OBVIOUS
<1> QED BY <1>1 DEF Run

(* While a command is at work, it is the only one that is alive.           *)
LEMMA OneIsLive ==
    ASSUME LiveInv, NEW r \in DOMAIN runs, Live(r)
    PROVE  \A s \in DOMAIN runs : s # r => ~Live(s)
BY DEF LiveInv

(* A line more in the channel of a command at work.                        *)
LEMMA LinePosted ==
    ASSUME NEW c \in Seq(Message), NEW m \in Message,
           NEW d, d = Append(c, m)
    PROVE  /\ d \in Seq(Message) /\ Len(d) = Len(c) + 1 /\ d # <<>>
           /\ d[Len(d)] = m /\ \A i \in 1..Len(c) : d[i] = c[i]
           /\ 1..Len(d) = 1..Len(c) \cup {Len(d)}
OBVIOUS

(* A step of the command on screen that keeps its last line, and no other, *)
(* its result keeps the account of the commands.                           *)
LEMMA AccountKept ==
    ASSUME ShapeInv, LiveInv, TruthInv, UNCHANGED <<flow, suspended>>,
           NEW r \in DOMAIN runs, runs[r].working,
           NEW e \in Run, runs' = [runs EXCEPT ![r] = e],
           e.waiters = runs[r].waiters, e.selfupdate = runs[r].selfupdate,
           e.working \/ e.chan # <<>>,
           replaced' => e.selfupdate /\ e.tag,
           \A i \in 1..Len(e.chan) :
             /\ e.chan[i].done = (~e.working /\ i = Len(e.chan))
             /\ e.chan[i].done =>
                  /\ e.chan[i].ok = e.ok
                  /\ e.selfupdate /\ e.tag => e.chan[i].tag
    PROVE  LiveInv' /\ TruthInv' /\ ReplacedInv'
<1>1. runs \in Seq(Run)
  BY DEF ShapeInv
<1>2. PICK q : q = runs'
  OBVIOUS
<1>3. /\ Len(q) = Len(runs) /\ DOMAIN q = DOMAIN runs
      /\ q[r] = e /\ \A s \in DOMAIN runs : s # r => q[s] = runs[s]
  BY <1>1, <1>2, RunReplaced
<1>4. Live(r)
  BY DEF Live
<1>5. /\ flow.ch = r /\ flow.phase = "Running"
      /\ ~flow.complete /\ ~flow.failed
      /\ runs[r].waiters = 1
      /\ runs[r].selfupdate = (flow.kind = "selfupdate")
  BY <1>4 DEF LiveInv
<1>6. LiveInv'
  <2>1. \A s \in DOMAIN runs : s # r => ~Live(s)
    BY <1>4, OneIsLive
  <2>2. \A s \in DOMAIN runs : s # r => ~Live(s)'
    BY <1>2, <1>3, <2>1 DEF Live
  <2>3. SUFFICES ASSUME Live(r)'
                 PROVE  LiveInv'
    BY <1>2, <1>3, <2>2 DEF LiveInv
  <2>4. ASSUME NEW s \in DOMAIN runs', Live(s)'
        PROVE  s = r
    BY <1>2, <1>3, <2>2, <2>4
  <2> QED BY <1>2, <1>3, <1>5, <2>4 DEF LiveInv
<1>7. TruthInv'
  <2>1. Truthful(flow)'
    BY <1>5 DEF Truthful
  <2>2. suspended # Nil => Truthful(suspended)'
    <3>1. SUFFICES ASSUME suspended # Nil PROVE Truthful(suspended)'
      OBVIOUS
    <3>2. Truthful(suspended) /\ suspended.ch \in 0..Len(runs)
      BY <3>1 DEF TruthInv, ShapeInv, Settled, Rests, IsScreen, Screen
    <3>3. CASE suspended.ch = 0
      BY <3>3 DEF Truthful
    <3>4. CASE suspended.ch = r
      <4>1. r # 0
        BY <1>1
      <4> QED BY <3>2, <3>4, <4>1 DEF Truthful
    <3>5. CASE suspended.ch \notin {0, r}
      <4>1. suspended.ch \in DOMAIN runs
        BY <1>1, <3>2, <3>5
      <4> QED BY <1>2, <1>3, <3>2, <3>5, <4>1 DEF Truthful
    <3> QED BY <3>3, <3>4, <3>5
  <2> QED BY <2>1, <2>2 DEF TruthInv
<1>8. ReplacedInv'
  <2>1. Live(r)' /\ runs'[r] = e
    BY <1>2, <1>3 DEF Live
  <2>2. r # 0
    BY <1>1
  <2>3. UNCHANGED flow
    OBVIOUS
  <2> QED BY <1>5, <2>1, <2>2, <2>3 DEF ReplacedInv
<1> QED BY <1>6, <1>7, <1>8

(* Progress of a command keeps the invariant.                              *)
LEMMA PostEventSafe ==
    ASSUME ConsoleInv, NEW r \in DOMAIN runs, PostEvent(r)
    PROVE  ConsoleInv'
<1>1. ShapeInv /\ runs \in Seq(Run) /\ UNCHANGED <<flow, suspended, replaced, late>>
  BY DEF ConsoleInv, ShapeInv, PostEvent
<1>2. /\ runs[r] \in Run /\ runs[r].chan \in Seq(Message)
      /\ Len(runs[r].chan) \in Nat /\ runs[r].sent \in Nat
  BY <1>1, RunTyped
<1>3. PICK m \in Message : m = [done |-> FALSE, ok |-> FALSE, tag |-> FALSE]
  BY DEF Message
<1>4. PICK c : c = Append(runs[r].chan, m)
  OBVIOUS
<1>5. /\ c \in Seq(Message) /\ Len(c) = Len(runs[r].chan) + 1 /\ c # <<>>
      /\ c[Len(c)] = m /\ \A i \in 1..Len(runs[r].chan) : c[i] = runs[r].chan[i]
      /\ 1..Len(c) = 1..Len(runs[r].chan) \cup {Len(c)}
  BY <1>2, <1>4, LinePosted
<1>6. PICK n \in Nat : n = runs[r].sent + 1
  BY <1>2
<1>7. PICK e : e = [runs[r] EXCEPT !.sent = n, !.chan = c]
  OBVIOUS
<1>8. e \in Run
  BY <1>2, <1>5, <1>7, Zenon DEF Run
<1>9. /\ e.chan = c /\ e.working = runs[r].working /\ e.ok = runs[r].ok
      /\ e.tag = runs[r].tag /\ e.selfupdate = runs[r].selfupdate
      /\ e.waiters = runs[r].waiters
  BY <1>2, <1>7, Zenon DEF Run
<1>10. runs' = [runs EXCEPT ![r] = e]
  BY <1>1, <1>2, <1>3, <1>4, <1>6, <1>7 DEF PostEvent, Run
<1>11. /\ runs' \in Seq(Run) /\ Len(runs') = Len(runs) /\ DOMAIN runs' = DOMAIN runs
       /\ runs'[r] = e /\ \A s \in DOMAIN runs : s # r => runs'[s] = runs[s]
  BY <1>1, <1>8, <1>10, RunReplaced
<1>12. ShapeInv'
  <2>1. Len(c) <= Cap /\ \A s \in DOMAIN runs : Len(runs[s].chan) <= Cap
    BY <1>1, <1>2, <1>5, ConsoleAssumption DEF ShapeInv, PostEvent
  <2>2. replaced' \in BOOLEAN
    BY <1>1 DEF ShapeInv
  <2> QED BY <1>1, <1>9, <1>11, <2>1, <2>2, RunShape
<1>13. CASE late
  BY <1>1, <1>12, <1>13 DEF ConsoleInv
<1>14. CASE ~late
  <2>1. LiveInv /\ TruthInv /\ ReplacedInv
    BY <1>14 DEF ConsoleInv
  <2>2. runs[r].working /\ Live(r)
    BY DEF PostEvent, Live
  <2>3. /\ \A i \in 1..Len(runs[r].chan) : ~runs[r].chan[i].done
        /\ replaced => runs[r].selfupdate /\ runs[r].tag
    BY <2>1, <2>2 DEF LiveInv, ReplacedInv
  <2>4. \A i \in 1..Len(c) : ~c[i].done
    BY <1>3, <1>5, <2>3
  <2>5. \A i \in 1..Len(e.chan) :
          /\ e.chan[i].done = (~e.working /\ i = Len(e.chan))
          /\ e.chan[i].done =>
               /\ e.chan[i].ok = e.ok
               /\ e.selfupdate /\ e.tag => e.chan[i].tag
    <3>1. \A i \in 1..Len(c) : c[i].done = FALSE
      BY <1>5, <2>4 DEF Message
    <3> QED BY <1>9, <2>2, <3>1
  <2>6. /\ replaced' => e.selfupdate /\ e.tag
        /\ e.working /\ e.waiters = runs[r].waiters
        /\ e.selfupdate = runs[r].selfupdate
    BY <1>1, <1>9, <2>2, <2>3
  <2>7. LiveInv' /\ TruthInv' /\ ReplacedInv'
    BY <1>1, <1>8, <1>10, <2>1, <2>2, <2>5, <2>6, AccountKept
  <2> QED BY <1>12, <2>7 DEF ConsoleInv
<1> QED BY <1>13, <1>14

(* The commit of a new binary keeps the invariant: the screen of its       *)
(* command is open and will be told.                                       *)
LEMMA CommitSafe ==
    ASSUME ConsoleInv, NEW r \in DOMAIN runs, Commit(r)
    PROVE  ConsoleInv'
<1>1. /\ ShapeInv /\ runs \in Seq(Run) /\ UNCHANGED <<flow, suspended, late>>
      /\ replaced' = TRUE
  BY DEF ConsoleInv, ShapeInv, Commit
<1>2. runs[r] \in Run /\ runs[r].chan \in Seq(Message)
  BY <1>1, RunTyped
<1>3. PICK e : e = [runs[r] EXCEPT !.tag = TRUE]
  OBVIOUS
<1>4. /\ e \in Run /\ e.chan = runs[r].chan /\ e.working = runs[r].working
      /\ e.ok = runs[r].ok /\ e.tag = TRUE /\ e.selfupdate = runs[r].selfupdate
      /\ e.waiters = runs[r].waiters
  BY <1>2, <1>3, Zenon DEF Run
<1>5. runs' = [runs EXCEPT ![r] = e]
  BY <1>3 DEF Commit
<1>6. /\ runs' \in Seq(Run) /\ Len(runs') = Len(runs) /\ DOMAIN runs' = DOMAIN runs
      /\ runs'[r] = e /\ \A s \in DOMAIN runs : s # r => runs'[s] = runs[s]
  BY <1>1, <1>4, <1>5, RunReplaced
<1>7. ShapeInv'
  <2>1. \A s \in DOMAIN runs : Len(runs[s].chan) <= Cap
    BY <1>1 DEF ShapeInv
  <2> QED BY <1>1, <1>4, <1>6, <2>1, RunShape
<1>8. CASE late
  BY <1>1, <1>7, <1>8 DEF ConsoleInv
<1>9. CASE ~late
  <2>1. LiveInv /\ TruthInv
    BY <1>9 DEF ConsoleInv
  <2>2. runs[r].working /\ runs[r].selfupdate /\ Live(r)
    BY DEF Commit, Live
  <2>3. \A i \in 1..Len(runs[r].chan) : ~runs[r].chan[i].done
    BY <2>1, <2>2 DEF LiveInv
  <2>4. \A i \in 1..Len(e.chan) :
          /\ e.chan[i].done = (~e.working /\ i = Len(e.chan))
          /\ e.chan[i].done =>
               /\ e.chan[i].ok = e.ok
               /\ e.selfupdate /\ e.tag => e.chan[i].tag
    <3>1. \A i \in 1..Len(runs[r].chan) : runs[r].chan[i].done = FALSE
      BY <1>2, <2>3 DEF Message
    <3> QED BY <1>4, <2>2, <3>1
  <2>5. /\ replaced' => e.selfupdate /\ e.tag
        /\ e.working /\ e.waiters = runs[r].waiters
        /\ e.selfupdate = runs[r].selfupdate
    BY <1>4, <2>2
  <2>6. LiveInv' /\ TruthInv' /\ ReplacedInv'
    BY <1>1, <1>4, <1>5, <2>1, <2>2, <2>4, <2>5, AccountKept
  <2> QED BY <1>7, <2>6 DEF ConsoleInv
<1> QED BY <1>8, <1>9

(* The result of a command is the last line of its channel.                *)
LEMMA FinishSafe ==
    ASSUME ConsoleInv, NEW r \in DOMAIN runs, NEW ok \in BOOLEAN, Finish(r, ok)
    PROVE  ConsoleInv'
<1>1. ShapeInv /\ runs \in Seq(Run) /\ UNCHANGED <<flow, suspended, replaced, late>>
  BY DEF ConsoleInv, ShapeInv, Finish
<1>2. /\ runs[r] \in Run /\ runs[r].chan \in Seq(Message)
      /\ Len(runs[r].chan) \in Nat /\ runs[r].selfupdate \in BOOLEAN
      /\ runs[r].tag \in BOOLEAN
  BY <1>1, RunTyped
<1>3. PICK m : m = [done |-> TRUE, ok |-> ok,
                    tag |-> runs[r].selfupdate /\ (ok \/ runs[r].tag)]
  OBVIOUS
<1>4. /\ m \in Message /\ m.done = TRUE /\ m.ok = ok
      /\ runs[r].selfupdate /\ runs[r].tag => m.tag
  BY <1>2, <1>3 DEF Message
<1>5. PICK c : c = Append(runs[r].chan, m)
  OBVIOUS
<1>6. /\ c \in Seq(Message) /\ Len(c) = Len(runs[r].chan) + 1 /\ c # <<>>
      /\ c[Len(c)] = m /\ \A i \in 1..Len(runs[r].chan) : c[i] = runs[r].chan[i]
      /\ 1..Len(c) = 1..Len(runs[r].chan) \cup {Len(c)}
  BY <1>2, <1>4, <1>5, LinePosted
<1>7. PICK e : e = [runs[r] EXCEPT !.working = FALSE, !.ok = ok, !.sent = 0, !.chan = c]
  OBVIOUS
<1>8. e \in Run
  <2>1. 0 \in Nat
    OBVIOUS
  <2> QED BY <1>2, <1>6, <1>7, <2>1, Zenon DEF Run
<1>9. /\ e.chan = c /\ e.working = FALSE /\ e.ok = ok
      /\ e.tag = runs[r].tag /\ e.selfupdate = runs[r].selfupdate
      /\ e.waiters = runs[r].waiters
  BY <1>2, <1>7, Zenon DEF Run
<1>10. runs' = [runs EXCEPT ![r] = e]
  BY <1>1, <1>2, <1>3, <1>5, <1>7 DEF Finish, Run
<1>11. /\ runs' \in Seq(Run) /\ Len(runs') = Len(runs) /\ DOMAIN runs' = DOMAIN runs
       /\ runs'[r] = e /\ \A s \in DOMAIN runs : s # r => runs'[s] = runs[s]
  BY <1>1, <1>8, <1>10, RunReplaced
<1>12. ShapeInv'
  <2>1. Len(c) <= Cap /\ \A s \in DOMAIN runs : Len(runs[s].chan) <= Cap
    BY <1>1, <1>2, <1>6, ConsoleAssumption DEF ShapeInv, Finish
  <2>2. replaced' \in BOOLEAN
    BY <1>1 DEF ShapeInv
  <2> QED BY <1>1, <1>9, <1>11, <2>1, <2>2, RunShape
<1>13. CASE late
  BY <1>1, <1>12, <1>13 DEF ConsoleInv
<1>14. CASE ~late
  <2>1. LiveInv /\ TruthInv /\ ReplacedInv
    BY <1>14 DEF ConsoleInv
  <2>2. runs[r].working /\ Live(r)
    BY DEF Finish, Live
  <2>3. /\ \A i \in 1..Len(runs[r].chan) : ~runs[r].chan[i].done
        /\ replaced => runs[r].selfupdate /\ runs[r].tag
    BY <2>1, <2>2 DEF LiveInv, ReplacedInv
  <2>4. \A i \in 1..Len(c) : c[i].done = (i = Len(c))
    <3>1. \A i \in 1..Len(runs[r].chan) : c[i].done = FALSE /\ i # Len(c)
      BY <1>2, <1>6, <2>3 DEF Message
    <3> QED BY <1>4, <1>6, <3>1
  <2>5. \A i \in 1..Len(e.chan) :
          /\ e.chan[i].done = (~e.working /\ i = Len(e.chan))
          /\ e.chan[i].done =>
               /\ e.chan[i].ok = e.ok
               /\ e.selfupdate /\ e.tag => e.chan[i].tag
    BY <1>4, <1>6, <1>9, <2>4
  <2>6. /\ replaced' => e.selfupdate /\ e.tag
        /\ e.chan # <<>> /\ e.waiters = runs[r].waiters
        /\ e.selfupdate = runs[r].selfupdate
    BY <1>1, <1>6, <1>9, <2>3
  <2>7. LiveInv' /\ TruthInv' /\ ReplacedInv'
    BY <1>1, <1>8, <1>10, <2>1, <2>2, <2>5, <2>6, AccountKept
  <2> QED BY <1>12, <2>7 DEF ConsoleInv
<1> QED BY <1>13, <1>14

(* A line leaves a channel: the others stay in their order.                *)
LEMMA LineTaken ==
    ASSUME NEW c \in Seq(Message), NEW i \in 1..Len(c)
    PROVE  LET d == SubSeq(c, 1, i - 1) \o SubSeq(c, i + 1, Len(c)) IN
           /\ d \in Seq(Message) /\ Len(d) = Len(c) - 1
           /\ i = 1 => \A j \in 1..Len(d) : d[j] = c[j + 1]
<1>1. PICK a : a = SubSeq(c, 1, i - 1)
  OBVIOUS
<1>2. PICK b : b = SubSeq(c, i + 1, Len(c))
  OBVIOUS
<1>3. a \in Seq(Message) /\ Len(a) = i - 1
  BY <1>1
<1>4. /\ b \in Seq(Message) /\ Len(b) = Len(c) - i
      /\ \A j \in 1..Len(b) : b[j] = c[i + j]
  BY <1>2
<1>5. PICK d : d = a \o b
  OBVIOUS
<1>6. /\ d \in Seq(Message) /\ Len(d) = Len(a) + Len(b)
      /\ Len(a) = 0 => \A j \in 1..Len(b) : d[j] = b[j]
  <2>1. a \in Seq(Message) /\ b \in Seq(Message)
    BY <1>3, <1>4
  <2>2. d \in Seq(Message) /\ Len(d) = Len(a) + Len(b)
    BY <1>5, <2>1
  <2>3. Len(a) = 0 => \A j \in 1..Len(b) : d[j] = b[j]
    BY <1>5, <2>1
  <2> QED BY <2>2, <2>3
<1>7. Len(d) = Len(c) - 1
  <2>1. Len(c) \in Nat /\ i \in Nat
    OBVIOUS
  <2> QED BY <1>3, <1>4, <1>6, <2>1
<1>8. ASSUME i = 1, NEW j \in 1..Len(d) PROVE d[j] = c[j + 1]
  <2>1. Len(a) = 0 /\ j \in 1..Len(b)
    BY <1>3, <1>4, <1>6, <1>7, <1>8
  <2>2. d[j] = b[j]
    BY <1>6, <2>1
  <2> QED BY <1>4, <1>8, <2>1, <2>2
<1> QED BY <1>1, <1>2, <1>5, <1>6, <1>7, <1>8

(* The commands p and q differ in channels and receives only.              *)
SameWork(p, q) ==
    /\ q \in Seq(Run) /\ Len(q) = Len(p) /\ DOMAIN q = DOMAIN p
    /\ \A s \in DOMAIN p :
         /\ q[s].working = p[s].working /\ q[s].ok = p[s].ok
         /\ q[s].tag = p[s].tag /\ q[s].selfupdate = p[s].selfupdate

(* One receive more.                                                       *)
Again(p, w) == [p EXCEPT ![w].waiters = @ + 1]

(* It changes nothing else.                                                *)
LEMMA ReceiveAgain ==
    ASSUME NEW p \in Seq(Run), NEW w \in DOMAIN p,
           NEW q, q = Again(p, w)
    PROVE  /\ SameWork(p, q)
           /\ \A s \in DOMAIN p : q[s].chan = p[s].chan
           /\ q[w].waiters = p[w].waiters + 1
<1>1. p[w] \in Run /\ p[w].waiters \in Nat
  <2>1. p[w] \in Run
    OBVIOUS
  <2> QED BY <2>1 DEF Run
<1>2. PICK n \in Nat : n = p[w].waiters + 1
  BY <1>1
<1>3. PICK e : e = [p[w] EXCEPT !.waiters = n]
  OBVIOUS
<1>4. /\ e \in Run /\ e.chan = p[w].chan /\ e.working = p[w].working
      /\ e.ok = p[w].ok /\ e.tag = p[w].tag /\ e.selfupdate = p[w].selfupdate
      /\ e.waiters = n
  BY <1>1, <1>3, Zenon DEF Run
<1>5. q = [p EXCEPT ![w] = e]
  BY <1>2, <1>3 DEF Again
<1>6. /\ q \in Seq(Run) /\ Len(q) = Len(p) /\ DOMAIN q = DOMAIN p
      /\ q[w] = e /\ \A s \in DOMAIN p : s # w => q[s] = p[s]
  BY <1>4, <1>5
<1> QED BY <1>2, <1>4, <1>6 DEF SameWork

(* What a receive does: the line it takes goes to the open screen, which   *)
(* asks for the next one or not.                                           *)
LEMMA DeliverEffect ==
    ASSUME ShapeInv, NEW r \in DOMAIN runs, Deliver(r)
    PROVE  \E i \in 1..Len(runs[r].chan) :
             /\ i <= runs[r].waiters
             /\ \E w \in {0, flow.ch} :
                  /\ Reported(flow, flow', w, runs[r].chan[i])
                  /\ SameWork(runs, runs')
                  /\ \A s \in DOMAIN runs : s # r => runs'[s].chan = runs[s].chan
                  /\ Len(runs'[r].chan) = Len(runs[r].chan) - 1
                  /\ i = 1 => \A j \in 1..Len(runs'[r].chan) :
                                runs'[r].chan[j] = runs[r].chan[j + 1]
                  /\ w = r => runs'[r].waiters = runs[r].waiters
<1>1. runs \in Seq(Run) /\ Rests(flow) /\ flow.ch \in 0..Len(runs)
  BY DEF ShapeInv, Settled, Rests, IsScreen, Screen
<1>2. /\ runs[r] \in Run /\ runs[r].chan \in Seq(Message)
      /\ Len(runs[r].chan) \in Nat /\ runs[r].waiters \in Nat
  BY <1>1, RunTyped
<1>3. PICK i \in 1..Len(runs[r].chan) :
        /\ i <= runs[r].waiters
        /\ flow' = handleRun(flow, runs[r].chan[i]).flow
        /\ LET rest == [runs EXCEPT
                          ![r].chan = SubSeq(@, 1, i - 1) \o SubSeq(@, i + 1, Len(@)),
                          ![r].waiters = @ - 1]
           IN  runs' = IF handleRun(flow, runs[r].chan[i]).wait = 0 THEN rest
                       ELSE [rest EXCEPT
                               ![handleRun(flow, runs[r].chan[i]).wait].waiters = @ + 1]
  BY DEF Deliver
<1>i. i \in 1..Len(runs[r].chan) /\ i <= runs[r].waiters
  BY <1>3
<1>4. PICK m \in Message : m = runs[r].chan[i]
  <2>1. PICK c \in Seq(Message) : c = runs[r].chan
    BY <1>2
  <2>2. i \in 1..Len(c)
    BY <1>3, <2>1
  <2>3. c[i] \in Message
    BY <2>1, <2>2
  <2> QED BY <2>1, <2>3
<1>5. PICK w : w = handleRun(flow, m).wait
  OBVIOUS
<1>6. Reported(flow, flow', w, m)
  <2>1. Reported(flow, handleRun(flow, m).flow, handleRun(flow, m).wait, m)
    BY <1>1, <1>4, LineSound
  <2>2. flow' = handleRun(flow, m).flow
    BY <1>3, <1>4
  <2> QED BY <1>5, <2>1, <2>2
<1>7. w \in {0, flow.ch}
  BY <1>6 DEF Reported
<1>8. PICK d : d = SubSeq(runs[r].chan, 1, i - 1)
                     \o SubSeq(runs[r].chan, i + 1, Len(runs[r].chan))
  OBVIOUS
<1>9. /\ d \in Seq(Message) /\ Len(d) = Len(runs[r].chan) - 1
      /\ i = 1 => \A j \in 1..Len(d) : d[j] = runs[r].chan[j + 1]
  BY <1>2, <1>i, <1>8, LineTaken
<1>10. PICK n \in Nat : n = runs[r].waiters - 1
  BY <1>2, <1>i
<1>11. PICK e : e = [runs[r] EXCEPT !.chan = d, !.waiters = n]
  OBVIOUS
<1>12. /\ e \in Run /\ e.chan = d /\ e.working = runs[r].working
       /\ e.ok = runs[r].ok /\ e.tag = runs[r].tag
       /\ e.selfupdate = runs[r].selfupdate /\ e.waiters = n
  BY <1>2, <1>9, <1>11, Zenon DEF Run
<1>13. PICK rest : rest = [runs EXCEPT ![r] = e]
  OBVIOUS
<1>14. runs' = IF w = 0 THEN rest ELSE [rest EXCEPT ![w].waiters = @ + 1]
  <2>1. rest = [runs EXCEPT
                  ![r].chan = SubSeq(@, 1, i - 1) \o SubSeq(@, i + 1, Len(@)),
                  ![r].waiters = @ - 1]
    BY <1>1, <1>2, <1>8, <1>10, <1>11, <1>13 DEF Run
  <2>2. w = handleRun(flow, runs[r].chan[i]).wait
    BY <1>4, <1>5
  <2> QED BY <1>3, <2>1, <2>2
<1>15. /\ rest \in Seq(Run) /\ Len(rest) = Len(runs) /\ DOMAIN rest = DOMAIN runs
       /\ rest[r] = e /\ \A s \in DOMAIN runs : s # r => rest[s] = runs[s]
  BY <1>1, <1>12, <1>13, RunReplaced
<1>16. SameWork(runs, rest)
  BY <1>12, <1>15 DEF SameWork
<1>17. /\ SameWork(runs, runs')
       /\ \A s \in DOMAIN runs : runs'[s].chan = rest[s].chan
       /\ w = r => runs'[r].waiters = runs[r].waiters
  <2>1. CASE w = 0
    <3>1. runs' = rest /\ w # r
      BY <1>1, <1>14, <2>1
    <3> QED BY <1>16, <3>1
  <2>2. CASE w # 0
    <3>1. w \in DOMAIN rest /\ runs' = Again(rest, w)
      BY <1>1, <1>7, <1>14, <1>15, <2>2 DEF Again
    <3>2. PICK q : q = runs'
      OBVIOUS
    <3>3. /\ SameWork(rest, q) /\ \A s \in DOMAIN rest : q[s].chan = rest[s].chan
          /\ q[w].waiters = rest[w].waiters + 1
      BY <1>15, <3>1, <3>2, ReceiveAgain
    <3>4. SameWork(runs, q)
      BY <1>15, <1>16, <3>3 DEF SameWork
    <3>5. w = r => q[r].waiters = runs[r].waiters
      BY <1>2, <1>10, <1>12, <1>15, <3>3
    <3> QED BY <1>15, <3>2, <3>3, <3>4, <3>5
  <2> QED BY <2>1, <2>2
<1>18. /\ \A s \in DOMAIN runs : s # r => runs'[s].chan = runs[s].chan
       /\ runs'[r].chan = d
  BY <1>12, <1>15, <1>17
<1>19. /\ Reported(flow, flow', w, runs[r].chan[i]) /\ SameWork(runs, runs')
       /\ Len(runs'[r].chan) = Len(runs[r].chan) - 1
       /\ i = 1 => \A j \in 1..Len(runs'[r].chan) :
                     runs'[r].chan[j] = runs[r].chan[j + 1]
  BY <1>4, <1>6, <1>9, <1>17, <1>18
<1> QED BY <1>i, <1>7, <1>17, <1>18, <1>19

(* A line on its way to the screen keeps the invariant.                    *)
LEMMA DeliverSafe ==
    ASSUME ConsoleInv, NEW r \in DOMAIN runs, Deliver(r)
    PROVE  ConsoleInv'
<1>1. /\ ShapeInv /\ runs \in Seq(Run) /\ flow.ch \in 0..Len(runs)
      /\ UNCHANGED <<suspended, replaced, late>>
  <2>1. ShapeInv /\ Settled(flow) /\ runs \in Seq(Run) /\ flow.ch \in 0..Len(runs)
    <3>1. ShapeInv
      BY DEF ConsoleInv
    <3> QED BY <3>1 DEF ShapeInv, Settled, Rests, IsScreen, Screen
  <2>2. UNCHANGED <<suspended, replaced, late>>
    BY DEF Deliver
  <2> QED BY <2>1, <2>2
<1>2. PICK i \in 1..Len(runs[r].chan) :
        /\ i <= runs[r].waiters
        /\ \E w \in {0, flow.ch} :
             /\ Reported(flow, flow', w, runs[r].chan[i])
             /\ SameWork(runs, runs')
             /\ \A s \in DOMAIN runs : s # r => runs'[s].chan = runs[s].chan
             /\ Len(runs'[r].chan) = Len(runs[r].chan) - 1
             /\ i = 1 => \A j \in 1..Len(runs'[r].chan) :
                           runs'[r].chan[j] = runs[r].chan[j + 1]
             /\ w = r => runs'[r].waiters = runs[r].waiters
  BY <1>1, DeliverEffect
<1>3. PICK w \in {0, flow.ch} :
        /\ Reported(flow, flow', w, runs[r].chan[i])
        /\ SameWork(runs, runs')
        /\ \A s \in DOMAIN runs : s # r => runs'[s].chan = runs[s].chan
        /\ Len(runs'[r].chan) = Len(runs[r].chan) - 1
        /\ i = 1 => \A j \in 1..Len(runs'[r].chan) :
                      runs'[r].chan[j] = runs[r].chan[j + 1]
        /\ w = r => runs'[r].waiters = runs[r].waiters
  BY <1>2
<1>4. /\ runs[r].chan \in Seq(Message) /\ Len(runs[r].chan) \in Nat
      /\ runs'[r].chan \in Seq(Message) /\ DOMAIN runs' = DOMAIN runs
      /\ Len(runs') = Len(runs) /\ runs' \in Seq(Run)
  <2>1. runs' \in Seq(Run) /\ Len(runs') = Len(runs) /\ DOMAIN runs' = DOMAIN runs
    BY <1>3 DEF SameWork
  <2>2. runs'[r] \in Run /\ runs[r] \in Run
    BY <1>1, <2>1
  <2> QED BY <2>1, <2>2 DEF Run
<1>5. ShapeInv'
  <2>1. \A s \in DOMAIN runs' : Len(runs'[s].chan) <= Cap
    <3>1. \A s \in DOMAIN runs : Len(runs[s].chan) <= Cap
      BY <1>1 DEF ShapeInv
    <3>2. Len(runs'[r].chan) <= Cap
      BY <1>3, <1>4, <3>1, ConsoleAssumption
    <3> QED BY <1>3, <1>4, <3>1, <3>2
  <2>2. Settled(flow)' /\ flow'.kind = flow.kind /\ flow'.redirected = flow.redirected
    BY <1>1, <1>3, <1>4 DEF Reported, ShapeInv, Settled
  <2>3. flow'.kind = "menu" => flow' = MainMenu
    BY <1>1, <1>3 DEF Reported, ShapeInv
  <2>4. suspended' # Nil =>
          /\ Settled(suspended)' /\ suspended'.kind # "menu"
          /\ flow'.kind = "certificates" /\ flow'.redirected
    BY <1>1, <1>4, <2>2 DEF ShapeInv, Settled
  <2>5. replaced' \in BOOLEAN /\ late' \in BOOLEAN
    BY <1>1 DEF ShapeInv
  <2> QED BY <1>4, <2>1, <2>2, <2>3, <2>4, <2>5 DEF ShapeInv
<1>6. CASE late
  BY <1>1, <1>5, <1>6 DEF ConsoleInv
<1>7. CASE ~late
  <2>1. LiveInv /\ TruthInv /\ ReplacedInv
    BY <1>7 DEF ConsoleInv
  <2>2. Live(r) /\ Len(runs[r].chan) > 0
    BY <1>2, <1>4 DEF Live
  <2>3. /\ flow.ch = r /\ flow.phase = "Running"
        /\ ~flow.complete /\ ~flow.failed
        /\ runs[r].waiters = 1
        /\ runs[r].selfupdate = (flow.kind = "selfupdate")
    BY <2>1, <2>2 DEF LiveInv
  <2>4. \A j \in 1..Len(runs[r].chan) :
          /\ runs[r].chan[j].done = (~runs[r].working /\ j = Len(runs[r].chan))
          /\ runs[r].chan[j].done =>
               /\ runs[r].chan[j].ok = runs[r].ok
               /\ runs[r].selfupdate /\ runs[r].tag => runs[r].chan[j].tag
    BY <2>1, <2>2 DEF LiveInv
  <2>5. i = 1 /\ r # 0
    BY <1>1, <1>2, <2>3
  <2>6. PICK m \in Message : m = runs[r].chan[1]
    BY <1>4, <2>2
  <2>7. Reported(flow, flow', w, m)
    BY <1>3, <2>5, <2>6
  <2>8. /\ flow'.ch = r /\ flow'.kind = flow.kind /\ flow'.phase \in {"Running", "Done"}
        /\ flow.kind = "selfupdate" => flow'.tag = (flow.tag \/ m.tag)
    BY <2>3, <2>7 DEF Reported
  <2>9. /\ runs'[r].working = runs[r].working /\ runs'[r].ok = runs[r].ok
        /\ runs'[r].tag = runs[r].tag /\ runs'[r].selfupdate = runs[r].selfupdate
    BY <1>3 DEF SameWork
  <2>10. \A s \in DOMAIN runs : s # r => ~Live(s)'
    <3>1. \A s \in DOMAIN runs : s # r => ~Live(s)
      BY <2>1, <2>2, OneIsLive
    <3>2. \A s \in DOMAIN runs : runs'[s].working = runs[s].working
      BY <1>3 DEF SameWork
    <3> QED BY <1>3, <3>1, <3>2 DEF Live
  <2>11. suspended' # Nil => Truthful(suspended)'
    <3>1. SUFFICES ASSUME suspended # Nil PROVE Truthful(suspended)'
      BY <1>1
    <3>2. Truthful(suspended) /\ suspended.ch \in 0..Len(runs)
      BY <1>1, <2>1, <3>1 DEF TruthInv, ShapeInv, Settled, Rests, IsScreen, Screen
    <3>3. suspended.ch # 0 => suspended.ch \in DOMAIN runs
      BY <1>1, <3>2
    <3>4. \A s \in DOMAIN runs : /\ runs'[s].working = runs[s].working
                                 /\ runs'[s].ok = runs[s].ok
      BY <1>3 DEF SameWork
    <3> QED BY <1>1, <3>2, <3>3, <3>4 DEF Truthful
  <2>12. /\ m.done = (~runs[r].working /\ 1 = Len(runs[r].chan))
         /\ m.done => /\ m.ok = runs[r].ok
                      /\ runs[r].selfupdate /\ runs[r].tag => m.tag
    <3>1. 1 \in 1..Len(runs[r].chan)
      BY <1>4, <2>2
    <3> QED BY <2>4, <2>6, <3>1
  <2>13. CASE m.done
    <3>1. ~runs[r].working /\ Len(runs[r].chan) = 1
      BY <2>13, <2>12
    <3>2. runs'[r].chan = <<>>
      BY <1>3, <1>4, <3>1
    <3>3. LiveInv'
      <4>1. ~Live(r)'
        BY <2>9, <3>1, <3>2 DEF Live
      <4> QED BY <1>4, <2>10, <4>1 DEF LiveInv
    <3>4. /\ m.ok = runs[r].ok
          /\ runs[r].selfupdate /\ runs[r].tag => m.tag
      BY <2>13, <2>12
    <3>5. flow'.complete = m.ok /\ flow'.failed = ~m.ok
      BY <2>3, <2>6, <2>7, <2>13 DEF Reported, Message
    <3>6. TruthInv'
      BY <2>8, <2>9, <2>11, <3>1, <3>4, <3>5 DEF TruthInv, Truthful
    <3>7. ReplacedInv'
      <4>1. replaced => /\ flow.kind = "selfupdate"
                        /\ runs[r].selfupdate /\ runs[r].tag
        BY <2>1, <2>3 DEF ReplacedInv
      <4> QED BY <1>1, <2>5, <2>8, <2>9, <3>4, <4>1 DEF ReplacedInv
    <3> QED BY <1>5, <3>3, <3>6, <3>7 DEF ConsoleInv
  <2>14. CASE ~m.done
    <3>1. w = r /\ flow'.phase = "Running" /\ ~flow'.complete /\ ~flow'.failed
      BY <2>3, <2>7, <2>14 DEF Reported
    <3>2. runs'[r].waiters = 1
      BY <1>3, <2>3, <3>1
    <3>3. Len(runs'[r].chan) = Len(runs[r].chan) - 1
          /\ \A j \in 1..Len(runs'[r].chan) : runs'[r].chan[j] = runs[r].chan[j + 1]
      BY <1>3, <2>5
    <3>4. \A j \in 1..Len(runs'[r].chan) :
            /\ runs'[r].chan[j].done = (~runs'[r].working /\ j = Len(runs'[r].chan))
            /\ runs'[r].chan[j].done =>
                 /\ runs'[r].chan[j].ok = runs'[r].ok
                 /\ runs'[r].selfupdate /\ runs'[r].tag => runs'[r].chan[j].tag
      <4>1. SUFFICES ASSUME NEW j \in 1..Len(runs'[r].chan)
                     PROVE  /\ runs'[r].chan[j].done =
                                 (~runs'[r].working /\ j = Len(runs'[r].chan))
                            /\ runs'[r].chan[j].done =>
                                 /\ runs'[r].chan[j].ok = runs'[r].ok
                                 /\ runs'[r].selfupdate /\ runs'[r].tag =>
                                      runs'[r].chan[j].tag
        OBVIOUS
      <4>2. PICK l : l = j + 1
        OBVIOUS
      <4>3. /\ l \in 1..Len(runs[r].chan)
            /\ (j = Len(runs'[r].chan)) = (l = Len(runs[r].chan))
        BY <1>4, <3>3, <4>2
      <4>4. runs'[r].chan[j] = runs[r].chan[l]
        BY <3>3, <4>2
      <4> QED BY <2>4, <2>9, <4>3, <4>4
    <3>5. LiveInv'
      <4>1. \A s \in DOMAIN runs' : Live(s)' => s = r
        BY <1>4, <2>10
      <4> QED BY <2>3, <2>8, <2>9, <3>1, <3>2, <3>4, <4>1 DEF LiveInv
    <3>6. TruthInv'
      BY <2>8, <2>11, <3>1 DEF TruthInv, Truthful
    <3>7. Live(r)'
      <4>1. CASE runs[r].working
        BY <2>9, <4>1 DEF Live
      <4>2. CASE ~runs[r].working
        <5>1. Len(runs[r].chan) # 1
          BY <2>14, <2>12, <4>2
        <5>2. PICK n \in Nat : n = Len(runs[r].chan)
          BY <1>4
        <5>3. Len(runs'[r].chan) = n - 1 /\ n > 0 /\ n # 1
          BY <2>2, <3>3, <5>1, <5>2
        <5>4. Len(runs'[r].chan) # 0
          BY <5>3
        <5>5. runs'[r].chan # <<>>
          BY <5>4
        <5> QED BY <5>5 DEF Live
      <4> QED BY <4>1, <4>2
    <3>8. ReplacedInv'
      BY <1>1, <2>1, <2>3, <2>5, <2>8, <2>9, <3>1, <3>7 DEF ReplacedInv
    <3> QED BY <1>5, <3>5, <3>6, <3>8 DEF ConsoleInv
  <2> QED BY <2>13, <2>14
<1> QED BY <1>6, <1>7

(* A step that changes nothing keeps the invariant.                        *)
LEMMA IdleSafe ==
    ASSUME ConsoleInv, UNCHANGED consoleVars
    PROVE  ConsoleInv'
<1>1. /\ flow' = flow /\ suspended' = suspended /\ runs' = runs
      /\ replaced' = replaced /\ late' = late
  BY DEF consoleVars
<1>2. ShapeInv'
  BY <1>1 DEF ConsoleInv, ShapeInv, Settled
<1>3. LiveInv => LiveInv'
  BY <1>1 DEF LiveInv, Live
<1>4. TruthInv => TruthInv'
  BY <1>1 DEF TruthInv, Truthful
<1>5. ReplacedInv => ReplacedInv'
  BY <1>1 DEF ReplacedInv, Live
<1> QED BY <1>1, <1>2, <1>3, <1>4, <1>5 DEF ConsoleInv

(* Every step keeps the invariant.                                         *)
LEMMA NextSafe ==
    ASSUME ConsoleInv, [ConsoleNext]_consoleVars
    PROVE  ConsoleInv'
<1>1. CASE Activate
  BY <1>1, ActivateSafe
<1>2. CASE Press
  BY <1>2, PressSafe
<1>3. CASE CtrlC
  BY <1>3, ExitSafe DEF CtrlC
<1>4. CASE Relaunch
  BY <1>4, RelaunchSafe
<1>5. CASE Answer
  BY <1>5, AnswerSafe
<1>6. ASSUME NEW r \in DOMAIN runs, PostEvent(r) PROVE ConsoleInv'
  BY <1>6, PostEventSafe
<1>7. ASSUME NEW r \in DOMAIN runs, Commit(r) PROVE ConsoleInv'
  BY <1>7, CommitSafe
<1>8. ASSUME NEW r \in DOMAIN runs, NEW ok \in BOOLEAN, Finish(r, ok)
      PROVE  ConsoleInv'
  BY <1>8, FinishSafe
<1>9. ASSUME NEW r \in DOMAIN runs, Deliver(r) PROVE ConsoleInv'
  BY <1>9, DeliverSafe
<1>10. CASE UNCHANGED consoleVars
  BY <1>10, IdleSafe
<1> QED
  BY <1>1, <1>2, <1>3, <1>4, <1>5, <1>6, <1>7, <1>8, <1>9, <1>10 DEF ConsoleNext

-----------------------------------------------------------------------------
(* The theorems.                                                           *)

(* The console keeps its invariant, for every set of spokes and protocols, *)
(* any number of commands and reads, and a channel of any capacity.        *)
THEOREM ConsoleInvariance == ConsoleSpec => []ConsoleInv
<1>1. ConsoleInit => ConsoleInv
  BY InitSafe
<1>2. ConsoleInv /\ [ConsoleNext]_consoleVars => ConsoleInv'
  BY NextSafe
<1> QED BY <1>1, <1>2, PTL DEF ConsoleSpec

(* Every screen is in a phase of its own and shows a command of this       *)
(* session, a channel never holds more than its capacity, and the menu     *)
(* keeps nothing of a screen.                                              *)
THEOREM ScreensTyped == ConsoleSpec => []ScreensTypeOK
<1>1. ASSUME ConsoleInv PROVE ScreensTypeOK
  <2>1. ShapeInv
    BY <1>1 DEF ConsoleInv
  <2>2. /\ flow.kind \in DOMAIN Phases /\ flow.phase \in Phases[flow.kind]
        /\ flow.ch \in Nat /\ flow.load \in Nat
        /\ flow.node \in Nodes \cup {Nil} /\ flow.proto \in Protos \cup {Nil}
        /\ flow.ch <= Len(runs) /\ flow.load <= MaxLoadID
    BY <2>1 DEF ShapeInv, Settled, Rests, IsScreen, Screen
  <2>3. flow.ch \in 0..Len(runs) /\ flow.load \in 0..MaxLoadID
    BY <2>1, <2>2, ConsoleAssumption DEF ShapeInv
  <2>4. suspended # Nil => suspended.phase \in Phases[suspended.kind]
    BY <2>1 DEF ShapeInv, Settled, Rests, IsScreen
  <2>5. \A r \in DOMAIN runs : Len(runs[r].chan) <= Cap /\ runs[r].waiters \in Nat
    BY <2>1, RunTyped DEF ShapeInv
  <2>6. (flow.kind = "menu" => flow = MainMenu) /\ replaced \in BOOLEAN /\ late \in BOOLEAN
    BY <2>1 DEF ShapeInv
  <2> QED BY <2>2, <2>3, <2>4, <2>5, <2>6 DEF ScreensTypeOK
<1> QED BY <1>1, ConsoleInvariance, PTL

(* A form that edits what a spoke holds shows the state of the spoke and   *)
(* the protocol the operator chose, whatever answer arrived late.          *)
THEOREM FormsShowChosenSpoke == ConsoleSpec => []FormShowsChosenSpoke
<1>1. ConsoleInv => FormShowsChosenSpoke
  BY DEF ConsoleInv, ShapeInv, Settled, Rests, Chosen, ChosenAt,
         FormShowsChosenSpoke
<1> QED BY <1>1, ConsoleInvariance, PTL

(* Every command still at work is the one of the open screen, which waits  *)
(* for its lines.                                                          *)
THEOREM RunsAreWatched == ConsoleSpec => []RunIsWatched
<1>1. ConsoleInv => RunIsWatched
  BY DEF ConsoleInv, LiveInv, Live, RunIsWatched
<1> QED BY <1>1, ConsoleInvariance, PTL

(* A screen that says its command completed, or failed, is right.          *)
THEOREM CompletionsAreTrue == ConsoleSpec => []CompletionIsTrue
<1>1. ConsoleInv => CompletionIsTrue
  BY DEF ConsoleInv, TruthInv, Truthful, CompletionIsTrue
<1> QED BY <1>1, ConsoleInvariance, PTL

(* A process whose binary a self-update replaced never shows the menu      *)
(* again.                                                                  *)
THEOREM ReplacedNeverShowsMenu == ConsoleSpec => []NoMenuAfterReplacement
<1>1. ConsoleInv => NoMenuAfterReplacement
  BY DEF ConsoleInv, ReplacedInv, NoMenuAfterReplacement
<1> QED BY <1>1, ConsoleInvariance, PTL

(* Certificate management, open on behalf of a screen, is followed by that *)
(* screen or by the end of the program.                                    *)
LEMMA ComesBack ==
    ASSUME ConsoleInv, [ConsoleNext]_consoleVars, suspended # Nil
    PROVE  \/ flow'.kind = "certificates" /\ suspended' = suspended
           \/ flow' = suspended /\ suspended' = Nil
           \/ flow'.kind = "quit"
<1>1. /\ ShapeInv /\ Rests(flow) /\ flow.kind = "certificates" /\ runs \in Seq(Run)
  BY DEF ConsoleInv, ShapeInv, Settled
<1>2. CASE Activate
  BY <1>1, <1>2 DEF Activate
<1>3. CASE Press
  <2>1. PICK k \in Keys : \E o \in handleKey(flow, k) :
          IF o.cmd = QuitCmd THEN Exit ELSE Leads(o)
    BY <1>3 DEF Press, Leads
  <2>2. PICK o \in handleKey(flow, k) : IF o.cmd = QuitCmd THEN Exit ELSE Leads(o)
    BY <2>1
  <2>3. Sound(flow, o)
    BY <1>1, <2>2, KeySound
  <2>4. CASE o.cmd = QuitCmd
    BY <2>2, <2>4, QuitRests DEF Exit
  <2>5. CASE o.cmd # QuitCmd
    <3>1. ~o.flow.ask /\ o.flow.kind = "certificates"
      BY <1>1, <2>3 DEF Sound
    <3>2. CASE o.done
      BY <1>1, <2>2, <2>5, <3>1, <3>2 DEF Leads, resumeSuspendedFlow
    <3>3. CASE ~o.done
      BY <2>2, <2>5, <3>1, <3>3 DEF Leads
    <3> QED BY <3>2, <3>3
  <2> QED BY <2>4, <2>5
<1>4. CASE CtrlC
  BY <1>4, QuitRests DEF CtrlC, Exit
<1>5. CASE Relaunch
  BY <1>1, <1>5 DEF Relaunch
<1>6. CASE Answer
  BY <1>1, <1>6 DEF Answer, handleLoad
<1>7. ASSUME NEW r \in DOMAIN runs, Deliver(r)
      PROVE  flow'.kind = "certificates" /\ suspended' = suspended
  <2>1. \E i \in 1..Len(runs[r].chan), w \in {0, flow.ch} :
          Reported(flow, flow', w, runs[r].chan[i])
    BY <1>1, <1>7, DeliverEffect
  <2> QED BY <1>1, <1>7, <2>1 DEF Reported, Deliver
<1>8. CASE flow' = flow /\ suspended' = suspended
  BY <1>1, <1>8
<1>9. ASSUME NEW r \in DOMAIN runs, PostEvent(r) \/ Commit(r) \/ \E ok \in BOOLEAN : Finish(r, ok)
      PROVE  flow' = flow /\ suspended' = suspended
  BY <1>9, Zenon DEF PostEvent, Commit, Finish
<1>10. CASE UNCHANGED consoleVars
  BY <1>1, <1>10 DEF consoleVars
<1> QED
  BY <1>2, <1>3, <1>4, <1>5, <1>6, <1>7, <1>8, <1>9, <1>10 DEF ConsoleNext

(* The screen that handed over to Certificate management is kept as it was *)
(* while that screen is open on its behalf, and is what follows it.        *)
THEOREM SuspendedReturns == ConsoleSpec => SuspendedComesBack
<1>1. ConsoleInv /\ [ConsoleNext]_consoleVars =>
        [suspended # Nil =>
           /\ flow.kind = "certificates" /\ flow.redirected
           /\ \/ flow'.kind = "certificates" /\ suspended' = suspended
              \/ flow' = suspended /\ suspended' = Nil
              \/ flow'.kind = "quit"]_consoleVars
  BY ComesBack DEF ConsoleInv, ShapeInv
<1> QED BY <1>1, ConsoleInvariance, PTL DEF ConsoleSpec, SuspendedComesBack

=============================================================================
