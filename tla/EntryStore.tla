----------------------------- MODULE EntryStore -----------------------------
(***************************************************************************)
(* The entry-tree store of internal/state/entries.go.  Every registry of   *)
(* the hub (nodes, subscription groups, relay links, certificates, DNS     *)
(* credentials) is one directory tree that the TUI sessions, the monitor   *)
(* daemon and the certificate timer, which are separate processes, read    *)
(* and replace.  A thread takes the process-local RWMutex of the tree,     *)
(* then the advisory flock of the sibling .lock file, and works on the     *)
(* tree in several filesystem steps; each step may fail with an I/O error, *)
(* and a process may be killed between any two of them.                    *)
(*                                                                         *)
(* A tree maps an entry to its field files, here two observational fields; *)
(* an entry that is not in the tree is None.  Staging directories left by  *)
(* a crash are never read by anything and are not represented; backup      *)
(* directories are, because they may hold the only copy of a tree.         *)
(***************************************************************************)
EXTENDS Naturals, FiniteSets

CONSTANTS
    Threads,      \* goroutines that use the tree, of all processes
    Procs,        \* operating-system processes
    ProcOf,       \* the process of each thread
    Entries,      \* identities an entry can have
    Values,       \* contents of a field file
    None,         \* an entry that is not in the tree
    Missing,      \* a path at which no directory exists
    MaxFaults     \* bound on injected I/O errors and crashes

Fields == {"agent_version", "last_seen"}

ASSUME ThreadsHaveProcesses == ProcOf \in [Threads -> Procs]
ASSUME NoneIsNoEntry == None \notin [Fields -> Values]
ASSUME MissingIsNoTree == Missing \notin [Entries -> [Fields -> Values] \cup {None}]
ASSUME MaxFaultsIsNat == MaxFaults \in Nat

Entry == [Fields -> Values]
Tree  == [Entries -> Entry \cup {None}]
EmptyTree == [e \in Entries |-> None]

(***************************************************************************)
(* What a caller asks for: a shared read, a read-modify-write transaction  *)
(* (add an entry, remove one, rewrite one), or an in-place field update.   *)
(* A caller writes the fields of one moment together, so an entry whose    *)
(* fields disagree is one that was torn.                                   *)
(***************************************************************************)
NoOp == [kind |-> "none"]
Written == {[f \in Fields |-> v] : v \in Values}
Loads == {[kind |-> "load"]}
Transactions == [kind : {"add", "replace"}, entry : Entries, value : Written]
                  \cup [kind : {"remove"}, entry : Entries]
FieldUpdates == [kind : {"fields"}, entry : Entries, value : Written]
Ops == Loads \cup Transactions \cup FieldUpdates

VARIABLES
    dir,        \* what the tree's path holds: a tree, or Missing
    backup,     \* per thread, the tree it has moved aside, or Missing
    orphans,    \* trees left behind in backup directories nobody will reuse
    mu,         \* per thread, its hold on its process's RWMutex
    fl,         \* per thread, its hold on the flock
    pc,         \* per thread, the step it is at
    op,         \* per thread, the operation it is executing
    snap,       \* per thread, the tree it loaded under the lock
    next,       \* per thread, the replacement tree it stages
    todo,       \* per thread, the field files still to rewrite
    res,        \* per thread, the outcome its operation returns
    committed,  \* history: the tree the last completed replacement or field
                \* write left, which is what everybody should be looking at
    faults      \* number of injected faults so far

disk   == <<dir, backup, orphans, committed>>
locks  == <<mu, fl>>
local  == <<op, snap, next, todo, res>>
vars   == <<disk, locks, pc, local, faults>>

Steps == {"idle", "flock", "open", "stage", "commit",
          "restore", "drop", "fields", "unlock"}
LockModes == {"none", "shared", "exclusive"}
Outcomes == {"none", "ok", "err"}

(* Every variable keeps its type; only complete trees are ever at the      *)
(* tree's path, in a backup directory or left behind.                      *)
TypeOK ==
    /\ dir \in Tree \cup {Missing}
    /\ backup \in [Threads -> Tree \cup {Missing}]
    /\ orphans \subseteq Tree
    /\ mu \in [Threads -> LockModes]
    /\ fl \in [Threads -> LockModes]
    /\ pc \in [Threads -> Steps]
    /\ op \in [Threads -> Ops \cup {NoOp}]
    /\ snap \in [Threads -> Tree]
    /\ next \in [Threads -> Tree]
    /\ todo \in [Threads -> SUBSET Fields]
    /\ res \in [Threads -> Outcomes]
    /\ committed \in Tree
    /\ faults \in Nat

Init ==
    /\ dir = Missing
    /\ backup = [t \in Threads |-> Missing]
    /\ orphans = {}
    /\ mu = [t \in Threads |-> "none"]
    /\ fl = [t \in Threads |-> "none"]
    /\ pc = [t \in Threads |-> "idle"]
    /\ op = [t \in Threads |-> NoOp]
    /\ snap = [t \in Threads |-> EmptyTree]
    /\ next = [t \in Threads |-> EmptyTree]
    /\ todo = [t \in Threads |-> {}]
    /\ res = [t \in Threads |-> "none"]
    /\ committed = EmptyTree
    /\ faults = 0

-----------------------------------------------------------------------------
(* What the operations compute.                                            *)

(* os.ReadDir on a path that does not exist reads as no entries.           *)
loadEntryDirsUnlocked(d) == IF d = Missing THEN EmptyTree ELSE d

SharedFieldUpdates(o) == IF o.kind \in {"load", "fields"} THEN "shared" ELSE "exclusive"

Mode(o) == IF o.kind = "load" THEN "shared" ELSE "exclusive"

(* The mutate callback: whether it returns an error, and the tree it wants *)
(* written.  Removing an entry that is not there is not an error.          *)
MutateOk(o, tree) ==
    CASE o.kind = "add"     -> tree[o.entry] = None
      [] o.kind = "replace" -> tree[o.entry] # None
      [] OTHER              -> TRUE

Mutate(o, tree) ==
    IF o.kind = "remove" THEN [tree EXCEPT ![o.entry] = None]
                         ELSE [tree EXCEPT ![o.entry] = o.value]

Holds(t, mode) == fl[t] = mode /\ mu[t] = mode

-----------------------------------------------------------------------------
(* Locking.                                                                *)

(* A call begins with lock.RLock() or lock.Lock() on the process-wide      *)
(* mutex of the tree; a caller blocked there has done nothing yet.         *)
LockMutex(t, o) ==
    /\ pc[t] = "idle"
    /\ \A u \in Threads \ {t} :
          ProcOf[u] = ProcOf[t] =>
             \/ mu[u] = "none"
             \/ mu[u] = "shared" /\ Mode(o) = "shared"
    /\ mu' = [mu EXCEPT ![t] = Mode(o)]
    /\ op' = [op EXCEPT ![t] = o]
    /\ pc' = [pc EXCEPT ![t] = "flock"]
    /\ UNCHANGED <<disk, fl, snap, next, todo, res, faults>>

LockFileOnly(t) ==
    /\ pc[t] = "flock"
    /\ fl' = [fl EXCEPT ![t] = Mode(op[t])]
    /\ pc' = [pc EXCEPT ![t] = "open"]
    /\ UNCHANGED <<disk, mu, local, faults>>

(* syscall.Flock: shared among readers, exclusive for writers, across      *)
(* every process of the host.                                              *)
lockEntryTree(t) ==
    /\ pc[t] = "flock"
    /\ \A u \in Threads \ {t} :
          \/ fl[u] = "none"
          \/ fl[u] = "shared" /\ Mode(op[t]) = "shared"
    /\ fl' = [fl EXCEPT ![t] = Mode(op[t])]
    /\ pc' = [pc EXCEPT ![t] = "open"]
    /\ UNCHANGED <<disk, mu, local, faults>>

(* An operation is over for its caller: the outcome is known and only the  *)
(* deferred unlocks are left.                                              *)
Return(t, outcome) ==
    /\ pc' = [pc EXCEPT ![t] = "unlock"]
    /\ res' = [res EXCEPT ![t] = outcome]

Fault == /\ faults < MaxFaults
         /\ faults' = faults + 1

(* The .lock file cannot be opened or locked.                              *)
LockFails(t) ==
    /\ pc[t] = "flock"
    /\ Fault
    /\ Return(t, "err")
    /\ UNCHANGED <<disk, locks, op, snap, next, todo>>

(* The local variables of a call go with its stack frame.                  *)
Forget(T) ==
    /\ op' = [t \in Threads |-> IF t \in T THEN NoOp ELSE op[t]]
    /\ snap' = [t \in Threads |-> IF t \in T THEN EmptyTree ELSE snap[t]]
    /\ next' = [t \in Threads |-> IF t \in T THEN EmptyTree ELSE next[t]]
    /\ todo' = [t \in Threads |-> IF t \in T THEN {} ELSE todo[t]]
    /\ res' = [t \in Threads |-> IF t \in T THEN "none" ELSE res[t]]

(* The deferred unlockEntryTree and lock.Unlock.                           *)
Unlock(t) ==
    /\ pc[t] = "unlock"
    /\ mu' = [mu EXCEPT ![t] = "none"]
    /\ fl' = [fl EXCEPT ![t] = "none"]
    /\ pc' = [pc EXCEPT ![t] = "idle"]
    /\ Forget({t})
    /\ UNCHANGED <<disk, faults>>

-----------------------------------------------------------------------------
(* LoadEntryDirs, and the load and mutate of TransactEntryDirs.            *)

LoadEntryDirs(t) ==
    /\ pc[t] = "open" /\ op[t].kind = "load"
    /\ snap' = [snap EXCEPT ![t] = loadEntryDirsUnlocked(dir)]
    /\ Return(t, "ok")
    /\ UNCHANGED <<disk, locks, op, next, todo, faults>>

LoadForTransact(t) ==
    /\ pc[t] = "open" /\ op[t] \in Transactions
    /\ LET tree == loadEntryDirsUnlocked(dir)
       IN /\ snap' = [snap EXCEPT ![t] = tree]
          /\ IF MutateOk(op[t], tree)
               THEN /\ next' = [next EXCEPT ![t] = Mutate(op[t], tree)]
                    /\ pc' = [pc EXCEPT ![t] = "stage"]
                    /\ UNCHANGED res
               ELSE /\ Return(t, "err")
                    /\ UNCHANGED next
    /\ UNCHANGED <<disk, locks, op, todo, faults>>

ReadFails(t) ==
    /\ pc[t] = "open"
    /\ Fault
    /\ Return(t, "err")
    /\ UNCHANGED <<disk, locks, op, snap, next, todo>>

-----------------------------------------------------------------------------
(* saveEntryDirsUnlocked: stage, move aside, commit, drop the backup.      *)

(* The staging directory is private to the thread; a failure to build it,  *)
(* or to move the old tree aside, leaves the old tree where it was.        *)
StageFails(t) ==
    /\ pc[t] = "stage"
    /\ Fault
    /\ Return(t, "err")
    /\ UNCHANGED <<disk, locks, op, snap, next, todo>>

(* The staged tree is complete; rename(dir, backup) when dir exists.       *)
MoveAside(t) ==
    /\ pc[t] = "stage"
    /\ backup' = [backup EXCEPT ![t] = dir]
    /\ dir' = Missing
    /\ pc' = [pc EXCEPT ![t] = "commit"]
    /\ UNCHANGED <<orphans, committed, locks, local, faults>>

CommitTree(t) ==
    /\ pc[t] = "commit"
    /\ dir' = next[t]
    /\ committed' = next[t]
    /\ pc' = [pc EXCEPT ![t] = "drop"]
    /\ UNCHANGED <<backup, orphans, locks, local, faults>>

CommitFailsIgnoringHadPrevious(t) ==
    /\ pc[t] = "commit"
    /\ Fault
    /\ pc' = [pc EXCEPT ![t] = "restore"]
    /\ UNCHANGED <<disk, locks, op, snap, next, todo, res>>

CommitFailsWithoutRestore(t) ==
    /\ pc[t] = "commit"
    /\ Fault
    /\ backup' = [backup EXCEPT ![t] = Missing]
    /\ Return(t, "err")
    /\ UNCHANGED <<dir, orphans, committed, locks, op, snap, next, todo>>

(* The second rename fails.  Without a previous tree that is the end of    *)
(* it; otherwise the previous tree is renamed back.                        *)
CommitFails(t) ==
    /\ pc[t] = "commit"
    /\ Fault
    /\ IF backup[t] = Missing
         THEN Return(t, "err")
         ELSE /\ pc' = [pc EXCEPT ![t] = "restore"]
              /\ UNCHANGED res
    /\ UNCHANGED <<disk, locks, op, snap, next, todo>>

RestoreTree(t) ==
    /\ pc[t] = "restore"
    /\ dir' = backup[t]
    /\ backup' = [backup EXCEPT ![t] = Missing]
    /\ Return(t, "err")
    /\ UNCHANGED <<orphans, committed, locks, op, snap, next, todo, faults>>

RestoreFailsAndCleans(t) ==
    /\ pc[t] = "restore"
    /\ Fault
    /\ backup' = [backup EXCEPT ![t] = Missing]
    /\ Return(t, "err")
    /\ UNCHANGED <<dir, orphans, committed, locks, op, snap, next, todo>>

(* cleanupBackup = false: the backup stays where it is, for the operator.  *)
RestoreFails(t) ==
    /\ pc[t] = "restore"
    /\ Fault
    /\ orphans' = orphans \cup {backup[t]}
    /\ backup' = [backup EXCEPT ![t] = Missing]
    /\ Return(t, "err")
    /\ UNCHANGED <<dir, committed, locks, op, snap, next, todo>>

DropBackup(t) ==
    /\ pc[t] = "drop"
    /\ backup' = [backup EXCEPT ![t] = Missing]
    /\ Return(t, "ok")
    /\ UNCHANGED <<dir, orphans, committed, locks, op, snap, next, todo, faults>>

(* RemoveAll of the backup fails: an error is returned although the new    *)
(* tree is in place; what is left of the backup is no longer of use.       *)
DropBackupFails(t) ==
    /\ pc[t] = "drop"
    /\ backup[t] # Missing
    /\ Fault
    /\ backup' = [backup EXCEPT ![t] = Missing]
    /\ Return(t, "err")
    /\ UNCHANGED <<dir, orphans, committed, locks, op, snap, next, todo>>

-----------------------------------------------------------------------------
(* UpdateEntryFields: rewrite the changed field files in place, in the     *)
(* random order of a Go map, each with its own atomic rename.              *)

UpdateEntryFields(t) ==
    /\ pc[t] = "open" /\ op[t] \in FieldUpdates
    /\ LET tree == loadEntryDirsUnlocked(dir)
           cur  == tree[op[t].entry]
       IN /\ snap' = [snap EXCEPT ![t] = tree]
          /\ IF cur = None                             \* ErrEntryNotFound
               THEN /\ Return(t, "err")
                    /\ UNCHANGED todo
               ELSE /\ todo' = [todo EXCEPT ![t] = {f \in Fields : cur[f] # op[t].value[f]}]
                    /\ pc' = [pc EXCEPT ![t] = "fields"]
                    /\ UNCHANGED res
    /\ UNCHANGED <<disk, locks, op, next, faults>>

WriteField(t, f) ==
    /\ pc[t] = "fields" /\ f \in todo[t]
    /\ dir' = [dir EXCEPT ![op[t].entry][f] = op[t].value[f]]
    /\ committed' = dir'
    /\ todo' = [todo EXCEPT ![t] = @ \ {f}]
    /\ UNCHANGED <<backup, orphans, locks, pc, op, snap, next, res, faults>>

FieldsDone(t) ==
    /\ pc[t] = "fields" /\ todo[t] = {}
    /\ Return(t, "ok")
    /\ UNCHANGED <<disk, locks, op, snap, next, todo, faults>>

WriteFieldFails(t) ==
    /\ pc[t] = "fields" /\ todo[t] # {}
    /\ Fault
    /\ Return(t, "err")
    /\ todo' = [todo EXCEPT ![t] = {}]
    /\ UNCHANGED <<disk, locks, op, snap, next>>

-----------------------------------------------------------------------------
(* A process dies: the kernel drops its flocks, its mutexes go with its    *)
(* memory, and whatever it had moved aside stays in its backup directory.  *)
(* A restarted process begins with idle threads; nothing in the program    *)
(* looks for a backup directory left by an earlier one.                    *)

InCrash(p) == {t \in Threads : ProcOf[t] = p}

Crash(p) ==
    /\ \E t \in InCrash(p) : pc[t] # "idle"
    /\ Fault
    /\ orphans' = orphans \cup {backup[t] : t \in {u \in InCrash(p) : backup[u] # Missing}}
    /\ backup' = [t \in Threads |-> IF t \in InCrash(p) THEN Missing ELSE backup[t]]
    /\ mu' = [t \in Threads |-> IF t \in InCrash(p) THEN "none" ELSE mu[t]]
    /\ fl' = [t \in Threads |-> IF t \in InCrash(p) THEN "none" ELSE fl[t]]
    /\ pc' = [t \in Threads |-> IF t \in InCrash(p) THEN "idle" ELSE pc[t]]
    /\ Forget(InCrash(p))
    /\ UNCHANGED <<dir, committed>>

-----------------------------------------------------------------------------
Step(t) ==
    \/ lockEntryTree(t) \/ Unlock(t)
    \/ LoadEntryDirs(t) \/ LoadForTransact(t)
    \/ MoveAside(t) \/ CommitTree(t)
    \/ RestoreTree(t) \/ DropBackup(t)
    \/ UpdateEntryFields(t) \/ FieldsDone(t)
    \/ \E f \in Fields : WriteField(t, f)

Failure(t) ==
    \/ LockFails(t) \/ ReadFails(t) \/ StageFails(t) \/ CommitFails(t)
    \/ RestoreFails(t) \/ DropBackupFails(t) \/ WriteFieldFails(t)

Next ==
    \/ \E t \in Threads, o \in Ops : LockMutex(t, o)
    \/ \E t \in Threads : Step(t) \/ Failure(t)
    \/ \E p \in Procs : Crash(p)

Spec == Init /\ [][Next]_vars

-----------------------------------------------------------------------------
(* Properties.                                                             *)

(* The tree everybody agrees on: during a swap it is the one moved aside.  *)
Swapping == {t \in Threads : pc[t] \in {"commit", "restore"} /\ backup[t] # Missing}
Logical == IF Swapping # {} THEN backup[CHOOSE t \in Swapping : TRUE]
                            ELSE loadEntryDirsUnlocked(dir)

(* TransactEntryDirs: the tree a transaction is about to replace is the    *)
(* tree it loaded, whatever the threads of this and of other processes did *)
(* in between, so that no committed update is overwritten by a stale one;  *)
(* and a transaction that reports success still has its tree in place.     *)
NoLostUpdate ==
    \A t \in Threads :
        /\ pc[t] \in {"stage", "commit", "restore"} => Logical = snap[t]
        /\ pc[t] = "unlock" /\ op[t] \in Transactions /\ res[t] = "ok" => dir = next[t]

(* SaveEntryDirs: "a build or commit failure leaves the previous tree      *)
(* intact".  After any sequence of failed renames and crashes the last     *)
(* committed tree is still on disk in full: at the tree's path, in the     *)
(* backup directory of a running swap, or in one left for the operator.    *)
CommittedTreeOnDisk ==
    \/ loadEntryDirsUnlocked(dir) = committed
    \/ committed \in orphans
    \/ \E t \in Threads : backup[t] = committed /\ pc[t] \in {"commit", "restore"}

(* LoadEntryDirs holds the shared locks while it reads: it never meets the *)
(* gap between the two renames of a replacement nor half of a field        *)
(* update.  Only what an earlier I/O error or crash left behind shows: a   *)
(* tree that was set aside, or an entry whose field update was cut short.  *)
Whole(tree) == \A e \in Entries : tree[e] = None \/ tree[e] \in Written

ReadersSeeWholeTrees ==
    \A t \in Threads : Holds(t, "shared") =>
        \/ loadEntryDirsUnlocked(dir) = committed /\ (Whole(committed) \/ faults > 0)
        \/ dir = Missing /\ committed \in orphans

(* The refinement mapping: callers see the mapped tree, and the backups    *)
(* that failures and crashes left behind.                                  *)
Atomic == INSTANCE AtomicTree WITH tree <- Logical, archive <- orphans

(* The store implements the atomic one: whatever the interleaving, the     *)
(* tree changes by whole transactions computed from its current value.     *)
RefinesAtomicTree == Atomic!Spec
=============================================================================
