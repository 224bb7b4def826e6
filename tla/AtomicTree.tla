----------------------------- MODULE AtomicTree -----------------------------
(***************************************************************************)
(* What the entry-tree store promises its callers (TransactEntryDirs,      *)
(* UpdateEntryFields and LoadEntryDirs of internal/state/entries.go): the  *)
(* registry is one value.  A transaction replaces it in one step by what   *)
(* its callback computes from the current value, a field update changes    *)
(* one field file of one entry, and the value can disappear only by being  *)
(* set aside whole, in a backup directory from which it can be put back.   *)
(***************************************************************************)
EXTENDS Naturals

CONSTANTS Entries, Values, None

Fields == {"agent_version", "last_seen"}
Entry == [Fields -> Values]
Tree == [Entries -> Entry \cup {None}]
EmptyTree == [e \in Entries |-> None]

VARIABLES tree, archive

Init == tree = EmptyTree /\ archive = {}

Add(e, value) ==
    /\ tree[e] = None
    /\ tree' = [tree EXCEPT ![e] = value]
    /\ UNCHANGED archive

Replace(e, value) ==
    /\ tree[e] # None
    /\ tree' = [tree EXCEPT ![e] = value]
    /\ UNCHANGED archive

Remove(e) ==
    /\ tree' = [tree EXCEPT ![e] = None]
    /\ UNCHANGED archive

UpdateField(e, f, v) ==
    /\ tree[e] # None
    /\ tree' = [tree EXCEPT ![e][f] = v]
    /\ UNCHANGED archive

SetAside ==
    /\ archive' = archive \cup {tree}
    /\ tree' = EmptyTree

(* A tree that was already replaced is left behind; nobody reads it.       *)
LeaveBehind(old) ==
    /\ archive' = archive \cup {old}
    /\ UNCHANGED tree

Next ==
    \/ \E e \in Entries, value \in Entry : Add(e, value) \/ Replace(e, value)
    \/ \E e \in Entries : Remove(e)
    \/ \E e \in Entries, f \in Fields, v \in Values : UpdateField(e, f, v)
    \/ SetAside
    \/ \E old \in Tree : LeaveBehind(old)

Spec == Init /\ [][Next]_<<tree, archive>>
=============================================================================
