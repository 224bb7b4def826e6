---------------------------- MODULE MCEntryStore ----------------------------
(***************************************************************************)
(* The store with threads of one process and of two.                       *)
(***************************************************************************)
EXTENDS EntryStore, TLC
CONSTANTS t1, t2, t3, p1, p2
MCProcOf == [t \in Threads |-> IF t = t3 THEN p2 ELSE p1]
MCSymmetry == Permutations(Threads \ {t3}) \cup Permutations(Entries) \cup Permutations(Values)
=============================================================================
