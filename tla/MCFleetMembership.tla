------------------------- MODULE MCFleetMembership -------------------------
(***************************************************************************)
(* Two operators and three machines: one that answers to two host names,   *)
(* one fresh, and one that runs a deployment of its own.  Two node IDs let *)
(* a machine be removed and added again with the key it kept, while the    *)
(* first removal is still at work; two failures let a step and its clean-  *)
(* up fail.  The runs that look for a disagreement take three IDs.         *)
(***************************************************************************)
EXTENDS FleetMembership, TLC
CONSTANTS h1, h1b, h2, h3, s1, s2, s3
MCHostOf == [h \in Hosts |-> CASE h \in {h1, h1b} -> s1 [] h = h2 -> s2 [] OTHER -> s3]
MCSymmetry == Permutations(Operators) \cup Permutations(Ids)
                \cup Permutations({h1, h1b})
=============================================================================
