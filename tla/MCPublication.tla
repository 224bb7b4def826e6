---------------------------- MODULE MCPublication ----------------------------
(* Two operators, the timer, the hub and two spokes, two groups.            *)
EXTENDS Publication, TLC
CONSTANTS a, b, hub, g1, g2, s1, s2, c1, c2, r1, r2

\* The operators do the same things, and relay ports are only compared.
Symmetry == Permutations({c1, c2}) \cup Permutations({r1, r2})

\* A link to each spoke, one that could chain or clash with it, its removal;
\* the landing node's port; the other spoke leaving and coming; both groups.
MCChanges ==
    {[kind |-> "link", landing |-> a, relay |-> hub],
     [kind |-> "link", landing |-> b, relay |-> hub],
     [kind |-> "link", landing |-> a, relay |-> b],
     [kind |-> "unlink", landing |-> a],
     [kind |-> "port", node |-> a, port |-> 0],
     [kind |-> "remove", node |-> b],
     [kind |-> "add", node |-> b, ids |-> {g1}],
     [kind |-> "group", id |-> g2, salt |-> s2, members |-> {b}],
     [kind |-> "group", id |-> g1, salt |-> s2, members |-> {hub, a}],
     [kind |-> "ungroup", id |-> g1]}
=============================================================================
