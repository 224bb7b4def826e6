---------------------------- MODULE MCFleetUpdate ----------------------------
(* Two consoles, two spokes, two releases of each program.                 *)
EXTENDS FleetUpdate
CONSTANTS p1, p2, s1, s2, c1, c2
MCSpokeOrder == <<s1, s2>>
=============================================================================
