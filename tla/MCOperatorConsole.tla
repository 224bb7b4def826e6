------------------------- MODULE MCOperatorConsole -------------------------
(***************************************************************************)
(* The instance of OperatorConsole for TLC: two spokes and one protocol to *)
(* choose from, so that a late answer can be the one of another choice, a  *)
(* channel of one message, so that an unread line stops its goroutine, and *)
(* room for two commands and background reads together.                    *)
(***************************************************************************)
EXTENDS OperatorConsole

CONSTANTS n1, n2, p1
MCNodes == {n1, n2}
MCProtos == {p1}
=============================================================================
