--------------------------- MODULE MCAgentHandler ---------------------------
(***************************************************************************)
(* Two requests at a time, two AddNode transactions and three versions, so *)
(* that one upgrade can follow another, onwards or back.                   *)
(***************************************************************************)
EXTENDS AgentHandler
=============================================================================
