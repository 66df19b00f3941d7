---------------------------- MODULE MCAgentTurn ----------------------------
(* A search (parallel-safe, as tools.search is), a hidden tool that must    *)
(* run alone, and a name the registry does not know.                        *)
EXTENDS AgentTurn

MCReveals == [s \in Search |-> Discoverable]
=============================================================================
