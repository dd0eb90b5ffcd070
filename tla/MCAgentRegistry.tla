--------------------------- MODULE MCAgentRegistry ---------------------------
(***************************************************************************)
(* Instance of AgentRegistry for TLC: an agent that connects up to three   *)
(* times, with different schemas or none, and another that connects once.  *)
(***************************************************************************)
EXTENDS AgentRegistry

CONSTANTS x1, x2, x3, y1, xavier, yann, translate, summarize

MCConns == {x1, x2, x3, y1}
MCAgentOf == [c \in Conns |-> IF c = y1 THEN yann ELSE xavier]
MCSchemasOf == [c \in Conns |->
    IF c = x1 THEN {translate, summarize}
    ELSE IF c = x3 THEN {} ELSE {summarize}]
=============================================================================
