---------------------------- MODULE MCNegotiation ----------------------------
(***************************************************************************)
(* Instance of Negotiation for TLC: two agents that broadcast to each      *)
(* other, and a third one that only serves.  The first broadcast needs two *)
(* agents or (an empty plan) none; the third agent may offer twice.       *)
(***************************************************************************)
EXTENDS Negotiation

CONSTANTS a, b, c, sa, sb

MCRequester == [s \in Sessions |-> IF s = sa THEN a ELSE b]
MCMaxOffers == [p \in Agents |-> IF p = c THEN 2 ELSE 1]
MCPlans == [s \in Sessions |-> IF s = sa THEN {{}, {b, c}} ELSE {{a}}]
=============================================================================
