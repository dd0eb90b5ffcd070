---------------------------- MODULE MCStreaming ----------------------------
(***************************************************************************)
(* Instance of Streaming for TLC: two providers stream to one requester,  *)
(* one of them a single message.                                           *)
(***************************************************************************)
EXTENDS Streaming

CONSTANTS asker, streamer, other

MCProviders == {streamer, other}
MCRequesterOf == [p \in Providers |-> asker]
MCMessages == [p \in Providers |-> IF p = streamer THEN 2 ELSE 1]
=============================================================================
