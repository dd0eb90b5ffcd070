--------------------------- MODULE MCEventStream ---------------------------
(***************************************************************************)
(* Instance of EventStream for TLC: one session with two executions; one   *)
(* connection subscribes to the session, the other to the first of them.   *)
(***************************************************************************)
EXTENDS EventStream

CONSTANTS flow, first, second, watcher, follower

MCConns == {watcher, follower}
MCTopics == {[session |-> flow, exec |-> NoExec], [session |-> flow, exec |-> first]}
MCIds == {<<watcher, [session |-> flow, exec |-> NoExec]>>,
          <<follower, [session |-> flow, exec |-> first]>>}
MCMaxSubs == [i \in Ids |-> IF i[1] = watcher THEN 2 ELSE 1]
MCKinds == {[session |-> flow, exec |-> first], [session |-> flow, exec |-> second]}
=============================================================================
