-------------------------- MODULE MCRedisTaskQueue --------------------------
(***************************************************************************)
(* Instances of RedisTaskQueue for TLC: a task of the tenant that is       *)
(* served and an urgent one of another tenant; or the former alone.        *)
(***************************************************************************)
EXTENDS RedisTaskQueue, TLC

CONSTANTS ours, foreign, w1, w2

MCTasks == {ours, foreign}
MCLevel == [t \in Tasks |-> IF t = foreign THEN 1 ELSE 2]
MCOurs == {ours}
MCOurLevel == [t \in Tasks |-> 1]
MCWorkers == {w1, w2}
MCSymmetry == Permutations(MCWorkers)
=============================================================================
