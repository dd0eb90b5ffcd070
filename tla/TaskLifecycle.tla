--------------------------- MODULE TaskLifecycle ---------------------------
(***************************************************************************)
(* What the queue interface (src/queue/ports.py, TaskQueue, TaskStatus and *)
(* TaskPayload) promises about the life of a task, without heap, clock,    *)
(* locks or workers: a task is submitted once, is taken by one taker at a  *)
(* time, is given up only after max_retries retries, and stays where it    *)
(* ended.  "dropped" stands for CANCELLED and EXPIRED alike: the two ends  *)
(* of a task that is not to be executed (any more).                        *)
(***************************************************************************)
EXTENDS Integers

CONSTANTS Tasks, MaxRetries

VARIABLES
    stage,     \* where each task is in its life
    attempts   \* how many times it was handed to a taker

lifeVars == <<stage, attempts>>

Stages == {"new", "queued", "taken", "done", "failed", "dropped"}

Queued == {t \in Tasks : stage[t] = "queued"}

LifeInit ==
    /\ stage = [t \in Tasks |-> "new"]
    /\ attempts = [t \in Tasks |-> 0]

Submit(t) ==
    /\ stage[t] = "new"
    /\ stage' = [stage EXCEPT ![t] = "queued"]
    /\ UNCHANGED attempts

\* A taker looks for work: tasks it finds cancelled or too old are dropped.
Drop(S) ==
    /\ S # {}
    /\ S \subseteq Queued
    /\ stage' = [t \in Tasks |-> IF t \in S THEN "dropped" ELSE stage[t]]
    /\ UNCHANGED attempts

Take(t, S) ==
    /\ S \subseteq Queued
    /\ t \in Queued \ S
    /\ stage' = [u \in Tasks |->
                    IF u = t THEN "taken" ELSE IF u \in S THEN "dropped" ELSE stage[u]]
    /\ attempts' = [attempts EXCEPT ![t] = @ + 1]

Finish(t) ==
    /\ stage[t] = "taken"
    /\ stage' = [stage EXCEPT ![t] = "done"]
    /\ UNCHANGED attempts

Retry(t) ==
    /\ stage[t] = "taken"
    /\ attempts[t] <= MaxRetries
    /\ stage' = [stage EXCEPT ![t] = "queued"]
    /\ UNCHANGED attempts

GiveUp(t) ==
    /\ stage[t] = "taken"
    /\ attempts[t] = MaxRetries + 1
    /\ stage' = [stage EXCEPT ![t] = "failed"]
    /\ UNCHANGED attempts

LifeNext ==
    \/ \E t \in Tasks : Submit(t) \/ Finish(t) \/ Retry(t) \/ GiveUp(t)
    \/ \E S \in SUBSET Tasks : Drop(S)
    \/ \E t \in Tasks : \E S \in SUBSET Tasks : Take(t, S)

LifeSpec == LifeInit /\ [][LifeNext]_lifeVars
=============================================================================
