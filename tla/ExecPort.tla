------------------------------ MODULE ExecPort ------------------------------
(***************************************************************************)
(* What the port of execution records (src/storage/ports.py, ExecStore)    *)
(* promises: a call looks and acts at one moment.  put_if_absent returns   *)
(* the record that has the idempotency key, else the one that has the      *)
(* exec_id, and creates one only if there is neither; set_status updates a *)
(* record that exists.  An answer may also be lost: the call raises        *)
(* because of what is there, or its client crashes, and changes nothing.   *)
(***************************************************************************)
CONSTANTS Puts, Updates, ExecIds, Keys, NoId, ExecOf, KeyOf

VARIABLES
    stored,    \* the executions that have a record
    updates,   \* of each record, the updates that its fields show
    answer,    \* what a call of put_if_absent returned
    stage      \* where a call is: new, done or lost

portVars == <<stored, updates, answer, stage>>

PortInit ==
    /\ stored = {}
    /\ updates = [x \in ExecIds |-> {}]
    /\ answer = [p \in Puts |-> [exec |-> NoId, created |-> FALSE]]
    /\ stage = [c \in Puts \cup Updates |-> "new"]

\* The records that share the key of x, and those that stand in its way.
OfKey(x) == {y \in stored : KeyOf[y] \in Keys /\ KeyOf[y] = KeyOf[x]}

Matching(x) == OfKey(x) \cup (stored \cap {x})

Ends(c, s) == stage[c] = "new" /\ stage' = [stage EXCEPT ![c] = s]

Create(p) ==
    /\ Ends(p, "done")
    /\ Matching(ExecOf[p]) = {}
    /\ stored' = stored \cup {ExecOf[p]}
    /\ updates' = [updates EXCEPT ![ExecOf[p]] = {}]
    /\ answer' = [answer EXCEPT ![p] = [exec |-> ExecOf[p], created |-> TRUE]]

\* The record of the key comes first.
ReturnExisting(p, x) ==
    /\ Ends(p, "done")
    /\ x \in Matching(ExecOf[p])
    /\ OfKey(ExecOf[p]) # {} => x \in OfKey(ExecOf[p])
    /\ answer' = [answer EXCEPT ![p] = [exec |-> x, created |-> FALSE]]
    /\ UNCHANGED <<stored, updates>>

\* What was created meanwhile makes the call raise.
Raise(p) ==
    /\ Ends(p, "done")
    /\ Matching(ExecOf[p]) # {}
    /\ UNCHANGED <<stored, updates, answer>>

Write(u) ==
    /\ Ends(u, "done")
    /\ ExecOf[u] \in stored
    /\ updates' = [updates EXCEPT ![ExecOf[u]] = @ \cup {u}]
    /\ UNCHANGED <<stored, answer>>

Lose(c) ==
    /\ Ends(c, "lost")
    /\ UNCHANGED <<stored, updates, answer>>

PortNext ==
    \/ \E p \in Puts : Create(p) \/ Raise(p)
    \/ \E p \in Puts, x \in ExecIds : ReturnExisting(p, x)
    \/ \E u \in Updates : Write(u)
    \/ \E c \in Puts \cup Updates : Lose(c)

PortSpec == PortInit /\ [][PortNext]_portVars
=============================================================================
