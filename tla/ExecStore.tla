----------------------------- MODULE ExecStore -----------------------------
(***************************************************************************)
(* The execution records of the storage adapters: the port ExecStore       *)
(* (src/storage/ports.py) and its implementations in memory (memory.py),   *)
(* in SQL (sqlalchemy.py) and in Redis (redis.py).                         *)
(*                                                                         *)
(* The port promises idempotency: an execution is recorded once, and so is *)
(* everything that is submitted under one idempotency key.  In memory an   *)
(* operation runs under a lock.  In SQL it is a transaction that looks     *)
(* first and inserts when it commits, where the primary key and the unique *)
(* idempotency_key can make it fail.  In Redis it is a sequence of         *)
(* commands, each of which is a step; keys expire; and with both, a client *)
(* may crash in between.                                                   *)
(*                                                                         *)
(* Records of one session are considered, so that the session in the keys  *)
(* of Redis makes no difference; the index by session, which only          *)
(* list_by_session reads, is left out.                                     *)
(***************************************************************************)
EXTENDS Integers, FiniteSets

CONSTANTS
    Puts,       \* calls of put_if_absent
    Updates,    \* calls of set_status
    ExecIds,    \* exec_id of the records
    Keys,       \* the idempotency keys
    NoKey,      \* idempotency_key of a record without one
    NoId,       \* no exec_id
    ExecOf,     \* the exec_id that a call submits or updates
    KeyOf,      \* the idempotency_key of the record of an execution
    MaxFaults   \* bound: how many keys expire and clients crash

Adapters == {"memory", "sql", "redis"}

ASSUME ExecAssumption ==
    /\ NoKey \notin Keys /\ NoId \notin ExecIds
    /\ ExecOf \in [Puts \cup Updates -> ExecIds] /\ Puts \cap Updates = {}
    /\ KeyOf \in [ExecIds -> Keys \cup {NoKey}]
    /\ MaxFaults \in Nat

VARIABLES
    adapter,   \* the implementation that is configured
    stored,    \* the executions that have a record
    updates,   \* of each record, the updates that its fields show
    by_key,    \* the execution that an idempotency key leads to
    pc,        \* where a call is
    answer,    \* the exec_id of the record that a call of put_if_absent found or
               \* returned, and whether it says that it created the record
    copy,      \* the updates in the record that a call of set_status has read
    expired,   \* the executions and keys that have expired
    faults,    \* how many expired, and how many clients crashed
    before     \* auxiliary: the answers that had been returned when a call began

recordVars == <<stored, updates, by_key>>
execVars == <<adapter, recordVars, pc, answer, copy, expired, faults, before>>

Nothing == [exec |-> NoId, created |-> FALSE]
Existing(x) == [exec |-> x, created |-> FALSE]
Created(x) == [exec |-> x, created |-> TRUE]

ExecInit ==
    /\ adapter \in Adapters
    /\ stored = {}
    /\ updates = [x \in ExecIds |-> {}]
    /\ by_key = [k \in Keys |-> NoId]
    /\ pc = [c \in Puts \cup Updates |-> "new"]
    /\ answer = [p \in Puts |-> Nothing]
    /\ copy = [u \in Updates |-> {}]
    /\ expired = {} /\ faults = 0
    /\ before = [p \in Puts |-> {}]

-----------------------------------------------------------------------------
(* put_if_absent.                                                          *)

\* Where the key of the record of x leads.
ByKey(x) == IF KeyOf[x] \in Keys THEN by_key[KeyOf[x]] ELSE NoId

\* The record that a put of x finds, by key first, then by id.
Found(x) ==
    IF ByKey(x) \in stored THEN ByKey(x) ELSE IF x \in stored THEN x ELSE NoId

Index(x) == by_key' = [k \in Keys |-> IF k = KeyOf[x] THEN x ELSE by_key[k]]

Insert(x) ==
    /\ stored' = stored \cup {x}
    /\ updates' = [updates EXCEPT ![x] = {}]

Goto(c, label) == pc' = [pc EXCEPT ![c] = label]

Return(p, a) ==
    /\ Goto(p, "done")
    /\ answer' = [answer EXCEPT ![p] = a]

Begin(p) ==
    /\ pc[p] = "new"
    /\ before' = [before EXCEPT ![p] = {answer[q] : q \in {q \in Puts : pc[q] = "done"}}]

\* In memory, under the lock.
MemoryPut(p) ==
    /\ adapter = "memory" /\ Begin(p)
    /\ LET x == ExecOf[p] IN
       IF Found(x) # NoId
       THEN Return(p, Existing(Found(x))) /\ UNCHANGED recordVars
       ELSE Return(p, Created(x)) /\ Insert(x) /\ Index(x)
    /\ UNCHANGED <<adapter, copy, expired, faults>>

\* In SQL, the transaction's two queries ...
SqlLook(p) ==
    /\ adapter = "sql" /\ Begin(p)
    /\ IF Found(ExecOf[p]) # NoId
       THEN Return(p, Existing(Found(ExecOf[p])))
       ELSE Goto(p, "inserting") /\ UNCHANGED answer
    /\ UNCHANGED <<adapter, recordVars, copy, expired, faults>>

\* Mutant of SqlInsert: without the unique constraint on idempotency_key.
SqlInsert_not_unique(p) ==
    /\ adapter = "sql" /\ pc[p] = "inserting"
    /\ LET x == ExecOf[p] IN
       IF x \in stored
       THEN Return(p, Nothing) /\ UNCHANGED recordVars
       ELSE Return(p, Created(x)) /\ Insert(x) /\ Index(x)
    /\ UNCHANGED <<adapter, copy, expired, faults, before>>

\* ... and its commit, which raises when another one has inserted the id or the key.
SqlInsert(p) ==
    /\ adapter = "sql" /\ pc[p] = "inserting"
    /\ LET x == ExecOf[p] IN
       IF Found(x) # NoId
       THEN Return(p, Nothing) /\ UNCHANGED recordVars
       ELSE Return(p, Created(x)) /\ Insert(x) /\ Index(x)
    /\ UNCHANGED <<adapter, copy, expired, faults, before>>

\* In Redis, GET of the key ...
RedisLook(p) ==
    /\ adapter = "redis" /\ Begin(p)
    /\ Goto(p, IF ByKey(ExecOf[p]) = NoId THEN "inserting" ELSE "looking")
    /\ answer' = [answer EXCEPT ![p] = Existing(ByKey(ExecOf[p]))]
    /\ UNCHANGED <<adapter, recordVars, copy, expired, faults>>

\* ... GET of the record it leads to, which may have expired ...
RedisGetByKey(p) ==
    /\ adapter = "redis" /\ pc[p] = "looking"
    /\ IF answer[p].exec \in stored
       THEN Return(p, answer[p])
       ELSE Goto(p, "inserting") /\ UNCHANGED answer
    /\ UNCHANGED <<adapter, recordVars, copy, expired, faults, before>>

\* ... SET NX of the record ...
RedisInsert(p) ==
    /\ adapter = "redis" /\ pc[p] = "inserting"
    /\ IF ExecOf[p] \in stored
       THEN Goto(p, "reading") /\ UNCHANGED <<stored, updates>>
       ELSE Goto(p, "indexing") /\ Insert(ExecOf[p])
    /\ UNCHANGED <<adapter, by_key, answer, copy, expired, faults, before>>

\* ... GET of the one that was there, unless it has expired meanwhile ...
RedisGetById(p) ==
    /\ adapter = "redis" /\ pc[p] = "reading"
    /\ IF ExecOf[p] \in stored
       THEN Return(p, Existing(ExecOf[p]))
       ELSE Goto(p, "indexing") /\ UNCHANGED answer
    /\ UNCHANGED <<adapter, recordVars, copy, expired, faults, before>>

\* Mutant of RedisIndex: the key is not set.
RedisIndex_not(p) ==
    /\ adapter = "redis" /\ pc[p] = "indexing"
    /\ Return(p, Created(ExecOf[p]))
    /\ UNCHANGED <<adapter, recordVars, copy, expired, faults, before>>

\* ... and SET of the key, whatever it leads to by now.
RedisIndex(p) ==
    /\ adapter = "redis" /\ pc[p] = "indexing"
    /\ Index(ExecOf[p])
    /\ Return(p, Created(ExecOf[p]))
    /\ UNCHANGED <<adapter, stored, updates, copy, expired, faults, before>>

-----------------------------------------------------------------------------
(* set_status.                                                             *)

\* In memory under the lock; in SQL, an UPDATE of the columns that change.
SetStatus(u) ==
    /\ adapter # "redis" /\ pc[u] = "new" /\ ExecOf[u] \in stored
    /\ updates' = [updates EXCEPT ![ExecOf[u]] = @ \cup {u}]
    /\ Goto(u, "done")
    /\ UNCHANGED <<adapter, stored, by_key, answer, copy, expired, faults, before>>

\* In Redis the record is read ...
RedisRead(u) ==
    /\ adapter = "redis" /\ pc[u] = "new" /\ ExecOf[u] \in stored
    /\ copy' = [copy EXCEPT ![u] = updates[ExecOf[u]]]
    /\ Goto(u, "writing")
    /\ UNCHANGED <<adapter, recordVars, answer, expired, faults, before>>

\* Mutant of RedisWrite: the fields that are not updated are not written back.
RedisWrite_only_new(u) ==
    /\ adapter = "redis" /\ pc[u] = "writing"
    /\ stored' = stored \cup {ExecOf[u]}
    /\ updates' = [updates EXCEPT ![ExecOf[u]] = {u}]
    /\ Goto(u, "done")
    /\ UNCHANGED <<adapter, by_key, answer, copy, expired, faults, before>>

\* ... and written back as a whole; if it has expired meanwhile it exists again.
RedisWrite(u) ==
    /\ adapter = "redis" /\ pc[u] = "writing"
    /\ stored' = stored \cup {ExecOf[u]}
    /\ updates' = [updates EXCEPT ![ExecOf[u]] = copy[u] \cup {u}]
    /\ Goto(u, "done")
    /\ UNCHANGED <<adapter, by_key, answer, copy, expired, faults, before>>

-----------------------------------------------------------------------------
(* Time and crashes.                                                       *)

Fault == faults < MaxFaults /\ faults' = faults + 1

\* The ttl of a record passes.
RecordExpires(x) ==
    /\ adapter = "redis" /\ x \in stored /\ Fault
    /\ stored' = stored \ {x}
    /\ updates' = [updates EXCEPT ![x] = {}]
    /\ expired' = expired \cup {x}
    /\ UNCHANGED <<adapter, by_key, pc, answer, copy, before>>

\* The ttl of a key passes: set_status renews that of the record only.
KeyExpires(k) ==
    /\ adapter = "redis" /\ by_key[k] # NoId /\ Fault
    /\ by_key' = [by_key EXCEPT ![k] = NoId]
    /\ expired' = expired \cup {k}
    /\ UNCHANGED <<adapter, stored, updates, pc, answer, copy, before>>

\* The client crashes between two steps; a transaction is rolled back.
Crash(c) ==
    /\ pc[c] \notin {"new", "done", "crashed"} /\ Fault
    /\ Goto(c, "crashed")
    /\ UNCHANGED <<adapter, recordVars, answer, copy, expired, before>>

-----------------------------------------------------------------------------
Put(p) ==
    \/ MemoryPut(p) \/ SqlLook(p) \/ SqlInsert(p)
    \/ RedisLook(p) \/ RedisGetByKey(p) \/ RedisInsert(p) \/ RedisGetById(p) \/ RedisIndex(p)

Update(u) == SetStatus(u) \/ RedisRead(u) \/ RedisWrite(u)

ExecNext ==
    \/ \E p \in Puts : Put(p) \/ Crash(p)
    \/ \E u \in Updates : Update(u) \/ Crash(u)
    \/ \E x \in ExecIds : RecordExpires(x)
    \/ \E k \in Keys : KeyExpires(k)

ExecSpec == ExecInit /\ [][ExecNext]_execVars

-----------------------------------------------------------------------------
(* Properties.                                                             *)

\* The executions that share the key of x.
SameKey(x) == {y \in ExecIds : KeyOf[y] \in Keys /\ KeyOf[y] = KeyOf[x]}

\* With every adapter, who submits an execution again after an answer gets that
\* answer's record: a call creates no record of an execution that an earlier call has
\* returned, nor under a key under which an earlier call has created one, unless
\* something of them has expired.  In Redis, an answer that says "existing" promises
\* nothing about the key: the call that creates the record may not have set it yet.
Idempotent ==
    \A p \in Puts : pc[p] = "done" /\ answer[p].created =>
        LET x == ExecOf[p] IN
        \A a \in before[p] :
            a.exec = x \/ (a.created /\ a.exec \in SameKey(x)) =>
                (SameKey(x) \cup {x, KeyOf[x]}) \cap expired # {}

\* In memory and in SQL two records never share an idempotency key, however the calls
\* interleave, and the key leads to its record.  (In Redis two calls that look before
\* either has set the key create two.)
OneRecordPerKey ==
    adapter # "redis" =>
        \A x \in stored : SameKey(x) \cap stored \subseteq {ByKey(x)}

\* A call that has only looked is still to act, for the port.
StageOf(label) ==
    CASE label \in {"new", "inserting"} -> "new"
      [] label = "crashed" -> "lost"
      [] OTHER -> "done"

Port == INSTANCE ExecPort WITH stage <- [c \in Puts \cup Updates |-> StageOf(pc[c])]

\* In memory and in SQL a call takes effect at one moment, between its start and its
\* end, as if no other call ran: in SQL the commit, or the queries if they found the
\* record.  A commit that finds the id or the key taken meanwhile has no effect.
PortKept ==
    Port!PortInit /\ [][adapter # "redis" => Port!PortNext]_(Port!portVars)

\* A record shows every update that has been answered, unless it expired; in Redis
\* another update that had read the record before may have overwritten it.
UpdatesKept ==
    \A u \in Updates : pc[u] = "done" =>
        \/ u \in updates[ExecOf[u]]
        \/ ExecOf[u] \in expired
        \/ adapter = "redis" /\ \E v \in Updates \ {u} :
               ExecOf[v] = ExecOf[u] /\ pc[v] = "done" /\ u \notin copy[v]

=============================================================================
