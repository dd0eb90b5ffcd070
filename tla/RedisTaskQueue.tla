--------------------------- MODULE RedisTaskQueue ---------------------------
(***************************************************************************)
(* The task queue on Redis (src/queue/redis_queue.py, RedisTaskQueue):     *)
(* one stream per priority with a consumer group, a sorted set of delayed  *)
(* tasks, and per task a hash (the payload) and a status key.              *)
(*                                                                         *)
(* Each await of a Redis command is a point where the workers of all       *)
(* processes may run, and where a fault may fall: the process faults, the *)
(* pool's stop cancels the worker, or the command raises, with or without  *)
(* having taken effect.  The commands are atomic; those that follow each   *)
(* other are one step only where nobody could tell.  A worker that is gone *)
(* is replaced by a new consumer, which knows nothing of the old one's     *)
(* entries: nothing is ever claimed from the pending entries of the group  *)
(* (complete and fail look for the message id in the stored metadata,      *)
(* where dequeue did not put it, so they acknowledge nothing), which       *)
(* therefore are not modelled.                                             *)
(*                                                                         *)
(* The result hashes and the index sets, which no step of the queue        *)
(* reads, are left out.                                                    *)
(***************************************************************************)
EXTENDS Integers, Sequences, FiniteSets

CONSTANTS
    Tasks,       \* task_id of the tasks callers enqueue
    Workers,     \* the workers that dequeue, of one or of several processes
    Level,       \* task.priority.value
    Levels,      \* how many priorities there are
    Ours,        \* the tasks of the tenant that dequeue is asked for
    MaxRetries,  \* task.max_retries
    Cancelled,   \* bound: the tasks that a caller cancels
    MaxFaults,   \* bound: faults, cancellations of a worker, commands that raise
    NoTask       \* what a worker has in hand between two tasks

ASSUME LevelAssumption == Levels \in Nat \ {0} /\ Level \in [Tasks -> 1..Levels]
ASSUME OursAssumption == Ours \subseteq Tasks /\ Cancelled \subseteq Tasks
ASSUME BoundAssumption == MaxRetries \in Nat /\ MaxFaults \in Nat
ASSUME NoTaskAssumption == NoTask \notin Tasks
ASSUME WorkersAssumption == IsFiniteSet(Workers)

VARIABLES
    stored,       \* the tasks whose hash exists
    retry_count,  \* the field of the hash
    status,       \* the status key, "absent" if there is none
    volatile,     \* the tasks whose status key has an expiry: SET without ex drops it
    unread,       \* per priority, the entries of the stream behind the group's cursor
    delayed,      \* the members of the sorted set
    due,          \* the members whose score is in the past
    caller,       \* where the enqueue of a task is
    canceller,    \* where the cancel of a task is
    pc,           \* where a worker is
    todo,         \* due_tasks of its _process_delayed_tasks, as far as not done
    item,         \* the task it moves, or whose entry it has read
    level,        \* the priority it is reading
    seen,         \* the retry_count that its fail has read
    old,          \* the tasks older than ttl_seconds
    lapsed,       \* the tasks whose hash has expired, ttl_seconds + 60 after enqueue
    faults

keyVars == <<stored, retry_count, status, volatile>>
setVars == <<delayed, due>>
workerVars == <<pc, todo, item, level, seen>>
envVars == <<caller, canceller, old, lapsed, faults>>
vars == <<keyVars, unread, setVars, workerVars, envVars>>

(***************************************************************************)
(* A worker is outside dequeue and not executing (idle), about to move the *)
(* next due task (moving) or to remove it from the sorted set (removing),  *)
(* reading a stream (polling), has read an entry (read), awaits the        *)
(* executor (executing), has had complete raise an exception after it set  *)
(* the status (raised), is in fail before (failing) or after (retrying) it *)
(* has stored the retry.                                                   *)
(***************************************************************************)
Holding == {"read", "executing", "raised", "failing", "retrying"}
WorkerState == {"idle", "moving", "removing", "polling"} \cup Holding

Status == {"absent", "pending", "processing", "completed", "failed", "cancelled", "expired"}

TypeOK ==
    /\ stored \subseteq Tasks
    /\ retry_count \in [Tasks -> 0..MaxRetries]
    /\ status \in [Tasks -> Status]
    /\ volatile \subseteq Tasks
    /\ unread \in [1..Levels -> Seq(Tasks)]
    /\ delayed \subseteq Tasks /\ due \subseteq delayed
    /\ caller \in [Tasks -> {"new", "storing", "done"}]
    /\ canceller \in [Tasks -> {"no", "seen", "set", "done"}]
    /\ pc \in [Workers -> WorkerState]
    /\ todo \in [Workers -> SUBSET Tasks]
    /\ item \in [Workers -> Tasks \cup {NoTask}]
    /\ \A w \in Workers : item[w] = NoTask <=> pc[w] \in {"idle", "moving", "polling"}
    /\ level \in [Workers -> 1..Levels]
    /\ seen \in [Workers -> 0..MaxRetries]
    /\ old \subseteq Tasks /\ lapsed \subseteq old
    /\ faults \in 0..MaxFaults

Init ==
    /\ stored = {}
    /\ retry_count = [t \in Tasks |-> 0]
    /\ status = [t \in Tasks |-> "absent"]
    /\ volatile = {}
    /\ unread = [l \in 1..Levels |-> <<>>]
    /\ delayed = {} /\ due = {}
    /\ caller = [t \in Tasks |-> "new"]
    /\ canceller = [t \in Tasks |-> "no"]
    /\ pc = [w \in Workers |-> "idle"]
    /\ todo = [w \in Workers |-> {}]
    /\ item = [w \in Workers |-> NoTask]
    /\ level = [w \in Workers |-> 1]
    /\ seen = [w \in Workers |-> 0]
    /\ old = {} /\ lapsed = {}
    /\ faults = 0

-----------------------------------------------------------------------------
(* Commands.                                                               *)

Xadd(t) == unread' = [unread EXCEPT ![Level[t]] = Append(@, t)]

Zadd(t) == delayed' = delayed \cup {t} /\ due' = due \ {t}

Zrem(t) == delayed' = delayed \ {t} /\ due' = due \ {t}

\* SET of the status key, without an expiry.
SetStatus(t, s) ==
    /\ status' = [status EXCEPT ![t] = s]
    /\ volatile' = volatile \ {t}

-----------------------------------------------------------------------------
(* Callers.                                                                *)

\* enqueue, up to the indexes: the payload and the status are stored.
Store(t) ==
    /\ caller[t] = "new"
    /\ stored' = stored \cup {t}
    /\ status' = [status EXCEPT ![t] = "pending"]
    /\ volatile' = volatile \cup {t}
    /\ caller' = [caller EXCEPT ![t] = "storing"]
    /\ UNCHANGED <<retry_count, unread, setVars, workerVars, canceller, old, lapsed, faults>>

\* The rest of enqueue: the task enters its stream, or the sorted set.
Add(t) ==
    /\ caller[t] = "storing"
    /\ caller' = [caller EXCEPT ![t] = "done"]
    /\ \/ Xadd(t) /\ UNCHANGED setVars
       \/ Zadd(t) /\ UNCHANGED unread
    /\ UNCHANGED <<keyVars, workerVars, canceller, old, lapsed, faults>>

\* cancel reads the status ...
CancelRead(t) ==
    /\ t \in Cancelled /\ canceller[t] = "no"
    /\ status[t] = "pending"
    /\ canceller' = [canceller EXCEPT ![t] = "seen"]
    /\ UNCHANGED <<keyVars, unread, setVars, workerVars, caller, old, lapsed, faults>>

\* ... sets it ...
CancelSet(t) ==
    /\ canceller[t] = "seen"
    /\ SetStatus(t, "cancelled")
    /\ canceller' = [canceller EXCEPT ![t] = "set"]
    /\ UNCHANGED <<stored, retry_count, unread, setVars, workerVars, caller, old, lapsed, faults>>

\* ... and takes the task from the sorted set; a stream keeps it.
CancelRemove(t) ==
    /\ canceller[t] = "set"
    /\ Zrem(t)
    /\ canceller' = [canceller EXCEPT ![t] = "done"]
    /\ UNCHANGED <<keyVars, unread, workerVars, caller, old, lapsed, faults>>

-----------------------------------------------------------------------------
(* dequeue.                                                                *)

\* w has the tasks of T left to move; without any, it reads the first stream.
MoveOn(w, T) ==
    /\ todo' = [todo EXCEPT ![w] = T]
    /\ pc' = [pc EXCEPT ![w] = IF T = {} THEN "polling" ELSE "moving"]

\* _process_delayed_tasks reads the due tasks.
Begin(w) ==
    /\ pc[w] = "idle"
    /\ MoveOn(w, due)
    /\ UNCHANGED <<keyVars, unread, setVars, item, level, seen, envVars>>

\* Mutant of Move: the task leaves the sorted set, to be added later.
Move_removes_first(w, t) ==
    /\ pc[w] = "moving" /\ t \in todo[w]
    /\ Zrem(t)
    /\ pc' = [pc EXCEPT ![w] = "removing"]
    /\ item' = [item EXCEPT ![w] = t]
    /\ UNCHANGED <<keyVars, unread, todo, level, seen, envVars>>

\* One of them is added to its stream, if its payload is still there ...
Move(w, t) ==
    /\ pc[w] = "moving" /\ t \in todo[w]
    /\ IF t \in stored THEN Xadd(t) ELSE unread' = unread
    /\ pc' = [pc EXCEPT ![w] = "removing"]
    /\ item' = [item EXCEPT ![w] = t]
    /\ UNCHANGED <<keyVars, setVars, todo, level, seen, envVars>>

\* ... and then removed from the sorted set.
MoveEnds(w) ==
    /\ pc[w] = "removing"
    /\ Zrem(item[w])
    /\ MoveOn(w, todo[w] \ {item[w]})
    /\ item' = [item EXCEPT ![w] = NoTask]
    /\ UNCHANGED <<keyVars, unread, level, seen, envVars>>

\* The loop over the priorities goes on, or dequeue returns None.
Continue(w) ==
    /\ item' = [item EXCEPT ![w] = NoTask]
    /\ IF level[w] < Levels
       THEN /\ pc' = [pc EXCEPT ![w] = "polling"]
            /\ level' = [level EXCEPT ![w] = @ + 1]
       ELSE /\ pc' = [pc EXCEPT ![w] = "idle"]
            /\ level' = [level EXCEPT ![w] = 1]

\* xreadgroup finds nothing in this stream.
ReadNone(w) ==
    /\ pc[w] = "polling" /\ unread[level[w]] = <<>>
    /\ Continue(w)
    /\ UNCHANGED <<keyVars, unread, setVars, todo, seen, envVars>>

\* Mutant of Read: the cursor stays, as if the stream were read without a group.
Read_stays(w) ==
    /\ pc[w] = "polling" /\ unread[level[w]] # <<>>
    /\ item' = [item EXCEPT ![w] = Head(unread[level[w]])]
    /\ pc' = [pc EXCEPT ![w] = "read"]
    /\ UNCHANGED <<keyVars, unread, setVars, todo, level, seen, envVars>>

\* xreadgroup: the group's cursor passes the entry, which no other consumer gets.
Read(w) ==
    /\ pc[w] = "polling" /\ unread[level[w]] # <<>>
    /\ item' = [item EXCEPT ![w] = Head(unread[level[w]])]
    /\ unread' = [unread EXCEPT ![level[w]] = Tail(@)]
    /\ pc' = [pc EXCEPT ![w] = "read"]
    /\ UNCHANGED <<keyVars, setVars, todo, level, seen, envVars>>

\* There is no payload any more, or it is another tenant's: on to the next priority.
PassOver(w) ==
    /\ pc[w] = "read" /\ (item[w] \notin stored \/ item[w] \notin Ours)
    /\ Continue(w)
    /\ UNCHANGED <<keyVars, unread, setVars, todo, seen, envVars>>

\* _mark_expired.
Expire(w) ==
    /\ pc[w] = "read" /\ item[w] \in stored \cap Ours \cap old
    /\ SetStatus(item[w], "expired")
    /\ Continue(w)
    /\ UNCHANGED <<stored, retry_count, unread, setVars, todo, seen, envVars>>

\* dequeue returns the task, whatever its status was.
Claim(w) ==
    /\ pc[w] = "read" /\ item[w] \in (stored \cap Ours) \ old
    /\ SetStatus(item[w], "processing")
    /\ pc' = [pc EXCEPT ![w] = "executing"]
    /\ UNCHANGED <<stored, retry_count, unread, setVars, todo, item, level, seen, envVars>>

-----------------------------------------------------------------------------
(* complete and fail.                                                      *)

Release(w) ==
    /\ pc' = [pc EXCEPT ![w] = "idle"]
    /\ item' = [item EXCEPT ![w] = NoTask]
    /\ level' = [level EXCEPT ![w] = 1]
    /\ seen' = [seen EXCEPT ![w] = 0]

\* complete: nothing happens if the payload is gone.
Complete(w) ==
    /\ pc[w] = "executing"
    /\ IF item[w] \in stored THEN SetStatus(item[w], "completed") ELSE UNCHANGED <<status, volatile>>
    /\ Release(w)
    /\ UNCHANGED <<stored, retry_count, unread, setVars, todo, envVars>>

\* complete raises after it has set the status: its result is no JSON, or a later command
\* fails.  _process_task takes this for a failure of the task.
CompleteRaises(w) ==
    /\ pc[w] = "executing" /\ item[w] \in stored
    /\ SetStatus(item[w], "completed")
    /\ pc' = [pc EXCEPT ![w] = "raised"]
    /\ UNCHANGED <<stored, retry_count, unread, setVars, todo, item, level, seen, envVars>>

\* The executor or complete has raised an exception: fail reads the payload, and returns
\* if there is none.
Fail(w) ==
    /\ pc[w] \in {"executing", "raised"}
    /\ IF item[w] \in stored
       THEN /\ pc' = [pc EXCEPT ![w] = "failing"]
            /\ seen' = [seen EXCEPT ![w] = retry_count[item[w]]]
            /\ UNCHANGED <<item, level>>
       ELSE Release(w)
    /\ UNCHANGED <<keyVars, unread, setVars, todo, envVars>>

\* Mutant of FailRetry: one retry too many.
FailRetry_once_more(w) ==
    /\ pc[w] = "failing" /\ seen[w] <= MaxRetries
    /\ stored' = stored \cup {item[w]}
    /\ retry_count' = [retry_count EXCEPT ![item[w]] = seen[w] + 1]
    /\ SetStatus(item[w], "pending")
    /\ pc' = [pc EXCEPT ![w] = "retrying"]
    /\ UNCHANGED <<unread, setVars, todo, item, level, seen, envVars>>

\* A retry: the payload is written back, with the count that was read plus one; if it
\* has expired meanwhile, this creates it anew.
FailRetry(w) ==
    /\ pc[w] = "failing" /\ seen[w] < MaxRetries
    /\ stored' = stored \cup {item[w]}
    /\ retry_count' = [retry_count EXCEPT ![item[w]] = seen[w] + 1]
    /\ SetStatus(item[w], "pending")
    /\ pc' = [pc EXCEPT ![w] = "retrying"]
    /\ UNCHANGED <<unread, setVars, todo, item, level, seen, envVars>>

\* The retry is scheduled.
FailDelay(w) ==
    /\ pc[w] = "retrying"
    /\ Zadd(item[w])
    /\ Release(w)
    /\ UNCHANGED <<keyVars, unread, todo, envVars>>

\* No retry is left.
FailFinal(w) ==
    /\ pc[w] = "failing" /\ seen[w] >= MaxRetries
    /\ SetStatus(item[w], "failed")
    /\ Release(w)
    /\ UNCHANGED <<stored, retry_count, unread, setVars, todo, envVars>>

-----------------------------------------------------------------------------
(* Faults.                                                                 *)

Fault == faults < MaxFaults /\ faults' = faults + 1

\* A worker lets go of what it does: its process crashes, stop cancels it, or a command
\* raises outside the try of dequeue, which only the worker's loop catches.
Cut(w) ==
    /\ pc[w] # "idle" /\ Fault
    /\ Release(w)
    /\ todo' = [todo EXCEPT ![w] = {}]
    /\ UNCHANGED <<keyVars, unread, setVars, caller, canceller, old, lapsed>>

\* The same in fail, when the payload has been written back but no status set.
FailCut(w) ==
    /\ pc[w] = "failing" /\ seen[w] < MaxRetries /\ Fault
    /\ stored' = stored \cup {item[w]}
    /\ retry_count' = [retry_count EXCEPT ![item[w]] = seen[w] + 1]
    /\ Release(w)
    /\ UNCHANGED <<status, volatile, unread, setVars, todo, caller, canceller, old, lapsed>>

\* A command or the deserialisation raises in the try of dequeue, which logs it and goes on
\* with the next priority; the SET of the status may have taken effect.
Swallow(w) ==
    /\ pc[w] \in {"polling", "read"} /\ Fault
    /\ \/ UNCHANGED <<status, volatile>>
       \/ /\ pc[w] = "read" /\ item[w] \in (stored \cap Ours) \ old
          /\ SetStatus(item[w], "processing")
    /\ Continue(w)
    /\ UNCHANGED <<stored, retry_count, unread, setVars, todo, seen, caller, canceller, old, lapsed>>

\* enqueue ends early, after the payload or after the status.
EnqueueCut(t) ==
    /\ caller[t] \in {"new", "storing"} /\ Fault
    /\ stored' = IF caller[t] = "new" THEN stored \cup {t} ELSE stored
    /\ caller' = [caller EXCEPT ![t] = "done"]
    /\ UNCHANGED <<retry_count, status, volatile, unread, setVars, workerVars, canceller, old, lapsed>>

\* cancel ends early, before or after it has set the status.
CancelCut(t) ==
    /\ canceller[t] \in {"seen", "set"} /\ Fault
    /\ canceller' = [canceller EXCEPT ![t] = "done"]
    /\ UNCHANGED <<keyVars, unread, setVars, workerVars, caller, old, lapsed>>

-----------------------------------------------------------------------------
(* Time.                                                                   *)

DelayPasses(t) ==
    /\ t \in delayed \ due
    /\ due' = due \cup {t}
    /\ UNCHANGED <<keyVars, unread, delayed, workerVars, envVars>>

TtlPasses(t) ==
    /\ t \in stored \ old
    /\ old' = old \cup {t}
    /\ UNCHANGED <<keyVars, unread, setVars, workerVars, caller, canceller, lapsed, faults>>

\* The hash expires, and the status key if nobody has set it since.
KeysExpire(t) ==
    /\ t \in old \ lapsed
    /\ lapsed' = lapsed \cup {t}
    /\ stored' = stored \ {t}
    /\ status' = IF t \in volatile THEN [status EXCEPT ![t] = "absent"] ELSE status
    /\ volatile' = volatile \ {t}
    /\ UNCHANGED <<retry_count, unread, setVars, workerVars, caller, canceller, old, faults>>

-----------------------------------------------------------------------------
WorkerStep(w) ==
    \/ Begin(w) \/ (\E t \in Tasks : Move(w, t)) \/ MoveEnds(w)
    \/ ReadNone(w) \/ Read(w) \/ PassOver(w) \/ Expire(w) \/ Claim(w)
    \/ Complete(w) \/ CompleteRaises(w)
    \/ Fail(w) \/ FailRetry(w) \/ FailDelay(w) \/ FailFinal(w)

CallerStep(t) == Store(t) \/ Add(t) \/ CancelRead(t) \/ CancelSet(t) \/ CancelRemove(t)

WorkerFault(w) == Cut(w) \/ FailCut(w) \/ Swallow(w)

CallerFault(t) == EnqueueCut(t) \/ CancelCut(t)

TimeStep(t) == DelayPasses(t) \/ TtlPasses(t) \/ KeysExpire(t)

Next ==
    \/ \E w \in Workers : WorkerStep(w) \/ WorkerFault(w)
    \/ \E t \in Tasks : CallerStep(t) \/ CallerFault(t) \/ TimeStep(t)

Spec == Init /\ [][Next]_vars

-----------------------------------------------------------------------------
(* Properties.                                                             *)

Queued == {t \in Tasks : \E l \in 1..Levels : \E i \in DOMAIN unread[l] : unread[l][i] = t}

\* Somebody still has the task in hand and will take it further.
InHand(t) ==
    \/ caller[t] = "storing"
    \/ \E w \in Workers : item[w] = t /\ pc[w] \in Holding

\* Tasks that should still be executed, and that are in no stream, not scheduled, and
\* in nobody's hand.
Stranded ==
    {t \in stored : status[t] \in {"pending", "processing"}
                    /\ t \notin Queued \cup delayed /\ ~InHand(t)}

\* A task that should still be executed can still be reached: what reliable delivery
\* promises of a queue in which nothing fails.
NothingStranded == Stranded = {}

\* The ways in which the queue loses a task for good.  A fault strikes while a worker has
\* its entry in hand (a crash, the cancellation by stop, an error that dequeue swallows
\* after XREADGROUP or that fail raises) or while it is being enqueued; its entry is read
\* for another tenant; or a ZREM comes late, after the task was moved, failed and scheduled
\* again, and removes the retry.  In particular no fault while delayed tasks are moved
\* loses one, and none in cancel.
LossesExplained ==
    [][ \A t \in Stranded' \ Stranded :
          \/ faults' > faults /\ (caller'[t] # caller[t]
                 \/ \E w \in Workers : item[w] = t /\ pc[w] \in Holding /\ item'[w] # t)
          \/ t \notin Ours /\ \E w \in Workers : pc[w] = "read" /\ item[w] = t
          \/ t \in delayed \ delayed' /\ (canceller[t] = "set"
                 \/ \E w \in Workers : pc[w] = "removing" /\ item[w] = t) ]_vars

\* The places where t waits for an execution, or has one.
Copies(t) ==
    Cardinality({i \in DOMAIN unread[Level[t]] : unread[Level[t]][i] = t})
    + Cardinality({w \in Workers : item[w] = t /\ pc[w] \in Holding})

\* A task is handed out twice only if it is moved twice: by two workers that have read
\* the same due task, or again after a fault between XADD and ZREM.  Nothing that one
\* worker does with its entry, and no retry, duplicates it.
DuplicatesOnlyByMove ==
    [][ \A t \in Tasks :
          Copies(t) >= 1 /\ Copies(t)' > Copies(t) =>
             \E w \in Workers : /\ pc[w] = "moving" /\ t \in todo[w]
                                /\ pc'[w] = "removing" ]_vars

=============================================================================
