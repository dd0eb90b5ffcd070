------------------------------ MODULE TaskQueue ------------------------------
(***************************************************************************)
(* The in-memory task queue (src/queue/memory.py, InMemoryTaskQueue) and   *)
(* the pool of worker coroutines that drains it (src/queue/worker.py,      *)
(* TaskWorker).                                                            *)
(*                                                                         *)
(* Every queue operation runs under one asyncio.Lock and awaits nothing    *)
(* inside it, except dequeue, which may wait on the condition variable:    *)
(* each operation is one step, and dequeue is one step up to the wait and  *)
(* one from the wake-up on.  Between two steps of a worker any other       *)
(* coroutine may run.                                                      *)
(*                                                                         *)
(* The clock is abstracted to the two comparisons the code makes with it:  *)
(* an item is visible once its visible_at has passed, and a task is in     *)
(* elapsed once it is older than its ttl_seconds.  Both only ever become   *)
(* true as time passes.                                                    *)
(***************************************************************************)
EXTENDS Integers, FiniteSets

CONSTANTS
    Tasks,       \* the TaskPayload objects callers create; task_id is a fresh uuid4
    Workers,     \* the coroutines of the pool: range(num_workers)
    Tenants,     \* tenant ids
    TenantOf,    \* task.tenant_id
    Priority,    \* task.priority.value: a smaller number is served first
    CreatedAt,   \* task.created_at, set when the payload is built
    MaxRetries,  \* task.max_retries
    MaxSize,     \* max_size of the queue
    Filter,      \* the pool's tenant_id, or NoTenant for a pool that serves all
    NoTenant,    \* the None of tenant_id: str | None
    NoTask       \* what a worker holds between two tasks

ASSUME TenantAssumption ==
    /\ TenantOf \in [Tasks -> Tenants]
    /\ NoTenant \notin Tenants
    /\ Filter \in Tenants \cup {NoTenant}
ASSUME OrderAssumption ==
    /\ Priority \in [Tasks -> Nat]
    /\ CreatedAt \in [Tasks -> Nat]
ASSUME BoundAssumption == MaxRetries \in Nat /\ MaxSize \in Nat
ASSUME NoTaskAssumption == NoTask \notin Tasks

VARIABLES
    heap,          \* _heap: the items in it; attempt tells the pushes of one task apart
    tasks,         \* the keys of _tasks
    status,        \* _status, "absent" for a task that was never enqueued
    results,       \* the status of the TaskResult in _results, "none" where there is none
    retry_count,   \* task.retry_count
    indexed,       \* the tasks in the sets of _by_tenant and _by_agent
    closed,        \* _closed
    elapsed,       \* the tasks whose age exceeds their ttl_seconds
    pool,          \* "stopped": _workers is empty; "stopping": _shutdown_event is set
    pc,            \* where each worker coroutine is
    held           \* the task a worker executes

queueVars == <<heap, tasks, status, results, retry_count, indexed>>
poolVars == <<pool, pc, held>>
vars == <<queueVars, poolVars, closed, elapsed>>

TaskStatus == {"pending", "processing", "completed", "failed", "cancelled", "expired"}
Terminal == {"completed", "failed", "cancelled", "expired"}
Item == [task : Tasks, attempt : 0..MaxRetries, visible : BOOLEAN]

(***************************************************************************)
(* A worker is at the top of its loop (idle), suspended on the condition   *)
(* variable (waiting), notified but not yet resumed (woken), awaiting the  *)
(* executor (executing), finished or never started (off), or in the loop   *)
(* "while not shutdown: dequeue() returns None" that never yields (spin).  *)
(***************************************************************************)
WorkerState == {"off", "idle", "waiting", "woken", "executing", "spin"}

TypeOK ==
    /\ heap \in SUBSET Item
    /\ tasks \in SUBSET Tasks
    /\ status \in [Tasks -> TaskStatus \cup {"absent"}]
    /\ results \in [Tasks -> Terminal \cup {"none"}]
    /\ retry_count \in [Tasks -> 0..MaxRetries]
    /\ indexed \in SUBSET Tasks
    /\ closed \in BOOLEAN
    /\ elapsed \in SUBSET Tasks
    /\ pool \in {"stopped", "running", "stopping"}
    /\ pc \in [Workers -> WorkerState]
    /\ held \in [Workers -> Tasks \cup {NoTask}]

Init ==
    /\ heap = {}
    /\ tasks = {}
    /\ status = [t \in Tasks |-> "absent"]
    /\ results = [t \in Tasks |-> "none"]
    /\ retry_count = [t \in Tasks |-> 0]
    /\ indexed = {}
    /\ closed = FALSE
    /\ elapsed = {}
    /\ pool = "stopped"
    /\ pc = [w \in Workers |-> "off"]
    /\ held = [w \in Workers |-> NoTask]

-----------------------------------------------------------------------------
(* Helpers of the queue.                                                   *)

\* The event loop runs one coroutine at a time: one that never awaits stops all.
Hung == \E w \in Workers : pc[w] = "spin"

Waiting == {w \in Workers : pc[w] = "waiting"}

\* _not_empty.notify(): one waiter is woken, if there is one.
Notify ==
    \/ Waiting = {} /\ pc' = pc
    \/ \E w \in Waiting : pc' = [pc EXCEPT ![w] = "woken"]

\* Mutant of Before: first in, first out, whatever the priority.
Before_fifo(i, j) == CreatedAt[i.task] < CreatedAt[j.task]

\* PriorityItem's order: priority, then created_at.  Equal keys compare equal.
Before(i, j) ==
    \/ Priority[i.task] < Priority[j.task]
    \/ /\ Priority[i.task] = Priority[j.task]
       /\ CreatedAt[i.task] < CreatedAt[j.task]

\* The tenant test of dequeue: no filter, or the task's own tenant.
ServedHere(t) == Filter = NoTenant \/ TenantOf[t] = Filter

\* Mutant of PutBack: the items of other tenants are dropped with the stale ones.
PutBack_own_tenant(i) == ~i.visible

\* Mutant of Claimable: the status is not looked at, as if cancel removed the item.
Claimable_any_status(i) == i.visible /\ i.task \notin elapsed /\ ServedHere(i.task)

\* The tests of _find_next_visible on an item popped from the heap, in its order.
PutBack(i) == ~i.visible \/ (i.task \notin elapsed /\ ~ServedHere(i.task))
ToExpire(i) == i.visible /\ i.task \in elapsed
Claimable(i) ==
    /\ i.visible
    /\ i.task \notin elapsed
    /\ ServedHere(i.task)
    /\ status[i.task] = "pending"

NextClaims == {c \in heap : Claimable(c) /\ \A j \in heap : Claimable(j) => ~Before(j, c)}

\* Items the heap may hand out before c although their key equals c's.
TiesBefore(c) == {i \in heap \ {c} : ~Claimable(i) /\ ~Before(i, c) /\ ~Before(c, i)}

\* _mark_expired for every task of T.
MarkExpired(T) ==
    /\ results' = [t \in Tasks |-> IF t \in T THEN "expired" ELSE results[t]]
    /\ indexed' = indexed \ T

ExpiredStatus(T) == [t \in Tasks |-> IF t \in T THEN "expired" ELSE status[t]]

ExpiredIn(P) == {i.task : i \in {j \in P : ToExpire(j)}}

-----------------------------------------------------------------------------
(* The queue's operations.                                                 *)

\* enqueue, with delay_seconds = 0 (visible at once) or more.
Enqueue(t, visible) ==
    /\ t \notin tasks
    /\ ~closed
    /\ Cardinality(tasks) < MaxSize
    /\ heap' = heap \cup {[task |-> t, attempt |-> retry_count[t], visible |-> visible]}
    /\ tasks' = tasks \cup {t}
    /\ status' = [status EXCEPT ![t] = "pending"]
    /\ indexed' = indexed \cup {t}
    /\ Notify
    /\ UNCHANGED <<results, retry_count, closed, elapsed, pool, held>>

\* Mutant of Claim: the item is read from the heap and not popped.
Claim_peek(w, c, P) ==
    /\ heap' = (heap \ P) \cup {i \in P : PutBack(i)}
    /\ MarkExpired(ExpiredIn(P))
    /\ status' = [ExpiredStatus(ExpiredIn(P)) EXCEPT ![c.task] = "processing"]
    /\ pc' = [pc EXCEPT ![w] = "executing"]
    /\ held' = [held EXCEPT ![w] = c.task]
    /\ UNCHANGED <<tasks, retry_count>>

\* _find_next_visible up to a claim: the items popped before c leave the heap
\* unless they are put back, and the expired ones among them are marked.
Claim(w, c, P) ==
    /\ heap' = (heap \ (P \cup {c})) \cup {i \in P : PutBack(i)}
    /\ MarkExpired(ExpiredIn(P))
    /\ status' = [ExpiredStatus(ExpiredIn(P)) EXCEPT ![c.task] = "processing"]
    /\ pc' = [pc EXCEPT ![w] = "executing"]
    /\ held' = [held EXCEPT ![w] = c.task]
    /\ UNCHANGED <<tasks, retry_count>>

\* _find_next_visible when it pops the whole heap without a claim: dequeue waits.
FindNothing(w) ==
    /\ heap' = {i \in heap : PutBack(i)}
    /\ MarkExpired(ExpiredIn(heap))
    /\ status' = ExpiredStatus(ExpiredIn(heap))
    /\ pc' = [pc EXCEPT ![w] = "waiting"]
    /\ UNCHANGED <<tasks, retry_count, held>>

\* dequeue, entered by an idle worker or resumed by one that was notified.
Dequeue(w) ==
    /\ pc[w] = "woken" \/ (pc[w] = "idle" /\ pool = "running")
    /\ ~closed
    /\ \/ \E c \in NextClaims : \E T \in SUBSET TiesBefore(c) :
            Claim(w, c, {i \in heap : Before(i, c)} \cup T)
       \/ (\A i \in heap : ~Claimable(i)) /\ FindNothing(w)
    /\ UNCHANGED <<closed, elapsed, pool>>

\* Mutant of ReturnNone: the wait has no deadline.
ReturnNone_no_deadline(w) ==
    /\ pc[w] = "woken" /\ closed
    /\ pc' = [pc EXCEPT ![w] = "idle"]
    /\ UNCHANGED <<queueVars, closed, elapsed, pool, held>>

\* dequeue returns None: its deadline passed (a notification it had is then lost),
\* or it was notified by shutdown.
ReturnNone(w) ==
    /\ pc[w] \in {"waiting", "woken"}
    /\ pc' = [pc EXCEPT ![w] = "idle"]
    /\ UNCHANGED <<queueVars, closed, elapsed, pool, held>>

\* dequeue of a closed queue returns None without suspending, and so does the next.
Spin(w) ==
    /\ pc[w] = "idle" /\ pool = "running"
    /\ closed
    /\ pc' = [pc EXCEPT ![w] = "spin"]
    /\ UNCHANGED <<queueVars, closed, elapsed, pool, held>>

Release(w) == held' = [held EXCEPT ![w] = NoTask]

\* The executor returned: _process_task calls complete and the worker loops.
Complete(w) ==
    /\ pc[w] = "executing"
    /\ status' = [status EXCEPT ![held[w]] = "completed"]
    /\ results' = [results EXCEPT ![held[w]] = "completed"]
    /\ indexed' = indexed \ {held[w]}
    /\ pc' = [pc EXCEPT ![w] = "idle"]
    /\ Release(w)
    /\ UNCHANGED <<heap, tasks, retry_count, closed, elapsed, pool>>

\* Mutants of can_retry: one retry too many, and one too few.
can_retry_once_more(t) == retry_count[t] <= MaxRetries
can_retry_attempts(t) == retry_count[t] + 1 < MaxRetries

\* TaskPayload.can_retry.
can_retry(t) == retry_count[t] < MaxRetries

\* The executor raised and fail re-enqueues the task, hidden for the backoff delay.
FailRetry(w) ==
    /\ pc[w] = "executing"
    /\ can_retry(held[w])
    /\ retry_count' = [retry_count EXCEPT ![held[w]] = @ + 1]
    /\ status' = [status EXCEPT ![held[w]] = "pending"]
    /\ heap' = heap \cup
         {[task |-> held[w], attempt |-> retry_count[held[w]] + 1, visible |-> FALSE]}
    /\ \/ Waiting = {} /\ pc' = [pc EXCEPT ![w] = "idle"]
       \/ \E v \in Waiting : pc' = [pc EXCEPT ![w] = "idle", ![v] = "woken"]
    /\ Release(w)
    /\ UNCHANGED <<tasks, results, indexed, closed, elapsed, pool>>

\* The executor raised and fail gives the task up.
FailFinal(w) ==
    /\ pc[w] = "executing"
    /\ ~can_retry(held[w])
    /\ status' = [status EXCEPT ![held[w]] = "failed"]
    /\ results' = [results EXCEPT ![held[w]] = "failed"]
    /\ indexed' = indexed \ {held[w]}
    /\ pc' = [pc EXCEPT ![w] = "idle"]
    /\ Release(w)
    /\ UNCHANGED <<heap, tasks, retry_count, closed, elapsed, pool>>

\* Mutant of Cancel: the task stays in the indexes.
Cancel_keeps_index(t) ==
    /\ t \in tasks
    /\ status[t] = "pending"
    /\ status' = [status EXCEPT ![t] = "cancelled"]
    /\ results' = [results EXCEPT ![t] = "cancelled"]
    /\ UNCHANGED <<heap, tasks, retry_count, indexed, closed, elapsed, poolVars>>

\* cancel: the heap keeps the item.
Cancel(t) ==
    /\ t \in tasks
    /\ status[t] = "pending"
    /\ status' = [status EXCEPT ![t] = "cancelled"]
    /\ results' = [results EXCEPT ![t] = "cancelled"]
    /\ indexed' = indexed \ {t}
    /\ UNCHANGED <<heap, tasks, retry_count, closed, elapsed, poolVars>>

ExpiredPending == {t \in tasks : status[t] = "pending" /\ t \in elapsed}

\* clear_expired: the heap keeps the items here too.
ClearExpired ==
    /\ ExpiredPending # {}
    /\ MarkExpired(ExpiredPending)
    /\ status' = ExpiredStatus(ExpiredPending)
    /\ UNCHANGED <<heap, tasks, retry_count, closed, elapsed, poolVars>>

\* shutdown of the queue: notify_all, and nothing waits for the workers.
Shutdown ==
    /\ ~closed
    /\ closed' = TRUE
    /\ pc' = [w \in Workers |-> IF pc[w] = "waiting" THEN "woken" ELSE pc[w]]
    /\ UNCHANGED <<queueVars, elapsed, pool, held>>

-----------------------------------------------------------------------------
(* The pool.                                                               *)

\* start: does nothing while _workers is not empty.
Start ==
    /\ pool = "stopped"
    /\ pool' = "running"
    /\ pc' = [w \in Workers |-> "idle"]
    /\ UNCHANGED <<queueVars, closed, elapsed, held>>

\* stop, up to its wait: the event is set and the pool's lock is kept.
Stop ==
    /\ pool = "running"
    /\ pool' = "stopping"
    /\ UNCHANGED <<queueVars, closed, elapsed, pc, held>>

\* Mutant of Exit: the worker leaves at once, a task in hand or not.
Exit_at_once(w) ==
    /\ pc[w] \in {"idle", "executing"} /\ pool = "stopping"
    /\ pc' = [pc EXCEPT ![w] = "off"]
    /\ Release(w)
    /\ UNCHANGED <<queueVars, closed, elapsed, pool>>

\* A worker sees the event at the top of its loop.
Exit(w) ==
    /\ pc[w] = "idle" /\ pool = "stopping"
    /\ pc' = [pc EXCEPT ![w] = "off"]
    /\ UNCHANGED <<queueVars, closed, elapsed, pool, held>>

\* All workers returned within stop's timeout.
StopDone ==
    /\ pool = "stopping"
    /\ \A w \in Workers : pc[w] = "off"
    /\ pool' = "stopped"
    /\ UNCHANGED <<queueVars, closed, elapsed, pc, held>>

\* stop's timeout: every worker is cancelled where it awaits.  CancelledError is
\* not an Exception: _process_task neither completes nor fails the task.
StopTimeout ==
    /\ pool = "stopping"
    /\ \E w \in Workers : pc[w] # "off"
    /\ pool' = "stopped"
    /\ pc' = [w \in Workers |-> "off"]
    /\ held' = [w \in Workers |-> NoTask]
    /\ UNCHANGED <<queueVars, closed, elapsed>>

-----------------------------------------------------------------------------
(* Time.                                                                   *)

\* The visible_at of t's item passes.
DelayElapses(t) ==
    \E i \in heap :
        /\ i.task = t
        /\ ~i.visible
        /\ heap' = (heap \ {i}) \cup {[i EXCEPT !.visible = TRUE]}
        /\ UNCHANGED <<tasks, status, results, retry_count, indexed, closed, elapsed, poolVars>>

\* t becomes older than its ttl_seconds.  A task that is too old when it is enqueued
\* is one whose limit passes right after.
TtlElapses(t) ==
    /\ t \in tasks \ elapsed
    /\ elapsed' = elapsed \cup {t}
    /\ UNCHANGED <<queueVars, closed, poolVars>>

-----------------------------------------------------------------------------
WorkerStep(w) ==
    \/ Dequeue(w) \/ ReturnNone(w) \/ Spin(w)
    \/ Complete(w) \/ FailRetry(w) \/ FailFinal(w) \/ Exit(w)

CallerStep ==
    \/ \E t \in Tasks, visible \in BOOLEAN : Enqueue(t, visible)
    \/ \E t \in Tasks : Cancel(t)
    \/ ClearExpired \/ Shutdown

PoolStep == Start \/ Stop \/ StopDone \/ StopTimeout

Next ==
    /\ ~Hung
    /\ \/ \E w \in Workers : WorkerStep(w)
       \/ CallerStep
       \/ PoolStep
       \/ \E t \in Tasks : DelayElapses(t) \/ TtlElapses(t)

Spec == Init /\ [][Next]_vars

(***************************************************************************)
(* Fairness.  The event loop resumes every runnable coroutine, timers fire *)
(* (poll_interval bounds each wait, a delay passes), and the executor, one *)
(* websocket send, returns or raises.  Callers, the time-to-live and the   *)
(* pool's owner are not bound to do anything; stop ends once its workers   *)
(* have.                                                                   *)
(***************************************************************************)
Fairness ==
    /\ \A w \in Workers : WF_vars(~Hung /\ WorkerStep(w))
    /\ \A t \in Tasks : WF_vars(~Hung /\ DelayElapses(t))
    /\ WF_vars(~Hung /\ StopDone)

FairSpec == Spec /\ Fairness

-----------------------------------------------------------------------------
(* Properties.                                                             *)

\* fail, dequeue and cancel move a task between _status and _heap in several
\* assignments; none of them may lose a task or queue it twice: a PENDING task has
\* exactly one item in the heap, and what else the heap holds is the leftover of a
\* cancelled or expired task, never of one that runs or ended.
NoLostTask ==
    /\ \A t \in Tasks : status[t] = "pending" => \E i \in heap : i.task = t
    /\ \A i, j \in heap : i.task = j.task => i = j
    /\ \A i \in heap : status[i.task] \in {"pending", "cancelled", "expired"}

\* _find_next_visible claims under the lock: two workers never execute the same
\* task, and the task a worker executes is PROCESSING and no longer in the heap.
OneWorkerPerTask ==
    \A w \in Workers : pc[w] = "executing" =>
        /\ held[w] \in tasks /\ status[held[w]] = "processing"
        /\ \A i \in heap : i.task # held[w]
        /\ \A v \in Workers \ {w} : held[v] # held[w]

\* get_result and the counts of size and pending_by_agent read _results, _by_tenant
\* and _by_agent, which every operation updates beside _status: a result exists for
\* exactly the ended tasks and names their status, and the indexes hold exactly the
\* tasks that are pending or running.
ViewsAgree ==
    \A t \in Tasks :
        /\ results[t] = (IF status[t] \in Terminal THEN status[t] ELSE "none")
        /\ t \in indexed <=> status[t] \in {"pending", "processing"}
        /\ t \in tasks <=> status[t] # "absent"

\* A worker holds a task while it awaits the executor and at no other time, and the
\* workers of a stopped pool have all returned.
PoolConsistent ==
    /\ \A w \in Workers : held[w] \in Tasks <=> pc[w] = "executing"
    /\ pool = "stopped" => \A w \in Workers : pc[w] = "off"

\* The inductive invariant: each part needs the others.  A claim takes a task from no
\* other worker because running tasks have no item (NoLostTask), completing one
\* leaves no item behind because the task was PROCESSING (OneWorkerPerTask), and a
\* restarted pool holds nothing because a stopped one does not (PoolConsistent).
QueueInv == TypeOK /\ NoLostTask /\ OneWorkerPerTask /\ ViewsAgree /\ PoolConsistent

\* A PROCESSING task that no worker executes: nothing in the queue finds it again.
Orphans == {t \in Tasks : status[t] = "processing" /\ \A w \in Workers : held[w] # t}

\* A task is abandoned in PROCESSING by stop's timeout alone, and then for ever: no
\* restart of the pool, no clear_expired and no cancel reaches it.
OrphansOnlyByStopTimeout ==
    [][ /\ Orphans' # Orphans => pool = "stopping" /\ pool' = "stopped"
        /\ Orphans \subseteq Orphans' ]_vars

\* An ended task stays ended, whatever stale item the heap still holds of it; the
\* only later change is that of CANCELLED to EXPIRED.
EndedStaysEnded ==
    [][ \A t \in Tasks :
          /\ status[t] \in {"completed", "failed", "expired"} => status'[t] = status[t]
          /\ status[t] = "cancelled" => status'[t] \in {"cancelled", "expired"} ]_vars

\* t could be claimed: enqueued, not yet too old, not delayed, of the pool's tenant.
Ready(t) ==
    /\ status[t] = "pending" /\ t \notin elapsed /\ ServedHere(t)
    /\ \A i \in heap : i.task = t => i.visible

\* Retries and delays reorder the heap: a worker that claims t passes over no ready
\* task of a smaller priority value, nor of the same value and created earlier.
NoOvertaking ==
    [][ \A t \in Tasks : (status[t] = "pending" /\ status'[t] = "processing") =>
          \A u \in Tasks : Ready(u) =>
             /\ Priority[t] <= Priority[u]
             /\ Priority[t] = Priority[u] => CreatedAt[t] <= CreatedAt[u] ]_vars

\* TaskStatus and retry_count of the queue as the stage and the attempts of
\* TaskLifecycle: the detailed queue keeps the promise of the interface.
StageOf(s) ==
    CASE s = "absent" -> "new"
      [] s = "pending" -> "queued"
      [] s = "processing" -> "taken"
      [] s = "completed" -> "done"
      [] s = "failed" -> "failed"
      [] s \in {"cancelled", "expired"} -> "dropped"

Started == {"processing", "completed", "failed"}
Lifecycle == INSTANCE TaskLifecycle WITH
    stage <- [t \in Tasks |-> StageOf(status[t])],
    attempts <- [t \in Tasks |-> IF status[t] \in Started THEN retry_count[t] + 1 ELSE retry_count[t]]

\* Every step of the queue and of its workers is a step of the life of a task that
\* TaskLifecycle allows (or none): in particular at most max_retries + 1 attempts,
\* FAILED only after the last of them, and no way back from an end.
LifecycleKept == Lifecycle!LifeSpec

\* A pending task of the pool's tenant is not forgotten, although notify wakes one
\* waiter, possibly one whose wait just timed out: it leaves PENDING for good, or
\* the pool or the queue is shut down.
PendingIsServed ==
    \A t \in Tasks :
        (status[t] = "pending" /\ ServedHere(t))
            ~> (status[t] \in Terminal \/ closed \/ pool # "running")

\* stop returns: the workers it waits for are never stuck in dequeue.
StopReturns == (pool = "stopping") ~> (pool = "stopped")

\* ports.py, TaskQueue.shutdown: "Stops accepting new tasks and waits for in-flight
\* tasks."  The tasks in execution when the queue is shut down finish.
ShutdownLetsTasksFinish ==
    \A w \in Workers : (closed /\ pc[w] = "executing") ~> (pc[w] # "executing")

\* memory.py: max_size is the "Maximum queue capacity", and a finished task "no
\* longer exists" in _tasks: enqueue refuses a task only while max_size tasks are
\* pending or running.
FullOnlyWhenBusy ==
    Cardinality(tasks) >= MaxSize =>
        Cardinality({t \in tasks : status[t] \in {"pending", "processing"}}) >= MaxSize
=============================================================================
