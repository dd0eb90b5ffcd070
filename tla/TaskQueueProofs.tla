-------------------------- MODULE TaskQueueProofs --------------------------
(***************************************************************************)
(* Proofs about TaskQueue for any set of tasks, workers and tenants and    *)
(* any retry and size limits: the inductive invariant QueueInv, and with   *)
(* it the safety properties that the runs check on a small instance.       *)
(***************************************************************************)
EXTENDS TaskQueue, TLAPS

\* The initial state: an empty queue and a stopped pool.
LEMMA InitInv == Init => QueueInv
<1> SUFFICES ASSUME Init PROVE QueueInv
  OBVIOUS
<1>1. TypeOK
  <2>1. closed \in BOOLEAN
    BY Zenon DEF Init
  <2>2. retry_count \in [Tasks -> 0..MaxRetries]
    BY BoundAssumption DEF Init
  <2> QED
    BY <2>1, <2>2 DEF Init, TypeOK, TaskStatus, WorkerState
<1>2. NoLostTask /\ OneWorkerPerTask /\ ViewsAgree
  BY DEF Init, NoLostTask, OneWorkerPerTask, ViewsAgree, Terminal
<1>3. PoolConsistent
  BY NoTaskAssumption DEF Init, PoolConsistent
<1> QED
  BY <1>1, <1>2, <1>3 DEF QueueInv

\* Marking the tasks of expired heap items: the part of a sweep that Claim and
\* FindNothing share.  No running task is touched, because it has no item.
LEMMA SweptTasks ==
  ASSUME QueueInv, NEW P \in SUBSET heap
  PROVE  /\ ExpiredIn(P) \in SUBSET Tasks
         /\ ExpiredIn(P) \subseteq tasks
         /\ \A t \in ExpiredIn(P) : status[t] \in {"pending", "cancelled", "expired"}
         /\ \A t \in ExpiredIn(P) : \E i \in P : i.task = t /\ i.visible /\ t \in elapsed
         /\ \A i \in P : ToExpire(i) => i.task \in ExpiredIn(P)
         /\ \A w \in Workers : pc[w] = "executing" => held[w] \notin ExpiredIn(P)
<1>1. \A i \in heap : i.task \in Tasks /\ i.task \in tasks
  BY DEF QueueInv, TypeOK, NoLostTask, ViewsAgree, Item
<1>2. \A t \in ExpiredIn(P) : \E i \in P : i.task = t /\ i.visible /\ t \in elapsed
  BY DEF ExpiredIn, ToExpire
<1>3. \A i \in P : ToExpire(i) => i.task \in ExpiredIn(P)
  BY DEF ExpiredIn
<1>4. \A t \in ExpiredIn(P) : status[t] \in {"pending", "cancelled", "expired"}
  BY <1>2 DEF QueueInv, NoLostTask
<1>5. \A w \in Workers : pc[w] = "executing" => held[w] \notin ExpiredIn(P)
  BY <1>2 DEF QueueInv, OneWorkerPerTask
<1> QED
  BY <1>1, <1>2, <1>3, <1>4, <1>5

\* A claim, whatever the set P of items that were popped in vain.
LEMMA ClaimInv ==
  ASSUME QueueInv, NEW w \in Workers, NEW c \in heap, NEW P \in SUBSET heap,
         Claimable(c), c \notin P, \A i \in P : ~Claimable(i),
         pc[w] \in {"idle", "woken"}, pool # "stopped",
         Claim(w, c, P), UNCHANGED <<closed, elapsed, pool>>
  PROVE  QueueInv'
<1> DEFINE E == ExpiredIn(P)
<1>1. /\ E \in SUBSET Tasks /\ E \subseteq tasks
      /\ \A t \in E : status[t] \in {"pending", "cancelled", "expired"}
      /\ \A t \in E : \E i \in P : i.task = t /\ i.visible /\ t \in elapsed
      /\ \A i \in P : ToExpire(i) => i.task \in E
      /\ \A v \in Workers : pc[v] = "executing" => held[v] \notin E
  BY SweptTasks
<1>2. c.task \in Tasks /\ c.task \in tasks /\ status[c.task] = "pending" /\ c.task \notin E
  <2>1. c.task \in Tasks /\ status[c.task] = "pending" /\ c.task \notin elapsed
    BY DEF Claimable, QueueInv, TypeOK, Item
  <2> QED
    BY <1>1, <2>1 DEF QueueInv, ViewsAgree
<1>3. /\ heap' = (heap \ (P \cup {c})) \cup {i \in P : PutBack(i)}
      /\ heap' \subseteq heap
      /\ c \notin heap'
  BY DEF Claim
<1>4. status' = [t \in Tasks |-> IF t = c.task THEN "processing"
                                ELSE IF t \in E THEN "expired" ELSE status[t]]
  BY <1>2 DEF Claim, ExpiredStatus
<1>5. /\ results' = [t \in Tasks |-> IF t \in E THEN "expired" ELSE results[t]]
      /\ indexed' = indexed \ E
      /\ tasks' = tasks /\ retry_count' = retry_count
      /\ closed' = closed /\ elapsed' = elapsed /\ pool' = pool
  BY DEF Claim, MarkExpired
<1>6. /\ pc' = [pc EXCEPT ![w] = "executing"]
      /\ held' = [held EXCEPT ![w] = c.task]
  BY DEF Claim
<1> HIDE DEF E
<1>7. TypeOK'
  <2> USE DEF QueueInv, TypeOK
  <2>1. heap' \in SUBSET Item
    BY <1>3
  <2>2. status' \in [Tasks -> TaskStatus \cup {"absent"}]
    BY <1>4 DEF TaskStatus
  <2>3. results' \in [Tasks -> Terminal \cup {"none"}]
    BY <1>5 DEF Terminal
  <2>4. pc' \in [Workers -> WorkerState] /\ held' \in [Workers -> Tasks \cup {NoTask}]
    BY <1>2, <1>6 DEF WorkerState
  <2> QED
    BY <1>5, <2>1, <2>2, <2>3, <2>4
<1>8. NoLostTask'
  <2>1. ASSUME NEW t \in Tasks, status'[t] = "pending"
        PROVE  \E i \in heap' : i.task = t
    <3>1. status[t] = "pending" /\ t \notin E /\ t # c.task
      BY <2>1, <1>4
    <3>2. PICK i \in heap : i.task = t
      BY <3>1 DEF QueueInv, NoLostTask
    <3>3. i \in P => PutBack(i)
      BY <3>1, <3>2, <1>1 DEF Claimable, ToExpire, PutBack
    <3> QED
      BY <3>1, <3>2, <3>3, <1>3
  <2>2. \A i, j \in heap' : i.task = j.task => i = j
    BY <1>3 DEF QueueInv, NoLostTask
  <2>3. \A i \in heap' : status'[i.task] \in {"pending", "cancelled", "expired"}
    <3>1. \A i \in heap' : i.task # c.task /\ i.task \in Tasks
      BY <1>3 DEF QueueInv, NoLostTask, TypeOK, Item
    <3> QED
      BY <3>1, <1>3, <1>4 DEF QueueInv, NoLostTask
  <2> QED
    BY <2>1, <2>2, <2>3 DEF NoLostTask
<1>9. OneWorkerPerTask'
  <2>1. \A v \in Workers : pc[v] = "executing" => held[v] # c.task /\ v # w
    BY DEF QueueInv, OneWorkerPerTask
  <2>2. \A v \in Workers : v # w => held'[v] # c.task
    BY <2>1, <1>2, <1>6 DEF QueueInv, PoolConsistent, TypeOK
  <2>3. \A i \in heap' : i.task # c.task
    BY <1>3 DEF QueueInv, NoLostTask
  <2>4. held'[w] = c.task /\ pc'[w] = "executing" /\ status'[c.task] = "processing"
    BY <1>2, <1>4, <1>6 DEF QueueInv, TypeOK
  <2>5. \A v \in Workers : v # w => held'[v] = held[v] /\ pc'[v] = pc[v]
    BY <1>6 DEF QueueInv, TypeOK
  <2>6. ASSUME NEW v \in Workers, v # w, pc'[v] = "executing"
        PROVE  /\ held'[v] \in tasks' /\ status'[held'[v]] = "processing"
               /\ \A i \in heap' : i.task # held'[v]
               /\ \A u \in Workers \ {v} : held'[u] # held'[v]
    <3>1. held[v] \in tasks /\ status[held[v]] = "processing" /\ held[v] \in Tasks
      BY <2>5, <2>6 DEF QueueInv, OneWorkerPerTask, TypeOK
    <3>2. held[v] \notin E /\ held[v] # c.task
      BY <1>1, <2>1, <2>5, <2>6
    <3> QED
      BY <3>1, <3>2, <2>4, <2>5, <2>6, <1>3, <1>4, <1>5 DEF QueueInv, OneWorkerPerTask
  <2> QED
    BY <2>2, <2>3, <2>4, <2>6, <1>2, <1>5 DEF OneWorkerPerTask
<1>10. ViewsAgree'
  BY <1>1, <1>2, <1>4, <1>5 DEF QueueInv, ViewsAgree, Terminal, TypeOK
<1>11. PoolConsistent'
  BY <1>2, <1>5, <1>6, NoTaskAssumption DEF QueueInv, PoolConsistent, TypeOK
<1> QED
  BY <1>7, <1>8, <1>9, <1>10, <1>11 DEF QueueInv

\* A sweep of the whole heap without a claim.
LEMMA FindNothingInv ==
  ASSUME QueueInv, NEW w \in Workers, \A i \in heap : ~Claimable(i),
         pc[w] \in {"idle", "woken"}, pool # "stopped",
         FindNothing(w), UNCHANGED <<closed, elapsed, pool>>
  PROVE  QueueInv'
<1> DEFINE E == ExpiredIn(heap)
<1>1. /\ E \in SUBSET Tasks /\ E \subseteq tasks
      /\ \A t \in E : status[t] \in {"pending", "cancelled", "expired"}
      /\ \A i \in heap : ToExpire(i) => i.task \in E
      /\ \A v \in Workers : pc[v] = "executing" => held[v] \notin E
  BY SweptTasks
<1>2. heap' = {i \in heap : PutBack(i)} /\ heap' \subseteq heap
  BY DEF FindNothing
<1>3. status' = [t \in Tasks |-> IF t \in E THEN "expired" ELSE status[t]]
  BY DEF FindNothing, ExpiredStatus
<1>4. /\ results' = [t \in Tasks |-> IF t \in E THEN "expired" ELSE results[t]]
      /\ indexed' = indexed \ E
      /\ tasks' = tasks /\ retry_count' = retry_count /\ held' = held
      /\ closed' = closed /\ elapsed' = elapsed /\ pool' = pool
      /\ pc' = [pc EXCEPT ![w] = "waiting"]
  BY DEF FindNothing, MarkExpired
<1> HIDE DEF E
<1>5. TypeOK'
  <2>1. heap' \in SUBSET Item
    BY <1>2 DEF QueueInv, TypeOK
  <2>2. status' \in [Tasks -> TaskStatus \cup {"absent"}]
    BY <1>3 DEF QueueInv, TypeOK, TaskStatus
  <2>3. results' \in [Tasks -> Terminal \cup {"none"}] /\ pc' \in [Workers -> WorkerState]
    BY <1>4 DEF QueueInv, TypeOK, Terminal, WorkerState
  <2> QED
    BY <1>4, <2>1, <2>2, <2>3 DEF QueueInv, TypeOK
<1>6. NoLostTask'
  <2>1. ASSUME NEW t \in Tasks, status'[t] = "pending"
        PROVE  \E i \in heap' : i.task = t
    <3>1. status[t] = "pending" /\ t \notin E
      BY <2>1, <1>3
    <3>2. PICK i \in heap : i.task = t
      BY <3>1 DEF QueueInv, NoLostTask
    <3> QED
      BY <3>1, <3>2, <1>1, <1>2 DEF Claimable, ToExpire, PutBack
  <2>2. \A i \in heap' : status'[i.task] \in {"pending", "cancelled", "expired"}
    BY <1>2, <1>3 DEF QueueInv, NoLostTask, TypeOK, Item
  <2> QED
    BY <2>1, <2>2, <1>2 DEF QueueInv, NoLostTask
<1>7. OneWorkerPerTask'
  BY <1>1, <1>2, <1>3, <1>4 DEF QueueInv, OneWorkerPerTask, TypeOK
<1>8. ViewsAgree'
  BY <1>1, <1>3, <1>4 DEF QueueInv, ViewsAgree, Terminal, TypeOK
<1>9. PoolConsistent'
  BY <1>4 DEF QueueInv, PoolConsistent, TypeOK
<1> QED
  BY <1>5, <1>6, <1>7, <1>8, <1>9 DEF QueueInv

\* dequeue: its two outcomes.  An item smaller than a minimal claimable one, or tied
\* with it and popped in vain, is not claimable.
LEMMA DequeueInv ==
  ASSUME QueueInv, NEW w \in Workers, Dequeue(w)
  PROVE  QueueInv'
<1>1. pc[w] \in {"idle", "woken"} /\ pool # "stopped"
  BY DEF Dequeue, QueueInv, PoolConsistent
<1>2. UNCHANGED <<closed, elapsed, pool>>
  BY DEF Dequeue
<1>3. CASE \E c \in NextClaims : \E T \in SUBSET TiesBefore(c) :
             Claim(w, c, {i \in heap : Before(i, c)} \cup T)
  <2>1. PICK c \in NextClaims : \E T \in SUBSET TiesBefore(c) :
             Claim(w, c, {i \in heap : Before(i, c)} \cup T)
    BY <1>3
  <2>2. PICK T \in SUBSET TiesBefore(c) : Claim(w, c, {i \in heap : Before(i, c)} \cup T)
    BY <2>1
  <2> DEFINE P == {i \in heap : Before(i, c)} \cup T
  <2>3. c \in heap /\ Claimable(c) /\ \A j \in heap : Claimable(j) => ~Before(j, c)
    BY DEF NextClaims
  <2>4. P \in SUBSET heap /\ \A i \in P : ~Claimable(i)
    BY <2>3 DEF TiesBefore
  <2>5. c \notin P
    BY <2>3, <2>4
  <2> HIDE DEF P
  <2>6. Claim(w, c, P)
    BY <2>2 DEF P
  <2> QED
    BY <1>1, <1>2, <2>3, <2>4, <2>5, <2>6, ClaimInv
<1>4. CASE (\A i \in heap : ~Claimable(i)) /\ FindNothing(w)
  BY <1>1, <1>2, <1>4, FindNothingInv
<1> QED
  BY <1>3, <1>4 DEF Dequeue

\* Notify changes nothing but a waiting worker into a woken one.
LEMMA NotifyPool ==
  ASSUME QueueInv, Notify
  PROVE  /\ pc' \in [Workers -> WorkerState]
         /\ \A w \in Workers : pc'[w] # pc[w] => pc[w] = "waiting" /\ pc'[w] = "woken"
BY DEF QueueInv, TypeOK, Notify, Waiting, WorkerState

\* enqueue puts a new task and its one item in place.
LEMMA EnqueueInv ==
  ASSUME QueueInv, NEW t \in Tasks, NEW visible \in BOOLEAN, Enqueue(t, visible)
  PROVE  QueueInv'
<1> DEFINE new == [task |-> t, attempt |-> retry_count[t], visible |-> visible]
<1>1. /\ t \notin tasks /\ status[t] = "absent" /\ results[t] = "none"
      /\ \A i \in heap : i.task # t
      /\ \A w \in Workers : held[w] # t
  <2>1. t \notin tasks /\ status[t] = "absent" /\ results[t] = "none"
    BY DEF Enqueue, QueueInv, ViewsAgree, Terminal
  <2>2. \A w \in Workers : held[w] # t
    BY <2>1 DEF QueueInv, OneWorkerPerTask, PoolConsistent
  <2> QED
    BY <2>1, <2>2 DEF QueueInv, NoLostTask
<1>2. new \in Item /\ new.task = t
  BY DEF QueueInv, TypeOK, Item
<1>3. heap' = heap \cup {new} /\ tasks' = tasks \cup {t} /\ indexed' = indexed \cup {t}
  BY DEF Enqueue
<1>4. status' = [status EXCEPT ![t] = "pending"]
  BY DEF Enqueue
<1>5. /\ results' = results /\ retry_count' = retry_count /\ held' = held
      /\ closed' = closed /\ elapsed' = elapsed /\ pool' = pool
  BY DEF Enqueue
<1>6. /\ pc' \in [Workers -> WorkerState]
      /\ \A w \in Workers : pc'[w] # pc[w] => pc[w] = "waiting" /\ pc'[w] = "woken"
  BY NotifyPool DEF Enqueue
<1> HIDE DEF new
<1>7. TypeOK'
  BY <1>2, <1>3, <1>4, <1>5, <1>6 DEF QueueInv, TypeOK, TaskStatus
<1>8. NoLostTask'
  BY <1>1, <1>2, <1>3, <1>4 DEF QueueInv, NoLostTask, TypeOK, Item
<1>9. OneWorkerPerTask'
  BY <1>1, <1>2, <1>3, <1>4, <1>5, <1>6 DEF QueueInv, OneWorkerPerTask, TypeOK
<1>10. ViewsAgree'
  BY <1>1, <1>3, <1>4, <1>5 DEF QueueInv, ViewsAgree, TypeOK, Terminal
<1>11. PoolConsistent'
  BY <1>5, <1>6 DEF QueueInv, PoolConsistent
<1> QED
  BY <1>7, <1>8, <1>9, <1>10, <1>11 DEF QueueInv

\* complete, and fail of a task without retries left: the two ends of an execution.
LEMMA EndInv ==
  ASSUME QueueInv, NEW w \in Workers, NEW s \in {"completed", "failed"},
         pc[w] = "executing",
         status' = [status EXCEPT ![held[w]] = s],
         results' = [results EXCEPT ![held[w]] = s],
         indexed' = indexed \ {held[w]},
         pc' = [pc EXCEPT ![w] = "idle"],
         held' = [held EXCEPT ![w] = NoTask],
         UNCHANGED <<heap, tasks, retry_count, closed, elapsed, pool>>
  PROVE  QueueInv'
<1>1. /\ held[w] \in Tasks /\ held[w] \in tasks /\ status[held[w]] = "processing"
      /\ \A i \in heap : i.task # held[w]
      /\ \A v \in Workers \ {w} : held[v] # held[w]
  BY DEF QueueInv, OneWorkerPerTask, TypeOK
<1>2. TypeOK'
  BY <1>1 DEF QueueInv, TypeOK, TaskStatus, Terminal, WorkerState
<1>3. NoLostTask'
  BY <1>1 DEF QueueInv, NoLostTask, TypeOK, Item
<1>4. OneWorkerPerTask'
  BY <1>1, NoTaskAssumption DEF QueueInv, OneWorkerPerTask, TypeOK
<1>5. ViewsAgree'
  BY <1>1 DEF QueueInv, ViewsAgree, TypeOK, Terminal
<1>6. PoolConsistent'
  BY <1>1, NoTaskAssumption DEF QueueInv, PoolConsistent, TypeOK
<1> QED
  BY <1>2, <1>3, <1>4, <1>5, <1>6 DEF QueueInv

\* fail with a retry left: the running task, which has no item, gets one.
LEMMA FailRetryInv ==
  ASSUME QueueInv, NEW w \in Workers, FailRetry(w)
  PROVE  QueueInv'
<1> DEFINE new == [task |-> held[w], attempt |-> retry_count[held[w]] + 1, visible |-> FALSE]
<1>1. /\ pc[w] = "executing"
      /\ held[w] \in Tasks /\ held[w] \in tasks /\ status[held[w]] = "processing"
      /\ \A i \in heap : i.task # held[w]
      /\ \A v \in Workers \ {w} : held[v] # held[w]
  BY DEF FailRetry, QueueInv, OneWorkerPerTask, TypeOK
<1>2. retry_count[held[w]] + 1 \in 0..MaxRetries
  BY <1>1, BoundAssumption DEF FailRetry, can_retry, QueueInv, TypeOK
<1>3. new \in Item /\ new.task = held[w]
  BY <1>1, <1>2 DEF Item
<1>4. /\ heap' = heap \cup {new}
      /\ status' = [status EXCEPT ![held[w]] = "pending"]
      /\ retry_count' = [retry_count EXCEPT ![held[w]] = @ + 1]
      /\ held' = [held EXCEPT ![w] = NoTask]
      /\ tasks' = tasks /\ results' = results /\ indexed' = indexed
      /\ closed' = closed /\ elapsed' = elapsed /\ pool' = pool
  BY DEF FailRetry, Release
<1>5. /\ pc' \in [Workers -> WorkerState]
      /\ pc'[w] = "idle"
      /\ \A v \in Workers \ {w} : pc'[v] # pc[v] => pc[v] = "waiting" /\ pc'[v] = "woken"
  BY <1>1 DEF FailRetry, QueueInv, TypeOK, Waiting, WorkerState
<1> HIDE DEF new
<1>6. TypeOK'
  <2>1. retry_count' \in [Tasks -> 0..MaxRetries]
    BY <1>1, <1>2, <1>4 DEF QueueInv, TypeOK
  <2> QED
    BY <1>1, <1>3, <1>4, <1>5, <2>1 DEF QueueInv, TypeOK, TaskStatus
<1>7. NoLostTask'
  BY <1>1, <1>3, <1>4 DEF QueueInv, NoLostTask, TypeOK, Item
<1>8. OneWorkerPerTask'
  <2>1. ASSUME NEW v \in Workers, pc'[v] = "executing"
        PROVE  v # w /\ pc[v] = "executing" /\ held'[v] = held[v]
    BY <2>1, <1>1, <1>4, <1>5 DEF QueueInv, TypeOK
  <2> QED
    BY <2>1, <1>1, <1>3, <1>4, NoTaskAssumption DEF QueueInv, OneWorkerPerTask, TypeOK
<1>9. ViewsAgree'
  BY <1>1, <1>4 DEF QueueInv, ViewsAgree, TypeOK, Terminal
<1>10. PoolConsistent'
  BY <1>1, <1>4, <1>5, NoTaskAssumption DEF QueueInv, PoolConsistent, TypeOK
<1> QED
  BY <1>6, <1>7, <1>8, <1>9, <1>10 DEF QueueInv

\* cancel and clear_expired: pending tasks end, and their items stay in the heap.
LEMMA CallerEndInv ==
  ASSUME QueueInv, NEW S \in SUBSET Tasks, NEW s \in {"cancelled", "expired"},
         \A t \in S : status[t] = "pending",
         status' = [t \in Tasks |-> IF t \in S THEN s ELSE status[t]],
         results' = [t \in Tasks |-> IF t \in S THEN s ELSE results[t]],
         indexed' = indexed \ S,
         UNCHANGED <<heap, tasks, retry_count, closed, elapsed, poolVars>>
  PROVE  QueueInv'
<1>1. TypeOK'
  BY DEF QueueInv, TypeOK, TaskStatus, Terminal, poolVars
<1>2. NoLostTask'
  BY DEF QueueInv, NoLostTask, TypeOK, Item
<1>3. OneWorkerPerTask'
  BY DEF QueueInv, OneWorkerPerTask, TypeOK, poolVars
<1>4. ViewsAgree'
  BY DEF QueueInv, ViewsAgree, TypeOK, Terminal
<1>5. PoolConsistent'
  BY DEF QueueInv, PoolConsistent, poolVars
<1> QED
  BY <1>1, <1>2, <1>3, <1>4, <1>5 DEF QueueInv

\* cancel is the case of one task.
LEMMA CancelInv ==
  ASSUME QueueInv, NEW t \in Tasks, Cancel(t)
  PROVE  QueueInv'
<1>1. /\ status' = [u \in Tasks |-> IF u \in {t} THEN "cancelled" ELSE status[u]]
      /\ results' = [u \in Tasks |-> IF u \in {t} THEN "cancelled" ELSE results[u]]
  BY DEF Cancel, QueueInv, TypeOK
<1> QED
  BY <1>1, CallerEndInv DEF Cancel

\* clear_expired is the case of all pending tasks that are too old.
LEMMA ClearExpiredInv ==
  ASSUME QueueInv, ClearExpired
  PROVE  QueueInv'
<1>1. ExpiredPending \in SUBSET Tasks /\ \A t \in ExpiredPending : status[t] = "pending"
  BY DEF ExpiredPending, QueueInv, TypeOK
<1> QED
  BY <1>1, CallerEndInv DEF ClearExpired, MarkExpired, ExpiredStatus

\* The steps of the pool and of a worker that hold no task: the queue is unchanged.
LEMMA PoolOnlyInv ==
  ASSUME QueueInv, UNCHANGED <<queueVars, elapsed>>,
         closed' \in BOOLEAN, pool' \in {"stopped", "running", "stopping"},
         pc' \in [Workers -> WorkerState], held' \in [Workers -> Tasks \cup {NoTask}],
         \A w \in Workers : pc'[w] = "executing" => pc[w] = "executing",
         \A w \in Workers : held'[w] = IF pc'[w] = "executing" THEN held[w] ELSE NoTask,
         pool' = "stopped" => \A w \in Workers : pc'[w] = "off"
  PROVE  QueueInv'
<1>1. TypeOK'
  BY DEF QueueInv, TypeOK, queueVars
<1>2. NoLostTask' /\ ViewsAgree'
  BY DEF QueueInv, NoLostTask, ViewsAgree, queueVars
<1>3. OneWorkerPerTask'
  BY NoTaskAssumption DEF QueueInv, OneWorkerPerTask, TypeOK, queueVars
<1>4. PoolConsistent'
  BY NoTaskAssumption DEF QueueInv, PoolConsistent
<1> QED
  BY <1>1, <1>2, <1>3, <1>4 DEF QueueInv

\* The pool's own steps and the queue's shutdown move every worker at once.
LEMMA PoolChangeInv ==
  ASSUME QueueInv, Shutdown \/ PoolStep
  PROVE  QueueInv'
<1> USE DEF QueueInv, TypeOK, WorkerState
<1>1. \A v \in Workers : held[v] = IF pc[v] = "executing" THEN held[v] ELSE NoTask
  BY DEF PoolConsistent
<1>2. CASE Shutdown
  <2>1. closed' \in BOOLEAN
    BY <1>2, Zenon DEF Shutdown
  <2> QED
    BY <1>1, <1>2, <2>1, PoolOnlyInv DEF Shutdown, PoolConsistent
<1>3. CASE Start
  BY <1>1, <1>3, PoolOnlyInv DEF Start, PoolConsistent
<1>4. CASE Stop
  BY <1>1, <1>4, PoolOnlyInv DEF Stop
<1>5. CASE StopDone
  BY <1>1, <1>5, PoolOnlyInv DEF StopDone
<1>6. CASE StopTimeout
  BY <1>1, <1>6, PoolOnlyInv DEF StopTimeout
<1> QED
  BY <1>2, <1>3, <1>4, <1>5, <1>6 DEF PoolStep

\* A worker without a task moves: it returns from dequeue, spins or leaves.
LEMMA IdleStepInv ==
  ASSUME QueueInv, NEW w \in Workers, ReturnNone(w) \/ Spin(w) \/ Exit(w)
  PROVE  QueueInv'
<1> USE DEF QueueInv, TypeOK, WorkerState
<1>1. \A v \in Workers : held[v] = IF pc[v] = "executing" THEN held[v] ELSE NoTask
  BY DEF PoolConsistent
<1>2. CASE ReturnNone(w)
  BY <1>1, <1>2, PoolOnlyInv DEF ReturnNone, PoolConsistent
<1>3. CASE Spin(w)
  BY <1>1, <1>3, PoolOnlyInv DEF Spin
<1>4. CASE Exit(w)
  BY <1>1, <1>4, PoolOnlyInv DEF Exit
<1> QED
  BY <1>2, <1>3, <1>4

\* Time: an item becomes visible in place, and a task's age passes its limit.
LEMMA TimeInv ==
  ASSUME QueueInv, NEW t \in Tasks, DelayElapses(t) \/ TtlElapses(t)
  PROVE  QueueInv'
<1>1. CASE DelayElapses(t)
  <2>1. PICK i \in heap :
          /\ i.task = t
          /\ heap' = (heap \ {i}) \cup {[i EXCEPT !.visible = TRUE]}
          /\ UNCHANGED <<tasks, status, results, retry_count, indexed, closed, elapsed, poolVars>>
    BY <1>1 DEF DelayElapses
  <2> DEFINE new == [i EXCEPT !.visible = TRUE]
  <2>2. new \in Item /\ new.task = i.task
    BY DEF QueueInv, TypeOK, Item
  <2>3. heap' = (heap \ {i}) \cup {new}
    BY <2>1
  <2> HIDE DEF new
  <2>4. TypeOK'
    BY <2>1, <2>2, <2>3 DEF QueueInv, TypeOK, poolVars
  <2>5. NoLostTask'
    BY <2>1, <2>2, <2>3 DEF QueueInv, NoLostTask
  <2>6. OneWorkerPerTask'
    BY <2>1, <2>2, <2>3 DEF QueueInv, OneWorkerPerTask, poolVars
  <2>7. ViewsAgree' /\ PoolConsistent'
    BY <2>1 DEF QueueInv, ViewsAgree, PoolConsistent, poolVars
  <2> QED
    BY <2>4, <2>5, <2>6, <2>7 DEF QueueInv
<1>2. CASE TtlElapses(t)
  BY <1>2 DEF TtlElapses, QueueInv, TypeOK, NoLostTask, OneWorkerPerTask, ViewsAgree,
              PoolConsistent, queueVars, poolVars
<1> QED
  BY <1>1, <1>2

\* Every step preserves the invariant.
LEMMA NextInv == QueueInv /\ [Next]_vars => QueueInv'
<1> SUFFICES ASSUME QueueInv, [Next]_vars PROVE QueueInv'
  OBVIOUS
<1>1. CASE UNCHANGED vars
  BY <1>1 DEF vars, queueVars, poolVars, QueueInv, TypeOK, NoLostTask, OneWorkerPerTask,
              ViewsAgree, PoolConsistent
<1>2. CASE \E w \in Workers : WorkerStep(w)
  <2>1. PICK w \in Workers : WorkerStep(w)
    BY <1>2
  <2>2. CASE Dequeue(w)
    BY <2>2, DequeueInv
  <2>3. CASE ReturnNone(w) \/ Spin(w) \/ Exit(w)
    BY <2>3, IdleStepInv
  <2>4. CASE Complete(w)
    BY <2>4, EndInv DEF Complete, Release
  <2>5. CASE FailFinal(w)
    BY <2>5, EndInv DEF FailFinal, Release
  <2>6. CASE FailRetry(w)
    BY <2>6, FailRetryInv
  <2> QED
    BY <2>1, <2>2, <2>3, <2>4, <2>5, <2>6 DEF WorkerStep
<1>3. CASE CallerStep
  <2>1. CASE \E t \in Tasks, visible \in BOOLEAN : Enqueue(t, visible)
    BY <2>1, EnqueueInv
  <2>2. CASE \E t \in Tasks : Cancel(t)
    BY <2>2, CancelInv
  <2>3. CASE ClearExpired
    BY <2>3, ClearExpiredInv
  <2>4. CASE Shutdown
    BY <2>4, PoolChangeInv
  <2> QED
    BY <1>3, <2>1, <2>2, <2>3, <2>4 DEF CallerStep
<1>4. CASE PoolStep
  BY <1>4, PoolChangeInv
<1>5. CASE \E t \in Tasks : DelayElapses(t) \/ TtlElapses(t)
  BY <1>5, TimeInv
<1> QED
  BY <1>1, <1>2, <1>3, <1>4, <1>5 DEF Next

\* Type correctness and the safety of the queue: no task is lost or queued twice,
\* none is executed by two workers, and the results and indexes agree with the
\* statuses, for every number of tasks, workers and tenants.
THEOREM QueueSafe ==
  Spec => [](TypeOK /\ NoLostTask /\ OneWorkerPerTask /\ ViewsAgree)
<1>1. QueueInv => TypeOK /\ NoLostTask /\ OneWorkerPerTask /\ ViewsAgree
  BY DEF QueueInv
<1> QED
  BY <1>1, InitInv, NextInv, PTL DEF Spec
-----------------------------------------------------------------------------
(* The queue implements the life of a task that its interface promises.    *)

Stage == [t \in Tasks |-> StageOf(status[t])]
Attempts == [t \in Tasks |-> IF status[t] \in Started THEN retry_count[t] + 1 ELSE retry_count[t]]

\* The status of one task changes: so does its stage, and the attempts stay where they
\* are if the task's own do.
LEMMA OneStage ==
  ASSUME QueueInv, NEW t \in Tasks, NEW s, status' = [status EXCEPT ![t] = s]
  PROVE  Stage' = [Stage EXCEPT ![t] = StageOf(s)]
BY DEF Stage, QueueInv, TypeOK

\* A status change that starts no execution leaves the attempts as they are.
LEMMA SameAttempts ==
  ASSUME QueueInv, NEW t \in Tasks, NEW s, status' = [status EXCEPT ![t] = s],
         \A u \in Tasks \ {t} : retry_count'[u] = retry_count[u],
         (IF s \in Started THEN retry_count'[t] + 1 ELSE retry_count'[t]) = Attempts[t]
  PROVE  Attempts' = Attempts
<1>1. \A u \in Tasks \ {t} : status'[u] = status[u]
  BY DEF QueueInv, TypeOK
<1>2. status'[t] = s
  BY DEF QueueInv, TypeOK
<1> QED
  BY <1>1, <1>2 DEF Attempts

\* A sweep that expires the tasks of E and claims c's task is a Take.
LEMMA ClaimIsTake ==
  ASSUME QueueInv, NEW w \in Workers, NEW c \in heap, NEW P \in SUBSET heap,
         Claimable(c), Claim(w, c, P)
  PROVE  Lifecycle!LifeNext
<1> DEFINE E == ExpiredIn(P)
           S == {t \in E : status[t] = "pending"}
<1>1. /\ E \in SUBSET Tasks
      /\ \A t \in E : status[t] \in {"pending", "cancelled", "expired"}
      /\ \A t \in E : t \in elapsed
  BY SweptTasks
<1>2. c.task \in Tasks /\ status[c.task] = "pending" /\ c.task \notin E
  BY <1>1 DEF Claimable, QueueInv, TypeOK, Item
<1>3. status' = [t \in Tasks |-> IF t = c.task THEN "processing"
                                ELSE IF t \in E THEN "expired" ELSE status[t]]
  BY <1>2 DEF Claim, ExpiredStatus
<1>4. retry_count' = retry_count
  BY DEF Claim
<1> HIDE DEF E
<1>5. Stage' = [u \in Tasks |->
                  IF u = c.task THEN "taken" ELSE IF u \in S THEN "dropped" ELSE Stage[u]]
  BY <1>1, <1>2, <1>3 DEF Stage, StageOf, QueueInv, TypeOK, TaskStatus
<1>6. Attempts' = [Attempts EXCEPT ![c.task] = @ + 1]
  BY <1>1, <1>2, <1>3, <1>4 DEF Attempts, Started, QueueInv, TypeOK
<1>7. S \in SUBSET Tasks /\ S \subseteq Lifecycle!Queued /\ c.task \in Lifecycle!Queued \ S
  BY <1>1, <1>2 DEF Lifecycle!Queued, StageOf
<1>8. PICK u \in Tasks, D \in SUBSET Tasks : u = c.task /\ D = S
  BY <1>2, <1>7
<1>9. Lifecycle!Take(u, D)
  BY <1>5, <1>6, <1>7, <1>8 DEF Lifecycle!Take, Stage, Attempts
<1> QED
  BY <1>9 DEF Lifecycle!LifeNext

\* Tasks that end in CANCELLED or EXPIRED, all pending or already there: a Drop, or no
\* change at all.
LEMMA EndingIsDrop ==
  ASSUME QueueInv, NEW S \in SUBSET Tasks, NEW s \in {"cancelled", "expired"},
         \A t \in S : status[t] \in {"pending", "cancelled", "expired"},
         status' = [t \in Tasks |-> IF t \in S THEN s ELSE status[t]],
         retry_count' = retry_count
  PROVE  Lifecycle!LifeNext \/ UNCHANGED Lifecycle!lifeVars
<1> DEFINE D == {t \in S : status[t] = "pending"}
<1>1. Stage' = [t \in Tasks |-> IF t \in D THEN "dropped" ELSE Stage[t]]
  BY DEF Stage, StageOf, QueueInv, TypeOK, TaskStatus
<1>2. Attempts' = Attempts
  BY DEF Attempts, Started, QueueInv, TypeOK
<1>3. D \in SUBSET Tasks /\ D \subseteq Lifecycle!Queued
  BY DEF Lifecycle!Queued, StageOf
<1>4. CASE D = {}
  <2>1. Stage' = Stage
    BY <1>1, <1>4 DEF Stage
  <2> QED
    BY <2>1, <1>2 DEF Lifecycle!lifeVars, Stage, Attempts
<1>5. CASE D # {}
  <2>1. Lifecycle!Drop(D)
    BY <1>1, <1>2, <1>3, <1>5 DEF Lifecycle!Drop, Stage, Attempts
  <2> QED
    BY <2>1, <1>3 DEF Lifecycle!LifeNext
<1> QED
  BY <1>4, <1>5

\* The ends and the retry of an execution.
LEMMA ExecutionIsStage ==
  ASSUME QueueInv, NEW w \in Workers, Complete(w) \/ FailRetry(w) \/ FailFinal(w)
  PROVE  Lifecycle!LifeNext
<1> DEFINE t == held[w]
<1>1. /\ t \in Tasks /\ status[t] = "processing" /\ Stage[t] = "taken"
      /\ retry_count[t] \in 0..MaxRetries /\ Attempts[t] = retry_count[t] + 1
  <2>1. t \in Tasks /\ status[t] = "processing"
    BY DEF Complete, FailRetry, FailFinal, QueueInv, OneWorkerPerTask, TypeOK
  <2> QED
    BY <2>1 DEF Stage, StageOf, Attempts, Started, QueueInv, TypeOK
<1>2. CASE Complete(w)
  <2>1. Stage' = [Stage EXCEPT ![t] = "done"]
    BY <1>1, <1>2, OneStage DEF Complete, StageOf
  <2>2. Attempts' = Attempts
    BY <1>1, <1>2, SameAttempts DEF Complete, Started
  <2>3. Lifecycle!Finish(t)
    BY <1>1, <2>1, <2>2 DEF Lifecycle!Finish, Stage, Attempts
  <2> QED
    BY <1>1, <2>3 DEF Lifecycle!LifeNext
<1>3. CASE FailRetry(w)
  <2>1. Stage' = [Stage EXCEPT ![t] = "queued"]
    BY <1>1, <1>3, OneStage DEF FailRetry, StageOf
  <2>2. Attempts' = Attempts
    <3>1. retry_count'[t] = retry_count[t] + 1
      BY <1>1, <1>3 DEF FailRetry, QueueInv, TypeOK
    <3>2. \A u \in Tasks \ {t} : retry_count'[u] = retry_count[u]
      BY <1>1, <1>3 DEF FailRetry, QueueInv, TypeOK
    <3> QED
      BY <1>1, <1>3, <3>1, <3>2, SameAttempts DEF FailRetry, Started
  <2>3. Attempts[t] <= MaxRetries
    BY <1>1, <1>3, BoundAssumption DEF FailRetry, can_retry
  <2>4. Lifecycle!Retry(t)
    BY <1>1, <2>1, <2>2, <2>3 DEF Lifecycle!Retry, Stage, Attempts
  <2> QED
    BY <1>1, <2>4 DEF Lifecycle!LifeNext
<1>4. CASE FailFinal(w)
  <2>1. Stage' = [Stage EXCEPT ![t] = "failed"]
    BY <1>1, <1>4, OneStage DEF FailFinal, StageOf
  <2>2. Attempts' = Attempts
    BY <1>1, <1>4, SameAttempts DEF FailFinal, Started
  <2>3. Attempts[t] = MaxRetries + 1
    BY <1>1, <1>4, BoundAssumption DEF FailFinal, can_retry
  <2>4. Lifecycle!GiveUp(t)
    BY <1>1, <2>1, <2>2, <2>3 DEF Lifecycle!GiveUp, Stage, Attempts
  <2> QED
    BY <1>1, <2>4 DEF Lifecycle!LifeNext
<1> QED
  BY <1>2, <1>3, <1>4

\* enqueue submits the task, and tells no other one.
LEMMA EnqueueIsSubmit ==
  ASSUME QueueInv, NEW t \in Tasks, NEW visible \in BOOLEAN, Enqueue(t, visible)
  PROVE  Lifecycle!LifeNext
<1>1. status[t] = "absent"
  BY DEF Enqueue, QueueInv, ViewsAgree
<1>2. Stage' = [Stage EXCEPT ![t] = "queued"] /\ Attempts' = Attempts
  <2>1. Attempts[t] = retry_count[t]
    BY <1>1 DEF Attempts, Started
  <2>2. Attempts' = Attempts
    BY <2>1, SameAttempts DEF Enqueue, Started
  <2> QED
    BY <2>2, OneStage DEF Enqueue, StageOf
<1>3. Lifecycle!Submit(t)
  BY <1>1, <1>2 DEF Lifecycle!Submit, Stage, StageOf, Attempts
<1> QED
  BY <1>3 DEF Lifecycle!LifeNext

\* Every step of the queue is a step of the life of a task, or changes none.
LEMMA NextIsLifeNext ==
  QueueInv /\ [Next]_vars => [Lifecycle!LifeNext]_(Lifecycle!lifeVars)
<1> SUFFICES ASSUME QueueInv, [Next]_vars
             PROVE  Lifecycle!LifeNext \/ UNCHANGED Lifecycle!lifeVars
  OBVIOUS
<1>1. CASE UNCHANGED <<status, retry_count>>
  BY <1>1 DEF Lifecycle!lifeVars
<1>2. CASE \E w \in Workers : WorkerStep(w)
  <2>1. PICK w \in Workers : WorkerStep(w)
    BY <1>2
  <2>2. CASE Dequeue(w)
    <3>1. CASE \E c \in NextClaims : \E T \in SUBSET TiesBefore(c) :
                 Claim(w, c, {i \in heap : Before(i, c)} \cup T)
      BY <3>1, ClaimIsTake DEF NextClaims, TiesBefore
    <3>2. CASE FindNothing(w)
      BY <3>2, SweptTasks, EndingIsDrop DEF FindNothing, ExpiredStatus
    <3> QED
      BY <2>2, <3>1, <3>2 DEF Dequeue
  <2>3. CASE Complete(w) \/ FailRetry(w) \/ FailFinal(w)
    BY <2>3, ExecutionIsStage
  <2>4. CASE ReturnNone(w) \/ Spin(w) \/ Exit(w)
    BY <2>4, <1>1 DEF ReturnNone, Spin, Exit, queueVars
  <2> QED
    BY <2>1, <2>2, <2>3, <2>4 DEF WorkerStep
<1>3. CASE CallerStep
  <2>1. CASE \E t \in Tasks, visible \in BOOLEAN : Enqueue(t, visible)
    BY <2>1, EnqueueIsSubmit
  <2>2. ASSUME NEW t \in Tasks, Cancel(t)
        PROVE  Lifecycle!LifeNext \/ UNCHANGED Lifecycle!lifeVars
    <3>1. status' = [u \in Tasks |-> IF u \in {t} THEN "cancelled" ELSE status[u]]
      BY <2>2 DEF Cancel, QueueInv, TypeOK
    <3> QED
      BY <2>2, <3>1, EndingIsDrop DEF Cancel
  <2>3. CASE ClearExpired
    <3>1. ExpiredPending \in SUBSET Tasks /\ \A t \in ExpiredPending : status[t] = "pending"
      BY DEF ExpiredPending, QueueInv, TypeOK
    <3> QED
      BY <2>3, <3>1, EndingIsDrop DEF ClearExpired, ExpiredStatus
  <2>4. CASE Shutdown
    BY <2>4, <1>1 DEF Shutdown, queueVars
  <2> QED
    BY <1>3, <2>1, <2>2, <2>3, <2>4 DEF CallerStep
<1>4. CASE PoolStep
  BY <1>4, <1>1 DEF PoolStep, Start, Stop, StopDone, StopTimeout, queueVars
<1>5. CASE \E t \in Tasks : DelayElapses(t) \/ TtlElapses(t)
  BY <1>5, <1>1 DEF DelayElapses, TtlElapses, queueVars
<1>6. CASE UNCHANGED vars
  BY <1>6, <1>1 DEF vars, queueVars
<1> QED
  BY <1>2, <1>3, <1>4, <1>5, <1>6 DEF Next

\* The in-memory queue with its workers keeps the promise of the interface: at most
\* max_retries + 1 executions, FAILED only after the last, one taker at a time and
\* no way back from an end, however callers, workers, time and stop interleave.
THEOREM QueueImplementsLifecycle == Spec => LifecycleKept
<1>1. Init => Lifecycle!LifeInit
  BY DEF Init, Lifecycle!LifeInit, StageOf, Started
<1> QED
  BY <1>1, InitInv, NextInv, NextIsLifeNext, PTL DEF Spec, LifecycleKept, Lifecycle!LifeSpec

-----------------------------------------------------------------------------
(* What a step may never do.                                               *)

\* The status of a task changes along these lines only.
Move(t) ==
  \/ status'[t] = status[t]
  \/ status[t] = "absent" /\ status'[t] = "pending"
  \/ status[t] = "pending" /\ status'[t] \in {"processing", "cancelled", "expired"}
  \/ status[t] = "processing" /\ status'[t] \in {"completed", "failed", "pending"}
  \/ status[t] = "cancelled" /\ status'[t] = "expired"

\* A claim: what became of every task, in terms of the item c that was claimed.
LEMMA DequeueEffect ==
  ASSUME QueueInv, NEW w \in Workers, Dequeue(w)
  PROVE  /\ \A t \in Tasks : Move(t)
         /\ \A t \in Tasks : status[t] # "processing" /\ status'[t] = "processing" =>
               /\ held'[w] = t
               /\ \E c \in NextClaims : c.task = t
         /\ \A t \in Tasks : status[t] = "processing" => status'[t] = "processing"
         /\ \A v \in Workers : pc[v] = "executing" => held'[v] = held[v]
         /\ \A v \in Workers : v # w => held'[v] = held[v]
         /\ held'[w] = held[w] \/ status[held'[w]] = "pending"
<1>1. \A i \in heap : i.task \in Tasks
  BY DEF QueueInv, TypeOK, Item
<1>2. pc[w] # "executing"
  BY DEF Dequeue
<1>3. CASE \E c \in NextClaims : \E T \in SUBSET TiesBefore(c) :
             Claim(w, c, {i \in heap : Before(i, c)} \cup T)
  <2>1. PICK c \in NextClaims : \E T \in SUBSET TiesBefore(c) :
             Claim(w, c, {i \in heap : Before(i, c)} \cup T)
    BY <1>3
  <2>2. PICK T \in SUBSET TiesBefore(c) : Claim(w, c, {i \in heap : Before(i, c)} \cup T)
    BY <2>1
  <2> DEFINE P == {i \in heap : Before(i, c)} \cup T
             E == ExpiredIn(P)
  <2>3. P \in SUBSET heap /\ c \in heap /\ Claimable(c)
    BY DEF TiesBefore, NextClaims
  <2>4. E \in SUBSET Tasks /\ \A t \in E : status[t] \in {"pending", "cancelled", "expired"}
    BY <2>3, SweptTasks
  <2>5. c.task \in Tasks /\ status[c.task] = "pending"
    BY <2>3, <1>1 DEF Claimable
  <2>6. /\ status' = [t \in Tasks |-> IF t = c.task THEN "processing"
                                   ELSE IF t \in E THEN "expired" ELSE status[t]]
        /\ held' = [held EXCEPT ![w] = c.task]
    BY <2>2, <2>5 DEF Claim, ExpiredStatus
  <2> HIDE DEF P, E
  <2> QED
    BY <2>1, <2>4, <2>5, <2>6, <1>2 DEF Move, QueueInv, TypeOK
<1>4. CASE FindNothing(w)
  <2> DEFINE E == ExpiredIn(heap)
  <2>1. E \in SUBSET Tasks /\ \A t \in E : status[t] \in {"pending", "cancelled", "expired"}
    BY SweptTasks
  <2>2. /\ status' = [t \in Tasks |-> IF t \in E THEN "expired" ELSE status[t]]
        /\ held' = held
    BY <1>4 DEF FindNothing, ExpiredStatus
  <2> HIDE DEF E
  <2> QED
    BY <2>1, <2>2 DEF Move
<1> QED
  BY <1>3, <1>4 DEF Dequeue

\* The moves of the other steps; none of them makes a task PROCESSING.
LEMMA OtherEffect ==
  ASSUME QueueInv, [Next]_vars, ~\E w \in Workers : Dequeue(w)
  PROVE  \A t \in Tasks : Move(t) /\ (status[t] # "processing" => status'[t] # "processing")
<1>1. CASE status' = status
  BY <1>1 DEF Move
<1>2. CASE \E w \in Workers : Complete(w) \/ FailRetry(w) \/ FailFinal(w)
  <2>1. PICK w \in Workers : Complete(w) \/ FailRetry(w) \/ FailFinal(w)
    BY <1>2
  <2>2. PICK s \in {"completed", "failed", "pending"} : status' = [status EXCEPT ![held[w]] = s]
    BY <2>1 DEF Complete, FailRetry, FailFinal
  <2>3. held[w] \in Tasks /\ status[held[w]] = "processing"
    BY <2>1 DEF Complete, FailRetry, FailFinal, QueueInv, OneWorkerPerTask, TypeOK
  <2> QED
    BY <2>2, <2>3 DEF Move, QueueInv, TypeOK
<1>3. CASE \E t \in Tasks, visible \in BOOLEAN : Enqueue(t, visible)
  BY <1>3 DEF Enqueue, Move, QueueInv, TypeOK, ViewsAgree
<1>4. CASE \E t \in Tasks : Cancel(t)
  BY <1>4 DEF Cancel, Move, QueueInv, TypeOK
<1>5. CASE ClearExpired
  BY <1>5 DEF ClearExpired, ExpiredStatus, ExpiredPending, Move
<1>6. CASE UNCHANGED vars \/ PoolStep \/ Shutdown
  BY <1>1, <1>6 DEF vars, queueVars, PoolStep, Start, Stop, StopDone, StopTimeout, Shutdown
<1>7. CASE \E w \in Workers : ReturnNone(w) \/ Spin(w) \/ Exit(w)
  BY <1>1, <1>7 DEF ReturnNone, Spin, Exit, queueVars
<1>8. CASE \E t \in Tasks : DelayElapses(t) \/ TtlElapses(t)
  BY <1>1, <1>8 DEF DelayElapses, TtlElapses, queueVars
<1> QED
  BY <1>2, <1>3, <1>4, <1>5, <1>6, <1>7, <1>8 DEF Next, WorkerStep, CallerStep

\* An ended task stays ended, except that CANCELLED may become EXPIRED: no stale heap
\* item, late completion or retry revives it.
THEOREM EndsAreFinal == Spec => EndedStaysEnded
<1>1. ASSUME QueueInv, [Next]_vars
      PROVE  \A t \in Tasks :
               /\ status[t] \in {"completed", "failed", "expired"} => status'[t] = status[t]
               /\ status[t] = "cancelled" => status'[t] \in {"cancelled", "expired"}
  <2>1. \A t \in Tasks : Move(t)
    BY <1>1, DequeueEffect, OtherEffect
  <2> QED
    BY <2>1 DEF Move
<1> QED
  BY <1>1, InitInv, NextInv, PTL DEF Spec, EndedStaysEnded

\* A claim passes over no ready task of a better priority, nor an older one of the
\* same priority: every ready task has a visible item in the heap (NoLostTask), and
\* the claimed item is minimal among the claimable ones.
THEOREM ClaimsInOrder == Spec => NoOvertaking
<1>1. ASSUME QueueInv, [Next]_vars,
             NEW t \in Tasks, status[t] = "pending", status'[t] = "processing",
             NEW u \in Tasks, Ready(u)
      PROVE  /\ Priority[t] <= Priority[u]
             /\ Priority[t] = Priority[u] => CreatedAt[t] <= CreatedAt[u]
  <2>1. PICK w \in Workers : Dequeue(w)
    BY <1>1, OtherEffect
  <2>2. PICK c \in NextClaims : c.task = t
    BY <1>1, <2>1, DequeueEffect
  <2>3. PICK i \in heap : i.task = u
    BY <1>1 DEF Ready, QueueInv, NoLostTask
  <2>4. Claimable(i)
    BY <1>1, <2>3 DEF Ready, Claimable
  <2>5. ~Before(i, c)
    BY <2>4, <2>3, <2>2 DEF NextClaims
  <2>6. /\ Priority[t] \in Nat /\ Priority[u] \in Nat
        /\ CreatedAt[t] \in Nat /\ CreatedAt[u] \in Nat
    BY <1>1, OrderAssumption
  <2> QED
    BY <2>2, <2>3, <2>5, <2>6 DEF Before
<1>2. ASSUME QueueInv, [Next]_vars
      PROVE  \A t \in Tasks : (status[t] = "pending" /\ status'[t] = "processing") =>
               \A u \in Tasks : Ready(u) =>
                 /\ Priority[t] <= Priority[u]
                 /\ Priority[t] = Priority[u] => CreatedAt[t] <= CreatedAt[u]
  BY <1>1, <1>2
<1> QED
  BY <1>2, InitInv, NextInv, PTL DEF Spec, NoOvertaking

\* A task is left in PROCESSING without a worker by stop's timeout alone, and no later
\* step takes it out of there.
THEOREM OrphansByTimeout == Spec => OrphansOnlyByStopTimeout
<1>1. ASSUME QueueInv, [Next]_vars
      PROVE  /\ Orphans' # Orphans => pool = "stopping" /\ pool' = "stopped"
             /\ Orphans \subseteq Orphans'
  <2>1. CASE \E w \in Workers : Dequeue(w)
    <3>1. PICK w \in Workers : Dequeue(w)
      BY <2>1
    <3>2. \A t \in Orphans : t \in Orphans'
      BY <1>1, <3>1, DequeueEffect DEF Orphans
    <3>3. ASSUME NEW t \in Orphans'
          PROVE  t \in Orphans
      <4>1. t \in Tasks /\ status'[t] = "processing" /\ \A v \in Workers : held'[v] # t
        BY <3>3 DEF Orphans
      <4>2. status[t] = "processing"
        BY <1>1, <3>1, <4>1, DequeueEffect
      <4>3. held[w] # t
        BY <1>1, <3>1, <4>1, <4>2 DEF Dequeue, QueueInv, PoolConsistent
      <4> QED
        BY <1>1, <3>1, <4>1, <4>2, <4>3, DequeueEffect DEF Orphans
    <3> QED
      BY <3>2, <3>3
  <2>2. CASE UNCHANGED <<status, held>>
    BY <2>2 DEF Orphans
  <2>3. CASE \E w \in Workers : Complete(w) \/ FailRetry(w) \/ FailFinal(w)
    <3>1. PICK w \in Workers : Complete(w) \/ FailRetry(w) \/ FailFinal(w)
      BY <2>3
    <3>2. PICK s \in {"completed", "failed", "pending"} : status' = [status EXCEPT ![held[w]] = s]
      BY <3>1 DEF Complete, FailRetry, FailFinal
    <3>3. held' = [held EXCEPT ![w] = NoTask]
      BY <3>1 DEF Complete, FailRetry, FailFinal, Release
    <3>4. held[w] \in Tasks
      BY <1>1, <3>1 DEF Complete, FailRetry, FailFinal, QueueInv, PoolConsistent
    <3> QED
      BY <1>1, <3>2, <3>3, <3>4, NoTaskAssumption DEF Orphans, QueueInv, TypeOK
  <2>4. CASE \E t \in Tasks, visible \in BOOLEAN : Enqueue(t, visible)
    BY <1>1, <2>4 DEF Enqueue, Orphans, QueueInv, TypeOK, ViewsAgree
  <2>5. CASE \E t \in Tasks : Cancel(t)
    BY <1>1, <2>5 DEF Cancel, Orphans, QueueInv, TypeOK, poolVars
  <2>6. CASE ClearExpired
    BY <2>6 DEF ClearExpired, ExpiredStatus, ExpiredPending, Orphans, poolVars
  <2>7. CASE StopTimeout
    BY <2>7, NoTaskAssumption DEF StopTimeout, Orphans, queueVars
  <2>8. CASE UNCHANGED vars \/ Start \/ Stop \/ StopDone \/ Shutdown
    BY <2>2, <2>8 DEF vars, queueVars, poolVars, Start, Stop, StopDone, Shutdown
  <2>9. CASE \E w \in Workers : ReturnNone(w) \/ Spin(w) \/ Exit(w)
    BY <2>2, <2>9 DEF ReturnNone, Spin, Exit, queueVars
  <2>10. CASE \E t \in Tasks : DelayElapses(t) \/ TtlElapses(t)
    BY <2>2, <2>10 DEF DelayElapses, TtlElapses, queueVars, poolVars
  <2> QED
    BY <1>1, <2>1, <2>3, <2>4, <2>5, <2>6, <2>7, <2>8, <2>9, <2>10
       DEF Next, WorkerStep, CallerStep, PoolStep
<1> QED
  BY <1>1, InitInv, NextInv, PTL DEF Spec, OrphansOnlyByStopTimeout
=============================================================================
