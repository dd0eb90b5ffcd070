------------------------ MODULE RedisTaskQueueProofs ------------------------
(***************************************************************************)
(* Proofs about RedisTaskQueue, for any tasks, workers, priorities and     *)
(* retries, and any number of faults.  The ways of losing a task need no   *)
(* invariant but the types: whatever else a worker or a caller does with a *)
(* task leaves it in a stream, in the sorted set, in its hand, or in a     *)
(* final status.  That only a move duplicates a task rests on FreshInv: a  *)
(* task that is being enqueued is nowhere yet.                             *)
(***************************************************************************)
EXTENDS RedisTaskQueue, FiniteSetTheorems, TLAPS

-----------------------------------------------------------------------------
(* Types.                                                                  *)

LEMMA SeqIs ==
  ASSUME NEW S, NEW s \in Seq(S)
  PROVE  /\ \A t \in S : Append(s, t) \in Seq(S)
         /\ s # <<>> => Head(s) \in S /\ Tail(s) \in Seq(S)
OBVIOUS

LEMMA InitType == Init => TypeOK
BY LevelAssumption, BoundAssumption
   DEF Init, TypeOK, Status, WorkerState, Holding

\* What a worker with a task in hand needs, and what putting it down does.
LEMMA ReleaseType ==
  ASSUME TypeOK, NEW w \in Workers, Release(w)
  PROVE  /\ pc' \in [Workers -> WorkerState]
         /\ item' \in [Workers -> Tasks \cup {NoTask}]
         /\ \A v \in Workers : item'[v] = NoTask <=> pc'[v] \in {"idle", "moving", "polling"}
         /\ level' \in [Workers -> 1..Levels]
         /\ seen' \in [Workers -> 0..MaxRetries]
<1>1. 1 \in 1..Levels /\ 0 \in 0..MaxRetries
  BY LevelAssumption, BoundAssumption
<1> QED
  BY <1>1 DEF TypeOK, Release, WorkerState, Holding

LEMMA ContinueType ==
  ASSUME TypeOK, NEW w \in Workers, Continue(w)
  PROVE  /\ pc' \in [Workers -> WorkerState]
         /\ item' \in [Workers -> Tasks \cup {NoTask}]
         /\ \A v \in Workers : item'[v] = NoTask <=> pc'[v] \in {"idle", "moving", "polling"}
         /\ level' \in [Workers -> 1..Levels]
<1>1. /\ 1 \in 1..Levels /\ Levels \in Nat /\ level[w] \in 1..Levels
      /\ level[w] < Levels => level[w] + 1 \in 1..Levels
  BY LevelAssumption DEF TypeOK
<1>2. level' \in [Workers -> 1..Levels]
  BY <1>1 DEF TypeOK, Continue
<1> QED
  BY <1>2 DEF TypeOK, Continue, WorkerState, Holding

LEMMA StatusType ==
  ASSUME TypeOK, NEW t \in Tasks, NEW s \in Status, SetStatus(t, s)
  PROVE  status' \in [Tasks -> Status] /\ volatile' \subseteq Tasks
BY DEF TypeOK, SetStatus

\* The worker w has a task.
LEMMA HeldIs ==
  ASSUME TypeOK, NEW w \in Workers, pc[w] \in Holding \cup {"removing"}
  PROVE  item[w] \in Tasks
BY DEF TypeOK, Holding

LEMMA XaddType ==
  ASSUME TypeOK, NEW t \in Tasks, Xadd(t)
  PROVE  unread' \in [1..Levels -> Seq(Tasks)]
BY LevelAssumption, SeqIs DEF TypeOK, Xadd

LEMMA WorkerType ==
  ASSUME TypeOK, NEW w \in Workers, WorkerStep(w)
  PROVE  TypeOK'
<1>1. CASE Begin(w)
  BY <1>1 DEF Begin, MoveOn, TypeOK, keyVars, setVars, envVars, WorkerState
<1>2. ASSUME NEW t \in Tasks, Move(w, t)
      PROVE  TypeOK'
  <2>1. unread' \in [1..Levels -> Seq(Tasks)]
    BY <1>2, XaddType DEF Move, TypeOK
  <2> QED
    BY <1>2, <2>1, NoTaskAssumption DEF Move, TypeOK, keyVars, setVars, envVars, WorkerState
<1>3. CASE MoveEnds(w)
  <2>1. item[w] \in Tasks
    BY <1>3, HeldIs DEF MoveEnds
  <2> QED
    BY <1>3, <2>1 DEF MoveEnds, MoveOn, Zrem, TypeOK, keyVars, setVars, envVars, WorkerState
<1>4. CASE ReadNone(w)
  BY <1>4, ContinueType DEF ReadNone, TypeOK, keyVars, setVars, envVars
<1>5. CASE Read(w)
  <2>1. level[w] \in 1..Levels /\ unread[level[w]] \in Seq(Tasks) /\ unread[level[w]] # <<>>
    BY <1>5 DEF Read, TypeOK
  <2>2. Head(unread[level[w]]) \in Tasks /\ Tail(unread[level[w]]) \in Seq(Tasks)
    BY <2>1, SeqIs
  <2>3. unread' \in [1..Levels -> Seq(Tasks)]
    BY <1>5, <2>1, <2>2 DEF Read, TypeOK
  <2> QED
    BY <1>5, <2>2, <2>3, NoTaskAssumption
       DEF Read, TypeOK, keyVars, setVars, envVars, WorkerState, Holding
<1>6. CASE PassOver(w)
  BY <1>6, ContinueType DEF PassOver, TypeOK, keyVars, setVars, envVars
<1>7. CASE Expire(w)
  <2>1. item[w] \in Tasks /\ "expired" \in Status
    BY <1>7, HeldIs DEF Expire, Holding, Status
  <2> QED
    BY <1>7, <2>1, ContinueType, StatusType DEF Expire, TypeOK, keyVars, setVars, envVars
<1>8. CASE Claim(w)
  <2>1. item[w] \in Tasks /\ "processing" \in Status
    BY <1>8, HeldIs DEF Claim, Holding, Status
  <2>2. status' \in [Tasks -> Status] /\ volatile' \subseteq Tasks
    BY <1>8, <2>1, StatusType DEF Claim
  <2> QED
    BY <1>8, <2>2 DEF Claim, TypeOK, setVars, envVars, WorkerState, Holding
<1>9. CASE Complete(w)
  <2>1. item[w] \in Tasks /\ "completed" \in Status
    BY <1>9, HeldIs DEF Complete, Holding, Status
  <2>2. status' \in [Tasks -> Status] /\ volatile' \subseteq Tasks
    BY <1>9, <2>1, StatusType DEF Complete, TypeOK
  <2> QED
    BY <1>9, <2>2, ReleaseType DEF Complete, TypeOK, setVars, envVars
<1>10. CASE Fail(w)
  <2>1. item[w] \in Tasks /\ retry_count[item[w]] \in 0..MaxRetries
    BY <1>10, HeldIs DEF Fail, Holding, TypeOK
  <2>2. CASE item[w] \in stored
    BY <1>10, <2>1, <2>2 DEF Fail, TypeOK, keyVars, setVars, envVars, WorkerState, Holding
  <2>3. CASE item[w] \notin stored
    BY <1>10, <2>3, ReleaseType DEF Fail, TypeOK, keyVars, setVars, envVars
  <2> QED
    BY <2>2, <2>3
<1>11. CASE FailRetry(w)
  <2>1. item[w] \in Tasks /\ "pending" \in Status
    BY <1>11, HeldIs DEF FailRetry, Holding, Status
  <2>2. status' \in [Tasks -> Status] /\ volatile' \subseteq Tasks
    BY <1>11, <2>1, StatusType DEF FailRetry
  <2>3. seen[w] + 1 \in 0..MaxRetries
    BY <1>11, BoundAssumption DEF FailRetry, TypeOK
  <2>4. retry_count' \in [Tasks -> 0..MaxRetries]
    BY <1>11, <2>3 DEF FailRetry, TypeOK
  <2> QED
    BY <1>11, <2>1, <2>2, <2>4 DEF FailRetry, TypeOK, setVars, envVars, WorkerState, Holding
<1>12. CASE FailDelay(w)
  <2>1. item[w] \in Tasks
    BY <1>12, HeldIs DEF FailDelay, Holding
  <2>2. delayed' \subseteq Tasks /\ due' \subseteq delayed'
    BY <1>12, <2>1 DEF FailDelay, Zadd, TypeOK
  <2> QED
    BY <1>12, <2>2, ReleaseType DEF FailDelay, TypeOK, keyVars, envVars
<1>13. CASE FailFinal(w)
  <2>1. item[w] \in Tasks /\ "failed" \in Status
    BY <1>13, HeldIs DEF FailFinal, Holding, Status
  <2> QED
    BY <1>13, <2>1, ReleaseType, StatusType DEF FailFinal, TypeOK, setVars, envVars
<1>14. CASE CompleteRaises(w)
  <2>1. item[w] \in Tasks /\ "completed" \in Status
    BY <1>14, HeldIs DEF CompleteRaises, Holding, Status
  <2>2. status' \in [Tasks -> Status] /\ volatile' \subseteq Tasks
    BY <1>14, <2>1, StatusType DEF CompleteRaises
  <2> QED
    BY <1>14, <2>2 DEF CompleteRaises, TypeOK, setVars, envVars, WorkerState, Holding
<1> QED
  BY <1>1, <1>2, <1>3, <1>4, <1>5, <1>6, <1>7, <1>8, <1>9, <1>10, <1>11, <1>12, <1>13, <1>14
     DEF WorkerStep

LEMMA OtherType ==
  ASSUME TypeOK,
         \/ \E w \in Workers : WorkerFault(w)
         \/ \E t \in Tasks : CallerStep(t) \/ CallerFault(t) \/ TimeStep(t)
         \/ UNCHANGED vars
  PROVE  TypeOK'
<1>1. Fault => faults' \in 0..MaxFaults
  BY BoundAssumption DEF Fault, TypeOK
<1>2. ASSUME NEW w \in Workers, WorkerFault(w)
      PROVE  TypeOK'
  <2>1. CASE Cut(w)
    BY <1>1, <2>1, ReleaseType DEF Cut, TypeOK, keyVars, setVars
  <2>2. CASE FailCut(w)
    <3>1. item[w] \in Tasks
      BY <2>2, HeldIs DEF FailCut, Holding
    <3>2. seen[w] + 1 \in 0..MaxRetries
      BY <2>2, BoundAssumption DEF FailCut, TypeOK
    <3>3. retry_count' \in [Tasks -> 0..MaxRetries]
      BY <2>2, <3>2 DEF FailCut, TypeOK
    <3> QED
      BY <1>1, <2>2, <3>1, <3>3, ReleaseType DEF FailCut, TypeOK, setVars
  <2>3. CASE Swallow(w)
    <3>1. status' \in [Tasks -> Status] /\ volatile' \subseteq Tasks
      <4>1. pc[w] = "read" => item[w] \in Tasks
        BY HeldIs DEF Holding
      <4>2. "processing" \in Status
        BY DEF Status
      <4> QED
        BY <2>3, <4>1, <4>2, StatusType DEF Swallow, TypeOK
    <3> QED
      BY <1>1, <2>3, <3>1, ContinueType DEF Swallow, TypeOK, setVars
  <2> QED
    BY <1>2, <2>1, <2>2, <2>3 DEF WorkerFault
<1>3. ASSUME NEW t \in Tasks, Store(t) \/ CancelRead(t)
      PROVE  TypeOK'
  <2>1. CASE Store(t)
    BY <2>1 DEF Store, TypeOK, setVars, workerVars, Status
  <2>2. CASE CancelRead(t)
    BY <2>2 DEF CancelRead, TypeOK, keyVars, setVars, workerVars
  <2> QED
    BY <1>3, <2>1, <2>2
<1>4. ASSUME NEW t \in Tasks, Add(t)
      PROVE  TypeOK'
  <2>1. unread' \in [1..Levels -> Seq(Tasks)]
    BY <1>4, XaddType DEF Add, TypeOK
  <2>2. delayed' \subseteq Tasks /\ due' \subseteq delayed'
    BY <1>4 DEF Add, Zadd, TypeOK, setVars
  <2> QED
    BY <1>4, <2>1, <2>2 DEF Add, TypeOK, keyVars, workerVars
<1>5. ASSUME NEW t \in Tasks, CancelSet(t) \/ CancelRemove(t)
      PROVE  TypeOK'
  <2>1. "cancelled" \in Status
    BY DEF Status
  <2>2. CASE CancelSet(t)
    BY <2>1, <2>2, StatusType DEF CancelSet, TypeOK, setVars, workerVars
  <2>3. CASE CancelRemove(t)
    BY <2>3 DEF CancelRemove, Zrem, TypeOK, keyVars, workerVars
  <2> QED
    BY <1>5, <2>2, <2>3
<1>6. ASSUME NEW t \in Tasks, CallerFault(t)
      PROVE  TypeOK'
  <2>1. CASE EnqueueCut(t)
    BY <1>1, <2>1 DEF EnqueueCut, TypeOK, setVars, workerVars
  <2>2. CASE CancelCut(t)
    BY <1>1, <2>2 DEF CancelCut, TypeOK, keyVars, setVars, workerVars
  <2> QED
    BY <1>6, <2>1, <2>2 DEF CallerFault
<1>7. ASSUME NEW t \in Tasks, TimeStep(t)
      PROVE  TypeOK'
  BY <1>7 DEF TimeStep, DelayPasses, TtlPasses, KeysExpire, TypeOK, keyVars, setVars, workerVars,
              envVars, Status
<1>8. CASE UNCHANGED vars
  BY <1>8 DEF vars, TypeOK, keyVars, setVars, workerVars, envVars
<1> QED
  BY <1>2, <1>3, <1>4, <1>5, <1>6, <1>7, <1>8 DEF CallerStep

LEMMA TypeStep == TypeOK /\ [Next]_vars => TypeOK'
BY WorkerType, OtherType DEF Next
-----------------------------------------------------------------------------
(* How a task gets lost.                                                   *)

\* t should still be executed.
Unfinished(t) == t \in stored /\ status[t] \in {"pending", "processing"}

\* The worker w has t in hand.
Holds(w, t) == item[w] = t /\ pc[w] \in Holding

\* The ways of LossesExplained.
Lost(t) ==
    \/ faults' > faults /\ (caller'[t] # caller[t]
           \/ \E w \in Workers : Holds(w, t) /\ item'[w] # t)
    \/ t \notin Ours /\ \E w \in Workers : pc[w] = "read" /\ item[w] = t
    \/ t \in delayed \ delayed' /\ (canceller[t] = "set"
           \/ \E w \in Workers : pc[w] = "removing" /\ item[w] = t)

\* A step does not lose t: whoever had it still has it, or it is over.
Safe(t) ==
    \/ ~Unfinished(t)' \/ InHand(t)' \/ t \in Queued' \/ t \in delayed'
    \/ t \in Stranded
    \/ Lost(t)

\* The entries of the streams, when one is added or read.
LEMMA XaddQueued ==
  ASSUME TypeOK, NEW t \in Tasks, Xadd(t)
  PROVE  Queued \subseteq Queued' /\ t \in Queued'
<1>1. Level[t] \in 1..Levels /\ unread[Level[t]] \in Seq(Tasks)
  BY LevelAssumption DEF TypeOK
<1>2. unread' = [unread EXCEPT ![Level[t]] = Append(unread[Level[t]], t)]
  BY DEF Xadd
<1> DEFINE s == unread[Level[t]]
<1>3. /\ DOMAIN s = 1..Len(s) /\ Len(s) \in Nat /\ DOMAIN Append(s, t) = 1..(Len(s) + 1)
      /\ \A i \in DOMAIN s : Append(s, t)[i] = s[i]
      /\ Append(s, t)[Len(s) + 1] = t
  BY <1>1
<1>4. unread'[Level[t]] = Append(s, t) /\ \A l \in 1..Levels \ {Level[t]} : unread'[l] = unread[l]
  BY <1>1, <1>2 DEF TypeOK
<1> HIDE DEF s
<1>5. t \in Queued'
  BY <1>1, <1>3, <1>4 DEF Queued
<1>6. ASSUME NEW u \in Queued
      PROVE  u \in Queued'
  <2>1. PICK l \in 1..Levels : \E i \in DOMAIN unread[l] : unread[l][i] = u
    BY DEF Queued
  <2>2. PICK i \in DOMAIN unread[l] : unread[l][i] = u
    BY <2>1
  <2>3. i \in DOMAIN unread'[l] /\ unread'[l][i] = u
    <3>1. CASE l = Level[t]
      <4>1. i \in DOMAIN s /\ s[i] = u
        BY <2>2, <3>1 DEF s
      <4>2. i \in DOMAIN Append(s, t) /\ Append(s, t)[i] = u
        BY <1>3, <4>1
      <4> QED
        BY <1>4, <3>1, <4>2
    <3>2. CASE l # Level[t]
      BY <1>4, <2>2, <3>2
    <3> QED
      BY <3>1, <3>2
  <2>4. u \in Tasks
    BY DEF Queued
  <2> QED
    BY <2>3, <2>4 DEF Queued
<1> QED
  BY <1>5, <1>6

LEMMA ReadQueued ==
  ASSUME TypeOK, NEW w \in Workers, Read(w), NEW u \in Queued
  PROVE  u \in Queued' \/ u = item'[w]
<1> DEFINE s == unread[level[w]]
<1>1. level[w] \in 1..Levels /\ s \in Seq(Tasks) /\ s # <<>>
  BY DEF TypeOK, Read
<1>2. /\ DOMAIN s = 1..Len(s) /\ Len(s) \in Nat /\ Head(s) = s[1]
      /\ DOMAIN Tail(s) = 1..(Len(s) - 1)
      /\ \A i \in 1..(Len(s) - 1) : Tail(s)[i] = s[i + 1]
  BY <1>1
<1>3. /\ unread'[level[w]] = Tail(s) /\ item'[w] = Head(s)
      /\ \A l \in 1..Levels \ {level[w]} : unread'[l] = unread[l]
  BY <1>1 DEF Read, TypeOK
<1> HIDE DEF s
<1>4. PICK l \in 1..Levels : \E i \in DOMAIN unread[l] : unread[l][i] = u
  BY DEF Queued
<1>5. CASE l # level[w]
  BY <1>3, <1>4, <1>5 DEF Queued
<1>6. CASE l = level[w]
  <2>1. PICK i \in 1..Len(s) : s[i] = u
    BY <1>2, <1>4, <1>6 DEF s
  <2>2. CASE i = 1
    BY <1>2, <1>3, <2>1, <2>2
  <2>3. CASE i # 1
    <3>1. i - 1 \in DOMAIN Tail(s) /\ Tail(s)[i - 1] = u
      BY <1>2, <2>1, <2>3
    <3> QED
      BY <1>1, <1>3, <3>1 DEF Queued
  <2> QED
    BY <2>2, <2>3
<1> QED
  BY <1>5, <1>6

\* What is not stranded is finished, in somebody's hand, in a stream or scheduled.
LEMMA StrandedIs ==
  ASSUME NEW t \in Tasks
  PROVE  /\ t \in Stranded <=> Unfinished(t) /\ t \notin Queued /\ t \notin delayed /\ ~InHand(t)
         /\ t \in Stranded' <=> /\ Unfinished(t)' /\ t \notin Queued' /\ t \notin delayed'
                              /\ ~InHand(t)'
BY DEF Stranded, Unfinished

\* A step that takes nothing from anywhere.
LEMMA NothingTaken ==
  ASSUME NEW t \in Tasks,
         Unfinished(t)' => Unfinished(t) \/ InHand(t)',
         InHand(t) => InHand(t)', t \in Queued => t \in Queued', t \in delayed => t \in delayed'
  PROVE  Safe(t)
BY StrandedIs DEF Safe

\* The worker w has put down t, which nobody lost.
LEMMA PutDown ==
  ASSUME TypeOK, NEW w \in Workers, NEW t \in Tasks,
         \A v \in Workers \ {w} : pc'[v] = pc[v] /\ item'[v] = item[v],
         UNCHANGED <<stored, caller, unread, delayed>>,
         \A u \in Tasks \ {item[w]} : status'[u] = status[u],
         Holds(w, t) => ~Unfinished(t)' \/ Lost(t),
         ~Holds(w, t) => status'[t] = status[t]
  PROVE  Safe(t)
<1>1. CASE Holds(w, t)
  BY <1>1 DEF Safe
<1>2. CASE ~Holds(w, t)
  <2>1. /\ Unfinished(t)' => Unfinished(t)
        /\ t \in Queued => t \in Queued'
        /\ t \in delayed => t \in delayed'
    BY <1>2 DEF Unfinished, Queued
  <2>2. InHand(t) => InHand(t)'
    BY <1>2 DEF InHand, Holds
  <2> QED
    BY <2>1, <2>2, NothingTaken
<1> QED
  BY <1>1, <1>2

LEMMA WorkerSafe ==
  ASSUME TypeOK, NEW w \in Workers, WorkerStep(w), NEW t \in Tasks
  PROVE  Safe(t)
<1>0. ASSUME unread' = unread
      PROVE  t \in Queued => t \in Queued'
  BY <1>0 DEF Queued
<1>1. ASSUME pc[w] \notin Holding, caller' = caller,
             \A v \in Workers \ {w} : pc'[v] = pc[v] /\ item'[v] = item[v]
      PROVE  InHand(t) => InHand(t)'
  BY <1>1 DEF InHand
<1>2. ASSUME UNCHANGED keyVars
      PROVE  Unfinished(t)' => Unfinished(t)
  BY <1>2 DEF Unfinished, keyVars
<1>3. CASE Begin(w) \/ ReadNone(w)
  <2>1. /\ pc[w] \notin Holding /\ UNCHANGED <<keyVars, unread, setVars, envVars>>
        /\ \A v \in Workers \ {w} : pc'[v] = pc[v] /\ item'[v] = item[v]
    BY <1>3 DEF Begin, ReadNone, MoveOn, Continue, Holding, TypeOK
  <2> QED
    BY <1>0, <1>1, <1>2, <2>1, NothingTaken DEF setVars, envVars
<1>4. ASSUME NEW u \in Tasks, Move(w, u)
      PROVE  Safe(t)
  <2>1. /\ pc[w] \notin Holding /\ UNCHANGED <<keyVars, setVars, envVars>>
        /\ \A v \in Workers \ {w} : pc'[v] = pc[v] /\ item'[v] = item[v]
    BY <1>4 DEF Move, Holding, TypeOK
  <2>2. t \in Queued => t \in Queued'
    BY <1>0, <1>4, XaddQueued DEF Move
  <2> QED
    BY <1>1, <1>2, <2>1, <2>2, NothingTaken DEF setVars, envVars
<1>5. CASE MoveEnds(w)
  <2>1. /\ pc[w] = "removing" /\ UNCHANGED <<keyVars, unread, envVars>>
        /\ delayed' = delayed \ {item[w]}
        /\ \A v \in Workers \ {w} : pc'[v] = pc[v] /\ item'[v] = item[v]
    BY <1>5 DEF MoveEnds, MoveOn, Zrem, TypeOK
  <2>2. CASE t \in delayed /\ t = item[w]
    BY <2>1, <2>2 DEF Safe, Lost
  <2>3. CASE ~(t \in delayed /\ t = item[w])
    <3>1. pc[w] \notin Holding
      BY <2>1 DEF Holding
    <3> QED
      BY <1>0, <1>1, <1>2, <2>1, <2>3, <3>1, NothingTaken DEF envVars
  <2> QED
    BY <2>2, <2>3
<1>6. CASE Read(w)
  <2>1. /\ pc[w] \notin Holding /\ UNCHANGED <<keyVars, setVars, envVars>>
        /\ \A v \in Workers \ {w} : pc'[v] = pc[v] /\ item'[v] = item[v]
        /\ pc'[w] = "read"
    BY <1>6 DEF Read, Holding, TypeOK
  <2>2. CASE t = item'[w]
    <3>1. InHand(t)'
      BY <2>1, <2>2 DEF InHand, Holding
    <3> QED
      BY <3>1 DEF Safe
  <2>3. CASE t # item'[w]
    <3>1. t \in Queued => t \in Queued'
      BY <1>6, <2>3, ReadQueued
    <3> QED
      BY <1>1, <1>2, <2>1, <3>1, NothingTaken DEF setVars, envVars
  <2> QED
    BY <2>2, <2>3
<1>7. CASE PassOver(w)
  <2>1. /\ pc[w] = "read" /\ (item[w] \notin stored \/ item[w] \notin Ours)
        /\ UNCHANGED <<keyVars, unread, setVars, envVars>>
        /\ \A v \in Workers \ {w} : pc'[v] = pc[v] /\ item'[v] = item[v]
    BY <1>7 DEF PassOver, Continue, TypeOK
  <2>2. Holds(w, t) => ~Unfinished(t)' \/ Lost(t)
    BY <2>1 DEF Holds, Unfinished, Lost, keyVars
  <2> QED
    BY <2>1, <2>2, PutDown DEF keyVars, setVars, envVars
<1>8. CASE Expire(w) \/ Complete(w) \/ FailFinal(w) \/ (Fail(w) /\ item[w] \notin stored)
  <2>1. /\ pc[w] \in Holding /\ UNCHANGED <<stored, unread, setVars, envVars>>
        /\ \A v \in Workers \ {w} : pc'[v] = pc[v] /\ item'[v] = item[v]
        /\ item[w] \in Tasks
    BY <1>8, HeldIs DEF Expire, Complete, FailFinal, Fail, Continue, Release, Holding, TypeOK, keyVars
  <2>2. /\ \A u \in Tasks \ {item[w]} : status'[u] = status[u]
        /\ item[w] \in stored => status'[item[w]] \in {"expired", "completed", "failed"}
    BY <1>8, <2>1 DEF Expire, Complete, FailFinal, Fail, SetStatus, TypeOK, keyVars
  <2>3. Holds(w, t) => ~Unfinished(t)'
    BY <2>1, <2>2 DEF Holds, Unfinished
  <2>4. ~Holds(w, t) => status'[t] = status[t]
    BY <2>1, <2>2 DEF Holds
  <2> QED
    BY <2>1, <2>2, <2>3, <2>4, PutDown DEF setVars, envVars
<1>9. CASE Claim(w) \/ CompleteRaises(w) \/ FailRetry(w) \/ (Fail(w) /\ item[w] \in stored)
  <2>1. /\ UNCHANGED <<unread, setVars, envVars, item>> /\ stored' \subseteq stored \cup {item[w]}
        /\ \A v \in Workers : pc[v] \in Holding => pc'[v] \in Holding
        /\ pc'[w] \in Holding /\ item[w] \in Tasks
    BY <1>9, HeldIs DEF Claim, CompleteRaises, FailRetry, Fail, Holding, TypeOK, keyVars
  <2>2. \A u \in Tasks \ {item[w]} : status'[u] = status[u]
    BY <1>9, <2>1 DEF Claim, CompleteRaises, FailRetry, Fail, SetStatus, TypeOK, keyVars
  <2>3. CASE t = item[w]
    <3>1. InHand(t)'
      BY <2>1, <2>3 DEF InHand
    <3> QED
      BY <3>1 DEF Safe
  <2>4. CASE t # item[w]
    <3>1. Unfinished(t)' => Unfinished(t)
      BY <2>1, <2>2, <2>4 DEF Unfinished
    <3>2. InHand(t) => InHand(t)'
      BY <2>1 DEF InHand, envVars
    <3> QED
      BY <1>0, <2>1, <3>1, <3>2, NothingTaken DEF setVars
  <2> QED
    BY <2>3, <2>4
<1>10. CASE FailDelay(w)
  <2>1. /\ UNCHANGED <<keyVars, unread, envVars>> /\ delayed' = delayed \cup {item[w]}
        /\ \A v \in Workers \ {w} : pc'[v] = pc[v] /\ item'[v] = item[v]
    BY <1>10 DEF FailDelay, Zadd, Release, TypeOK
  <2>2. CASE t = item[w]
    BY <2>1, <2>2 DEF Safe
  <2>3. CASE t # item[w]
    <3>1. InHand(t) => InHand(t)'
      BY <2>1, <2>3 DEF InHand, envVars
    <3> QED
      BY <1>0, <1>2, <2>1, <3>1, NothingTaken
  <2> QED
    BY <2>2, <2>3
<1> QED
  BY <1>3, <1>4, <1>5, <1>6, <1>7, <1>8, <1>9, <1>10 DEF WorkerStep

\* What a fault of the worker w does: it puts down its task, which counts as lost.
LEMMA FaultSafe ==
  ASSUME TypeOK, NEW w \in Workers, WorkerFault(w), NEW t \in Tasks
  PROVE  Safe(t)
<1>1. /\ faults' > faults
      /\ UNCHANGED <<unread, setVars, caller>>
      /\ \A v \in Workers \ {w} : pc'[v] = pc[v] /\ item'[v] = item[v]
      /\ item'[w] = NoTask
  BY BoundAssumption
     DEF WorkerFault, Cut, FailCut, Swallow, Fault, Release, Continue, TypeOK, keyVars
<1>2. CASE Holds(w, t)
  BY <1>1, <1>2, NoTaskAssumption DEF Safe, Lost
<1>3. CASE ~Holds(w, t)
  <2>1. InHand(t) => InHand(t)'
    BY <1>1, <1>3 DEF InHand, Holds
  <2>2. Unfinished(t)' => Unfinished(t)
    <3>1. CASE Cut(w)
      BY <3>1 DEF Cut, Unfinished, keyVars
    <3>2. CASE FailCut(w)
      <4>1. t # item[w]
        BY <1>3, <3>2 DEF FailCut, Holds, Holding
      <4> QED
        BY <3>2, <4>1 DEF FailCut, Unfinished
    <3>3. CASE Swallow(w)
      <4>1. CASE UNCHANGED <<status, volatile>>
        BY <3>3, <4>1 DEF Swallow, Unfinished
      <4>2. CASE pc[w] = "read" /\ SetStatus(item[w], "processing")
        <5>1. t # item[w]
          BY <1>3, <4>2 DEF Holds, Holding
        <5>2. status'[t] = status[t]
          BY <4>2, <5>1 DEF SetStatus, TypeOK
        <5> QED
          BY <3>3, <5>2 DEF Swallow, Unfinished
      <4> QED
        BY <3>3, <4>1, <4>2 DEF Swallow
    <3> QED
      BY <3>1, <3>2, <3>3 DEF WorkerFault
  <2>3. (t \in Queued => t \in Queued') /\ (t \in delayed => t \in delayed')
    BY <1>1 DEF Queued, setVars
  <2> QED
    BY <2>1, <2>2, <2>3, NothingTaken
<1> QED
  BY <1>2, <1>3

LEMMA OtherSafe ==
  ASSUME TypeOK, NEW t \in Tasks,
         \/ \E w \in Workers : WorkerFault(w)
         \/ \E u \in Tasks : CallerStep(u) \/ CallerFault(u) \/ TimeStep(u)
         \/ UNCHANGED vars
  PROVE  Safe(t)
<1>0. ASSUME unread' = unread
      PROVE  t \in Queued => t \in Queued'
  BY <1>0 DEF Queued
<1>1. ASSUME UNCHANGED <<pc, item>>, caller[t] = "storing" => caller'[t] = "storing"
      PROVE  InHand(t) => InHand(t)'
  BY <1>1 DEF InHand
<1>2. ASSUME NEW w \in Workers, WorkerFault(w)
      PROVE  Safe(t)
  BY <1>2, FaultSafe
<1>3. ASSUME NEW u \in Tasks, Store(u)
      PROVE  Safe(t)
  <2>1. /\ UNCHANGED <<unread, setVars, workerVars>> /\ stored' = stored \cup {u}
        /\ \A v \in Tasks \ {u} : status'[v] = status[v] /\ caller'[v] = caller[v]
        /\ caller'[u] = "storing"
    BY <1>3 DEF Store, TypeOK
  <2>2. CASE t = u
    <3>1. InHand(t)'
      BY <2>1, <2>2 DEF InHand
    <3> QED
      BY <3>1 DEF Safe
  <2>3. CASE t # u
    <3>1. (Unfinished(t)' => Unfinished(t)) /\ (InHand(t) => InHand(t)')
      BY <1>1, <2>1, <2>3 DEF Unfinished, workerVars
    <3> QED
      BY <1>0, <2>1, <3>1, NothingTaken DEF setVars
  <2> QED
    BY <2>2, <2>3
<1>4. ASSUME NEW u \in Tasks, Add(u)
      PROVE  Safe(t)
  <2>1. /\ UNCHANGED <<keyVars, workerVars>>
        /\ \A v \in Tasks \ {u} : caller'[v] = caller[v]
        /\ (Xadd(u) /\ delayed' = delayed) \/ (delayed' = delayed \cup {u} /\ unread' = unread)
    BY <1>4 DEF Add, Zadd, setVars, TypeOK
  <2>2. (t \in Queued => t \in Queued') /\ (t \in delayed => t \in delayed')
    BY <1>0, <2>1, XaddQueued
  <2>3. CASE t = u
    BY <2>1, <2>3, XaddQueued DEF Safe
  <2>4. CASE t # u
    <3>1. (Unfinished(t)' => Unfinished(t)) /\ (InHand(t) => InHand(t)')
      BY <1>1, <2>1, <2>4 DEF Unfinished, workerVars, keyVars
    <3> QED
      BY <2>2, <3>1, NothingTaken
  <2> QED
    BY <2>3, <2>4
<1>5. ASSUME NEW u \in Tasks, CancelRead(u) \/ CancelSet(u) \/ TimeStep(u)
      PROVE  Safe(t)
  <2>1. UNCHANGED <<unread, delayed, workerVars, caller>>
    BY <1>5 DEF CancelRead, CancelSet, TimeStep, DelayPasses, TtlPasses, KeysExpire, setVars, envVars
  <2>2. Unfinished(t)' => Unfinished(t)
    <3>1. CASE CancelSet(u)
      BY <3>1 DEF CancelSet, SetStatus, Unfinished, TypeOK
    <3>2. CASE KeysExpire(u)
      BY <3>2 DEF KeysExpire, Unfinished, TypeOK
    <3>3. CASE CancelRead(u) \/ DelayPasses(u) \/ TtlPasses(u)
      BY <3>3 DEF CancelRead, DelayPasses, TtlPasses, Unfinished, keyVars
    <3> QED
      BY <1>5, <3>1, <3>2, <3>3 DEF TimeStep
  <2> QED
    BY <1>0, <1>1, <2>1, <2>2, NothingTaken DEF workerVars
<1>6. ASSUME NEW u \in Tasks, CancelRemove(u)
      PROVE  Safe(t)
  <2>1. /\ UNCHANGED <<keyVars, unread, workerVars, caller>> /\ canceller[u] = "set"
        /\ delayed' = delayed \ {u}
    BY <1>6 DEF CancelRemove, Zrem
  <2>2. CASE t \in delayed /\ t = u
    BY <2>1, <2>2 DEF Safe, Lost
  <2>3. CASE ~(t \in delayed /\ t = u)
    <3>1. Unfinished(t)' => Unfinished(t)
      BY <2>1 DEF Unfinished, keyVars
    <3> QED
      BY <1>0, <1>1, <2>1, <2>3, <3>1, NothingTaken DEF workerVars
  <2> QED
    BY <2>2, <2>3
<1>7. ASSUME NEW u \in Tasks, EnqueueCut(u)
      PROVE  Safe(t)
  <2>1. /\ faults' > faults /\ caller[u] \in {"new", "storing"}
        /\ UNCHANGED <<status, unread, setVars, workerVars>>
        /\ stored' = IF caller[u] = "new" THEN stored \cup {u} ELSE stored
        /\ \A v \in Tasks \ {u} : caller'[v] = caller[v]
        /\ caller'[u] # caller[u]
    BY <1>7, BoundAssumption DEF EnqueueCut, Fault, TypeOK
  <2>2. CASE t = u
    BY <2>1, <2>2 DEF Safe, Lost
  <2>4. CASE t # u
    <3>1. (Unfinished(t)' => Unfinished(t)) /\ (InHand(t) => InHand(t)')
      BY <1>1, <2>1, <2>4 DEF Unfinished, workerVars
    <3> QED
      BY <1>0, <2>1, <3>1, NothingTaken DEF setVars
  <2> QED
    BY <2>2, <2>4
<1>9. ASSUME NEW u \in Tasks, CancelCut(u)
      PROVE  Safe(t)
  <2>1. UNCHANGED <<stored, status, unread, delayed, pc, item, caller>>
    BY <1>9 DEF CancelCut, keyVars, setVars, workerVars
  <2> QED
    BY <1>0, <1>1, <2>1, NothingTaken DEF Unfinished
<1>8. CASE UNCHANGED vars
  <2>1. UNCHANGED <<stored, status, unread, delayed, pc, item, caller>>
    BY <1>8 DEF vars, keyVars, setVars, workerVars, envVars
  <2> QED
    BY <1>0, <1>1, <2>1, NothingTaken DEF Unfinished
<1> QED
  BY <1>2, <1>3, <1>4, <1>5, <1>6, <1>7, <1>8, <1>9 DEF CallerStep, CallerFault

\* For any tasks, workers and faults: a task is lost only when a fault strikes the worker
\* that has its entry in hand, or its enqueue, when its entry is read for another tenant,
\* or when a late ZREM removes its retry; no fault while delayed tasks are moved loses one.
THEOREM RedisLosses == Spec => LossesExplained
<1>1. ASSUME TypeOK, [Next]_vars, NEW t \in Stranded' \ Stranded
      PROVE  Lost(t)
  <2>1. t \in Tasks
    BY <1>1, TypeStep DEF Stranded, TypeOK
  <2>2. Safe(t)
    BY <1>1, <2>1, WorkerSafe, OtherSafe DEF Next
  <2> QED
    BY <1>1, <2>1, <2>2, StrandedIs DEF Safe
<1>2. TypeOK /\ [Next]_vars =>
        \A t \in Stranded' \ Stranded :
          \/ faults' > faults /\ (caller'[t] # caller[t]
                 \/ \E w \in Workers : item[w] = t /\ pc[w] \in Holding /\ item'[w] # t)
          \/ t \notin Ours /\ \E w \in Workers : pc[w] = "read" /\ item[w] = t
          \/ t \in delayed \ delayed' /\ (canceller[t] = "set"
                 \/ \E w \in Workers : pc[w] = "removing" /\ item[w] = t)
  BY <1>1 DEF Lost, Holds
<1> QED
  BY <1>2, InitType, TypeStep, PTL DEF Spec, LossesExplained

-----------------------------------------------------------------------------
(* How a task gets duplicated.                                             *)

\* An entry is in the stream of its task's priority; a task that is being enqueued is
\* nowhere yet.
FreshInv ==
    /\ \A l \in 1..Levels : \A i \in DOMAIN unread[l] : Level[unread[l][i]] = l
    /\ \A t \in Tasks : caller[t] # "done" =>
         /\ t \notin Queued /\ t \notin delayed
         /\ \A w \in Workers : item[w] # t /\ t \notin todo[w]

\* The streams after a step: nothing, an entry of t more, or a head less.
LEMMA XaddIs ==
  ASSUME TypeOK, NEW t \in Tasks, Xadd(t)
  PROVE  /\ Level[t] \in 1..Levels /\ unread[Level[t]] \in Seq(Tasks)
         /\ unread'[Level[t]] = Append(unread[Level[t]], t)
         /\ \A l \in 1..Levels : l # Level[t] => unread'[l] = unread[l]
BY LevelAssumption DEF TypeOK, Xadd

LEMMA ReadIs ==
  ASSUME TypeOK, NEW w \in Workers, Read(w)
  PROVE  /\ level[w] \in 1..Levels /\ unread[level[w]] \in Seq(Tasks) /\ unread[level[w]] # <<>>
         /\ unread'[level[w]] = Tail(unread[level[w]])
         /\ \A l \in 1..Levels : l # level[w] => unread'[l] = unread[l]
         /\ item'[w] = Head(unread[level[w]]) /\ pc[w] = "polling" /\ pc'[w] = "read"
         /\ \A v \in Workers : v # w => item'[v] = item[v] /\ pc'[v] = pc[v]
BY DEF TypeOK, Read

LEMMA SeqParts ==
  ASSUME NEW S, NEW s \in Seq(S), NEW t \in S
  PROVE  /\ DOMAIN s = 1..Len(s) /\ Len(s) \in Nat
         /\ DOMAIN Append(s, t) = 1..(Len(s) + 1)
         /\ \A i \in 1..Len(s) : Append(s, t)[i] = s[i]
         /\ Append(s, t)[Len(s) + 1] = t
         /\ s # <<>> => /\ Head(s) = s[1] /\ Len(s) >= 1
                        /\ DOMAIN Tail(s) = 1..(Len(s) - 1)
                        /\ \A i \in 1..(Len(s) - 1) : Tail(s)[i] = s[i + 1]
OBVIOUS

\* The entries of t in s.
Entries(s, t) == {i \in DOMAIN s : s[i] = t}

LEMMA EntriesFinite ==
  ASSUME NEW S, NEW s \in Seq(S), NEW t
  PROVE  IsFiniteSet(Entries(s, t)) /\ Cardinality(Entries(s, t)) \in Nat
<1>1. DOMAIN s = 1..Len(s) /\ Len(s) \in Nat
  OBVIOUS
<1>2. IsFiniteSet(1..Len(s))
  BY <1>1, FS_Interval
<1> QED
  BY <1>1, <1>2, FS_Subset, FS_CardinalityType DEF Entries

\* The tail has no more entries than the sequence without its head.
LEMMA TailEntries ==
  ASSUME NEW S, NEW s \in Seq(S), s # <<>>, NEW t
  PROVE  Cardinality(Entries(Tail(s), t)) <= Cardinality(Entries(s, t) \ {1})
<1>1. /\ DOMAIN s = 1..Len(s) /\ Len(s) \in Nat /\ DOMAIN Tail(s) = 1..(Len(s) - 1)
      /\ \A i \in 1..(Len(s) - 1) : Tail(s)[i] = s[i + 1]
  OBVIOUS
<1> DEFINE g == [i \in Entries(Tail(s), t) |-> i + 1]
<1>2. g \in [Entries(Tail(s), t) -> Entries(s, t) \ {1}]
  BY <1>1 DEF Entries
<1>3. \A i, j \in Entries(Tail(s), t) : g[i] = g[j] => i = j
  BY <1>1 DEF Entries
<1>4. g \in Injection(Entries(Tail(s), t), Entries(s, t) \ {1})
  BY <1>2, <1>3 DEF Injection, IsInjective
<1>5. IsFiniteSet(Entries(s, t) \ {1})
  BY EntriesFinite, FS_Subset
<1> QED
  BY <1>4, <1>5, FS_Injection

\* What FreshInv says of one task, and of the streams.
Fresh(t) ==
    /\ t \notin Queued /\ t \notin delayed
    /\ \A w \in Workers : item[w] # t /\ t \notin todo[w]

Sorted == \A l \in 1..Levels : \A i \in DOMAIN unread[l] : Level[unread[l][i]] = l

LEMMA FreshIs == FreshInv <=> Sorted /\ \A t \in Tasks : caller[t] # "done" => Fresh(t)
BY DEF FreshInv, Fresh, Sorted

LEMMA XaddFresh ==
  ASSUME TypeOK, Sorted, NEW u \in Tasks, Xadd(u)
  PROVE  Sorted' /\ Queued' \subseteq Queued \cup {u}
<1> DEFINE s == unread[Level[u]]
<1>1. /\ Level[u] \in 1..Levels /\ s \in Seq(Tasks) /\ unread'[Level[u]] = Append(s, u)
      /\ \A l \in 1..Levels : l # Level[u] => unread'[l] = unread[l]
  BY XaddIs
<1>2. /\ DOMAIN s = 1..Len(s) /\ Len(s) \in Nat /\ DOMAIN Append(s, u) = 1..(Len(s) + 1)
      /\ \A i \in 1..Len(s) : Append(s, u)[i] = s[i]
      /\ Append(s, u)[Len(s) + 1] = u
  BY <1>1, SeqParts
<1>3. ASSUME NEW l \in 1..Levels, NEW i \in DOMAIN unread'[l]
      PROVE  \/ unread'[l][i] = u /\ l = Level[u]
             \/ i \in DOMAIN unread[l] /\ unread'[l][i] = unread[l][i]
  <2>1. CASE l = Level[u]
    <3> HIDE DEF s
    <3>1. i \in 1..(Len(s) + 1)
      BY <1>1, <1>2, <1>3, <2>1
    <3>2. CASE i = Len(s) + 1
      BY <1>1, <1>2, <2>1, <3>2
    <3>3. CASE i # Len(s) + 1
      BY <1>1, <1>2, <2>1, <3>1, <3>3 DEF s
    <3> QED
      BY <3>2, <3>3
  <2>2. CASE l # Level[u]
    BY <1>1, <1>3, <2>2
  <2> QED
    BY <2>1, <2>2
<1> QED
  BY <1>3 DEF Sorted, Queued

LEMMA ReadFresh ==
  ASSUME TypeOK, Sorted, NEW w \in Workers, Read(w)
  PROVE  /\ Sorted' /\ Queued' \subseteq Queued /\ item'[w] \in Queued
         /\ Level[item'[w]] = level[w]
<1> DEFINE s == unread[level[w]]
<1>1. /\ level[w] \in 1..Levels /\ s \in Seq(Tasks) /\ s # <<>> /\ unread'[level[w]] = Tail(s)
      /\ \A l \in 1..Levels : l # level[w] => unread'[l] = unread[l]
      /\ item'[w] = Head(s)
  BY ReadIs
<1>2. /\ DOMAIN s = 1..Len(s) /\ Len(s) \in Nat /\ Len(s) >= 1 /\ Head(s) = s[1] /\ Head(s) \in Tasks
      /\ DOMAIN Tail(s) = 1..(Len(s) - 1) /\ \A i \in 1..(Len(s) - 1) : Tail(s)[i] = s[i + 1]
  BY <1>1
<1>3. ASSUME NEW l \in 1..Levels, NEW i \in DOMAIN unread'[l]
      PROVE  \E j \in DOMAIN unread[l] : unread'[l][i] = unread[l][j]
  <2>1. CASE l = level[w]
    <3>1. unread'[l] = Tail(s) /\ unread[l] = s
      BY <1>1, <2>1
    <3> HIDE DEF s
    <3>2. i \in 1..(Len(s) - 1)
      BY <1>2, <1>3, <3>1
    <3>3. i + 1 \in DOMAIN s /\ Tail(s)[i] = s[i + 1]
      BY <1>2, <3>2
    <3> QED
      BY <3>1, <3>3
  <2>2. CASE l # level[w]
    BY <1>1, <1>3, <2>2
  <2> QED
    BY <2>1, <2>2
<1>4. 1 \in DOMAIN s
  BY <1>2
<1>5. item'[w] \in Queued /\ Level[item'[w]] = level[w]
  BY <1>1, <1>2, <1>4 DEF Queued, Sorted
<1> QED
  BY <1>3, <1>5 DEF Sorted, Queued

LEMMA WorkerFresh ==
  ASSUME TypeOK, FreshInv, NEW w \in Workers, WorkerStep(w)
  PROVE  FreshInv'
<1>0. Sorted /\ caller' = caller
  BY FreshIs DEF WorkerStep, Begin, Move, MoveEnds, ReadNone, Read, PassOver, Expire, Claim,
                 Complete, CompleteRaises, Fail, FailRetry, FailDelay, FailFinal, envVars
<1>1. ASSUME unread' = unread
      PROVE  Sorted' /\ Queued' = Queued
  BY <1>0, <1>1 DEF Sorted, Queued
<1>2. Sorted'
  <2>1. ASSUME NEW u \in Tasks, Move(w, u)
        PROVE  Sorted'
    BY <1>0, <1>1, <2>1, XaddFresh DEF Move
  <2>2. CASE Read(w)
    BY <1>0, <2>2, ReadFresh
  <2>3. ASSUME \/ Begin(w) \/ MoveEnds(w) \/ ReadNone(w) \/ PassOver(w) \/ Expire(w) \/ Claim(w)
               \/ Complete(w) \/ CompleteRaises(w) \/ Fail(w) \/ FailRetry(w) \/ FailDelay(w) \/ FailFinal(w)
        PROVE  unread' = unread
    BY <2>3 DEF Begin, MoveEnds, ReadNone, PassOver, Expire, Claim, Complete, CompleteRaises, Fail,
                              FailRetry,
                FailDelay, FailFinal
  <2> QED
    BY <1>1, <2>1, <2>2, <2>3 DEF WorkerStep
<1>3. ASSUME NEW t \in Tasks, caller'[t] # "done"
      PROVE  Fresh(t)'
  <2>1. Fresh(t) /\ t # NoTask
    BY <1>0, <1>3, FreshIs, NoTaskAssumption
  <2>2. \A v \in Workers : item[v] # t /\ t \notin todo[v]
    BY <2>1 DEF Fresh
  <2>3. t \notin Queued /\ t \notin delayed /\ t \notin due
    BY <2>1 DEF Fresh, TypeOK
  <2>4. CASE Begin(w) \/ MoveEnds(w)
    <3>1. Queued' = Queued /\ t \notin delayed'
      BY <1>1, <2>3, <2>4 DEF Begin, MoveEnds, Zrem, setVars
    <3>2. \A v \in Workers : item'[v] # t /\ t \notin todo'[v]
      <4>1. item' = item \/ item' = [item EXCEPT ![w] = NoTask]
        BY <2>4 DEF Begin, MoveEnds
      <4>2. todo' = [todo EXCEPT ![w] = due] \/ todo' = [todo EXCEPT ![w] = todo[w] \ {item[w]}]
        BY <2>4 DEF Begin, MoveEnds, MoveOn
      <4>3. \A v \in Workers : item'[v] \in {item[v], NoTask}
        BY <4>1 DEF TypeOK
      <4>4. \A v \in Workers : todo'[v] \subseteq todo[v] \cup due
        BY <4>2 DEF TypeOK
      <4> QED
        BY <2>1, <2>2, <2>3, <4>3, <4>4
    <3> QED
      BY <2>3, <3>1, <3>2 DEF Fresh
  <2>5. ASSUME NEW u \in Tasks, Move(w, u)
        PROVE  Fresh(t)'
    <3>1. u # t
      BY <2>2, <2>5 DEF Move
    <3>2. t \notin Queued'
      BY <1>0, <1>1, <2>3, <2>5, <3>1, XaddFresh DEF Move
    <3> QED
      BY <2>2, <2>3, <2>5, <3>1, <3>2 DEF Move, Fresh, TypeOK, setVars
  <2>6. CASE Read(w)
    <3>1. t \notin Queued' /\ item'[w] # t
      BY <1>0, <2>3, <2>6, ReadFresh
    <3>2. \A v \in Workers : item'[v] # t
      BY <2>2, <2>6, <3>1, ReadIs
    <3> QED
      BY <2>2, <2>3, <2>6, <3>1, <3>2 DEF Read, Fresh, setVars
  <2>7. ASSUME \/ ReadNone(w) \/ PassOver(w) \/ Expire(w) \/ Claim(w)
               \/ Complete(w) \/ CompleteRaises(w) \/ Fail(w) \/ FailRetry(w) \/ FailFinal(w)
        PROVE  Fresh(t)'
    <3>1. UNCHANGED <<unread, delayed, todo>>
      BY <2>7 DEF ReadNone, PassOver, Expire, Claim, Complete, CompleteRaises, Fail,
                              FailRetry, FailFinal, setVars
    <3>2. \A v \in Workers : item'[v] # t
      BY <2>1, <2>2, <2>7 DEF ReadNone, PassOver, Expire, Claim, Complete, CompleteRaises, Fail,
                              FailRetry, FailFinal,
                              Continue, Release, TypeOK
    <3> QED
      BY <1>1, <2>2, <2>3, <3>1, <3>2 DEF Fresh
  <2>8. CASE FailDelay(w)
    <3>1. UNCHANGED <<unread, todo>> /\ delayed' = delayed \cup {item[w]}
      BY <2>8 DEF FailDelay, Zadd
    <3>2. \A v \in Workers : item'[v] # t
      BY <2>1, <2>2, <2>8 DEF FailDelay, Release, TypeOK
    <3> QED
      BY <1>1, <2>2, <2>3, <3>1, <3>2 DEF Fresh
  <2> QED
    BY <2>4, <2>5, <2>6, <2>7, <2>8 DEF WorkerStep
<1>4. \A t \in Tasks : caller'[t] # "done" => t \notin Queued' /\ t \notin delayed'
             /\ \A v \in Workers : item'[v] # t /\ t \notin todo'[v]
  BY <1>3 DEF Fresh
<1> QED
  BY <1>2, <1>4 DEF FreshInv, Sorted

LEMMA OtherFresh ==
  ASSUME TypeOK, FreshInv,
         \/ \E w \in Workers : WorkerFault(w)
         \/ \E t \in Tasks : CallerStep(t) \/ CallerFault(t) \/ TimeStep(t)
         \/ UNCHANGED vars
  PROVE  FreshInv'
<1>0. Sorted
  BY FreshIs
<1>1. ASSUME unread' = unread
      PROVE  Sorted' /\ Queued' = Queued
  BY <1>0, <1>1 DEF Sorted, Queued
<1>2. ASSUME NEW w \in Workers, WorkerFault(w)
      PROVE  FreshInv'
  <2>1. UNCHANGED <<unread, delayed, caller>>
    BY <1>2 DEF WorkerFault, Cut, FailCut, Swallow, setVars
  <2>2. \A v \in Workers : item'[v] \in {item[v], NoTask} /\ todo'[v] \subseteq todo[v]
    BY <1>2 DEF WorkerFault, Cut, FailCut, Swallow, Release, Continue, TypeOK
  <2> QED
    BY <1>1, <2>1, <2>2, NoTaskAssumption DEF FreshInv, Sorted
<1>3. ASSUME NEW u \in Tasks, Add(u)
      PROVE  FreshInv'
  <2>1. /\ UNCHANGED workerVars /\ caller' = [caller EXCEPT ![u] = "done"]
        /\ (Xadd(u) /\ delayed' = delayed) \/ (delayed' = delayed \cup {u} /\ unread' = unread)
    BY <1>3 DEF Add, Zadd, setVars
  <2>2. Sorted' /\ Queued' \subseteq Queued \cup {u}
    BY <1>0, <1>1, <2>1, XaddFresh
  <2>3. \A t \in Tasks : caller'[t] # "done" => t # u /\ caller[t] # "done"
    BY <2>1 DEF TypeOK
  <2> QED
    BY <2>1, <2>2, <2>3 DEF FreshInv, Sorted, workerVars
<1>4. ASSUME NEW u \in Tasks,
             Store(u) \/ CancelRead(u) \/ CancelSet(u) \/ CancelRemove(u) \/ CallerFault(u) \/ TimeStep(u)
      PROVE  FreshInv'
  <2>1. UNCHANGED <<unread, workerVars>> /\ delayed' \subseteq delayed
    BY <1>4 DEF Store, CancelRead, CancelSet, CancelRemove, Zrem, EnqueueCut, CancelCut, CallerFault, TimeStep, DelayPasses,
                TtlPasses, KeysExpire, setVars, envVars
  <2>2. \A t \in Tasks : caller'[t] # "done" => caller[t] # "done"
    BY <1>4 DEF Store, CancelRead, CancelSet, CancelRemove, EnqueueCut, CancelCut, CallerFault, TimeStep, DelayPasses,
                TtlPasses, KeysExpire, envVars, TypeOK
  <2> QED
    BY <1>1, <2>1, <2>2 DEF FreshInv, Sorted, workerVars
<1>5. CASE UNCHANGED vars
  <2>1. UNCHANGED <<unread, item, todo, delayed, caller>>
    BY <1>5 DEF vars, setVars, workerVars, envVars
  <2> QED
    BY <1>1, <2>1 DEF FreshInv, Sorted
<1> QED
  BY <1>2, <1>3, <1>4, <1>5 DEF CallerStep

LEMMA FreshStep == TypeOK /\ FreshInv /\ [Next]_vars => FreshInv'
BY WorkerFresh, OtherFresh DEF Next

\* The workers that hold t.
Holders(t) == {w \in Workers : item[w] = t /\ pc[w] \in Holding}

LEMMA CopiesIs ==
  ASSUME TypeOK, NEW t \in Tasks
  PROVE  /\ Copies(t) = Cardinality(Entries(unread[Level[t]], t)) + Cardinality(Holders(t))
         /\ IsFiniteSet(Entries(unread[Level[t]], t)) /\ IsFiniteSet(Holders(t))
         /\ Cardinality(Entries(unread[Level[t]], t)) \in Nat /\ Cardinality(Holders(t)) \in Nat
<1>1. unread[Level[t]] \in Seq(Tasks)
  BY LevelAssumption DEF TypeOK
<1>2. IsFiniteSet(Holders(t)) /\ Cardinality(Holders(t)) \in Nat
  BY WorkersAssumption, FS_Subset, FS_CardinalityType DEF Holders
<1> QED
  BY <1>1, <1>2, EntriesFinite DEF Copies, Entries, Holders

\* Neither an entry nor a holder more.
LEMMA NoMoreCopies ==
  ASSUME TypeOK, TypeOK', NEW t \in Tasks, unread'[Level[t]] = unread[Level[t]],
         \A w \in Workers : item'[w] = t /\ pc'[w] \in Holding => item[w] = t /\ pc[w] \in Holding
  PROVE  Copies(t)' <= Copies(t)
<1>1. /\ Copies(t) = Cardinality(Entries(unread[Level[t]], t)) + Cardinality(Holders(t))
      /\ IsFiniteSet(Holders(t))
      /\ Cardinality(Entries(unread[Level[t]], t)) \in Nat /\ Cardinality(Holders(t)) \in Nat
  BY CopiesIs
<1>2. Holders(t)' \subseteq Holders(t)
  BY DEF Holders
<1>3. Cardinality(Holders(t)') <= Cardinality(Holders(t)) /\ Cardinality(Holders(t)') \in Nat
  BY <1>1, <1>2, FS_Subset, FS_CardinalityType
<1>4. Copies(t)' = Cardinality(Entries(unread[Level[t]], t)) + Cardinality(Holders(t)')
  BY DEF Copies, Entries, Holders
<1> QED
  BY <1>1, <1>3, <1>4

\* An entry that is read is a copy before and after.
LEMMA ReadCopies ==
  ASSUME TypeOK, TypeOK', Sorted, NEW w \in Workers, Read(w), NEW t \in Tasks
  PROVE  Copies(t)' <= Copies(t)
<1> DEFINE s == unread[Level[t]]
<1>1. /\ Copies(t) = Cardinality(Entries(s, t)) + Cardinality(Holders(t))
      /\ IsFiniteSet(Entries(s, t)) /\ IsFiniteSet(Holders(t))
      /\ Cardinality(Entries(s, t)) \in Nat /\ Cardinality(Holders(t)) \in Nat
  BY CopiesIs
<1>2. /\ level[w] \in 1..Levels /\ unread[level[w]] \in Seq(Tasks) /\ unread[level[w]] # <<>>
      /\ unread'[level[w]] = Tail(unread[level[w]])
      /\ \A l \in 1..Levels : l # level[w] => unread'[l] = unread[l]
      /\ item'[w] = Head(unread[level[w]]) /\ pc[w] = "polling" /\ pc'[w] = "read"
      /\ \A v \in Workers : v # w => item'[v] = item[v] /\ pc'[v] = pc[v]
  BY ReadIs
<1>3. Level[item'[w]] = level[w] /\ Level[t] \in 1..Levels /\ pc[w] \notin Holding
  BY <1>2, ReadFresh, LevelAssumption DEF Holding
<1>4. CASE item'[w] = t
  <2>1. s # <<>> /\ s \in Seq(Tasks) /\ unread'[Level[t]] = Tail(s) /\ Head(s) = t
    BY <1>2, <1>3, <1>4
  <2>2. 1 \in Entries(s, t)
    BY <2>1, SeqParts DEF Entries
  <2>3. /\ Cardinality(Entries(Tail(s), t)) <= Cardinality(Entries(s, t) \ {1})
        /\ Cardinality(Entries(Tail(s), t)) \in Nat
    <3>1. Tail(s) \in Seq(Tasks)
      BY <2>1, SeqIs
    <3> QED
      BY <2>1, <3>1, TailEntries, EntriesFinite
  <2>4. Cardinality(Entries(s, t) \ {1}) = Cardinality(Entries(s, t)) - 1
    BY <1>1, <2>2, FS_RemoveElement
  <2>5. Holders(t)' \subseteq Holders(t) \cup {w}
    BY <1>2 DEF Holders
  <2>6. /\ Cardinality(Holders(t)') <= Cardinality(Holders(t)) + 1
        /\ Cardinality(Holders(t)') \in Nat
    <3>1. /\ IsFiniteSet(Holders(t) \cup {w})
          /\ Cardinality(Holders(t) \cup {w}) \in {Cardinality(Holders(t)), Cardinality(Holders(t)) + 1}
      BY <1>1, FS_AddElement
    <3>2. /\ Cardinality(Holders(t)') <= Cardinality(Holders(t) \cup {w})
          /\ IsFiniteSet(Holders(t)')
      BY <2>5, <3>1, FS_Subset
    <3>3. Cardinality(Holders(t)') \in Nat
      BY <3>2, FS_CardinalityType
    <3> QED
      BY <1>1, <3>1, <3>2, <3>3
  <2>7. Copies(t)' = Cardinality(Entries(Tail(s), t)) + Cardinality(Holders(t)')
    BY <2>1 DEF Copies, Entries, Holders
  <2> HIDE DEF s
  <2> QED
    BY <1>1, <2>3, <2>4, <2>6, <2>7
<1>5. CASE item'[w] # t
  <2>1. \A v \in Workers : item'[v] = t /\ pc'[v] \in Holding => item[v] = t /\ pc[v] \in Holding
    BY <1>2, <1>5
  <2>2. CASE Level[t] # level[w]
    <3>1. unread'[Level[t]] = unread[Level[t]]
      BY <1>2, <1>3, <2>2
    <3> QED
      BY <2>1, <3>1, NoMoreCopies
  <2>3. CASE Level[t] = level[w]
    <3>1. s # <<>> /\ s \in Seq(Tasks) /\ unread'[Level[t]] = Tail(s)
      BY <1>2, <2>3
    <3>2. Cardinality(Entries(s, t) \ {1}) <= Cardinality(Entries(s, t))
      BY <1>1, FS_Subset
    <3>3. /\ Cardinality(Entries(Tail(s), t)) <= Cardinality(Entries(s, t) \ {1})
          /\ Cardinality(Entries(Tail(s), t)) \in Nat
      <4>1. Tail(s) \in Seq(Tasks)
        BY <3>1, SeqIs
      <4> QED
        BY <3>1, <4>1, TailEntries, EntriesFinite
    <3>4. Cardinality(Entries(s, t) \ {1}) \in Nat
      BY <1>1, FS_Subset, FS_CardinalityType
    <3>5. Holders(t)' \subseteq Holders(t)
      BY <2>1 DEF Holders
    <3>6. Cardinality(Holders(t)') <= Cardinality(Holders(t)) /\ Cardinality(Holders(t)') \in Nat
      BY <1>1, <3>5, FS_Subset, FS_CardinalityType
    <3>7. Copies(t)' = Cardinality(Entries(Tail(s), t)) + Cardinality(Holders(t)')
      BY <3>1 DEF Copies, Entries, Holders
    <3> HIDE DEF s
    <3> QED
      BY <1>1, <3>2, <3>3, <3>4, <3>6, <3>7
  <2> QED
    BY <2>2, <2>3
<1> QED
  BY <1>4, <1>5

\* An entry of another task is no copy.
LEMMA XaddCopies ==
  ASSUME TypeOK, TypeOK', NEW u \in Tasks, NEW t \in Tasks, Xadd(u), u # t, Level[u] = Level[t],
         \A v \in Workers : item'[v] = t /\ pc'[v] \in Holding => item[v] = t /\ pc[v] \in Holding
  PROVE  Copies(t)' <= Copies(t)
<1> DEFINE s == unread[Level[t]]
<1>1. s \in Seq(Tasks) /\ unread'[Level[t]] = Append(s, u)
  BY XaddIs
<1>2. /\ Copies(t) = Cardinality(Entries(s, t)) + Cardinality(Holders(t))
      /\ IsFiniteSet(Holders(t))
      /\ Cardinality(Entries(s, t)) \in Nat /\ Cardinality(Holders(t)) \in Nat
  BY CopiesIs
<1> HIDE DEF s
<1>3. Entries(Append(s, u), t) = Entries(s, t)
  BY <1>1, SeqParts DEF Entries
<1>4. Holders(t)' \subseteq Holders(t)
  BY DEF Holders
<1>5. Cardinality(Holders(t)') <= Cardinality(Holders(t)) /\ Cardinality(Holders(t)') \in Nat
  BY <1>2, <1>4, FS_Subset, FS_CardinalityType
<1>6. Copies(t)' = Cardinality(Entries(Append(s, u), t)) + Cardinality(Holders(t)')
  BY <1>1 DEF Copies, Entries, Holders
<1> QED
  BY <1>2, <1>3, <1>5, <1>6

\* A step makes a copy more of a task that has one only by Move.
LEMMA WorkerCopies ==
  ASSUME TypeOK, TypeOK', FreshInv, NEW w \in Workers, WorkerStep(w), NEW t \in Tasks
  PROVE  \/ Copies(t)' <= Copies(t)
         \/ pc[w] = "moving" /\ t \in todo[w] /\ pc'[w] = "removing"
<1>1. ASSUME NEW u \in Tasks, Move(w, u)
      PROVE  Copies(t)' <= Copies(t) \/ (pc[w] = "moving" /\ t \in todo[w] /\ pc'[w] = "removing")
  <2>1. CASE u = t
    BY <1>1, <2>1 DEF Move, TypeOK
  <2>2. CASE u # t
    <3>1. \A v \in Workers : item'[v] = t /\ pc'[v] \in Holding => item[v] = t /\ pc[v] \in Holding
      BY <1>1, <2>2 DEF Move, TypeOK, Holding
    <3>2. CASE unread' = unread \/ Level[u] # Level[t]
      <4>1. unread'[Level[t]] = unread[Level[t]]
        BY <1>1, <3>2, XaddIs, LevelAssumption DEF Move
      <4> QED
        BY <3>1, <4>1, NoMoreCopies
    <3>3. CASE Xadd(u) /\ Level[u] = Level[t]
      BY <2>2, <3>1, <3>3, XaddCopies
    <3> QED
      BY <1>1, <3>2, <3>3 DEF Move
  <2> QED
    BY <2>1, <2>2
<1>2. CASE Read(w)
  BY <1>2, ReadCopies, FreshIs
<1>3. ASSUME \/ Begin(w) \/ MoveEnds(w) \/ ReadNone(w) \/ PassOver(w) \/ Expire(w) \/ Claim(w)
             \/ Complete(w) \/ CompleteRaises(w) \/ Fail(w) \/ FailRetry(w) \/ FailDelay(w) \/ FailFinal(w)
      PROVE  Copies(t)' <= Copies(t)
  <2>1. unread' = unread
    BY <1>3 DEF Begin, MoveEnds, ReadNone, PassOver, Expire, Claim, Complete, CompleteRaises, Fail,
                              FailRetry,
                FailDelay, FailFinal
  <2>2. \A v \in Workers : item'[v] = t /\ pc'[v] \in Holding => item[v] = t /\ pc[v] \in Holding
    <3>1. \A v \in Workers : v # w => item'[v] = item[v] /\ pc'[v] = pc[v]
      <4>1. CASE Begin(w) \/ MoveEnds(w)
        BY <4>1 DEF Begin, MoveEnds, MoveOn, TypeOK
      <4>2. CASE ReadNone(w) \/ PassOver(w) \/ Expire(w)
        BY <4>2 DEF ReadNone, PassOver, Expire, Continue, TypeOK
      <4>3. CASE Complete(w) \/ FailDelay(w) \/ FailFinal(w)
        BY <4>3 DEF Complete, FailDelay, FailFinal, Release, TypeOK
      <4>4. CASE Claim(w) \/ CompleteRaises(w) \/ FailRetry(w) \/ Fail(w)
        <5>1. item' = item \/ item' = [item EXCEPT ![w] = NoTask]
          BY <4>4 DEF Claim, CompleteRaises, FailRetry, Fail, Release
        <5>2. \E p \in {"executing", "raised", "retrying", "failing", "idle"} :
                 pc' = [pc EXCEPT ![w] = p]
          BY <4>4 DEF Claim, CompleteRaises, FailRetry, Fail, Release
        <5> QED
          BY <5>1, <5>2 DEF TypeOK
      <4> QED
        BY <1>3, <4>1, <4>2, <4>3, <4>4
    <3>2. pc'[w] \in Holding => item'[w] = item[w] /\ pc[w] \in Holding
      BY <1>3 DEF Begin, MoveEnds, ReadNone, PassOver, Expire, Claim, Complete, CompleteRaises, Fail,
                              FailRetry,
                  FailDelay, FailFinal, MoveOn, Continue, Release, TypeOK, Holding
    <3> QED
      BY <3>1, <3>2
  <2> QED
    BY <2>1, <2>2, NoMoreCopies
<1> QED
  BY <1>1, <1>2, <1>3 DEF WorkerStep

LEMMA OtherCopies ==
  ASSUME TypeOK, TypeOK', FreshInv, NEW t \in Tasks, Copies(t) >= 1,
         \/ \E w \in Workers : WorkerFault(w)
         \/ \E u \in Tasks : CallerStep(u) \/ CallerFault(u) \/ TimeStep(u)
         \/ UNCHANGED vars
  PROVE  Copies(t)' <= Copies(t)
<1>1. ASSUME unread' = unread, UNCHANGED <<pc, item>>
      PROVE  Copies(t)' <= Copies(t)
  BY <1>1, NoMoreCopies
<1>2. ASSUME NEW w \in Workers, WorkerFault(w)
      PROVE  Copies(t)' <= Copies(t)
  <2>1. unread' = unread
    BY <1>2 DEF WorkerFault, Cut, FailCut, Swallow
  <2>2. \A v \in Workers : item'[v] = t /\ pc'[v] \in Holding => item[v] = t /\ pc[v] \in Holding
    <3>1. /\ item' = [item EXCEPT ![w] = NoTask]
          /\ \E p \in WorkerState : pc' = [pc EXCEPT ![w] = p]
      BY <1>2 DEF WorkerFault, Cut, FailCut, Swallow, Release, Continue, WorkerState
    <3> QED
      BY <3>1, NoTaskAssumption DEF TypeOK
  <2> QED
    BY <2>1, <2>2, NoMoreCopies
<1>3. ASSUME NEW u \in Tasks, Add(u), Xadd(u)
      PROVE  Copies(t)' <= Copies(t)
  <2>1. UNCHANGED <<pc, item>> /\ caller[u] = "storing"
    BY <1>3 DEF Add, workerVars
  <2>2. CASE u = t
    <3>1. Fresh(t)
      BY <2>1, <2>2, FreshIs
    <3>2. Entries(unread[Level[t]], t) = {} /\ Holders(t) = {}
      BY <3>1, LevelAssumption DEF Fresh, Queued, Entries, Holders
    <3>3. Copies(t) = 0
      <4>1. Copies(t) = Cardinality(Entries(unread[Level[t]], t)) + Cardinality(Holders(t))
        BY CopiesIs
      <4> QED
        BY <3>2, <4>1, FS_EmptySet
    <3> QED
      BY <3>3
  <2>3. CASE u # t /\ Level[u] # Level[t]
    <3>1. unread'[Level[t]] = unread[Level[t]]
      BY <1>3, <2>3, XaddIs, LevelAssumption
    <3> QED
      BY <2>1, <3>1, NoMoreCopies
  <2>4. CASE u # t /\ Level[u] = Level[t]
    BY <1>3, <2>1, <2>4, XaddCopies
  <2> QED
    BY <2>2, <2>3, <2>4
<1>4. ASSUME NEW u \in Tasks, ~Xadd(u), CallerStep(u) \/ CallerFault(u) \/ TimeStep(u)
      PROVE  UNCHANGED <<unread, pc, item>>
  BY <1>4 DEF CallerStep, Store, Add, CancelRead, CancelSet, CancelRemove, EnqueueCut, CancelCut, CallerFault, TimeStep,
              DelayPasses, TtlPasses, KeysExpire, workerVars
<1>5. ASSUME NEW u \in Tasks, Xadd(u), CallerStep(u) \/ CallerFault(u) \/ TimeStep(u), ~Add(u)
      PROVE  UNCHANGED <<unread, pc, item>>
  BY <1>5 DEF CallerStep, Store, CancelRead, CancelSet, CancelRemove, EnqueueCut, CancelCut, CallerFault, TimeStep,
              DelayPasses, TtlPasses, KeysExpire, workerVars
<1>6. CASE UNCHANGED vars
  BY <1>1, <1>6 DEF vars, workerVars
<1> QED
  BY <1>1, <1>2, <1>3, <1>4, <1>5, <1>6

LEMMA InitFresh == Init => FreshInv
BY NoTaskAssumption DEF Init, FreshInv, Queued

\* For any tasks and workers: of a task that is waiting or executed there is never one more
\* copy, except by a worker that moves it from the sorted set to its stream.
THEOREM RedisDuplicates == Spec => DuplicatesOnlyByMove
<1>1. ASSUME TypeOK, FreshInv, [Next]_vars, NEW t \in Tasks, Copies(t) >= 1, Copies(t)' > Copies(t)
      PROVE  \E w \in Workers : pc[w] = "moving" /\ t \in todo[w] /\ pc'[w] = "removing"
  <2>1. TypeOK' /\ Copies(t) \in Int /\ Copies(t)' \in Int
    <3>1. TypeOK'
      BY <1>1, TypeStep
    <3>2. Copies(t) \in Int
      BY <1>1, CopiesIs
    <3>3. Copies(t)' \in Int
      <4>1. \A s \in Seq(Tasks) : Cardinality(Entries(s, t)) \in Nat
        BY EntriesFinite
      <4>2. unread'[Level[t]] \in Seq(Tasks)
        BY <3>1, LevelAssumption DEF TypeOK
      <4>3. Cardinality(Holders(t)') \in Nat
        BY WorkersAssumption, FS_Subset, FS_CardinalityType DEF Holders
      <4> QED
        BY <4>1, <4>2, <4>3 DEF Copies, Entries, Holders
    <3> QED
      BY <3>1, <3>2, <3>3
  <2>2. ~(Copies(t)' <= Copies(t))
    BY <1>1, <2>1
  <2>3. \E w \in Workers : WorkerStep(w)
    BY <1>1, <2>1, <2>2, OtherCopies DEF Next
  <2> QED
    BY <1>1, <2>1, <2>2, <2>3, WorkerCopies
<1>2. TypeOK /\ FreshInv /\ [Next]_vars =>
        \A t \in Tasks : Copies(t) >= 1 /\ Copies(t)' > Copies(t) =>
           \E w \in Workers : /\ pc[w] = "moving" /\ t \in todo[w]
                              /\ pc'[w] = "removing"
  BY <1>1
<1> QED
  BY <1>2, InitType, TypeStep, InitFresh, FreshStep, PTL DEF Spec, DuplicatesOnlyByMove

\* The hashes, streams, sorted set and workers stay within their types.
THEOREM RedisTypes == Spec => []TypeOK
BY InitType, TypeStep, PTL DEF Spec

=============================================================================
