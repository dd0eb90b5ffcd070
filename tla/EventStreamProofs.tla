------------------------- MODULE EventStreamProofs -------------------------
(***************************************************************************)
(* Proofs about EventStream, for any connections, topics, limits and       *)
(* kinds of events.  Three records say whose subscriptions there are: that *)
(* of the stream, that of the manager and that of the handler's tasks.     *)
(* The invariant RecordsInv says how they agree, and what becomes of the   *)
(* task of a subscription that is in none of them.  HistoryInv and         *)
(* StreamsInv follow the events from the log to the subscribers.           *)
(***************************************************************************)
EXTENDS EventStream, SequenceTheorems, TLAPS

\* The delivery task of o has not ended.
Alive(o) == task[o] \in {"new", "waiting", "sending"}

\* A registered subscription is the latest of its id: it is open, its task runs, the
\* handler knows that task, and the manager knows whose subscription it is.
Served(i) ==
    /\ registered[i] \in 1..made[i]
    /\ tasks[i] = registered[i]
    /\ Alive(<<i, registered[i]>>)
    /\ <<i, registered[i]>> \notin closed
    /\ i \in connSubs[i[1]]
    /\ i[1] \notin gone

RecordsInv ==
    /\ \A i \in Ids : registered[i] # 0 => Served(i)
    /\ \A c \in Conns : \A i \in connSubs[c] : i[1] = c
    /\ \A c \in gone : connSubs[c] = {}
    /\ \A o \in Subs : /\ Alive(o) => o \in closed \/ o \in Live
                       /\ o \in closed => o[2] <= made[o[1]]

-----------------------------------------------------------------------------
(* Lemmas.                                                                 *)

LEMMA SubsIs ==
  /\ \A o \in Subs : o[1] \in Ids /\ o[2] \in 1..MaxSubs[o[1]] /\ o = <<o[1], o[2]>>
  /\ \A i \in Ids : \A g \in 1..MaxSubs[i] : <<i, g>> \in Subs
  /\ \A i \in Ids : MaxSubs[i] \in Nat /\ i[1] \in Conns /\ i[2] \in Topics
BY IdsAssumption, BoundsAssumption DEF Subs

LEMMA AppendIs ==
  ASSUME NEW S, NEW s \in Seq(S), NEW m \in S
  PROVE  Append(s, m) \in Seq(S) /\ Len(Append(s, m)) = Len(s) + 1 /\ Len(s) \in Nat
OBVIOUS

LEMMA TailIs ==
  ASSUME NEW S, NEW s \in Seq(S), s # <<>>
  PROVE  Head(s) \in S /\ Tail(s) \in Seq(S) /\ Len(Tail(s)) = Len(s) - 1 /\ Len(s) \in Nat
OBVIOUS

\* A part of a sequence.
LEMMA PartIs ==
  ASSUME NEW S, NEW s \in Seq(S), NEW a \in 1..(Len(s) + 1), NEW b \in 0..Len(s), a <= b + 1
  PROVE  SubSeq(s, a, b) \in Seq(S) /\ Len(SubSeq(s, a, b)) = b - a + 1
OBVIOUS

\* The history stays within its limit.
LEMMA TrimIs ==
  ASSUME NEW h \in Seq(Event), Len(h) <= MaxHistory + 1
  PROVE  Trim(h) \in Seq(Event) /\ Len(Trim(h)) <= MaxHistory
<1>1. MaxHistory \in Nat /\ MaxHistory >= 1 /\ Len(h) \in Nat
  BY BoundsAssumption
<1>2. CASE Len(h) <= MaxHistory
  BY <1>1, <1>2 DEF Trim
<1>3. CASE Len(h) > MaxHistory
  <2>1. Len(h) - MaxHistory + 1 \in 1..(Len(h) + 1) /\ Len(h) \in 0..Len(h)
    BY <1>1, <1>3
  <2>2. SubSeq(h, Len(h) - MaxHistory + 1, Len(h)) \in Seq(Event)
        /\ Len(SubSeq(h, Len(h) - MaxHistory + 1, Len(h))) = Len(h) - (Len(h) - MaxHistory + 1) + 1
    BY <1>1, <1>3, <2>1, PartIs
  <2> QED
    BY <1>1, <1>3, <2>2 DEF Trim
<1> QED
  BY <1>1, <1>2, <1>3

-----------------------------------------------------------------------------
(* Types.                                                                  *)

LEMMA PublishType ==
  ASSUME TypeOK, NEW k \in Kinds, Publish(k)
  PROVE  TypeOK'
<1> DEFINE e == [n |-> Len(log) + 1, kind |-> k]
<1>1. /\ log \in Seq(Kinds) /\ Len(log) \in Nat /\ Len(log) < MaxEvents /\ MaxEvents \in Nat
      /\ MaxQueue \in Nat
  BY BoundsAssumption DEF TypeOK, Publish
<1>2. e \in Event
  BY <1>1 DEF Event
<1>3. log' \in Seq(Kinds)
  BY <1>1 DEF Publish
<1> HIDE DEF e
<1>4. /\ k.session \in Sessions /\ history[k.session] \in Seq(Event)
      /\ Len(history[k.session]) <= MaxHistory
  BY DEF TypeOK, Sessions
<1>5. /\ Append(history[k.session], e) \in Seq(Event)
      /\ Len(Append(history[k.session], e)) <= MaxHistory + 1
  BY <1>2, <1>4, AppendIs, BoundsAssumption
<1>6. history' = [history EXCEPT ![k.session] = Trim(Append(history[k.session], e))]
  BY DEF Publish, e
<1>7. history' \in [Sessions -> Seq(Event)] /\ \A s \in Sessions : Len(history'[s]) <= MaxHistory
  BY <1>4, <1>5, <1>6, TrimIs DEF TypeOK
<1>8. queue' \in [Subs -> Seq(Event)] /\ \A o \in Subs : Len(queue'[o]) <= MaxQueue
  <2>1. ASSUME NEW o \in Subs
        PROVE  /\ queue[o] \in Seq(Event) /\ Len(queue[o]) \in Nat /\ Len(queue[o]) <= MaxQueue
               /\ Append(queue[o], e) \in Seq(Event)
               /\ Len(Append(queue[o], e)) = Len(queue[o]) + 1
    BY <1>2, AppendIs DEF TypeOK
  <2>2. PICK To \in SUBSET Subs :
           queue' = [o \in Subs |-> IF o \in To /\ Len(queue[o]) < MaxQueue
                                    THEN Append(queue[o], e) ELSE queue[o]]
    BY DEF Publish, Live, e
  <2> QED
    BY <1>1, <2>1, <2>2
<1>9. dropped' \in SUBSET Subs
  BY DEF Publish, Live, TypeOK
<1> QED
  BY <1>3, <1>7, <1>8, <1>9 DEF Publish, TypeOK, subVars, connVars

LEMMA SubscribeType ==
  ASSUME TypeOK, NEW c \in Conns, NEW t \in Topics, NEW include \in BOOLEAN,
         Subscribe(c, t, include)
  PROVE  TypeOK'
<1> DEFINE i == <<c, t>>
           o == <<i, made[i] + 1>>
           h == Replay(t, include)
<1>1. i \in Ids /\ made[i] \in Nat /\ made[i] < MaxSubs[i] /\ MaxSubs[i] \in Nat /\ i[1] = c
  BY SubsIs DEF Subscribe, TypeOK
<1>2. o \in Subs
  BY <1>1, SubsIs
<1>3. h \in Seq(Event) /\ Len(h) \in Nat
  <2>1. t.session \in Sessions
    BY DEF Sessions
  <2>2. history[t.session] \in Seq(Event) /\ <<>> \in Seq(Event)
    BY <2>1 DEF TypeOK
  <2> QED
    BY <2>2 DEF Replay
<1> DEFINE q == SubSeq(h, 1, IF Len(h) < MaxQueue THEN Len(h) ELSE MaxQueue)
<1>4. q \in Seq(Event) /\ Len(q) <= MaxQueue
  <2> DEFINE b == IF Len(h) < MaxQueue THEN Len(h) ELSE MaxQueue
  <2> HIDE DEF h
  <2>1. b \in 0..Len(h) /\ b <= MaxQueue /\ b \in Nat
    BY <1>3, BoundsAssumption
  <2> HIDE DEF b
  <2>2. SubSeq(h, 1, b) \in Seq(Event) /\ Len(SubSeq(h, 1, b)) = b
    BY <1>3, <2>1, PartIs
  <2> QED
    BY <2>1, <2>2 DEF b
<1>5. queue' = [queue EXCEPT ![o] = q]
  BY DEF Subscribe
<1> HIDE DEF q
<1>6. queue' \in [Subs -> Seq(Event)] /\ \A p \in Subs : Len(queue'[p]) <= MaxQueue
  BY <1>2, <1>4, <1>5 DEF TypeOK
<1>7. /\ registered' \in [Ids -> Nat] /\ tasks' \in [Ids -> Nat]
      /\ made' \in [Ids -> Nat] /\ \A j \in Ids : made'[j] <= MaxSubs[j]
      /\ since' \in [Ids -> Nat]
  <2>1. /\ registered' = [registered EXCEPT ![i] = made[i] + 1]
        /\ tasks' = [tasks EXCEPT ![i] = made[i] + 1]
        /\ made' = [made EXCEPT ![i] = made[i] + 1]
        /\ since' = [since EXCEPT ![i] = Len(log)] /\ Len(log) \in Nat
    BY DEF Subscribe, TypeOK
  <2> HIDE DEF i
  <2> QED
    BY <1>1, <2>1 DEF TypeOK
<1>8. connSubs' \in [Conns -> SUBSET Ids]
  BY <1>1 DEF Subscribe, Track, TypeOK
<1>9. task' \in [Subs -> TaskState] /\ dropped' \in SUBSET Subs
  BY <1>2 DEF Subscribe, TypeOK, TaskState
<1> QED
  BY <1>6, <1>7, <1>8, <1>9 DEF Subscribe, TypeOK, connVars

LEMMA TasksEndType ==
  ASSUME TypeOK, NEW O, TasksEnd(O)
  PROVE  /\ task' \in [Subs -> TaskState]
         /\ queue' \in [Subs -> Seq(Event)] /\ \A o \in Subs : Len(queue'[o]) <= MaxQueue
         /\ got' \in [Subs -> Seq(Event)]
         /\ dropped' \in SUBSET Subs
<1>1. <<>> \in Seq(Event) /\ Len(<<>>) = 0 /\ MaxQueue \in Nat
  BY BoundsAssumption
<1> QED
  BY <1>1 DEF TypeOK, TasksEnd, TaskState

LEMMA EndType ==
  ASSUME TypeOK, NEW I, NEW J, End(I, J),
         UNCHANGED <<log, history, made>>, connSubs' \in [Conns -> SUBSET Ids],
         open' \subseteq Conns, gone' \subseteq Conns
  PROVE  TypeOK'
<1>1. /\ closed' \in SUBSET Subs /\ registered' \in [Ids -> Nat] /\ tasks' \in [Ids -> Nat]
      /\ since' \in [Ids -> Nat]
  BY DEF End, TypeOK, Live
<1>2. PICK O : TasksEnd(O)
  BY DEF End
<1> QED
  BY <1>1, <1>2, TasksEndType DEF TypeOK

LEMMA TaskType ==
  ASSUME TypeOK, NEW o \in Subs, TaskStep(o)
  PROVE  TypeOK'
<1>0. UNCHANGED <<log, history, registered, since, made, connSubs, tasks, closed, open, gone>>
  BY DEF TaskStep, Loop, Wake, subVars, connVars
<1>1. CASE TasksEnd({o})
  BY <1>0, <1>1, TasksEndType DEF TypeOK
<1>2. CASE Waits(o)
  BY <1>0, <1>2 DEF Waits, TypeOK, TaskState
<1>3. CASE queue[o] # <<>> /\ Take(o)
  <2>1. queue[o] \in Seq(Event) /\ got[o] \in Seq(Event) /\ Len(queue[o]) <= MaxQueue
        /\ MaxQueue \in Nat
    BY BoundsAssumption DEF TypeOK
  <2>2. /\ Head(queue[o]) \in Event /\ Tail(queue[o]) \in Seq(Event)
        /\ Len(Tail(queue[o])) <= MaxQueue
    <3>1. Head(queue[o]) \in Event /\ Tail(queue[o]) \in Seq(Event)
          /\ Len(Tail(queue[o])) = Len(queue[o]) - 1 /\ Len(queue[o]) \in Nat
      BY <1>3, <2>1, TailIs
    <3> QED
      BY <2>1, <3>1
  <2>3. Append(got[o], Head(queue[o])) \in Seq(Event)
    BY <2>1, <2>2, AppendIs
  <2>4. queue' \in [Subs -> Seq(Event)] /\ \A p \in Subs : Len(queue'[p]) <= MaxQueue
    BY <1>3, <2>2 DEF Take, TypeOK
  <2>5. got' \in [Subs -> Seq(Event)]
    BY <1>3, <2>3 DEF Take, TypeOK
  <2>6. task' \in [Subs -> TaskState] /\ dropped' = dropped
    BY <1>3 DEF Take, TypeOK, TaskState
  <2> QED
    BY <1>0, <2>4, <2>5, <2>6 DEF TypeOK
<1> QED
  BY <1>1, <1>2, <1>3 DEF TaskStep, Loop, Wake

LEMMA TypeStep == TypeOK /\ [Next]_vars => TypeOK'
<1> SUFFICES ASSUME TypeOK, [Next]_vars PROVE TypeOK'
  OBVIOUS
<1>1. ASSUME NEW s \in Sessions, ClearHistory(s)
      PROVE  TypeOK'
  <2>1. <<>> \in Seq(Event) /\ Len(<<>>) = 0 /\ MaxHistory \in Nat
    BY BoundsAssumption
  <2> QED
    BY <1>1, <2>1 DEF ClearHistory, TypeOK, subVars, objVars, connVars
<1>2. ASSUME NEW i \in Ids, Unsubscribe(i)
      PROVE  TypeOK'
  BY <1>2, EndType DEF Unsubscribe, connVars, TypeOK
<1>3. ASSUME NEW c \in Conns, UnsubscribeAll(c) \/ Leave(c)
      PROVE  TypeOK'
  <2>1. connSubs' \in [Conns -> SUBSET Ids] /\ End(connSubs[c], {i \in Ids : i[1] = c})
    BY <1>3 DEF UnsubscribeAll, Leave, EndAll, TypeOK
  <2>2. open' \subseteq Conns /\ gone' \subseteq Conns /\ UNCHANGED <<log, history, made>>
    BY <1>3 DEF UnsubscribeAll, Leave, connVars, TypeOK
  <2> QED
    BY <2>1, <2>2, EndType
<1>4. ASSUME NEW c \in Conns, CloseSocket(c)
      PROVE  TypeOK'
  BY <1>4 DEF CloseSocket, TypeOK, subVars, objVars
<1>5. CASE CloseManager
  <2>1. <<>> \in Seq(Event) /\ Len(<<>>) = 0 /\ MaxHistory \in Nat
    BY BoundsAssumption
  <2> QED
    BY <1>5, <2>1 DEF CloseManager, TypeOK, Live, connVars
<1>6. CASE UNCHANGED vars
  BY <1>6 DEF vars, subVars, objVars, connVars, TypeOK
<1> QED
  BY <1>1, <1>2, <1>3, <1>4, <1>5, <1>6, PublishType, SubscribeType, TaskType
     DEF Next, EmitEvent, Disconnected
-----------------------------------------------------------------------------
(* The records of subscriptions.                                           *)

\* A registered subscription is one of the objects.
LEMMA LiveIs ==
  ASSUME TypeOK, RecordsInv
  PROVE  /\ \A i \in Ids : registered[i] # 0 =>
              <<i, registered[i]>> \in Live /\ <<i, registered[i]>>[1] = i
         /\ \A o \in Subs : o[1] \in Ids /\ o[2] # 0 /\ o = <<o[1], o[2]>>
<1>1. ASSUME NEW i \in Ids, registered[i] # 0
      PROVE  registered[i] \in 1..MaxSubs[i]
  <2>1. registered[i] \in 1..made[i] /\ made[i] \in Nat /\ made[i] <= MaxSubs[i]
    BY <1>1 DEF RecordsInv, Served, TypeOK
  <2> QED
    BY <2>1, SubsIs
<1>2. \A i \in Ids : registered[i] # 0 => <<i, registered[i]>> \in Live
  BY <1>1, SubsIs DEF Live
<1>3. ASSUME NEW o \in Subs
      PROVE  o[1] \in Ids /\ o[2] # 0 /\ o = <<o[1], o[2]>>
  <2>1. MaxSubs[o[1]] \in Nat /\ o[2] \in 1..MaxSubs[o[1]]
    BY SubsIs
  <2> QED
    BY <2>1, SubsIs
<1> QED
  BY <1>2, <1>3

LEMMA RecordsSame ==
  ASSUME RecordsInv, UNCHANGED <<subVars, task, closed, gone>>
  PROVE  RecordsInv'
BY DEF RecordsInv, Served, Alive, Live, subVars

\* What unsubscribes an id cancels its task as well.
LEMMA EndRecords ==
  ASSUME TypeOK, RecordsInv, NEW I, NEW J, End(I, J), made' = made,
         I \subseteq J, \A i \in Ids : i \in J /\ registered[i] # 0 => i \in I,
         \A c \in Conns : connSubs'[c] \subseteq connSubs[c],
         \A i \in Ids \ I : registered[i] # 0 => i \in connSubs'[i[1]] /\ i[1] \notin gone',
         \A c \in gone' : connSubs'[c] = {}
  PROVE  RecordsInv'
<1>1. /\ closed' = closed \cup {o \in Live : o[1] \in I}
      /\ registered' = [i \in Ids |-> IF i \in I THEN 0 ELSE registered[i]]
      /\ task' = [o \in Subs |-> IF o[1] \in J /\ tasks[o[1]] = o[2] THEN "ended" ELSE task[o]]
      /\ tasks' = [i \in Ids |-> IF i \in J THEN 0 ELSE tasks[i]]
  BY DEF End, TasksEnd
<1>2. ASSUME NEW i \in Ids, registered'[i] # 0
      PROVE  Served(i)'
  <2>1. i \notin I /\ i \notin J /\ registered'[i] = registered[i] /\ tasks'[i] = tasks[i]
    BY <1>1, <1>2
  <2> DEFINE o == <<i, registered[i]>>
  <2>2. Served(i) /\ registered[i] # 0
    BY <1>2, <2>1 DEF RecordsInv
  <2>3. o \in Subs /\ o[1] = i
    BY <2>2, LiveIs DEF Live
  <2> HIDE DEF o
  <2>4. task'[o] = task[o] /\ (o \in closed' => o \in closed)
    BY <1>1, <2>1, <2>3
  <2> QED
    BY <2>1, <2>2, <2>4 DEF Served, Alive, o
<1>3. ASSUME NEW o \in Subs
      PROVE  /\ Alive(o)' => o \in closed' \/ o \in Live'
             /\ o \in closed' => o[2] <= made'[o[1]]
  <2>1. Alive(o)' => Alive(o)
    BY <1>1 DEF Alive
  <2>2. o[1] \in Ids
    BY SubsIs
  <2>3. o \in Live => o \in closed' \/ o \in Live'
    BY <1>1, <2>2 DEF Live
  <2>4. o \in Live => o[2] <= made[o[1]]
    <3>1. o \in Live => Served(o[1]) /\ o[2] = registered[o[1]]
      BY <2>2, LiveIs DEF RecordsInv, Live
    <3>2. made[o[1]] \in Nat
      BY <2>2 DEF TypeOK
    <3> QED
      BY <3>1, <3>2 DEF Served
  <2> QED
    BY <1>1, <2>1, <2>3, <2>4 DEF RecordsInv
<1> QED
  BY <1>2, <1>3 DEF RecordsInv

LEMMA SubscribeRecords ==
  ASSUME TypeOK, RecordsInv, NEW c \in Conns, NEW t \in Topics, NEW include \in BOOLEAN,
         Subscribe(c, t, include)
  PROVE  RecordsInv'
<1> DEFINE i == <<c, t>>
           o == <<i, made[i] + 1>>
<1>1. /\ i \in Ids /\ made[i] \in Nat /\ i[1] = c /\ c \notin gone /\ registered[i] = 0
      /\ made[i] < MaxSubs[i] /\ MaxSubs[i] \in Nat
  BY SubsIs DEF Subscribe, TypeOK
<1>2. o \in Subs /\ o[1] = i /\ o[2] = made[i] + 1
  BY <1>1, SubsIs
<1>3. /\ registered' = [registered EXCEPT ![i] = made[i] + 1]
      /\ tasks' = [tasks EXCEPT ![i] = made[i] + 1]
      /\ made' = [made EXCEPT ![i] = made[i] + 1]
      /\ connSubs' = [connSubs EXCEPT ![c] = connSubs[c] \cup {i}]
      /\ task' = [task EXCEPT ![o] = "new"]
      /\ UNCHANGED <<closed, gone>>
  BY DEF Subscribe, Track, connVars
<1>4. o \notin closed
  BY <1>1, <1>2 DEF RecordsInv
<1> HIDE DEF i
<1>5. ASSUME NEW j \in Ids, registered'[j] # 0
      PROVE  Served(j)'
  <2>1. CASE j = i
    <3>1. registered'[j] = made[i] + 1 /\ tasks'[j] = made[i] + 1 /\ made'[j] = made[i] + 1
      BY <1>1, <1>3, <2>1 DEF TypeOK
    <3>2. task'[o] = "new" /\ j \in connSubs'[j[1]]
      BY <1>1, <1>2, <1>3, <2>1 DEF TypeOK
    <3>3. <<j, registered'[j]>> = o
      BY <2>1, <3>1
    <3> HIDE DEF o
    <3> QED
      BY <1>1, <1>3, <1>4, <2>1, <3>1, <3>2, <3>3 DEF Served, Alive
  <2>2. CASE j # i
    <3>1. registered'[j] = registered[j] /\ tasks'[j] = tasks[j] /\ made'[j] = made[j]
      BY <1>3, <2>2 DEF TypeOK
    <3>2. Served(j)
      BY <1>5, <3>1 DEF RecordsInv
    <3>3. <<j, registered[j]>> \in Subs /\ <<j, registered[j]>> # o
      BY <1>5, <2>2, <3>1, LiveIs DEF Live
    <3>4. task'[<<j, registered[j]>>] = task[<<j, registered[j]>>]
      BY <1>3, <3>3 DEF TypeOK
    <3>5. j[1] \in Conns /\ connSubs[j[1]] \subseteq connSubs'[j[1]]
      BY <1>3, SubsIs DEF TypeOK
    <3> QED
      BY <1>3, <3>1, <3>2, <3>4, <3>5 DEF Served, Alive
  <2> QED
    BY <2>1, <2>2
<1>6. /\ \A d \in Conns : \A j \in connSubs'[d] : j[1] = d
      /\ \A d \in gone' : connSubs'[d] = {}
  BY <1>1, <1>3 DEF RecordsInv, TypeOK
<1>7. ASSUME NEW p \in Subs
      PROVE  /\ Alive(p)' => p \in closed' \/ p \in Live'
             /\ p \in closed' => p[2] <= made'[p[1]]
  <2>1. p[1] \in Ids /\ p = <<p[1], p[2]>> /\ p[2] # 0 /\ p[2] \in Nat /\ made[p[1]] \in Nat
    <3>1. p[1] \in Ids /\ p = <<p[1], p[2]>> /\ p[2] # 0 /\ p[2] \in 1..MaxSubs[p[1]]
      BY SubsIs, LiveIs
    <3>2. MaxSubs[p[1]] \in Nat
      BY <3>1, SubsIs
    <3> QED
      BY <3>1, <3>2 DEF TypeOK
  <2>2. p \in closed' => p[2] <= made'[p[1]]
    BY <1>1, <1>3, <2>1 DEF RecordsInv, TypeOK
  <2>3. CASE p = o
    <3>1. registered'[i] = made[i] + 1
      BY <1>1, <1>3 DEF TypeOK
    <3>2. o \in Live'
      BY <1>2, <3>1 DEF Live
    <3> QED
      BY <2>2, <2>3, <3>2
  <2>4. CASE p # o
    <3>1. task'[p] = task[p]
      BY <1>3, <2>4 DEF TypeOK
    <3>2. p \in Live => p \in Live'
      BY <1>1, <1>3, <2>1 DEF Live, TypeOK
    <3> QED
      BY <1>3, <2>2, <3>1, <3>2 DEF RecordsInv, Alive
  <2> QED
    BY <2>3, <2>4
<1> QED
  BY <1>5, <1>6, <1>7 DEF RecordsInv

\* A delivery task ends by itself only when its subscription is closed.
LEMMA TaskRecords ==
  ASSUME TypeOK, RecordsInv, NEW o \in Subs, TaskStep(o)
  PROVE  RecordsInv'
<1>1. UNCHANGED <<registered, made, connSubs, tasks, closed, gone>>
  BY DEF TaskStep, Loop, Wake, subVars, connVars
<1>2. \/ o \in closed /\ task' = [p \in Subs |-> IF p \in {o} THEN "ended" ELSE task[p]]
      \/ Alive(o) /\ (task' = [task EXCEPT ![o] = "waiting"] \/ task' = [task EXCEPT ![o] = "sending"])
  BY DEF TaskStep, Loop, Wake, TasksEnd, Waits, Take, Alive
<1>3. ASSUME NEW p \in Subs
      PROVE  /\ Alive(p)' => Alive(p)
             /\ Alive(p) /\ p \notin closed => Alive(p)'
  BY <1>2 DEF Alive, TypeOK
<1>4. ASSUME NEW i \in Ids, registered[i] # 0
      PROVE  Served(i)'
  <2>1. Served(i) /\ <<i, registered[i]>> \in Subs
    BY <1>4, LiveIs DEF RecordsInv, Live
  <2>2. Alive(<<i, registered[i]>>)'
    BY <1>1, <1>3, <2>1 DEF Served
  <2> QED
    BY <1>1, <2>1, <2>2 DEF Served
<1>5. Live' = Live
  BY <1>1 DEF Live
<1>6. ASSUME NEW p \in Subs
      PROVE  /\ Alive(p)' => p \in closed' \/ p \in Live'
             /\ p \in closed' => p[2] <= made'[p[1]]
  <2>1. Alive(p)' => Alive(p)
    BY <1>3
  <2>2. Alive(p) => p \in closed \/ p \in Live
    BY DEF RecordsInv
  <2>3. p \in closed => p[2] <= made[p[1]]
    BY DEF RecordsInv
  <2> QED
    BY <1>1, <1>5, <2>1, <2>2, <2>3
<1>7. /\ \A c \in Conns : \A i \in connSubs'[c] : i[1] = c
      /\ \A c \in gone' : connSubs'[c] = {}
  BY <1>1 DEF RecordsInv
<1>8. \A i \in Ids : registered'[i] # 0 => Served(i)'
  BY <1>1, <1>4
<1> QED
  BY <1>6, <1>7, <1>8 DEF RecordsInv

LEMMA RecordsStep ==
  ASSUME TypeOK, RecordsInv, [Next]_vars
  PROVE  RecordsInv'
<1>1. ASSUME (\E k \in Kinds : Publish(k)) \/ (\E s \in Sessions : ClearHistory(s))
             \/ (\E c \in Conns : CloseSocket(c)) \/ UNCHANGED vars
      PROVE  RecordsInv'
  <2>1. UNCHANGED <<subVars, task, closed, gone>>
    BY <1>1 DEF Publish, ClearHistory, CloseSocket, vars, objVars, connVars
  <2> QED
    BY <2>1, RecordsSame
<1>2. ASSUME NEW i \in Ids, Unsubscribe(i)
      PROVE  RecordsInv'
  <2>1. End({i}, {i}) /\ UNCHANGED <<made, connSubs, gone>>
    BY <1>2 DEF Unsubscribe, connVars
  <2>2. /\ \A j \in Ids \ {i} : registered[j] # 0 => j \in connSubs'[j[1]] /\ j[1] \notin gone'
        /\ \A c \in gone' : connSubs'[c] = {}
    BY <2>1 DEF RecordsInv, Served
  <2> QED
    BY <2>1, <2>2, EndRecords
<1>3. ASSUME NEW c \in Conns, UnsubscribeAll(c) \/ Leave(c)
      PROVE  RecordsInv'
  <2> DEFINE I == connSubs[c]
             J == {i \in Ids : i[1] = c}
  <2>1. /\ End(I, J) /\ connSubs' = [connSubs EXCEPT ![c] = {}] /\ made' = made
        /\ gone' \in {gone, gone \cup {c}}
    BY <1>3 DEF UnsubscribeAll, Leave, EndAll, connVars
  <2>2. I \subseteq J /\ \A i \in Ids : i \in J /\ registered[i] # 0 => i \in I
    BY DEF RecordsInv, Served, TypeOK
  <2>3. \A d \in Conns : connSubs'[d] \subseteq connSubs[d]
    BY <2>1 DEF TypeOK
  <2>4. ASSUME NEW i \in Ids \ I, registered[i] # 0
        PROVE  i \in connSubs'[i[1]] /\ i[1] \notin gone'
    <3>1. i \in connSubs[i[1]] /\ i[1] \notin gone /\ i[1] \in Conns
      BY <2>4, SubsIs DEF RecordsInv, Served
    <3>2. i[1] # c
      BY <2>2, <2>4
    <3> QED
      BY <2>1, <3>1, <3>2 DEF TypeOK
  <2>5. \A d \in gone' : connSubs'[d] = {}
    BY <2>1 DEF RecordsInv, TypeOK
  <2> HIDE DEF I, J
  <2> QED
    BY <2>1, <2>2, <2>3, <2>4, <2>5, EndRecords
<1>4. CASE CloseManager
  <2>1. /\ closed' = closed \cup Live
        /\ registered' = [i \in Ids |-> 0]
        /\ connSubs' = [c \in Conns |-> {}]
        /\ UNCHANGED <<made, task, gone>>
    BY <1>4 DEF CloseManager, connVars
  <2>2. ASSUME NEW o \in Live
        PROVE  o \in Subs /\ o[2] <= made[o[1]]
    <3>1. o \in Subs /\ registered[o[1]] = o[2]
      BY DEF Live
    <3>2. Served(o[1]) /\ made[o[1]] \in Nat
      BY <3>1, LiveIs DEF RecordsInv, TypeOK
    <3> QED
      BY <3>1, <3>2 DEF Served
  <2>3. \A c \in gone : c \in Conns
    BY DEF TypeOK
  <2> QED
    BY <2>1, <2>2, <2>3 DEF RecordsInv, Alive
<1> QED
  BY <1>1, <1>2, <1>3, <1>4, SubscribeRecords, TaskRecords DEF Next, EmitEvent, Disconnected
-----------------------------------------------------------------------------
(* Sequences of events against the log l of all that were published.       *)

\* The events of q are in l, of topic t, and in the order of l.
InOrder(q, t, l) ==
    \A i \in DOMAIN q :
        /\ q[i].n \in DOMAIN l /\ q[i].kind = l[q[i].n] /\ Matches(t, q[i].kind)
        /\ \A j \in DOMAIN q : i < j => q[i].n < q[j].n

\* q has every event of topic t after the m-th, and after the first that it has.
Complete(q, t, m, l) ==
    \A n \in DOMAIN l :
        Matches(t, l[n]) /\ (n > m \/ \E i \in DOMAIN q : q[i].n < n)
            => \E i \in DOMAIN q : q[i].n = n

\* The topic of everything in a session.
Whole(s) == [session |-> s, exec |-> NoExec]

\* What is in the history of a session is what was published last in it.
HistoryInv ==
    \A s \in Sessions : /\ InOrder(history[s], Whole(s), log)
                        /\ Complete(history[s], Whole(s), Len(log), log)

StreamsInv ==
    /\ \A o \in Subs : /\ InOrder(Stream(o), TopicOf(o), log)
                       /\ o[2] > made[o[1]] => got[o] = <<>>
    /\ \A o \in Live \ dropped :
         ConnOf(o) \in open => Complete(Stream(o), TopicOf(o), since[o[1]], log)

\* Event numbers are numbers, which the comparisons of InOrder rely on.
LEMMA NumbersAre ==
  ASSUME NEW q \in Seq(Event)
  PROVE  /\ DOMAIN q = 1..Len(q) /\ Len(q) \in Nat
         /\ \A i \in DOMAIN q : q[i] \in Event /\ q[i].n \in Int
<1>1. DOMAIN q = 1..Len(q) /\ Len(q) \in Nat /\ \A i \in DOMAIN q : q[i] \in Event
  OBVIOUS
<1>2. \A e \in Event : e.n \in Int
  BY BoundsAssumption DEF Event
<1> QED
  BY <1>1, <1>2

\* A part of a sequence in order is in order.
LEMMA PartInOrder ==
  ASSUME NEW l, NEW t, NEW q \in Seq(Event), InOrder(q, t, l),
         NEW a \in 1..(Len(q) + 1), NEW b \in 0..Len(q), a <= b + 1,
         NEW r, r = SubSeq(q, a, b)
  PROVE  InOrder(r, t, l)
<1>1. /\ Len(q) \in Nat /\ DOMAIN q = 1..Len(q)
      /\ DOMAIN r = 1..(b - a + 1)
      /\ \A i \in 1..(b - a + 1) : r[i] = q[a + i - 1] /\ a + i - 1 \in 1..Len(q)
  <2>1. Len(q) \in Nat /\ DOMAIN q = 1..Len(q)
    BY NumbersAre
  <2>2. r \in Seq(Event) /\ Len(r) = b - a + 1
    BY PartIs
  <2>3. \A i \in 1..(b - a + 1) : r[i] = q[a + i - 1]
    BY <2>1, <2>2, SubSeqProperties
  <2> QED
    BY <2>1, <2>2, <2>3
<1>2. ASSUME NEW i \in DOMAIN r, NEW j \in DOMAIN r, i < j
      PROVE  r[i].n < r[j].n
  <2>1. a + i - 1 < a + j - 1 /\ a + i - 1 \in DOMAIN q /\ a + j - 1 \in DOMAIN q
    BY <1>1, <1>2
  <2>2. q[a + i - 1].n < q[a + j - 1].n
    BY <2>1 DEF InOrder
  <2> QED
    BY <1>1, <2>2
<1>3. ASSUME NEW i \in DOMAIN r
      PROVE  r[i].n \in DOMAIN l /\ r[i].kind = l[r[i].n] /\ Matches(t, r[i].kind)
  BY <1>1 DEF InOrder
<1> QED
  BY <1>2, <1>3 DEF InOrder

\* The end of a sequence that is complete is complete.
LEMMA EndComplete ==
  ASSUME NEW l, NEW t, NEW m, NEW q \in Seq(Event), InOrder(q, t, l), m = Len(l), l \in Seq(Kinds),
         Complete(q, t, m, l), NEW a \in 1..(Len(q) + 1), NEW r, r = SubSeq(q, a, Len(q))
  PROVE  Complete(r, t, m, l)
<1>1. /\ Len(q) \in Nat /\ DOMAIN q = 1..Len(q)
      /\ DOMAIN r = 1..(Len(q) - a + 1)
      /\ \A i \in 1..(Len(q) - a + 1) : r[i] = q[a + i - 1] /\ a + i - 1 \in 1..Len(q)
  <2>1. Len(q) \in Nat /\ DOMAIN q = 1..Len(q)
    BY NumbersAre
  <2>2. r \in Seq(Event) /\ Len(r) = Len(q) - a + 1
    BY <2>1, PartIs
  <2>3. \A i \in 1..(Len(q) - a + 1) : r[i] = q[a + i - 1]
    BY <2>1, <2>2, SubSeqProperties
  <2> QED
    BY <2>1, <2>2, <2>3
<1>2. ASSUME NEW n \in DOMAIN l, Matches(t, l[n]), n > m \/ \E i \in DOMAIN r : r[i].n < n
      PROVE  \E i \in DOMAIN r : r[i].n = n
  <2>1. ~(n > m) /\ n \in Int
    OBVIOUS
  <2>2. PICK i \in DOMAIN r : r[i].n < n
    BY <1>2, <2>1
  <2>3. a + i - 1 \in DOMAIN q /\ q[a + i - 1].n < n
    BY <1>1, <2>2
  <2>4. PICK k \in DOMAIN q : q[k].n = n
    BY <1>2, <2>3 DEF Complete
  <2>5. ~(k <= a + i - 1)
    <3>1. CASE k < a + i - 1
      <4>1. q[k].n < q[a + i - 1].n /\ q[k].n \in Int /\ q[a + i - 1].n \in Int
        BY <2>3, <3>1, NumbersAre DEF InOrder
      <4> QED
        BY <2>1, <2>3, <2>4, <3>1, <4>1
    <3>2. CASE k = a + i - 1
      BY <2>1, <2>3, <2>4, <3>2
    <3> QED
      BY <1>1, <2>3, <3>1, <3>2
  <2>6. k - a + 1 \in DOMAIN r /\ a + (k - a + 1) - 1 = k
    BY <1>1, <2>5
  <2> QED
    BY <1>1, <2>4, <2>6
<1> QED
  BY <1>2 DEF Complete

\* A new event that is appended.
LEMMA AppendInOrder ==
  ASSUME NEW l \in Seq(Kinds), NEW k \in Kinds, NEW t, NEW q \in Seq(Event), InOrder(q, t, l),
         Matches(t, k), NEW e \in Event, e.n = Len(l) + 1, e.kind = k
  PROVE  InOrder(Append(q, e), t, Append(l, k))
<1> DEFINE r == Append(q, e)
           u == Append(l, k)
<1>1. /\ Len(q) \in Nat /\ DOMAIN q = 1..Len(q)
      /\ DOMAIN r = 1..(Len(q) + 1) /\ r[Len(q) + 1] = e
      /\ \A i \in DOMAIN q : r[i] = q[i]
  BY NumbersAre, AppendProperties
<1>2. /\ Len(l) \in Nat /\ DOMAIN l = 1..Len(l)
      /\ DOMAIN u = 1..(Len(l) + 1) /\ u[Len(l) + 1] = k
      /\ \A n \in DOMAIN l : u[n] = l[n]
  BY AppendProperties, LenProperties
<1> HIDE DEF r, u
<1>3. ASSUME NEW i \in DOMAIN r, NEW j \in DOMAIN r, i < j
      PROVE  r[i].n < r[j].n
  <2>1. i \in DOMAIN q /\ r[i] = q[i] /\ q[i].n \in 1..Len(l)
    BY <1>1, <1>2, <1>3 DEF InOrder
  <2>2. CASE j = Len(q) + 1
    BY <1>1, <1>2, <2>1, <2>2
  <2>3. CASE j \in DOMAIN q
    BY <1>1, <1>3, <2>1, <2>3 DEF InOrder
  <2> QED
    BY <1>1, <2>2, <2>3
<1>4. ASSUME NEW i \in DOMAIN r
      PROVE  r[i].n \in DOMAIN u /\ r[i].kind = u[r[i].n] /\ Matches(t, r[i].kind)
  <2>1. CASE i = Len(q) + 1
    BY <1>1, <1>2, <2>1
  <2>2. CASE i \in DOMAIN q
    <3>1. r[i] = q[i] /\ q[i].n \in DOMAIN l /\ q[i].kind = l[q[i].n] /\ Matches(t, q[i].kind)
      BY <1>1, <2>2 DEF InOrder
    <3> QED
      BY <1>2, <3>1
  <2> QED
    BY <1>1, <2>1, <2>2
<1> QED
  BY <1>3, <1>4 DEF InOrder, r, u

LEMMA AppendComplete ==
  ASSUME NEW l \in Seq(Kinds), NEW k \in Kinds, NEW t, NEW m \in Nat, NEW q \in Seq(Event),
         Complete(q, t, m, l), NEW e \in Event, e.n = Len(l) + 1, e.kind = k,
         NEW w \in Nat, w >= m
  PROVE  Complete(Append(q, e), t, w, Append(l, k))
<1> DEFINE r == Append(q, e)
           u == Append(l, k)
<1>1. /\ Len(q) \in Nat /\ DOMAIN q = 1..Len(q)
      /\ DOMAIN r = 1..(Len(q) + 1) /\ r[Len(q) + 1] = e
      /\ \A i \in DOMAIN q : r[i] = q[i]
  BY NumbersAre, AppendProperties
<1>2. /\ Len(l) \in Nat /\ DOMAIN l = 1..Len(l)
      /\ DOMAIN u = 1..(Len(l) + 1) /\ u[Len(l) + 1] = k
      /\ \A n \in DOMAIN l : u[n] = l[n]
  BY AppendProperties, LenProperties
<1> HIDE DEF r, u
<1>3. ASSUME NEW n \in DOMAIN u, Matches(t, u[n]), n > w \/ \E i \in DOMAIN r : r[i].n < n
      PROVE  \E i \in DOMAIN r : r[i].n = n
  <2>1. CASE n = Len(l) + 1
    BY <1>1, <2>1
  <2>2. CASE n \in DOMAIN l
    <3>1. n > m \/ \E i \in DOMAIN q : q[i].n < n
      <4>1. CASE n > w
        BY <1>2, <2>2, <4>1
      <4>2. ASSUME NEW i \in DOMAIN r, r[i].n < n
            PROVE  \E j \in DOMAIN q : q[j].n < n
        <5>1. i # Len(q) + 1
          BY <1>1, <1>2, <2>2, <4>2
        <5> QED
          BY <1>1, <4>2, <5>1
      <4> QED
        BY <1>3, <4>1, <4>2
    <3>2. PICK i \in DOMAIN q : q[i].n = n
      BY <1>2, <1>3, <2>2, <3>1 DEF Complete
    <3> QED
      BY <1>1, <3>2
  <2> QED
    BY <1>2, <2>1, <2>2
<1> QED
  BY <1>3 DEF Complete, r, u

\* A new event of another topic.
LEMMA OtherTopic ==
  ASSUME NEW l \in Seq(Kinds), NEW k \in Kinds, NEW t, NEW m \in Nat, NEW q \in Seq(Event)
  PROVE  /\ InOrder(q, t, l) => InOrder(q, t, Append(l, k))
         /\ \A w \in Nat : ~Matches(t, k) /\ Complete(q, t, m, l) /\ w >= m
                              => Complete(q, t, w, Append(l, k))
<1>1. /\ Len(l) \in Nat /\ DOMAIN l = 1..Len(l)
      /\ DOMAIN Append(l, k) = 1..(Len(l) + 1) /\ Append(l, k)[Len(l) + 1] = k
      /\ \A n \in DOMAIN l : Append(l, k)[n] = l[n]
  BY AppendProperties, LenProperties
<1>2. InOrder(q, t, l) => InOrder(q, t, Append(l, k))
  BY <1>1 DEF InOrder
<1>3. ASSUME ~Matches(t, k), Complete(q, t, m, l), NEW w \in Nat, w >= m
      PROVE  Complete(q, t, w, Append(l, k))
  <2>1. ASSUME NEW n \in DOMAIN Append(l, k), Matches(t, Append(l, k)[n]),
               n > w \/ \E i \in DOMAIN q : q[i].n < n
        PROVE  \E i \in DOMAIN q : q[i].n = n
    <3>1. n \in DOMAIN l /\ Matches(t, l[n])
      BY <1>1, <1>3, <2>1
    <3>2. n > m \/ \E i \in DOMAIN q : q[i].n < n
      BY <1>1, <1>3, <2>1, <3>1
    <3> QED
      BY <1>3, <3>1, <3>2 DEF Complete
  <2> QED
    BY <2>1 DEF Complete
<1> QED
  BY <1>2, <1>3

\* What Trim leaves.
LEMMA TrimStream ==
  ASSUME NEW l \in Seq(Kinds), NEW t, NEW h \in Seq(Event),
         InOrder(h, t, l), Complete(h, t, Len(l), l)
  PROVE  InOrder(Trim(h), t, l) /\ Complete(Trim(h), t, Len(l), l)
<1>1. Len(h) \in Nat /\ MaxHistory \in Nat /\ MaxHistory >= 1
  BY BoundsAssumption
<1>2. CASE Len(h) > MaxHistory
  <2>0. Len(h) - MaxHistory + 1 \in 1..(Len(h) + 1)
    BY <1>1, <1>2
  <2>1. PICK a \in 1..(Len(h) + 1) : a = Len(h) - MaxHistory + 1
    BY <2>0
  <2>2. PICK r : r = SubSeq(h, a, Len(h))
    OBVIOUS
  <2>3. InOrder(r, t, l)
    <3>1. Len(h) \in 0..Len(h) /\ a <= Len(h) + 1
      BY <1>1
    <3> QED
      BY <2>2, <3>1, PartInOrder
  <2>4. Complete(r, t, Len(l), l)
    BY <2>1, <2>2, EndComplete
  <2> QED
    BY <1>2, <2>1, <2>2, <2>3, <2>4 DEF Trim
<1>3. CASE ~(Len(h) > MaxHistory)
  BY <1>3 DEF Trim
<1> QED
  BY <1>2, <1>3

\* For the topic of a whole session.
LEMMA WholeIs ==
  ASSUME NEW t, t.exec = NoExec, NEW q, NEW m, NEW l
  PROVE  /\ InOrder(q, Whole(t.session), l) => InOrder(q, t, l)
         /\ Complete(q, Whole(t.session), m, l) => Complete(q, t, m, l)
<1>1. \A k : Matches(t, k) <=> Matches(Whole(t.session), k)
  BY DEF Matches, Whole
<1> QED
  BY <1>1 DEF InOrder, Complete

\* What was written and what is queued are one stream, which a send leaves as it is.
LEMMA StreamIs ==
  ASSUME NEW g \in Seq(Event), NEW q \in Seq(Event)
  PROVE  /\ g \o q \in Seq(Event)
         /\ g = <<>> => g \o q = q
         /\ \A e \in Event : g \o Append(q, e) = Append(g \o q, e)
         /\ q # <<>> => Append(g, Head(q)) \o Tail(q) = g \o q
<1>1. g \o q \in Seq(Event) /\ (g = <<>> => g \o q = q)
  BY ConcatProperties, ConcatEmptySeq
<1>2. ASSUME NEW e \in Event
      PROVE  g \o Append(q, e) = Append(g \o q, e)
  <2>1. <<e>> \in Seq(Event)
    OBVIOUS
  <2>2. Append(q, e) = q \o <<e>> /\ Append(g \o q, e) = (g \o q) \o <<e>>
    BY <1>1, AppendIsConcat
  <2> QED
    BY <2>1, <2>2, ConcatAssociative
<1>3. ASSUME q # <<>>
      PROVE  Append(g, Head(q)) \o Tail(q) = g \o q
  <2>1. Head(q) \in Event /\ Tail(q) \in Seq(Event) /\ <<Head(q)>> \in Seq(Event)
    BY <1>3
  <2>2. <<Head(q)>> \o Tail(q) = q
    BY <1>3
  <2>3. Append(g, Head(q)) = g \o <<Head(q)>>
    BY <2>1, AppendIsConcat
  <2> QED
    BY <2>1, <2>2, <2>3, ConcatAssociative
<1> QED
  BY <1>1, <1>2, <1>3

\* An event that is taken and not written.
LEMMA SkipInOrder ==
  ASSUME NEW g \in Seq(Event), NEW q \in Seq(Event), q # <<>>, NEW t, NEW l,
         InOrder(g \o q, t, l)
  PROVE  InOrder(g \o Tail(q), t, l)
<1>1. /\ Len(g) \in Nat /\ Len(q) \in Nat /\ Len(q) > 0
      /\ Tail(q) \in Seq(Event) /\ Len(Tail(q)) = Len(q) - 1
      /\ \A i \in 1..(Len(q) - 1) : Tail(q)[i] = q[i + 1]
  OBVIOUS
<1>2. PICK r \in Seq(Event), u \in Seq(Event) : r = g \o q /\ u = g \o Tail(q)
  BY <1>1, StreamIs
<1>3. /\ DOMAIN r = 1..(Len(g) + Len(q)) /\ DOMAIN u = 1..(Len(g) + Len(q) - 1)
      /\ \A i \in 1..(Len(g) + Len(q)) : r[i] = IF i <= Len(g) THEN g[i] ELSE q[i - Len(g)]
      /\ \A i \in 1..(Len(g) + Len(q) - 1) :
           u[i] = IF i <= Len(g) THEN g[i] ELSE Tail(q)[i - Len(g)]
  BY <1>1, <1>2, ConcatProperties
<1>4. \A i \in DOMAIN u : u[i] = IF i <= Len(g) THEN r[i] ELSE r[i + 1]
  <2> SUFFICES ASSUME NEW i \in DOMAIN u PROVE u[i] = IF i <= Len(g) THEN r[i] ELSE r[i + 1]
    OBVIOUS
  <2>1. CASE i <= Len(g)
    <3>1. i \in 1..(Len(g) + Len(q) - 1) /\ i \in 1..(Len(g) + Len(q))
      BY <1>1, <1>3
    <3> QED
      BY <1>3, <2>1, <3>1
  <2>2. CASE i > Len(g)
    <3>1. i - Len(g) \in 1..(Len(q) - 1) /\ i + 1 - Len(g) = i - Len(g) + 1
          /\ i + 1 \in 1..(Len(g) + Len(q)) /\ ~(i + 1 <= Len(g)) /\ ~(i <= Len(g))
      BY <1>1, <1>3, <2>2
    <3>2. u[i] = Tail(q)[i - Len(g)] /\ r[i + 1] = q[i + 1 - Len(g)]
      BY <1>3, <3>1
    <3> QED
      BY <1>1, <3>1, <3>2
  <2> QED
    BY <1>1, <1>3, <2>1, <2>2
<1>5. InOrder(r, t, l)
  BY <1>2
<1>6. ASSUME NEW i \in DOMAIN u
      PROVE  /\ u[i].n \in DOMAIN l /\ u[i].kind = l[u[i].n] /\ Matches(t, u[i].kind)
             /\ \A j \in DOMAIN u : i < j => u[i].n < u[j].n
  <2>1. PICK a \in DOMAIN r : u[i] = r[a] /\ a = IF i <= Len(g) THEN i ELSE i + 1
    BY <1>1, <1>3, <1>4
  <2>2. ASSUME NEW j \in DOMAIN u, i < j
        PROVE  u[i].n < u[j].n
    <3>1. PICK b \in DOMAIN r : u[j] = r[b] /\ b = IF j <= Len(g) THEN j ELSE j + 1
      BY <1>1, <1>3, <1>4
    <3>2. a < b
      BY <1>1, <1>3, <2>1, <2>2, <3>1
    <3> QED
      BY <1>5, <2>1, <3>1, <3>2 DEF InOrder
  <2> QED
    BY <1>5, <2>1, <2>2 DEF InOrder
<1> QED
  BY <1>2, <1>6 DEF InOrder

LEMMA EmptyStream ==
  ASSUME NEW t, NEW l
  PROVE  /\ InOrder(<<>>, t, l)
         /\ \A m \in Nat : l \in Seq(Kinds) /\ m >= Len(l) => Complete(<<>>, t, m, l)
<1>1. InOrder(<<>>, t, l)
  BY DEF InOrder
<1>2. ASSUME NEW m \in Nat, l \in Seq(Kinds), m >= Len(l)
      PROVE  Complete(<<>>, t, m, l)
  <2>1. DOMAIN l = 1..Len(l) /\ Len(l) \in Nat /\ DOMAIN <<>> = {}
    BY <1>2
  <2> QED
    BY <1>2, <2>1 DEF Complete
<1> QED
  BY <1>1, <1>2

-----------------------------------------------------------------------------
(* The history and the streams.                                            *)

LEMMA HistoryStep ==
  ASSUME TypeOK, HistoryInv, [Next]_vars
  PROVE  HistoryInv'
<1>1. ASSUME NEW k \in Kinds, Publish(k)
      PROVE  HistoryInv'
  <2>1. /\ log \in Seq(Kinds) /\ Len(log) \in Nat /\ Len(log) < MaxEvents /\ MaxEvents \in Nat
        /\ log' = Append(log, k) /\ Len(log') = Len(log) + 1
    BY <1>1, BoundsAssumption DEF TypeOK, Publish
  <2>2. PICK e \in Event : e.n = Len(log) + 1 /\ e.kind = k
                           /\ history' = [history EXCEPT ![k.session] = Trim(Append(@, e))]
    <3>1. [n |-> Len(log) + 1, kind |-> k] \in Event
      BY <2>1 DEF Event
    <3> QED
      BY <1>1, <3>1 DEF Publish
  <2>3. k.session \in Sessions
    BY DEF Sessions
  <2>4. ASSUME NEW s \in Sessions
        PROVE  InOrder(history'[s], Whole(s), log') /\ Complete(history'[s], Whole(s), Len(log'), log')
    <3>1. history[s] \in Seq(Event) /\ InOrder(history[s], Whole(s), log)
          /\ Complete(history[s], Whole(s), Len(log), log)
      BY DEF TypeOK, HistoryInv
    <3>2. CASE s = k.session
      <4>1. Matches(Whole(s), k)
        BY <3>2 DEF Matches, Whole
      <4>2. PICK h \in Seq(Event) : h = Append(history[s], e)
        BY <3>1, AppendIs
      <4>3. InOrder(h, Whole(s), log')
        BY <2>1, <2>2, <3>1, <4>1, <4>2, AppendInOrder
      <4>4. Complete(h, Whole(s), Len(log'), log')
        BY <2>1, <2>2, <3>1, <4>2, AppendComplete
      <4>5. history'[s] = Trim(h)
        BY <2>2, <2>3, <3>2, <4>2 DEF TypeOK
      <4>6. log' \in Seq(Kinds)
        BY <2>1, AppendIs
      <4> QED
        BY <4>3, <4>4, <4>5, <4>6, TrimStream
    <3>3. CASE s # k.session
      <4>1. ~Matches(Whole(s), k)
        BY <3>3 DEF Matches, Whole
      <4>2. history'[s] = history[s]
        BY <2>2, <3>3 DEF TypeOK
      <4> QED
        BY <2>1, <3>1, <4>1, <4>2, OtherTopic
    <3> QED
      BY <3>2, <3>3
  <2> QED
    BY <2>4 DEF HistoryInv
<1>2. ASSUME log' = log, \A s \in Sessions : history'[s] \in {history[s], <<>>}
      PROVE  HistoryInv'
  <2>1. log \in Seq(Kinds) /\ Len(log) \in Nat
    BY DEF TypeOK
  <2>2. ASSUME NEW s \in Sessions
        PROVE  InOrder(history'[s], Whole(s), log) /\ Complete(history'[s], Whole(s), Len(log), log)
    <3>1. CASE history'[s] = history[s]
      BY <3>1 DEF HistoryInv
    <3>2. CASE history'[s] = <<>>
      <4>1. PICK m \in Nat : m = Len(log)
        BY <2>1
      <4>2. m >= Len(log)
        BY <4>1
      <4>3. InOrder(<<>>, Whole(s), log) /\ Complete(<<>>, Whole(s), m, log)
        BY <2>1, <4>2, EmptyStream
      <4> QED
        BY <3>2, <4>1, <4>3
    <3> QED
      BY <1>2, <3>1, <3>2
  <2> QED
    BY <1>2, <2>2 DEF HistoryInv
<1>3. CASE (\E s \in Sessions : ClearHistory(s)) \/ CloseManager
  <2>1. log' = log /\ \A s \in Sessions : history'[s] \in {history[s], <<>>}
    BY <1>3 DEF ClearHistory, CloseManager, TypeOK
  <2> QED
    BY <1>2, <2>1
<1>4. CASE UNCHANGED <<log, history>>
  BY <1>2, <1>4
<1>5. ASSUME \/ \E i \in Ids : Unsubscribe(i)
             \/ \E c \in Conns : UnsubscribeAll(c) \/ Leave(c) \/ CloseSocket(c)
             \/ \E c \in Conns, t \in Topics, include \in BOOLEAN : Subscribe(c, t, include)
             \/ \E o \in Subs : Loop(o) \/ Wake(o)
      PROVE  HistoryInv'
  <2>1. ASSUME NEW c \in Conns, NEW t \in Topics, NEW include \in BOOLEAN,
               Subscribe(c, t, include)
        PROVE  UNCHANGED <<log, history>>
    BY <2>1 DEF Subscribe
  <2>2. ASSUME NEW c \in Conns, UnsubscribeAll(c) \/ Leave(c) \/ CloseSocket(c)
        PROVE  UNCHANGED <<log, history>>
    BY <2>2 DEF UnsubscribeAll, Leave, CloseSocket
  <2>3. ASSUME NEW o \in Subs, Loop(o) \/ Wake(o)
        PROVE  UNCHANGED <<log, history>>
    BY <2>3 DEF Loop, Wake
  <2>4. ASSUME NEW i \in Ids, Unsubscribe(i)
        PROVE  UNCHANGED <<log, history>>
    BY <2>4 DEF Unsubscribe
  <2> QED
    BY <1>4, <1>5, <2>1, <2>2, <2>3, <2>4
<1>6. CASE UNCHANGED vars
  BY <1>4, <1>6 DEF vars
<1> QED
  BY <1>1, <1>3, <1>4, <1>5, <1>6 DEF Next, EmitEvent, Disconnected, TaskStep

\* A step that publishes nothing and adds no subscription.
LEMMA StreamsKept ==
  ASSUME TypeOK, StreamsInv, UNCHANGED <<log, made>>,
         \A o \in Subs : /\ InOrder(Stream(o)', TopicOf(o), log)
                         /\ o[2] > made[o[1]] => got'[o] = <<>>,
         \A o \in Live' \ dropped' :
             /\ o \in Live /\ o \notin dropped /\ since'[o[1]] = since[o[1]]
             /\ ConnOf(o) \in open' => ConnOf(o) \in open /\ Stream(o)' = Stream(o)
  PROVE  StreamsInv'
<1>1. ASSUME NEW o \in Subs
      PROVE  InOrder(Stream(o)', TopicOf(o), log')
  OBVIOUS
<1>2. ASSUME NEW o \in Live', o \notin dropped', ConnOf(o) \in open'
      PROVE  Complete(Stream(o)', TopicOf(o), since'[o[1]], log')
  <2>1. /\ o \in Live /\ o \notin dropped /\ since'[o[1]] = since[o[1]]
        /\ ConnOf(o) \in open /\ Stream(o)' = Stream(o)
    BY <1>2
  <2>2. Complete(Stream(o), TopicOf(o), since[o[1]], log)
    BY <2>1 DEF StreamsInv
  <2> QED
    BY <2>1, <2>2
<1> QED
  BY <1>1, <1>2 DEF StreamsInv, Live, ConnOf, TopicOf, Stream

\* A stream of a live object, none of whose ids have ended, and what ends.
LEMMA LiveServed ==
  ASSUME TypeOK, RecordsInv, NEW o \in Live
  PROVE  /\ o \in Subs /\ o[1] \in Ids /\ o[2] # 0 /\ registered[o[1]] = o[2]
         /\ tasks[o[1]] = o[2] /\ o \notin closed /\ o[1] \in connSubs[ConnOf(o)]
<1>1. o \in Subs /\ registered[o[1]] = o[2]
  BY DEF Live
<1>2. o[1] \in Ids /\ o[2] # 0 /\ o = <<o[1], o[2]>>
  BY <1>1, LiveIs
<1>3. Served(o[1])
  BY <1>1, <1>2 DEF RecordsInv
<1> QED
  BY <1>1, <1>2, <1>3 DEF Served, ConnOf

LEMMA StreamOf ==
  ASSUME TypeOK, NEW o \in Subs
  PROVE  /\ got[o] \in Seq(Event) /\ queue[o] \in Seq(Event) /\ Stream(o) \in Seq(Event)
         /\ Stream(o) = got[o] \o queue[o]
BY StreamIs DEF TypeOK, Stream

LEMMA EndStreams ==
  ASSUME TypeOK, RecordsInv, StreamsInv, NEW I, NEW J, End(I, J), UNCHANGED <<log, made>>,
         \A i \in Ids : i \in J /\ registered[i] # 0 => i \in I,
         open' \subseteq open
  PROVE  StreamsInv'
<1> DEFINE O == {o \in Subs : o[1] \in J /\ tasks[o[1]] = o[2]}
<1>1. /\ registered' = [i \in Ids |-> IF i \in I THEN 0 ELSE registered[i]]
      /\ since' = [i \in Ids |-> IF i \in I THEN 0 ELSE since[i]]
      /\ queue' = [o \in Subs |-> IF o \in O THEN <<>> ELSE queue[o]]
      /\ got' = [o \in Subs |-> IF o \in O THEN <<>> ELSE got[o]]
      /\ dropped' = dropped \ O
  BY DEF End, TasksEnd
<1> HIDE DEF O
<1>2. ASSUME NEW o \in Subs
      PROVE  InOrder(Stream(o)', TopicOf(o), log) /\ (o[2] > made[o[1]] => got'[o] = <<>>)
  <2>1. Stream(o)' = got'[o] \o queue'[o] /\ Stream(o) = got[o] \o queue[o]
    BY DEF Stream
  <2>2. CASE o \in O
    <3>1. got'[o] = <<>> /\ queue'[o] = <<>> /\ <<>> \o <<>> = <<>>
      BY <1>1, <2>2
    <3> QED
      BY <2>1, <3>1, EmptyStream
  <2>3. CASE o \notin O
    <3>1. got'[o] = got[o] /\ queue'[o] = queue[o]
      BY <1>1, <2>3
    <3> QED
      BY <2>1, <3>1 DEF StreamsInv
  <2> QED
    BY <2>2, <2>3
<1>3. ASSUME NEW o \in Live' \ dropped'
      PROVE  /\ o \in Live /\ o \notin dropped /\ since'[o[1]] = since[o[1]]
             /\ ConnOf(o) \in open' => ConnOf(o) \in open /\ Stream(o)' = Stream(o)
  <2>1. o \in Subs /\ registered'[o[1]] = o[2] /\ o[1] \in Ids /\ o[2] # 0
    BY LiveIs DEF Live
  <2>2. o[1] \notin I /\ registered[o[1]] = o[2] /\ since'[o[1]] = since[o[1]]
    BY <1>1, <2>1
  <2>3. o \in Live /\ o \notin O
    BY <2>1, <2>2 DEF Live, O
  <2> QED
    BY <1>1, <2>1, <2>2, <2>3 DEF Stream
<1> QED
  BY <1>2, <1>3, StreamsKept

LEMMA TaskStreams ==
  ASSUME TypeOK, RecordsInv, StreamsInv, NEW o \in Subs, TaskStep(o)
  PROVE  StreamsInv'
<1>1. UNCHANGED <<log, made, registered, since, open>> /\ Live' = Live
  BY DEF TaskStep, Loop, Wake, subVars, connVars, Live
<1>2. /\ got[o] \in Seq(Event) /\ queue[o] \in Seq(Event) /\ Stream(o) \in Seq(Event)
      /\ Stream(o) = got[o] \o queue[o] /\ Stream(o)' = got'[o] \o queue'[o]
      /\ InOrder(Stream(o), TopicOf(o), log)
  BY StreamOf DEF Stream, StreamsInv
<1>3. ASSUME InOrder(Stream(o)', TopicOf(o), log), o[2] > made[o[1]] => got'[o] = <<>>,
             \A p \in Subs \ {o} : got'[p] = got[p] /\ queue'[p] = queue[p],
             dropped' \in {dropped, dropped \ {o}}, dropped' = dropped \/ o \notin Live,
             o \in Live /\ ConnOf(o) \in open => Stream(o)' = Stream(o)
      PROVE  StreamsInv'
  <2>1. ASSUME NEW p \in Subs
        PROVE  InOrder(Stream(p)', TopicOf(p), log) /\ (p[2] > made[p[1]] => got'[p] = <<>>)
    <3>1. CASE p = o
      BY <1>3, <3>1
    <3>2. CASE p # o
      <4>1. Stream(p)' = Stream(p)
        BY <1>3, <3>2 DEF Stream
      <4> QED
        BY <1>3, <3>2, <4>1 DEF StreamsInv
    <3> QED
      BY <3>1, <3>2
  <2>2. ASSUME NEW p \in Live' \ dropped'
        PROVE  /\ p \in Live /\ p \notin dropped /\ since'[p[1]] = since[p[1]]
               /\ ConnOf(p) \in open' => ConnOf(p) \in open /\ Stream(p)' = Stream(p)
    <3>1. p \in Live /\ p \in Subs /\ p \notin dropped
      BY <1>1, <1>3 DEF Live
    <3>2. ConnOf(p) \in open => Stream(p)' = Stream(p)
      BY <1>3, <3>1 DEF Stream
    <3> QED
      BY <1>1, <3>1, <3>2
  <2> QED
    BY <1>1, <2>1, <2>2, StreamsKept
<1>4. CASE o \in closed /\ TasksEnd({o})
  <2>1. /\ got'[o] = <<>> /\ queue'[o] = <<>> /\ dropped' = dropped \ {o}
        /\ \A p \in Subs \ {o} : got'[p] = got[p] /\ queue'[p] = queue[p]
        /\ <<>> \o <<>> = <<>>
    BY <1>4 DEF TasksEnd
  <2>2. o \notin Live
    BY <1>4, LiveServed
  <2>3. InOrder(Stream(o)', TopicOf(o), log)
    BY <1>2, <2>1, EmptyStream
  <2> QED
    BY <1>3, <2>1, <2>2, <2>3
<1>5. CASE Waits(o)
  <2>1. UNCHANGED <<got, queue, dropped>>
    BY <1>5 DEF Waits
  <2>2. Stream(o)' = Stream(o)
    BY <1>2, <2>1
  <2> QED
    BY <1>2, <1>3, <2>1, <2>2 DEF StreamsInv
<1>6. CASE queue[o] # <<>> /\ Take(o) /\ Alive(o)
  <2>1. /\ dropped' = dropped /\ queue'[o] = Tail(queue[o])
        /\ \A p \in Subs \ {o} : got'[p] = got[p] /\ queue'[p] = queue[p]
        /\ got'[o] = IF ConnOf(o) \in open THEN Append(got[o], Head(queue[o])) ELSE got[o]
    BY <1>6 DEF Take, TypeOK
  <2>2. ~(o[2] > made[o[1]])
    <3>1. o[1] \in Ids /\ o[2] \in Int /\ made[o[1]] \in Nat
      BY SubsIs DEF TypeOK
    <3>2. CASE o \in closed
      BY <3>1, <3>2 DEF RecordsInv
    <3>3. CASE o \in Live
      <4>1. Served(o[1]) /\ registered[o[1]] = o[2]
        BY <3>1, <3>3, LiveServed DEF RecordsInv
      <4> QED
        BY <3>1, <4>1 DEF Served
    <3> QED
      BY <1>6, <3>2, <3>3 DEF RecordsInv
  <2>3. CASE ConnOf(o) \in open
    <3>1. Stream(o)' = Stream(o)
      <4>1. Append(got[o], Head(queue[o])) \o Tail(queue[o]) = got[o] \o queue[o]
        BY <1>2, <1>6, StreamIs
      <4>2. got'[o] = Append(got[o], Head(queue[o])) /\ queue'[o] = Tail(queue[o])
        BY <2>1, <2>3
      <4> QED
        BY <1>2, <4>1, <4>2
    <3> QED
      BY <1>2, <1>3, <2>1, <2>2, <3>1
  <2>4. CASE ConnOf(o) \notin open
    <3>1. InOrder(Stream(o)', TopicOf(o), log)
      BY <1>2, <1>6, <2>1, <2>4, SkipInOrder
    <3> QED
      BY <1>3, <2>1, <2>2, <2>4, <3>1
  <2> QED
    BY <2>3, <2>4
<1> QED
  BY <1>4, <1>5, <1>6 DEF TaskStep, Loop, Wake, Alive

LEMMA PublishStreams ==
  ASSUME TypeOK, RecordsInv, StreamsInv, NEW k \in Kinds, Publish(k)
  PROVE  StreamsInv'
<1>1. /\ log \in Seq(Kinds) /\ Len(log) \in Nat /\ Len(log) < MaxEvents /\ MaxEvents \in Nat
      /\ log' = Append(log, k) /\ UNCHANGED <<registered, since, made, got, open>>
  BY BoundsAssumption DEF TypeOK, Publish, subVars, connVars
<1>2. PICK e \in Event : e = [n |-> Len(log) + 1, kind |-> k]
  <2>1. [n |-> Len(log) + 1, kind |-> k] \in Event
    BY <1>1 DEF Event
  <2> QED
    BY <2>1
<1>3. PICK To : /\ To = {o \in Live : Matches(TopicOf(o), k) /\ o \notin closed}
                /\ queue' = [o \in Subs |-> IF o \in To /\ Len(queue[o]) < MaxQueue
                                              THEN Append(queue[o], e) ELSE queue[o]]
                /\ dropped' = dropped \cup {o \in To : Len(queue[o]) >= MaxQueue}
  BY <1>2 DEF Publish
<1>4. ASSUME NEW o \in Subs
      PROVE  /\ InOrder(Stream(o)', TopicOf(o), log')
             /\ o \in Live \ dropped' /\ ConnOf(o) \in open
                   => Complete(Stream(o)', TopicOf(o), since[o[1]], log')
  <2>1. /\ got[o] \in Seq(Event) /\ queue[o] \in Seq(Event) /\ Stream(o) \in Seq(Event)
        /\ Stream(o) = got[o] \o queue[o] /\ Stream(o)' = got[o] \o queue'[o]
        /\ InOrder(Stream(o), TopicOf(o), log)
    BY <1>1, StreamOf DEF Stream, StreamsInv
  <2>2. o[1] \in Ids /\ since[o[1]] \in Nat
    BY SubsIs DEF TypeOK
  <2>3. o \in Live \ dropped' /\ ConnOf(o) \in open
           => Complete(Stream(o), TopicOf(o), since[o[1]], log)
    BY <1>3 DEF StreamsInv
  <2>4. CASE o \in To /\ Len(queue[o]) < MaxQueue
    <3>1. Stream(o)' = Append(Stream(o), e)
      <4>1. queue'[o] = Append(queue[o], e)
        BY <1>3, <2>4
      <4>2. got[o] \o Append(queue[o], e) = Append(got[o] \o queue[o], e)
        BY <2>1, StreamIs
      <4> QED
        BY <2>1, <4>1, <4>2
    <3>2. Matches(TopicOf(o), k)
      BY <1>3, <2>4
    <3>3. InOrder(Append(Stream(o), e), TopicOf(o), log')
      BY <1>1, <1>2, <2>1, <3>2, AppendInOrder
    <3>4. o \in Live \ dropped' /\ ConnOf(o) \in open
             => Complete(Append(Stream(o), e), TopicOf(o), since[o[1]], log')
      <4>1. PICK m \in Nat : m = since[o[1]] /\ m >= m
        BY <2>2
      <4>2. e.n = Len(log) + 1 /\ e.kind = k
        BY <1>2
      <4>3. Complete(Stream(o), TopicOf(o), m, log)
               => Complete(Append(Stream(o), e), TopicOf(o), m, Append(log, k))
        BY <1>1, <2>1, <4>1, <4>2, AppendComplete
      <4> QED
        BY <1>1, <2>3, <4>1, <4>3
    <3> QED
      BY <3>1, <3>3, <3>4
  <2>5. CASE ~(o \in To /\ Len(queue[o]) < MaxQueue)
    <3>1. Stream(o)' = Stream(o)
      BY <1>3, <2>1, <2>5
    <3>2. InOrder(Stream(o), TopicOf(o), log')
      BY <1>1, <2>1, <2>2, OtherTopic
    <3>3. ASSUME o \in Live \ dropped', ConnOf(o) \in open
          PROVE  Complete(Stream(o), TopicOf(o), since[o[1]], log')
      <4>1. ~Matches(TopicOf(o), k)
        <5>1. o \notin closed
          BY <3>3, LiveServed
        <5>2. Len(queue[o]) \in Nat /\ MaxQueue \in Nat
          BY <2>1, BoundsAssumption
        <5> QED
          BY <1>3, <2>5, <3>3, <5>1, <5>2
      <4> QED
        <5>1. PICK m \in Nat : m = since[o[1]] /\ m >= m
          BY <2>2
        <5>2. Complete(Stream(o), TopicOf(o), m, log)
                 => Complete(Stream(o), TopicOf(o), m, Append(log, k))
          BY <1>1, <2>1, <4>1, <5>1, OtherTopic
        <5> QED
          BY <1>1, <2>3, <3>3, <5>1, <5>2
    <3> QED
      BY <3>1, <3>2, <3>3
  <2> QED
    BY <2>4, <2>5
<1>5. Live' = Live
  BY <1>1 DEF Live
<1> QED
  BY <1>1, <1>4, <1>5 DEF StreamsInv, ConnOf, TopicOf, Stream, Live

LEMMA SubscribeStreams ==
  ASSUME TypeOK, RecordsInv, HistoryInv, StreamsInv,
         NEW c \in Conns, NEW t \in Topics, NEW include \in BOOLEAN, Subscribe(c, t, include)
  PROVE  StreamsInv'
<1>1. PICK i, o, h :
         /\ i \in Ids /\ i = <<c, t>> /\ o = <<i, made[i] + 1>> /\ h = Replay(t, include)
         /\ made[i] < MaxSubs[i] /\ registered[i] = 0 /\ (include => t.exec = NoExec)
         /\ registered' = [registered EXCEPT ![i] = made[i] + 1]
         /\ since' = [since EXCEPT ![i] = Len(log)]
         /\ made' = [made EXCEPT ![i] = made[i] + 1]
         /\ queue' = [queue EXCEPT ![o] =
                         SubSeq(h, 1, IF Len(h) < MaxQueue THEN Len(h) ELSE MaxQueue)]
         /\ dropped' = IF Len(h) > MaxQueue THEN dropped \cup {o} ELSE dropped
         /\ UNCHANGED <<log, got, open>>
  BY DEF Subscribe, connVars
<1>2. /\ made[i] \in Nat /\ MaxSubs[i] \in Nat /\ log \in Seq(Kinds) /\ Len(log) \in Nat
      /\ o \in Subs /\ o[1] = i /\ o[2] = made[i] + 1 /\ TopicOf(o) = t /\ ConnOf(o) = c
  <2>1. made[i] \in Nat /\ MaxSubs[i] \in Nat /\ log \in Seq(Kinds) /\ Len(log) \in Nat
    BY <1>1, SubsIs DEF TypeOK
  <2>2. made[i] + 1 \in 1..MaxSubs[i]
    BY <1>1, <2>1
  <2>3. o \in Subs
    BY <1>1, <2>2, SubsIs
  <2>4. o[1] = i /\ o[2] = made[i] + 1 /\ i[1] = c /\ i[2] = t
    BY <1>1
  <2> QED
    BY <2>1, <2>3, <2>4 DEF TopicOf, ConnOf
<1>3. h \in Seq(Event) /\ InOrder(h, t, log) /\ Complete(h, t, Len(log), log)
  <2>1. t.session \in Sessions
    BY DEF Sessions
  <2>2. CASE h = <<>>
    <3>1. PICK m \in Nat : m = Len(log)
      BY <1>2
    <3>2. m >= Len(log) /\ <<>> \in Seq(Event)
      BY <3>1
    <3> QED
      BY <1>2, <2>2, <3>1, <3>2, EmptyStream
  <2>3. CASE t.exec = NoExec /\ h = history[t.session]
    BY <2>1, <2>3, WholeIs DEF HistoryInv, TypeOK
  <2> QED
    BY <1>1, <2>2, <2>3 DEF Replay
<1>4. PICK q : q = SubSeq(h, 1, IF Len(h) < MaxQueue THEN Len(h) ELSE MaxQueue)
  OBVIOUS
<1>5. /\ q \in Seq(Event) /\ InOrder(q, t, log) /\ (~(Len(h) > MaxQueue) => q = h)
  <2>1. Len(h) \in Nat /\ MaxQueue \in Nat
    BY <1>3, BoundsAssumption
  <2>2. PICK b \in 0..Len(h) : b = IF Len(h) < MaxQueue THEN Len(h) ELSE MaxQueue
    <3>1. (IF Len(h) < MaxQueue THEN Len(h) ELSE MaxQueue) \in 0..Len(h)
      BY <2>1
    <3> QED
      BY <3>1
  <2>3. 1 \in 1..(Len(h) + 1) /\ 1 <= b + 1 /\ q = SubSeq(h, 1, b)
    BY <1>4, <2>1, <2>2
  <2>4. q \in Seq(Event) /\ InOrder(q, t, log)
    BY <1>3, <2>3, PartIs, PartInOrder
  <2>5. ASSUME ~(Len(h) > MaxQueue)
        PROVE  q = h
    <3>1. b = Len(h)
      BY <2>1, <2>2, <2>5
    <3> QED
      BY <1>3, <2>3, <3>1
  <2> QED
    BY <2>4, <2>5
<1>6. got[o] = <<>> /\ got'[o] \o q = q
  <2>1. got[o] = <<>>
    <3>1. o[2] > made[o[1]]
      BY <1>2
    <3> QED
      BY <1>2, <3>1 DEF StreamsInv
  <2>2. got'[o] \in Seq(Event) /\ got'[o] = <<>>
    BY <1>1, <2>1
  <2> QED
    BY <1>5, <2>1, <2>2, StreamIs
<1>7. queue'[o] = q /\ \A p \in Subs \ {o} : queue'[p] = queue[p]
  BY <1>1, <1>2, <1>4 DEF TypeOK
<1>8. Stream(o)' = q /\ \A p \in Subs \ {o} : Stream(p)' = Stream(p)
  BY <1>1, <1>6, <1>7 DEF Stream
<1>9. ASSUME NEW p \in Subs
      PROVE  InOrder(Stream(p)', TopicOf(p), log') /\ (p[2] > made'[p[1]] => got'[p] = <<>>)
  <2>1. p[2] > made'[p[1]] => p[2] > made[p[1]]
    <3>1. p[1] \in Ids /\ p[2] \in Int /\ made[p[1]] \in Nat
      BY SubsIs DEF TypeOK
    <3>2. made'[p[1]] = IF p[1] = i THEN made[i] + 1 ELSE made[p[1]]
      BY <1>1, <3>1 DEF TypeOK
    <3>3. made'[p[1]] \in Int /\ made'[p[1]] >= made[p[1]]
      BY <1>2, <3>1, <3>2
    <3> QED
      BY <3>1, <3>3
  <2>2. InOrder(Stream(p)', TopicOf(p), log')
    BY <1>1, <1>2, <1>5, <1>8 DEF StreamsInv
  <2> QED
    BY <1>1, <2>1, <2>2 DEF StreamsInv
<1>10. ASSUME NEW p \in Live', p \notin dropped', ConnOf(p) \in open'
       PROVE  Complete(Stream(p)', TopicOf(p), since'[p[1]], log')
  <2>1. p \in Subs /\ p[1] \in Ids /\ p[2] # 0 /\ p = <<p[1], p[2]>> /\ registered'[p[1]] = p[2]
    BY LiveIs DEF Live
  <2>2. CASE p[1] = i
    <3>1. p = o
      BY <1>1, <1>2, <2>1, <2>2 DEF TypeOK
    <3>2. since'[i] = Len(log)
      BY <1>1 DEF TypeOK
    <3> QED
      BY <1>1, <1>2, <1>3, <1>5, <1>8, <1>10, <3>1, <3>2
  <2>3. CASE p[1] # i
    <3>1. p # o /\ registered[p[1]] = p[2] /\ since'[p[1]] = since[p[1]]
      BY <1>1, <1>2, <2>1, <2>3 DEF TypeOK
    <3>2. p \in Live \ dropped /\ ConnOf(p) \in open
      BY <1>1, <1>10, <2>1, <3>1 DEF Live
    <3> QED
      BY <1>1, <1>8, <2>1, <3>1, <3>2 DEF StreamsInv
  <2> QED
    BY <2>2, <2>3
<1> QED
  BY <1>9, <1>10 DEF StreamsInv, ConnOf, TopicOf, Stream, Live

-----------------------------------------------------------------------------
(* The theorem.                                                            *)

StreamInv == TypeOK /\ RecordsInv /\ HistoryInv /\ StreamsInv

LEMMA InitInv == Init => StreamInv
<1> SUFFICES ASSUME Init PROVE StreamInv
  OBVIOUS
<1>1. TypeOK
  BY SubsIs, BoundsAssumption DEF Init, TypeOK, TaskState
<1>2. RecordsInv
  BY DEF Init, RecordsInv, Alive
<1>3. log = <<>> /\ \A s \in Sessions : history[s] = <<>>
  BY DEF Init
<1>4. \A t, m : InOrder(<<>>, t, <<>>) /\ Complete(<<>>, t, m, <<>>)
  BY EmptyStream DEF Complete
<1>5. HistoryInv
  BY <1>3, <1>4 DEF HistoryInv
<1>6. ASSUME NEW o \in Subs
      PROVE  Stream(o) = <<>> /\ got[o] = <<>>
  <2>1. got[o] = <<>> /\ queue[o] = <<>> /\ <<>> \in Seq(Event)
    BY DEF Init
  <2> QED
    BY <2>1, StreamIs DEF Stream
<1>7. StreamsInv
  BY <1>3, <1>4, <1>6 DEF StreamsInv, Live
<1> QED
  BY <1>1, <1>2, <1>5, <1>7 DEF StreamInv

LEMMA StreamsStep ==
  ASSUME TypeOK, RecordsInv, HistoryInv, StreamsInv, [Next]_vars
  PROVE  StreamsInv'
<1>1. ASSUME UNCHANGED <<log, made, registered, since, got, queue, dropped>>, open' \subseteq open
      PROVE  StreamsInv'
  BY <1>1 DEF StreamsInv, Live, Stream, ConnOf, TopicOf
<1>2. CASE UNCHANGED vars
  BY <1>1, <1>2 DEF vars, subVars, objVars, connVars
<1>3. ASSUME (\E s \in Sessions : ClearHistory(s)) \/ (\E c \in Conns : CloseSocket(c))
      PROVE  StreamsInv'
  <2>1. UNCHANGED <<log, made, registered, since, got, queue, dropped>> /\ open' \subseteq open
    BY <1>3 DEF ClearHistory, CloseSocket, subVars, objVars, connVars
  <2> QED
    BY <1>1, <2>1
<1>4. ASSUME NEW i \in Ids, Unsubscribe(i)
      PROVE  StreamsInv'
  <2>1. End({i}, {i}) /\ UNCHANGED <<log, made>> /\ open' \subseteq open
    BY <1>4 DEF Unsubscribe, connVars
  <2> QED
    BY <2>1, EndStreams
<1>5. ASSUME NEW c \in Conns, UnsubscribeAll(c) \/ Leave(c)
      PROVE  StreamsInv'
  <2>1. /\ End(connSubs[c], {i \in Ids : i[1] = c}) /\ UNCHANGED <<log, made>>
        /\ open' \subseteq open
    BY <1>5 DEF UnsubscribeAll, Leave, EndAll, connVars
  <2>2. \A i \in Ids : i \in {j \in Ids : j[1] = c} /\ registered[i] # 0 => i \in connSubs[c]
    BY DEF RecordsInv, Served
  <2> QED
    BY <2>1, <2>2, EndStreams
<1>6. CASE CloseManager
  <2>1. UNCHANGED <<log, made, got, queue, dropped>> /\ registered' = [i \in Ids |-> 0]
    BY <1>6 DEF CloseManager
  <2>2. Live' = {}
    BY <2>1, LiveIs DEF Live
  <2> QED
    BY <2>1, <2>2 DEF StreamsInv, Stream, TopicOf
<1> QED
  BY <1>2, <1>3, <1>4, <1>5, <1>6, PublishStreams, SubscribeStreams, TaskStreams
     DEF Next, EmitEvent, Disconnected

LEMMA NextInv == StreamInv /\ [Next]_vars => StreamInv'
BY TypeStep, RecordsStep, HistoryStep, StreamsStep DEF StreamInv

\* What the invariant says of streams is what InOrderNoGap asks for.
LEMMA StreamsImply == StreamInv => InOrderNoGap
<1> SUFFICES ASSUME StreamInv PROVE InOrderNoGap
  OBVIOUS
<1>1. StreamsInv
  BY DEF StreamInv
<1>2. ASSUME NEW o \in Subs, NEW i \in DOMAIN Stream(o)
      PROVE  /\ Stream(o)[i].n \in DOMAIN log
             /\ Stream(o)[i].kind = log[Stream(o)[i].n]
             /\ Matches(TopicOf(o), Stream(o)[i].kind)
             /\ \A j \in DOMAIN Stream(o) : i < j => Stream(o)[i].n < Stream(o)[j].n
  BY <1>1 DEF StreamsInv, InOrder
<1>3. ASSUME NEW o \in Live \ dropped, ConnOf(o) \in open, NEW n \in DOMAIN log,
             Matches(TopicOf(o), log[n]),
             n > since[o[1]] \/ \E i \in DOMAIN Stream(o) : Stream(o)[i].n < n
      PROVE  \E i \in DOMAIN Stream(o) : Stream(o)[i].n = n
  <2>1. Complete(Stream(o), TopicOf(o), since[o[1]], log)
    BY <1>1, <1>3 DEF StreamsInv
  <2> QED
    BY <1>3, <2>1 DEF Complete
<1> QED
  BY <1>2, <1>3 DEF InOrderNoGap

LEMMA InvImplies == StreamInv => ServedByTask /\ NoLeftovers
<1> SUFFICES ASSUME StreamInv PROVE ServedByTask /\ NoLeftovers
  OBVIOUS
<1>1. TypeOK /\ RecordsInv
  BY DEF StreamInv
<1>2. ASSUME NEW o \in Live
      PROVE  /\ o \notin closed /\ Alive(o) /\ tasks[o[1]] = o[2]
             /\ ConnOf(o) \notin gone
  <2>1. o \in Subs /\ registered[o[1]] = o[2]
    BY DEF Live
  <2>2. o[1] \in Ids /\ Served(o[1]) /\ <<o[1], registered[o[1]]>> = o
    BY <1>1, <2>1, LiveIs DEF RecordsInv
  <2> QED
    BY <2>1, <2>2 DEF Served, ConnOf
<1>3. ServedByTask
  BY <1>2 DEF ServedByTask, Alive
<1>4. NoLeftovers
  BY <1>1, <1>2 DEF NoLeftovers, RecordsInv, Alive
<1> QED
  BY <1>3, <1>4

\* For any connections, topics and limits of the history and the queues: what a delivery
\* task writes, and has yet to write, are events of its topic in the order of publication,
\* and a subscription that never met a full queue has all that were published since it was
\* made, and all since the first that was replayed to it.
THEOREM StreamsInOrder == Spec => []InOrderNoGap
BY InitInv, NextInv, StreamsImply, PTL DEF Spec

\* For any connections, topics and limits: a registered subscription always has a running
\* delivery task, the one that the handler would cancel, and nothing is left in any of the
\* three records of a connection that is gone.
THEOREM EventStreamSafe == Spec => [](TypeOK /\ ServedByTask /\ NoLeftovers)
<1>1. StreamInv => TypeOK /\ ServedByTask /\ NoLeftovers
  BY InvImplies DEF StreamInv
<1> QED
  BY InitInv, NextInv, <1>1, PTL DEF Spec
=============================================================================
