--------------------------- MODULE StreamingProofs ---------------------------
(***************************************************************************)
(* Proofs about Streaming, for any providers, requesters and sizes.  The   *)
(* inductive invariant joins TypeOK with QueuesInv, which says which of    *)
(* the queues of a connection is in use and who waits for the others, with *)
(* KeptInv, which follows a message until its handler is done with it, and *)
(* with OrderInv, which bounds the numbers in use by what was read.  In    *)
(* the end each step is one of Outbox, or none.                            *)
(***************************************************************************)
EXTENDS Streaming, SequenceTheorems, TLAPS

\* Queues are numbered from 1 and used one after the other.
Used(q) == q[2] <= created[q[1]]

\* Only the latest queue of a connection has a writer, and either the manager has it or
\* somebody stops it under the lock.  The older ones are closed.
QueuesInv ==
    /\ \A q \in Queues :
         /\ writer[q] # "none" \/ q \in closed \/ queue[q] # <<>> => Used(q)
         /\ Used(q) => q \in closed \/ (q = Current(q[1]) /\ q[1] \in managed)
         /\ Alive(q) => q = Current(q[1]) /\ (q[1] \in managed \/ q \in victim)
         /\ Alive(q) /\ q \in closed => q \in victim
    /\ \A r \in managed :
         /\ created[r] >= 1
         /\ owner # "shutdown" => Current(r) \notin closed
    /\ victim \subseteq closed /\ victim \subseteq Queues
    /\ victim # {} => owner # "nobody"
    /\ \A q \in victim :
         /\ victim = {q}
         /\ owner = "remove" => q[1] \notin managed

\* A connection that is open and had no queue closed so far.
Intact(r) == conn[r] = "open" /\ \A q \in closed : q[1] # r

\* A message counts from the moment its handler sends for the last time.
Done(p) == IF pc[p] \in {"reading", "sending"} THEN sent[p] ELSE sent[p] - 1

Kept(p) == Numbers(wire[RequesterOf[p]], p) \cup Numbers(queue[<<RequesterOf[p], 1>>], p)

KeptInv == \A p \in Providers : Intact(RequesterOf[p]) => 1..Done(p) \subseteq Kept(p)

\* No message of a stream has a number that was not read yet; the one whose handler waits
\* for the lock is nowhere.
Below(s, n, at) ==
    \A i \in DOMAIN s : s[i].kind \in Stream =>
        /\ s[i].n <= n[s[i].from]
        /\ at[s[i].from] = "locking" => s[i].n < n[s[i].from]

OrderInv ==
    /\ \A r \in Requesters : Below(wire[r], sent, pc)
    /\ \A r \in managed : Below(queue[Current(r)], sent, pc)

StreamingInv == TypeOK /\ QueuesInv /\ KeptInv /\ OrderInv /\ StreamInOrder

-----------------------------------------------------------------------------
(* Lemmas.                                                                 *)

LEMMA QueueIsPair ==
  /\ \A q \in Queues : q[1] \in Requesters /\ q[2] \in 1..MaxQueues /\ q = <<q[1], q[2]>>
  /\ \A r \in Requesters, g \in 1..MaxQueues : <<r, g>> \in Queues
  /\ MaxQueues \in Nat /\ MaxQueues >= 1
BY BoundsAssumption DEF Queues

\* The sequence s with m at its end.
LEMMA AppendIs ==
  ASSUME NEW S, NEW s \in Seq(S), NEW m \in S
  PROVE  /\ Append(s, m) \in Seq(S)
         /\ Len(Append(s, m)) = Len(s) + 1
         /\ DOMAIN s = 1..Len(s) /\ Len(s) \in Nat
         /\ DOMAIN Append(s, m) = 1..(Len(s) + 1)
         /\ \A i \in 1..Len(s) : Append(s, m)[i] = s[i]
         /\ Append(s, m)[Len(s) + 1] = m
OBVIOUS

LEMMA TailIs ==
  ASSUME NEW S, NEW s \in Seq(S), s # <<>>
  PROVE  /\ Head(s) \in S /\ Head(s) = s[1]
         /\ Tail(s) \in Seq(S) /\ Len(Tail(s)) = Len(s) - 1
         /\ DOMAIN s = 1..Len(s) /\ Len(s) \in Nat /\ Len(s) >= 1
         /\ DOMAIN Tail(s) = 1..(Len(s) - 1)
         /\ \A i \in 1..(Len(s) - 1) : Tail(s)[i] = s[i + 1]
OBVIOUS

\* A message of p appended to s adds its number.
LEMMA NumbersAppend ==
  ASSUME NEW s \in Seq(Message), NEW m \in Message, NEW p
  PROVE  /\ Numbers(s, p) \subseteq Numbers(Append(s, m), p)
         /\ m.from = p => m.n \in Numbers(Append(s, m), p)
BY AppendIs DEF Numbers

\* A number in s is that of its head, or it is in its tail.
LEMMA NumbersTail ==
  ASSUME NEW s \in Seq(Message), s # <<>>, NEW p, NEW k \in Numbers(s, p)
  PROVE  \/ Head(s).from = p /\ k = Head(s).n
         \/ k \in Numbers(Tail(s), p)
<1>1. PICK i \in DOMAIN s : s[i].from = p /\ k = s[i].n
  BY DEF Numbers
<1>2. CASE i = 1
  BY <1>1, <1>2, TailIs
<1>3. CASE i # 1
  <2>1. i - 1 \in DOMAIN Tail(s) /\ Tail(s)[i - 1] = s[i]
    BY <1>3, TailIs
  <2> QED
    BY <1>1, <2>1 DEF Numbers
<1> QED
  BY <1>2, <1>3

\* Of two messages of one stream, a comes before b.
Comes(a, b) == a.from = b.from /\ {a.kind, b.kind} \subseteq Stream => a.n < b.n

\* Ordered, without the prefixes.
LEMMA OrderedIs ==
  ASSUME NEW s \in Seq(Message)
  PROVE  Ordered(s) <=> \A i, j \in 1..Len(s) : i < j => Comes(s[i], s[j])
<1>1. DOMAIN s = 1..Len(s) /\ Len(s) \in Nat
  OBVIOUS
<1>2. ASSUME NEW j \in 1..Len(s)
      PROVE  Precedes(SubSeq(s, 1, j - 1), <<s[j]>>) <=> \A i \in 1..(j - 1) : Comes(s[i], s[j])
  <2> DEFINE h == SubSeq(s, 1, j - 1)
             l == <<s[j]>>
  <2>1. /\ DOMAIN h = 1..(j - 1) /\ \A i \in 1..(j - 1) : h[i] = s[i]
        /\ DOMAIN l = {1} /\ l[1] = s[j]
    BY <1>1
  <2> HIDE DEF h, l
  <2>2. Precedes(h, l) <=> \A i \in 1..(j - 1) : Comes(h[i], l[1])
    BY <2>1 DEF Precedes, Comes
  <2>3. Precedes(h, l) <=> \A i \in 1..(j - 1) : Comes(s[i], s[j])
    BY <2>1, <2>2
  <2> QED
    BY <2>3 DEF h, l
<1>3. Ordered(s) <=> \A j \in 1..Len(s) : \A i \in 1..(j - 1) : Comes(s[i], s[j])
  BY <1>1, <1>2 DEF Ordered
<1>4. \A i, j \in 1..Len(s) : i < j <=> i \in 1..(j - 1)
  BY <1>1
<1>5. \A j \in 1..Len(s) : 1..(j - 1) \subseteq 1..Len(s)
  BY <1>1
<1> QED
  BY <1>3, <1>4, <1>5

\* Precedes, with Comes.
LEMMA PrecedesIs ==
  ASSUME NEW s \in Seq(Message), NEW t \in Seq(Message)
  PROVE  Precedes(s, t) <=> \A i \in 1..Len(s), j \in 1..Len(t) : Comes(s[i], t[j])
BY DEF Precedes, Comes

-----------------------------------------------------------------------------
(* The invariant holds initially.                                          *)

LEMMA InitInv == Init => StreamingInv
<1> SUFFICES ASSUME Init PROVE StreamingInv
  OBVIOUS
<1>1. TypeOK
  BY SizeAssumption, BoundsAssumption DEF Init, TypeOK, Queues, Stream, HandlerState
<1>2. QueuesInv
  BY QueueIsPair DEF Init, QueuesInv, Alive, Used, Current
<1>3. KeptInv
  BY DEF Init, KeptInv, Done
<1>4. OrderInv
  BY DEF Init, OrderInv, Below
<1>5. StreamInOrder
  BY DEF Init, StreamInOrder, Ordered
<1> QED
  BY <1>1, <1>2, <1>3, <1>4, <1>5 DEF StreamingInv
-----------------------------------------------------------------------------
(* Types.                                                                  *)

LEMMA ItsIsMessage ==
  ASSUME TypeOK, NEW p \in Providers, NEW k \in Stream \cup {"direct", "refused"}
  PROVE  Its(p, k) \in Message
BY DEF TypeOK, Its, Message, Stream

LEMMA WriteType ==
  ASSUME TypeOK, NEW r \in Requesters, NEW m \in Message, Write(r, m)
  PROVE  wire' \in [Requesters -> Seq(Message)]
BY AppendIs DEF TypeOK, Write

LEMMA PutType ==
  ASSUME TypeOK, NEW p \in Providers, NEW q \in Queues, PutNowait(q, p), HasRoom(q)
  PROVE  queue' \in [Queues -> Seq(Message)] /\ \A q2 \in Queues : Len(queue'[q2]) <= MaxSize
<1>1. kind[p] \in Stream \cup {"direct", "refused"}
  BY DEF TypeOK
<1>2. Its(p, kind[p]) \in Message
  BY <1>1, ItsIsMessage
<1>3. queue[q] \in Seq(Message)
  BY DEF TypeOK
<1>4. /\ Append(queue[q], Its(p, kind[p])) \in Seq(Message)
      /\ Len(Append(queue[q], Its(p, kind[p]))) = Len(queue[q]) + 1
      /\ Len(queue[q]) \in Nat
  BY <1>2, <1>3, AppendIs
<1>5. queue' = [queue EXCEPT ![q] = Append(queue[q], Its(p, kind[p]))]
  BY DEF PutNowait
<1> QED
  BY <1>4, <1>5, SizeAssumption DEF HasRoom, TypeOK

\* The handlers.
LEMMA HandlerType ==
  ASSUME TypeOK, QueuesInv, NEW p \in Providers,
         \/ ReceiveDirect(p) \/ (\E k \in Stream : ReceiveStream(p, k)) \/ HandlerStep(p)
  PROVE  TypeOK'
<1> DEFINE r == RequesterOf[p]
<1>0. r \in Requesters
  BY RequesterOfAssumption
<1>1. CASE ReceiveDirect(p)
  <2>1. [from |-> p, n |-> sent[p] + 1, kind |-> "direct"] \in Message
    BY DEF TypeOK, Message
  <2>2. wire' \in [Requesters -> Seq(Message)]
    BY <1>0, <1>1, <2>1, WriteType DEF ReceiveDirect, TypeOK
  <2> QED
    BY <1>1, <2>2 DEF ReceiveDirect, Receive, TypeOK, objVars, lockVars, HandlerState
<1>2. CASE \E k \in Stream : ReceiveStream(p, k)
  BY <1>2 DEF ReceiveStream, Receive, TypeOK, objVars, lockVars, HandlerState
<1>3. CASE PutInNew(p)
  <2> DEFINE q == <<r, created[r] + 1>>
  <2>1. q \in Queues /\ q[1] = r /\ q[2] = created[r] + 1 /\ created[r] \in Nat
    BY <1>0, <1>3, QueueIsPair DEF PutInNew, TypeOK
  <2>2. queue[q] = <<>>
    BY <2>1 DEF QueuesInv, Used
  <2>3. HasRoom(q)
    BY <2>2, SizeAssumption DEF HasRoom
  <2>4. queue' \in [Queues -> Seq(Message)] /\ \A q2 \in Queues : Len(queue'[q2]) <= MaxSize
    BY <1>3, <2>1, <2>3, PutType DEF PutInNew
  <2>5. created' \in [Requesters -> 0..MaxQueues]
    BY <1>0, <1>3, QueueIsPair DEF PutInNew, TypeOK
  <2>6. writer' \in [Queues -> {"none", "waiting", "draining", "ended"}] /\ managed' \subseteq Requesters
    BY <1>0, <1>3 DEF PutInNew, TypeOK
  <2>7. pc' \in [Providers -> HandlerState] /\ kind' \in [Providers -> Stream \cup {"direct"}]
    BY <1>3 DEF PutInNew, Return, TypeOK, HandlerState
  <2> QED
    BY <1>3, <2>4, <2>5, <2>6, <2>7 DEF PutInNew, TypeOK, lockVars
<1>4. CASE PutInOld(p)
  <2>1. Current(r) \in Queues
    BY <1>0, <1>4, QueueIsPair DEF PutInOld, TypeOK, QueuesInv, Current
  <2>2. queue' \in [Queues -> Seq(Message)] /\ \A q2 \in Queues : Len(queue'[q2]) <= MaxSize
    BY <1>4, <2>1, PutType DEF PutInOld
  <2>3. pc' \in [Providers -> HandlerState] /\ kind' \in [Providers -> Stream \cup {"direct"}]
    BY <1>4 DEF PutInOld, Return, TypeOK, HandlerState
  <2> QED
    BY <1>4, <2>2, <2>3 DEF PutInOld, TypeOK, lockVars
<1>5. CASE PutFails(p)
  BY <1>5 DEF PutFails, AfterFailure, TypeOK, objVars, lockVars, HandlerState
<1>6. CASE TellRequester(p)
  <2>1. Its(p, "refused") \in Message
    BY ItsIsMessage
  <2>2. wire' \in [Requesters -> Seq(Message)]
    BY <1>0, <1>6, <2>1, WriteType DEF TellRequester, TypeOK
  <2> QED
    BY <1>6, <2>2 DEF TellRequester, TypeOK, objVars, lockVars, HandlerState
<1>7. CASE SendReturns(p)
  BY <1>7 DEF SendReturns, Return, TypeOK, objVars, lockVars, HandlerState
<1> QED
  BY <1>1, <1>2, <1>3, <1>4, <1>5, <1>6, <1>7 DEF HandlerStep

\* The writers, the manager and the requesters' connections.
LEMMA OtherType ==
  ASSUME TypeOK, QueuesInv,
         \/ \E q \in Queues : WriterStep(q)
         \/ \E r \in Requesters : RequesterLeaves(r) \/ Remove(r)
         \/ ShutdownBegins \/ OwnerStep \/ UNCHANGED vars
  PROVE  TypeOK'
<1>1. ASSUME NEW q \in Queues, WriterSends(q)
      PROVE  TypeOK'
  <2>1. queue[q] \in Seq(Message) /\ queue[q] # <<>> /\ q[1] \in Requesters
    BY <1>1, QueueIsPair DEF WriterSends, TypeOK
  <2>2. Head(queue[q]) \in Message /\ Tail(queue[q]) \in Seq(Message)
        /\ Len(Tail(queue[q])) = Len(queue[q]) - 1 /\ Len(queue[q]) \in Nat
    BY <2>1, TailIs
  <2>3. wire' \in [Requesters -> Seq(Message)]
    BY <1>1, <2>1, <2>2, WriteType DEF WriterSends
  <2>4. queue' \in [Queues -> Seq(Message)] /\ \A q2 \in Queues : Len(queue'[q2]) <= MaxSize
    BY <1>1, <2>2, SizeAssumption DEF WriterSends, TypeOK
  <2> QED
    BY <1>1, <2>3, <2>4 DEF WriterSends, TypeOK, lockVars, handlerVars
<1>2. ASSUME NEW q \in Queues, WriterBreaks(q)
      PROVE  TypeOK'
  <2>1. queue' \in [Queues -> Seq(Message)] /\ \A q2 \in Queues : Len(queue'[q2]) <= MaxSize
    <3>1. CASE queue' = queue
      BY <3>1 DEF TypeOK
    <3>2. CASE queue[q] # <<>> /\ queue' = [queue EXCEPT ![q] = Tail(@)]
      <4>1. queue[q] \in Seq(Message)
        BY DEF TypeOK
      <4>2. Tail(queue[q]) \in Seq(Message)
            /\ Len(Tail(queue[q])) = Len(queue[q]) - 1 /\ Len(queue[q]) \in Nat
        BY <3>2, <4>1, TailIs
      <4> QED
        BY <3>2, <4>2, SizeAssumption DEF TypeOK
    <3> QED
      BY <1>2, <3>1, <3>2 DEF WriterBreaks
  <2> QED
    BY <1>2, <2>1 DEF WriterBreaks, TypeOK, lockVars, handlerVars
<1>3. ASSUME NEW q \in Queues, WriterDrained(q) \/ WriterCancelled(q)
      PROVE  TypeOK'
  BY <1>3 DEF WriterDrained, WriterCancelled, TypeOK, lockVars, handlerVars
<1>4. ASSUME NEW r \in Requesters, RequesterLeaves(r)
      PROVE  TypeOK'
  BY <1>4 DEF RequesterLeaves, TypeOK, objVars, lockVars, handlerVars
<1>5. \A r \in managed : Current(r) \in Queues
  BY QueueIsPair DEF TypeOK, QueuesInv, Current
<1>6. ASSUME NEW r \in Requesters, Remove(r) \/ ShutdownStops(r)
      PROVE  TypeOK'
  BY <1>5, <1>6 DEF Remove, ShutdownStops, StopQueue, TypeOK, objVars, lockVars, handlerVars
<1>7. CASE ShutdownBegins \/ ShutdownEnds \/ UNCHANGED vars
  BY <1>7 DEF ShutdownBegins, ShutdownEnds, TypeOK, vars, objVars, lockVars, handlerVars
<1>8. ASSUME NEW q \in Queues, StopReturns(q)
      PROVE  TypeOK'
  BY <1>8 DEF StopReturns, TypeOK, objVars, handlerVars
<1> QED
  BY <1>1, <1>2, <1>3, <1>4, <1>6, <1>7, <1>8 DEF WriterStep, OwnerStep

LEMMA TypeStep == TypeOK /\ QueuesInv /\ [Next]_vars => TypeOK'
BY HandlerType, OtherType DEF Next
-----------------------------------------------------------------------------
(* The queues of a connection.                                             *)

LEMMA QueuesSame ==
  ASSUME QueuesInv, UNCHANGED <<created, managed, objVars, lockVars>>
  PROVE  QueuesInv'
BY DEF QueuesInv, objVars, lockVars, Used, Current, Alive

\* get_or_create and put_nowait: when a queue is created, nobody stops an older one.
LEMMA PutQueues ==
  ASSUME TypeOK, QueuesInv, NEW p \in Providers, PutInNew(p) \/ PutInOld(p)
  PROVE  QueuesInv'
<1> DEFINE r == RequesterOf[p]
<1>1. r \in Requesters /\ victim = {} /\ owner = "nobody" /\ created \in [Requesters -> Nat]
  BY RequesterOfAssumption, QueueIsPair DEF TypeOK, QueuesInv, PutInNew, PutInOld, LockFree
<1>2. CASE PutInNew(p)
  <2> DEFINE new == <<r, created[r] + 1>>
  <2>0. /\ new \in Queues /\ new[1] = r /\ new[2] = created[r] + 1
        /\ created[r] \in Nat /\ created[r] < MaxQueues
    <3>1. created[r] \in Nat /\ created[r] < MaxQueues
      BY <1>1, <1>2 DEF PutInNew
    <3> QED
      BY <1>1, <3>1, QueueIsPair
  <2>1. /\ new \in Queues /\ new[1] = r /\ new[2] = created[r] + 1
        /\ created' = [created EXCEPT ![r] = created[r] + 1]
        /\ managed' = managed \cup {r} /\ r \notin managed
        /\ writer' = [writer EXCEPT ![new] = "waiting"]
        /\ queue' = [queue EXCEPT ![new] = Append(@, Its(p, kind[p]))]
        /\ UNCHANGED <<closed, owner, victim>>
    BY <1>2, <2>0 DEF PutInNew, PutNowait, lockVars
  <2> HIDE DEF new
  <2>2. new \notin closed /\ ~Used(new)
    BY <1>1, <2>1 DEF QueuesInv, Used
  <2>3. \A q \in Queues : q[1] = r => ~Alive(q)
    BY <1>1, <2>1 DEF QueuesInv
  <2>4. \A q \in Queues \ {new} : writer'[q] = writer[q] /\ queue'[q] = queue[q]
    BY <2>1 DEF TypeOK
  <2>5. /\ writer'[new] = "waiting"
        /\ created'[r] = created[r] + 1
        /\ \A s \in Requesters \ {r} : created'[s] = created[s]
    BY <1>1, <2>1 DEF TypeOK
  <2>6. \A q \in Queues : q[1] \in Requesters /\ q[2] \in Nat /\ q = <<q[1], q[2]>>
    BY QueueIsPair
  <2>7. new = <<r, created'[r]>> /\ new[2] = created'[r]
    BY <2>1, <2>5, <2>6
  <2>8. ASSUME NEW q \in Queues
        PROVE  /\ writer'[q] # "none" \/ q \in closed' \/ queue'[q] # <<>> => Used(q)'
               /\ Used(q)' => q \in closed' \/ (q = Current(q[1])' /\ q[1] \in managed')
               /\ Alive(q)' => q = Current(q[1])' /\ (q[1] \in managed' \/ q \in victim')
               /\ Alive(q)' /\ q \in closed' => q \in victim'
    <3>1. CASE q = new
      BY <1>1, <2>1, <2>2, <2>5, <2>7, <3>1 DEF Used, Current, Alive
    <3>2. CASE q # new /\ q[1] = r
      <4>1. q[2] # created'[r]
        BY <2>6, <2>7, <3>2
      <4>2. Used(q)' <=> Used(q)
        BY <1>1, <2>5, <2>6, <3>2, <4>1 DEF Used
      <4>3. Used(q) => q \in closed
        BY <2>1, <3>2 DEF QueuesInv
      <4>4. ~Alive(q)'
        BY <2>3, <2>4, <3>2 DEF Alive
      <4> QED
        BY <2>1, <2>4, <3>2, <4>2, <4>3, <4>4 DEF QueuesInv
    <3>3. CASE q[1] # r
      <4>1. q # new /\ created'[q[1]] = created[q[1]]
        BY <2>1, <2>5, <2>6, <3>3
      <4>2. /\ Used(q)' <=> Used(q)
            /\ Current(q[1])' = Current(q[1])
            /\ Alive(q)' <=> Alive(q)
        BY <2>4, <4>1 DEF Used, Current, Alive
      <4> QED
        BY <2>1, <2>4, <4>1, <4>2 DEF QueuesInv
    <3> QED
      BY <3>1, <3>2, <3>3
  <2>9. ASSUME NEW s \in managed'
        PROVE  created'[s] >= 1 /\ (owner' # "shutdown" => Current(s)' \notin closed')
    <3>1. CASE s = r
      <4>1. Current(s)' = new /\ created'[s] >= 1
        BY <2>0, <2>5, <2>7, <3>1 DEF Current
      <4> QED
        BY <2>1, <2>2, <4>1
    <3>2. CASE s # r
      BY <2>1, <2>5, <3>2 DEF QueuesInv, Current, TypeOK
    <3> QED
      BY <3>1, <3>2
  <2> QED
    BY <1>1, <2>1, <2>8, <2>9 DEF QueuesInv
<1>3. CASE PutInOld(p)
  <2>1. Current(r) \in Queues /\ Used(Current(r))
    BY <1>1, <1>3, QueueIsPair DEF PutInOld, QueuesInv, Current, Used, TypeOK
  <2>2. \A q \in Queues : queue'[q] # <<>> => queue[q] # <<>> \/ q = Current(r)
    BY <1>3, <2>1 DEF PutInOld, PutNowait, TypeOK
  <2> QED
    BY <1>3, <2>1, <2>2 DEF PutInOld, QueuesInv, lockVars, Used, Current, Alive
<1> QED
  BY <1>2, <1>3

\* A writer goes on, or ends.
LEMMA WriterQueues ==
  ASSUME TypeOK, QueuesInv, NEW q \in Queues, WriterStep(q)
  PROVE  QueuesInv'
<1>1. /\ \A q2 \in Queues : (Alive(q2)' => Alive(q2)) /\ (writer'[q2] # "none" => writer[q2] # "none")
      /\ \A q2 \in Queues : queue'[q2] # <<>> => queue[q2] # <<>>
      /\ UNCHANGED <<created, managed, closed, owner, victim>>
  BY DEF WriterStep, WriterSends, WriterDrained, WriterBreaks, WriterCancelled, Alive, TypeOK, lockVars
<1> QED
  BY <1>1 DEF QueuesInv, Used, Current

\* remove and shutdown: what is stopped is the queue in use, and it is waited for.
LEMMA OwnerQueues ==
  ASSUME TypeOK, QueuesInv,
         ShutdownBegins \/ OwnerStep \/ \E r \in Requesters : Remove(r)
  PROVE  QueuesInv'
<1>1. \A r \in managed : r \in Requesters /\ Current(r) \in Queues /\ Current(r)[1] = r
                        /\ Used(Current(r))
  BY QueueIsPair DEF TypeOK, QueuesInv, Current, Used
<1>2. ASSUME NEW r \in Requesters, Remove(r)
      PROVE  QueuesInv'
  <2>1. /\ managed' = managed \ {r} /\ r \in managed /\ closed' = closed \cup {Current(r)}
        /\ victim' = {Current(r)} /\ owner' = "remove" /\ owner = "nobody" /\ victim = {}
        /\ UNCHANGED <<created, queue, writer>>
    BY <1>2 DEF Remove, StopQueue, LockFree, QueuesInv
  <2> QED
    BY <1>1, <2>1 DEF QueuesInv, Used, Current, Alive
<1>3. ASSUME NEW r \in Requesters, ShutdownStops(r)
      PROVE  QueuesInv'
  <2>1. /\ r \in managed /\ closed' = closed \cup {Current(r)}
        /\ victim' = {Current(r)} /\ owner = "shutdown" /\ victim = {}
        /\ UNCHANGED <<created, managed, queue, writer, owner>>
    BY <1>3 DEF ShutdownStops, StopQueue
  <2> QED
    BY <1>1, <2>1 DEF QueuesInv, Used, Current, Alive
<1>4. ASSUME NEW q \in Queues, StopReturns(q)
      PROVE  QueuesInv'
  <2>1. /\ q \in victim /\ ~Alive(q) /\ victim' = {} /\ victim = {q}
        /\ owner' = IF owner = "remove" THEN "nobody" ELSE owner
        /\ owner # "nobody"
        /\ UNCHANGED <<created, managed, queue, closed, writer>>
    BY <1>4 DEF StopReturns, QueuesInv, objVars
  <2>2. owner \in {"remove", "shutdown"}
    BY <2>1 DEF TypeOK
  <2>3. \A q2 \in Queues : (Used(q2)' <=> Used(q2)) /\ (Alive(q2)' <=> Alive(q2))
                          /\ Current(q2[1])' = Current(q2[1])
    BY <2>1 DEF Used, Alive, Current
  <2>4. \A r \in managed : Current(r)' = Current(r)
    BY <2>1 DEF Current
  <2> QED
    BY <2>1, <2>2, <2>3, <2>4 DEF QueuesInv
<1>5. CASE ShutdownBegins
  BY <1>5 DEF ShutdownBegins, LockFree, QueuesInv, objVars, Used, Current, Alive
<1>6. CASE ShutdownEnds
  BY <1>6 DEF ShutdownEnds, QueuesInv, objVars, Used, Current, Alive
<1> QED
  BY <1>2, <1>3, <1>4, <1>5, <1>6 DEF OwnerStep

LEMMA QueuesStep == TypeOK /\ QueuesInv /\ [Next]_vars => QueuesInv'
<1> SUFFICES ASSUME TypeOK, QueuesInv, [Next]_vars PROVE QueuesInv'
  OBVIOUS
<1>1. ASSUME NEW p \in Providers,
             \/ ReceiveDirect(p) \/ (\E k \in Stream : ReceiveStream(p, k))
             \/ PutFails(p) \/ TellRequester(p) \/ SendReturns(p)
      PROVE  QueuesInv'
  BY <1>1, QueuesSame DEF ReceiveDirect, ReceiveStream, Receive, PutFails, TellRequester, SendReturns
<1>2. ASSUME NEW r \in Requesters, RequesterLeaves(r)
      PROVE  QueuesInv'
  BY <1>2, QueuesSame DEF RequesterLeaves
<1>3. CASE UNCHANGED vars
  BY <1>3, QueuesSame DEF vars
<1> QED
  BY <1>1, <1>2, <1>3, PutQueues, WriterQueues, OwnerQueues DEF Next, HandlerStep
-----------------------------------------------------------------------------
(* No message is lost.                                                     *)

\* What is intact after a step was intact before.
LEMMA IntactBefore ==
  ASSUME TypeOK, [Next]_vars, NEW r \in Requesters, Intact(r)'
  PROVE  Intact(r)
<1>1. closed \subseteq closed' /\ (conn'[r] = "open" => conn[r] = "open")
  <2>1. ASSUME NEW p \in Providers, NEW k \in Stream,
               ReceiveDirect(p) \/ ReceiveStream(p, k) \/ HandlerStep(p)
        PROVE  UNCHANGED <<closed, conn>>
    BY <2>1 DEF ReceiveDirect, ReceiveStream, Receive, HandlerStep, PutInNew, PutInOld, PutFails,
                TellRequester, SendReturns, objVars
  <2>2. "mark" \in Stream
    BY DEF Stream
  <2>3. ASSUME NEW q \in Queues, WriterStep(q)
        PROVE  UNCHANGED <<closed, conn>>
    BY <2>3 DEF WriterStep, WriterSends, WriterDrained, WriterBreaks, WriterCancelled
  <2>4. ASSUME NEW s \in Requesters, RequesterLeaves(s) \/ Remove(s)
        PROVE  closed \subseteq closed' /\ (conn'[r] = "open" => conn[r] = "open")
    BY <2>4 DEF RequesterLeaves, Remove, StopQueue, objVars, TypeOK
  <2>5. CASE ShutdownBegins \/ OwnerStep
    BY <2>5 DEF ShutdownBegins, OwnerStep, ShutdownStops, StopReturns, ShutdownEnds, StopQueue, objVars
  <2>6. CASE UNCHANGED vars
    BY <2>6 DEF vars, objVars
  <2> QED
    BY <2>1, <2>2, <2>3, <2>4, <2>5, <2>6 DEF Next
<1> QED
  BY <1>1 DEF Intact

\* The only queue an intact connection can have is its first.
LEMMA IntactQueue ==
  ASSUME TypeOK, QueuesInv, NEW r \in Requesters, Intact(r)
  PROVE  /\ created[r] \in Nat /\ created[r] <= 1
         /\ r \in managed => Current(r) = <<r, 1>>
         /\ r \notin managed => created[r] = 0
<1>1. <<r, 1>> \in Queues /\ created[r] \in Nat /\ created[r] <= MaxQueues
  <2>1. <<r, 1>> \in Queues /\ MaxQueues \in Nat
    BY QueueIsPair
  <2>2. created[r] \in 0..MaxQueues
    BY DEF TypeOK
  <2> QED
    BY <2>1, <2>2
<1>2. r \in managed => created[r] >= 1
  BY DEF QueuesInv
<1>3. CASE created[r] >= 1
  <2> DEFINE q == <<r, 1>>
  <2>1. q \in Queues /\ q[1] = r /\ q[2] = 1
    BY <1>1
  <2> HIDE DEF q
  <2>2. q = Current(r) /\ r \in managed
    BY <1>3, <2>1 DEF QueuesInv, Used, Intact
  <2>3. created[r] = 1
    BY <2>1, <2>2 DEF Current
  <2> QED
    BY <2>2, <2>3 DEF q
<1>4. CASE created[r] = 0
  BY <1>1, <1>2, <1>4
<1> QED
  BY <1>1, <1>3, <1>4

\* Nothing that is kept for an intact connection disappears.
LEMMA KeptGrows ==
  ASSUME TypeOK, QueuesInv, [Next]_vars, NEW p \in Providers, Intact(RequesterOf[p])
  PROVE  Kept(p) \subseteq Kept(p)'
<1> DEFINE r == RequesterOf[p]
<1>1. r \in Requesters /\ <<r, 1>> \in Queues /\ conn[r] = "open"
  BY RequesterOfAssumption, QueueIsPair DEF Intact
<1>2. wire[r] \in Seq(Message) /\ queue[<<r, 1>>] \in Seq(Message)
  BY <1>1 DEF TypeOK
<1>3. ASSUME NEW s \in Requesters, NEW m \in Message, Write(s, m)
      PROVE  Numbers(wire[r], p) \subseteq Numbers(wire'[r], p)
  <2>1. CASE s = r
    <3>1. wire'[r] = Append(wire[r], m)
      BY <1>1, <1>3, <2>1 DEF Write, TypeOK
    <3> QED
      BY <1>2, <3>1, NumbersAppend
  <2>2. CASE s # r
    BY <1>1, <1>3, <2>2 DEF Write, TypeOK
  <2> QED
    BY <2>1, <2>2
<1>4. ASSUME NEW p2 \in Providers, ReceiveDirect(p2)
      PROVE  Kept(p) \subseteq Kept(p)'
  <2>1. [from |-> p2, n |-> sent[p2] + 1, kind |-> "direct"] \in Message /\ RequesterOf[p2] \in Requesters
    BY RequesterOfAssumption DEF TypeOK, Message
  <2>2. Numbers(wire[r], p) \subseteq Numbers(wire'[r], p) /\ queue' = queue
    BY <1>3, <1>4, <2>1 DEF ReceiveDirect, Receive, objVars
  <2> QED
    BY <2>2 DEF Kept
<1>5. ASSUME NEW p2 \in Providers, TellRequester(p2)
      PROVE  Kept(p) \subseteq Kept(p)'
  <2>1. Its(p2, "refused") \in Message /\ RequesterOf[p2] \in Requesters
    BY RequesterOfAssumption, ItsIsMessage
  <2>2. Numbers(wire[r], p) \subseteq Numbers(wire'[r], p) /\ queue' = queue
    BY <1>3, <1>5, <2>1 DEF TellRequester, objVars
  <2> QED
    BY <2>2 DEF Kept
<1>6. ASSUME NEW p2 \in Providers, PutInNew(p2) \/ PutInOld(p2)
      PROVE  Kept(p) \subseteq Kept(p)'
  <2>1. PICK q : PutNowait(q, p2) /\ wire' = wire
    BY <1>6 DEF PutInNew, PutInOld
  <2>2. kind[p2] \in Stream \cup {"direct", "refused"}
    BY DEF TypeOK
  <2>3. Its(p2, kind[p2]) \in Message
    BY <2>2, ItsIsMessage
  <2>4. queue'[<<r, 1>>] = queue[<<r, 1>>] \/ queue'[<<r, 1>>] = Append(queue[<<r, 1>>], Its(p2, kind[p2]))
    BY <1>1, <2>1 DEF PutNowait, TypeOK
  <2>5. Numbers(queue[<<r, 1>>], p) \subseteq Numbers(queue'[<<r, 1>>], p)
    BY <1>2, <2>3, <2>4, NumbersAppend
  <2> QED
    BY <2>1, <2>5 DEF Kept
<1>7. ASSUME NEW q \in Queues, WriterSends(q)
      PROVE  Kept(p) \subseteq Kept(p)'
  <2>1. queue[q] \in Seq(Message) /\ queue[q] # <<>> /\ q[1] \in Requesters
    BY <1>7, QueueIsPair DEF WriterSends, TypeOK
  <2>2. Head(queue[q]) \in Message
    BY <2>1, TailIs
  <2>3. Numbers(wire[r], p) \subseteq Numbers(wire'[r], p)
    BY <1>3, <1>7, <2>1, <2>2 DEF WriterSends
  <2>4. CASE q = <<r, 1>>
    <3>1. wire'[r] = Append(wire[r], Head(queue[q])) /\ queue'[q] = Tail(queue[q])
      BY <1>1, <1>7, <2>4 DEF WriterSends, Write, TypeOK
    <3>2. Head(queue[q]).from = p => Head(queue[q]).n \in Numbers(wire'[r], p)
      BY <1>2, <2>2, <3>1, NumbersAppend
    <3>3. Numbers(queue[q], p) \subseteq Numbers(wire'[r], p) \cup Numbers(queue'[q], p)
      BY <2>1, <3>1, <3>2, NumbersTail
    <3> QED
      BY <2>3, <2>4, <3>3 DEF Kept
  <2>5. CASE q # <<r, 1>>
    <3>1. queue'[<<r, 1>>] = queue[<<r, 1>>]
      BY <1>1, <1>7, <2>5 DEF WriterSends, TypeOK
    <3> QED
      BY <2>3, <3>1 DEF Kept
  <2> QED
    BY <2>4, <2>5
<1>8. ASSUME NEW q \in Queues, WriterBreaks(q)
      PROVE  Kept(p) \subseteq Kept(p)'
  <2>1. q # <<r, 1>>
    BY <1>1, <1>8, QueueIsPair DEF WriterBreaks
  <2>2. queue'[<<r, 1>>] = queue[<<r, 1>>] /\ wire' = wire
    BY <1>1, <1>8, <2>1 DEF WriterBreaks, TypeOK
  <2> QED
    BY <2>2 DEF Kept
<1>9. CASE queue' = queue /\ wire' = wire
  BY <1>9 DEF Kept
<1>10. ASSUME NEW p2 \in Providers, NEW k \in Stream,
              ReceiveStream(p2, k) \/ PutFails(p2) \/ SendReturns(p2)
       PROVE  queue' = queue /\ wire' = wire
  BY <1>10 DEF ReceiveStream, Receive, PutFails, SendReturns, objVars
<1>11. ASSUME NEW q \in Queues, WriterDrained(q) \/ WriterCancelled(q)
       PROVE  queue' = queue /\ wire' = wire
  BY <1>11 DEF WriterDrained, WriterCancelled
<1>12. ASSUME NEW s \in Requesters, RequesterLeaves(s) \/ Remove(s)
       PROVE  queue' = queue /\ wire' = wire
  BY <1>12 DEF RequesterLeaves, Remove, objVars
<1>13. CASE ShutdownBegins \/ OwnerStep \/ UNCHANGED vars
  BY <1>9, <1>13 DEF ShutdownBegins, OwnerStep, ShutdownStops, StopReturns, ShutdownEnds, vars, objVars
<1>14. "mark" \in Stream
  BY DEF Stream
<1> QED
  BY <1>4, <1>5, <1>6, <1>7, <1>8, <1>9, <1>10, <1>11, <1>12, <1>13, <1>14
     DEF Next, HandlerStep, WriterStep

LEMMA KeptStep ==
  ASSUME TypeOK, QueuesInv, KeptInv, [Next]_vars
  PROVE  KeptInv'
<1> SUFFICES ASSUME NEW p \in Providers, Intact(RequesterOf[p])'
             PROVE  1..Done(p)' \subseteq Kept(p)'
  BY DEF KeptInv
<1> DEFINE r == RequesterOf[p]
<1>1. r \in Requesters /\ Intact(r)
  BY RequesterOfAssumption, IntactBefore
<1>2. 1..Done(p) \subseteq Kept(p)'
  BY <1>1, KeptGrows DEF KeptInv
<1>3. /\ sent[p] \in Nat /\ wire[r] \in Seq(Message) /\ <<r, 1>> \in Queues
      /\ queue[<<r, 1>>] \in Seq(Message) /\ conn[r] = "open"
  BY <1>1, QueueIsPair DEF TypeOK, Intact
<1>4. CASE Done(p)' = Done(p)
  BY <1>2, <1>4
<1>5. CASE ReceiveDirect(p)
  <2>1. Done(p) = sent[p] /\ Done(p)' = sent[p] + 1
    BY <1>5 DEF ReceiveDirect, Receive, Done, TypeOK
  <2> DEFINE m == [from |-> p, n |-> sent[p] + 1, kind |-> "direct"]
  <2>2. wire'[r] = Append(wire[r], m)
    BY <1>1, <1>3, <1>5 DEF ReceiveDirect, Write, TypeOK
  <2>3. m \in Message /\ m.from = p /\ m.n = sent[p] + 1
    BY <1>3 DEF Message
  <2> HIDE DEF m
  <2>4. sent[p] + 1 \in Kept(p)'
    BY <1>3, <2>2, <2>3, NumbersAppend DEF Kept
  <2> QED
    BY <1>2, <1>3, <2>1, <2>4
<1>6. CASE TellRequester(p)
  <2>1. Done(p) = sent[p] - 1 /\ Done(p)' = sent[p]
    BY <1>6 DEF TellRequester, Done, TypeOK
  <2>2. wire'[r] = Append(wire[r], Its(p, "refused"))
    BY <1>1, <1>3, <1>6 DEF TellRequester, Write, TypeOK
  <2>3. Its(p, "refused") \in Message /\ Its(p, "refused").from = p /\ Its(p, "refused").n = sent[p]
    BY ItsIsMessage DEF Its
  <2>4. sent[p] \in Kept(p)'
    BY <1>3, <2>2, <2>3, NumbersAppend DEF Kept
  <2> QED
    BY <1>2, <1>3, <2>1, <2>4
<1>7. CASE PutInNew(p) \/ PutInOld(p)
  <2>1. Done(p) = sent[p] - 1 /\ Done(p)' = sent[p]
    BY <1>7 DEF PutInNew, PutInOld, Return, Done, TypeOK
  <2>2. PutNowait(<<r, 1>>, p)
    BY <1>1, <1>7, IntactQueue DEF PutInNew, PutInOld
  <2> DEFINE m == Its(p, kind[p])
  <2>3. kind[p] \in Stream \cup {"direct", "refused"}
    BY DEF TypeOK
  <2>4. m \in Message /\ m.from = p /\ m.n = sent[p]
    BY <2>3, ItsIsMessage DEF Its
  <2>5. queue'[<<r, 1>>] = Append(queue[<<r, 1>>], m)
    BY <1>3, <2>2 DEF PutNowait, TypeOK
  <2> HIDE DEF m
  <2>6. sent[p] \in Kept(p)'
    BY <1>3, <2>4, <2>5, NumbersAppend DEF Kept
  <2> QED
    BY <1>2, <1>3, <2>1, <2>6
<1>8. CASE PutFails(p) \/ SendReturns(p) \/ (\E k \in Stream : ReceiveStream(p, k))
  <2>1. Done(p)' = Done(p)
    BY <1>3, <1>8 DEF PutFails, AfterFailure, SendReturns, Return, ReceiveStream, Receive, Done, TypeOK
  <2> QED
    BY <1>4, <2>1
<1>9. ASSUME NEW p2 \in Providers \ {p}, NEW k \in Stream,
             ReceiveDirect(p2) \/ ReceiveStream(p2, k) \/ HandlerStep(p2)
      PROVE  Done(p)' = Done(p)
  BY <1>9 DEF ReceiveDirect, ReceiveStream, Receive, HandlerStep, PutInNew, PutInOld, PutFails,
              TellRequester, SendReturns, Return, Done, TypeOK
<1>10. ASSUME \/ \E q \in Queues : WriterStep(q)
              \/ \E s \in Requesters : RequesterLeaves(s) \/ Remove(s)
              \/ ShutdownBegins \/ OwnerStep \/ UNCHANGED vars
       PROVE  Done(p)' = Done(p)
  BY <1>10 DEF WriterStep, WriterSends, WriterDrained, WriterBreaks, WriterCancelled, RequesterLeaves,
               Remove, ShutdownBegins, OwnerStep, ShutdownStops, StopReturns, ShutdownEnds,
               handlerVars, vars, Done
<1>11. "mark" \in Stream
  BY DEF Stream
<1> QED
  BY <1>4, <1>5, <1>6, <1>7, <1>8, <1>9, <1>10, <1>11 DEF Next, HandlerStep
-----------------------------------------------------------------------------
(* A stream is in order.                                                   *)

\* What was read grows, and a handler comes to the lock with a new message.
Reads(n, at, n2, at2) ==
    \A p \in Providers :
        \/ n2[p] = n[p] /\ (at2[p] = "locking" => at[p] = "locking")
        \/ n2[p] = n[p] + 1

LEMMA ReadsStep ==
  ASSUME TypeOK, [Next]_vars
  PROVE  Reads(sent, pc, sent', pc')
<1>1. ASSUME NEW p \in Providers, NEW k \in Stream,
             ReceiveDirect(p) \/ ReceiveStream(p, k) \/ HandlerStep(p)
      PROVE  Reads(sent, pc, sent', pc')
  BY <1>1 DEF ReceiveDirect, ReceiveStream, Receive, HandlerStep, PutInNew, PutInOld, PutFails,
              AfterFailure, TellRequester, SendReturns, Return, Reads, TypeOK
<1>2. "mark" \in Stream
  BY DEF Stream
<1>3. ASSUME \/ \E q \in Queues : WriterStep(q)
             \/ \E s \in Requesters : RequesterLeaves(s) \/ Remove(s)
             \/ ShutdownBegins \/ OwnerStep \/ UNCHANGED vars
      PROVE  UNCHANGED <<sent, pc>>
  BY <1>3 DEF WriterStep, WriterSends, WriterDrained, WriterBreaks, WriterCancelled, RequesterLeaves,
              Remove, ShutdownBegins, OwnerStep, ShutdownStops, StopReturns, ShutdownEnds,
              handlerVars, vars
<1> QED
  BY <1>1, <1>2, <1>3 DEF Next, Reads

LEMMA BelowGrows ==
  ASSUME NEW s \in Seq(Message), NEW n \in [Providers -> Nat], NEW n2 \in [Providers -> Nat],
         NEW at, NEW at2, Below(s, n, at), Reads(n, at, n2, at2)
  PROVE  Below(s, n2, at2)
<1> SUFFICES ASSUME NEW i \in DOMAIN s, s[i].kind \in Stream
             PROVE  /\ s[i].n <= n2[s[i].from]
                    /\ at2[s[i].from] = "locking" => s[i].n < n2[s[i].from]
  BY DEF Below
<1>1. s[i] \in Message
  OBVIOUS
<1>2. s[i].from \in Providers /\ s[i].n \in Nat
  BY <1>1 DEF Message
<1>3. n[s[i].from] \in Nat /\ n2[s[i].from] \in Nat
  BY <1>2
<1>4. s[i].n <= n[s[i].from] /\ (at[s[i].from] = "locking" => s[i].n < n[s[i].from])
  BY DEF Below
<1>5. \/ n2[s[i].from] = n[s[i].from] /\ (at2[s[i].from] = "locking" => at[s[i].from] = "locking")
      \/ n2[s[i].from] = n[s[i].from] + 1
  BY <1>2 DEF Reads
<1> QED
  BY <1>2, <1>3, <1>4, <1>5

LEMMA BelowAppend ==
  ASSUME NEW s \in Seq(Message), NEW m \in Message, NEW n, NEW at, Below(s, n, at),
         m.kind \in Stream => m.n <= n[m.from] /\ at[m.from] # "locking"
  PROVE  Below(Append(s, m), n, at)
<1>1. \A i \in DOMAIN Append(s, m) :
        (i \in DOMAIN s /\ Append(s, m)[i] = s[i]) \/ Append(s, m)[i] = m
  BY AppendIs
<1> QED
  BY <1>1 DEF Below

LEMMA BelowTail ==
  ASSUME NEW s \in Seq(Message), s # <<>>, NEW n, NEW at, Below(s, n, at)
  PROVE  Below(Tail(s), n, at)
<1>1. \A i \in DOMAIN Tail(s) : i + 1 \in DOMAIN s /\ Tail(s)[i] = s[i + 1]
  BY TailIs
<1> QED
  BY <1>1 DEF Below

\* A message that comes after all of s can be appended to it.
LEMMA OrderedAppend ==
  ASSUME NEW s \in Seq(Message), NEW m \in Message, Ordered(s),
         \A i \in 1..Len(s) : Comes(s[i], m)
  PROVE  Ordered(Append(s, m))
<1>1. \A i, j \in 1..Len(s) : i < j => Comes(s[i], s[j])
  BY OrderedIs
<1> DEFINE t == Append(s, m)
<1>2. /\ t \in Seq(Message) /\ Len(t) = Len(s) + 1 /\ Len(s) \in Nat
      /\ \A i \in 1..Len(s) : t[i] = s[i]
      /\ t[Len(s) + 1] = m
  BY AppendIs
<1> HIDE DEF t
<1>3. \A i, j \in 1..Len(t) : i < j => Comes(t[i], t[j])
  <2> SUFFICES ASSUME NEW i \in 1..Len(t), NEW j \in 1..Len(t), i < j
               PROVE  Comes(t[i], t[j])
    OBVIOUS
  <2>1. CASE j = Len(s) + 1
    BY <1>2, <2>1
  <2>2. CASE j # Len(s) + 1
    BY <1>1, <1>2, <2>2
  <2> QED
    BY <2>1, <2>2
<1> QED
  BY <1>2, <1>3, OrderedIs DEF t

LEMMA PrecedesAppend ==
  ASSUME NEW s \in Seq(Message), NEW t \in Seq(Message), NEW m \in Message, Precedes(s, t)
  PROVE  /\ (\A i \in 1..Len(s) : Comes(s[i], m)) => Precedes(s, Append(t, m))
         /\ (\A j \in 1..Len(t) : Comes(m, t[j])) => Precedes(Append(s, m), t)
<1>1. /\ Append(s, m) \in Seq(Message) /\ Append(t, m) \in Seq(Message)
      /\ \A i \in 1..Len(Append(s, m)) : (i \in 1..Len(s) /\ Append(s, m)[i] = s[i]) \/ Append(s, m)[i] = m
      /\ \A i \in 1..Len(Append(t, m)) : (i \in 1..Len(t) /\ Append(t, m)[i] = t[i]) \/ Append(t, m)[i] = m
  BY AppendIs
<1>2. \A i \in 1..Len(s), j \in 1..Len(t) : Comes(s[i], t[j])
  BY PrecedesIs
<1>3. Precedes(s, Append(t, m)) <=> \A i \in 1..Len(s), j \in 1..Len(Append(t, m)) : Comes(s[i], Append(t, m)[j])
  BY <1>1, PrecedesIs
<1>4. Precedes(Append(s, m), t) <=> \A i \in 1..Len(Append(s, m)), j \in 1..Len(t) : Comes(Append(s, m)[i], t[j])
  BY <1>1, PrecedesIs
<1> QED
  BY <1>1, <1>2, <1>3, <1>4

\* The head of a queue may go to the wire.
LEMMA HeadSent ==
  ASSUME NEW s \in Seq(Message), NEW t \in Seq(Message), t # <<>>,
         Ordered(s), Ordered(t), Precedes(s, t)
  PROVE  /\ Ordered(Append(s, Head(t))) /\ Ordered(Tail(t))
         /\ Precedes(s, Tail(t)) /\ Precedes(Append(s, Head(t)), Tail(t))
<1>1. /\ Head(t) \in Message /\ Head(t) = t[1] /\ Tail(t) \in Seq(Message)
      /\ Len(Tail(t)) = Len(t) - 1 /\ Len(t) \in Nat /\ Len(t) >= 1
      /\ \A i \in 1..(Len(t) - 1) : Tail(t)[i] = t[i + 1]
  BY TailIs
<1>2. \A i, j \in 1..Len(t) : i < j => Comes(t[i], t[j])
  BY OrderedIs
<1>3. \A i \in 1..Len(s), j \in 1..Len(t) : Comes(s[i], t[j])
  BY PrecedesIs
<1>4. Ordered(Append(s, Head(t)))
  BY <1>1, <1>3, OrderedAppend
<1>5. Ordered(Tail(t))
  <2>1. \A i, j \in 1..Len(Tail(t)) : i < j => Comes(Tail(t)[i], Tail(t)[j])
    <3> SUFFICES ASSUME NEW i \in 1..Len(Tail(t)), NEW j \in 1..Len(Tail(t)), i < j
                 PROVE  Comes(Tail(t)[i], Tail(t)[j])
      OBVIOUS
    <3>1. Comes(t[i + 1], t[j + 1])
      BY <1>1, <1>2
    <3> QED
      BY <1>1, <3>1
  <2> QED
    BY <1>1, <2>1, OrderedIs
<1>6. Precedes(s, Tail(t))
  <2>1. \A i \in 1..Len(s), j \in 1..Len(Tail(t)) : Comes(s[i], Tail(t)[j])
    <3> SUFFICES ASSUME NEW i \in 1..Len(s), NEW j \in 1..Len(Tail(t))
                 PROVE  Comes(s[i], Tail(t)[j])
      OBVIOUS
    <3>1. Comes(s[i], t[j + 1])
      BY <1>1, <1>3
    <3> QED
      BY <1>1, <3>1
  <2> QED
    BY <1>1, <2>1, PrecedesIs
<1>7. \A j \in 1..Len(Tail(t)) : Comes(Head(t), Tail(t)[j])
  BY <1>1, <1>2
<1> QED
  BY <1>1, <1>4, <1>5, <1>6, <1>7, PrecedesAppend

\* A new message may go to the queue.
LEMMA LastQueued ==
  ASSUME TypeOK, NEW p \in Providers, pc[p] = "locking",
         NEW s \in Seq(Message), NEW t \in Seq(Message),
         Below(s, sent, pc), Below(t, sent, pc), Ordered(t), Precedes(s, t)
  PROVE  /\ Ordered(Append(t, Its(p, kind[p])))
         /\ Precedes(s, Append(t, Its(p, kind[p])))
<1> DEFINE m == Its(p, kind[p])
<1>1. kind[p] \in Stream \cup {"direct", "refused"}
  BY DEF TypeOK
<1>2. m \in Message /\ m.from = p /\ m.n = sent[p]
  BY <1>1, ItsIsMessage DEF Its
<1> HIDE DEF m
<1>3. ASSUME NEW u \in Seq(Message), Below(u, sent, pc)
      PROVE  \A i \in 1..Len(u) : Comes(u[i], m)
  BY <1>2, <1>3 DEF Below, Comes
<1>4. Ordered(Append(t, m))
  BY <1>2, <1>3, OrderedAppend
<1>5. Precedes(s, Append(t, m))
  BY <1>2, <1>3, PrecedesAppend
<1> QED
  BY <1>4, <1>5 DEF m

\* What order says of one connection, whose wire is w and whose queue is s.
StreamOf(w, s, n, at) ==
    /\ Below(w, n, at) /\ Below(s, n, at)
    /\ Ordered(w) /\ Ordered(s) /\ Precedes(w, s)

\* The queue of r, if the manager has one.
QueueOf(r) == IF r \in managed THEN queue[Current(r)] ELSE <<>>

LEMMA OrderIsStreamOf ==
  ASSUME TypeOK
  PROVE  (OrderInv /\ StreamInOrder)
           <=> \A r \in Requesters : StreamOf(wire[r], QueueOf(r), sent, pc)
<1>1. ASSUME NEW r \in Requesters
      PROVE  Below(<<>>, sent, pc) /\ Ordered(<<>>) /\ Precedes(wire[r], <<>>)
  BY DEF Below, Ordered, Precedes
<1>2. managed \subseteq Requesters
  BY DEF TypeOK
<1> QED
  BY <1>1, <1>2 DEF OrderInv, StreamInOrder, StreamOf, QueueOf

\* What a step may do to a connection.
Unchanged(w, s, w2, s2) == w2 = w /\ s2 \in {s, <<>>}
Answered(w, s, w2, s2) ==
    \E m \in Message : m.kind \notin Stream /\ w2 = Append(w, m) /\ s2 = s
Taken(w, s, w2, s2) == s # <<>> /\ s2 = Tail(s) /\ w2 \in {w, Append(w, Head(s))}
Queued(w, s, w2, s2) ==
    \E p \in Providers :
        pc[p] = "locking" /\ pc'[p] = "reading" /\ w2 = w /\ s2 = Append(s, Its(p, kind[p]))

LEMMA StreamStep ==
  ASSUME TypeOK, TypeOK', [Next]_vars, NEW w \in Seq(Message), NEW s \in Seq(Message),
         NEW w2, NEW s2, StreamOf(w, s, sent, pc),
         \/ Unchanged(w, s, w2, s2) \/ Answered(w, s, w2, s2)
         \/ Taken(w, s, w2, s2) \/ Queued(w, s, w2, s2)
  PROVE  StreamOf(w2, s2, sent', pc')
<1>1. Reads(sent, pc, sent', pc') /\ sent \in [Providers -> Nat] /\ sent' \in [Providers -> Nat]
  BY ReadsStep DEF TypeOK
<1>2. /\ Below(w, sent, pc) /\ Below(s, sent, pc)
      /\ Ordered(w) /\ Ordered(s) /\ Precedes(w, s)
  BY DEF StreamOf
<1>3. Below(w, sent', pc') /\ Below(s, sent', pc')
  BY <1>1, <1>2, BelowGrows
<1>4. CASE Unchanged(w, s, w2, s2)
  <2>1. Below(<<>>, sent', pc') /\ Ordered(<<>>) /\ Precedes(w, <<>>)
    BY DEF Below, Ordered, Precedes
  <2> QED
    BY <1>2, <1>3, <1>4, <2>1 DEF Unchanged, StreamOf
<1>5. CASE Answered(w, s, w2, s2)
  <2>1. PICK m \in Message : m.kind \notin Stream /\ w2 = Append(w, m) /\ s2 = s
    BY <1>5 DEF Answered
  <2>2. \A a : Comes(a, m) /\ Comes(m, a)
    BY <2>1 DEF Comes
  <2>3. Ordered(w2) /\ Precedes(w2, s)
    BY <1>2, <2>1, <2>2, OrderedAppend, PrecedesAppend
  <2>4. Below(w2, sent', pc')
    BY <1>3, <2>1, BelowAppend
  <2> QED
    BY <1>2, <1>3, <2>1, <2>3, <2>4 DEF StreamOf
<1>6. CASE Taken(w, s, w2, s2)
  <2>1. s # <<>> /\ s2 = Tail(s) /\ w2 \in {w, Append(w, Head(s))}
    BY <1>6 DEF Taken
  <2>2. Ordered(w2) /\ Ordered(s2) /\ Precedes(w2, s2)
    BY <1>2, <2>1, HeadSent
  <2>3. Below(s2, sent', pc')
    BY <1>3, <2>1, BelowTail
  <2>4. Below(w2, sent', pc')
    <3>1. Head(s) \in Message /\ 1 \in DOMAIN s /\ Head(s) = s[1]
      BY <2>1, TailIs
    <3>2. Head(s).kind \in Stream =>
             /\ Head(s).n <= sent'[Head(s).from]
             /\ pc'[Head(s).from] = "locking" => Head(s).n < sent'[Head(s).from]
      BY <1>3, <3>1 DEF Below
    <3>3. \A i \in DOMAIN Append(w, Head(s)) :
             (i \in DOMAIN w /\ Append(w, Head(s))[i] = w[i]) \/ Append(w, Head(s))[i] = Head(s)
      BY <3>1, AppendIs
    <3>4. Below(Append(w, Head(s)), sent', pc')
      BY <1>3, <3>2, <3>3 DEF Below
    <3> QED
      BY <1>3, <2>1, <3>4
  <2> QED
    BY <2>2, <2>3, <2>4 DEF StreamOf
<1>7. CASE Queued(w, s, w2, s2)
  <2>1. PICK p \in Providers :
           pc[p] = "locking" /\ pc'[p] = "reading" /\ w2 = w /\ s2 = Append(s, Its(p, kind[p]))
    BY <1>7 DEF Queued
  <2>2. Ordered(s2) /\ Precedes(w, s2)
    BY <1>2, <2>1, LastQueued
  <2>3. kind[p] \in Stream \cup {"direct", "refused"}
    BY DEF TypeOK
  <2>4. Its(p, kind[p]) \in Message /\ Its(p, kind[p]).from = p /\ Its(p, kind[p]).n = sent[p]
    BY <2>3, ItsIsMessage DEF Its
  <2>5. sent[p] <= sent'[p]
    <3>1. sent[p] \in Nat /\ (sent'[p] = sent[p] \/ sent'[p] = sent[p] + 1)
      BY <1>1 DEF Reads
    <3> QED
      BY <3>1
  <2>6. Below(s2, sent', pc')
    BY <1>3, <2>1, <2>4, <2>5, BelowAppend
  <2> QED
    BY <1>2, <1>3, <2>1, <2>2, <2>6 DEF StreamOf
<1> QED
  BY <1>4, <1>5, <1>6, <1>7

\* Each step does one of these to each connection.
LEMMA OneOfThese ==
  ASSUME TypeOK, QueuesInv, [Next]_vars, NEW r \in Requesters
  PROVE  \/ Unchanged(wire[r], QueueOf(r), wire'[r], QueueOf(r)')
         \/ Answered(wire[r], QueueOf(r), wire'[r], QueueOf(r)')
         \/ Taken(wire[r], QueueOf(r), wire'[r], QueueOf(r)')
         \/ Queued(wire[r], QueueOf(r), wire'[r], QueueOf(r)')
<1> DEFINE Goal == \/ Unchanged(wire[r], QueueOf(r), wire'[r], QueueOf(r)')
                   \/ Answered(wire[r], QueueOf(r), wire'[r], QueueOf(r)')
                   \/ Taken(wire[r], QueueOf(r), wire'[r], QueueOf(r)')
                   \/ Queued(wire[r], QueueOf(r), wire'[r], QueueOf(r)')
<1> HIDE DEF Goal
<1>1. managed \subseteq Requesters /\ \A s \in managed : Current(s) \in Queues
  BY QueueIsPair DEF TypeOK, QueuesInv, Current
<1>2. ASSUME wire' = wire, queue' = queue, created' = created, managed' \subseteq managed
      PROVE  Goal
  BY <1>2 DEF Goal, Unchanged, QueueOf, Current
<1>3. ASSUME NEW s \in Requesters, NEW m \in Message, m.kind \notin Stream,
             Write(s, m) \/ wire' = wire, UNCHANGED <<queue, created, managed>>
      PROVE  Goal
  <2>1. QueueOf(r)' = QueueOf(r)
    BY <1>3 DEF QueueOf, Current
  <2>2. wire'[r] = wire[r] \/ wire'[r] = Append(wire[r], m)
    BY <1>3 DEF Write, TypeOK
  <2> QED
    BY <1>3, <2>1, <2>2 DEF Goal, Unchanged, Answered
<1>4. ASSUME NEW p \in Providers, ReceiveDirect(p) \/ TellRequester(p)
      PROVE  Goal
  <2>1. RequesterOf[p] \in Requesters
    BY RequesterOfAssumption
  <2>2. CASE ReceiveDirect(p)
    <3> DEFINE m == [from |-> p, n |-> sent[p] + 1, kind |-> "direct"]
    <3>1. m \in Message /\ m.kind \notin Stream
      BY DEF TypeOK, Message, Stream
    <3>2. (Write(RequesterOf[p], m) \/ wire' = wire) /\ UNCHANGED <<queue, created, managed>>
      BY <2>2 DEF ReceiveDirect, Receive, objVars
    <3> QED
      BY <1>3, <2>1, <3>1, <3>2
  <2>3. CASE TellRequester(p)
    <3>1. Its(p, "refused") \in Message /\ Its(p, "refused").kind \notin Stream
      BY ItsIsMessage DEF Its, Stream
    <3>2. (Write(RequesterOf[p], Its(p, "refused")) \/ wire' = wire) /\ UNCHANGED <<queue, created, managed>>
      BY <2>3 DEF TellRequester, objVars
    <3> QED
      BY <1>3, <2>1, <3>1, <3>2
  <2> QED
    BY <1>4, <2>2, <2>3
<1>5. ASSUME NEW p \in Providers, PutInNew(p)
      PROVE  Goal
  <2> DEFINE s == RequesterOf[p]
             new == <<s, created[s] + 1>>
  <2>1. /\ s \in Requesters /\ s \notin managed /\ created[s] \in Nat /\ created[s] < MaxQueues
        /\ MaxQueues \in Nat
    <3>1. created[s] \in 0..MaxQueues /\ MaxQueues \in Nat /\ s \in Requesters
      BY RequesterOfAssumption, QueueIsPair DEF TypeOK
    <3> QED
      BY <1>5, <3>1 DEF PutInNew
  <2>2. new \in Queues /\ new[1] = s /\ new[2] = created[s] + 1
    BY <2>1, QueueIsPair
  <2>3. /\ created' = [created EXCEPT ![s] = created[s] + 1] /\ managed' = managed \cup {s}
        /\ queue' = [queue EXCEPT ![new] = Append(@, Its(p, kind[p]))]
        /\ wire' = wire /\ pc[p] = "locking" /\ pc'[p] = "reading"
    BY <1>5 DEF PutInNew, PutNowait, Return, TypeOK
  <2> HIDE DEF new
  <2>4. queue[new] = <<>>
    BY <2>1, <2>2 DEF QueuesInv, Used
  <2>5. CASE r = s
    <3>1. QueueOf(r) = <<>> /\ Current(r)' = new
      BY <2>1, <2>3, <2>5 DEF QueueOf, Current, TypeOK, new
    <3>2. QueueOf(r)' = Append(<<>>, Its(p, kind[p]))
      BY <2>2, <2>3, <2>4, <2>5, <3>1 DEF QueueOf, TypeOK
    <3> QED
      BY <2>3, <3>1, <3>2 DEF Goal, Queued
  <2>6. CASE r # s
    <3>1. Current(r)' = Current(r) /\ Current(r) # new
      BY <2>2, <2>3, <2>6 DEF Current, TypeOK
    <3>2. QueueOf(r)' = QueueOf(r)
      BY <1>1, <2>2, <2>3, <2>6, <3>1 DEF QueueOf, TypeOK
    <3> QED
      BY <2>3, <3>2 DEF Goal, Unchanged
  <2> QED
    BY <2>5, <2>6
<1>6. ASSUME NEW p \in Providers, PutInOld(p)
      PROVE  Goal
  <2> DEFINE s == RequesterOf[p]
  <2>1. s \in managed /\ Current(s) \in Queues /\ Current(s)[1] = s
    BY <1>1, <1>6 DEF PutInOld, Current
  <2>2. /\ UNCHANGED <<created, managed, wire>>
        /\ queue' = [queue EXCEPT ![Current(s)] = Append(@, Its(p, kind[p]))]
        /\ pc[p] = "locking" /\ pc'[p] = "reading"
    BY <1>6 DEF PutInOld, PutNowait, Return, TypeOK
  <2>3. CASE r = s
    <3>1. QueueOf(r)' = Append(QueueOf(r), Its(p, kind[p]))
      BY <2>1, <2>2, <2>3 DEF QueueOf, Current, TypeOK
    <3> QED
      BY <2>2, <3>1 DEF Goal, Queued
  <2>4. CASE r # s
    <3>1. Current(r) # Current(s)
      BY <2>4 DEF Current
    <3>2. QueueOf(r)' = QueueOf(r)
      BY <1>1, <2>2, <3>1 DEF QueueOf, Current, TypeOK
    <3> QED
      BY <2>2, <3>2 DEF Goal, Unchanged
  <2> QED
    BY <2>3, <2>4
<1>7. ASSUME NEW q \in Queues, WriterSends(q) \/ WriterBreaks(q)
      PROVE  Goal
  <2>1. q \notin closed /\ Alive(q) /\ UNCHANGED <<created, managed>>
    BY <1>7 DEF WriterSends, WriterBreaks, Alive
  <2>2. q = Current(q[1]) /\ q[1] \in managed
    BY <2>1 DEF QueuesInv
  <2>3. CASE r # q[1]
    <3>1. wire'[r] = wire[r]
      BY <1>7, <2>3 DEF WriterSends, WriterBreaks, Write, TypeOK
    <3>2. Current(r) # q /\ Current(r)' = Current(r)
      BY <2>1, <2>3 DEF Current
    <3>3. r \in managed => queue'[Current(r)] = queue[Current(r)]
      BY <1>1, <1>7, <3>2 DEF WriterSends, WriterBreaks, TypeOK
    <3> QED
      BY <2>1, <3>1, <3>2, <3>3 DEF Goal, Unchanged, QueueOf
  <2>4. CASE r = q[1]
    <3>1. QueueOf(r) = queue[q] /\ QueueOf(r)' = queue'[q]
      BY <2>1, <2>2, <2>4 DEF QueueOf, Current
    <3>2. CASE WriterSends(q)
      <4>1. queue[q] # <<>> /\ queue'[q] = Tail(queue[q]) /\ wire'[r] = Append(wire[r], Head(queue[q]))
        BY <2>4, <3>2 DEF WriterSends, Write, TypeOK
      <4> QED
        BY <3>1, <4>1 DEF Goal, Taken
    <3>3. CASE WriterBreaks(q)
      <4>1. wire' = wire /\ (queue' = queue \/ (queue[q] # <<>> /\ queue'[q] = Tail(queue[q])))
        BY <3>3 DEF WriterBreaks, TypeOK
      <4> QED
        BY <3>1, <4>1 DEF Goal, Taken, Unchanged
    <3> QED
      BY <1>7, <3>2, <3>3
  <2> QED
    BY <2>3, <2>4
<1>8. ASSUME NEW p \in Providers, NEW k \in Stream,
             ReceiveStream(p, k) \/ PutFails(p) \/ SendReturns(p)
      PROVE  Goal
  BY <1>2, <1>8 DEF ReceiveStream, Receive, PutFails, SendReturns, objVars
<1>9. ASSUME NEW q \in Queues, WriterDrained(q) \/ WriterCancelled(q)
      PROVE  Goal
  BY <1>2, <1>9 DEF WriterDrained, WriterCancelled
<1>10. ASSUME NEW s \in Requesters, RequesterLeaves(s) \/ Remove(s)
       PROVE  Goal
  BY <1>2, <1>10 DEF RequesterLeaves, Remove, objVars
<1>11. ASSUME ShutdownBegins \/ OwnerStep \/ UNCHANGED vars
       PROVE  Goal
  <2>1. wire' = wire /\ queue' = queue /\ created' = created
    BY <1>11 DEF ShutdownBegins, OwnerStep, ShutdownStops, StopReturns, ShutdownEnds, vars, objVars
  <2>2. managed' = managed \/ managed' = {}
    BY <1>11 DEF ShutdownBegins, OwnerStep, ShutdownStops, StopReturns, ShutdownEnds, vars
  <2>3. managed' \subseteq managed
    BY <2>2
  <2> QED
    BY <1>2, <2>1, <2>3
<1>12. "mark" \in Stream
  BY DEF Stream
<1> QED
  BY <1>4, <1>5, <1>6, <1>7, <1>8, <1>9, <1>10, <1>11, <1>12 DEF Next, HandlerStep, WriterStep, Goal

LEMMA OrderStep ==
  ASSUME TypeOK, TypeOK', QueuesInv, OrderInv, StreamInOrder, [Next]_vars
  PROVE  OrderInv' /\ StreamInOrder'
<1>1. ASSUME NEW r \in Requesters
      PROVE  wire[r] \in Seq(Message) /\ QueueOf(r) \in Seq(Message)
  <2>1. r \in managed => Current(r) \in Queues
    BY QueueIsPair DEF TypeOK, QueuesInv, Current
  <2> QED
    BY <2>1 DEF TypeOK, QueueOf
<1>2. \A r \in Requesters : StreamOf(wire[r], QueueOf(r), sent, pc)
  BY OrderIsStreamOf
<1>3. \A r \in Requesters : StreamOf(wire'[r], QueueOf(r)', sent', pc')
  BY <1>1, <1>2, OneOfThese, StreamStep
<1>4. managed' \subseteq Requesters
  BY DEF TypeOK
<1> QED
  BY <1>3, <1>4 DEF OrderInv, StreamInOrder, StreamOf, QueueOf
-----------------------------------------------------------------------------
(* The theorem.                                                            *)

LEMMA NextInv == StreamingInv /\ [Next]_vars => StreamingInv'
BY TypeStep, QueuesStep, KeptStep, OrderStep DEF StreamingInv

\* OneWriter: QueuesInv bounds the writers; NoSilentLoss: KeptInv says more.
LEMMA InvImplies == StreamingInv => OneWriter /\ NoSilentLoss
<1> SUFFICES ASSUME StreamingInv PROVE OneWriter /\ NoSilentLoss
  OBVIOUS
<1>1. OneWriter
  BY DEF StreamingInv, QueuesInv, OneWriter
<1>2. NoSilentLoss
  <2> SUFFICES ASSUME NEW p \in Providers, Intact(RequesterOf[p])
               PROVE  1..(IF pc[p] = "reading" THEN sent[p] ELSE sent[p] - 1) \subseteq Kept(p)
    BY DEF NoSilentLoss, Intact, Kept
  <2>1. 1..Done(p) \subseteq Kept(p)
    BY DEF StreamingInv, KeptInv
  <2>2. sent[p] \in Nat
    BY DEF StreamingInv, TypeOK
  <2> QED
    BY <2>1, <2>2 DEF Done
<1> QED
  BY <1>1, <1>2

\* For any connections and sizes: a queue has one writer, which the manager knows or
\* waits for; the messages of a stream reach the requester in order and once; and none of
\* them disappears while the requester's connection is open and its queue not stopped.
THEOREM StreamingSafe == Spec => [](TypeOK /\ OneWriter /\ StreamInOrder /\ NoSilentLoss)
<1>1. StreamingInv => TypeOK /\ OneWriter /\ StreamInOrder /\ NoSilentLoss
  BY InvImplies DEF StreamingInv
<1> QED
  BY InitInv, NextInv, <1>1, PTL DEF Spec
-----------------------------------------------------------------------------
(* The refinement of Outbox.                                               *)

Pending == [r \in Requesters |-> Waiting(r)]
Hand == [p \in Providers |-> InHand(p)]

\* What waits for one requester changes, or what one provider has in hand.
LEMMA PendingIs ==
  ASSUME NEW r \in Requesters, \A s \in Requesters \ {r} : Waiting(s)' = Waiting(s)
  PROVE  Pending' = [Pending EXCEPT ![r] = Waiting(r)'] /\ Pending[r] = Waiting(r)
BY DEF Pending

LEMMA HandIs ==
  ASSUME NEW p \in Providers,
         \A o \in Providers \ {p} : pc'[o] = pc[o] /\ kind'[o] = kind[o]
  PROVE  Hand' = [Hand EXCEPT ![p] = InHand(p)'] /\ Hand[p] = InHand(p)
<1>1. \A o \in Providers \ {p} : InHand(o)' = InHand(o)
  BY DEF InHand
<1> QED
  BY <1>1 DEF Hand

LEMMA PendingSame ==
  ASSUME UNCHANGED <<created, managed, queue>>, closed' = closed
  PROVE  Pending' = Pending
BY DEF Pending, Waiting, Current

LEMMA HandSame ==
  ASSUME UNCHANGED <<pc, kind>>
  PROVE  Hand' = Hand
BY DEF Hand, InHand

\* A handler that waits for the lock has a message of a stream.
HandInv == \A p \in Providers : pc[p] = "locking" => kind[p] \in Stream

LEMMA HandStep ==
  ASSUME TypeOK, HandInv, [Next]_vars
  PROVE  HandInv'
<1>1. ASSUME NEW p \in Providers, NEW k \in Stream, ReceiveStream(p, k)
      PROVE  HandInv'
  BY <1>1 DEF ReceiveStream, Receive, HandInv, TypeOK
<1>2. ASSUME NEW p \in Providers, PutInNew(p) \/ PutInOld(p) \/ SendReturns(p)
      PROVE  HandInv'
  BY <1>2 DEF PutInNew, PutInOld, SendReturns, Return, HandInv, TypeOK
<1>3. ASSUME NEW p \in Providers, ReceiveDirect(p) \/ PutFails(p) \/ TellRequester(p)
      PROVE  HandInv'
  BY <1>3 DEF ReceiveDirect, Receive, PutFails, AfterFailure, TellRequester, HandInv, TypeOK
<1>4. ASSUME UNCHANGED handlerVars
      PROVE  HandInv'
  BY <1>4 DEF handlerVars, HandInv
<1>5. ASSUME \/ \E q \in Queues : WriterStep(q)
             \/ \E r \in Requesters : RequesterLeaves(r) \/ Remove(r)
             \/ ShutdownBegins \/ OwnerStep \/ UNCHANGED vars
      PROVE  UNCHANGED handlerVars
  BY <1>5 DEF WriterStep, WriterSends, WriterDrained, WriterBreaks, WriterCancelled,
     RequesterLeaves, Remove, ShutdownBegins, OwnerStep, ShutdownStops, StopReturns,
     ShutdownEnds, vars
<1> QED
  BY <1>1, <1>2, <1>3, <1>4, <1>5 DEF Next, HandlerStep

\* When a handler has got the lock, its message is in its hand, and a queue of the
\* manager is open.
LEMMA LockIsFree ==
  ASSUME TypeOK, QueuesInv, HandInv, NEW p \in Providers, pc[p] = "locking", LockFree
  PROVE  /\ RequesterOf[p] \in Requesters
         /\ kind[p] \in {"mark", "chunk"} /\ Hand[p] = kind[p]
         /\ RequesterOf[p] \in managed =>
              /\ Current(RequesterOf[p]) \notin closed
              /\ Current(RequesterOf[p]) \in Queues
              /\ Pending[RequesterOf[p]] = queue[Current(RequesterOf[p])]
         /\ RequesterOf[p] \notin managed => Pending[RequesterOf[p]] = <<>>
<1> DEFINE r == RequesterOf[p]
<1>1. r \in Requesters
  BY RequesterOfAssumption
<1>2. kind[p] \in {"mark", "chunk"} /\ Hand[p] = kind[p]
  BY DEF HandInv, Stream, Hand, InHand
<1>3. r \in managed => Current(r) \notin closed /\ Current(r) \in Queues
  BY <1>1, QueueIsPair DEF QueuesInv, LockFree, TypeOK, Current
<1> QED
  BY <1>1, <1>2, <1>3 DEF Pending, Waiting

\* A message is read.
LEMMA ReceiveIs ==
  ASSUME TypeOK, NEW p \in Providers, NEW k, Receive(p, k)
  PROVE  /\ RequesterOf[p] \in Requesters
         /\ Pending' = Pending /\ Hand[p] = "nothing"
         /\ k \in Stream /\ pc' = [pc EXCEPT ![p] = "locking"] =>
              Hand' = [Hand EXCEPT ![p] = k]
         /\ pc' = [pc EXCEPT ![p] = "sending"] => Hand' = [Hand EXCEPT ![p] = "nothing"]
<1>1. Pending' = Pending
  BY PendingSame DEF Receive, objVars
<1>2. Hand[p] = "nothing"
  BY DEF Receive, Hand, InHand
<1>3. ASSUME NEW l, pc' = [pc EXCEPT ![p] = l]
      PROVE  Hand' = [Hand EXCEPT ![p] = InHand(p)'] /\ pc'[p] = l /\ kind'[p] = k
  <2>1. pc'[p] = l /\ kind'[p] = k /\ \A o \in Providers \ {p} : pc'[o] = pc[o] /\ kind'[o] = kind[o]
    BY <1>3 DEF Receive, TypeOK
  <2> QED
    BY <2>1, HandIs
<1>4. RequesterOf[p] \in Requesters
  BY RequesterOfAssumption
<1> QED
  BY <1>1, <1>2, <1>3, <1>4 DEF InHand

LEMMA ReceiveDirectIs ==
  ASSUME TypeOK, NEW p \in Providers, ReceiveDirect(p)
  PROVE  Out!Direct(p)
<1>1. /\ Pending' = Pending /\ Hand[p] = "nothing"
      /\ Hand' = [Hand EXCEPT ![p] = "nothing"]
  BY ReceiveIs DEF ReceiveDirect
<1>2. Out!Reads(p, "nothing")
  BY <1>1 DEF ReceiveDirect, Receive, objVars, Out!Reads, Pending, Hand
<1>3. Out!Tell(RequesterOf[p], Out!Entry(p, sent[p] + 1, "direct"))
  BY DEF ReceiveDirect, Write, Out!Tell, Out!Entry
<1> QED
  BY <1>2, <1>3 DEF Out!Direct

LEMMA ReceiveStreamIs ==
  ASSUME TypeOK, NEW p \in Providers, NEW k \in Stream, ReceiveStream(p, k)
  PROVE  Out!StreamMessage(p, k)
<1>1. /\ Pending' = Pending /\ Hand[p] = "nothing"
      /\ Hand' = [Hand EXCEPT ![p] = k]
  BY ReceiveIs DEF ReceiveStream
<1>2. Out!Reads(p, k)
  BY <1>1 DEF ReceiveStream, Receive, objVars, Out!Reads, Pending, Hand
<1> QED
  BY <1>2 DEF ReceiveStream, Out!StreamMessage, Stream

\* What p had in hand is put down, or has become k.
LEMMA LeavesIs ==
  ASSUME TypeOK, NEW p \in Providers, NEW k, InHand(p)' = k, UNCHANGED <<conn, sent, closed>>,
         \A o \in Providers \ {p} : pc'[o] = pc[o] /\ kind'[o] = kind[o]
  PROVE  Out!Leaves(p, k)
<1>1. Hand' = [Hand EXCEPT ![p] = k]
  BY HandIs
<1> QED
  BY <1>1 DEF Out!Leaves, Hand

\* put_nowait of a queue, new or old.
LEMMA PutIs ==
  ASSUME TypeOK, QueuesInv, HandInv, NEW p \in Providers, PutInNew(p) \/ PutInOld(p)
  PROVE  Out!Accept(p)
<1> DEFINE r == RequesterOf[p]
           m == Its(p, kind[p])
<1>1. /\ r \in Requesters /\ kind[p] \in {"mark", "chunk"} /\ Hand[p] = kind[p]
      /\ r \in managed =>
           Current(r) \notin closed /\ Current(r) \in Queues /\ Pending[r] = queue[Current(r)]
      /\ r \notin managed => Pending[r] = <<>>
  BY LockIsFree DEF PutInNew, PutInOld
<1>2. Out!Leaves(p, "nothing")
  <2>1. pc' = [pc EXCEPT ![p] = "reading"] /\ kind' = [kind EXCEPT ![p] = "direct"]
        /\ UNCHANGED <<conn, sent, closed>>
    BY DEF PutInNew, PutInOld, Return
  <2>2. InHand(p)' = "nothing" /\ \A o \in Providers \ {p} : pc'[o] = pc[o] /\ kind'[o] = kind[o]
    BY <2>1 DEF InHand, TypeOK
  <2> QED
    BY <2>1, <2>2, LeavesIs
<1>3. Waiting(r)' = Append(Pending[r], m) /\ Len(Pending[r]) < MaxSize
      /\ \A s \in Requesters \ {r} : Waiting(s)' = Waiting(s)
  <2>1. CASE PutInNew(p)
    <3> DEFINE new == <<r, created[r] + 1>>
    <3>1. created[r] \in 0..MaxQueues /\ created[r] < MaxQueues /\ MaxQueues \in Nat
      BY <1>1, <2>1, QueueIsPair DEF PutInNew, TypeOK
    <3>2. new \in Queues /\ new[1] = r /\ new[2] = created[r] + 1 /\ created[r] \in Nat
      BY <1>1, <3>1, QueueIsPair
    <3>3. /\ created' = [created EXCEPT ![r] = created[r] + 1] /\ managed' = managed \cup {r}
          /\ queue' = [queue EXCEPT ![new] = Append(queue[new], m)]
          /\ closed' = closed /\ r \notin managed
      BY <2>1 DEF PutInNew, PutNowait
    <3> HIDE DEF new, m
    <3>4. queue[new] = <<>> /\ new \notin closed
      BY <3>2 DEF QueuesInv, Used
    <3>5. created'[r] = created[r] + 1 /\ \A s \in Requesters \ {r} : created'[s] = created[s]
      BY <1>1, <3>3 DEF TypeOK
    <3>6. Current(r)' = new
      BY <3>5 DEF Current, new
    <3>7. Waiting(r)' = Append(<<>>, m)
      <4>1. queue'[new] = Append(<<>>, m)
        BY <3>2, <3>3, <3>4 DEF TypeOK
      <4>2. r \in managed' /\ new \notin closed'
        BY <3>3, <3>4
      <4> QED
        BY <3>6, <4>1, <4>2 DEF Waiting
    <3>8. ASSUME NEW s \in Requesters \ {r}
          PROVE  Waiting(s)' = Waiting(s)
      <4>1. Current(s)' = Current(s) /\ Current(s) # new
        BY <3>2, <3>5 DEF Current
      <4>2. s \in managed => Current(s) \in Queues
        BY QueueIsPair DEF QueuesInv, TypeOK, Current
      <4>3. s \in managed => queue'[Current(s)] = queue[Current(s)]
        BY <3>3, <4>1, <4>2 DEF TypeOK
      <4>4. (s \in managed' <=> s \in managed) /\ closed' = closed
        BY <3>3
      <4> QED
        BY <4>1, <4>3, <4>4 DEF Waiting
    <3>9. Pending[r] = <<>> /\ Len(<<>>) = 0
      BY <1>1, <3>3
    <3> QED
      BY <3>7, <3>8, <3>9, SizeAssumption
  <2>2. CASE PutInOld(p)
    <3>1. /\ queue' = [queue EXCEPT ![Current(r)] = Append(queue[Current(r)], m)]
          /\ UNCHANGED <<created, managed, closed>>
          /\ r \in managed /\ Len(queue[Current(r)]) < MaxSize
      BY <2>2 DEF PutInOld, PutNowait, HasRoom
    <3> HIDE DEF m
    <3>2. \A s \in Requesters : Current(s)' = Current(s) /\ (s # r => Current(s) # Current(r))
      BY <3>1 DEF Current
    <3>3. queue'[Current(r)] = Append(queue[Current(r)], m)
      BY <1>1, <3>1 DEF TypeOK
    <3>4. \A s \in Requesters \ {r} : Waiting(s)' = Waiting(s)
      <4> SUFFICES ASSUME NEW s \in Requesters \ {r}
                   PROVE  Waiting(s)' = Waiting(s)
        OBVIOUS
      <4>1. s \in managed => Current(s) \in Queues
        BY QueueIsPair DEF QueuesInv, TypeOK, Current
      <4>2. s \in managed => queue'[Current(s)] = queue[Current(s)]
        BY <3>1, <3>2, <4>1 DEF TypeOK
      <4> QED
        BY <3>1, <3>2, <4>2 DEF Waiting
    <3>5. Waiting(r)' = queue'[Current(r)]
      BY <1>1, <3>1, <3>2 DEF Waiting
    <3> QED
      BY <1>1, <3>1, <3>3, <3>4, <3>5
  <2> QED
    BY <2>1, <2>2
<1>4. Pending' = [Pending EXCEPT ![r] = Append(Pending[r], m)]
  BY <1>1, <1>3, PendingIs
<1>5. Out!Entry(p, sent[p], Hand[p]) = m
  BY <1>1 DEF Out!Entry, Its
<1>6. wire' = wire
  BY DEF PutInNew, PutInOld
<1> QED
  BY <1>1, <1>2, <1>3, <1>4, <1>5, <1>6 DEF Out!Accept, Out!Room, Pending, Hand

\* put_nowait raises.
LEMMA PutFailsIs ==
  ASSUME TypeOK, QueuesInv, HandInv, NEW p \in Providers, PutFails(p)
  PROVE  Out!Refuse(p)
<1> DEFINE r == RequesterOf[p]
<1>1. /\ kind[p] \in {"mark", "chunk"} /\ Hand[p] = kind[p]
      /\ Current(r) \notin closed /\ Pending[r] = queue[Current(r)]
  BY LockIsFree DEF PutFails
<1>2. ~(Len(Pending[r]) < MaxSize)
  BY <1>1 DEF PutFails, HasRoom
<1>3. pc' = [pc EXCEPT ![p] = IF kind[p] = "chunk" THEN "telling" ELSE "down"]
      /\ UNCHANGED <<conn, created, managed, queue, closed, sent, kind, wire>>
  BY <1>1 DEF PutFails, AfterFailure, objVars
<1>4. Pending' = Pending
  BY <1>3, PendingSame
<1>5. Out!Leaves(p, IF kind[p] = "chunk" THEN "refusal" ELSE "error")
  <2>1. InHand(p)' = (IF kind[p] = "chunk" THEN "refusal" ELSE "error")
    BY <1>3 DEF InHand, TypeOK
  <2>2. \A o \in Providers \ {p} : pc'[o] = pc[o] /\ kind'[o] = kind[o]
    BY <1>3 DEF TypeOK
  <2> QED
    BY <1>3, <2>1, <2>2, LeavesIs
<1> QED
  BY <1>1, <1>2, <1>3, <1>4, <1>5 DEF Out!Refuse, Out!Room, Pending, Hand

LEMMA TellIs ==
  ASSUME TypeOK, NEW p \in Providers, TellRequester(p)
  PROVE  Out!TellRefusal(p)
<1>1. /\ pc[p] = "telling" /\ pc' = [pc EXCEPT ![p] = "sending"]
      /\ UNCHANGED <<conn, created, managed, queue, closed, sent, kind>>
  BY DEF TellRequester, objVars
<1>2. Pending' = Pending /\ Hand[p] = "refusal"
  BY <1>1, PendingSame DEF Hand, InHand
<1>3. Out!Leaves(p, "nothing")
  <2>1. InHand(p)' = "nothing" /\ \A o \in Providers \ {p} : pc'[o] = pc[o] /\ kind'[o] = kind[o]
    BY <1>1 DEF InHand, TypeOK
  <2> QED
    BY <1>1, <2>1, LeavesIs
<1>4. Out!Tell(RequesterOf[p], Out!Entry(p, sent[p], "refused"))
  BY DEF TellRequester, Write, Its, Out!Tell, Out!Entry
<1> QED
  BY <1>2, <1>3, <1>4 DEF Out!TellRefusal, Pending, Hand

\* The queue of a writer that is not cancelled is the one that waits.
LEMMA WriterIs ==
  ASSUME TypeOK, QueuesInv, NEW q \in Queues, Alive(q), q \notin closed, queue[q] # <<>>,
         queue' = [queue EXCEPT ![q] = Tail(@)],
         UNCHANGED <<conn, created, managed, closed, handlerVars>>
  PROVE  /\ q[1] \in Requesters /\ Pending[q[1]] = queue[q]
         /\ Out!Tell(q[1], Head(queue[q])) => Out!Deliver(q[1])
<1> DEFINE r == q[1]
<1>1. r \in Requesters /\ q = Current(r) /\ r \in managed
  BY QueueIsPair DEF QueuesInv
<1>2. Pending[r] = queue[q]
  BY <1>1 DEF Pending, Waiting
<1>3. \A s \in Requesters : Current(s)' = Current(s) /\ (s # r => Current(s) # q)
  BY DEF Current
<1>4. Waiting(r)' = Tail(queue[q])
  BY <1>1, <1>3 DEF Waiting, TypeOK
<1>5. ASSUME NEW s \in Requesters \ {r}
      PROVE  Waiting(s)' = Waiting(s)
  <2>1. s \in managed => Current(s) \in Queues
    BY QueueIsPair DEF QueuesInv, TypeOK, Current
  <2>2. s \in managed => queue'[Current(s)] = queue[Current(s)]
    BY <1>3, <2>1 DEF TypeOK
  <2> QED
    BY <1>3, <2>2 DEF Waiting
<1>6. Pending' = [Pending EXCEPT ![r] = Tail(Pending[r])]
  BY <1>1, <1>2, <1>4, <1>5, PendingIs
<1>7. Hand' = Hand /\ UNCHANGED <<conn, sent>>
  BY HandSame DEF handlerVars
<1> QED
  BY <1>1, <1>2, <1>6, <1>7 DEF Out!Deliver, Pending, Hand

LEMMA WriterStepIs ==
  ASSUME TypeOK, QueuesInv, NEW q \in Queues, WriterStep(q)
  PROVE  Out!Deliver(q[1]) \/ UNCHANGED Out!outboxVars
<1>1. CASE WriterSends(q)
  <2>1. /\ Alive(q) /\ q \notin closed /\ queue[q] # <<>> /\ conn[q[1]] = "open"
        /\ queue' = [queue EXCEPT ![q] = Tail(@)]
        /\ UNCHANGED <<conn, created, managed, closed, handlerVars>>
    BY <1>1 DEF WriterSends, Alive
  <2>2. Out!Tell(q[1], Head(queue[q]))
    BY <1>1, <2>1 DEF WriterSends, Write, Out!Tell
  <2> QED
    BY <2>1, <2>2, WriterIs
<1>2. CASE WriterBreaks(q) /\ queue' # queue
  <2>1. /\ Alive(q) /\ q \notin closed /\ queue[q] # <<>> /\ conn[q[1]] # "open"
        /\ queue' = [queue EXCEPT ![q] = Tail(@)] /\ wire' = wire
        /\ UNCHANGED <<conn, created, managed, closed, handlerVars>>
    BY <1>2 DEF WriterBreaks, Alive
  <2>2. Out!Tell(q[1], Head(queue[q]))
    BY <2>1 DEF Out!Tell
  <2> QED
    BY <2>1, <2>2, WriterIs
<1>3. CASE (WriterBreaks(q) /\ queue' = queue) \/ WriterDrained(q) \/ WriterCancelled(q)
  <2>1. UNCHANGED <<conn, created, managed, closed, queue, handlerVars, wire>>
    BY <1>3 DEF WriterBreaks, WriterDrained, WriterCancelled
  <2>2. Pending' = Pending /\ Hand' = Hand
    BY <2>1, PendingSame, HandSame DEF handlerVars
  <2> QED
    BY <2>1, <2>2 DEF Out!outboxVars, Pending, Hand, handlerVars
<1> QED
  BY <1>1, <1>2, <1>3 DEF WriterStep

\* stop(), within remove or shutdown.
LEMMA StopIs ==
  ASSUME TypeOK, NEW r \in Requesters, Remove(r) \/ ShutdownStops(r)
  PROVE  Out!Drop(r)
<1>1. /\ r \in managed /\ closed' = closed \cup {Current(r)}
      /\ managed' \in {managed, managed \ {r}}
      /\ UNCHANGED <<conn, created, queue, handlerVars, wire>>
  BY DEF Remove, ShutdownStops, StopQueue
<1>2. \A s \in Requesters : Current(s)' = Current(s) /\ (s # r => Current(s) # Current(r))
  BY <1>1 DEF Current
<1>3. Waiting(r)' = <<>>
  BY <1>1, <1>2 DEF Waiting
<1>4. ASSUME NEW s \in Requesters \ {r}
      PROVE  Waiting(s)' = Waiting(s)
  <2>1. Current(s)' = Current(s) /\ (Current(s) \in closed' <=> Current(s) \in closed)
    BY <1>1, <1>2
  <2>2. (s \in managed' <=> s \in managed) /\ queue' = queue
    BY <1>1
  <2> QED
    BY <2>1, <2>2 DEF Waiting
<1>5. Pending' = [Pending EXCEPT ![r] = <<>>]
  BY <1>3, <1>4, PendingIs
<1>6. Hand' = Hand /\ UNCHANGED <<conn, wire, sent>>
  BY <1>1, HandSame DEF handlerVars
<1>7. {q[1] : q \in closed'} = {q[1] : q \in closed} \cup {r}
  <2>1. Current(r)[1] = r
    BY DEF Current
  <2>2. \A x : x \in {q[1] : q \in closed'} <=> x \in {q[1] : q \in closed} \/ x = r
    BY <1>1, <2>1
  <2> QED
    BY <2>2
<1> QED
  BY <1>5, <1>6, <1>7 DEF Out!Drop, Pending, Hand

\* A handler that returns, a shutdown, and an owner that goes on: a queue that is
\* cleared was stopped before.
LEMMA RestIs ==
  ASSUME TypeOK,
         \/ \E p \in Providers : SendReturns(p)
         \/ ShutdownBegins \/ ShutdownEnds \/ (\E q \in Queues : StopReturns(q))
         \/ UNCHANGED vars
  PROVE  UNCHANGED Out!outboxVars
<1>1. UNCHANGED <<conn, created, queue, closed, sent, wire>>
  BY DEF SendReturns, ShutdownBegins, ShutdownEnds, StopReturns, vars, objVars, handlerVars
<1>2. Pending' = Pending
  <2>1. CASE ShutdownEnds
    <3>1. managed' = {} /\ \A r \in managed : Current(r) \in closed
      BY <2>1 DEF ShutdownEnds
    <3>2. \A r \in Requesters : Waiting(r) = <<>> /\ Waiting(r)' = <<>>
      BY <3>1 DEF Waiting
    <3> QED
      BY <3>2 DEF Pending
  <2>2. CASE ~ShutdownEnds
    <3>1. managed' = managed
      BY <2>2 DEF SendReturns, ShutdownBegins, StopReturns, vars
    <3> QED
      BY <1>1, <3>1, PendingSame
  <2> QED
    BY <2>1, <2>2
<1>3. Hand' = Hand
  <2>1. ASSUME NEW p \in Providers, SendReturns(p)
        PROVE  Hand' = Hand
    <3>1. \A o \in Providers : InHand(o)' = InHand(o)
      BY <2>1 DEF SendReturns, Return, InHand, TypeOK
    <3> QED
      BY <3>1 DEF Hand
  <2>2. ASSUME UNCHANGED handlerVars
        PROVE  Hand' = Hand
    BY <2>2, HandSame DEF handlerVars
  <2> QED
    BY <2>1, <2>2 DEF ShutdownBegins, ShutdownEnds, StopReturns, vars
<1> QED
  BY <1>1, <1>2, <1>3 DEF Out!outboxVars, Pending, Hand

LEMMA LeaveIs ==
  ASSUME NEW r \in Requesters, RequesterLeaves(r)
  PROVE  Out!HangUp(r)
<1>1. Pending' = Pending /\ Hand' = Hand
  BY PendingSame, HandSame DEF RequesterLeaves, objVars, handlerVars
<1> QED
  BY <1>1 DEF RequesterLeaves, objVars, handlerVars, Out!HangUp, Pending, Hand

\* Every step is one of the outbox, or none.
LEMMA StepIsOutbox ==
  ASSUME TypeOK, QueuesInv, HandInv, [Next]_vars
  PROVE  [Out!OutboxNext]_(Out!outboxVars)
<1>1. ASSUME NEW p \in Providers, NEW k \in Stream,
             ReceiveDirect(p) \/ ReceiveStream(p, k) \/ HandlerStep(p)
      PROVE  [Out!OutboxNext]_(Out!outboxVars)
  BY <1>1, ReceiveDirectIs, ReceiveStreamIs, PutIs, PutFailsIs, TellIs, RestIs
     DEF HandlerStep, Out!OutboxNext, Stream
<1>2. ASSUME NEW q \in Queues, WriterStep(q)
      PROVE  [Out!OutboxNext]_(Out!outboxVars)
  BY <1>2, WriterStepIs, QueueIsPair DEF Out!OutboxNext
<1>3. ASSUME NEW r \in Requesters, RequesterLeaves(r) \/ Remove(r) \/ ShutdownStops(r)
      PROVE  Out!OutboxNext
  BY <1>3, LeaveIs, StopIs DEF Out!OutboxNext
<1>4. ASSUME \/ ShutdownBegins \/ ShutdownEnds \/ (\E q \in Queues : StopReturns(q))
             \/ UNCHANGED vars
      PROVE  UNCHANGED Out!outboxVars
  BY <1>4, RestIs
<1>5. "mark" \in Stream
  BY DEF Stream
<1> QED
  BY <1>1, <1>2, <1>3, <1>4, <1>5 DEF Next, OwnerStep

\* Streaming implements the outbox: the lock, the writers and the succession of queues do
\* not show in what the two ends of a session see.
THEOREM StreamingImplementsOutbox == Spec => OutboxKept
<1>1. Init => Out!OutboxInit /\ HandInv
  BY DEF Init, Out!OutboxInit, Waiting, InHand, HandInv
<1>2. StreamingInv => TypeOK /\ QueuesInv
  BY DEF StreamingInv
<1> QED
  BY <1>1, <1>2, InitInv, NextInv, HandStep, StepIsOutbox, PTL
     DEF Spec, OutboxKept, Out!OutboxSpec
=============================================================================
