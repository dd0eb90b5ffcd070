----------------------------- MODULE Streaming -----------------------------
(***************************************************************************)
(* The way from a provider to its requester: the handlers of               *)
(* exec.stream.* and exec.* in src/transport/handler.py, the outbound      *)
(* queues of src/transport/queue.py (ConnectionQueue and                   *)
(* ConnectionQueueManager), and the writer task that drains each queue.    *)
(*                                                                         *)
(* exec.stream.* goes through the requester's queue, every other message   *)
(* to the requester's websocket directly.  A send writes the message at    *)
(* once and then waits until the transport has drained, so the order on    *)
(* the wire is the order in which sends begin, and a slow reader suspends  *)
(* whoever sends to it.                                                    *)
(*                                                                         *)
(* A provider is a connection that speaks for the provider_agent_id of an  *)
(* active session; it sends numbered messages.  Messages that the session  *)
(* check refuses, and those to a requester that is not registered, change  *)
(* nothing and are left out; a provider that leaves just sends no more.    *)
(***************************************************************************)
EXTENDS Integers, Sequences

CONSTANTS
    Providers,     \* the connections of providers, each with one active session
    Requesters,    \* requester_conn_id of those sessions
    RequesterOf,   \* session.requester_conn_id
    MaxSize,       \* max_queue_size
    Messages,      \* bound: how many messages each provider sends
    MaxQueues      \* bound: queues created for a connection; the last one is not removed

ASSUME RequesterOfAssumption == RequesterOf \in [Providers -> Requesters]
ASSUME SizeAssumption == MaxSize \in Nat \ {0}
ASSUME BoundsAssumption == Messages \in [Providers -> Nat] /\ MaxQueues \in Nat \ {0}

\* The ConnectionQueue objects: the g-th that was created for r.
Queues == Requesters \X (1..MaxQueues)
\* "mark" is an exec.stream.start or .end, whose handlers do the same with the queue.
Stream == {"mark", "chunk"}

\* "direct" is an exec.accepted, .progress, .error, .result or .partial_failure,
\* "refused" the exec.error BACKPRESSURE about the provider's n-th message.
Message == [from : Providers, n : Nat, kind : Stream \cup {"direct", "refused"}]

VARIABLES
    conn,      \* a requester's websocket: "closed" but still registered, then "gone"
    created,   \* how many queues were created for a connection
    managed,   \* the keys of the manager's _queues
    queue,     \* _queue of each object; the None of stop is left out
    closed,    \* the objects with _closed
    writer,    \* the object's _writer_task
    owner,     \* who holds the manager's _lock across a suspension
    victim,    \* the objects whose stop() the owner awaits
    pc,        \* where a provider's handler is
    sent,      \* how many messages of a provider were read
    kind,      \* what the message in its handler is
    wire       \* what was written to a requester's websocket

objVars == <<queue, closed, writer>>
lockVars == <<owner, victim>>
handlerVars == <<pc, sent, kind>>
vars == <<conn, created, managed, objVars, lockVars, handlerVars, wire>>

(***************************************************************************)
(* A handler reads the next message (reading), waits for the manager's     *)
(* lock (locking), sends the refusal of a chunk to its own websocket       *)
(* (telling), or a message to the requester's (sending); it is down once   *)
(* it raised, which ends the provider's connection.                        *)
(***************************************************************************)
HandlerState == {"reading", "locking", "telling", "sending", "down"}

TypeOK ==
    /\ conn \in [Requesters -> {"open", "closed", "gone"}]
    /\ created \in [Requesters -> 0..MaxQueues]
    /\ managed \in SUBSET Requesters
    /\ queue \in [Queues -> Seq(Message)]
    /\ \A q \in Queues : Len(queue[q]) <= MaxSize
    /\ closed \in SUBSET Queues
    /\ writer \in [Queues -> {"none", "waiting", "draining", "ended"}]
    /\ owner \in {"nobody", "remove", "shutdown"}
    /\ victim \in SUBSET Queues
    /\ pc \in [Providers -> HandlerState]
    /\ sent \in [Providers -> Nat]
    /\ kind \in [Providers -> Stream \cup {"direct"}]
    /\ wire \in [Requesters -> Seq(Message)]

Init ==
    /\ conn = [r \in Requesters |-> "open"]
    /\ created = [r \in Requesters |-> 0]
    /\ managed = {}
    /\ queue = [q \in Queues |-> <<>>]
    /\ closed = {}
    /\ writer = [q \in Queues |-> "none"]
    /\ owner = "nobody"
    /\ victim = {}
    /\ pc = [p \in Providers |-> "reading"]
    /\ sent = [p \in Providers |-> 0]
    /\ kind = [p \in Providers |-> "direct"]
    /\ wire = [r \in Requesters |-> <<>>]

-----------------------------------------------------------------------------
(* Helpers.                                                                *)

\* The queue the manager has for r.
Current(r) == <<r, created[r]>>

Alive(q) == writer[q] \in {"waiting", "draining"}

\* The message in p's handler, as it is forwarded or refused.
Its(p, k) == [from |-> p, n |-> sent[p], kind |-> k]

\* websocket.send_text: written if the websocket is open, else an exception.
Write(r, m) == wire' = [wire EXCEPT ![r] = Append(@, m)]

-----------------------------------------------------------------------------
(* The handlers.                                                           *)

\* A message of kind k is read and passes the checks of its handler.
Receive(p, k) ==
    /\ pc[p] = "reading"
    /\ sent[p] < Messages[p]
    /\ conn[RequesterOf[p]] # "gone"
    /\ sent' = [sent EXCEPT ![p] = @ + 1]
    /\ kind' = [kind EXCEPT ![p] = k]
    /\ UNCHANGED <<conn, created, managed, objVars, lockVars>>

\* A direct message is written to the requester at once.
ReceiveDirect(p) ==
    LET r == RequesterOf[p] IN
    /\ Receive(p, "direct")
    /\ pc' = [pc EXCEPT ![p] = "sending"]
    /\ IF conn[r] = "open"
       THEN Write(r, [from |-> p, n |-> sent[p] + 1, kind |-> "direct"])
       ELSE wire' = wire

\* One of a stream needs the requester's queue.
ReceiveStream(p, k) ==
    /\ Receive(p, k)
    /\ pc' = [pc EXCEPT ![p] = "locking"]
    /\ wire' = wire

\* The handler returns, and the connection's loop reads on.
Return(p) ==
    /\ pc' = [pc EXCEPT ![p] = "reading"]
    /\ kind' = [kind EXCEPT ![p] = "direct"]

\* The manager's lock can be taken.
LockFree == owner = "nobody"

\* Mutant of HasRoom: an asyncio.Queue without maxsize.
HasRoom_unbounded(q) == TRUE

\* put_nowait finds room.
HasRoom(q) == Len(queue[q]) < MaxSize

PutNowait(q, p) == queue' = [queue EXCEPT ![q] = Append(@, Its(p, kind[p]))]

\* get_or_create creates the queue and starts its writer.
PutInNew(p) ==
    LET r == RequesterOf[p] IN
    /\ pc[p] = "locking"
    /\ LockFree
    /\ r \notin managed /\ created[r] < MaxQueues
    /\ created' = [created EXCEPT ![r] = @ + 1]
    /\ managed' = managed \cup {r}
    /\ writer' = [writer EXCEPT ![<<r, created[r] + 1>>] = "waiting"]
    /\ PutNowait(<<r, created[r] + 1>>, p)
    /\ Return(p)
    /\ UNCHANGED <<conn, closed, lockVars, sent, wire>>

\* get_or_create finds the queue, open and with room.
PutInOld(p) ==
    /\ pc[p] = "locking"
    /\ LockFree
    /\ RequesterOf[p] \in managed
    /\ Current(RequesterOf[p]) \notin closed
    /\ HasRoom(Current(RequesterOf[p]))
    /\ PutNowait(Current(RequesterOf[p]), p)
    /\ Return(p)
    /\ UNCHANGED <<conn, created, managed, closed, writer, lockVars, sent, wire>>

\* Mutant of AfterFailure: the refused chunk is only logged.
AfterFailure_silent(p) == IF kind[p] = "chunk" THEN "reading" ELSE "down"

\* The handler of a chunk catches QueueFullError; those of start and end do not, and
\* none catches the RuntimeError of a closed queue.
AfterFailure(p) ==
    IF kind[p] = "chunk" /\ Current(RequesterOf[p]) \notin closed THEN "telling" ELSE "down"

\* put_nowait raises: the queue is full, or closed.
PutFails(p) ==
    LET q == Current(RequesterOf[p]) IN
    /\ pc[p] = "locking"
    /\ LockFree
    /\ RequesterOf[p] \in managed
    /\ q \in closed \/ ~HasRoom(q)
    /\ pc' = [pc EXCEPT ![p] = AfterFailure(p)]
    /\ UNCHANGED <<conn, created, managed, objVars, lockVars, sent, kind, wire>>

\* The provider got the refusal (or not: the error is logged); now the requester,
\* if it is still registered.
TellRequester(p) ==
    LET r == RequesterOf[p] IN
    /\ pc[p] = "telling"
    /\ IF conn[r] = "open" THEN Write(r, Its(p, "refused")) ELSE wire' = wire
    /\ pc' = [pc EXCEPT ![p] = "sending"]
    /\ UNCHANGED <<conn, created, managed, objVars, lockVars, sent, kind>>

\* The send to the requester's websocket returns, drained or failed.
SendReturns(p) ==
    /\ pc[p] = "sending"
    /\ Return(p)
    /\ UNCHANGED <<conn, created, managed, objVars, lockVars, sent, wire>>

\* The requester's websocket closes; then its handler unregisters the connection.
RequesterLeaves(r) ==
    /\ conn[r] # "gone"
    /\ conn' = [conn EXCEPT ![r] = IF @ = "open" THEN "closed" ELSE "gone"]
    /\ UNCHANGED <<created, managed, objVars, lockVars, handlerVars, wire>>

-----------------------------------------------------------------------------
(* The writer of q.                                                        *)

\* Mutant of WriterSends: the message is read and not taken from the queue.
WriterSends_peek(q) ==
    /\ writer[q] = "waiting" /\ queue[q] # <<>> /\ q \notin closed
    /\ conn[q[1]] = "open"
    /\ Write(q[1], Head(queue[q]))
    /\ writer' = [writer EXCEPT ![q] = "draining"]
    /\ UNCHANGED <<conn, created, managed, queue, closed, lockVars, handlerVars>>

WriterSends(q) ==
    /\ writer[q] = "waiting" /\ queue[q] # <<>> /\ q \notin closed
    /\ conn[q[1]] = "open"
    /\ Write(q[1], Head(queue[q]))
    /\ queue' = [queue EXCEPT ![q] = Tail(@)]
    /\ writer' = [writer EXCEPT ![q] = "draining"]
    /\ UNCHANGED <<conn, created, managed, closed, lockVars, handlerVars>>

\* Mutant of WriterDrained: the loop is left after one message.
WriterDrained_once(q) ==
    /\ writer[q] = "draining" /\ conn[q[1]] = "open"
    /\ writer' = [writer EXCEPT ![q] = "ended"]
    /\ UNCHANGED <<conn, created, managed, queue, closed, lockVars, handlerVars, wire>>

\* send_text returns, and the loop goes on.
WriterDrained(q) ==
    /\ writer[q] = "draining" /\ conn[q[1]] = "open"
    /\ writer' = [writer EXCEPT ![q] = "waiting"]
    /\ UNCHANGED <<conn, created, managed, queue, closed, lockVars, handlerVars, wire>>

\* send_text raises: the writer leaves its loop, and the queue stays with the manager.
WriterBreaks(q) ==
    /\ conn[q[1]] # "open" /\ q \notin closed
    /\ \/ writer[q] = "draining" /\ queue' = queue
       \/ /\ writer[q] = "waiting" /\ queue[q] # <<>>
          /\ queue' = [queue EXCEPT ![q] = Tail(@)]
    /\ writer' = [writer EXCEPT ![q] = "ended"]
    /\ UNCHANGED <<conn, created, managed, closed, lockVars, handlerVars, wire>>

\* stop() cancelled the writer, wherever it waits.
WriterCancelled(q) ==
    /\ q \in closed /\ Alive(q)
    /\ writer' = [writer EXCEPT ![q] = "ended"]
    /\ UNCHANGED <<conn, created, managed, queue, closed, lockVars, handlerVars, wire>>

-----------------------------------------------------------------------------
(* remove and shutdown of the manager.                                     *)

\* stop(), up to its wait for the writer.
StopQueue(q) ==
    /\ closed' = closed \cup {q}
    /\ victim' = {q}

\* Mutant of Remove: the lock is given back before the queue is stopped.
Remove_unlocked(r) ==
    /\ LockFree /\ r \in managed /\ created[r] < MaxQueues
    /\ managed' = managed \ {r}
    /\ closed' = closed \cup {Current(r)}
    /\ UNCHANGED <<conn, created, queue, writer, lockVars, handlerVars, wire>>

\* remove pops the queue and stops it, all under the lock.
Remove(r) ==
    /\ LockFree /\ r \in managed /\ created[r] < MaxQueues
    /\ managed' = managed \ {r}
    /\ StopQueue(Current(r))
    /\ owner' = "remove"
    /\ UNCHANGED <<conn, created, queue, writer, handlerVars, wire>>

ShutdownBegins ==
    /\ LockFree /\ \A r \in Requesters : created[r] < MaxQueues
    /\ owner' = "shutdown"
    /\ UNCHANGED <<conn, created, managed, objVars, victim, handlerVars, wire>>

\* shutdown stops the queues one after the other.
ShutdownStops(r) ==
    /\ owner = "shutdown" /\ victim = {}
    /\ r \in managed /\ Current(r) \notin closed
    /\ StopQueue(Current(r))
    /\ UNCHANGED <<conn, created, managed, queue, writer, owner, handlerVars, wire>>

\* Mutant of StopReturns: remove returns and keeps the lock.
StopReturns_keeps_lock(q) ==
    /\ q \in victim /\ ~Alive(q)
    /\ victim' = {}
    /\ UNCHANGED <<conn, created, managed, objVars, owner, handlerVars, wire>>

\* stop() returns: the writer has ended.
StopReturns(q) ==
    /\ q \in victim /\ ~Alive(q)
    /\ victim' = {}
    /\ owner' = IF owner = "remove" THEN "nobody" ELSE owner
    /\ UNCHANGED <<conn, created, managed, objVars, handlerVars, wire>>

\* All queues were stopped: _queues.clear().
ShutdownEnds ==
    /\ owner = "shutdown" /\ victim = {}
    /\ \A r \in managed : Current(r) \in closed
    /\ managed' = {}
    /\ owner' = "nobody"
    /\ UNCHANGED <<conn, created, objVars, victim, handlerVars, wire>>

-----------------------------------------------------------------------------
HandlerStep(p) == PutInNew(p) \/ PutInOld(p) \/ PutFails(p) \/ TellRequester(p) \/ SendReturns(p)

WriterStep(q) == WriterSends(q) \/ WriterDrained(q) \/ WriterBreaks(q) \/ WriterCancelled(q)

OwnerStep ==
    \/ \E r \in Requesters : ShutdownStops(r)
    \/ \E q \in Queues : StopReturns(q)
    \/ ShutdownEnds

Next ==
    \/ \E p \in Providers : ReceiveDirect(p)
    \/ \E p \in Providers, k \in Stream : ReceiveStream(p, k)
    \/ \E p \in Providers : HandlerStep(p)
    \/ \E q \in Queues : WriterStep(q)
    \/ \E r \in Requesters : RequesterLeaves(r) \/ Remove(r)
    \/ ShutdownBegins
    \/ OwnerStep

Spec == Init /\ [][Next]_vars

(***************************************************************************)
(* Fairness.  Runnable coroutines are resumed, a cancelled one ends, the   *)
(* lock is handed on first in, first out (strong fairness of the handlers, *)
(* for it is free only in between), and a send returns: the peer reads, or *)
(* the server's keep-alive closes the connection.                          *)
(***************************************************************************)
Fairness ==
    /\ \A p \in Providers : SF_vars(HandlerStep(p))
    /\ \A q \in Queues : WF_vars(WriterStep(q))
    /\ WF_vars(OwnerStep)

FairSpec == Spec /\ Fairness

-----------------------------------------------------------------------------
(* Properties.                                                             *)

\* queue.py creates a writer per queue so that one task sends what is queued for a
\* connection.  A queue that is stopped is waited for under the manager's lock, so a
\* successor never has a writer beside the old one, and no handler finds a queue of
\* the manager closed (RuntimeError).
OneWriter ==
    /\ \A q1, q2 \in Queues : q1[1] = q2[1] /\ Alive(q1) /\ Alive(q2) => q1 = q2
    /\ \A r \in managed : owner # "shutdown" => Current(r) \notin closed
    /\ \A q \in Queues : Alive(q) => q[1] \in managed \/ q \in victim

Numbers(s, p) == {s[i].n : i \in {j \in DOMAIN s : s[j].from = p}}

\* Of the messages of one provider in its stream, those in s come before those in t.
Precedes(s, t) ==
    \A i \in DOMAIN s, j \in DOMAIN t :
        (s[i].from = t[j].from /\ {s[i].kind, t[j].kind} \subseteq Stream) => s[i].n < t[j].n

Ordered(s) == \A i \in DOMAIN s : Precedes(SubSeq(s, 1, i - 1), <<s[i]>>)

\* A requester reads the messages of a stream in the order its provider sent them and
\* none twice, although refusals leave gaps, queues are replaced and the refusals
\* themselves overtake what is queued.
StreamInOrder ==
    \A r \in Requesters :
        /\ Ordered(wire[r])
        /\ r \in managed =>
             Ordered(queue[Current(r)]) /\ Precedes(wire[r], queue[Current(r)])

\* No message disappears silently: once the handler has returned, the message is
\* written, queued, or its refusal is written; or the requester's connection or queue
\* was closed.  A handler that raised (down) may have dropped its last message.
NoSilentLoss ==
    \A p \in Providers :
        LET r == RequesterOf[p] IN
        (conn[r] = "open" /\ \A q \in closed : q[1] # r) =>
            1..(IF pc[p] = "reading" THEN sent[p] ELSE sent[p] - 1)
                \subseteq Numbers(wire[r], p) \cup Numbers(queue[<<r, 1>>], p)

\* The queue the manager has for r, if it was not stopped; what a handler has in hand.
Waiting(r) ==
    IF r \in managed /\ Current(r) \notin closed THEN queue[Current(r)] ELSE <<>>

InHand(p) ==
    CASE pc[p] = "locking" -> kind[p]
      [] pc[p] = "telling" -> "refusal"
      [] pc[p] = "down"    -> "error"
      [] OTHER             -> "nothing"

Out == INSTANCE Outbox WITH
    link <- conn, pending <- [r \in Requesters |-> Waiting(r)], written <- wire,
    read <- sent, hand <- [p \in Providers |-> InHand(p)],
    stopped <- {q[1] : q \in closed}

\* Locks, writers and queues that replace one another do not show: to its two ends a
\* session is one bounded queue.  A message that was put there leaves it first in, first
\* out, or with the link or the whole queue; one that found no room has its requester
\* told or ends the provider, and no handler finds a queue closed (RuntimeError).
OutboxKept == Out!OutboxSpec

\* The provider's handler always returns to its websocket: neither the lock, held
\* while writers are cancelled, nor the requester's websocket keeps it for ever.
HandlersReturn ==
    \A p \in Providers : (pc[p] # "reading") ~> (pc[p] \in {"reading", "down"})

\* What is queued for an open connection is written, unless its queue is stopped.
QueuedIsWritten ==
    \A q \in Queues :
        (queue[q] # <<>>) ~> (queue[q] = <<>> \/ conn[q[1]] # "open" \/ q \in closed)
=============================================================================
