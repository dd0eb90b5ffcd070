---------------------------- MODULE EventStream ----------------------------
(***************************************************************************)
(* Event streaming: EventStream and EventSubscription of                   *)
(* src/events/stream.py, EventManager of src/events/manager.py, and in     *)
(* src/transport/handler.py the handlers of event.subscribe,               *)
(* event.unsubscribe and emit.event, the delivery task of each             *)
(* subscription, and the end of a connection.                              *)
(*                                                                         *)
(* Nothing is awaited under the locks of the stream and of the manager, so *)
(* they never suspend anybody: to publish, to subscribe and to unsubscribe *)
(* are single steps, with every delivery they make.  A coroutine is        *)
(* suspended only where it sends to a websocket or waits for an event.  A  *)
(* cancelled delivery task does nothing any more but close its own         *)
(* subscription, so cancel() is the end of the task.  A connection whose   *)
(* handler still waits for a reply to be sent just sends nothing more yet. *)
(*                                                                         *)
(* The prefixes of event types that event.subscribe may ask for are left   *)
(* out: the handler builds a filter from them and does not use it.         *)
(***************************************************************************)
EXTENDS Integers, Sequences, FiniteSets

CONSTANTS
    Conns,           \* registered connections
    Topics,          \* what can be subscribed to: a session, or an execution in it
    Ids,             \* subscription_id, "conn:session" or "conn:session:exec"
    NoExec,          \* the exec part of a topic that is a whole session
    Kinds,           \* the session and exec_id of events that are published
    MaxHistory,      \* max_history_per_session
    MaxQueue,        \* max_queue_size of a subscription
    MaxSubscribers,  \* max_subscribers
    MaxEvents,       \* bound: events published
    MaxSubs          \* bound: how often each id is subscribed to

ASSUME IdsAssumption == Ids \subseteq Conns \X Topics
ASSUME BoundsAssumption ==
    /\ MaxHistory \in Nat \ {0} /\ MaxQueue \in Nat \ {0}
    /\ MaxSubscribers \in Nat /\ MaxEvents \in Nat /\ MaxSubs \in [Ids -> Nat]

\* The g-th EventSubscription object made for an id.
Subs == UNION {{i} \X (1..MaxSubs[i]) : i \in Ids}

Event == [n : 1..MaxEvents, kind : Kinds]
Sessions == {k.session : k \in Kinds \cup Topics}

VARIABLES
    log,         \* the kinds of all events published so far: the n-th is event n
    history,     \* _history of the manager
    registered,  \* _subscriptions of the stream: which object an id has, or 0
    since,       \* _created_at of that object: how many events there had been by then
    made,        \* how many objects an id had so far
    connSubs,    \* _conn_subscriptions
    tasks,       \* _event_delivery_tasks: of which object the task of an id is, or 0
    task,        \* where the delivery task of an object is
    queue,       \* _queue of an object; the None of close is left out
    closed,      \* objects with _closed
    dropped,     \* objects with _events_dropped > 0
    got,         \* what an object's delivery task wrote to the websocket
    open,        \* connections whose websocket is open
    gone         \* connections whose handler has ended

subVars == <<registered, since, made, connSubs, tasks>>
objVars == <<task, queue, closed, dropped, got>>
connVars == <<open, gone>>
vars == <<log, history, subVars, objVars, connVars>>

\* A task has not run yet (new), waits in queue.get(), or waits for send_text.
TaskState == {"none", "new", "waiting", "sending", "ended"}

TypeOK ==
    /\ log \in Seq(Kinds)
    /\ history \in [Sessions -> Seq(Event)]
    /\ \A s \in Sessions : Len(history[s]) <= MaxHistory
    /\ registered \in [Ids -> Nat] /\ tasks \in [Ids -> Nat]
    /\ since \in [Ids -> Nat]
    /\ made \in [Ids -> Nat] /\ \A i \in Ids : made[i] <= MaxSubs[i]
    /\ connSubs \in [Conns -> SUBSET Ids]
    /\ task \in [Subs -> TaskState]
    /\ queue \in [Subs -> Seq(Event)] /\ \A o \in Subs : Len(queue[o]) <= MaxQueue
    /\ closed \in SUBSET Subs
    /\ dropped \in SUBSET Subs
    /\ got \in [Subs -> Seq(Event)]
    /\ open \in SUBSET Conns
    /\ gone \in SUBSET Conns

Init ==
    /\ log = <<>>
    /\ history = [s \in Sessions |-> <<>>]
    /\ registered = [i \in Ids |-> 0] /\ tasks = [i \in Ids |-> 0]
    /\ since = [i \in Ids |-> 0] /\ made = [i \in Ids |-> 0]
    /\ connSubs = [c \in Conns |-> {}]
    /\ task = [o \in Subs |-> "none"]
    /\ queue = [o \in Subs |-> <<>>]
    /\ closed = {}
    /\ dropped = {}
    /\ got = [o \in Subs |-> <<>>]
    /\ open = Conns
    /\ gone = {}

-----------------------------------------------------------------------------
(* Publishing.                                                             *)

\* EventFilter.matches, for the filters of subscribe_session and subscribe_execution.
Matches(t, k) ==
    /\ t.session = k.session
    /\ t.exec = NoExec \/ t.exec = k.exec

\* The subscribed topic, and the connection, of an object.
TopicOf(o) == o[1][2]
ConnOf(o) == o[1][1]

\* The objects in the stream.
Live == {o \in Subs : registered[o[1]] = o[2]}

\* Mutant of Trim: the oldest events are kept.
Trim_oldest(h) == SubSeq(h, 1, IF Len(h) < MaxHistory THEN Len(h) ELSE MaxHistory)

\* Mutant of Trim: one event too many is kept.
Trim_late(h) == IF Len(h) > MaxHistory + 1 THEN SubSeq(h, Len(h) - MaxHistory + 1, Len(h)) ELSE h

\* history[-max_history:]
Trim(h) == IF Len(h) > MaxHistory THEN SubSeq(h, Len(h) - MaxHistory + 1, Len(h)) ELSE h

\* deliver: an event that finds the queue full is dropped.
Publish(k) ==
    LET e == [n |-> Len(log) + 1, kind |-> k]
        To == {o \in Live : Matches(TopicOf(o), k) /\ o \notin closed}
    IN  /\ Len(log) < MaxEvents
        /\ log' = Append(log, k)
        /\ history' = [history EXCEPT ![k.session] = Trim(Append(@, e))]
        /\ queue' = [o \in Subs |->
                        IF o \in To /\ Len(queue[o]) < MaxQueue
                        THEN Append(queue[o], e) ELSE queue[o]]
        /\ dropped' = dropped \cup {o \in To : Len(queue[o]) >= MaxQueue}
        /\ UNCHANGED <<subVars, task, closed, got, connVars>>

ClearHistory(s) ==
    /\ history[s] # <<>>
    /\ history' = [history EXCEPT ![s] = <<>>]
    /\ UNCHANGED <<log, subVars, objVars, connVars>>

-----------------------------------------------------------------------------
(* The handlers.                                                           *)

\* get_session_history, delivered to the new subscription of a whole session.
Replay(t, include) == IF include /\ t.exec = NoExec THEN history[t.session] ELSE <<>>

\* Mutant of Track: the manager does not note whose subscription it is.
Track_not(c, i) == connSubs' = connSubs

Track(c, i) == connSubs' = [connSubs EXCEPT ![c] = @ \cup {i}]

\* event.subscribe.  It is refused for an id in use and at the limit of subscribers.
Subscribe(c, t, include) ==
    LET i == <<c, t>>
        o == <<i, made[i] + 1>>
    IN  /\ c \notin gone
        /\ i \in Ids /\ (include => t.exec = NoExec)
        /\ made[i] < MaxSubs[i]
        /\ registered[i] = 0
        /\ Cardinality(Live) < MaxSubscribers
        /\ registered' = [registered EXCEPT ![i] = made[i] + 1]
        /\ since' = [since EXCEPT ![i] = Len(log)]
        /\ made' = [made EXCEPT ![i] = @ + 1]
        /\ Track(c, i)
        /\ LET h == Replay(t, include) IN
             /\ queue' = [queue EXCEPT ![o] =
                            SubSeq(h, 1, IF Len(h) < MaxQueue THEN Len(h) ELSE MaxQueue)]
             /\ dropped' = IF Len(h) > MaxQueue THEN dropped \cup {o} ELSE dropped
        /\ tasks' = [tasks EXCEPT ![i] = made[i] + 1]
        /\ task' = [task EXCEPT ![o] = "new"]
        /\ UNCHANGED <<log, history, closed, got, connVars>>

\* The tasks of the objects in O end, and what these hold is garbage.
TasksEnd(O) ==
    /\ task' = [o \in Subs |-> IF o \in O THEN "ended" ELSE task[o]]
    /\ queue' = [o \in Subs |-> IF o \in O THEN <<>> ELSE queue[o]]
    /\ got' = [o \in Subs |-> IF o \in O THEN <<>> ELSE got[o]]
    /\ dropped' = dropped \ O

\* stream.unsubscribe for the ids of I, and cancel() for the tasks of those of J.
End(I, J) ==
    /\ closed' = closed \cup {o \in Live : o[1] \in I}
    /\ registered' = [i \in Ids |-> IF i \in I THEN 0 ELSE registered[i]]
    /\ since' = [i \in Ids |-> IF i \in I THEN 0 ELSE since[i]]
    /\ TasksEnd({o \in Subs : o[1] \in J /\ tasks[o[1]] = o[2]})
    /\ tasks' = [i \in Ids |-> IF i \in J THEN 0 ELSE tasks[i]]

\* Mutant of Unsubscribe: the task is cancelled and the stream keeps the subscription.
Unsubscribe_task_only(i) ==
    /\ gone # Conns
    /\ registered[i] # 0 \/ tasks[i] # 0
    /\ End({}, {i})
    /\ UNCHANGED <<log, history, made, connSubs, connVars>>

\* event.unsubscribe with a subscription_id, from whichever connection; the manager's
\* list of the subscription's connection keeps it.
Unsubscribe(i) ==
    /\ gone # Conns
    /\ registered[i] # 0 \/ tasks[i] # 0
    /\ End({i}, {i})
    /\ UNCHANGED <<log, history, made, connSubs, connVars>>

\* unsubscribe_connection, and the tasks whose id starts with the connection's.
EndAll(c) ==
    /\ End(connSubs[c], {i \in Ids : i[1] = c})
    /\ connSubs' = [connSubs EXCEPT ![c] = {}]

\* event.unsubscribe without a subscription_id.
UnsubscribeAll(c) ==
    /\ c \notin gone
    /\ connSubs[c] # {} \/ \E i \in Ids : i[1] = c /\ tasks[i] # 0
    /\ EndAll(c)
    /\ UNCHANGED <<log, history, made, connVars>>

\* The connection's loop ends: its websocket is closed, or the handler of emit.event
\* raised (it asks the registry for get_by_conn_id, which there is not).
Leave(c) ==
    /\ c \notin gone
    /\ EndAll(c)
    /\ gone' = gone \cup {c}
    /\ open' = open \ {c}
    /\ UNCHANGED <<log, history, made>>

Disconnected(c) == c \notin open /\ Leave(c)

EmitEvent(c) == c \in open /\ Leave(c)

CloseSocket(c) ==
    /\ c \in open
    /\ open' = open \ {c}
    /\ UNCHANGED <<log, history, subVars, objVars, gone>>

\* EventManager.close: the delivery tasks find out by themselves.
CloseManager ==
    /\ Live # {}
    /\ closed' = closed \cup Live
    /\ registered' = [i \in Ids |-> 0] /\ since' = [i \in Ids |-> 0]
    /\ history' = [s \in Sessions |-> <<>>]
    /\ connSubs' = [c \in Conns |-> {}]
    /\ UNCHANGED <<log, made, tasks, task, queue, dropped, got, connVars>>

-----------------------------------------------------------------------------
(* The delivery task of o.                                                 *)

\* The next event is taken and written; an error of the websocket is only logged.
Take(o) ==
    /\ queue' = [queue EXCEPT ![o] = Tail(@)]
    /\ got' = IF ConnOf(o) \in open THEN [got EXCEPT ![o] = Append(@, Head(queue[o]))] ELSE got
    /\ task' = [task EXCEPT ![o] = "sending"]
    /\ UNCHANGED dropped

Waits(o) == task' = [task EXCEPT ![o] = "waiting"] /\ UNCHANGED <<queue, got, dropped>>

\* __aiter__: the loop is entered, or resumed when a send has returned.
Loop(o) ==
    /\ task[o] \in {"new", "sending"}
    /\ \/ o \in closed /\ TasksEnd({o})
       \/ o \notin closed /\ queue[o] = <<>> /\ Waits(o)
       \/ o \notin closed /\ queue[o] # <<>> /\ Take(o)
    /\ UNCHANGED <<log, history, subVars, closed, connVars>>

\* Mutant of Wake: close() leaves no None for the task that waits.
Wake_not_by_close(o) ==
    /\ task[o] = "waiting"
    /\ queue[o] # <<>> /\ Take(o)
    /\ UNCHANGED <<log, history, subVars, closed, connVars>>

\* queue.get() returns an event, even when the subscription was closed meanwhile, or
\* the None of close().
Wake(o) ==
    /\ task[o] = "waiting"
    /\ \/ queue[o] # <<>> /\ Take(o)
       \/ queue[o] = <<>> /\ o \in closed /\ TasksEnd({o})
    /\ UNCHANGED <<log, history, subVars, closed, connVars>>

-----------------------------------------------------------------------------
TaskStep(o) == Loop(o) \/ Wake(o)

Next ==
    \/ \E k \in Kinds : Publish(k)
    \/ \E s \in Sessions : ClearHistory(s)
    \/ \E c \in Conns, t \in Topics, include \in BOOLEAN : Subscribe(c, t, include)
    \/ \E i \in Ids : Unsubscribe(i)
    \/ \E c \in Conns : UnsubscribeAll(c) \/ EmitEvent(c) \/ CloseSocket(c) \/ Disconnected(c)
    \/ \E o \in Subs : TaskStep(o)
    \/ CloseManager

Spec == Init /\ [][Next]_vars

(***************************************************************************)
(* Fairness.  Runnable coroutines are resumed and a send returns, because  *)
(* the peer reads or the server's keep-alive closes the connection; what   *)
(* connections and publishers do is free.                                  *)
(***************************************************************************)
FairSpec == Spec /\ \A o \in Subs : WF_vars(TaskStep(o))

-----------------------------------------------------------------------------
(* Properties.                                                             *)

\* What o wrote and will write.
Stream(o) == got[o] \o queue[o]

\* History is replayed into a queue that live events reach as well: a subscriber gets
\* only events of its topic, in order and none twice, and as long as its queue was never
\* full and its websocket is open, all of them: those published since it subscribed, and
\* those that follow the earliest one that was replayed.
InOrderNoGap ==
    /\ \A o \in Subs : \A i \in DOMAIN Stream(o) :
         /\ Stream(o)[i].n \in DOMAIN log
         /\ Stream(o)[i].kind = log[Stream(o)[i].n]
         /\ Matches(TopicOf(o), Stream(o)[i].kind)
         /\ \A j \in DOMAIN Stream(o) : i < j => Stream(o)[i].n < Stream(o)[j].n
    /\ \A o \in Live \ dropped : ConnOf(o) \in open =>
         \A n \in DOMAIN log :
            /\ Matches(TopicOf(o), log[n])
            /\ n > since[o[1]] \/ \E i \in DOMAIN Stream(o) : Stream(o)[i].n < n
            => \E i \in DOMAIN Stream(o) : Stream(o)[i].n = n

\* A subscription in the stream whose task had ended would fill up and drop events for
\* ever, as nothing else removes it: while it is registered, its own delivery task
\* runs and is the one that cancel() will find.
ServedByTask ==
    \A o \in Live :
        /\ o \notin closed
        /\ task[o] \in {"new", "waiting", "sending"}
        /\ tasks[o[1]] = o[2]

\* The manager, the stream and the handler each keep their own record of whose
\* subscriptions there are; none of the three has anything left of a connection that
\* is gone, and none of its tasks runs.
NoLeftovers ==
    \A o \in Subs : ConnOf(o) \in gone =>
        /\ o \notin Live
        /\ connSubs[ConnOf(o)] = {}
        /\ task[o] \in {"new", "waiting", "sending"} => o \in closed

\* A delivery task gets round to the events in its queue, and it ends when its
\* subscription is closed, even by EventManager.close, which cancels no task.
QueuesDrain ==
    \A o \in Subs :
        queue[o] # <<>> \/ o \in closed
           ~> (queue[o] = <<>> /\ o \notin closed) \/ task[o] = "ended"

=============================================================================
