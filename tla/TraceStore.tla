----------------------------- MODULE TraceStore -----------------------------
(***************************************************************************)
(* The trace of what happened on the bus (src/trace/store.py,              *)
(* SemanticTraceStore) and the trace.get handler that reads it             *)
(* (src/transport/handler.py).                                             *)
(*                                                                         *)
(* One log per session, and one for the events without a session; a log    *)
(* that has grown past MaxEvents loses its oldest tenth.  A second index   *)
(* keeps, per exec_id, the positions of its events in those logs.          *)
(*                                                                         *)
(* append and the queries await nothing, so that they are atomic.  Of an   *)
(* event only its context is kept, and which of its session's events it    *)
(* is.  Handlers call append, never append_async: nothing is persisted.    *)
(***************************************************************************)
EXTENDS Integers, Sequences, FiniteSets

CONSTANTS
    Sessions,     \* ephemeral_interface_id of the sessions
    Execs,        \* exec_id of the executions
    NoExec,       \* the exec_id of events that have none, or an empty one
    NoSession,    \* stands for the log of the events without a session
    MaxEvents,    \* max_events_per_session
    MaxTail,      \* the most events that trace.get asks a query for
    MaxAppended   \* bound: how many events are appended to each log

Logs == Sessions \cup {NoSession}

\* The store is made for 10000 events; below 10, nothing would ever be evicted.
ASSUME TraceAssumption ==
    /\ MaxEvents \in Nat /\ MaxEvents >= 10
    /\ MaxTail \in Nat \ {0}
    /\ NoExec \notin Execs /\ NoSession \notin Sessions
    /\ MaxAppended \in [Logs -> Nat]

VARIABLES
    log,       \* _by_session, and _global under NoSession
    by_exec,   \* _by_exec: per execution, pairs of a session and a position
    appended   \* how many events were appended to each log

traceVars == <<log, by_exec, appended>>

\* What is kept of an event: its context, and which of its log's events it is.
Event == [session : Logs, number : Nat, exec : Execs \cup {NoExec}]

TraceInit ==
    /\ log = [s \in Logs |-> <<>>]
    /\ by_exec = [e \in Execs |-> <<>>]
    /\ appended = [s \in Logs |-> 0]

-----------------------------------------------------------------------------
(* Appending.                                                              *)

\* Mutant of Evict: the newest events go.
Evict_newest(events) ==
    IF Len(events) > MaxEvents
    THEN SubSeq(events, 1, Len(events) - MaxEvents \div 10)
    ELSE events

\* Past the limit, the oldest tenth is deleted.
Evict(events) ==
    IF Len(events) > MaxEvents
    THEN SubSeq(events, (MaxEvents \div 10) + 1, Len(events))
    ELSE events

\* Mutant of Position: where the event would be if it had been appended before.
Position_after(s) == Len(log[s]) + 1

\* The position, from 0, that the index keeps of the next event of a session.
Position(s) == Len(log[s])

\* append, of an event of the log s and the execution e.  Eviction does not touch
\* the positions that the index keeps.
AppendEvent(s, e) ==
    /\ appended[s] < MaxAppended[s]
    /\ appended' = [appended EXCEPT ![s] = @ + 1]
    /\ log' = [log EXCEPT ![s] =
                 Evict(Append(@, [session |-> s, number |-> appended[s] + 1, exec |-> e]))]
    /\ by_exec' = IF s \in Sessions /\ e \in Execs
                  THEN [by_exec EXCEPT ![e] = Append(@, [session |-> s, idx |-> Position(s)])]
                  ELSE by_exec

\* What the handlers record of agents, of negotiations (and of results that name no
\* execution), and of executions and their streams.
RecordAgent == AppendEvent(NoSession, NoExec)

RecordSession == \E s \in Sessions : AppendEvent(s, NoExec)

RecordExec == \E s \in Sessions, e \in Execs : AppendEvent(s, e)

TraceNext == RecordAgent \/ RecordSession \/ RecordExec

TraceSpec == TraceInit /\ [][TraceNext]_traceVars

-----------------------------------------------------------------------------
(* Queries.                                                                *)

\* events[-tail:].  Python reads -0 as 0, and counts a negative tail from the front.
LastOf(events, tail) ==
    IF tail > 0
    THEN SubSeq(events, (IF tail < Len(events) THEN Len(events) - tail ELSE 0) + 1, Len(events))
    ELSE SubSeq(events, 1 - tail, Len(events))

Answer(events, tail) == [events |-> LastOf(events, tail), truncated |-> Len(events) > tail]

\* The k-th of the positions in I, and the elements of s at these.
Nth(I, k) == CHOOSE i \in I : Cardinality({j \in I : j <= i}) = k

Pick(s, I) == [k \in 1..Cardinality(I) |-> s[Nth(I, k)]]

\* The events of an execution in some events.
OfExec(events, e) == Pick(events, {i \in DOMAIN events : events[i].exec = e})

\* get_by_session and get_global.
GetBySession(s, e, tail) == Answer(IF e = NoExec THEN log[s] ELSE OfExec(log[s], e), tail)

\* get_by_exec: what is now at the positions of the index, if anything is.
GetByExec(e, tail) ==
    LET all  == by_exec[e]
        refs == Pick(all, {i \in DOMAIN all : all[i].idx < Len(log[all[i].session])})
    IN  Answer([i \in DOMAIN refs |-> log[refs[i].session][refs[i].idx + 1]], tail)

\* _handle_trace_get, with the session and the execution that a message names.
TraceGet(s, e, tail) ==
    LET most == IF tail < MaxTail THEN tail ELSE MaxTail
    IN  IF s = NoSession /\ e # NoExec THEN GetByExec(e, most) ELSE GetBySession(s, e, most)

-----------------------------------------------------------------------------
(* Properties.                                                             *)

\* A session's trace has no hole and ends with the newest event: whatever was evicted
\* in between, trace.get answers the last events that were appended, in order, as
\* many as were asked for and are kept, and says truthfully whether more are kept.
SessionAnswers ==
    \A s \in Logs, tail \in 1..(MaxTail + 1) :
        LET answer == TraceGet(s, NoExec, tail)
            most   == IF tail < MaxTail THEN tail ELSE MaxTail
            kept   == Len(log[s])
        IN  /\ Len(answer.events) = (IF kept < most THEN kept ELSE most)
            /\ \A i \in DOMAIN answer.events :
                  answer.events[i].number = appended[s] - Len(answer.events) + i
            /\ answer.truncated <=> kept > most
            /\ kept = appended[s] \/ kept > MaxEvents - MaxEvents \div 10

\* The index by execution is right about every session from which nothing has been
\* evicted yet, whatever happened to the other sessions: of that session it finds only
\* events of the execution, each that the session's own log has, once and in order.
ExecAnswers ==
    \A e \in Execs, s \in Sessions :
        LET found == GetByExec(e, Len(by_exec[e]) + 1).events
        IN  Len(log[s]) = appended[s] =>
              /\ \A i \in DOMAIN found : found[i].session = s =>
                    /\ found[i].exec = e
                    /\ found[i].number \in DOMAIN log[s] /\ found[i] = log[s][found[i].number]
                    /\ \A j \in DOMAIN found : i < j /\ found[j].session = s
                          => found[i].number < found[j].number
              /\ \A n \in DOMAIN log[s] : log[s][n].exec = e
                    => \E i \in DOMAIN found : found[i] = log[s][n]

=============================================================================
