# The Semantic Bus in TLA+

TLA+ models of the Semantic Bus, an asyncio server that agents reach over WebSockets: they register, one of them
broadcasts an intent, the bus plans which agents should serve it, collects their offers, and opens an ephemeral session
once the requester agrees; the providers then stream their results to it. Paths below are relative to the repository; the
Python package is `src/`.

The bus runs in one process, on one event loop. A step of a model is what happens between two points where a coroutine
may be suspended, so interleavings are those of coroutines, and what an `asyncio.Lock` protects is one step unless the
code awaits something while it holds the lock. Of what is kept in Redis or in a database, several processes share the
state; there a step is one command or one transaction's query or commit.

## The system

| Part | State | Operations | Interacts with |
|---|---|---|---|
| Task queue (`queue/ports.py`, `memory.py`) | a heap of items, tasks, their status, results, two indexes | enqueue, dequeue (waits), complete, fail, cancel, clear_expired, shutdown | callers, workers |
| Worker pool (`queue/worker.py`) | worker coroutines, a shutdown event | start, stop (with a timeout), the worker loop | the queue, an executor |
| Agent registry (`registry/`) | entries by connection, connection by agent, websockets | register, unregister, heartbeat, cleanup of silent agents | handler, view registry |
| View registry (`schema/view_registry.py`) | schemas by agent, agents by capability | register and unregister schemas | registry |
| Connection handler (`transport/handler.py`) | a coroutine per connection | one handler per message type, one message at a time | all of the others |
| Sessions (`session/`) | status, offers, flow, lifetime | create, add_offer, set_flow_info, close, expiry | handler |
| Router and flow planner (`routing/`, `orchestration/`) | none (a cache) | find_agent_flow, route_to_agent | registry, a language model |
| Connection queues (`transport/queue.py`) | a bounded queue and a writer task per connection, a manager with a lock | get_or_create, put_nowait, the writer loop, remove, shutdown | streaming handlers |
| Events (`events/`) | subscriptions with bounded queues, history, three records of who subscribed | publish, subscribe, unsubscribe, delivery tasks, close | handler |
| Trace store (`trace/store.py`) | bounded logs, an index by execution | append with eviction, queries | handler (`trace.get`) |
| Storage (`storage/`) | records behind ports; in memory, Redis, SQL | put_if_absent, set_status, expire_... | no handler calls it |
| Redis queue (`queue/redis_queue.py`) | streams, a sorted set of delayed tasks, hashes, status keys | as the task queue | callers, workers of any process |
| Other queues (`queue/kafka_queue.py`, ...) | in a broker | as the task queue | callers, workers |
| Policy engine (`policy/engine.py`) | a list of policies | evaluate | not called by a handler |

What is hard here: suspension while a lock is held (registry), waits that are woken for nothing or not at all (queue), a
handler that blocks its own connection while it waits for others (negotiation), a writer that is stopped while another is
wanted (streaming), delivery tasks that outlive their subscription (events), crashes and expiry between two commands
(Redis), commands that fail one by one and errors that are swallowed (Redis), stale entries that outlive what they refer to (heap items, replaced connections, ended sessions, index
positions), time limits that race late answers (stop, heartbeat, offers, TTLs). `PROJECT.json` lists these under "hazards", each at its line, with the properties that would notice.

What makes each part correct:

- queue and pool: no task is lost, duplicated or run twice at a time; ends are final; order is by priority and age; the
  number of attempts is bounded; pending tasks are served; `stop` returns;
- registry: the indexes agree in every state; a connection's end does not take away another's registration; silent and
  closed connections disappear;
- negotiation: a session becomes ACTIVE only from a completed flow; the wait for offers ends; open sessions end in time;
- streaming: one writer per connection; a stream's messages arrive in order; none vanishes without a refusal; a slow or
  closed requester stops no provider for ever;
- events: a subscriber gets its topic's events in order and without a gap, replay included, until its queue was full; a
  registered subscription has its delivery task; a connection leaves nothing behind;
- Redis queue: a task that is enqueued is executed. The file promises "reliable task delivery", and the code does not keep
  it, not even when nothing fails (the run `redis_reliable`); what can be shown is which steps lose a task or execute it twice, and
  that no others do, above all no fault while delayed tasks are moved;
- stores: a trace has no hole whatever was evicted; `put_if_absent` is idempotent; updates are kept.

## Modules

| Module | Models | Proofs | Instance |
|---|---|---|---|
| `TaskLifecycle` | what `TaskQueue` (ports.py) promises: the life of a task | | |
| `AgentDirectory` | what `AgentRegistry` promises those who look agents up | | |
| `Outbox` | what the connection queues and the streaming handlers promise the two ends of a session | | |
| `ExecPort` | what `ExecStore` (storage/ports.py) promises: a call looks and acts at one moment | | |
| `TaskQueue` | `InMemoryTaskQueue` and `TaskWorker` | `TaskQueueProofs` | `MCTaskQueue` |
| `AgentRegistry` | `AgentRegistry`, `ViewRegistry`, the life of connections | `AgentRegistryProofs` | `MCAgentRegistry` |
| `Negotiation` | sessions and the handlers of `intent.*`, `session.close`, `exec.request` | `NegotiationProofs` | `MCNegotiation` |
| `Streaming` | connection queues, their manager, the handlers of `exec.*` and `exec.stream.*` | `StreamingProofs` | `MCStreaming` |
| `EventStream` | `EventStream`, `EventSubscription`, `EventManager` and the handlers of `event.*` | `EventStreamProofs` | `MCEventStream` |
| `RedisTaskQueue` | `RedisTaskQueue` with its workers | `RedisTaskQueueProofs` | `MCRedisTaskQueue` |
| `TraceStore` | `SemanticTraceStore` and the handler of `trace.get` | `TraceStoreProofs` | `MCStores` |
| `ExecStore` | `put_if_absent` and `set_status` of `ExecStore` in memory, SQL and Redis | `ExecStoreProofs` | `MCStores` |

`PROJECT.json` maps every definition to its lines. Operators named `X_something`, placed before `X`, are variants of `X`
with a plausible mistake; they are not part of any specification and serve to see that a property would notice.

### TaskQueue

`heap` is the set of items in `_heap` (ordered by `Before`, the fields `PriorityItem` compares; ties may come out either
way, as `heapq` promises no order), `tasks`, `status`, `results`, `retry_count` and `indexed` the dictionaries. `pc` says
where a worker coroutine is: `idle` (about to call `dequeue`), `waiting` on the condition, `woken`, `executing`, `spin`, or
`off`. `Claim` and `FindNothing` are the two outcomes of the loop in `_find_next_visible`, with everything it does to the
items it passes: it drops stale ones, expires old ones and puts delayed and foreign ones back. Time appears as `visible`
and `elapsed`, the outcomes of the only two comparisons with the clock. The back-off is left out beyond that: a
retried item is invisible until `DelayElapses`.

`Spin`: once the queue is closed, `dequeue` returns without yielding and the worker loop calls it again; from then on no
other coroutine runs. `~Hung` guards all other steps for this reason. Cancellation by `stop`'s timeout is `StopTimeout`:
workers return, and what they executed stays PROCESSING.

`TaskLifecycle` is the abstract specification: a task is new, queued, taken, done, failed or dropped, with the number of
its attempts. `Lifecycle` in `TaskQueue` instantiates it with a refinement mapping (status to stage; an attempt
counts from the moment the task is taken). The Redis queue does not implement it (see there).

### AgentRegistry

A connection is `new`, `registering` (it waits for the lock), `live` (in its message loop) or `gone`. `open` is the
websocket as both sides can see it. The lock is held across a suspension in two places, and `Free` says that it is not:
`CloseOld` .. `Replace` is the registration of an agent that is already connected (`replacing`), `Cleanup` ..
`CleanupOne` the removal of silent agents (`dead`). `Remove` and `Add` are functions on the indexes because `register`
does one after the other. A record that fails to validate (`valid = FALSE`) is refused after the old one was removed.

`AgentDirectory` is the abstract specification: a connection is new, in or out, an agent has at most one, and all lookups (by
agent, by connection, by capability) change at one moment. `Directory` instantiates it: a connection that waits for the
lock is still new, whatever was closed on its behalf.

### Negotiation

A session is identified with the `intent.broadcast` that creates it. `job` is the handler of the broadcast: `planning`
while the planner is asked, `collecting` while `intent.deliver` goes out (`todo`) and offers are polled for, then `ended`.
`attached` are the broadcasts whose handler still blocks an open connection: its agent then `Reads` nothing else. `answer`
is what the requester got. The planner is external and chooses any member of `Plans`, none (NO_AGENTS), or never
answers; its flows have no duplicates (`discover_flow` removes them), hence `flow` is a set; ids that are no UUID
raise (`DeliverRaises`). `late` is the outcome of `is_expired` for the present status. `ExecRequest`: a valid `exec.request`
calls `_execute_agent_flow` with a parameter it does not have (handler.py:985); the TypeError ends the requester's connection. `exec.result` and its kin are refused by the validation (the provider is set to the bus itself) and
change nothing.

### Streaming

A queue object is a pair of its connection and its number: the manager replaces the queue of a connection, and the old
object's writer may still be in a send. `pc` says where a provider's handler is (`reading` the next message, `locking` for
`get_or_create`, `telling` its own websocket that a chunk is refused, `sending` to the requester, `down` after an
exception); `writer` where an object's writer is, `waiting` on the queue or `draining` the transport after a send; `owner`
and `victim` who holds the manager's lock while it waits for which writer to stop. A send writes at once and then waits, so
`wire` grows when the send begins. `stream.start` and `.end` (`mark`) let a full queue's error through and end the sender's
connection, a chunk is refused. What the code leaves undone shows in the model: no handler calls `remove`, and
`shutdown` is called when the application stops (both are free actions), a writer whose send fails ends and leaves the queue with the manager.

`Outbox` is the abstract specification: per requester one bounded queue before its websocket, per provider the one message
in its handler's hand. The lock, the writers, the succession of queue objects and the time that a send takes are gone; `Out`
instantiates it, with the queue that the manager has and nobody stopped for `pending` (`Waiting`) and what a handler that
waits, refuses or has raised still holds for `hand` (`InHand`). A queue is lost at the moment it is stopped.

### EventStream

A subscription object is a pair of its id and its number, for an id can be subscribed to again. `registered` is the stream's
record, `connSubs` the manager's, `tasks` the handler's, and the three are updated by different handlers. Nothing is awaited
under the locks, so publishing with all of its deliveries is one step, as are subscribing with the replay of the
history and unsubscribing. A delivery task is `new`, `waiting` in `queue.get`, `sending`, or `ended`. `EventManager.close`
closes the subscriptions and cancels no task. `since` is when a subscription was made: what was published later, and what
was replayed, is what it must get. Nothing in the code publishes but `emit.event`, and its handler asks the
registry for `get_by_conn_id`, which the registry does not have: as deployed the message ends its connection. `Publish`
is the manager's method, called by anybody. The type prefixes a subscriber may send are turned into a filter that is
not used, and are left out.

### RedisTaskQueue

`unread` holds, per priority, the entries behind the consumer group's cursor, `delayed` the sorted set and `due` those of
its members whose time has come, `stored` the hashes. `pc` walks a worker through `dequeue`: the due tasks it has read
(`todo`) are moved one by one with an XADD and a ZREM, then each stream is read in the order of priority. Several facts of the code
decide what the properties can say: an entry of another tenant is passed over and lost, although `tenant_id` is an "optional
filter" to ports.py; nothing ever reclaims the pending entries of a worker that is gone, nor does `complete` or `fail`
acknowledge one, because the message id is looked up where `dequeue` did not store it; `dequeue` does not look at the
status, so that a cancelled entry is executed; a ZREM that comes late removes a retry that was scheduled meanwhile.

A `Fault` may fall between any two commands: the process crashes, `stop` cancels the worker (`CancelledError` passes every
`except Exception`), or a command raises, before or after it took effect. Where it leads depends on the place. Outside the
`try` of `dequeue`, and in `fail`, only the worker's loop catches it, and the worker lets go of everything (`Cut`, `FailCut`).
From XREADGROUP on, `dequeue` logs the error and goes on with the next priority, with the entry already read
(`Swallow`). When `complete` raises, which a result that is no JSON makes it do without any fault, the worker takes it for a failure
of the task and calls `fail`: if the status had been set, a completed task is scheduled again (`CompleteRaises`). Callers see the
errors of `enqueue` and `cancel` (`EnqueueCut`, `CancelCut`).

`LossesExplained` and `DuplicatesOnlyByMove` name all steps that lose a task or add a copy of one. The first is an account
of what the code does and no promise; the promise is `NothingStranded`, which is violated. `TaskLifecycle`
is not implemented here: two workers move a due task twice, a fault loses the task in hand or has it moved again, a cancelled
entry is executed, and a completed task whose `complete` raised is retried.

### TraceStore and ExecStore

`TraceStore`: `log` is what is kept of each session (and of the events without one), `by_exec` the positions that the index
remembers. Eviction drops the oldest tenth of a log and leaves the index alone, so that afterwards the index answers other
events or none; `ExecAnswers` therefore speaks of sessions that have lost nothing. A `max_events_per_session` below ten
evicts nothing (a tenth of it is zero), which the assumption excludes; a tail of zero answers everything
(`LastOf`). The queries are operators, since they change nothing; a selection is a function on positions (`Nth` is the
position of the n-th event of a kind, `Pick` the events at such positions).

`ExecStore`: the three implementations of one port in one module; `adapter` says which is configured. In memory a call is a
step under a lock; in SQL a query and a commit, with the unique constraints deciding at the commit; in Redis each
command is a step, keys and records expire, and clients crash in between. `before` is auxiliary: what had been answered when a
call began, so that `Idempotent` can speak of calls that follow each other. Idempotency keys are global in memory and in SQL
and per session in Redis; with one session there is no difference. `ExecPort` is the abstract specification, and `Port`
instantiates it; in Redis, where two calls of one key may both create, it is not kept.

## Runs

| Run | Instance | Shows |
|---|---|---|
| `queue` | 3 tasks (2 priorities, 2 tenants), 2 workers serving one tenant, 1 retry, capacity 2 | all properties of the queue; 103,486 states |
| `queue_shutdown` | 2 tasks | fails: `shutdown` while a worker is idle hangs the event loop, in-flight tasks never end |
| `queue_capacity` | 2 tasks | fails: ended tasks count against `max_size` for ever |
| `registry` | 3 connections of one agent with different schemas, 1 of another | all properties of the registry, and that it implements `AgentDirectory`; 7,405 states |
| `negotiation` | 3 agents, 2 broadcasts aimed at each other, one agent may offer twice | all properties of the negotiation; 167,892 states |
| `session_reopened` | the same | fails: `intent.agree` revives a closed or expired session |
| `partial_offers` | the same | fails: NO_OFFERS is sent although offers came in |
| `streaming` | 2 providers with 2 and 1 messages, 1 requester, queues of 1 message, 2 queues one after the other | all properties of streaming, and that it implements `Outbox`; 69,612 states |
| `events` | 2 connections, a session topic subscribed to twice and an execution topic, 2 events, history and queues of 1 | all properties of events; 141,194 states |
| `redis_queue` | 2 workers, a served and a foreign task, 1 retry, 1 cancellation, 1 fault | what loses and what duplicates a task; 1,227,313 states |
| `redis_reliable` | 2 workers, 1 served task, 1 retry, no fault, no cancellation | fails: the ZREM of a worker that moved the task removes its retry, and it is lost |
| `stores` | a log of 10 that overflows twice and two others; 3 puts (one repeated, one of the same key), 2 updates, 2 faults, 3 adapters | all properties of the stores, and that `ExecStore` implements `ExecPort` in memory and in SQL; 212,795 states |

The failing runs state what a comment, docstring or the project's README says; "findings" in `PROJECT.json` quotes it.

Bounds, and why they are enough. Two workers are the least that can compete; with three tasks one can run, one wait
and one be refused for lack of room, and one is of a tenant the pool does not serve. One retry separates first,
last and refused attempts. Three connections of an agent allow a replacement while the replaced one has not left and the
next one waits. Two broadcasts are the least that wait for each other, and one flow of two agents the least with partial
offers; `MaxOffers` is the only bound on a counter that the code leaves unbounded: an agent of the flow of two may send a
second offer, which stands in for the other's first. A queue of one message is full as soon as a writer is slow; two messages of one provider are
the least that have an order, and two queues the least where one replaces the other (the last is not removed). History and
subscription queues of one overflow with the second event; the second subscription of an id meets the delivery task of the
first. On Redis, two workers are the least that read the same due task, and with one retry and one cancellation a late ZREM
finds a retry to remove, and one fault may fall at any command; the urgent task is the foreign one, so that passing over it is followed by a read of the next
stream. Twelve events evict twice from a log of ten. Two faults let a record and its key expire, or one of them and a client
crash. Counters that the code leaves unbounded are bounded in the guards: `Messages`, `MaxQueues`, `MaxEvents` and
`MaxSubs`, `MaxAppended`, `MaxFaults`. Only `redis_queue`, which checks no liveness, uses symmetry (of the
two workers). `stores` checks two modules that share nothing; a behaviour uses one of them, which `used` chooses at the
start.

Deadlock is checked for the negotiation. It is not for the queue, which may stop for good (`Spin`, or everything ended),
nor for the registry and the others, where all connections may be gone, all calls answered and all bounds reached.

Fairness. Queue: the event loop resumes runnable coroutines, each wait is bounded by `poll_interval`, delays pass and the
executor returns or raises, but only while nothing spins; callers, `stop` and TTLs are free. Registry: a close returns; the
cleanup and the end of a handler get the lock in turn, which is strong fairness because the lock is free only in between
(`asyncio.Lock` is first in, first out). Negotiation: the handler of a broadcast goes on through its bounded polls, and
the cleanup task runs; agents, connections and the planner are free. Streaming: runnable coroutines are resumed, a
cancelled one ends, a send returns (the peer reads, or the server's keep-alive closes the connection), and the lock is
handed on in turn, hence strong fairness of the handlers; messages, `remove`, `shutdown` and the ends of connections are
free. Events: a delivery task that can go on does; all else is free. The Redis queue and the stores state no fairness:
nothing in them is promised to happen.

Properties that only the runs check: `PendingIsServed`, `StopReturns`, `SilentAgentsGo`, `ClosedConnsGo`, `FlowEnds`,
`LateSessionsEnd`, `HandlersReturn`, `QueuedIsWritten` and `QueuesDrain`. They are liveness under fairness, which is outside
the prover's reach. Every invariant and every action property of the passing runs is a theorem.

## Proofs

All of it holds for every value of the constants that satisfies the named assumptions (functions of the right type, natural
numbers as bounds, a "none" value outside its set, finite plans).

- `QueueSafe`: `TypeOK`, `NoLostTask`, `OneWorkerPerTask`, `ViewsAgree`. The inductive invariant is their conjunction
  with `PoolConsistent`; none is inductive alone. That a claim takes a task from no other worker needs that a running task has
  no item in the heap; that completing it leaves no item behind needs that it was PROCESSING; that a restarted pool holds
  nothing needs that a stopped one does not. `DequeueEffect` and `OtherEffect` say what a step can do to a task's status and
  serve the theorems below.
- `QueueImplementsLifecycle`: every step maps to a step of `TaskLifecycle` or to none (`LifecycleKept`).
- `EndsAreFinal`, `ClaimsInOrder`, `OrphansByTimeout`: the action properties `EndedStaysEnded`, `NoOvertaking`,
  `OrphansOnlyByStopTimeout`.
- `RegistrySafe`: `TypeOK`, `IndexesInverse`, `FollowsRegistration`, `OfflineOnlyInCleanup`. The invariant adds that keys
  lead to connections of their own agent (`OwnKeys`), that entries belong to live handlers (`LiveEntries`), and what the
  suspended holder of the lock relies on when it resumes (`LockHolder`). `_remove_agent` pops the agent's key without asking
  which connection it points to; that this is right is what `IndexesInverse` is needed for.
- `EntriesEndThemselves`: the action property `OnlyOwnEnd`.
- `RegistryImplementsDirectory`: every step maps to a step of `AgentDirectory` or to none (`DirectoryKept`). `NextLookups`
  derives the answers of all lookups from the agents' connections in the new state; a replacement is one step of the
  directory, at the end of the suspended registration, because `LockHolder` and `IndexesInverse` keep the old entry in
  place until then. It implies `IndexesInverse`, which the run therefore does not check once more.
- `NegotiationSafe`: `TypeOK` and `ActiveOnlyIfComplete`, with `FlowInv`: what is known of a session in each phase of its
  broadcast, and that what was aggregated had an offer of every agent of the flow or two of one. The handler compares
  numbers only. That they suffice is `CountIsEnough`: until the requester is answered only agents of the flow know the
  session, and if none of them offered twice, offers map to their senders one to one. Offers are only ever added, which
  is why this still holds when the requester agrees later.
- `StreamingSafe`: `TypeOK`, `OneWriter`, `StreamInOrder`, `NoSilentLoss`. `QueuesInv` says which of a connection's queues
  is in use: the latest one, kept by the manager or being stopped under the lock, all others closed. Then `get_or_create` makes
  a new queue only when no writer is left. `OrderInv` bounds the numbers of queued and written messages by what was read, so
  that the next message comes last; `KeptInv` follows a message from its handler to the queue and the wire. `NoSilentLoss` has
  no run of its own: `Outbox` promises more: there a message leaves the queue only for the wire, or with its link or the whole queue.
- `StreamingImplementsOutbox`: every step maps to a step of `Outbox` or to none (`OutboxKept`). A new queue object continues
  the empty `pending` because `QueuesInv` says that no queue beyond the latest was ever used; whoever has got the lock finds
  the manager's queue open, so that `put_nowait` fails for lack of room only; and the queue of a writer that still sends is the
  one that waits. `HandInv` adds that a handler waits for the lock only with a message of a stream.
- `EventStreamSafe`: `TypeOK`, `ServedByTask`, `NoLeftovers`, by `RecordsInv`: a registered subscription is known to the
  handler's tasks and to the manager, is not closed, and a running task without a registered subscription is of a closed one.
- `StreamsInOrder`: `InOrderNoGap`. `HistoryInv` says that the history is the newest part of what was published, in order;
  `StreamsInv` that what a subscription was sent and still has queued are, together, events of its topic in order, the
  replayed ones first, and all of those published since (`since`) unless its queue was full.
- `RedisTypes`, `RedisLosses`, `RedisDuplicates`: `TypeOK` and the action properties `LossesExplained` (from the types alone,
  step by step: `NothingTaken` for the steps that take nothing from anywhere, `PutDown` and `FaultSafe` for a worker that lets go) and `DuplicatesOnlyByMove`, for which `FreshInv` is needed: the entries of a stream are of its priority, and
  a task that is being enqueued is nowhere yet. Copies are counted, so facts about cardinalities carry the proof.
- `ExecStoreSafe`: `Idempotent`, `OneRecordPerKey` (no run of its own, `PortKept` breaks if it does), `UpdatesKept`. All
  rest on what only grows (`Grown`): what was recorded once is there or has expired, and a key that once led to a record
  does or has expired. `Position` and `Allows` say what a put of Redis knows at each command: once it goes on to insert, an
  earlier answer that would forbid it is excused by something that has expired.
- `StoresImplementPort`: in memory and in SQL every step maps to a step of `ExecPort` or to none (`PortKept`). A call of SQL
  takes effect at its commit, or at its queries when they find the record (`FoundMatches`): `OneRecordPerKey` is what makes
  the record found by key the only one.
- `TraceSafe`: `SessionAnswers`. The events of a log are consecutive up to the newest one, and the log is complete or within
  a tenth of its limit; eviction and the end of a log that a query takes keep the first.
- `ExecsFound`: `ExecAnswers`. `IndexInv` says that the positions in the index are exactly those of the execution's events, as
  long as the log has lost nothing, in the order of the log; selecting by position and selecting by content then agree.

## Not modelled, and the plan

Left out for good: message formats (`protocol/envelope.py`), the client factory (`llm/`), the matcher's scores, the
graph that `build_langgraph` compiles and nobody runs, statistics and logging, the broker adapters for Kafka and
RabbitMQ (what they guarantee is the broker's), `routing/queued_router.py` (it only fills in a payload and enqueues it),
the policy engine (pure functions that no handler calls), wiring (`transport/app.py`) and scripts.

Left out of parts that are modelled: executions of a session, which no handler records, so that `update_execution_status`
finds none; `put` of a connection queue and `send` of its manager, which nothing calls; `subscribe_custom`; `append_async`,
the only path to a persistent trace, which nothing calls, so that a restart starts with empty logs; of the storage
adapters, those of sessions, traces and presence, which no handler calls, and the reads of `ExecStore`. Of the Redis queue, `clear_expired` (it moves delayed tasks as `dequeue` does), results, indexes and `shutdown`.

Small things that the models simplify:

- `TaskQueue.Enqueue`: a task_id is enqueued once, where the code would let a second `enqueue` replace the task; and the
  worker loop's own `except` (worker.py:193) has nothing to catch, for no command of the in-memory queue raises there.
- `AgentRegistry.CleanupOne`: the close of a dead connection and its removal are one step, both under the lock.
- `Streaming.WriterDrained`: a writer whose websocket is gone ends by its failing send (`WriterBreaks`) or is cancelled; that it may also
  see the closed flag of its queue between two messages is left out.
- `EventStream.Unsubscribe`: the cancellation of the delivery task takes effect at once, and the sentinel that closing puts into a
  queue is not counted against its limit.
- `ExecStore.SetStatus`: the SQL adapter's read and commit are one step; it writes the changed columns only.

Halves of hazards that no property covers (each has a note in `PROJECT.json`): an executor that never ends keeps `stop` waiting
until its timeout, and `StopReturns` presumes that executions end; the queue of a closed connection stays with the manager and fills up; the index
of a session that has evicted answers wrong events; two concurrent calls of one idempotency key both create in Redis, whatever
its docstring says of atomicity (redis.py:159). All four are behaviours of the models; the properties `StopReturns`, `QueuedIsWritten`,
`ExecAnswers` and `PortKept` exclude them.

What could follow:

1. The composition of registry and negotiation: an agent whose own broadcast keeps it from sending heartbeats.
2. The stores of sessions and presence, once something uses them: offers that are added while one is selected or the
   session closed, and heartbeats against `expire_stale`.
3. That `Outbox` alone has its streams in order, so that `StreamInOrder` follows from the refinement.
