---------------------------- MODULE AgentRegistry ----------------------------
(***************************************************************************)
(* Presence of agents: the registry (src/registry/registry.py,             *)
(* AgentRegistry), the schemas it keeps in step with it                    *)
(* (src/schema/view_registry.py, ViewRegistry), and the life of the        *)
(* connection handlers that call it (src/transport/handler.py,             *)
(* handle_connection and _handle_register).                                *)
(*                                                                         *)
(* All operations run under one asyncio.Lock.  Two of them suspend while   *)
(* they hold it, in "await ws.close(...)": a registration that replaces    *)
(* the agent's previous connection, and the heartbeat cleanup.  Meanwhile  *)
(* the handlers of other connections, and of the one being closed, go on   *)
(* up to their next use of the registry.                                   *)
(***************************************************************************)
EXTENDS FiniteSets

CONSTANTS
    Conns,        \* conn_id: one per WebSocket object
    Agents,       \* agent_id
    AgentOf,      \* the sender_id of the connection's agent.register
    Capabilities, \* keys of the schemas an agent registers
    SchemasOf,    \* the capabilities a connection registers schemas for
    NoConn        \* a missing key of _conn_by_agent or _schemas_by_agent

ASSUME AgentOfAssumption == AgentOf \in [Conns -> Agents]
ASSUME SchemasOfAssumption == SchemasOf \in [Conns -> SUBSET Capabilities]
ASSUME NoConnAssumption == NoConn \notin Conns

VARIABLES
    phase,      \* the handler of each connection: where handle_connection is
    open,       \* connections whose WebSocket neither side has closed
    agents,     \* keys of _agents_by_conn
    offline,    \* those of agents whose record has status OFFLINE
    stale,      \* those of agents whose last_seen is older than the timeout
    connOf,     \* _conn_by_agent
    sockets,    \* keys of _connections
    schemas,    \* _schemas_by_agent: the connection whose schemas the agent has
    providers,  \* _agents_by_capability
    replacing,  \* the connection whose register holds _lock, suspended in a close
    dead        \* dead_conn_ids of the cleanup that holds _lock, suspended likewise

index == <<agents, offline, stale, connOf, sockets, schemas, providers>>
vars == <<phase, open, index, replacing, dead>>

\* _lock is not held by a suspended coroutine.
Free == replacing = NoConn /\ dead = {}

TypeOK ==
    /\ phase \in [Conns -> {"new", "registering", "live", "gone"}]
    /\ open \in SUBSET Conns
    /\ agents \in SUBSET Conns
    /\ offline \in SUBSET agents
    /\ stale \in SUBSET agents
    /\ connOf \in [Agents -> Conns \cup {NoConn}]
    /\ sockets \in SUBSET Conns
    /\ schemas \in [Agents -> Conns \cup {NoConn}]
    /\ providers \in [Capabilities -> SUBSET Agents]
    /\ replacing \in Conns \cup {NoConn}
    /\ dead \in SUBSET agents

Init ==
    /\ phase = [c \in Conns |-> "new"]
    /\ open = {}
    /\ agents = {} /\ offline = {} /\ stale = {} /\ sockets = {}
    /\ connOf = [a \in Agents |-> NoConn]
    /\ schemas = [a \in Agents |-> NoConn]
    /\ providers = [k \in Capabilities |-> {}]
    /\ replacing = NoConn
    /\ dead = {}

-----------------------------------------------------------------------------
(* State functions: the indexes after a removal, and after a registration  *)
(* on top of a removal.                                                    *)

\* The indexes as one value, so that register can remove and then add.
Index == [agents |-> agents, offline |-> offline, stale |-> stale, connOf |-> connOf,
          sockets |-> sockets, schemas |-> schemas, providers |-> providers]

\* Mutant of DropSchemas: the reverse index keeps the agent.
DropSchemas_forward_only(x, a) == [x EXCEPT !.schemas[a] = NoConn]

\* unregister_agent_schemas: without schemas there is nothing in the reverse index.
DropSchemas(x, a) ==
    [x EXCEPT !.schemas[a] = NoConn,
              !.providers = [k \in Capabilities |-> x.providers[k] \ {a}]]

\* _remove_agent: the agent's key is popped whichever connection it points to.
Remove(x, c) ==
    LET a == AgentOf[c]
        y == IF c \in x.agents
             THEN DropSchemas([x EXCEPT !.agents = @ \ {c}, !.offline = @ \ {c},
                                        !.stale = @ \ {c}, !.connOf[a] = NoConn], a)
             ELSE x
    IN [y EXCEPT !.sockets = @ \ {c}]

\* The end of register: record, indexes and websocket, then the schemas if any.
Add(x, c) ==
    LET a == AgentOf[c]
        y == [x EXCEPT !.agents = @ \cup {c}, !.connOf[a] = c, !.sockets = @ \cup {c}]
    IN IF SchemasOf[c] = {} THEN y
       ELSE [y EXCEPT !.schemas[a] = c,
                      !.providers = [k \in Capabilities |->
                          IF k \in SchemasOf[c] THEN y.providers[k] \cup {a}
                          ELSE y.providers[k] \ {a}]]

SetIndex(x) ==
    /\ agents' = x.agents /\ offline' = x.offline /\ stale' = x.stale
    /\ connOf' = x.connOf /\ sockets' = x.sockets
    /\ schemas' = x.schemas /\ providers' = x.providers

-----------------------------------------------------------------------------
(* The connection handlers.                                                *)

\* The handler got agent.register; it waits for the registry's lock.
Connect(c) ==
    /\ phase[c] = "new"
    /\ phase' = [phase EXCEPT ![c] = "registering"]
    /\ open' = open \cup {c}
    /\ UNCHANGED <<index, replacing, dead>>

\* register of an agent that has no connection: no suspension.  A record that pydantic
\* refuses (valid is FALSE) is not stored, and the handler closes its websocket.
Register(c, valid) ==
    /\ phase[c] = "registering" /\ Free
    /\ connOf[AgentOf[c]] = NoConn
    /\ IF valid
       THEN SetIndex(Add(Index, c)) /\ phase' = [phase EXCEPT ![c] = "live"] /\ open' = open
       ELSE UNCHANGED index /\ phase' = [phase EXCEPT ![c] = "gone"] /\ open' = open \ {c}
    /\ UNCHANGED <<replacing, dead>>

\* register of an agent that has one: the old websocket is closed, under the lock.
CloseOld(c) ==
    /\ phase[c] = "registering" /\ Free
    /\ connOf[AgentOf[c]] # NoConn
    /\ open' = open \ {connOf[AgentOf[c]]}
    /\ replacing' = c
    /\ UNCHANGED <<phase, index, dead>>

\* Mutant of Replace: the old registration is left to the end of its handler.
Replace_keeps_old(c, valid) ==
    /\ replacing = c
    /\ SetIndex(IF valid THEN Add(Index, c) ELSE Index)
    /\ phase' = [phase EXCEPT ![c] = IF valid THEN "live" ELSE "gone"]
    /\ open' = IF valid THEN open ELSE open \ {c}
    /\ replacing' = NoConn
    /\ UNCHANGED dead

\* The close returned: the old registration goes, and the new one comes if it is valid.
Replace(c, valid) ==
    /\ replacing = c
    /\ LET x == Remove(Index, connOf[AgentOf[c]])
       IN SetIndex(IF valid THEN Add(x, c) ELSE x)
    /\ phase' = [phase EXCEPT ![c] = IF valid THEN "live" ELSE "gone"]
    /\ open' = IF valid THEN open ELSE open \ {c}
    /\ replacing' = NoConn
    /\ UNCHANGED dead

\* The other side closes the websocket, or the network does.
Disconnect(c) ==
    /\ c \in open
    /\ open' = open \ {c}
    /\ UNCHANGED <<phase, index, replacing, dead>>

\* Mutants of Leave: it does not wait for the lock; it unregisters the agent instead
\* of the connection; it does not unregister.
Leave_unlocked(c) ==
    /\ phase[c] = "live"
    /\ phase' = [phase EXCEPT ![c] = "gone"]
    /\ open' = open \ {c}
    /\ IF c \in agents THEN SetIndex(Remove(Index, c)) ELSE UNCHANGED index
    /\ UNCHANGED <<replacing, dead>>
Leave_by_agent(c) ==
    /\ phase[c] = "live" /\ Free
    /\ phase' = [phase EXCEPT ![c] = "gone"]
    /\ open' = open \ {c}
    /\ LET d == connOf[AgentOf[c]]
       IN IF d # NoConn THEN SetIndex(Remove(Index, d)) ELSE UNCHANGED index
    /\ UNCHANGED <<replacing, dead>>
Leave_keeps_entry(c) ==
    /\ phase[c] = "live" /\ Free
    /\ phase' = [phase EXCEPT ![c] = "gone"]
    /\ open' = open \ {c}
    /\ UNCHANGED <<index, replacing, dead>>

\* The handler leaves its message loop (the websocket is closed, a message did not
\* parse, or a handler raised) and its finally block unregisters.
Leave(c) ==
    /\ phase[c] = "live" /\ Free
    /\ phase' = [phase EXCEPT ![c] = "gone"]
    /\ open' = open \ {c}
    /\ IF c \in agents THEN SetIndex(Remove(Index, c)) ELSE UNCHANGED index
    /\ UNCHANGED <<replacing, dead>>

\* heartbeat: of a connection the registry still knows, AGENT_NOT_FOUND otherwise.
Heartbeat(c) ==
    /\ phase[c] = "live" /\ c \in open /\ Free
    /\ c \in agents
    /\ stale' = stale \ {c}
    /\ offline' = offline \ {c}
    /\ UNCHANGED <<phase, open, agents, connOf, sockets, schemas, providers, replacing, dead>>

-----------------------------------------------------------------------------
(* The cleanup task, and time.                                             *)

\* heartbeat_timeout seconds have passed since last_seen.
TimeOut(c) ==
    /\ c \in agents \ stale
    /\ stale' = stale \cup {c}
    /\ UNCHANGED <<phase, open, agents, offline, connOf, sockets, schemas, providers, replacing, dead>>

\* Mutant of Silent: the test of the status is the wrong way round.
Silent_offline == agents \cap stale \cap offline

\* Not alive, and not yet marked.
Silent == (agents \cap stale) \ offline

\* _cleanup_dead_agents marks the silent agents and starts to close their websockets.
Cleanup ==
    /\ Free
    /\ Silent # {}
    /\ dead' = Silent
    /\ offline' = offline \cup Silent
    /\ UNCHANGED <<phase, open, agents, stale, connOf, sockets, schemas, providers, replacing>>

\* Mutant of CleanupOne: the entry is left to the end of the handler.
CleanupOne_close_only(c) ==
    /\ c \in dead
    /\ open' = open \ {c}
    /\ dead' = dead \ {c}
    /\ UNCHANGED <<index, phase, replacing>>

\* One more websocket is closed and its agent removed; the last one ends the cleanup.
CleanupOne(c) ==
    /\ c \in dead
    /\ open' = open \ {c}
    /\ SetIndex(Remove(Index, c))
    /\ dead' = dead \ {c}
    /\ UNCHANGED <<phase, replacing>>

-----------------------------------------------------------------------------
Next ==
    \/ \E c \in Conns :
          \/ Connect(c) \/ CloseOld(c)
          \/ \E valid \in BOOLEAN : Register(c, valid) \/ Replace(c, valid)
          \/ Disconnect(c) \/ Leave(c) \/ Heartbeat(c)
          \/ TimeOut(c) \/ CleanupOne(c)
    \/ Cleanup

Spec == Init /\ [][Next]_vars

(***************************************************************************)
(* Fairness.  A suspended close returns; the cleanup task runs every half  *)
(* timeout and its turn for the lock comes (asyncio.Lock is first in,      *)
(* first out: strong fairness, as the lock is taken and freed in between); *)
(* a handler whose websocket was closed sees it and unregisters.           *)
(***************************************************************************)
Fairness ==
    /\ \A c \in Conns : WF_vars(\E valid \in BOOLEAN : Replace(c, valid))
    /\ \A c \in Conns : WF_vars(CleanupOne(c))
    /\ SF_vars(Cleanup)
    /\ \A c \in Conns : SF_vars(c \notin open /\ Leave(c))

FairSpec == Spec /\ Fairness

-----------------------------------------------------------------------------
(* Properties.                                                             *)

\* Each agent has at most one registered connection and the two indexes are inverse
\* to each other, in every state: also while a replacement or a cleanup is suspended,
\* and after the late unregister of a connection that was replaced.
IndexesInverse ==
    \A c \in Conns : c \in agents <=> connOf[AgentOf[c]] = c

\* The websockets kept are those of the registered connections, and the schemas and
\* the capability index those of the agent's present connection: a reconnect with
\* other schemas leaves none of the old ones behind.
FollowsRegistration ==
    /\ sockets = agents
    /\ \A c \in Conns : (c \in agents /\ SchemasOf[c] # {}) <=> schemas[AgentOf[c]] = c
    /\ \A k \in Capabilities : \A a \in Agents :
          a \in providers[k] <=> \E c \in Conns : schemas[a] = c /\ k \in SchemasOf[c]

\* OFFLINE is never seen from outside: whenever the registry's lock is free every
\* record is ONLINE, so list_agents(only_online=False) lists nothing more.
OfflineOnlyInCleanup == Free => offline = {}

\* The parts of the inductive invariant: an agent's keys lead to its own connections;
\* an entry belongs to a handler in its message loop; the records marked OFFLINE are
\* those the suspended cleanup will remove; and the entry that a suspended
\* registration will replace is still there.
OwnKeys ==
    \A a \in Agents :
        /\ connOf[a] # NoConn => AgentOf[connOf[a]] = a
        /\ schemas[a] # NoConn => AgentOf[schemas[a]] = a
LiveEntries == \A c \in agents : phase[c] = "live"
LockHolder ==
    /\ offline = dead
    /\ dead \subseteq stale
    /\ replacing # NoConn =>
          /\ dead = {}
          /\ phase[replacing] = "registering"
          /\ connOf[AgentOf[replacing]] # NoConn

RegistryInv ==
    TypeOK /\ IndexesInverse /\ FollowsRegistration /\ OwnKeys /\ LiveEntries /\ LockHolder

\* A connection that ends takes no other connection's registration with it: an agent
\* loses its entry only when its own connection leaves, is found silent, or is
\* replaced (by a registration that then failed).
OnlyOwnEnd ==
    [][ \A c \in Conns : (c \in agents /\ c \notin agents') =>
          \/ phase[c] = "live" /\ phase'[c] = "gone"
          \/ c \in stale /\ c \in dead
          \/ replacing \in Conns /\ AgentOf[replacing] = AgentOf[c] ]_vars

\* Where a connection is for the directory: waiting for the lock it is still to come.
Place(c) ==
    IF c \in agents THEN "in" ELSE IF phase[c] \in {"new", "registering"} THEN "new" ELSE "out"

Directory == INSTANCE AgentDirectory
    WITH place <- [c \in Conns |-> Place(c)], entry <- connOf, listed <- agents

\* The registry implements the directory: although a replacement and a cleanup close
\* websockets in between, while lookups that take no lock and other handlers go on, an
\* agent's entry, its place in the list and its capabilities change at one moment, and
\* no connection is registered again after it has lost its entry.
DirectoryKept == Directory!DirectorySpec

\* A silent agent does not stay: it is removed, or a heartbeat arrives.
SilentAgentsGo ==
    \A c \in Conns : (c \in agents /\ c \in stale) ~> (c \notin agents \/ c \notin stale)

\* A connection whose websocket is closed does not stay registered.
ClosedConnsGo == \A c \in Conns : (c \in agents /\ c \notin open) ~> (c \notin agents)
=============================================================================
