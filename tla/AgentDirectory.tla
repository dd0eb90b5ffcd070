--------------------------- MODULE AgentDirectory ---------------------------
(***************************************************************************)
(* What the registry (src/registry/registry.py) promises those who look    *)
(* agents up: a directory in which an agent has at most one connection.    *)
(* A connection asks for its place once; it is admitted or refused, and    *)
(* either way takes that of the agent's previous one; and once it is out   *)
(* it does not come back.  Each of these happens at one moment, for every  *)
(* kind of lookup: by agent, by connection and by capability.              *)
(***************************************************************************)
CONSTANTS Conns, Agents, AgentOf, Capabilities, SchemasOf, NoConn

VARIABLES
    place,      \* where a connection is: new, in or out
    entry,      \* the connection that an agent is looked up to have
    listed,     \* the connections whose agents are listed
    providers   \* the agents that are found for a capability

directoryVars == <<place, entry, listed, providers>>

\* What the lookups answer, if e has the agents' connections.
Listed(e) == {e[a] : a \in Agents} \ {NoConn}
Offering(e) ==
    [k \in Capabilities |-> {a \in Agents : e[a] # NoConn /\ k \in SchemasOf[e[a]]}]

Becomes(e) == entry' = e /\ listed' = Listed(e) /\ providers' = Offering(e)

DirectoryInit ==
    /\ place = [c \in Conns |-> "new"]
    /\ entry = [a \in Agents |-> NoConn]
    /\ listed = {}
    /\ providers = [k \in Capabilities |-> {}]

\* Where connections are when a has lost the one it had, and c has moved.
Moved(a, c, p) ==
    [d \in Conns |-> IF d = c THEN p ELSE IF d = entry[a] THEN "out" ELSE place[d]]

Admit(c) ==
    /\ place[c] = "new"
    /\ place' = Moved(AgentOf[c], c, "in")
    /\ Becomes([entry EXCEPT ![AgentOf[c]] = c])

Refuse(c) ==
    /\ place[c] = "new"
    /\ place' = Moved(AgentOf[c], c, "out")
    /\ Becomes([entry EXCEPT ![AgentOf[c]] = NoConn])

Dismiss(c) ==
    /\ place[c] = "in" /\ entry[AgentOf[c]] = c
    /\ place' = Moved(AgentOf[c], c, "out")
    /\ Becomes([entry EXCEPT ![AgentOf[c]] = NoConn])

DirectoryNext == \E c \in Conns : Admit(c) \/ Refuse(c) \/ Dismiss(c)

DirectorySpec == DirectoryInit /\ [][DirectoryNext]_directoryVars
=============================================================================
