------------------------- MODULE AgentRegistryProofs -------------------------
(***************************************************************************)
(* Proofs about AgentRegistry, for any number of connections, agents and   *)
(* capabilities.  The indexes are handled as one record, as in the module: *)
(* a removal keeps it consistent, and so does an addition for an agent     *)
(* that has no entry; a replacement is the one after the other.  In the    *)
(* end each step is one of AgentDirectory, or none.                        *)
(***************************************************************************)
EXTENDS AgentRegistry, TLAPS

IndexType ==
    [agents : SUBSET Conns, offline : SUBSET Conns, stale : SUBSET Conns,
     connOf : [Agents -> Conns \cup {NoConn}], sockets : SUBSET Conns,
     schemas : [Agents -> Conns \cup {NoConn}], providers : [Capabilities -> SUBSET Agents]]

\* The index conjuncts of RegistryInv, of a record of indexes.
Consistent(x) ==
    /\ x.offline \subseteq x.agents /\ x.stale \subseteq x.agents
    /\ \A c \in Conns : c \in x.agents <=> x.connOf[AgentOf[c]] = c
    /\ x.sockets = x.agents
    /\ \A c \in Conns : (c \in x.agents /\ SchemasOf[c] # {}) <=> x.schemas[AgentOf[c]] = c
    /\ \A k \in Capabilities : \A a \in Agents :
          a \in x.providers[k] <=> \E c \in Conns : x.schemas[a] = c /\ k \in SchemasOf[c]
    /\ \A a \in Agents :
          /\ x.connOf[a] # NoConn => AgentOf[x.connOf[a]] = a
          /\ x.schemas[a] # NoConn => AgentOf[x.schemas[a]] = a

\* What _remove_agent leaves of the indexes, field by field.
LEMMA RemoveFields ==
  ASSUME NEW x \in IndexType, NEW c \in x.agents
  PROVE  /\ Remove(x, c) \in IndexType
         /\ Remove(x, c).agents = x.agents \ {c}
         /\ Remove(x, c).offline = x.offline \ {c}
         /\ Remove(x, c).stale = x.stale \ {c}
         /\ Remove(x, c).connOf = [x.connOf EXCEPT ![AgentOf[c]] = NoConn]
         /\ Remove(x, c).sockets = x.sockets \ {c}
         /\ Remove(x, c).schemas = [x.schemas EXCEPT ![AgentOf[c]] = NoConn]
         /\ Remove(x, c).providers = [k \in Capabilities |-> x.providers[k] \ {AgentOf[c]}]
<1> DEFINE a == AgentOf[c]
           y == [x EXCEPT !.agents = @ \ {c}, !.offline = @ \ {c},
                          !.stale = @ \ {c}, !.connOf[a] = NoConn]
           z == DropSchemas(y, a)
<1>1. a \in Agents
  BY AgentOfAssumption DEF IndexType
<1>2. /\ y \in IndexType
      /\ y.agents = x.agents \ {c} /\ y.offline = x.offline \ {c}
      /\ y.stale = x.stale \ {c} /\ y.connOf = [x.connOf EXCEPT ![a] = NoConn]
      /\ y.sockets = x.sockets /\ y.schemas = x.schemas /\ y.providers = x.providers
  BY <1>1 DEF IndexType
<1> HIDE DEF y
<1>3. /\ z \in IndexType
      /\ z.agents = y.agents /\ z.offline = y.offline /\ z.stale = y.stale
      /\ z.connOf = y.connOf /\ z.sockets = y.sockets
      /\ z.schemas = [y.schemas EXCEPT ![a] = NoConn]
      /\ z.providers = [k \in Capabilities |-> y.providers[k] \ {a}]
  BY <1>1, <1>2 DEF IndexType, DropSchemas
<1>4. Remove(x, c) = [z EXCEPT !.sockets = z.sockets \ {c}]
  BY DEF Remove, y
<1> HIDE DEF z
<1>5. PICK w : w = z
  OBVIOUS
<1>6. PICK r : r = Remove(x, c)
  OBVIOUS
<1>7. r = [w EXCEPT !.sockets = w.sockets \ {c}]
  BY <1>4, <1>5, <1>6
<1>8. w \in IndexType /\ w.sockets \ {c} \in SUBSET Conns
  BY <1>3, <1>5 DEF IndexType
<1>9. /\ r \in IndexType
      /\ r.agents = w.agents /\ r.offline = w.offline /\ r.stale = w.stale
      /\ r.connOf = w.connOf /\ r.sockets = w.sockets \ {c}
      /\ r.schemas = w.schemas /\ r.providers = w.providers
  BY <1>7, <1>8 DEF IndexType
<1> QED
  BY <1>2, <1>3, <1>5, <1>6, <1>9

\* What the end of register makes of them.
LEMMA AddFields ==
  ASSUME NEW x \in IndexType, NEW c \in Conns
  PROVE  /\ Add(x, c) \in IndexType
         /\ Add(x, c).agents = x.agents \cup {c}
         /\ Add(x, c).offline = x.offline
         /\ Add(x, c).stale = x.stale
         /\ Add(x, c).connOf = [x.connOf EXCEPT ![AgentOf[c]] = c]
         /\ Add(x, c).sockets = x.sockets \cup {c}
         /\ Add(x, c).schemas = IF SchemasOf[c] = {} THEN x.schemas
                                ELSE [x.schemas EXCEPT ![AgentOf[c]] = c]
         /\ Add(x, c).providers = IF SchemasOf[c] = {} THEN x.providers
              ELSE [k \in Capabilities |-> IF k \in SchemasOf[c]
                       THEN x.providers[k] \cup {AgentOf[c]} ELSE x.providers[k] \ {AgentOf[c]}]
<1> DEFINE a == AgentOf[c]
           y == [x EXCEPT !.agents = @ \cup {c}, !.connOf[a] = c, !.sockets = @ \cup {c}]
           P == [k \in Capabilities |-> IF k \in SchemasOf[c]
                    THEN y.providers[k] \cup {a} ELSE y.providers[k] \ {a}]
<1>1. a \in Agents
  BY AgentOfAssumption
<1>2. /\ y \in IndexType
      /\ y.agents = x.agents \cup {c} /\ y.offline = x.offline /\ y.stale = x.stale
      /\ y.connOf = [x.connOf EXCEPT ![a] = c] /\ y.sockets = x.sockets \cup {c}
      /\ y.schemas = x.schemas /\ y.providers = x.providers
  BY <1>1 DEF IndexType
<1>3. Add(x, c) = IF SchemasOf[c] = {} THEN y
                  ELSE [y EXCEPT !.schemas[a] = c, !.providers = P]
  BY DEF Add
<1> HIDE DEF y
<1>4. P \in [Capabilities -> SUBSET Agents]
  BY <1>1, <1>2 DEF IndexType
<1>5. CASE SchemasOf[c] = {}
  BY <1>2, <1>3, <1>5
<1>6. CASE SchemasOf[c] # {}
  <2>1. Add(x, c) = [y EXCEPT !.schemas[a] = c, !.providers = P]
    BY <1>3, <1>6
  <2>2. P = [k \in Capabilities |-> IF k \in SchemasOf[c]
                THEN x.providers[k] \cup {a} ELSE x.providers[k] \ {a}]
    BY <1>2
  <2> HIDE DEF P
  <2>3. PICK w : w = y
    OBVIOUS
  <2>4. PICK Q : Q = P
    OBVIOUS
  <2>5. PICK r : r = Add(x, c)
    OBVIOUS
  <2>6. r = [w EXCEPT !.schemas[a] = c, !.providers = Q]
    BY <2>1, <2>3, <2>4, <2>5
  <2>7. w \in IndexType /\ Q \in [Capabilities -> SUBSET Agents]
    BY <1>2, <1>4, <2>3, <2>4
  <2>8. /\ r \in IndexType
        /\ r.agents = w.agents /\ r.offline = w.offline /\ r.stale = w.stale
        /\ r.connOf = w.connOf /\ r.sockets = w.sockets
        /\ r.schemas = [w.schemas EXCEPT ![a] = c] /\ r.providers = Q
    BY <1>1, <2>6, <2>7 DEF IndexType
  <2> QED
    BY <1>2, <1>6, <2>2, <2>3, <2>4, <2>5, <2>8
<1> QED
  BY <1>5, <1>6

\* A removal keeps the indexes consistent.
LEMMA RemoveConsistent ==
  ASSUME NEW x \in IndexType, Consistent(x), NEW c \in x.agents
  PROVE  /\ Consistent(Remove(x, c))
         /\ Remove(x, c).connOf[AgentOf[c]] = NoConn
<1> DEFINE y == Remove(x, c)
<1>1. y \in IndexType
  BY RemoveFields
<1>2. /\ y.agents = x.agents \ {c} /\ y.offline = x.offline \ {c}
      /\ y.stale = x.stale \ {c} /\ y.connOf = [x.connOf EXCEPT ![AgentOf[c]] = NoConn]
      /\ y.sockets = x.sockets \ {c} /\ y.schemas = [x.schemas EXCEPT ![AgentOf[c]] = NoConn]
      /\ y.providers = [k \in Capabilities |-> x.providers[k] \ {AgentOf[c]}]
  BY RemoveFields
<1>3. /\ c \in Conns /\ NoConn \notin Conns /\ AgentOf \in [Conns -> Agents]
      /\ x.connOf \in [Agents -> Conns \cup {NoConn}]
      /\ x.schemas \in [Agents -> Conns \cup {NoConn}]
      /\ x.providers \in [Capabilities -> SUBSET Agents]
      /\ x.agents \subseteq Conns
  BY AgentOfAssumption, NoConnAssumption DEF IndexType
<1> HIDE DEF y
<1>4. y.offline \subseteq y.agents /\ y.stale \subseteq y.agents /\ y.sockets = y.agents
  BY <1>2 DEF Consistent
<1>5. \A d \in Conns : d \in y.agents <=> y.connOf[AgentOf[d]] = d
  BY <1>2, <1>3 DEF Consistent
<1>6. \A d \in Conns : (d \in y.agents /\ SchemasOf[d] # {}) <=> y.schemas[AgentOf[d]] = d
  BY <1>2, <1>3 DEF Consistent
<1>7. \A k \in Capabilities : \A a \in Agents :
          a \in y.providers[k] <=> \E d \in Conns : y.schemas[a] = d /\ k \in SchemasOf[d]
  BY <1>2, <1>3 DEF Consistent
<1>8. \A a \in Agents :
          /\ y.connOf[a] # NoConn => AgentOf[y.connOf[a]] = a
          /\ y.schemas[a] # NoConn => AgentOf[y.schemas[a]] = a
  BY <1>2, <1>3 DEF Consistent
<1>9. y.connOf[AgentOf[c]] = NoConn
  BY <1>2, <1>3
<1> QED
  BY <1>4, <1>5, <1>6, <1>7, <1>8, <1>9 DEF Consistent, y

\* An addition does too, if the agent has no entry: then it has no schemas either.
LEMMA AddConsistent ==
  ASSUME NEW x \in IndexType, Consistent(x), NEW c \in Conns, x.connOf[AgentOf[c]] = NoConn
  PROVE  Consistent(Add(x, c))
<1> DEFINE y == Add(x, c)
           b == AgentOf[c]
<1>1. y \in IndexType
  BY AddFields
<1>2. /\ y.agents = x.agents \cup {c} /\ y.offline = x.offline
      /\ y.stale = x.stale /\ y.connOf = [x.connOf EXCEPT ![b] = c]
      /\ y.sockets = x.sockets \cup {c}
      /\ y.schemas = IF SchemasOf[c] = {} THEN x.schemas ELSE [x.schemas EXCEPT ![b] = c]
      /\ y.providers = IF SchemasOf[c] = {} THEN x.providers
           ELSE [k \in Capabilities |-> IF k \in SchemasOf[c]
                    THEN x.providers[k] \cup {b} ELSE x.providers[k] \ {b}]
  BY AddFields
<1>3. /\ NoConn \notin Conns /\ AgentOf \in [Conns -> Agents] /\ b \in Agents
      /\ SchemasOf \in [Conns -> SUBSET Capabilities]
      /\ x.connOf \in [Agents -> Conns \cup {NoConn}]
      /\ x.schemas \in [Agents -> Conns \cup {NoConn}]
      /\ x.providers \in [Capabilities -> SUBSET Agents]
  BY AgentOfAssumption, NoConnAssumption, SchemasOfAssumption DEF IndexType
<1> HIDE DEF y
<1>4. \A d \in Conns : AgentOf[d] = b => d \notin x.agents
  BY <1>3 DEF Consistent
<1>5. x.schemas[b] = NoConn
  BY <1>3, <1>4 DEF Consistent
<1>6. y.offline \subseteq y.agents /\ y.stale \subseteq y.agents /\ y.sockets = y.agents
  BY <1>2 DEF Consistent
<1>7. \A d \in Conns : d \in y.agents <=> y.connOf[AgentOf[d]] = d
  BY <1>2, <1>3, <1>4 DEF Consistent
<1>8. \A d \in Conns : (d \in y.agents /\ SchemasOf[d] # {}) <=> y.schemas[AgentOf[d]] = d
  BY <1>2, <1>3, <1>4, <1>5 DEF Consistent
<1>9. \A k \in Capabilities : \A a \in Agents :
          a \in y.providers[k] <=> \E d \in Conns : y.schemas[a] = d /\ k \in SchemasOf[d]
  BY <1>2, <1>3, <1>5 DEF Consistent
<1>10. \A a \in Agents :
          /\ y.connOf[a] # NoConn => AgentOf[y.connOf[a]] = a
          /\ y.schemas[a] # NoConn => AgentOf[y.schemas[a]] = a
  BY <1>2, <1>3 DEF Consistent
<1> QED
  BY <1>6, <1>7, <1>8, <1>9, <1>10 DEF Consistent, y

\* What RegistryInv says of the indexes, and of the rest of the state.
IndexOK ==
    /\ agents \in SUBSET Conns /\ offline \in SUBSET agents /\ stale \in SUBSET agents
    /\ connOf \in [Agents -> Conns \cup {NoConn}]
    /\ sockets \in SUBSET Conns
    /\ schemas \in [Agents -> Conns \cup {NoConn}]
    /\ providers \in [Capabilities -> SUBSET Agents]
    /\ IndexesInverse /\ FollowsRegistration /\ OwnKeys
RestOK ==
    /\ phase \in [Conns -> {"new", "registering", "live", "gone"}]
    /\ open \in SUBSET Conns
    /\ replacing \in Conns \cup {NoConn}
    /\ dead \in SUBSET agents
    /\ LiveEntries /\ LockHolder

\* The two parts are the invariant.
LEMMA InvParts == RegistryInv <=> IndexOK /\ RestOK
BY DEF RegistryInv, TypeOK, IndexOK, RestOK

\* The same of the next state.
LEMMA InvPartsNext == RegistryInv' <=> IndexOK' /\ RestOK'
BY DEF RegistryInv, TypeOK, IndexOK, RestOK

\* The indexes of a good state are a consistent record.
LEMMA IndexIsConsistent ==
  ASSUME IndexOK
  PROVE  Index \in IndexType /\ Consistent(Index)
<1>1. Index \in IndexType
  BY DEF IndexOK, Index, IndexType
<1>2. Consistent(Index)
  BY DEF IndexOK, Index, Consistent, IndexesInverse, FollowsRegistration, OwnKeys
<1> QED
  BY <1>1, <1>2

\* A step that sets them to a consistent record leads to a good state.
LEMMA SetIndexOK ==
  ASSUME NEW x \in IndexType, Consistent(x), SetIndex(x)
  PROVE  IndexOK'
<1>1. /\ agents' \in SUBSET Conns /\ offline' \in SUBSET agents' /\ stale' \in SUBSET agents'
      /\ connOf' \in [Agents -> Conns \cup {NoConn}]
      /\ sockets' \in SUBSET Conns
      /\ schemas' \in [Agents -> Conns \cup {NoConn}]
      /\ providers' \in [Capabilities -> SUBSET Agents]
  BY DEF SetIndex, IndexType, Consistent
<1>2. IndexesInverse'
  BY DEF SetIndex, Consistent, IndexesInverse
<1>3. FollowsRegistration'
  BY DEF SetIndex, Consistent, FollowsRegistration
<1>4. OwnKeys'
  BY DEF SetIndex, Consistent, OwnKeys
<1> QED
  BY <1>1, <1>2, <1>3, <1>4 DEF IndexOK

\* A step that removes one registered connection.
LEMMA RemoveStep ==
  ASSUME IndexOK, NEW c \in agents, SetIndex(Remove(Index, c))
  PROVE  /\ IndexOK'
         /\ agents' = agents \ {c} /\ offline' = offline \ {c} /\ stale' = stale \ {c}
         /\ connOf' = [connOf EXCEPT ![AgentOf[c]] = NoConn]
<1>1. PICK i : i = Index
  OBVIOUS
<1>2. i \in IndexType /\ Consistent(i) /\ c \in i.agents
  BY <1>1, IndexIsConsistent DEF Index
<1>3. PICK x : x = Remove(i, c)
  OBVIOUS
<1>4. x \in IndexType /\ Consistent(x)
  BY <1>2, <1>3, RemoveFields, RemoveConsistent
<1>5. SetIndex(x)
  BY <1>1, <1>3 DEF SetIndex
<1>6. /\ x.agents = i.agents \ {c} /\ x.offline = i.offline \ {c} /\ x.stale = i.stale \ {c}
      /\ x.connOf = [i.connOf EXCEPT ![AgentOf[c]] = NoConn]
  BY <1>2, <1>3, RemoveFields
<1>7. IndexOK'
  BY <1>4, <1>5, SetIndexOK
<1>8. i.agents = agents /\ i.offline = offline /\ i.stale = stale /\ i.connOf = connOf
  BY <1>1 DEF Index
<1> QED
  BY <1>5, <1>6, <1>7, <1>8 DEF SetIndex

\* A step that adds a connection of an agent without an entry.
LEMMA AddStep ==
  ASSUME IndexOK, NEW c \in Conns, connOf[AgentOf[c]] = NoConn, SetIndex(Add(Index, c))
  PROVE  /\ IndexOK'
         /\ agents' = agents \cup {c} /\ offline' = offline /\ stale' = stale
         /\ connOf' = [connOf EXCEPT ![AgentOf[c]] = c]
<1>1. PICK i : i = Index
  OBVIOUS
<1>2. i \in IndexType /\ Consistent(i) /\ i.connOf[AgentOf[c]] = NoConn
  BY <1>1, IndexIsConsistent DEF Index
<1>3. PICK x : x = Add(i, c)
  OBVIOUS
<1>4. x \in IndexType /\ Consistent(x)
  BY <1>2, <1>3, AddFields, AddConsistent
<1>5. SetIndex(x)
  BY <1>1, <1>3 DEF SetIndex
<1>6. /\ x.agents = i.agents \cup {c} /\ x.offline = i.offline /\ x.stale = i.stale
      /\ x.connOf = [i.connOf EXCEPT ![AgentOf[c]] = c]
  BY <1>2, <1>3, AddFields
<1>7. IndexOK'
  BY <1>4, <1>5, SetIndexOK
<1>8. i.agents = agents /\ i.offline = offline /\ i.stale = stale /\ i.connOf = connOf
  BY <1>1 DEF Index
<1> QED
  BY <1>5, <1>6, <1>7, <1>8 DEF SetIndex

\* A step that replaces an agent's connection d by c.
LEMMA ReplaceStep ==
  ASSUME IndexOK, NEW c \in Conns, NEW d \in agents, AgentOf[d] = AgentOf[c],
         SetIndex(Add(Remove(Index, d), c))
  PROVE  /\ IndexOK'
         /\ agents' = (agents \ {d}) \cup {c}
         /\ offline' = offline \ {d} /\ stale' = stale \ {d}
         /\ connOf' = [connOf EXCEPT ![AgentOf[c]] = c]
<1>1. PICK i : i = Index
  OBVIOUS
<1>2. i \in IndexType /\ Consistent(i) /\ d \in i.agents
  BY <1>1, IndexIsConsistent DEF Index
<1>3. PICK y : y = Remove(i, d)
  OBVIOUS
<1>a. y \in IndexType
  BY <1>2, <1>3, RemoveFields
<1>b. Consistent(y) /\ y.connOf[AgentOf[d]] = NoConn
  BY <1>2, <1>3, RemoveConsistent
<1>4. y \in IndexType /\ Consistent(y) /\ y.connOf[AgentOf[c]] = NoConn
  BY <1>a, <1>b
<1>5. PICK x : x = Add(y, c)
  OBVIOUS
<1>6. x \in IndexType /\ Consistent(x)
  BY <1>4, <1>5, AddFields, AddConsistent
<1>7. SetIndex(x)
  BY <1>1, <1>3, <1>5 DEF SetIndex
<1>8. /\ y.agents = i.agents \ {d} /\ y.offline = i.offline \ {d} /\ y.stale = i.stale \ {d}
      /\ y.connOf = [i.connOf EXCEPT ![AgentOf[d]] = NoConn]
  BY <1>2, <1>3, RemoveFields
<1>9. /\ x.agents = y.agents \cup {c} /\ x.offline = y.offline /\ x.stale = y.stale
      /\ x.connOf = [y.connOf EXCEPT ![AgentOf[c]] = c]
  BY <1>4, <1>5, AddFields
<1>c. x.connOf = [i.connOf EXCEPT ![AgentOf[c]] = c]
  BY <1>2, <1>8, <1>9 DEF IndexType
<1>10. IndexOK'
  BY <1>6, <1>7, SetIndexOK
<1>11. i.agents = agents /\ i.offline = offline /\ i.stale = stale /\ i.connOf = connOf
  BY <1>1 DEF Index
<1> QED
  BY <1>7, <1>8, <1>9, <1>c, <1>10, <1>11 DEF SetIndex

\* No connection, no entry, no lock holder.
LEMMA InitInv == Init => RegistryInv
<1> SUFFICES ASSUME Init PROVE IndexOK /\ RestOK
  BY InvParts
<1>1. /\ agents \in SUBSET Conns /\ offline \in SUBSET agents /\ stale \in SUBSET agents
      /\ connOf \in [Agents -> Conns \cup {NoConn}]
      /\ sockets \in SUBSET Conns
      /\ schemas \in [Agents -> Conns \cup {NoConn}]
      /\ providers \in [Capabilities -> SUBSET Agents]
  BY DEF Init
<1>2. IndexesInverse /\ FollowsRegistration /\ OwnKeys
  BY AgentOfAssumption, NoConnAssumption
     DEF Init, IndexesInverse, FollowsRegistration, OwnKeys
<1>3. RestOK
  BY DEF Init, RestOK, LiveEntries, LockHolder
<1> QED
  BY <1>1, <1>2, <1>3 DEF IndexOK

\* Steps that leave the indexes alone, except perhaps the marks on the records.
LEMMA SameIndex ==
  ASSUME IndexOK, offline' \in SUBSET agents, stale' \in SUBSET agents,
         UNCHANGED <<agents, connOf, sockets, schemas, providers>>
  PROVE  IndexOK'
<1>1. IndexesInverse' /\ FollowsRegistration' /\ OwnKeys'
  BY DEF IndexOK, IndexesInverse, FollowsRegistration, OwnKeys
<1> QED
  BY <1>1 DEF IndexOK

\* A handler registers: the entry appears with its message loop.
LEMMA RegisterInv ==
  ASSUME RegistryInv, NEW c \in Conns, NEW valid \in BOOLEAN, Register(c, valid)
  PROVE  RegistryInv'
<1>1. IndexOK /\ RestOK
  BY InvParts
<1>2. replacing = NoConn /\ dead = {} /\ offline = {}
  BY <1>1 DEF Register, Free, RestOK, LockHolder
<1>3. CASE valid
  <2>1. SetIndex(Add(Index, c)) /\ phase' = [phase EXCEPT ![c] = "live"] /\ open' = open
    BY <1>3 DEF Register
  <2>2. /\ IndexOK' /\ agents' = agents \cup {c} /\ offline' = offline /\ stale' = stale
    BY <1>1, <2>1, AddStep DEF Register
  <2>3. RestOK'
    BY <1>1, <1>2, <2>1, <2>2 DEF Register, RestOK, LiveEntries, LockHolder
  <2> QED
    BY <2>2, <2>3, InvPartsNext
<1>4. CASE ~valid
  <2>1. UNCHANGED index /\ phase' = [phase EXCEPT ![c] = "gone"] /\ open' = open \ {c}
    BY <1>4 DEF Register
  <2>2. IndexOK'
    BY <1>1, <2>1, SameIndex DEF index, IndexOK
  <2>3. c \notin agents
    BY <1>1 DEF Register, RestOK, LiveEntries
  <2>4. RestOK'
    BY <1>1, <1>2, <2>1, <2>3 DEF Register, RestOK, LiveEntries, LockHolder, index
  <2> QED
    BY <2>2, <2>4, InvPartsNext
<1> QED
  BY <1>3, <1>4

\* The suspended registration goes on: the old entry is still the agent's own.
LEMMA ReplaceInv ==
  ASSUME RegistryInv, NEW c \in Conns, NEW valid \in BOOLEAN, Replace(c, valid)
  PROVE  RegistryInv'
<1>1. IndexOK /\ RestOK
  BY InvParts
<1>2. PICK d : d = connOf[AgentOf[c]]
  OBVIOUS
<1>3. d \in agents /\ d \in Conns /\ AgentOf[d] = AgentOf[c]
  BY <1>1, <1>2, AgentOfAssumption, NoConnAssumption
     DEF Replace, RestOK, LockHolder, IndexOK, OwnKeys, IndexesInverse
<1>4. dead = {} /\ offline = {} /\ phase[c] = "registering" /\ c \notin agents
  BY <1>1, NoConnAssumption DEF Replace, RestOK, LockHolder, LiveEntries
<1>5. CASE valid
  <2>1. SetIndex(Add(Remove(Index, d), c))
    BY <1>2, <1>5 DEF Replace, SetIndex
  <2>2. /\ IndexOK' /\ agents' = (agents \ {d}) \cup {c}
        /\ offline' = offline \ {d} /\ stale' = stale \ {d}
    BY <1>1, <1>3, <2>1, ReplaceStep
  <2>3. RestOK'
    BY <1>1, <1>4, <1>5, <2>2 DEF Replace, RestOK, LiveEntries, LockHolder
  <2> QED
    BY <2>2, <2>3, InvPartsNext
<1>6. CASE ~valid
  <2>1. SetIndex(Remove(Index, d))
    BY <1>2, <1>6 DEF Replace, SetIndex
  <2>2. /\ IndexOK' /\ agents' = agents \ {d}
        /\ offline' = offline \ {d} /\ stale' = stale \ {d}
    BY <1>1, <1>3, <2>1, RemoveStep
  <2>3. RestOK'
    BY <1>1, <1>4, <1>6, <2>2 DEF Replace, RestOK, LiveEntries, LockHolder
  <2> QED
    BY <2>2, <2>3, InvPartsNext
<1> QED
  BY <1>5, <1>6

\* A handler leaves: its own entry goes, or there is none.
LEMMA LeaveInv ==
  ASSUME RegistryInv, NEW c \in Conns, Leave(c)
  PROVE  RegistryInv'
<1>1. IndexOK /\ RestOK
  BY InvParts
<1>2. replacing = NoConn /\ dead = {} /\ offline = {}
  BY <1>1 DEF Leave, Free, RestOK, LockHolder
<1>3. CASE c \in agents
  <2>1. SetIndex(Remove(Index, c))
    BY <1>3 DEF Leave
  <2>2. /\ IndexOK' /\ agents' = agents \ {c}
        /\ offline' = offline \ {c} /\ stale' = stale \ {c}
    BY <1>1, <1>3, <2>1, RemoveStep
  <2>3. RestOK'
    BY <1>1, <1>2, <2>2 DEF Leave, RestOK, LiveEntries, LockHolder
  <2> QED
    BY <2>2, <2>3, InvPartsNext
<1>4. CASE c \notin agents
  <2>1. UNCHANGED index
    BY <1>4 DEF Leave
  <2>2. IndexOK'
    BY <1>1, <2>1, SameIndex DEF index, IndexOK
  <2>3. RestOK'
    BY <1>1, <1>2, <1>4, <2>1 DEF Leave, RestOK, LiveEntries, LockHolder, index
  <2> QED
    BY <2>2, <2>3, InvPartsNext
<1> QED
  BY <1>3, <1>4

\* The cleanup takes out one of the entries it marked.
LEMMA CleanupOneInv ==
  ASSUME RegistryInv, NEW c \in Conns, CleanupOne(c)
  PROVE  RegistryInv'
<1>1. IndexOK /\ RestOK
  BY InvParts
<1>2. c \in agents /\ replacing = NoConn
  BY <1>1, NoConnAssumption DEF CleanupOne, RestOK, LockHolder
<1>3. /\ IndexOK' /\ agents' = agents \ {c}
      /\ offline' = offline \ {c} /\ stale' = stale \ {c}
  BY <1>1, <1>2, RemoveStep DEF CleanupOne
<1>4. RestOK'
  BY <1>1, <1>2, <1>3 DEF CleanupOne, RestOK, LiveEntries, LockHolder
<1> QED
  BY <1>3, <1>4, InvPartsNext

\* The steps that change no index.
LEMMA QuietInv ==
  ASSUME RegistryInv, NEW c \in Conns,
         \/ Connect(c) \/ CloseOld(c) \/ Disconnect(c) \/ Heartbeat(c) \/ TimeOut(c)
         \/ Cleanup \/ UNCHANGED vars
  PROVE  RegistryInv'
<1>1. IndexOK /\ RestOK
  BY InvParts
<1>2. IndexOK'
  <2>1. UNCHANGED <<agents, connOf, sockets, schemas, providers>>
    BY DEF Connect, CloseOld, Disconnect, Heartbeat, TimeOut, Cleanup, vars, index
  <2>2. offline' \in SUBSET agents /\ stale' \in SUBSET agents
    BY <1>1 DEF Connect, CloseOld, Disconnect, Heartbeat, TimeOut, Cleanup, Silent, vars,
                index, IndexOK
  <2> QED
    BY <1>1, <2>1, <2>2, SameIndex
<1>3. RestOK'
  <2>1. CASE Connect(c)
    BY <1>1, <2>1 DEF Connect, RestOK, LiveEntries, LockHolder, index
  <2>2. CASE CloseOld(c)
    BY <1>1, <2>2, NoConnAssumption DEF CloseOld, Free, RestOK, LiveEntries, LockHolder, index
  <2>3. CASE Disconnect(c)
    BY <1>1, <2>3 DEF Disconnect, RestOK, LiveEntries, LockHolder, index
  <2>4. CASE Heartbeat(c)
    BY <1>1, <2>4 DEF Heartbeat, Free, RestOK, LiveEntries, LockHolder
  <2>5. CASE TimeOut(c)
    BY <1>1, <2>5 DEF TimeOut, RestOK, LiveEntries, LockHolder
  <2>6. CASE Cleanup
    BY <1>1, <2>6 DEF Cleanup, Silent, Free, RestOK, LiveEntries, LockHolder
  <2>7. CASE UNCHANGED vars
    BY <1>1, <2>7 DEF vars, RestOK, LiveEntries, LockHolder, index
  <2> QED
    BY <2>1, <2>2, <2>3, <2>4, <2>5, <2>6, <2>7
<1> QED
  BY <1>2, <1>3, InvPartsNext

\* Every step preserves the invariant.
LEMMA NextInv == RegistryInv /\ [Next]_vars => RegistryInv'
<1> SUFFICES ASSUME RegistryInv, [Next]_vars PROVE RegistryInv'
  OBVIOUS
<1>1. CASE \E c \in Conns : \E valid \in BOOLEAN : Register(c, valid)
  BY <1>1, RegisterInv
<1>2. CASE \E c \in Conns : \E valid \in BOOLEAN : Replace(c, valid)
  BY <1>2, ReplaceInv
<1>3. CASE \E c \in Conns : Leave(c)
  BY <1>3, LeaveInv
<1>4. CASE \E c \in Conns : CleanupOne(c)
  BY <1>4, CleanupOneInv
<1>5. CASE \E c \in Conns : Connect(c) \/ CloseOld(c) \/ Disconnect(c) \/ Heartbeat(c) \/ TimeOut(c)
  BY <1>5, QuietInv
<1>6. CASE Cleanup
  <2>1. PICK c \in Conns : c \in agents
    BY <1>6, InvParts DEF Cleanup, Silent, IndexOK
  <2> QED
    BY <1>6, QuietInv
<1>7. CASE UNCHANGED vars
  <2>1. IndexOK' /\ RestOK'
    BY <1>7, InvParts, SameIndex
       DEF vars, index, IndexOK, RestOK, LiveEntries, LockHolder
  <2> QED
    BY <2>1, InvPartsNext
<1> QED
  BY <1>1, <1>2, <1>3, <1>4, <1>5, <1>6, <1>7 DEF Next

\* Type correctness and the safety of the registry: the indexes are inverse to each
\* other, websockets, schemas and capabilities are those of the registered
\* connections, and OFFLINE is not seen from outside, for any number of agents that
\* connect any number of times.
THEOREM RegistrySafe ==
  Spec => [](TypeOK /\ IndexesInverse /\ FollowsRegistration /\ OfflineOnlyInCleanup)
<1>1. RegistryInv => TypeOK /\ IndexesInverse /\ FollowsRegistration /\ OfflineOnlyInCleanup
  BY DEF RegistryInv, OfflineOnlyInCleanup, LockHolder, Free
<1> QED
  BY InitInv, NextInv, <1>1, PTL DEF Spec

\* A connection loses its entry by its own end, by its silence, or by the next
\* registration of its own agent, and in no other way.
THEOREM EntriesEndThemselves == Spec => OnlyOwnEnd
<1> DEFINE A == \A c \in Conns : (c \in agents /\ c \notin agents') =>
                  \/ phase[c] = "live" /\ phase'[c] = "gone"
                  \/ c \in stale /\ c \in dead
                  \/ replacing \in Conns /\ AgentOf[replacing] = AgentOf[c]
<1>1. RegistryInv /\ [Next]_vars => A
  <2> SUFFICES ASSUME RegistryInv, [Next]_vars, NEW c \in Conns, c \in agents, c \notin agents'
               PROVE  \/ phase[c] = "live" /\ phase'[c] = "gone"
                      \/ c \in stale /\ c \in dead
                      \/ replacing \in Conns /\ AgentOf[replacing] = AgentOf[c]
    OBVIOUS
  <2>1. IndexOK /\ RestOK
    BY InvParts
  <2>2. ASSUME NEW d \in Conns, NEW valid \in BOOLEAN, Register(d, valid) PROVE FALSE
    <3>1. CASE valid
      BY <2>1, <2>2, <3>1, AddStep DEF Register
    <3>2. CASE ~valid
      BY <2>2, <3>2 DEF Register, index
    <3> QED
      BY <3>1, <3>2
  <2>3. ASSUME NEW d \in Conns, NEW valid \in BOOLEAN, Replace(d, valid)
        PROVE  replacing \in Conns /\ AgentOf[replacing] = AgentOf[c]
    <3>1. PICK e : e = connOf[AgentOf[d]]
      OBVIOUS
    <3>a. replacing = d
      BY <2>3 DEF Replace
    <3>b. e \in Conns /\ AgentOf[e] = AgentOf[d]
      BY <2>1, <3>1, <3>a, AgentOfAssumption, NoConnAssumption
         DEF RestOK, LockHolder, IndexOK, OwnKeys
    <3>2. replacing = d /\ e \in agents /\ e \in Conns /\ AgentOf[e] = AgentOf[d]
      BY <2>1, <3>1, <3>a, <3>b DEF IndexOK, IndexesInverse
    <3>3. SetIndex(Add(Remove(Index, e), d)) \/ SetIndex(Remove(Index, e))
      BY <2>3, <3>1 DEF Replace, SetIndex
    <3>4. agents \ {e} \subseteq agents'
      BY <2>1, <3>2, <3>3, ReplaceStep, RemoveStep
    <3> QED
      BY <3>2, <3>4
  <2>4. ASSUME NEW d \in Conns, Leave(d)
        PROVE  phase[c] = "live" /\ phase'[c] = "gone"
    <3>1. CASE d \in agents
      <4>1. agents' = agents \ {d}
        BY <2>1, <2>4, <3>1, RemoveStep DEF Leave
      <4> QED
        BY <2>1, <2>4, <4>1 DEF Leave, RestOK
    <3>2. CASE d \notin agents
      BY <2>4, <3>2 DEF Leave, index
    <3> QED
      BY <3>1, <3>2
  <2>5. ASSUME NEW d \in Conns, CleanupOne(d)
        PROVE  c \in stale /\ c \in dead
    <3>1. d \in agents
      BY <2>1, <2>5 DEF CleanupOne, RestOK
    <3>2. agents' = agents \ {d}
      BY <2>1, <2>5, <3>1, RemoveStep DEF CleanupOne
    <3> QED
      BY <2>1, <2>5, <3>2 DEF CleanupOne, RestOK, LockHolder
  <2>6. ASSUME NEW d \in Conns,
               Connect(d) \/ CloseOld(d) \/ Disconnect(d) \/ Heartbeat(d) \/ TimeOut(d)
        PROVE  FALSE
    BY <2>6 DEF Connect, CloseOld, Disconnect, Heartbeat, TimeOut, index
  <2>7. CASE Cleanup \/ UNCHANGED vars
    BY <2>7 DEF Cleanup, vars, index
  <2> QED
    BY <2>2, <2>3, <2>4, <2>5, <2>6, <2>7 DEF Next
<1> QED
  BY InitInv, NextInv, <1>1, PTL DEF Spec, OnlyOwnEnd

-----------------------------------------------------------------------------
(* The registry implements the directory.                                  *)

\* What lookups answer follows from the agents' connections alone.
LEMMA NextLookups ==
  ASSUME IndexOK'
  PROVE  Directory!Becomes(connOf')
<1>1. /\ connOf' \in [Agents -> Conns \cup {NoConn}] /\ agents' \subseteq Conns
      /\ providers' \in [Capabilities -> SUBSET Agents]
      /\ schemas' \in [Agents -> Conns \cup {NoConn}]
  BY DEF IndexOK
<1>2. \A c \in Conns : c \in agents' <=> connOf'[AgentOf[c]] = c
  BY DEF IndexOK, IndexesInverse
<1>3. \A a \in Agents : /\ connOf'[a] # NoConn => AgentOf[connOf'[a]] = a
                        /\ schemas'[a] # NoConn => AgentOf[schemas'[a]] = a
  BY DEF IndexOK, OwnKeys
<1>4. agents' = Directory!Listed(connOf')
  BY <1>1, <1>2, <1>3, AgentOfAssumption, NoConnAssumption DEF Directory!Listed
<1>5. \A c \in Conns : (c \in agents' /\ SchemasOf[c] # {}) <=> schemas'[AgentOf[c]] = c
  BY DEF IndexOK, FollowsRegistration
<1>6. \A k \in Capabilities, a \in Agents :
         a \in providers'[k] <=> connOf'[a] # NoConn /\ k \in SchemasOf[connOf'[a]]
  <2> SUFFICES ASSUME NEW k \in Capabilities, NEW a \in Agents
               PROVE  a \in providers'[k] <=>
                         connOf'[a] # NoConn /\ k \in SchemasOf[connOf'[a]]
    OBVIOUS
  <2>1. a \in providers'[k] <=> \E c \in Conns : schemas'[a] = c /\ k \in SchemasOf[c]
    BY DEF IndexOK, FollowsRegistration
  <2>2. ASSUME NEW c \in Conns, schemas'[a] = c PROVE connOf'[a] = c
    BY <1>2, <1>3, <1>5, <2>2, NoConnAssumption
  <2>3. ASSUME connOf'[a] # NoConn, k \in SchemasOf[connOf'[a]]
        PROVE  connOf'[a] \in Conns /\ schemas'[a] = connOf'[a]
    BY <1>1, <1>2, <1>3, <1>5, <2>3
  <2> QED
    BY <2>1, <2>2, <2>3, NoConnAssumption
<1>7. providers' = Directory!Offering(connOf')
  BY <1>1, <1>6 DEF Directory!Offering
<1> QED
  BY <1>4, <1>7 DEF Directory!Becomes

\* Where connections have moved, in a step that gives the place of a's connection up
\* and leaves c in p.
MovedTo(a, c, p) ==
    \A d \in Conns :
        Place(d)' = IF d = c THEN p ELSE IF d = connOf[a] THEN "out" ELSE Place(d)

LEMMA MovedIs ==
  ASSUME NEW a, NEW c, NEW p, MovedTo(a, c, p)
  PROVE  [d \in Conns |-> Place(d)]' = Directory!Moved(a, c, p)
<1>1. \A d \in Conns : [e \in Conns |-> Place(e)][d] = Place(d)
  OBVIOUS
<1> QED
  BY <1>1 DEF MovedTo, Directory!Moved

\* An entry's connection is in, and an agent has no other.
LEMMA EntryIsIn ==
  ASSUME IndexOK, NEW c \in Conns
  PROVE  Place(c) = "in" <=> connOf[AgentOf[c]] = c
BY DEF IndexOK, IndexesInverse, Place

\* A registration, suspended or not, admits its connection or refuses it.
LEMMA RegisterIsStep ==
  ASSUME RegistryInv, NEW c \in Conns, NEW valid \in BOOLEAN, Register(c, valid)
  PROVE  Directory!Admit(c) \/ Directory!Refuse(c)
<1>1. IndexOK /\ RestOK /\ IndexOK'
  BY RegisterInv, InvParts, InvPartsNext
<1>2. c \notin agents /\ phase[c] = "registering" /\ connOf[AgentOf[c]] = NoConn
  BY <1>1 DEF Register, RestOK, LiveEntries
<1>3. Place(c) = "new"
  BY <1>2 DEF Place
<1>4. CASE valid
  <2>1. SetIndex(Add(Index, c)) /\ phase' = [phase EXCEPT ![c] = "live"]
    BY <1>4 DEF Register
  <2>2. agents' = agents \cup {c} /\ connOf' = [connOf EXCEPT ![AgentOf[c]] = c]
    BY <1>1, <1>2, <2>1, AddStep
  <2>3. MovedTo(AgentOf[c], c, "in")
    BY <1>1, <1>2, <2>1, <2>2, NoConnAssumption DEF MovedTo, Place, RestOK
  <2> QED
    BY <1>1, <1>3, <2>2, <2>3, NextLookups, MovedIs DEF Directory!Admit
<1>5. CASE ~valid
  <2>1. UNCHANGED index /\ phase' = [phase EXCEPT ![c] = "gone"]
    BY <1>5 DEF Register
  <2>2. connOf' = [connOf EXCEPT ![AgentOf[c]] = NoConn]
    BY <1>1, <1>2, <2>1 DEF index, IndexOK
  <2>3. MovedTo(AgentOf[c], c, "out")
    BY <1>1, <1>2, <2>1, NoConnAssumption DEF MovedTo, Place, RestOK, index
  <2> QED
    BY <1>1, <1>3, <2>2, <2>3, NextLookups, MovedIs DEF Directory!Refuse
<1> QED
  BY <1>4, <1>5

LEMMA ReplaceIsStep ==
  ASSUME RegistryInv, NEW c \in Conns, NEW valid \in BOOLEAN, Replace(c, valid)
  PROVE  Directory!Admit(c) \/ Directory!Refuse(c)
<1>1. IndexOK /\ RestOK /\ IndexOK'
  BY ReplaceInv, InvParts, InvPartsNext
<1>2. PICK d : d = connOf[AgentOf[c]]
  OBVIOUS
<1>3. d \in agents /\ d \in Conns /\ AgentOf[d] = AgentOf[c]
  BY <1>1, <1>2, AgentOfAssumption, NoConnAssumption
     DEF Replace, RestOK, LockHolder, IndexOK, OwnKeys, IndexesInverse
<1>4. phase[c] = "registering" /\ c \notin agents /\ phase[d] = "live" /\ c # d
  BY <1>1, <1>3, NoConnAssumption DEF Replace, RestOK, LockHolder, LiveEntries
<1>5. Place(c) = "new"
  BY <1>4 DEF Place
<1>6. CASE valid
  <2>1. SetIndex(Add(Remove(Index, d), c)) /\ phase' = [phase EXCEPT ![c] = "live"]
    BY <1>2, <1>6 DEF Replace, SetIndex
  <2>2. agents' = (agents \ {d}) \cup {c} /\ connOf' = [connOf EXCEPT ![AgentOf[c]] = c]
    BY <1>1, <1>3, <2>1, ReplaceStep
  <2>3. MovedTo(AgentOf[c], c, "in")
    BY <1>1, <1>2, <1>3, <1>4, <2>1, <2>2 DEF MovedTo, Place, RestOK
  <2> QED
    BY <1>1, <1>5, <2>2, <2>3, NextLookups, MovedIs DEF Directory!Admit
<1>7. CASE ~valid
  <2>1. SetIndex(Remove(Index, d)) /\ phase' = [phase EXCEPT ![c] = "gone"]
    BY <1>2, <1>7 DEF Replace, SetIndex
  <2>2. agents' = agents \ {d} /\ connOf' = [connOf EXCEPT ![AgentOf[c]] = NoConn]
    BY <1>1, <1>3, <2>1, RemoveStep
  <2>3. MovedTo(AgentOf[c], c, "out")
    BY <1>1, <1>2, <1>3, <1>4, <2>1, <2>2 DEF MovedTo, Place, RestOK
  <2> QED
    BY <1>1, <1>5, <2>2, <2>3, NextLookups, MovedIs DEF Directory!Refuse
<1> QED
  BY <1>6, <1>7

\* The removal of a connection that has its entry dismisses it.
LEMMA RemoveIsStep ==
  ASSUME RegistryInv, IndexOK', NEW c \in Conns, c \in agents, SetIndex(Remove(Index, c)),
         phase' = phase \/ phase' = [phase EXCEPT ![c] = "gone"]
  PROVE  Directory!Dismiss(c)
<1>1. IndexOK /\ RestOK
  BY InvParts
<1>2. agents' = agents \ {c} /\ connOf' = [connOf EXCEPT ![AgentOf[c]] = NoConn]
  BY <1>1, RemoveStep
<1>3. connOf[AgentOf[c]] = c /\ phase[c] = "live" /\ Place(c) = "in"
  BY <1>1, EntryIsIn DEF IndexOK, IndexesInverse, RestOK, LiveEntries
<1>4. MovedTo(AgentOf[c], c, "out")
  BY <1>1, <1>2, <1>3 DEF MovedTo, Place, RestOK
<1> QED
  BY <1>2, <1>3, <1>4, NextLookups, MovedIs DEF Directory!Dismiss

\* A step in which no connection moves and no lookup changes.
LEMMA NoMove ==
  ASSUME UNCHANGED <<agents, connOf, providers>>, \A c \in Conns : Place(c)' = Place(c)
  PROVE  UNCHANGED Directory!directoryVars
BY DEF Directory!directoryVars

\* Every step of the registry is one of the directory, or none.
LEMMA StepIsDirectory ==
  ASSUME RegistryInv, [Next]_vars
  PROVE  [Directory!DirectoryNext]_(Directory!directoryVars)
<1>1. IndexOK /\ RestOK /\ IndexOK'
  BY NextInv, InvParts, InvPartsNext
<1>2. ASSUME NEW c \in Conns, NEW valid \in BOOLEAN, Register(c, valid) \/ Replace(c, valid)
      PROVE  Directory!DirectoryNext
  BY <1>2, RegisterIsStep, ReplaceIsStep DEF Directory!DirectoryNext
<1>3. ASSUME NEW c \in Conns, CleanupOne(c)
      PROVE  Directory!DirectoryNext
  <2>1. c \in agents /\ SetIndex(Remove(Index, c)) /\ phase' = phase
    BY <1>1, <1>3 DEF CleanupOne, RestOK
  <2> QED
    BY <1>1, <2>1, RemoveIsStep DEF Directory!DirectoryNext
<1>4. ASSUME NEW c \in Conns, Leave(c)
      PROVE  Directory!DirectoryNext \/ UNCHANGED Directory!directoryVars
  <2>1. CASE c \in agents
    <3>1. SetIndex(Remove(Index, c)) /\ phase' = [phase EXCEPT ![c] = "gone"]
      BY <1>4, <2>1 DEF Leave
    <3> QED
      BY <1>1, <2>1, <3>1, RemoveIsStep DEF Directory!DirectoryNext
  <2>2. CASE c \notin agents
    <3>1. UNCHANGED index /\ phase[c] = "live" /\ phase' = [phase EXCEPT ![c] = "gone"]
      BY <1>4, <2>2 DEF Leave
    <3>2. \A d \in Conns : Place(d)' = Place(d)
      BY <1>1, <2>2, <3>1 DEF Place, RestOK, index
    <3> QED
      BY <3>1, <3>2, NoMove DEF index
  <2> QED
    BY <2>1, <2>2
<1>5. ASSUME NEW c \in Conns, Connect(c)
      PROVE  UNCHANGED Directory!directoryVars
  <2>1. \A d \in Conns : Place(d)' = Place(d)
    BY <1>1, <1>5 DEF Connect, Place, RestOK, index
  <2> QED
    BY <1>5, <2>1, NoMove DEF Connect, index
<1>6. ASSUME NEW c \in Conns,
             \/ CloseOld(c) \/ Disconnect(c) \/ Heartbeat(c) \/ TimeOut(c)
             \/ Cleanup \/ UNCHANGED vars
      PROVE  UNCHANGED Directory!directoryVars
  <2>1. UNCHANGED <<phase, agents, connOf, providers>>
    BY <1>6 DEF CloseOld, Disconnect, Heartbeat, TimeOut, Cleanup, vars, index
  <2> QED
    BY <2>1, NoMove DEF Place
<1>7. CASE Cleanup \/ UNCHANGED vars
  <2>1. UNCHANGED <<phase, agents, connOf, providers>>
    BY <1>7 DEF Cleanup, vars, index
  <2> QED
    BY <2>1, NoMove DEF Place
<1> QED
  BY <1>2, <1>3, <1>4, <1>5, <1>6, <1>7 DEF Next

\* The registry implements the directory of AgentDirectory: whatever closes in between
\* and whoever waits for the lock, an agent's connection changes at one moment for all
\* lookups, and a connection that has lost its entry never gets one again.
THEOREM RegistryImplementsDirectory == Spec => DirectoryKept
<1>1. Init => Directory!DirectoryInit
  BY DEF Init, Directory!DirectoryInit, Place
<1> QED
  BY <1>1, InitInv, NextInv, StepIsDirectory, PTL
     DEF Spec, DirectoryKept, Directory!DirectorySpec

=============================================================================
