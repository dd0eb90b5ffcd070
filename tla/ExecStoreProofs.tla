-------------------------- MODULE ExecStoreProofs --------------------------
(***************************************************************************)
(* Proofs about ExecStore, for any calls, executions and keys and any      *)
(* number of faults.  What is recorded once is there or has expired: what  *)
(* each call has found so far (PutInv, UpdateInv) rests on that.  In       *)
(* memory and in SQL the store implements ExecPort: what a call does, it   *)
(* does at one moment.                                                     *)
(***************************************************************************)
EXTENDS ExecStore, TLAPS

Labels == {"new", "looking", "inserting", "reading", "indexing", "writing", "done", "crashed"}

Answers == [exec : ExecIds \cup {NoId}, created : BOOLEAN]

ExecTypeOK ==
    /\ adapter \in Adapters
    /\ stored \subseteq ExecIds
    /\ updates \in [ExecIds -> SUBSET Updates]
    /\ by_key \in [Keys -> ExecIds \cup {NoId}]
    /\ pc \in [Puts \cup Updates -> Labels]
    /\ answer \in [Puts -> Answers]
    /\ copy \in [Updates -> SUBSET Updates]
    /\ expired \subseteq ExecIds \cup Keys
    /\ before \in [Puts -> SUBSET Answers]

\* The executions that were recorded so far.
Once == stored \cup expired

\* The key of x leads to a record, or it has expired.
Reachable(x) == KeyOf[x] \in Keys => by_key[KeyOf[x]] # NoId \/ KeyOf[x] \in expired

\* The exception of Idempotent.
Excused(x) == (SameKey(x) \cup {x, KeyOf[x]}) \cap expired # {}

\* A key leads to a record of the key; without expiry there is one at most.
KeysInv ==
    /\ \A k \in Keys : by_key[k] # NoId => KeyOf[by_key[k]] = k /\ by_key[k] \in Once
    /\ adapter # "redis" => expired = {}
    /\ OneRecordPerKey

\* What a call has found by the time it is at a label.
Position(p) ==
    /\ pc[p] = "done" =>
         /\ answer[p].exec = NoId \/ answer[p].exec \in Once
         /\ answer[p].created => answer[p].exec = ExecOf[p] /\ Reachable(ExecOf[p])
    /\ pc[p] \in {"reading", "indexing"} => ExecOf[p] \in Once
    /\ pc[p] = "looking" =>
         ~answer[p].created /\ answer[p].exec \in SameKey(ExecOf[p]) \cap Once
    /\ \A a \in before[p] : a.exec = NoId \/ a.exec \in Once

\* The answer a, returned before p began, does not forbid what p is about to do.
Allows(p, a) ==
    /\ adapter = "redis" /\ pc[p] \in {"inserting", "reading", "indexing"}
         /\ a.created /\ a.exec \in SameKey(ExecOf[p]) => Excused(ExecOf[p])
    /\ adapter = "redis" /\ pc[p] = "indexing" /\ a.exec = ExecOf[p] => Excused(ExecOf[p])
    /\ pc[p] = "done" /\ answer[p].created
         /\ (a.exec = ExecOf[p] \/ (a.created /\ a.exec \in SameKey(ExecOf[p])))
         => Excused(ExecOf[p])

PutInv(p) == Position(p) /\ \A a \in before[p] : Allows(p, a)

\* Another update, which had not read u, has written since.
Overwritten(u) ==
    adapter = "redis" /\ \E v \in Updates \ {u} :
        ExecOf[v] = ExecOf[u] /\ pc[v] = "done" /\ u \notin copy[v]

\* A call of set_status has read a record, and what it wrote is kept.
UpdateInv(u) ==
    /\ pc[u] \in {"writing", "done"} => ExecOf[u] \in Once
    /\ pc[u] = "done" =>
         \/ u \in updates[ExecOf[u]]
         \/ ExecOf[u] \in expired
         \/ Overwritten(u)

StoreInv ==
    /\ ExecTypeOK /\ KeysInv
    /\ \A p \in Puts : PutInv(p)
    /\ \A u \in Updates : UpdateInv(u)

-----------------------------------------------------------------------------
(* Lemmas.                                                                 *)

LEMMA ConstantsAre ==
  /\ \A c \in Puts \cup Updates : ExecOf[c] \in ExecIds
  /\ \A x \in ExecIds : KeyOf[x] \in Keys \cup {NoKey}
  /\ NoId \notin ExecIds /\ NoKey \notin Keys /\ \A p \in Puts : p \notin Updates
BY ExecAssumption

LEMMA InitInv == ExecInit => StoreInv
<1> SUFFICES ASSUME ExecInit PROVE StoreInv
  OBVIOUS
<1>1. ExecTypeOK
  BY DEF ExecInit, ExecTypeOK, Labels, Answers, Nothing
<1>2. KeysInv
  BY DEF ExecInit, KeysInv, OneRecordPerKey
<1>3. \A p \in Puts : PutInv(p)
  BY DEF ExecInit, PutInv, Position, Allows
<1>4. \A u \in Updates : UpdateInv(u)
  BY DEF ExecInit, UpdateInv
<1> QED
  BY <1>1, <1>2, <1>3, <1>4 DEF StoreInv

\* What a put finds is a record.
LEMMA FoundIs ==
  ASSUME ExecTypeOK, NEW x \in ExecIds
  PROVE  /\ ByKey(x) \in ExecIds \cup {NoId}
         /\ Found(x) \in ExecIds \cup {NoId}
         /\ Found(x) # NoId => Found(x) \in stored
         /\ Found(x) = NoId => x \notin stored /\ ByKey(x) \notin stored
BY ConstantsAre DEF ExecTypeOK, ByKey, Found

LEMMA PutType ==
  ASSUME ExecTypeOK, NEW p \in Puts, Put(p)
  PROVE  ExecTypeOK'
<1> DEFINE x == ExecOf[p]
<1>1. /\ x \in ExecIds /\ Nothing \in Answers /\ Created(x) \in Answers
      /\ \A y \in ExecIds \cup {NoId} : Existing(y) \in Answers
      /\ \A y \in Answers : y.exec \in ExecIds \cup {NoId}
  BY ConstantsAre DEF Answers, Nothing, Created, Existing
<1>2. ASSUME NEW a \in Answers, Return(p, a)
      PROVE  pc' \in [Puts \cup Updates -> Labels] /\ answer' \in [Puts -> Answers]
  BY <1>2 DEF ExecTypeOK, Return, Goto, Labels
<1>3. ASSUME Insert(x)
      PROVE  stored' \subseteq ExecIds /\ updates' \in [ExecIds -> SUBSET Updates]
  BY <1>1, <1>3 DEF ExecTypeOK, Insert
<1>4. ASSUME Index(x)
      PROVE  by_key' \in [Keys -> ExecIds \cup {NoId}]
  BY <1>1, <1>4 DEF ExecTypeOK, Index
<1>5. ASSUME Begin(p)
      PROVE  before' \in [Puts -> SUBSET Answers]
  BY <1>5 DEF ExecTypeOK, Begin
<1>6. ASSUME NEW l \in Labels, Goto(p, l)
      PROVE  pc' \in [Puts \cup Updates -> Labels]
  BY <1>6 DEF ExecTypeOK, Goto
<1>7. ByKey(x) \in ExecIds \cup {NoId} /\ Found(x) \in ExecIds \cup {NoId}
  BY <1>1, FoundIs
<1>8. {"looking", "inserting", "reading", "indexing", "done"} \subseteq Labels
  BY DEF Labels
<1> HIDE DEF x
<1>9. CASE MemoryPut(p)
  BY <1>1, <1>2, <1>3, <1>4, <1>5, <1>7, <1>9 DEF MemoryPut, ExecTypeOK, recordVars, x
<1>10. CASE SqlLook(p)
  BY <1>1, <1>2, <1>5, <1>6, <1>7, <1>8, <1>10 DEF SqlLook, ExecTypeOK, recordVars, x
<1>11. CASE SqlInsert(p)
  BY <1>1, <1>2, <1>3, <1>4, <1>11 DEF SqlInsert, ExecTypeOK, recordVars, x
<1>12. CASE RedisLook(p)
  <2>1. answer' \in [Puts -> Answers]
    BY <1>1, <1>7, <1>12 DEF RedisLook, ExecTypeOK, x
  <2> QED
    BY <1>5, <1>6, <1>8, <1>12, <2>1 DEF RedisLook, ExecTypeOK, recordVars
<1>13. CASE RedisGetByKey(p)
  <2>1. answer[p] \in Answers
    BY DEF ExecTypeOK
  <2> QED
    BY <1>2, <1>6, <1>8, <1>13, <2>1 DEF RedisGetByKey, ExecTypeOK, recordVars
<1>14. CASE RedisInsert(p)
  BY <1>3, <1>6, <1>8, <1>14 DEF RedisInsert, ExecTypeOK, x
<1>15. CASE RedisGetById(p)
  BY <1>1, <1>2, <1>6, <1>8, <1>15 DEF RedisGetById, ExecTypeOK, recordVars, x
<1>16. CASE RedisIndex(p)
  BY <1>1, <1>2, <1>4, <1>16 DEF RedisIndex, ExecTypeOK, x
<1> QED
  BY <1>9, <1>10, <1>11, <1>12, <1>13, <1>14, <1>15, <1>16 DEF Put

LEMMA OtherType ==
  ASSUME ExecTypeOK,
         \/ \E u \in Updates : Update(u)
         \/ \E c \in Puts \cup Updates : Crash(c)
         \/ \E x \in ExecIds : RecordExpires(x)
         \/ \E k \in Keys : KeyExpires(k)
         \/ UNCHANGED execVars
  PROVE  ExecTypeOK'
<1>1. ASSUME NEW u \in Updates, Update(u)
      PROVE  ExecTypeOK'
  <2>1. ExecOf[u] \in ExecIds
    BY ConstantsAre
  <2>2. CASE SetStatus(u)
    BY <2>1, <2>2 DEF SetStatus, Goto, ExecTypeOK, Labels
  <2>3. CASE RedisRead(u)
    BY <2>1, <2>3 DEF RedisRead, Goto, ExecTypeOK, Labels, recordVars
  <2>4. CASE RedisWrite(u)
    BY <2>1, <2>4 DEF RedisWrite, Goto, ExecTypeOK, Labels
  <2> QED
    BY <1>1, <2>2, <2>3, <2>4 DEF Update
<1>2. ASSUME NEW c \in Puts \cup Updates, Crash(c)
      PROVE  ExecTypeOK'
  BY <1>2 DEF Crash, Goto, ExecTypeOK, Labels, recordVars
<1>3. ASSUME NEW x \in ExecIds, RecordExpires(x)
      PROVE  ExecTypeOK'
  BY <1>3 DEF RecordExpires, ExecTypeOK
<1>4. ASSUME NEW k \in Keys, KeyExpires(k)
      PROVE  ExecTypeOK'
  BY <1>4 DEF KeyExpires, ExecTypeOK
<1>5. CASE UNCHANGED execVars
  BY <1>5 DEF execVars, recordVars, ExecTypeOK
<1> QED
  BY <1>1, <1>2, <1>3, <1>4, <1>5

LEMMA TypeStep == ExecTypeOK /\ [ExecNext]_execVars => ExecTypeOK'
BY PutType, OtherType DEF ExecNext

-----------------------------------------------------------------------------
(* What only grows.                                                        *)

\* What expired stays so, and what was recorded stays or expires.
Grown ==
    /\ adapter' = adapter
    /\ Once \subseteq Once'
    /\ expired \subseteq expired'
    /\ \A x \in ExecIds : Reachable(x) => Reachable(x)'

LEMMA GrownByPut ==
  ASSUME ExecTypeOK, NEW p \in Puts, Put(p)
  PROVE  Grown /\ expired' = expired
<1> DEFINE x == ExecOf[p]
<1>1. x \in ExecIds /\ NoId \notin ExecIds
  BY ConstantsAre
<1>2. adapter' = adapter /\ expired' = expired
  BY DEF Put, MemoryPut, SqlLook, SqlInsert, RedisLook, RedisGetByKey, RedisInsert,
         RedisGetById, RedisIndex
<1>3. stored' = stored \/ Insert(x)
  BY DEF Put, MemoryPut, SqlLook, SqlInsert, RedisLook, RedisGetByKey, RedisInsert,
         RedisGetById, RedisIndex, recordVars
<1>4. by_key' = by_key \/ Index(x)
  BY DEF Put, MemoryPut, SqlLook, SqlInsert, RedisLook, RedisGetByKey, RedisInsert,
         RedisGetById, RedisIndex, recordVars
<1>5. Once \subseteq Once'
  BY <1>2, <1>3 DEF Once, Insert
<1>6. ASSUME NEW y \in ExecIds, Reachable(y)
      PROVE  Reachable(y)'
  BY <1>1, <1>2, <1>4, <1>6 DEF Reachable, Index
<1> QED
  BY <1>2, <1>5, <1>6 DEF Grown

LEMMA GrownByOther ==
  ASSUME ExecTypeOK,
         \/ \E u \in Updates : Update(u)
         \/ \E c \in Puts \cup Updates : Crash(c)
         \/ \E x \in ExecIds : RecordExpires(x)
         \/ \E k \in Keys : KeyExpires(k)
  PROVE  Grown
<1>1. ASSUME NEW u \in Updates, Update(u)
      PROVE  Grown
  BY <1>1 DEF Grown, Once, Reachable, Update, SetStatus, RedisRead, RedisWrite, recordVars
<1>2. ASSUME NEW c \in Puts \cup Updates, Crash(c)
      PROVE  Grown
  BY <1>2 DEF Grown, Once, Reachable, Crash, recordVars
<1>3. ASSUME NEW x \in ExecIds, RecordExpires(x)
      PROVE  Grown
  BY <1>3 DEF Grown, Once, Reachable, RecordExpires
<1>4. ASSUME NEW k \in Keys, KeyExpires(k)
      PROVE  Grown
  <2>1. /\ adapter' = adapter /\ stored' = stored /\ expired' = expired \cup {k}
        /\ by_key' = [by_key EXCEPT ![k] = NoId]
    BY <1>4 DEF KeyExpires
  <2>2. ASSUME NEW y \in ExecIds, Reachable(y)
        PROVE  Reachable(y)'
    BY <2>1, <2>2 DEF Reachable, ExecTypeOK
  <2> QED
    BY <2>1, <2>2 DEF Grown, Once
<1> QED
  BY <1>1, <1>2, <1>3, <1>4

\* A call of put_if_absent that does not act keeps what it has found.
LEMMA PutIdle ==
  ASSUME ExecTypeOK, Grown, NEW q \in Puts, PutInv(q),
         pc'[q] = pc[q], answer'[q] = answer[q], before'[q] = before[q]
  PROVE  PutInv(q)'
<1>1. ExecOf[q] \in ExecIds
  BY ConstantsAre
<1>2. Position(q)'
  BY <1>1 DEF PutInv, Position, Grown
<1>3. Excused(ExecOf[q]) => Excused(ExecOf[q])'
  BY DEF Excused, Grown
<1>4. ASSUME NEW a \in before[q]
      PROVE  Allows(q, a)'
  BY <1>3, <1>4 DEF PutInv, Allows, Grown
<1> QED
  BY <1>2, <1>4 DEF PutInv

\* A put moves no other call.
LEMMA PutMovesOne ==
  ASSUME ExecTypeOK, NEW p \in Puts, Put(p)
  PROVE  /\ copy' = copy
         /\ \A c \in Puts \cup Updates : c # p => pc'[c] = pc[c]
         /\ \A q \in Puts : q # p => answer'[q] = answer[q] /\ before'[q] = before[q]
         /\ pc[p] # "done"
<1>1. ASSUME NEW a, Return(p, a)
      PROVE  /\ \A c \in Puts \cup Updates : c # p => pc'[c] = pc[c]
             /\ \A q \in Puts : q # p => answer'[q] = answer[q]
  BY <1>1 DEF Return, Goto, ExecTypeOK
<1>2. ASSUME NEW l, Goto(p, l)
      PROVE  \A c \in Puts \cup Updates : c # p => pc'[c] = pc[c]
  BY <1>2 DEF Goto, ExecTypeOK
<1>3. Begin(p) => pc[p] # "done" /\ \A q \in Puts : q # p => before'[q] = before[q]
  BY DEF Begin, ExecTypeOK
<1>4. CASE MemoryPut(p)
  BY <1>1, <1>3, <1>4 DEF MemoryPut
<1>5. CASE SqlLook(p)
  BY <1>1, <1>2, <1>3, <1>5 DEF SqlLook
<1>6. CASE SqlInsert(p)
  BY <1>1, <1>6 DEF SqlInsert
<1>7. CASE RedisLook(p)
  BY <1>2, <1>3, <1>7 DEF RedisLook, ExecTypeOK
<1>8. CASE RedisGetByKey(p)
  BY <1>1, <1>2, <1>8 DEF RedisGetByKey
<1>9. CASE RedisInsert(p)
  BY <1>2, <1>9 DEF RedisInsert
<1>10. CASE RedisGetById(p)
  BY <1>1, <1>2, <1>10 DEF RedisGetById
<1>11. CASE RedisIndex(p)
  BY <1>1, <1>11 DEF RedisIndex
<1> QED
  BY <1>4, <1>5, <1>6, <1>7, <1>8, <1>9, <1>10, <1>11 DEF Put

-----------------------------------------------------------------------------
(* Keys.                                                                   *)

\* Without expiry, a record that has a key is the one that the key leads to.
LEMMA KeyLeadsTo ==
  ASSUME KeysInv, adapter # "redis",
         NEW y \in stored, NEW z \in SameKey(y) \cap stored
  PROVE  /\ z \in ExecIds /\ KeyOf[y] \in Keys /\ KeyOf[z] = KeyOf[y]
         /\ z = by_key[KeyOf[y]]
BY DEF KeysInv, OneRecordPerKey, SameKey, ByKey

\* A record is inserted with its key when neither was found: the key is led to no
\* other record.
LEMMA InsertKeepsKeys ==
  ASSUME ExecTypeOK, KeysInv, adapter # "redis",
         NEW x \in ExecIds, Found(x) = NoId, Insert(x), Index(x)
  PROVE  OneRecordPerKey'
<1> SUFFICES ASSUME NEW y \in stored', NEW z \in SameKey(y) \cap stored'
             PROVE  z = ByKey(y)'
  BY DEF OneRecordPerKey
<1>1. ByKey(x) \notin stored
  BY FoundIs
<1>2. y \in ExecIds /\ z \in ExecIds /\ KeyOf[y] \in Keys /\ KeyOf[z] = KeyOf[y]
  BY DEF SameKey, Insert, ExecTypeOK
<1>3. ByKey(y)' = by_key'[KeyOf[y]]
  BY <1>2 DEF ByKey
<1>4. CASE KeyOf[y] = KeyOf[x]
  <2>1. ByKey(y)' = x
    BY <1>2, <1>3, <1>4 DEF Index
  <2>2. ASSUME z # x
        PROVE  FALSE
    <3>1. z \in stored /\ z \in SameKey(z) \cap stored
      BY <1>2, <2>2 DEF Insert, SameKey
    <3>2. z = by_key[KeyOf[z]]
      BY <3>1, KeyLeadsTo
    <3> QED
      BY <1>1, <1>2, <1>4, <3>1, <3>2 DEF ByKey
  <2> QED
    BY <2>1, <2>2
<1>5. CASE KeyOf[y] # KeyOf[x]
  <2>1. y \in stored /\ z \in SameKey(y) \cap stored
    BY <1>2, <1>5 DEF Insert
  <2>2. z = by_key[KeyOf[y]]
    BY <2>1, KeyLeadsTo
  <2> QED
    BY <1>2, <1>3, <1>5, <2>2 DEF Index
<1> QED
  BY <1>4, <1>5

LEMMA KeysByPut ==
  ASSUME ExecTypeOK, KeysInv, NEW p \in Puts, PutInv(p), Put(p)
  PROVE  KeysInv'
<1> DEFINE x == ExecOf[p]
<1>1. x \in ExecIds /\ NoId \notin ExecIds
  BY ConstantsAre
<1>2. adapter' = adapter /\ expired' = expired /\ Once \subseteq Once'
  BY GrownByPut DEF Grown
<1>3. CASE UNCHANGED <<by_key, stored>>
  BY <1>2, <1>3 DEF KeysInv, Once, OneRecordPerKey, ByKey
<1>4. ASSUME Index(x), x \in Once'
      PROVE  \A k \in Keys :
                by_key'[k] # NoId => KeyOf[by_key'[k]] = k /\ by_key'[k] \in Once'
  BY <1>2, <1>4 DEF Index, KeysInv
<1>5. ASSUME adapter # "redis", Found(x) = NoId, Insert(x), Index(x)
      PROVE  KeysInv'
  <2>1. x \in Once'
    BY <1>5 DEF Insert, Once
  <2>2. OneRecordPerKey'
    BY <1>1, <1>5, InsertKeepsKeys
  <2> QED
    BY <1>2, <1>4, <1>5, <2>1, <2>2 DEF KeysInv
<1>6. CASE adapter # "redis"
  BY <1>3, <1>5, <1>6 DEF Put, MemoryPut, SqlLook, SqlInsert, RedisLook, RedisGetByKey,
         RedisInsert, RedisGetById, RedisIndex, recordVars
<1>7. CASE adapter = "redis"
  <2>1. CASE by_key' = by_key
    BY <1>2, <1>7, <2>1 DEF KeysInv, OneRecordPerKey
  <2>2. CASE RedisIndex(p)
    <3>1. Index(x) /\ x \in Once
      BY <2>2 DEF RedisIndex, PutInv, Position
    <3> QED
      BY <1>2, <1>4, <1>7, <3>1 DEF KeysInv, OneRecordPerKey
  <2> QED
    BY <1>7, <2>1, <2>2 DEF Put, MemoryPut, SqlLook, SqlInsert, RedisLook, RedisGetByKey,
         RedisInsert, RedisGetById, recordVars
<1> QED
  BY <1>6, <1>7

LEMMA KeysByOther ==
  ASSUME ExecTypeOK, KeysInv,
         \/ \E u \in Updates : Update(u)
         \/ \E c \in Puts \cup Updates : Crash(c)
         \/ \E x \in ExecIds : RecordExpires(x)
         \/ \E k \in Keys : KeyExpires(k)
  PROVE  KeysInv'
<1>1. Grown
  BY GrownByOther
<1>2. ASSUME NEW u \in Updates, Update(u)
      PROVE  /\ by_key' = by_key /\ expired' = expired
             /\ adapter # "redis" => stored' = stored
  BY <1>2 DEF Update, SetStatus, RedisRead, RedisWrite, recordVars
<1>3. ASSUME NEW c \in Puts \cup Updates, Crash(c)
      PROVE  by_key' = by_key /\ expired' = expired /\ stored' = stored
  BY <1>3 DEF Crash, recordVars
<1>4. ASSUME by_key' = by_key, expired' = expired, adapter # "redis" => stored' = stored
      PROVE  KeysInv'
  BY <1>1, <1>4 DEF KeysInv, Grown, OneRecordPerKey, ByKey
<1>5. ASSUME NEW x \in ExecIds, RecordExpires(x)
      PROVE  KeysInv'
  BY <1>1, <1>5 DEF KeysInv, Grown, OneRecordPerKey, RecordExpires
<1>6. ASSUME NEW k \in Keys, KeyExpires(k)
      PROVE  KeysInv'
  <2>1. adapter = "redis" /\ by_key' = [by_key EXCEPT ![k] = NoId]
    BY <1>6 DEF KeyExpires
  <2>2. \A j \in Keys : by_key'[j] # NoId => by_key'[j] = by_key[j]
    BY <2>1 DEF ExecTypeOK
  <2> QED
    BY <1>1, <2>1, <2>2 DEF KeysInv, Grown, OneRecordPerKey
<1> QED
  BY <1>2, <1>3, <1>4, <1>5, <1>6

-----------------------------------------------------------------------------
(* Calls of put_if_absent.                                                 *)

\* An answer that forbids p to create its record.
Forbids(p, a) == a.exec = ExecOf[p] \/ (a.created /\ a.exec \in SameKey(ExecOf[p]))

\* What expires of its own execution or its key excuses a call.
LEMMA ExcusedBy ==
  ASSUME NEW x \in ExecIds, NEW y \in SameKey(x) \cup {x, KeyOf[x]}, y \in expired
  PROVE  Excused(x)
BY DEF Excused

\* The answers that have been returned are of what was recorded.
LEMMA AnswersKnown ==
  ASSUME ExecTypeOK, \A q \in Puts : PutInv(q), NEW p \in Puts, Begin(p),
         NEW a \in before'[p]
  PROVE  /\ a.exec = NoId \/ a.exec \in Once
         /\ a.created => a.exec \in ExecIds /\ Reachable(a.exec)
<1>1. PICK q \in Puts : pc[q] = "done" /\ a = answer[q]
  BY DEF Begin, ExecTypeOK
<1>2. ExecOf[q] \in ExecIds
  BY ConstantsAre
<1> QED
  BY <1>1, <1>2 DEF PutInv, Position

\* Without expiry, whoever finds nothing has not been forbidden anything.
LEMMA CreatesAllowed ==
  ASSUME ExecTypeOK, KeysInv, adapter # "redis", NEW p \in Puts, Found(ExecOf[p]) = NoId,
         NEW a, a.exec = NoId \/ a.exec \in Once
  PROVE  ~Forbids(p, a)
<1> DEFINE x == ExecOf[p]
<1>1. x \in ExecIds /\ NoId \notin ExecIds
  BY ConstantsAre
<1>2. x \notin stored /\ ByKey(x) \notin stored
  BY <1>1, FoundIs
<1>3. Once = stored
  BY DEF Once, KeysInv
<1>4. a.exec # x
  BY <1>1, <1>2, <1>3
<1>5. ASSUME a.exec \in SameKey(x)
      PROVE  FALSE
  <2>1. a.exec \in stored /\ KeyOf[a.exec] = KeyOf[x] /\ KeyOf[x] \in Keys
    BY <1>1, <1>3, <1>5 DEF SameKey
  <2>2. a.exec \in SameKey(a.exec) \cap stored
    BY <1>5, <2>1 DEF SameKey
  <2>3. a.exec = by_key[KeyOf[x]]
    BY <2>1, <2>2, KeyLeadsTo
  <2> QED
    BY <1>2, <2>1, <2>3 DEF ByKey
<1> QED
  BY <1>4, <1>5 DEF Forbids

\* The call that acts in memory or in SQL: it looks and creates what it has not found.
LEMMA PutActs ==
  ASSUME ExecTypeOK, KeysInv, adapter # "redis", NEW p \in Puts, Put(p),
         \A q \in Puts : PutInv(q)
  PROVE  PutInv(p)'
<1> DEFINE x == ExecOf[p]
<1>1. x \in ExecIds /\ NoId \notin ExecIds
  BY ConstantsAre
<1>2. /\ adapter' = adapter /\ Once \subseteq Once'
      /\ MemoryPut(p) \/ SqlLook(p) \/ SqlInsert(p)
  BY GrownByPut DEF Grown, Put, RedisLook, RedisGetByKey, RedisInsert, RedisGetById, RedisIndex
<1>3. \A a \in before'[p] : a.exec = NoId \/ a.exec \in Once
  <2>1. CASE Begin(p)
    BY <2>1, AnswersKnown
  <2>2. CASE before' = before
    BY <2>2 DEF PutInv, Position
  <2> QED
    BY <1>2, <2>1, <2>2 DEF MemoryPut, SqlLook, SqlInsert
<1>4. ASSUME NEW y \in stored, Return(p, Existing(y))
      PROVE  PutInv(p)'
  <2>1. pc'[p] = "done" /\ answer'[p].exec = y /\ ~answer'[p].created
    BY <1>4 DEF Return, Goto, Existing, ExecTypeOK
  <2> QED
    BY <1>2, <1>3, <1>4, <2>1 DEF PutInv, Position, Allows, Once
<1>5. ASSUME Found(x) = NoId, Return(p, Created(x)), Insert(x), Index(x)
      PROVE  PutInv(p)'
  <2>1. pc'[p] = "done" /\ answer'[p].exec = x
    BY <1>5 DEF Return, Goto, Created, ExecTypeOK
  <2>2. x \in Once' /\ Reachable(x)'
    BY <1>1, <1>5 DEF Once, Insert, Index, Reachable
  <2>3. \A a \in before'[p] : ~Forbids(p, a)
    BY <1>3, <1>5, CreatesAllowed
  <2>4. Position(p)'
    BY <1>2, <1>3, <2>1, <2>2 DEF Position
  <2>5. \A a \in before'[p] : Allows(p, a)'
    BY <1>2, <2>1, <2>3 DEF Allows, Forbids
  <2> QED
    BY <2>4, <2>5 DEF PutInv
<1>6. CASE MemoryPut(p)
  <2>1. Found(x) # NoId => Found(x) \in stored
    BY <1>1, FoundIs
  <2> QED
    BY <1>4, <1>5, <1>6, <2>1 DEF MemoryPut
<1>7. CASE SqlLook(p)
  <2>1. Found(x) # NoId => Found(x) \in stored
    BY <1>1, FoundIs
  <2>2. CASE Goto(p, "inserting")
    <3>1. pc'[p] = "inserting"
      BY <2>2 DEF Goto, ExecTypeOK
    <3> QED
      BY <1>2, <1>3, <3>1 DEF PutInv, Position, Allows
  <2> QED
    BY <1>4, <1>7, <2>1, <2>2 DEF SqlLook
<1>8. CASE SqlInsert(p)
  <2>1. CASE Return(p, Nothing)
    <3>1. pc'[p] = "done" /\ answer'[p].exec = NoId /\ ~answer'[p].created
      BY <2>1 DEF Return, Goto, Nothing, ExecTypeOK
    <3> QED
      BY <1>2, <1>3, <3>1 DEF PutInv, Position, Allows
  <2> QED
    BY <1>5, <1>8, <2>1 DEF SqlInsert
<1> QED
  BY <1>2, <1>6, <1>7, <1>8

\* The call that acts in Redis, command by command.
LEMMA RedisPutActs ==
  ASSUME ExecTypeOK, KeysInv, adapter = "redis", NEW p \in Puts, Put(p),
         \A q \in Puts : PutInv(q)
  PROVE  PutInv(p)'
<1> DEFINE x == ExecOf[p]
<1>1. x \in ExecIds /\ NoId \notin ExecIds
  BY ConstantsAre
<1>2. /\ adapter' = adapter /\ expired' = expired /\ Once \subseteq Once'
      /\ \/ RedisLook(p) \/ RedisGetByKey(p) \/ RedisInsert(p)
         \/ RedisGetById(p) \/ RedisIndex(p)
  BY GrownByPut DEF Grown, Put, MemoryPut, SqlLook, SqlInsert
<1>3. Excused(x)' <=> Excused(x)
  BY <1>2 DEF Excused
<1>4. /\ Position(p)
      /\ \A a \in before[p] : a.exec = NoId \/ a.exec \in Once
      /\ \A a \in before[p] : Allows(p, a)
  BY DEF PutInv, Position
\* Where a step leads, what has to be known there.
<1>5. ASSUME pc'[p] = "looking", answer'[p] = Existing(ByKey(x)),
             ByKey(x) \in SameKey(x) \cap Once,
             \A a \in before'[p] : a.exec = NoId \/ a.exec \in Once
      PROVE  PutInv(p)'
  BY <1>2, <1>5 DEF PutInv, Position, Allows, Existing
<1>6. ASSUME pc'[p] = "inserting",
             \A a \in before'[p] : a.exec = NoId \/ a.exec \in Once,
             \A a \in before'[p] : a.created /\ a.exec \in SameKey(x) => Excused(x)
      PROVE  PutInv(p)'
  BY <1>2, <1>3, <1>6 DEF PutInv, Position, Allows
<1>7. ASSUME pc'[p] = "done", answer'[p].exec \in Once, ~answer'[p].created,
             before'[p] = before[p]
      PROVE  PutInv(p)'
  BY <1>2, <1>4, <1>7 DEF PutInv, Position, Allows
<1>8. ASSUME pc'[p] = "indexing", before'[p] = before[p], x \in Once',
             \A a \in before[p] : Forbids(p, a) => Excused(x)
      PROVE  PutInv(p)'
  BY <1>2, <1>3, <1>4, <1>8 DEF PutInv, Position, Allows, Forbids
<1>9. CASE RedisLook(p)
  <2>1. Begin(p) /\ answer'[p] = Existing(ByKey(x))
    BY <1>9 DEF RedisLook, ExecTypeOK
  <2>2. \A a \in before'[p] : a.exec = NoId \/ a.exec \in Once
    BY <2>1, AnswersKnown
  <2>3. CASE ByKey(x) = NoId
    <3>1. pc'[p] = "inserting"
      BY <1>9, <2>3 DEF RedisLook, Goto, ExecTypeOK
    <3>2. ASSUME NEW a \in before'[p], a.created, a.exec \in SameKey(x)
          PROVE  Excused(x)
      <4>1. Reachable(a.exec) /\ KeyOf[a.exec] = KeyOf[x] /\ KeyOf[x] \in Keys
        BY <2>1, <3>2, AnswersKnown DEF SameKey
      <4>2. by_key[KeyOf[x]] = NoId
        BY <2>3, <4>1 DEF ByKey
      <4>3. KeyOf[x] \in expired
        BY <4>1, <4>2 DEF Reachable
      <4> QED
        BY <1>1, <4>3, ExcusedBy
    <3> QED
      BY <1>6, <2>2, <3>1, <3>2
  <2>4. CASE ByKey(x) # NoId
    <3>1. pc'[p] = "looking"
      BY <1>9, <2>4 DEF RedisLook, Goto, ExecTypeOK
    <3>2. KeyOf[x] \in Keys /\ ByKey(x) = by_key[KeyOf[x]] /\ ByKey(x) \in ExecIds
      BY <1>1, <2>4 DEF ByKey, ExecTypeOK
    <3>3. ByKey(x) \in SameKey(x) \cap Once
      BY <2>4, <3>2 DEF KeysInv, SameKey
    <3> QED
      BY <1>5, <2>1, <2>2, <3>1, <3>3
  <2> QED
    BY <2>3, <2>4
<1>10. CASE RedisGetByKey(p)
  <2>1. ~answer[p].created /\ answer[p].exec \in SameKey(x) \cap Once
    BY <1>4, <1>10 DEF RedisGetByKey, Position
  <2>2. CASE answer[p].exec \in stored
    BY <1>7, <1>10, <2>1, <2>2 DEF RedisGetByKey, Return, Goto, ExecTypeOK
  <2>3. CASE answer[p].exec \notin stored
    <3>1. Excused(x)
      BY <1>1, <2>1, <2>3, ExcusedBy DEF Once
    <3>2. pc'[p] = "inserting" /\ before' = before
      BY <1>10, <2>3 DEF RedisGetByKey, Goto, ExecTypeOK
    <3> QED
      BY <1>4, <1>6, <3>1, <3>2
  <2> QED
    BY <2>2, <2>3
<1>11. CASE RedisInsert(p)
  <2>1. before' = before /\ pc[p] = "inserting"
    BY <1>11 DEF RedisInsert
  <2>2. \A a \in before[p] : a.created /\ a.exec \in SameKey(x) => Excused(x)
    BY <1>4, <2>1 DEF Allows
  <2>3. CASE x \in stored
    <3>1. pc'[p] = "reading" /\ x \in Once
      BY <1>11, <2>3 DEF RedisInsert, Goto, ExecTypeOK, Once
    <3> QED
      BY <1>2, <1>3, <1>4, <2>1, <2>2, <3>1 DEF PutInv, Position, Allows
  <2>4. CASE x \notin stored
    <3>1. pc'[p] = "indexing" /\ x \in Once'
      BY <1>11, <2>4 DEF RedisInsert, Goto, Insert, ExecTypeOK, Once
    <3>2. x \in Once => Excused(x)
      BY <1>1, <2>4, ExcusedBy DEF Once
    <3> QED
      BY <1>1, <1>4, <1>8, <2>1, <2>2, <3>1, <3>2 DEF Forbids
  <2> QED
    BY <2>3, <2>4
<1>12. CASE RedisGetById(p)
  <2>1. before' = before /\ pc[p] = "reading"
    BY <1>12 DEF RedisGetById
  <2>2. x \in Once
    BY <1>4, <2>1 DEF Position
  <2>3. CASE x \in stored
    <3>1. pc'[p] = "done" /\ answer'[p] = Existing(x)
      BY <1>12, <2>3 DEF RedisGetById, Return, Goto, ExecTypeOK
    <3> QED
      BY <1>7, <2>1, <2>2, <3>1 DEF Existing
  <2>4. CASE x \notin stored
    <3>1. pc'[p] = "indexing"
      BY <1>12, <2>4 DEF RedisGetById, Goto, ExecTypeOK
    <3>2. Excused(x)
      BY <1>1, <2>2, <2>4, ExcusedBy DEF Once
    <3> QED
      BY <1>2, <1>8, <2>1, <2>2, <3>1, <3>2
  <2> QED
    BY <2>3, <2>4
<1>13. CASE RedisIndex(p)
  <2>1. before' = before /\ pc[p] = "indexing" /\ Index(x) /\ Return(p, Created(x))
    BY <1>13 DEF RedisIndex
  <2>2. pc'[p] = "done" /\ answer'[p].exec = x
    BY <2>1 DEF Return, Goto, Created, ExecTypeOK
  <2>3. x \in Once /\ Reachable(x)'
    BY <1>1, <1>4, <2>1 DEF Position, Reachable, Index
  <2>4. \A a \in before[p] : Forbids(p, a) => Excused(x)
    BY <1>4, <2>1 DEF Allows, Forbids
  <2>5. Position(p)'
    BY <1>2, <1>4, <2>1, <2>2, <2>3 DEF Position
  <2>6. \A a \in before'[p] : Allows(p, a)'
    BY <1>3, <2>1, <2>2, <2>4 DEF Allows, Forbids
  <2> QED
    BY <2>5, <2>6 DEF PutInv
<1> QED
  BY <1>2, <1>9, <1>10, <1>11, <1>12, <1>13

LEMMA PutsByPut ==
  ASSUME ExecTypeOK, KeysInv, NEW p \in Puts, Put(p), \A q \in Puts : PutInv(q)
  PROVE  \A q \in Puts : PutInv(q)'
<1>1. PutInv(p)'
  BY PutActs, RedisPutActs
<1>2. ASSUME NEW q \in Puts, q # p
      PROVE  PutInv(q)'
  <2>1. pc'[q] = pc[q] /\ answer'[q] = answer[q] /\ before'[q] = before[q]
    BY <1>2, PutMovesOne
  <2> QED
    BY <2>1, GrownByPut, PutIdle
<1> QED
  BY <1>1, <1>2

LEMMA PutsByOther ==
  ASSUME ExecTypeOK, \A q \in Puts : PutInv(q),
         \/ \E u \in Updates : Update(u)
         \/ \E c \in Puts \cup Updates : Crash(c)
         \/ \E x \in ExecIds : RecordExpires(x)
         \/ \E k \in Keys : KeyExpires(k)
  PROVE  \A q \in Puts : PutInv(q)'
<1> SUFFICES ASSUME NEW q \in Puts
             PROVE  PutInv(q)'
  OBVIOUS
<1>1. Grown
  BY GrownByOther
<1>2. answer' = answer /\ before' = before
  BY DEF Update, SetStatus, RedisRead, RedisWrite, Crash, RecordExpires, KeyExpires
<1>3. CASE pc'[q] = pc[q]
  BY <1>1, <1>2, <1>3, PutIdle
<1>4. CASE \E c \in Puts \cup Updates : Crash(c)
  <2>1. PICK c \in Puts \cup Updates : Crash(c)
    BY <1>4
  <2>2. CASE c = q
    <3>1. pc'[q] = "crashed"
      BY <2>1, <2>2 DEF Crash, Goto, ExecTypeOK
    <3> QED
      BY <1>1, <1>2, <3>1 DEF PutInv, Position, Allows, Grown
  <2>3. CASE c # q
    BY <1>3, <2>1, <2>3 DEF Crash, Goto, ExecTypeOK
  <2> QED
    BY <2>2, <2>3
<1>5. ASSUME NEW u \in Updates, Update(u)
      PROVE  pc'[q] = pc[q]
  BY <1>5, ConstantsAre DEF Update, SetStatus, RedisRead, RedisWrite, Goto, ExecTypeOK
<1>6. CASE \E x \in ExecIds : RecordExpires(x)
  BY <1>3, <1>6 DEF RecordExpires
<1>7. CASE \E k \in Keys : KeyExpires(k)
  BY <1>3, <1>7 DEF KeyExpires
<1> QED
  BY <1>3, <1>4, <1>5, <1>6, <1>7

-----------------------------------------------------------------------------
(* Calls of set_status.                                                    *)

\* A call that does not act keeps what it has written, unless it is overwritten.
LEMMA UpdateIdle ==
  ASSUME Grown, NEW u \in Updates, UpdateInv(u), pc'[u] = pc[u],
         pc[u] = "done" => \/ u \in updates[ExecOf[u]] => u \in updates'[ExecOf[u]]
                           \/ ExecOf[u] \in expired'
                           \/ Overwritten(u)',
         \A v \in Updates : pc[v] = "done" => pc'[v] = "done" /\ copy'[v] = copy[v]
  PROVE  UpdateInv(u)'
<1>1. Overwritten(u) => Overwritten(u)'
  BY DEF Overwritten, Grown
<1> QED
  BY <1>1 DEF UpdateInv, Grown

LEMMA UpdatesByPut ==
  ASSUME ExecTypeOK, NEW p \in Puts, Put(p), \A u \in Updates : UpdateInv(u)
  PROVE  \A u \in Updates : UpdateInv(u)'
<1> SUFFICES ASSUME NEW u \in Updates
             PROVE  UpdateInv(u)'
  OBVIOUS
<1> DEFINE x == ExecOf[p]
<1>1. Grown /\ expired' = expired
  BY GrownByPut
<1>2. /\ pc'[u] = pc[u]
      /\ \A v \in Updates : pc[v] = "done" => pc'[v] = "done" /\ copy'[v] = copy[v]
  BY PutMovesOne, ConstantsAre
<1>3. updates' = updates \/ (Insert(x) /\ x \notin stored)
  <2>1. x \in ExecIds
    BY ConstantsAre
  <2>2. Found(x) = NoId => x \notin stored
    BY <2>1, FoundIs
  <2> QED
    BY <2>2 DEF Put, MemoryPut, SqlLook, SqlInsert, RedisLook, RedisGetByKey, RedisInsert,
       RedisGetById, RedisIndex, recordVars
<1>4. ASSUME pc[u] = "done"
      PROVE  (u \in updates[ExecOf[u]] => u \in updates'[ExecOf[u]]) \/ ExecOf[u] \in expired'
  <2>1. ExecOf[u] \in stored \cup expired
    BY <1>4 DEF UpdateInv, Once
  <2> QED
    BY <1>1, <1>3, <2>1 DEF Insert, ExecTypeOK
<1> QED
  BY <1>1, <1>2, <1>4, UpdateIdle

LEMMA UpdatesByUpdate ==
  ASSUME ExecTypeOK, NEW w \in Updates, Update(w), \A u \in Updates : UpdateInv(u)
  PROVE  \A u \in Updates : UpdateInv(u)'
<1> SUFFICES ASSUME NEW u \in Updates
             PROVE  UpdateInv(u)'
  OBVIOUS
<1>1. Grown
  BY GrownByOther
<1>2. pc[w] # "done" /\ \A v \in Updates : v # w => pc'[v] = pc[v] /\ copy'[v] = copy[v]
  BY DEF Update, SetStatus, RedisRead, RedisWrite, Goto, ExecTypeOK
<1>3. ExecOf[w] \in ExecIds
  BY ConstantsAre
<1>4. CASE u = w
  <2>1. CASE RedisRead(u)
    <3>1. pc'[u] = "writing" /\ ExecOf[u] \in Once
      BY <2>1 DEF RedisRead, Goto, ExecTypeOK, Once
    <3> QED
      BY <1>1, <3>1 DEF UpdateInv, Grown
  <2>2. CASE SetStatus(u) \/ RedisWrite(u)
    <3>1. u \in updates'[ExecOf[u]]
      BY <1>3, <1>4, <2>2 DEF SetStatus, RedisWrite, ExecTypeOK
    <3>2. ExecOf[u] \in Once
      BY <2>2 DEF SetStatus, RedisWrite, UpdateInv, Once
    <3> QED
      BY <1>1, <3>1, <3>2 DEF UpdateInv, Grown
  <2> QED
    BY <1>4, <2>1, <2>2 DEF Update
<1>5. CASE u # w
  <2>1. ASSUME u \in updates[ExecOf[u]]
        PROVE  u \in updates'[ExecOf[u]] \/ Overwritten(u)'
    <3>1. CASE SetStatus(w)
      BY <1>3, <2>1, <3>1 DEF SetStatus, ExecTypeOK
    <3>2. CASE RedisRead(w)
      BY <2>1, <3>2 DEF RedisRead, recordVars
    <3>3. CASE RedisWrite(w)
      <4>1. /\ adapter' = "redis" /\ pc'[w] = "done" /\ copy' = copy
            /\ updates' = [updates EXCEPT ![ExecOf[w]] = copy[w] \cup {w}]
        BY <3>3 DEF RedisWrite, Goto, ExecTypeOK
      <4>2. CASE ExecOf[w] = ExecOf[u]
        BY <1>3, <1>5, <4>1, <4>2 DEF Overwritten, ExecTypeOK
      <4>3. CASE ExecOf[w] # ExecOf[u]
        BY <2>1, <4>1, <4>3 DEF ExecTypeOK
      <4> QED
        BY <4>2, <4>3
    <3> QED
      BY <3>1, <3>2, <3>3 DEF Update
  <2> QED
    BY <1>1, <1>2, <1>5, <2>1, UpdateIdle
<1> QED
  BY <1>4, <1>5

LEMMA UpdatesByFault ==
  ASSUME ExecTypeOK, \A u \in Updates : UpdateInv(u),
         \/ \E c \in Puts \cup Updates : Crash(c)
         \/ \E x \in ExecIds : RecordExpires(x)
         \/ \E k \in Keys : KeyExpires(k)
  PROVE  \A u \in Updates : UpdateInv(u)'
<1> SUFFICES ASSUME NEW u \in Updates
             PROVE  UpdateInv(u)'
  OBVIOUS
<1>1. Grown
  BY GrownByOther
<1>2. ASSUME NEW c \in Puts \cup Updates, Crash(c)
      PROVE  UpdateInv(u)'
  <2>1. /\ copy' = copy /\ updates' = updates
        /\ \A v \in Updates : pc[v] = "done" => pc'[v] = "done"
    BY <1>2 DEF Crash, Goto, ExecTypeOK, recordVars
  <2>2. CASE c = u
    <3>1. pc'[u] = "crashed"
      BY <1>2, <2>2 DEF Crash, Goto, ExecTypeOK
    <3> QED
      BY <3>1 DEF UpdateInv
  <2>3. CASE c # u
    <3>1. pc'[u] = pc[u]
      BY <1>2, <2>3 DEF Crash, Goto, ExecTypeOK
    <3> QED
      BY <1>1, <2>1, <3>1, UpdateIdle
  <2> QED
    BY <2>2, <2>3
<1>3. ASSUME NEW x \in ExecIds, RecordExpires(x)
      PROVE  UpdateInv(u)'
  <2>1. /\ pc' = pc /\ copy' = copy /\ x \in expired'
        /\ updates' = [updates EXCEPT ![x] = {}]
    BY <1>3 DEF RecordExpires
  <2>2. (u \in updates[ExecOf[u]] => u \in updates'[ExecOf[u]]) \/ ExecOf[u] \in expired'
    BY <2>1 DEF ExecTypeOK
  <2> QED
    BY <1>1, <2>1, <2>2, UpdateIdle
<1>4. ASSUME NEW k \in Keys, KeyExpires(k)
      PROVE  UpdateInv(u)'
  <2>1. pc' = pc /\ copy' = copy /\ updates' = updates
    BY <1>4 DEF KeyExpires
  <2> QED
    BY <1>1, <2>1, UpdateIdle
<1> QED
  BY <1>2, <1>3, <1>4

-----------------------------------------------------------------------------
(* The theorem.                                                            *)

LEMMA NextInv == StoreInv /\ [ExecNext]_execVars => StoreInv'
<1> SUFFICES ASSUME StoreInv, [ExecNext]_execVars
             PROVE  StoreInv'
  OBVIOUS
<1>1. /\ ExecTypeOK /\ KeysInv /\ ExecTypeOK'
      /\ \A p \in Puts : PutInv(p)
      /\ \A u \in Updates : UpdateInv(u)
  BY TypeStep DEF StoreInv
<1>2. ASSUME NEW p \in Puts, Put(p)
      PROVE  StoreInv'
  BY <1>1, <1>2, KeysByPut, PutsByPut, UpdatesByPut DEF StoreInv
<1>3. ASSUME NEW u \in Updates, Update(u)
      PROVE  StoreInv'
  BY <1>1, <1>3, KeysByOther, PutsByOther, UpdatesByUpdate DEF StoreInv
<1>4. CASE \/ \E c \in Puts \cup Updates : Crash(c)
           \/ \E x \in ExecIds : RecordExpires(x)
           \/ \E k \in Keys : KeyExpires(k)
  BY <1>1, <1>4, KeysByOther, PutsByOther, UpdatesByFault DEF StoreInv
<1>5. CASE UNCHANGED execVars
  <2>1. KeysInv'
    BY <1>1, <1>5 DEF execVars, recordVars, KeysInv, OneRecordPerKey, Once, ByKey
  <2>2. Grown
    BY <1>5 DEF execVars, recordVars, Grown, Once, Reachable
  <2>3. \A p \in Puts : PutInv(p)'
    BY <1>1, <1>5, <2>2, PutIdle DEF execVars
  <2>4. \A u \in Updates : UpdateInv(u)'
    BY <1>1, <1>5, <2>2, UpdateIdle DEF execVars, recordVars
  <2> QED
    BY <1>1, <2>1, <2>3, <2>4 DEF StoreInv
<1> QED
  BY <1>2, <1>3, <1>4, <1>5 DEF ExecNext

\* The promises of the execution store (src/storage/ports.py, ExecStore), for any calls
\* in any interleaving, any keys that expire and any clients that crash: put_if_absent
\* creates nothing twice except after expiry, in memory and in SQL two records never
\* share an idempotency key, and an update that was answered is kept except for
\* expiry and, in Redis, for an update that had read the record before.
THEOREM ExecStoreSafe == ExecSpec => [](Idempotent /\ OneRecordPerKey /\ UpdatesKept)
<1>1. StoreInv => Idempotent /\ OneRecordPerKey /\ UpdatesKept
  <2> SUFFICES ASSUME StoreInv
               PROVE  Idempotent /\ OneRecordPerKey /\ UpdatesKept
    OBVIOUS
  <2>1. Idempotent
    BY DEF StoreInv, PutInv, Allows, Idempotent, Excused
  <2>2. OneRecordPerKey
    BY DEF StoreInv, KeysInv
  <2>3. UpdatesKept
    BY DEF StoreInv, UpdateInv, UpdatesKept, Overwritten
  <2> QED
    BY <2>1, <2>2, <2>3
<1> QED
  BY InitInv, NextInv, <1>1, PTL DEF ExecSpec

-----------------------------------------------------------------------------
(* In memory and in SQL, a call takes effect at one moment.                *)

\* Without Redis a call is at no label of its commands, and a put that has still to act
\* has no answer yet.
LabelsInv ==
    adapter # "redis" =>
        /\ \A c \in Puts \cup Updates : pc[c] \in {"new", "inserting", "done", "crashed"}
        /\ \A p \in Puts : pc[p] \in {"new", "inserting"} => answer[p] = Nothing

PortStage == [c \in Puts \cup Updates |-> StageOf(pc[c])]

LEMMA StagesAre ==
  /\ StageOf("new") = "new" /\ StageOf("inserting") = "new"
  /\ StageOf("done") = "done" /\ StageOf("crashed") = "lost"
BY DEF StageOf

\* A call that goes from a label to another one changes its own stage only.
LEMMA StageMoves ==
  ASSUME ExecTypeOK, NEW c \in Puts \cup Updates, NEW l, Goto(c, l)
  PROVE  /\ PortStage' = [PortStage EXCEPT ![c] = StageOf(l)]
         /\ PortStage[c] = StageOf(pc[c])
         /\ StageOf(l) = StageOf(pc[c]) => PortStage' = PortStage
<1>1. /\ pc'[c] = l /\ \A d \in Puts \cup Updates : d # c => pc'[d] = pc[d]
  BY DEF Goto, ExecTypeOK
<1> QED
  BY <1>1 DEF PortStage

\* The records that match x are those that are found, the one of the key first.
LEMMA FoundMatches ==
  ASSUME ExecTypeOK, KeysInv, adapter # "redis", NEW x \in ExecIds
  PROVE  /\ Found(x) = NoId => Port!Matching(x) = {}
         /\ Found(x) # NoId => /\ Found(x) \in Port!Matching(x) /\ Found(x) \in ExecIds
                               /\ Port!OfKey(x) # {} => Found(x) \in Port!OfKey(x)
<1>1. /\ \A y \in stored : y \in ExecIds /\ y # NoId
      /\ x # NoId /\ KeyOf[x] \in Keys \cup {NoKey} /\ NoKey \notin Keys
  BY ConstantsAre DEF ExecTypeOK
<1>2. ASSUME NEW y \in stored, KeyOf[y] \in Keys, KeyOf[y] = KeyOf[x]
      PROVE  y = ByKey(x)
  <2>1. y \in SameKey(y) \cap stored
    BY <1>1, <1>2 DEF SameKey
  <2> QED
    BY <1>2, <2>1, KeyLeadsTo DEF ByKey
<1>3. ByKey(x) \in stored => KeyOf[ByKey(x)] = KeyOf[x] /\ KeyOf[x] \in Keys
  BY <1>1 DEF KeysInv, ByKey
<1>4. Port!OfKey(x) = IF ByKey(x) \in stored THEN {ByKey(x)} ELSE {}
  BY <1>2, <1>3 DEF Port!OfKey
<1> QED
  BY <1>1, <1>4 DEF Found, Port!Matching

LEMMA LabelsStep ==
  ASSUME StoreInv, LabelsInv, [ExecNext]_execVars
  PROVE  LabelsInv' /\ adapter' = adapter
<1>1. ExecTypeOK
  BY DEF StoreInv
<1>2. adapter' = adapter
  BY DEF ExecNext, Put, Update, MemoryPut, SqlLook, SqlInsert, RedisLook, RedisGetByKey,
         RedisInsert, RedisGetById, RedisIndex, SetStatus, RedisRead, RedisWrite,
         RecordExpires, KeyExpires, Crash, execVars
<1>3. ASSUME adapter # "redis", NEW p \in Puts, Put(p)
      PROVE  LabelsInv'
  <2>1. \/ Goto(p, "inserting") /\ answer' = answer
        \/ Goto(p, "done") /\ \E a : answer' = [answer EXCEPT ![p] = a]
    BY <1>3 DEF Put, MemoryPut, SqlLook, SqlInsert, RedisLook, RedisGetByKey,
                RedisInsert, RedisGetById, RedisIndex, Return
  <2>2. pc[p] \in {"new", "inserting"}
    BY <1>3 DEF Put, MemoryPut, SqlLook, SqlInsert, Begin, RedisLook, RedisGetByKey,
                RedisInsert, RedisGetById, RedisIndex
  <2> QED
    BY <1>1, <1>3, <2>1, <2>2 DEF LabelsInv, Goto, ExecTypeOK
<1>4. ASSUME adapter # "redis", NEW u \in Updates, Update(u)
      PROVE  LabelsInv'
  <2>1. Goto(u, "done") /\ answer' = answer
    BY <1>4 DEF Update, SetStatus, RedisRead, RedisWrite
  <2> QED
    BY <1>1, <1>4, <2>1 DEF LabelsInv, Goto, ExecTypeOK
<1>5. ASSUME adapter # "redis", NEW c \in Puts \cup Updates, Crash(c)
      PROVE  LabelsInv'
  <2>1. Goto(c, "crashed") /\ answer' = answer
    BY <1>5 DEF Crash
  <2> QED
    BY <1>1, <1>5, <2>1 DEF LabelsInv, Goto, ExecTypeOK
<1>6. ASSUME adapter # "redis", \/ \E x \in ExecIds : RecordExpires(x)
                                \/ \E k \in Keys : KeyExpires(k)
                                \/ UNCHANGED execVars
      PROVE  LabelsInv'
  BY <1>6 DEF RecordExpires, KeyExpires, execVars, LabelsInv
<1>7. adapter = "redis" => LabelsInv'
  BY <1>2 DEF LabelsInv
<1> QED
  BY <1>2, <1>3, <1>4, <1>5, <1>6, <1>7 DEF ExecNext

LEMMA PutIsPort ==
  ASSUME StoreInv, LabelsInv, adapter # "redis", NEW p \in Puts, Put(p)
  PROVE  Port!PortNext \/ UNCHANGED Port!portVars
<1> DEFINE x == ExecOf[p]
<1>1. /\ ExecTypeOK /\ KeysInv /\ x \in ExecIds /\ p \in Puts \cup Updates
  BY ConstantsAre DEF StoreInv
<1>2. MemoryPut(p) \/ SqlLook(p) \/ SqlInsert(p)
  BY DEF Put, RedisLook, RedisGetByKey, RedisInsert, RedisGetById, RedisIndex
<1>3. pc[p] \in {"new", "inserting"} /\ PortStage[p] = "new"
  <2>1. pc[p] \in {"new", "inserting"}
    BY <1>2 DEF MemoryPut, SqlLook, SqlInsert, Begin
  <2> QED
    BY <2>1, StagesAre DEF PortStage
<1>4. ASSUME NEW a, Return(p, a)
      PROVE  /\ Port!Ends(p, "done")
             /\ answer' = [answer EXCEPT ![p] = a]
  <2>1. Goto(p, "done") /\ answer' = [answer EXCEPT ![p] = a]
    BY <1>4 DEF Return
  <2>2. PortStage[p] = "new" /\ PortStage' = [PortStage EXCEPT ![p] = "done"]
    BY <1>1, <1>3, <2>1, StageMoves, StagesAre
  <2> QED
    BY <2>1, <2>2 DEF Port!Ends, PortStage
<1>5. ASSUME Found(x) # NoId, Return(p, Existing(Found(x))), UNCHANGED recordVars
      PROVE  Port!PortNext
  <2>1. Port!ReturnExisting(p, Found(x)) /\ Found(x) \in ExecIds
    BY <1>1, <1>4, <1>5, FoundMatches DEF Port!ReturnExisting, Existing, recordVars
  <2> QED
    BY <2>1 DEF Port!PortNext
<1>6. ASSUME Found(x) = NoId, Return(p, Created(x)), Insert(x)
      PROVE  Port!PortNext
  <2>1. Port!Create(p)
    BY <1>1, <1>4, <1>6, FoundMatches DEF Port!Create, Created, Insert
  <2> QED
    BY <2>1 DEF Port!PortNext
<1>7. CASE MemoryPut(p)
  BY <1>5, <1>6, <1>7 DEF MemoryPut
<1>8. CASE SqlLook(p)
  <2>1. CASE Found(x) # NoId
    BY <1>5, <1>8, <2>1 DEF SqlLook
  <2>2. CASE Found(x) = NoId
    <3>1. PortStage' = PortStage /\ UNCHANGED <<stored, updates, answer>>
      BY <1>1, <1>3, <1>8, <2>2, StageMoves, StagesAre DEF SqlLook, recordVars
    <3> QED
      BY <3>1 DEF Port!portVars, PortStage
  <2> QED
    BY <2>1, <2>2
<1>9. CASE SqlInsert(p)
  <2>1. CASE Found(x) # NoId
    <3>1. Return(p, Nothing) /\ UNCHANGED recordVars
      BY <1>9, <2>1 DEF SqlInsert
    <3>2. answer' = answer
      BY <1>1, <1>3, <1>4, <3>1 DEF LabelsInv, ExecTypeOK
    <3>3. Port!Raise(p)
      BY <1>1, <1>4, <2>1, <3>1, <3>2, FoundMatches DEF Port!Raise, recordVars
    <3> QED
      BY <3>3 DEF Port!PortNext
  <2>2. CASE Found(x) = NoId
    BY <1>6, <1>9, <2>2 DEF SqlInsert
  <2> QED
    BY <2>1, <2>2
<1> QED
  BY <1>2, <1>7, <1>8, <1>9

LEMMA StepIsPort ==
  StoreInv /\ LabelsInv /\ [ExecNext]_execVars =>
     [adapter # "redis" => Port!PortNext]_(Port!portVars)
<1> SUFFICES ASSUME StoreInv, LabelsInv, [ExecNext]_execVars, adapter # "redis"
             PROVE  Port!PortNext \/ UNCHANGED Port!portVars
  OBVIOUS
<1>1. ExecTypeOK
  BY DEF StoreInv
<1>2. ASSUME NEW p \in Puts, Put(p)
      PROVE  Port!PortNext \/ UNCHANGED Port!portVars
  BY <1>2, PutIsPort
<1>3. ASSUME NEW u \in Updates, Update(u)
      PROVE  Port!PortNext
  <2>1. SetStatus(u) /\ Goto(u, "done") /\ pc[u] = "new" /\ u \in Puts \cup Updates
    BY <1>3 DEF Update, SetStatus, RedisRead, RedisWrite
  <2>2. PortStage[u] = "new" /\ PortStage' = [PortStage EXCEPT ![u] = "done"]
    BY <1>1, <2>1, StageMoves, StagesAre
  <2>3. Port!Write(u)
    BY <2>1, <2>2 DEF SetStatus, Port!Write, Port!Ends, PortStage
  <2> QED
    BY <2>3 DEF Port!PortNext
<1>4. ASSUME NEW c \in Puts \cup Updates, Crash(c)
      PROVE  Port!PortNext
  <2>1. Goto(c, "crashed") /\ pc[c] = "inserting" /\ UNCHANGED <<stored, updates, answer>>
    BY <1>4 DEF Crash, LabelsInv, recordVars
  <2>2. PortStage[c] = "new" /\ PortStage' = [PortStage EXCEPT ![c] = "lost"]
    BY <1>1, <2>1, StageMoves, StagesAre
  <2>3. Port!Lose(c)
    BY <2>1, <2>2 DEF Port!Lose, Port!Ends, PortStage
  <2> QED
    BY <2>3 DEF Port!PortNext
<1>5. ~(\E x \in ExecIds : RecordExpires(x)) /\ ~(\E k \in Keys : KeyExpires(k))
  BY DEF RecordExpires, KeyExpires
<1>6. CASE UNCHANGED execVars
  BY <1>6 DEF execVars, recordVars, Port!portVars
<1> QED
  BY <1>2, <1>3, <1>4, <1>5, <1>6 DEF ExecNext

\* The stores in memory and in SQL keep the promise of the port: whatever other calls run
\* between a transaction's queries and its commit, a call looks and acts at one moment.
THEOREM StoresImplementPort == ExecSpec => PortKept
<1>1. ExecInit => Port!PortInit /\ LabelsInv
  BY StagesAre DEF ExecInit, Port!PortInit, LabelsInv, Nothing
<1>2. StoreInv /\ LabelsInv /\ [ExecNext]_execVars => LabelsInv'
  BY LabelsStep
<1> QED
  BY <1>1, <1>2, InitInv, NextInv, StepIsPort, PTL DEF ExecSpec, PortKept

=============================================================================
