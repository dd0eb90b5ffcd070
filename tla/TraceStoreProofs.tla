-------------------------- MODULE TraceStoreProofs --------------------------
(***************************************************************************)
(* Proofs about TraceStore: what trace.get answers of a session, for any   *)
(* sessions, limits and numbers of events.  A log holds consecutive events *)
(* up to the newest; eviction keeps it so.  IndexInv says which positions  *)
(* the index by execution has of a log that was not evicted from.          *)
(***************************************************************************)
EXTENDS TraceStore, SequenceTheorems, FiniteSetTheorems, TLAPS

LogTypeOK ==
    /\ log \in [Logs -> Seq(Event)]
    /\ appended \in [Logs -> Nat]

\* Some events of a log are consecutive, and the last one is the newest of n.
Consecutive(events, n) ==
    /\ Len(events) <= n
    /\ \A i \in 1..Len(events) : events[i].number = n - Len(events) + i

\* A log has lost nothing, or is within a tenth of its limit.
Full(events, n) ==
    /\ Len(events) <= MaxEvents
    /\ Len(events) = n \/ Len(events) > MaxEvents - MaxEvents \div 10

LogInv ==
    /\ LogTypeOK
    /\ \A s \in Logs : Consecutive(log[s], appended[s]) /\ Full(log[s], appended[s])

-----------------------------------------------------------------------------
(* Lemmas.                                                                 *)

\* A tenth of the limit, rounded down.
LEMMA Tenth ==
  /\ MaxEvents \in Nat /\ MaxEvents \div 10 \in Nat
  /\ MaxEvents \div 10 >= 1 /\ MaxEvents \div 10 < MaxEvents
BY TraceAssumption

\* The end of some consecutive events.
LEMMA EndConsecutive ==
  ASSUME NEW events \in Seq(Event), NEW n \in Nat, Consecutive(events, n),
         NEW from \in 1..(Len(events) + 1),
         NEW end, end = SubSeq(events, from, Len(events))
  PROVE  /\ end \in Seq(Event) /\ Len(end) = Len(events) - from + 1
         /\ DOMAIN end = 1..Len(end)
         /\ Consecutive(end, n)
<1>1. Len(events) \in Nat /\ from \in Nat /\ from >= 1 /\ from <= Len(events) + 1
  BY LenProperties
<1>2. \A i \in from..Len(events) : events[i] \in Event
  BY <1>1, ElementOfSeq
<1>3. /\ end \in Seq(Event) /\ Len(end) = Len(events) - from + 1
      /\ \A i \in 1..Len(events) - from + 1 : end[i] = events[from + i - 1]
  BY <1>1, <1>2, SubSeqProperties
<1>4. ASSUME NEW i \in 1..Len(end)
      PROVE  end[i].number = n - Len(end) + i
  <2>1. from + i - 1 \in 1..Len(events) /\ end[i] = events[from + i - 1]
    BY <1>1, <1>3
  <2>2. end[i].number = n - Len(events) + (from + i - 1)
    BY <2>1 DEF Consecutive
  <2> QED
    BY <1>1, <1>3, <2>2
<1>5. Len(end) <= n
  BY <1>1, <1>3 DEF Consecutive
<1> QED
  BY <1>3, <1>4, <1>5, LenProperties DEF Consecutive

\* One more event.
LEMMA OneMore ==
  ASSUME NEW events \in Seq(Event), NEW n \in Nat, Consecutive(events, n),
         NEW event \in Event, event.number = n + 1,
         NEW more, more = Append(events, event)
  PROVE  /\ more \in Seq(Event) /\ Len(more) = Len(events) + 1
         /\ Consecutive(more, n + 1)
<1>1. /\ more \in Seq(Event) /\ Len(more) = Len(events) + 1 /\ Len(events) \in Nat
      /\ \A i \in 1..Len(events) : more[i] = events[i]
      /\ more[Len(events) + 1] = event
  BY AppendProperties, LenProperties
<1>2. ASSUME NEW i \in 1..Len(more)
      PROVE  more[i].number = n + 1 - Len(more) + i
  <2>1. CASE i \in 1..Len(events)
    <3>1. more[i].number = n - Len(events) + i
      BY <1>1, <2>1 DEF Consecutive
    <3> QED
      BY <1>1, <3>1
  <2>2. CASE i = Len(events) + 1
    BY <1>1, <2>2
  <2> QED
    BY <1>1, <2>1, <2>2
<1>3. Len(more) <= n + 1
  BY <1>1 DEF Consecutive
<1> QED
  BY <1>1, <1>2, <1>3 DEF Consecutive

LEMMA AppendInv ==
  ASSUME LogInv, NEW s \in Logs, NEW e \in Execs \cup {NoExec}, AppendEvent(s, e)
  PROVE  LogInv'
<1>0. PICK n, event, more :
         /\ n = appended[s] /\ event = [session |-> s, number |-> n + 1, exec |-> e]
         /\ more = Append(log[s], event)
  OBVIOUS
<1>1. /\ log[s] \in Seq(Event) /\ n \in Nat /\ Consecutive(log[s], n)
      /\ Full(log[s], n) /\ event \in Event /\ event.number = n + 1
  <2>1. log[s] \in Seq(Event) /\ n \in Nat
    BY <1>0 DEF LogInv, LogTypeOK
  <2>2. Consecutive(log[s], n) /\ Full(log[s], n)
    BY <1>0 DEF LogInv
  <2>3. event \in Event /\ event.number = n + 1
    BY <1>0, <2>1 DEF Event
  <2> QED
    BY <2>1, <2>2, <2>3
<1>2. /\ more \in Seq(Event) /\ Len(more) = Len(log[s]) + 1 /\ Len(log[s]) \in Nat
      /\ Consecutive(more, n + 1)
  <2>1. Len(log[s]) \in Nat
    BY <1>1, LenProperties
  <2>2. more \in Seq(Event) /\ Len(more) = Len(log[s]) + 1 /\ Consecutive(more, n + 1)
    <3>1. more = Append(log[s], event)
      BY <1>0
    <3> QED
      BY ONLY <1>1, <3>1, OneMore
  <2> QED
    BY <2>1, <2>2
<1>3. /\ log' = [log EXCEPT ![s] = Evict(more)]
      /\ appended' = [appended EXCEPT ![s] = n + 1]
  BY <1>0 DEF AppendEvent
<1>4. /\ Evict(more) \in Seq(Event) /\ Consecutive(Evict(more), n + 1)
      /\ Full(Evict(more), n + 1)
  <2>1. CASE Len(more) <= MaxEvents
    <3>1. Evict(more) = more
      <4>1. ~(Len(more) > MaxEvents)
        BY <1>2, <2>1, Tenth
      <4> QED
        BY <4>1, Zenon DEF Evict
    <3> QED
      BY <1>1, <1>2, <2>1, <3>1, Tenth DEF Full
  <2>2. CASE Len(more) > MaxEvents
    <3>1. Len(more) = MaxEvents + 1 /\ n + 1 \in Nat
      BY <1>1, <1>2, <2>2, Tenth DEF Full
    <3>2. MaxEvents \div 10 + 1 \in 1..(Len(more) + 1)
      BY <3>1, Tenth
    <3>3. Evict(more) = SubSeq(more, MaxEvents \div 10 + 1, Len(more))
      BY <2>2 DEF Evict
    <3>4. /\ Evict(more) \in Seq(Event) /\ Consecutive(Evict(more), n + 1)
          /\ Len(Evict(more)) = Len(more) - (MaxEvents \div 10 + 1) + 1
      BY <1>2, <3>1, <3>2, <3>3, EndConsecutive
    <3> QED
      BY <3>1, <3>4, Tenth DEF Full
  <2> QED
    BY <1>1, <1>2, <2>1, <2>2, Tenth
<1>5. LogTypeOK'
  BY <1>1, <1>3, <1>4 DEF LogInv, LogTypeOK
<1>6. ASSUME NEW r \in Logs
      PROVE  Consecutive(log'[r], appended'[r]) /\ Full(log'[r], appended'[r])
  BY <1>3, <1>4 DEF LogInv, LogTypeOK
<1> QED
  BY <1>5, <1>6 DEF LogInv

\* The answer to a query about some events of a log.
LEMMA AnswerIs ==
  ASSUME NEW events \in Seq(Event), NEW n \in Nat, Consecutive(events, n),
         NEW most \in Nat \ {0},
         NEW answer, answer = Answer(events, most)
  PROVE  /\ Len(answer.events) = (IF Len(events) < most THEN Len(events) ELSE most)
         /\ \A i \in DOMAIN answer.events :
               answer.events[i].number = n - Len(answer.events) + i
         /\ answer.truncated <=> Len(events) > most
<1>1. Len(events) \in Nat
  BY LenProperties
<1>2. PICK from : from = (IF most < Len(events) THEN Len(events) - most ELSE 0) + 1
  OBVIOUS
<1>3. from \in 1..(Len(events) + 1)
  BY <1>1, <1>2
<1>4. answer.events = LastOf(events, most) /\ (answer.truncated <=> Len(events) > most)
  BY DEF Answer
<1>5. LastOf(events, most) = SubSeq(events, from, Len(events))
  <2>1. most > 0
    OBVIOUS
  <2> QED
    BY <1>2, <2>1, Zenon DEF LastOf
<1>6. /\ Len(answer.events) = Len(events) - from + 1
      /\ DOMAIN answer.events = 1..Len(answer.events)
      /\ Consecutive(answer.events, n)
  BY <1>3, <1>4, <1>5, EndConsecutive
<1>7. Len(answer.events) = (IF Len(events) < most THEN Len(events) ELSE most)
  BY <1>1, <1>2, <1>3, <1>6
<1> QED
  BY <1>4, <1>6, <1>7 DEF Consecutive

-----------------------------------------------------------------------------
(* Picking elements of a sequence.                                         *)

\* The first n positions of a set, and how many they are.
LEMMA RankIs ==
  ASSUME NEW I, IsFiniteSet(I), I \subseteq Int
  PROVE  /\ Cardinality(I) \in Nat
         /\ \A i \in I : Cardinality({j \in I : j <= i}) \in 1..Cardinality(I)
         /\ \A i, k \in I : i < k
               => Cardinality({j \in I : j <= i}) < Cardinality({j \in I : j <= k})
<1>2. Cardinality(I) \in Nat
  BY FS_CardinalityType
<1>3. \A T \in SUBSET I : /\ IsFiniteSet(T) /\ Cardinality(T) \in Nat
                          /\ Cardinality(T) <= Cardinality(I)
  BY FS_Subset, FS_CardinalityType
<1>4. \A T \in SUBSET I : \A U \in SUBSET T : U # T => Cardinality(U) < Cardinality(T)
  <2> SUFFICES ASSUME NEW T \in SUBSET I, NEW U \in SUBSET T, U # T
               PROVE  Cardinality(U) < Cardinality(T)
    OBVIOUS
  <2>1. IsFiniteSet(T) /\ Cardinality(T) \in Nat /\ Cardinality(U) \in Nat
    BY <1>3
  <2>2. Cardinality(U) <= Cardinality(T) /\ Cardinality(U) # Cardinality(T)
    BY <2>1, FS_Subset
  <2> QED
    BY <2>1, <2>2
<1>5. Cardinality({}) = 0
  BY FS_EmptySet
<1>6. ASSUME NEW i \in I
      PROVE  Cardinality({j \in I : j <= i}) \in 1..Cardinality(I)
  <2> DEFINE T == {j \in I : j <= i}
  <2>1. T \in SUBSET I /\ i \in T
    OBVIOUS
  <2> HIDE DEF T
  <2>2. {} \in SUBSET T /\ {} # T
    BY <2>1
  <2>3. Cardinality({}) < Cardinality(T)
    BY <1>4, <2>1, <2>2
  <2> QED
    BY <1>2, <1>3, <1>5, <2>1, <2>3, FS_CardinalityType DEF T
<1>7. ASSUME NEW i \in I, NEW k \in I, i < k
      PROVE  Cardinality({j \in I : j <= i}) < Cardinality({j \in I : j <= k})
  <2> DEFINE T == {j \in I : j <= k}
             U == {j \in I : j <= i}
  <2>0. i \in Int /\ k \in Int /\ ~(k <= i) /\ \A j \in I : j \in Int
    BY <1>7
  <2>1. T \in SUBSET I /\ U \in SUBSET T /\ k \in T /\ k \notin U
    <3>1. \A j \in I : j <= i => j <= k
      BY <1>7, <2>0
    <3>2. T \subseteq I /\ U \subseteq T
      BY <3>1
    <3>3. k <= k
      BY <2>0
    <3>4. k \in T
      BY <3>3
    <3>5. k \notin U
      BY <2>0
    <3> QED
      BY <3>2, <3>4, <3>5
  <2> HIDE DEF T, U
  <2> QED
    BY <1>4, <2>1 DEF T, U
<1> QED
  BY <1>2, <1>6, <1>7, FS_CardinalityType

\* Nth goes through the positions in order and leaves none out.
LEMMA NthIs ==
  ASSUME NEW I, IsFiniteSet(I), I \subseteq Int, NEW m, m = Cardinality(I)
  PROVE  /\ m \in Nat
         /\ \A k \in 1..m : Nth(I, k) \in I
         /\ \A j, k \in 1..m : j < k => Nth(I, j) < Nth(I, k)
         /\ \A i \in I : \E k \in 1..m : Nth(I, k) = i
<1> DEFINE Rank(i) == Cardinality({j \in I : j <= i})
           rank == [i \in I |-> Rank(i)]
<1>1. m \in Nat /\ \A i \in I : i \in Int
  BY RankIs
<1>2. \A i \in I : rank[i] = Rank(i) /\ rank[i] \in 1..m
  BY RankIs
<1>3. \A i, k \in I : i < k => rank[i] < rank[k]
  BY RankIs
<1>4. \A i, k \in I : rank[i] = rank[k] => i = k
  <2> SUFFICES ASSUME NEW i \in I, NEW k \in I, i # k PROVE rank[i] # rank[k]
    OBVIOUS
  <2>1. i < k \/ k < i
    BY <1>1
  <2>2. rank[i] \in Int /\ rank[k] \in Int
    BY <1>2
  <2> QED
    BY <1>3, <2>1, <2>2
<1>5. \A k \in 1..m : \E i \in I : rank[i] = k
  <2>1. rank \in Injection(I, 1..m)
    <3>1. rank \in [I -> 1..m]
      BY <1>2
    <3> HIDE DEF rank
    <3> QED
      BY <1>4, <3>1 DEF Injection, IsInjective
  <2>2. IsFiniteSet(1..m) /\ Cardinality(1..m) = m
    <3>1. 1 \in Int /\ m \in Int
      BY <1>1
    <3> QED
      BY <1>1, <3>1, FS_Interval
  <2>3. rank \in Surjection(I, 1..m)
    BY <2>1, <2>2, FS_Injection
  <2> QED
    BY <2>3 DEF Surjection
<1>6. \A k \in 1..m : Nth(I, k) \in I /\ rank[Nth(I, k)] = k
  <2> SUFFICES ASSUME NEW k \in 1..m PROVE Nth(I, k) \in I /\ rank[Nth(I, k)] = k
    OBVIOUS
  <2>1. \E i \in I : Rank(i) = k
    BY <1>2, <1>5
  <2>2. Nth(I, k) = CHOOSE i \in I : Rank(i) = k
    BY DEF Nth
  <2> HIDE DEF Rank
  <2>3. Nth(I, k) \in I /\ Rank(Nth(I, k)) = k
    BY <2>1, <2>2
  <2> QED
    BY <1>2, <2>3
<1> HIDE DEF rank, Rank
<1>7. \A j, k \in 1..m : j < k => Nth(I, j) < Nth(I, k)
  <2> SUFFICES ASSUME NEW j \in 1..m, NEW k \in 1..m, j < k PROVE Nth(I, j) < Nth(I, k)
    OBVIOUS
  <2>1. /\ Nth(I, j) \in I /\ Nth(I, k) \in I
        /\ rank[Nth(I, j)] = j /\ rank[Nth(I, k)] = k
    BY <1>6
  <2>2. j \in Int /\ k \in Int /\ Nth(I, j) \in Int /\ Nth(I, k) \in Int
    <3>1. j \in Int /\ k \in Int
      BY <1>1
    <3> QED
      BY <1>1, <2>1, <3>1
  <2>3. ~(Nth(I, k) < Nth(I, j))
    <3>1. Nth(I, k) < Nth(I, j) => rank[Nth(I, k)] < rank[Nth(I, j)]
      BY <1>3, <2>1
    <3> QED
      BY <2>1, <2>2, <3>1
  <2>4. Nth(I, j) # Nth(I, k)
    BY <2>1, <2>2
  <2> QED
    BY <2>2, <2>3, <2>4
<1>8. \A i \in I : \E k \in 1..m : Nth(I, k) = i
  BY <1>2, <1>4, <1>6
<1> QED
  BY <1>1, <1>6, <1>7, <1>8

-----------------------------------------------------------------------------
(* The index by execution.                                                 *)

Ref == [session : Sessions, idx : Nat]

\* Of a session's events, refs are the positions of those of execution e, in order.
RefsRight(refs, e, s, events) ==
    /\ \A k \in DOMAIN refs : refs[k].session = s =>
          /\ refs[k].idx < Len(events)
          /\ events[refs[k].idx + 1].exec = e
    /\ \A j, k \in DOMAIN refs :
          j < k /\ refs[j].session = s /\ refs[k].session = s => refs[j].idx < refs[k].idx
    /\ \A i \in DOMAIN events : events[i].exec = e =>
          \E k \in DOMAIN refs : refs[k] = [session |-> s, idx |-> i - 1]

IndexInv ==
    /\ by_exec \in [Execs -> Seq(Ref)]
    /\ \A s \in Logs : \A i \in DOMAIN log[s] : log[s][i].session = s
    /\ \A e \in Execs, s \in Sessions :
          Len(log[s]) = appended[s] => RefsRight(by_exec[e], e, s, log[s])

\* The index of a session and an execution, after one more event or reference.
LEMMA RefsGrow ==
  ASSUME NEW refs \in Seq(Ref), NEW e \in Execs, NEW s \in Sessions, NEW events \in Seq(Event),
         RefsRight(refs, e, s, events), NEW event \in Event, NEW ref \in Ref
  PROVE  /\ ref.session # s => RefsRight(Append(refs, ref), e, s, events)
         /\ event.exec # e => RefsRight(refs, e, s, Append(events, event))
         /\ event.exec = e /\ ref = [session |-> s, idx |-> Len(events)]
               => RefsRight(Append(refs, ref), e, s, Append(events, event))
<1> DEFINE more == Append(events, event)
           all == Append(refs, ref)
<1>1. /\ Len(events) \in Nat /\ DOMAIN events = 1..Len(events)
      /\ DOMAIN more = 1..(Len(events) + 1) /\ Len(more) = Len(events) + 1
      /\ more[Len(events) + 1] = event
      /\ \A i \in 1..Len(events) : more[i] = events[i]
  BY LenProperties, AppendProperties
<1>2. /\ Len(refs) \in Nat /\ DOMAIN refs = 1..Len(refs)
      /\ DOMAIN all = 1..(Len(refs) + 1) /\ all[Len(refs) + 1] = ref
      /\ \A k \in 1..Len(refs) : all[k] = refs[k] /\ refs[k] \in Ref
  BY LenProperties, AppendProperties, ElementOfSeq
<1>3. \A k \in 1..Len(refs) : refs[k].session = s =>
         /\ refs[k].idx \in Nat /\ refs[k].idx < Len(events)
         /\ refs[k].idx + 1 \in 1..Len(events)
         /\ events[refs[k].idx + 1].exec = e
  BY <1>1, <1>2 DEF RefsRight, Ref
<1> HIDE DEF more, all
<1>4. ASSUME ref.session # s
      PROVE  RefsRight(all, e, s, events)
  <2>1. \A k \in DOMAIN all : all[k].session = s => k \in DOMAIN refs /\ all[k] = refs[k]
    BY <1>2, <1>4
  <2>2. \A k \in DOMAIN refs : k \in DOMAIN all /\ all[k] = refs[k]
    BY <1>2
  <2> QED
    BY <2>1, <2>2 DEF RefsRight
<1>5. ASSUME event.exec # e
      PROVE  RefsRight(refs, e, s, more)
  <2>1. \A k \in DOMAIN refs : refs[k].session = s =>
           refs[k].idx < Len(more) /\ more[refs[k].idx + 1].exec = e
    BY <1>1, <1>2, <1>3
  <2>2. \A i \in DOMAIN more : more[i].exec = e => i \in DOMAIN events /\ more[i] = events[i]
    BY <1>1, <1>5
  <2> QED
    BY <2>1, <2>2 DEF RefsRight
<1>6. ASSUME event.exec = e, ref = [session |-> s, idx |-> Len(events)]
      PROVE  RefsRight(all, e, s, more)
  <2>1. ASSUME NEW k \in DOMAIN all, all[k].session = s
        PROVE  all[k].idx < Len(more) /\ more[all[k].idx + 1].exec = e
    <3>1. CASE k \in 1..Len(refs)
      BY <1>1, <1>2, <1>3, <2>1, <3>1
    <3>2. CASE k = Len(refs) + 1
      BY <1>1, <1>2, <1>6, <3>2
    <3> QED
      BY <1>2, <3>1, <3>2
  <2>2. ASSUME NEW j \in DOMAIN all, NEW k \in DOMAIN all, j < k,
               all[j].session = s, all[k].session = s
        PROVE  all[j].idx < all[k].idx
    <3>1. j \in 1..Len(refs)
      BY <1>2, <2>2
    <3>2. CASE k \in 1..Len(refs)
      BY <1>2, <2>2, <3>1, <3>2 DEF RefsRight
    <3>3. CASE k = Len(refs) + 1
      BY <1>2, <1>3, <1>6, <2>2, <3>1, <3>3
    <3> QED
      BY <1>2, <3>2, <3>3
  <2>3. ASSUME NEW i \in DOMAIN more, more[i].exec = e
        PROVE  \E k \in DOMAIN all : all[k] = [session |-> s, idx |-> i - 1]
    <3>1. CASE i \in 1..Len(events)
      <4>1. PICK k \in DOMAIN refs : refs[k] = [session |-> s, idx |-> i - 1]
        BY <1>1, <2>3, <3>1 DEF RefsRight
      <4> QED
        BY <1>2, <4>1
    <3>2. CASE i = Len(events) + 1
      <4>1. i - 1 = Len(events)
        BY <1>1, <3>2
      <4>2. Len(refs) + 1 \in DOMAIN all /\ all[Len(refs) + 1] = [session |-> s, idx |-> i - 1]
        BY <1>2, <1>6, <4>1
      <4> QED
        BY <4>2
    <3> QED
      BY <1>1, <3>1, <3>2
  <2> QED
    BY <2>1, <2>2, <2>3 DEF RefsRight
<1> QED
  BY <1>4, <1>5, <1>6 DEF more, all

LEMMA IndexStep ==
  ASSUME LogInv, IndexInv, NEW s \in Logs, NEW e \in Execs \cup {NoExec}, AppendEvent(s, e)
  PROVE  IndexInv'
<1>0. PICK n, event, more :
         /\ n = appended[s] /\ event = [session |-> s, number |-> n + 1, exec |-> e]
         /\ more = Append(log[s], event)
  OBVIOUS
<1>1. /\ log[s] \in Seq(Event) /\ n \in Nat /\ Len(log[s]) \in Nat /\ Len(log[s]) <= n
      /\ event \in Event /\ more \in Seq(Event) /\ Len(more) = Len(log[s]) + 1
      /\ \A i \in 1..Len(more) :
            more[i] = event \/ (i \in DOMAIN log[s] /\ more[i] = log[s][i])
  <2>1. log[s] \in Seq(Event) /\ n \in Nat /\ Len(log[s]) <= n
    BY <1>0 DEF LogInv, LogTypeOK, Consecutive
  <2>2. event \in Event
    BY <1>0, <2>1 DEF Event
  <2> QED
    BY <1>0, <2>1, <2>2, AppendProperties, LenProperties
<1>2. /\ log' = [log EXCEPT ![s] = Evict(more)]
      /\ appended' = [appended EXCEPT ![s] = n + 1]
      /\ by_exec' = IF s \in Sessions /\ e \in Execs
                    THEN [by_exec EXCEPT ![e] = Append(@, [session |-> s, idx |-> Len(log[s])])]
                    ELSE by_exec
  BY <1>0 DEF AppendEvent, Position
<1>3. /\ \A i \in DOMAIN Evict(more) : \E k \in 1..Len(more) : Evict(more)[i] = more[k]
      /\ Len(Evict(more)) = n + 1 => Evict(more) = more /\ Len(log[s]) = n
  <2>1. CASE Len(more) <= MaxEvents
    <3>1. ~(Len(more) > MaxEvents)
      BY <1>1, <2>1, Tenth
    <3>2. Evict(more) = more
      BY <3>1, Zenon DEF Evict
    <3> QED
      BY <1>1, <3>2, LenProperties
  <2>2. CASE Len(more) > MaxEvents
    <3>1. PICK a \in 2..Len(more) : a = MaxEvents \div 10 + 1
      <4>1. MaxEvents \div 10 + 1 \in 2..Len(more)
        BY <1>1, <2>2, Tenth
      <4> QED
        BY <4>1
    <3>2. Evict(more) = SubSeq(more, a, Len(more))
      BY <2>2, <3>1 DEF Evict
    <3>3. \A i \in a..Len(more) : more[i] \in Event
      BY <1>1, ElementOfSeq
    <3>4. /\ Evict(more) \in Seq(Event) /\ Len(Evict(more)) = Len(more) - a + 1
          /\ \A i \in 1..Len(more) - a + 1 : Evict(more)[i] = more[a + i - 1]
      BY <1>1, <3>1, <3>2, <3>3, SubSeqProperties
    <3>5. DOMAIN Evict(more) = 1..(Len(more) - a + 1)
      BY <3>4, LenProperties
    <3>6. \A i \in 1..(Len(more) - a + 1) : a + i - 1 \in 1..Len(more)
      BY <1>1
    <3>7. ASSUME NEW i \in DOMAIN Evict(more)
          PROVE  \E k \in 1..Len(more) : Evict(more)[i] = more[k]
      <4>1. i \in 1..(Len(more) - a + 1)
        BY <3>5
      <4>2. a + i - 1 \in 1..Len(more) /\ Evict(more)[i] = more[a + i - 1]
        BY <3>4, <3>6, <4>1
      <4> QED
        BY <4>2
    <3>8. Len(Evict(more)) # n + 1
      BY <1>1, <3>4
    <3> QED
      BY <3>7, <3>8
  <2> QED
    BY <1>1, <2>1, <2>2, Tenth
<1>4. by_exec' \in [Execs -> Seq(Ref)]
  <2>1. CASE s \in Sessions /\ e \in Execs
    <3>1. [session |-> s, idx |-> Len(log[s])] \in Ref
      BY <1>1, <2>1 DEF Ref
    <3>2. Append(by_exec[e], [session |-> s, idx |-> Len(log[s])]) \in Seq(Ref)
      BY <2>1, <3>1, AppendProperties DEF IndexInv
    <3> QED
      BY <1>2, <2>1, <3>2 DEF IndexInv
  <2> QED
    BY <1>2, <2>1 DEF IndexInv
<1>5. ASSUME NEW r \in Logs, NEW i \in DOMAIN log'[r]
      PROVE  log'[r][i].session = r
  <2>1. CASE r = s
    <3>1. log'[r] = Evict(more)
      BY <1>2, <2>1 DEF LogInv, LogTypeOK
    <3>2. PICK k \in 1..Len(more) : log'[r][i] = more[k]
      BY <1>3, <1>5, <3>1
    <3>3. event.session = s
      BY <1>0
    <3> QED
      BY <1>1, <2>1, <3>2, <3>3 DEF IndexInv
  <2>2. CASE r # s
    BY <1>2, <1>5, <2>2 DEF LogInv, LogTypeOK, IndexInv
  <2> QED
    BY <2>1, <2>2
<1>6. ASSUME NEW f \in Execs, NEW r \in Sessions, Len(log'[r]) = appended'[r]
      PROVE  RefsRight(by_exec'[f], f, r, log'[r])
  <2>0. r \in Logs /\ by_exec[f] \in Seq(Ref) /\ log[r] \in Seq(Event)
    BY DEF Logs, IndexInv, LogInv, LogTypeOK
  <2>1. CASE r # s
    <3>1. log'[r] = log[r] /\ appended'[r] = appended[r]
      BY <1>2, <2>0, <2>1 DEF LogInv, LogTypeOK
    <3>2. RefsRight(by_exec[f], f, r, log[r])
      BY <1>6, <3>1 DEF IndexInv
    <3>3. CASE s \in Sessions /\ e = f
      <4>1. PICK ref \in Ref : ref = [session |-> s, idx |-> Len(log[s])]
        BY <1>1, <3>3 DEF Ref
      <4>2. by_exec'[f] = Append(by_exec[f], ref)
        BY <1>2, <3>3, <4>1 DEF IndexInv
      <4>3. ref.session # r
        BY <2>1, <4>1
      <4> QED
        BY <1>1, <2>0, <3>1, <3>2, <4>2, <4>3, RefsGrow
    <3>4. CASE ~(s \in Sessions /\ e = f)
      <4>1. by_exec'[f] = by_exec[f]
        BY <1>2, <3>4 DEF IndexInv
      <4> QED
        BY <3>1, <3>2, <4>1
    <3> QED
      BY <3>3, <3>4
  <2>2. CASE r = s
    <3>1. /\ log'[r] = Append(log[r], event) /\ Len(log[r]) = appended[r]
      <4>1. log'[r] = Evict(more) /\ appended'[r] = n + 1
        BY <1>2, <2>0, <2>2 DEF LogInv, LogTypeOK
      <4> QED
        BY <1>0, <1>3, <1>6, <2>2, <4>1
    <3>2. RefsRight(by_exec[f], f, r, log[r])
      BY <3>1 DEF IndexInv
    <3>3. PICK ref \in Ref : ref = [session |-> r, idx |-> Len(log[r])]
      BY <1>1, <2>2 DEF Ref
    <3>4. CASE e = f
      <4>1. by_exec'[f] = Append(by_exec[f], ref)
        BY <1>2, <2>2, <3>3, <3>4 DEF IndexInv
      <4>2. event.exec = f
        BY <1>0, <3>4
      <4>3. RefsRight(Append(by_exec[f], ref), f, r, Append(log[r], event))
        BY <1>1, <2>0, <3>2, <3>3, <4>2, RefsGrow
      <4> QED
        BY <3>1, <4>1, <4>3
    <3>5. CASE e # f
      <4>1. by_exec'[f] = by_exec[f]
        BY <1>2, <3>5 DEF IndexInv
      <4>2. event.exec # f
        BY <1>0, <3>5
      <4> QED
        BY <1>1, <2>0, <3>1, <3>2, <3>3, <4>1, <4>2, RefsGrow
    <3> QED
      BY <3>4, <3>5
  <2> QED
    BY <2>1, <2>2
<1> QED
  BY <1>4, <1>5, <1>6 DEF IndexInv

\* The references of an execution that still lead to an event, and how many they are.
Held(e) ==
    {i \in DOMAIN by_exec[e] : by_exec[e][i].idx < Len(log[by_exec[e][i].session])}

HowMany(e) == Cardinality(Held(e))

\* What a query by execution finds: the events at the positions that there still are.
LEMMA FoundIs ==
  ASSUME LogInv, IndexInv, NEW e \in Execs,
         NEW found, found = GetByExec(e, Len(by_exec[e]) + 1).events
  PROVE  /\ DOMAIN found = 1..HowMany(e)
         /\ \A k \in 1..HowMany(e) :
              found[k] = log[by_exec[e][Nth(Held(e), k)].session][by_exec[e][Nth(Held(e), k)].idx + 1]
         /\ HowMany(e) \in Nat
         /\ \A k \in 1..HowMany(e) : Nth(Held(e), k) \in Held(e)
         /\ \A j, k \in 1..HowMany(e) : j < k => Nth(Held(e), j) < Nth(Held(e), k)
         /\ \A i \in Held(e) : \E k \in 1..HowMany(e) : Nth(Held(e), k) = i
<1>0. PICK all, I, m :
         /\ all = by_exec[e] /\ I = Held(e) /\ m = HowMany(e) /\ m = Cardinality(I)
         /\ I = {i \in DOMAIN all : all[i].idx < Len(log[all[i].session])}
  BY DEF Held, HowMany
<1>1. /\ all \in Seq(Ref) /\ Len(all) \in Nat /\ DOMAIN all = 1..Len(all) /\ I \subseteq 1..Len(all)
      /\ \A i \in DOMAIN all : all[i] \in Ref
  BY <1>0, LenProperties, ElementOfSeq DEF IndexInv
<1>2. /\ m \in 0..Len(all)
      /\ \A k \in 1..m : Nth(I, k) \in I
      /\ \A j, k \in 1..m : j < k => Nth(I, j) < Nth(I, k)
      /\ \A i \in I : \E k \in 1..m : Nth(I, k) = i
  <2>1. 1 \in Int /\ Len(all) \in Int /\ Len(all) \in Nat /\ I \subseteq Int
    <3>1. Len(all) \in Nat /\ I \subseteq 1..Len(all)
      BY <1>1
    <3>2. ASSUME NEW i \in I
          PROVE  i \in Int
      <4>1. i \in 1..Len(all)
        BY ONLY <3>1, <3>2
      <4> QED
        BY ONLY <3>1, <4>1
    <3>3. 1 \in Int /\ Len(all) \in Int /\ Len(all) \in Nat
      BY ONLY <3>1
    <3>4. I \subseteq Int
      BY ONLY <3>2
    <3> QED
      BY ONLY <3>3, <3>4
  <2>2. IsFiniteSet(1..Len(all)) /\ Cardinality(1..Len(all)) = Len(all)
    <3>1. 1 \in Int /\ Len(all) \in Int /\ Len(all) \in Nat
      BY <2>1
    <3>2. /\ IsFiniteSet(1..Len(all))
          /\ Cardinality(1..Len(all)) = (IF 1 > Len(all) THEN 0 ELSE Len(all) - 1 + 1)
      BY ONLY <3>1, FS_Interval
    <3> QED
      BY ONLY <3>1, <3>2
  <2>3. IsFiniteSet(I) /\ Cardinality(I) <= Len(all)
    <3>1. I \in SUBSET (1..Len(all))
      BY <1>1
    <3> QED
      BY ONLY <2>2, <3>1, FS_Subset
  <2>4. /\ m \in Nat
        /\ \A k \in 1..m : Nth(I, k) \in I
        /\ \A j, k \in 1..m : j < k => Nth(I, j) < Nth(I, k)
        /\ \A i \in I : \E k \in 1..m : Nth(I, k) = i
    <3>1. m = Cardinality(I)
      BY <1>0
    <3> QED
      BY ONLY <2>1, <2>3, <3>1, NthIs
  <2>5. m \in 0..Len(all)
    <3>1. m <= Len(all)
      BY <1>0, <2>3
    <3>2. m \in Nat
      BY <2>4
    <3> QED
      BY ONLY <2>1, <3>1, <3>2
  <2> QED
    BY ONLY <2>4, <2>5
<1>3. PICK kept : kept = [k \in 1..m |-> log[all[Nth(I, k)].session][all[Nth(I, k)].idx + 1]]
  OBVIOUS
<1>4. found = LastOf(kept, Len(all) + 1)
  <2>1. GetByExec(e, Len(all) + 1)
          = Answer([i \in DOMAIN Pick(all, I)
                       |-> log[Pick(all, I)[i].session][Pick(all, I)[i].idx + 1]], Len(all) + 1)
    BY <1>0 DEF GetByExec
  <2>2. [i \in DOMAIN Pick(all, I) |-> log[Pick(all, I)[i].session][Pick(all, I)[i].idx + 1]] = kept
    <3>1. DOMAIN Pick(all, I) = 1..m /\ \A k \in 1..m : Pick(all, I)[k] = all[Nth(I, k)]
      BY <1>0 DEF Pick
    <3> QED
      BY <1>3, <3>1
  <2>3. found = Answer(kept, Len(all) + 1).events
    BY <1>0, <2>1, <2>2
  <2> QED
    BY ONLY <2>3 DEF Answer
<1>5. kept \in Seq(Event) /\ Len(kept) = m /\ m \in Nat /\ m <= Len(all)
  <2>1. ASSUME NEW k \in 1..m
        PROVE  log[all[Nth(I, k)].session][all[Nth(I, k)].idx + 1] \in Event
    <3>1. PICK r : r = all[Nth(I, k)]
      OBVIOUS
    <3>2. r.session \in Sessions /\ r.idx \in Nat /\ r.idx < Len(log[r.session])
      BY <1>0, <1>1, <1>2, <3>1 DEF Ref
    <3>3. log[r.session] \in Seq(Event)
      BY <3>2 DEF LogInv, LogTypeOK, Logs
    <3>4. r.idx + 1 \in 1..Len(log[r.session])
      BY <3>2, <3>3, LenProperties
    <3>5. log[r.session][r.idx + 1] \in Event
      BY ONLY <3>3, <3>4, ElementOfSeq
    <3> QED
      BY <3>1, <3>5
  <2>2. m \in Nat /\ m <= Len(all)
    BY <1>1, <1>2
  <2>3. kept \in [1..m -> Event]
    BY ONLY <1>3, <2>1
  <2> QED
    BY ONLY <2>2, <2>3
<1>6. found = kept
  <2>1. Len(all) + 1 > 0 /\ ~(Len(all) + 1 < Len(kept))
    BY ONLY <1>1, <1>5
  <2>2. LastOf(kept, Len(all) + 1) = SubSeq(kept, 0 + 1, Len(kept))
    BY <2>1, Zenon DEF LastOf
  <2>3. SubSeq(kept, 1, Len(kept)) = kept
    BY <1>5
  <2> QED
    BY <1>4, <2>2, <2>3
<1>7. DOMAIN found = 1..m /\ m \in Nat
  BY <1>3, <1>5, <1>6
<1>8. \A k \in 1..m : found[k] = log[all[Nth(I, k)].session][all[Nth(I, k)].idx + 1]
  BY <1>3, <1>6
<1> QED
  BY <1>0, <1>2, <1>7, <1>8

LEMMA IndexImplies ==
  ASSUME LogInv, IndexInv, NEW e \in Execs, NEW s \in Sessions, Len(log[s]) = appended[s],
         NEW found, found = GetByExec(e, Len(by_exec[e]) + 1).events
  PROVE  /\ \A i \in DOMAIN found : found[i].session = s =>
               /\ found[i].exec = e
               /\ found[i].number \in DOMAIN log[s] /\ found[i] = log[s][found[i].number]
               /\ \A j \in DOMAIN found : i < j /\ found[j].session = s
                     => found[i].number < found[j].number
         /\ \A n \in DOMAIN log[s] : log[s][n].exec = e
               => \E i \in DOMAIN found : found[i] = log[s][n]
<1>1. PICK all : all = by_exec[e]
  OBVIOUS
<1>2. /\ all \in Seq(Ref) /\ \A i \in DOMAIN all : all[i] \in Ref
      /\ RefsRight(all, e, s, log[s])
      /\ s \in Logs /\ Len(log[s]) \in Nat /\ DOMAIN log[s] = 1..Len(log[s])
  BY <1>1, LenProperties, ElementOfSeq DEF IndexInv, Logs, LogInv, LogTypeOK
<1>3. PICK m, at : m = HowMany(e) /\ at = [k \in 1..m |-> Nth(Held(e), k)]
  OBVIOUS
<1>4. /\ m \in Nat /\ DOMAIN found = 1..m
      /\ \A k \in 1..m : /\ at[k] \in DOMAIN all
                        /\ all[at[k]].idx < Len(log[all[at[k]].session])
                        /\ found[k] = log[all[at[k]].session][all[at[k]].idx + 1]
      /\ \A j, k \in 1..m : j < k => at[j] < at[k]
      /\ \A i \in DOMAIN all : all[i].idx < Len(log[all[i].session])
            => \E k \in 1..m : at[k] = i
  <2>1. \A k \in 1..m : at[k] = Nth(Held(e), k)
    BY <1>3
  <2>2. Held(e) = {i \in DOMAIN all : all[i].idx < Len(log[all[i].session])}
    BY <1>1 DEF Held
  <2>3. /\ m \in Nat /\ DOMAIN found = 1..m
        /\ \A k \in 1..m :
             found[k] = log[all[Nth(Held(e), k)].session][all[Nth(Held(e), k)].idx + 1]
        /\ \A k \in 1..m : Nth(Held(e), k) \in Held(e)
        /\ \A j, k \in 1..m : j < k => Nth(Held(e), j) < Nth(Held(e), k)
        /\ \A i \in Held(e) : \E k \in 1..m : Nth(Held(e), k) = i
    BY <1>1, <1>3, FoundIs
  <2> QED
    BY <2>1, <2>2, <2>3
<1>5. ASSUME NEW k \in 1..m
      PROVE  /\ found[k].session = all[at[k]].session
             /\ all[at[k]].idx \in Nat
             /\ all[at[k]].session = s =>
                   /\ all[at[k]].idx + 1 \in DOMAIN log[s]
                   /\ found[k] = log[s][all[at[k]].idx + 1]
                   /\ found[k].number = all[at[k]].idx + 1
                   /\ found[k].exec = e
  <2>1. /\ all[at[k]].session \in Logs /\ all[at[k]].idx \in Nat
        /\ all[at[k]].idx < Len(log[all[at[k]].session])
        /\ found[k] = log[all[at[k]].session][all[at[k]].idx + 1]
    BY <1>2, <1>4 DEF Ref, Logs
  <2>2. /\ log[all[at[k]].session] \in Seq(Event)
        /\ all[at[k]].idx + 1 \in DOMAIN log[all[at[k]].session]
    BY <2>1, LenProperties DEF LogInv, LogTypeOK
  <2>3. found[k].session = all[at[k]].session
    BY <2>1, <2>2 DEF IndexInv
  <2>4. ASSUME all[at[k]].session = s
        PROVE  found[k].number = all[at[k]].idx + 1 /\ found[k].exec = e
    <3>1. Consecutive(log[s], appended[s])
      BY <1>2 DEF LogInv
    <3>2. found[k].number = appended[s] - Len(log[s]) + (all[at[k]].idx + 1)
      BY <1>2, <2>1, <2>2, <2>4, <3>1 DEF Consecutive
    <3>3. found[k].exec = e
      BY <1>2, <1>4, <2>1, <2>4 DEF RefsRight
    <3> QED
      BY <1>2, <2>1, <3>2, <3>3
  <2> QED
    BY <2>1, <2>2, <2>3, <2>4
<1>6. ASSUME NEW i \in DOMAIN found, found[i].session = s
      PROVE  /\ found[i].exec = e
             /\ found[i].number \in DOMAIN log[s] /\ found[i] = log[s][found[i].number]
             /\ \A j \in DOMAIN found : i < j /\ found[j].session = s
                   => found[i].number < found[j].number
  <2>1. i \in 1..m /\ all[at[i]].session = s
    BY <1>4, <1>5, <1>6
  <2>2. /\ found[i].exec = e /\ found[i].number = all[at[i]].idx + 1 /\ all[at[i]].idx \in Nat
        /\ found[i].number \in DOMAIN log[s] /\ found[i] = log[s][found[i].number]
    BY <1>5, <2>1
  <2>3. ASSUME NEW j \in DOMAIN found, i < j, found[j].session = s
        PROVE  found[i].number < found[j].number
    <3>1. /\ j \in 1..m /\ all[at[j]].session = s
          /\ found[j].number = all[at[j]].idx + 1 /\ all[at[j]].idx \in Nat
      BY <1>4, <1>5, <2>3
    <3>2. at[i] < at[j] /\ at[i] \in DOMAIN all /\ at[j] \in DOMAIN all
      BY <1>4, <2>1, <2>3, <3>1
    <3>3. all[at[i]].idx < all[at[j]].idx
      BY <1>2, <2>1, <3>1, <3>2 DEF RefsRight
    <3> QED
      BY <2>2, <3>1, <3>3
  <2> QED
    BY <2>2, <2>3
<1>7. ASSUME NEW n \in DOMAIN log[s], log[s][n].exec = e
      PROVE  \E i \in DOMAIN found : found[i] = log[s][n]
  <2>1. PICK i \in DOMAIN all : all[i] = [session |-> s, idx |-> n - 1]
    BY <1>2, <1>7 DEF RefsRight
  <2>2. all[i].session = s /\ all[i].idx = n - 1 /\ n - 1 < Len(log[s]) /\ n - 1 + 1 = n
    BY <1>2, <2>1
  <2>3. PICK k \in 1..m : at[k] = i
    BY <1>4, <2>2
  <2>4. found[k] = log[s][n]
    BY <1>4, <2>2, <2>3
  <2> QED
    BY <1>4, <2>4
<1> QED
  BY <1>6, <1>7

-----------------------------------------------------------------------------
(* The theorems.                                                           *)

\* What trace.get answers of a session (src/transport/handler.py, _handle_trace_get,
\* and src/trace/store.py, append and get_by_session): the newest events without a
\* hole, for any limits, whatever was evicted.
THEOREM TraceSafe == TraceSpec => []SessionAnswers
<1>1. TraceInit => LogInv
  BY Tenth DEF TraceInit, LogInv, LogTypeOK, Consecutive, Full
<1>2. LogInv /\ [TraceNext]_traceVars => LogInv'
  <2>1. ASSUME LogInv, TraceNext
        PROVE  LogInv'
    BY <2>1, AppendInv DEF TraceNext, RecordAgent, RecordSession, RecordExec, Logs
  <2>2. ASSUME LogInv, UNCHANGED traceVars
        PROVE  LogInv'
    BY <2>2 DEF LogInv, LogTypeOK, traceVars
  <2> QED
    BY <2>1, <2>2
<1>3. LogInv => SessionAnswers
  <2> SUFFICES ASSUME LogInv, NEW s \in Logs, NEW tail \in 1..(MaxTail + 1)
               PROVE  LET answer == TraceGet(s, NoExec, tail)
                          most   == IF tail < MaxTail THEN tail ELSE MaxTail
                          kept   == Len(log[s])
                      IN  /\ Len(answer.events) = (IF kept < most THEN kept ELSE most)
                          /\ \A i \in DOMAIN answer.events :
                                answer.events[i].number
                                  = appended[s] - Len(answer.events) + i
                          /\ answer.truncated <=> kept > most
                          /\ kept = appended[s] \/ kept > MaxEvents - MaxEvents \div 10
    BY DEF SessionAnswers
  <2> DEFINE most == IF tail < MaxTail THEN tail ELSE MaxTail
  <2>1. most \in Nat \ {0}
    BY TraceAssumption
  <2>2. TraceGet(s, NoExec, tail) = Answer(log[s], most)
    BY DEF TraceGet, GetBySession
  <2>3. /\ log[s] \in Seq(Event) /\ appended[s] \in Nat
        /\ Consecutive(log[s], appended[s]) /\ Full(log[s], appended[s])
    BY DEF LogInv, LogTypeOK
  <2> HIDE DEF most
  <2>4. LET answer == Answer(log[s], most) IN
        /\ Len(answer.events) = (IF Len(log[s]) < most THEN Len(log[s]) ELSE most)
        /\ \A i \in DOMAIN answer.events :
              answer.events[i].number = appended[s] - Len(answer.events) + i
        /\ answer.truncated <=> Len(log[s]) > most
    BY <2>1, <2>3, AnswerIs
  <2>5. Len(log[s]) = appended[s] \/ Len(log[s]) > MaxEvents - MaxEvents \div 10
    BY <2>3 DEF Full
  <2> QED
    BY <2>2, <2>4, <2>5 DEF most
<1> QED
  BY <1>1, <1>2, <1>3, PTL DEF TraceSpec

\* What trace.get answers of an execution (src/trace/store.py, append and get_by_exec),
\* for any limits: the index that eviction leaves stale is right about every session from
\* which nothing was evicted.
THEOREM ExecsFound == TraceSpec => []ExecAnswers
<1>1. TraceInit => LogInv /\ IndexInv
  <2> SUFFICES ASSUME TraceInit PROVE LogInv /\ IndexInv
    OBVIOUS
  <2>1. LogInv
    BY Tenth DEF TraceInit, LogInv, LogTypeOK, Consecutive, Full
  <2>2. <<>> \in Seq(Ref) /\ DOMAIN <<>> = {}
    OBVIOUS
  <2>3. \A e, s : RefsRight(<<>>, e, s, <<>>)
    BY <2>2 DEF RefsRight
  <2>4. \A s \in Sessions : s \in Logs
    BY DEF Logs
  <2> QED
    BY <2>1, <2>2, <2>3, <2>4 DEF TraceInit, IndexInv
<1>2. LogInv /\ IndexInv /\ [TraceNext]_traceVars => (LogInv /\ IndexInv)'
  <2>1. ASSUME LogInv, IndexInv, TraceNext
        PROVE  (LogInv /\ IndexInv)'
    BY <2>1, AppendInv, IndexStep DEF TraceNext, RecordAgent, RecordSession, RecordExec, Logs
  <2>2. ASSUME LogInv, IndexInv, UNCHANGED traceVars
        PROVE  (LogInv /\ IndexInv)'
    BY <2>2 DEF LogInv, LogTypeOK, IndexInv, traceVars
  <2> QED
    BY <2>1, <2>2
<1>3. LogInv /\ IndexInv => ExecAnswers
  BY IndexImplies DEF ExecAnswers
<1> QED
  BY <1>1, <1>2, <1>3, PTL DEF TraceSpec
=============================================================================
