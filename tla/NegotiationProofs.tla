-------------------------- MODULE NegotiationProofs --------------------------
(***************************************************************************)
(* Proofs about Negotiation, for any number of agents, broadcasts and      *)
(* offers.  The inductive invariant joins ActiveOnlyIfComplete with        *)
(* FlowInv, which ties session, offers and reply to the broadcast's        *)
(* handler.  The handler counts offers; that it has one of every agent     *)
(* follows by counting (CountIsEnough), since until it has answered only   *)
(* agents of the flow know the session.                                    *)
(***************************************************************************)
EXTENDS Negotiation, FiniteSetTheorems, TLAPS

NegotiationInv == TypeOK /\ FlowInv /\ ActiveOnlyIfComplete

\* No broadcast, no session.
LEMMA InitInv == Init => NegotiationInv
<1> SUFFICES ASSUME Init PROVE NegotiationInv
  OBVIOUS
<1>1. TypeOK
  BY DEF Init, TypeOK, Open, Ended
<1>2. FlowInv
  BY FS_EmptySet DEF Init, FlowInv, Offerers
<1>3. ActiveOnlyIfComplete
  BY DEF Init, ActiveOnlyIfComplete
<1> QED
  BY <1>1, <1>2, <1>3 DEF NegotiationInv

-----------------------------------------------------------------------------
(* Counting offers.                                                        *)

\* Offerers and OfferedTwice in terms of the offers of one session.
Senders(of) == {o[1] : o \in of}
Twice(of) == \E o \in of : o[2] > 1

\* One more offer takes away nothing.
LEMMA OneMoreOffer ==
  ASSUME NEW of, NEW p, NEW n
  PROVE  /\ Senders(of \cup {<<p, n>>}) = Senders(of) \cup {p}
         /\ Twice(of) => Twice(of \cup {<<p, n>>})
<1>1. <<p, n>>[1] = p
  OBVIOUS
<1>2. \A q : q \in Senders(of \cup {<<p, n>>}) <=> q \in Senders(of) \cup {p}
  BY <1>1 DEF Senders
<1>3. Twice(of) => Twice(of \cup {<<p, n>>})
  BY DEF Twice
<1> QED
  BY <1>2, <1>3

\* If nobody offered twice, as many offers as there are agents, all of them of those
\* agents, are one of each: their senders differ, so that there is no room for another.
LEMMA CountIsEnough ==
  ASSUME NEW of, IsFiniteSet(of), NEW fl, IsFiniteSet(fl),
         \A o \in of : o \in Agents \X Nat /\ o[2] >= 1,
         Senders(of) \subseteq fl,
         Cardinality(of) >= Cardinality(fl)
  PROVE  fl \subseteq Senders(of) \/ Twice(of)
<1> SUFFICES ASSUME ~Twice(of) PROVE fl \subseteq Senders(of)
  OBVIOUS
<1> DEFINE sender == [o \in of |-> o[1]]
<1>1. \A o \in of : o = <<o[1], 1>>
  BY DEF Twice
<1>2. sender \in Injection(of, fl)
  <2>1. sender \in [of -> fl]
    BY DEF Senders
  <2>2. \A o, q \in of : sender[o] = sender[q] => o = q
    BY <1>1
  <2> QED
    BY <2>1, <2>2 DEF Injection, IsInjective
<1>3. Cardinality(of) <= Cardinality(fl)
  BY <1>2, FS_Injection
<1>4. Cardinality(of) = Cardinality(fl)
  BY <1>3, FS_CardinalityType
<1>5. sender \in Surjection(of, fl)
  BY <1>2, <1>4, FS_Injection
<1> QED
  BY <1>5 DEF Surjection, Senders

-----------------------------------------------------------------------------
(* One session at a time.                                                  *)

\* What holds of one session, in terms of its own state.
Good(j, an, st, ag, dl, of, fl) ==
    /\ st # "absent" \/ dl # {} => j \in {"collecting", "ended"}
    /\ dl \subseteq fl
    /\ j # "ended" => Senders(of) \subseteq dl
    /\ an # "none" => j = "ended"
    /\ an = "offers" => ag
    /\ ag => j = "ended" /\ (fl \subseteq Senders(of) \/ Twice(of))
    /\ IsFiniteSet(of) /\ IsFiniteSet(fl)
    /\ st = "active" => j = "ended" /\ an = "offers" /\ ag

\* FlowInv and ActiveOnlyIfComplete say it of every session.
LEMMA InvIsGood ==
  FlowInv /\ ActiveOnlyIfComplete <=>
    \A s \in Sessions : Good(job[s], answer[s], status[s], s \in aggregated, delivered[s],
                             offers[s], flow[s])
BY DEF FlowInv, ActiveOnlyIfComplete, Good, Offerers, OfferedTwice, Senders, Twice

\* The same of the next state.
LEMMA InvIsGoodNext ==
  FlowInv' /\ ActiveOnlyIfComplete' <=>
    \A s \in Sessions : Good(job'[s], answer'[s], status'[s], s \in aggregated', delivered'[s],
                             offers'[s], flow'[s])
BY DEF FlowInv, ActiveOnlyIfComplete, Good, Offerers, OfferedTwice, Senders, Twice

\* A step that changes one session, and keeps it good, preserves the invariant.
LEMMA OneSession ==
  ASSUME NegotiationInv, NEW s \in Sessions, TypeOK',
         \A t \in Sessions \ {s} :
            /\ job'[t] = job[t] /\ answer'[t] = answer[t] /\ status'[t] = status[t]
            /\ t \in aggregated' <=> t \in aggregated
            /\ delivered'[t] = delivered[t] /\ offers'[t] = offers[t] /\ flow'[t] = flow[t],
         Good(job'[s], answer'[s], status'[s], s \in aggregated', delivered'[s],
              offers'[s], flow'[s])
  PROVE  NegotiationInv'
<1>1. \A t \in Sessions \ {s} :
         Good(job'[t], answer'[t], status'[t], t \in aggregated', delivered'[t],
              offers'[t], flow'[t])
  BY InvIsGood DEF NegotiationInv, Good
<1>2. \A t \in Sessions :
         Good(job'[t], answer'[t], status'[t], t \in aggregated', delivered'[t],
              offers'[t], flow'[t])
  BY <1>1
<1> QED
  BY <1>2, InvIsGoodNext DEF NegotiationInv

\* The handler of a broadcast, up to the plan.
LEMMA BroadcastInv ==
  ASSUME NegotiationInv, NEW s \in Sessions, BroadcastStep(s)
  PROVE  NegotiationInv'
<1>1. Good(job[s], answer[s], status[s], s \in aggregated, delivered[s], offers[s], flow[s])
  BY InvIsGood DEF NegotiationInv
<1>2. CASE Broadcast(s)
  <2>1. TypeOK'
    BY <1>2 DEF Broadcast, NegotiationInv, TypeOK
  <2>2. Good(job'[s], answer'[s], status'[s], s \in aggregated', delivered'[s], offers'[s], flow'[s])
    BY <1>1, <1>2 DEF Broadcast, Good, NegotiationInv, TypeOK
  <2> QED
    BY <1>2, <2>1, <2>2, OneSession DEF Broadcast, NegotiationInv, TypeOK
<1>3. CASE NoAgents(s)
  <2>1. TypeOK'
    BY <1>3 DEF NoAgents, Reply, NegotiationInv, TypeOK
  <2>2. Good(job'[s], answer'[s], status'[s], s \in aggregated', delivered'[s], offers'[s], flow'[s])
    BY <1>1, <1>3 DEF NoAgents, Reply, Good, NegotiationInv, TypeOK
  <2> QED
    BY <1>3, <2>1, <2>2, OneSession DEF NoAgents, Reply, NegotiationInv, TypeOK
<1>4. CASE \E F \in Plans[s] : CreateSession(s, F)
  <2>1. PICK F \in Plans[s] : CreateSession(s, F)
    BY <1>4
  <2>2. F \subseteq Agents /\ IsFiniteSet(F)
    BY PlansAssumption
  <2>3. TypeOK'
    BY <2>1, <2>2 DEF CreateSession, NegotiationInv, TypeOK, Open
  <2>4. Good(job'[s], answer'[s], status'[s], s \in aggregated', delivered'[s], offers'[s], flow'[s])
    BY <1>1, <2>1, <2>2 DEF CreateSession, Good, NegotiationInv, TypeOK
  <2> QED
    BY <2>1, <2>3, <2>4, OneSession DEF CreateSession, NegotiationInv, TypeOK
<1> QED
  BY <1>2, <1>3, <1>4 DEF BroadcastStep

\* The delivery to the flow's agents, and the two ends of the wait for their offers.
LEMMA FlowStepInv ==
  ASSUME NegotiationInv, NEW s \in Sessions, FlowStep(s)
  PROVE  NegotiationInv'
<1>1. Good(job[s], answer[s], status[s], s \in aggregated, delivered[s], offers[s], flow[s])
  BY InvIsGood DEF NegotiationInv
<1>2. ASSUME NEW p \in Agents, NEW arrives \in BOOLEAN, Deliver(s, p, arrives)
      PROVE  NegotiationInv'
  <2>1. TypeOK'
    BY <1>2 DEF Deliver, NegotiationInv, TypeOK
  <2>2. Good(job'[s], answer'[s], status'[s], s \in aggregated', delivered'[s], offers'[s], flow'[s])
    BY <1>1, <1>2 DEF Deliver, Good, NegotiationInv, TypeOK
  <2>3. \A t \in Sessions \ {s} : delivered'[t] = delivered[t]
    BY <1>2 DEF Deliver, NegotiationInv, TypeOK
  <2> QED
    BY <1>2, <2>1, <2>2, <2>3, OneSession DEF Deliver
<1>3. CASE DeliverRaises(s)
  <2>1. TypeOK'
    BY <1>3 DEF DeliverRaises, CutOff, NegotiationInv, TypeOK
  <2>2. Good(job'[s], answer'[s], status'[s], s \in aggregated', delivered'[s], offers'[s], flow'[s])
    BY <1>1, <1>3 DEF DeliverRaises, Good, NegotiationInv, TypeOK
  <2> QED
    BY <1>3, <2>1, <2>2, OneSession DEF DeliverRaises, NegotiationInv, TypeOK
<1>4. CASE Aggregate(s)
  <2>1. TypeOK'
    BY <1>4 DEF Aggregate, Reply, NegotiationInv, TypeOK
  <2>2. Good(job'[s], answer'[s], status'[s], s \in aggregated', delivered'[s], offers'[s], flow'[s])
    <3>1. Senders(offers[s]) \subseteq flow[s]
      BY <1>1, <1>4 DEF Aggregate, Good
    <3>2. \A o \in offers[s] : o \in Agents \X Nat /\ o[2] >= 1
      BY MaxOffersAssumption DEF NegotiationInv, TypeOK
    <3>3. flow[s] \subseteq Senders(offers[s]) \/ Twice(offers[s])
      BY <1>1, <1>4, <3>1, <3>2, CountIsEnough DEF Aggregate, Enough, Good
    <3> QED
      BY <1>1, <1>4, <3>3 DEF Aggregate, Reply, Good, NegotiationInv, TypeOK
  <2> QED
    BY <1>4, <2>1, <2>2, OneSession DEF Aggregate, Reply, NegotiationInv, TypeOK
<1>5. CASE NoOffers(s)
  <2>1. TypeOK'
    BY <1>5 DEF NoOffers, Reply, NegotiationInv, TypeOK
  <2>2. Good(job'[s], answer'[s], status'[s], s \in aggregated', delivered'[s], offers'[s], flow'[s])
    BY <1>1, <1>5 DEF NoOffers, Reply, Good, NegotiationInv, TypeOK
  <2> QED
    BY <1>5, <2>1, <2>2, OneSession DEF NoOffers, Reply, NegotiationInv, TypeOK
<1> QED
  BY <1>2, <1>3, <1>4, <1>5 DEF FlowStep

\* Offers, agreement, close and exec.request.  An offer only adds to the count.
LEMMA MessageInv ==
  ASSUME NegotiationInv, NEW s \in Sessions, MessageStep(s)
  PROVE  NegotiationInv'
<1>1. Good(job[s], answer[s], status[s], s \in aggregated, delivered[s], offers[s], flow[s])
  BY InvIsGood DEF NegotiationInv
<1>2. ASSUME NEW p \in Agents, NEW n \in 1..MaxOffers[p], Offer(p, s, n)
      PROVE  NegotiationInv'
  <2>1. TypeOK'
    BY <1>2 DEF Offer, NegotiationInv, TypeOK, flowVars
  <2>2. offers'[s] = offers[s] \cup {<<p, n>>} /\ <<p, n>> \notin offers[s]
    BY <1>2 DEF Offer, NegotiationInv, TypeOK
  <2>3. IsFiniteSet(offers'[s])
    BY <1>1, <2>2, FS_AddElement DEF Good
  <2>4. /\ Senders(offers'[s]) = Senders(offers[s]) \cup {p}
        /\ Twice(offers[s]) => Twice(offers'[s])
    <3>1. PICK of : of = offers[s]
      OBVIOUS
    <3>2. PICK next : next = offers'[s]
      OBVIOUS
    <3>3. next = of \cup {<<p, n>>}
      BY <2>2, <3>1, <3>2
    <3>4. Senders(next) = Senders(of) \cup {p} /\ (Twice(of) => Twice(next))
      BY ONLY <3>3, OneMoreOffer
    <3> QED
      BY <3>1, <3>2, <3>4
  <2>5. job[s] # "ended" => p \in delivered[s]
    BY <1>1, <1>2 DEF Offer, Knows, Good
  <2>6. Good(job'[s], answer'[s], status'[s], s \in aggregated', delivered'[s], offers'[s], flow'[s])
    BY <1>1, <1>2, <2>3, <2>4, <2>5 DEF Offer, flowVars, Good
  <2> QED
    BY <1>2, <2>1, <2>6, OneSession DEF Offer, flowVars, NegotiationInv, TypeOK
<1>3. ASSUME NEW a \in Agents, Close(a, s)
      PROVE  NegotiationInv'
  <2>1. TypeOK'
    BY <1>3 DEF Close, NegotiationInv, TypeOK, flowVars, Ended
  <2>2. Good(job'[s], answer'[s], status'[s], s \in aggregated', delivered'[s], offers'[s], flow'[s])
    BY <1>1, <1>3 DEF Close, Knows, flowVars, Good, NegotiationInv, TypeOK
  <2> QED
    BY <1>3, <2>1, <2>2, OneSession DEF Close, flowVars, NegotiationInv, TypeOK
<1>4. CASE Agree(s)
  <2>1. TypeOK'
    BY <1>4 DEF Agree, NegotiationInv, TypeOK, flowVars, Open
  <2>2. Good(job'[s], answer'[s], status'[s], s \in aggregated', delivered'[s], offers'[s], flow'[s])
    BY <1>1, <1>4 DEF Agree, flowVars, Good, NegotiationInv, TypeOK
  <2> QED
    BY <1>4, <2>1, <2>2, OneSession DEF Agree, flowVars, NegotiationInv, TypeOK
<1>5. CASE ExecRequest(s)
  <2>1. TypeOK'
    BY <1>5 DEF ExecRequest, CutOff, NegotiationInv, TypeOK, flowVars
  <2> QED
    BY <1>1, <1>5, <2>1, OneSession DEF ExecRequest, flowVars
<1> QED
  BY <1>2, <1>3, <1>4, <1>5 DEF MessageStep

\* Connections, time and the cleanup: no session becomes ACTIVE, and none appears.
LEMMA OtherInv ==
  ASSUME NegotiationInv,
         \/ ConnectionStep \/ CleanupExpired \/ (\E s \in Sessions : TtlPasses(s))
         \/ UNCHANGED vars
  PROVE  NegotiationInv'
<1>1. TypeOK'
  <2>1. CASE ConnectionStep
    BY <2>1 DEF ConnectionStep, Connect, Disconnect, CutOff, NegotiationInv, TypeOK, flowVars
  <2>2. CASE CleanupExpired
    BY <2>2 DEF CleanupExpired, Expirable, NegotiationInv, TypeOK, flowVars, Ended
  <2>3. CASE \E s \in Sessions : TtlPasses(s)
    BY <2>3 DEF TtlPasses, NegotiationInv, TypeOK, flowVars
  <2>4. CASE UNCHANGED vars
    BY <2>4 DEF vars, NegotiationInv, TypeOK, flowVars
  <2> QED
    BY <2>1, <2>2, <2>3, <2>4
<1>2. UNCHANGED <<job, flow, delivered, aggregated, answer, offers>>
  BY DEF ConnectionStep, Connect, Disconnect, CleanupExpired, TtlPasses, vars, flowVars
<1>3. \A s \in Sessions : status'[s] = status[s] \/ (status[s] \in Open /\ status'[s] = "expired")
  <2>1. CASE CleanupExpired
    BY <2>1 DEF CleanupExpired, Expirable, NegotiationInv, TypeOK
  <2>2. CASE ~CleanupExpired
    BY <2>2 DEF ConnectionStep, Connect, Disconnect, TtlPasses, vars
  <2> QED
    BY <2>1, <2>2
<1>4. \A s \in Sessions : Good(job'[s], answer'[s], status'[s], s \in aggregated', delivered'[s],
                               offers'[s], flow'[s])
  BY <1>2, <1>3, InvIsGood DEF NegotiationInv, Good, Open
<1> QED
  BY <1>1, <1>4, InvIsGoodNext DEF NegotiationInv

\* Every step preserves the invariant.
LEMMA NextInv == NegotiationInv /\ [Next]_vars => NegotiationInv'
BY BroadcastInv, FlowStepInv, MessageInv, OtherInv DEF Next

\* Type correctness, and agreements only on complete flows: a session is ACTIVE only
\* after its broadcast collected offers of all agents of its flow, unless one of them
\* sent two, and the requester was sent them, for any number of agents, sessions and
\* offers.
THEOREM NegotiationSafe == Spec => [](TypeOK /\ ActiveOnlyIfComplete)
<1>1. NegotiationInv => TypeOK /\ ActiveOnlyIfComplete
  BY DEF NegotiationInv
<1> QED
  BY InitInv, NextInv, <1>1, PTL DEF Spec
=============================================================================
