----------------------------- MODULE Negotiation -----------------------------
(***************************************************************************)
(* From an intent to an agreed session: the sessions (src/session/         *)
(* session.py and manager.py) and the handlers of src/transport/handler.py *)
(* that work on them: intent.broadcast with _execute_agent_flow,           *)
(* intent.offer, intent.agree, session.close and exec.request.             *)
(*                                                                         *)
(* A connection reads its next message only when the handler of the        *)
(* previous one has returned, and the handler of intent.broadcast runs     *)
(* for as long as the flow is planned, delivered and waited for.  It goes  *)
(* on when its websocket is closed meanwhile, and notices afterwards.      *)
(*                                                                         *)
(* Under the session manager's lock nothing is awaited, so each of its     *)
(* operations is one step.  The clock is abstracted to the comparison of   *)
(* is_expired.  Messages that are refused change nothing and are left out, *)
(* as are exec.accepted, exec.progress, exec.result, exec.error and        *)
(* exec.partial_failure: they are valid from the session's provider alone, *)
(* which intent.agree sets to the bus itself.                              *)
(***************************************************************************)
EXTENDS Integers, FiniteSets

CONSTANTS
    Agents,     \* agent_id
    Sessions,   \* the intent.broadcast messages, each with its ephemeral_interface_id
    Requester,  \* requester_agent_id: the sender of the broadcast
    Plans,      \* the sets of agents the planner may choose for a broadcast
    MaxOffers   \* bound: how many offers each agent sends in one session

ASSUME RequesterAssumption == Requester \in [Sessions -> Agents]
ASSUME PlansAssumption ==
    \A s \in Sessions : \A F \in Plans[s] : F \subseteq Agents /\ IsFiniteSet(F)
ASSUME MaxOffersAssumption == MaxOffers \in [Agents -> Nat]

VARIABLES
    online,      \* agents with an open, registered connection
    job,         \* the handler of the broadcast: _handle_intent_broadcast
    attached,    \* broadcasts in such a handler, on a connection that is still open
    answer,      \* the reply to the broadcast, "lost" if the connection was gone
    status,      \* session.status, "absent" before create_session
    late,        \* sessions past the expires_at of their present status
    flow,        \* session.flow_agents
    todo,        \* flow agents that _execute_agent_flow has not come to
    delivered,   \* agents that got intent.deliver, and with it the session's id
    offers,      \* session.offers: who sent it, and which of the sender's it is
    aggregated   \* sessions with an aggregated_offer_id

flowVars == <<job, flow, todo, delivered, aggregated>>
vars == <<online, attached, answer, status, late, offers, flowVars>>

Open == {"negotiating", "active"}
Ended == {"closed", "expired"}

TypeOK ==
    /\ online \in SUBSET Agents
    /\ job \in [Sessions -> {"none", "planning", "collecting", "ended"}]
    /\ attached \in SUBSET Sessions
    /\ answer \in [Sessions -> {"none", "no_agents", "no_offers", "offers", "lost"}]
    /\ status \in [Sessions -> Open \cup Ended \cup {"absent"}]
    /\ late \in SUBSET Sessions
    /\ flow \in [Sessions -> SUBSET Agents]
    /\ todo \in [Sessions -> SUBSET Agents] /\ \A s \in Sessions : todo[s] \subseteq flow[s]
    /\ delivered \in [Sessions -> SUBSET Agents]
    /\ offers \in [Sessions -> SUBSET {o \in Agents \X Nat : o[2] \in 1..MaxOffers[o[1]]}]
    /\ aggregated \in SUBSET Sessions

Init ==
    /\ online = {}
    /\ job = [s \in Sessions |-> "none"]
    /\ attached = {}
    /\ answer = [s \in Sessions |-> "none"]
    /\ status = [s \in Sessions |-> "absent"]
    /\ late = {}
    /\ flow = [s \in Sessions |-> {}]
    /\ todo = [s \in Sessions |-> {}]
    /\ delivered = [s \in Sessions |-> {}]
    /\ offers = [s \in Sessions |-> {}]
    /\ aggregated = {}

-----------------------------------------------------------------------------
(* Connections.                                                            *)

SessionsOf(a) == {s \in Sessions : Requester[s] = a}

\* The agent's connection is in the handler of a broadcast.
Busy(a) == SessionsOf(a) \cap attached # {}

\* The agent's connection reads the next message.
Reads(a) == a \in online /\ ~Busy(a)

\* Who can name the session in a message.
Knows(a, s) ==
    \/ a \in delivered[s]
    \/ a = Requester[s] /\ answer[s] = "offers"

Connect(a) ==
    /\ a \notin online
    /\ online' = online \cup {a}
    /\ UNCHANGED <<attached, answer, status, late, offers, flowVars>>

\* The connection of a is closed by either side, or its handler raised.
CutOff(a) ==
    /\ online' = online \ {a}
    /\ attached' = attached \ SessionsOf(a)

Disconnect(a) ==
    /\ a \in online
    /\ CutOff(a)
    /\ UNCHANGED <<answer, status, late, offers, flowVars>>

\* The handler of the broadcast ends with a message to its own websocket, the one the
\* broadcast came from; an error of _send_envelope is only logged.
Reply(s, r) ==
    /\ job' = [job EXCEPT ![s] = "ended"]
    /\ answer' = [answer EXCEPT ![s] = IF s \in attached THEN r ELSE "lost"]
    /\ attached' = attached \ {s}

-----------------------------------------------------------------------------
(* The handler of intent.broadcast.                                        *)

\* The broadcast is read, and the router asks the planner.
Broadcast(s) ==
    /\ Reads(Requester[s])
    /\ job[s] = "none"
    /\ job' = [job EXCEPT ![s] = "planning"]
    /\ attached' = attached \cup {s}
    /\ UNCHANGED <<online, answer, status, late, offers, flow, todo, delivered, aggregated>>

\* find_agent_flow found no flow: NO_AGENTS.
NoAgents(s) ==
    /\ job[s] = "planning"
    /\ Reply(s, "no_agents")
    /\ UNCHANGED <<online, status, late, offers, flow, todo, delivered, aggregated>>

\* Mutant of CreateSession: every other agent is asked, whatever the plan says.
CreateSession_all(s, F) ==
    /\ job[s] = "planning"
    /\ job' = [job EXCEPT ![s] = "collecting"]
    /\ status' = [status EXCEPT ![s] = "negotiating"]
    /\ flow' = [flow EXCEPT ![s] = F]
    /\ todo' = [todo EXCEPT ![s] = Agents \ {Requester[s]}]
    /\ UNCHANGED <<online, attached, answer, late, offers, delivered, aggregated>>

\* The planner's flow: not checked against the registry, and possibly empty.
CreateSession(s, F) ==
    /\ job[s] = "planning"
    /\ job' = [job EXCEPT ![s] = "collecting"]
    /\ status' = [status EXCEPT ![s] = "negotiating"]
    /\ flow' = [flow EXCEPT ![s] = F]
    /\ todo' = [todo EXCEPT ![s] = F]
    /\ UNCHANGED <<online, attached, answer, late, offers, delivered, aggregated>>

\* intent.deliver to the next agent of the flow: it arrives, or the agent is not
\* registered (any more), or the send fails, and the loop goes on.
Deliver(s, p, arrives) ==
    /\ job[s] = "collecting" /\ p \in todo[s]
    /\ arrives => p \in online
    /\ todo' = [todo EXCEPT ![s] = @ \ {p}]
    /\ delivered' = IF arrives THEN [delivered EXCEPT ![s] = @ \cup {p}] ELSE delivered
    /\ UNCHANGED <<online, job, attached, answer, status, late, flow, offers, aggregated>>

\* The planner named an agent by something that is not a UUID: the handler raises and
\* takes the connection with it.  The session stays.
DeliverRaises(s) ==
    /\ job[s] = "collecting" /\ todo[s] # {}
    /\ job' = [job EXCEPT ![s] = "ended"]
    /\ answer' = [answer EXCEPT ![s] = "lost"]
    /\ IF s \in attached THEN CutOff(Requester[s]) ELSE UNCHANGED <<online, attached>>
    /\ UNCHANGED <<status, late, offers, flow, todo, delivered, aggregated>>

\* Mutant of Enough: the first offer will do.
Enough_any(s) == offers[s] # {}

\* A poll ends the wait when there are as many offers as the flow has agents; an empty
\* flow is then treated as one without offers.
Enough(s) == offers[s] # {} /\ Cardinality(offers[s]) >= Cardinality(flow[s])

\* Steps 2 and 3: the aggregated offer is stored, whatever the session's status has
\* become, and sent to the requester.
Aggregate(s) ==
    /\ job[s] = "collecting" /\ todo[s] = {}
    /\ Enough(s)
    /\ aggregated' = aggregated \cup {s}
    /\ Reply(s, "offers")
    /\ UNCHANGED <<online, status, late, offers, flow, todo, delivered>>

\* Mutant of NoOffers: it gives up only when no offer came at all.
NoOffers_none_at_all(s) ==
    /\ job[s] = "collecting" /\ todo[s] = {}
    /\ offers[s] = {}
    /\ Reply(s, "no_offers")
    /\ UNCHANGED <<online, status, late, offers, flow, todo, delivered, aggregated>>

\* The last poll within timeout_seconds found too few: NO_OFFERS, and the session is
\* left as it is.
NoOffers(s) ==
    /\ job[s] = "collecting" /\ todo[s] = {}
    /\ ~Enough(s)
    /\ Reply(s, "no_offers")
    /\ UNCHANGED <<online, status, late, offers, flow, todo, delivered, aggregated>>

-----------------------------------------------------------------------------
(* The other handlers.                                                     *)

\* intent.offer: add_offer takes any number of offers, of whoever names the session.
Offer(p, s, n) ==
    /\ Reads(p) /\ Knows(p, s)
    /\ status[s] = "negotiating" /\ s \notin late
    /\ <<p, n>> \notin offers[s]
    /\ n > 1 => <<p, n - 1>> \in offers[s]
    /\ offers' = [offers EXCEPT ![s] = @ \cup {<<p, n>>}]
    /\ UNCHANGED <<online, attached, answer, status, late, flowVars>>

\* intent.agree: the requester's, with the id of the aggregated offer it was sent.  The
\* handler does not look at the status, nor at the time, and the lifetime starts anew.
Agree(s) ==
    /\ Reads(Requester[s]) /\ answer[s] = "offers"
    /\ s \in aggregated
    /\ status' = [status EXCEPT ![s] = "active"]
    /\ late' = late \ {s}
    /\ UNCHANGED <<online, attached, answer, offers, flowVars>>

\* session.close, of whoever names the session and in any status.
Close(a, s) ==
    /\ Reads(a) /\ Knows(a, s)
    /\ status' = [status EXCEPT ![s] = "closed"]
    /\ late' = late \ {s}
    /\ UNCHANGED <<online, attached, answer, offers, flowVars>>

\* exec.request that validate_session_for_exec accepts: _execute_agent_flow has no
\* parameter "session", the call raises TypeError and the connection ends.
ExecRequest(s) ==
    /\ Reads(Requester[s]) /\ Knows(Requester[s], s)
    /\ status[s] = "active" /\ s \notin late
    /\ CutOff(Requester[s])
    /\ UNCHANGED <<answer, status, late, offers, flowVars>>

-----------------------------------------------------------------------------
(* The cleanup task, and time.                                             *)

\* Mutant of Expirable: sessions in use are left alone.
Expirable_negotiating == {s \in late : status[s] = "negotiating"}

Expirable == {s \in late : status[s] \in Open}

CleanupExpired ==
    /\ Expirable # {}
    /\ status' = [s \in Sessions |-> IF s \in Expirable THEN "expired" ELSE status[s]]
    /\ late' = late \ Expirable
    /\ UNCHANGED <<online, attached, answer, offers, flowVars>>

\* The expires_at of the session's present status passes.
TtlPasses(s) ==
    /\ status[s] \in Open /\ s \notin late
    /\ late' = late \cup {s}
    /\ UNCHANGED <<online, attached, answer, status, offers, flowVars>>

-----------------------------------------------------------------------------
ConnectionStep == \E a \in Agents : Connect(a) \/ Disconnect(a)

FlowStep(s) ==
    \/ \E p \in Agents : \E arrives \in BOOLEAN : Deliver(s, p, arrives)
    \/ DeliverRaises(s) \/ Aggregate(s) \/ NoOffers(s)

BroadcastStep(s) ==
    Broadcast(s) \/ NoAgents(s) \/ (\E F \in Plans[s] : CreateSession(s, F))

MessageStep(s) ==
    \/ \E p \in Agents : \E n \in 1..MaxOffers[p] : Offer(p, s, n)
    \/ \E a \in Agents : Close(a, s)
    \/ Agree(s) \/ ExecRequest(s)

Next ==
    \/ ConnectionStep
    \/ \E s \in Sessions :
          BroadcastStep(s) \/ FlowStep(s) \/ MessageStep(s) \/ TtlPasses(s)
    \/ CleanupExpired

Spec == Init /\ [][Next]_vars

(***************************************************************************)
(* Fairness.  The loop over the flow's agents and the polls that end after *)
(* timeout_seconds go on; the cleanup task runs every cleanup_interval.    *)
(* Nothing is assumed of agents, of connections or of the planner, whose   *)
(* call has no timeout.                                                    *)
(***************************************************************************)
Fairness ==
    /\ \A s \in Sessions : WF_vars(FlowStep(s))
    /\ WF_vars(CleanupExpired)

FairSpec == Spec /\ Fairness

-----------------------------------------------------------------------------
(* Properties.                                                             *)

\* The senders of a session's offers, and the sessions with a second one of a sender.
Offerers(s) == {o[1] : o \in offers[s]}
OfferedTwice(s) == \E o \in offers[s] : o[2] > 1

\* A session is ACTIVE only after the flow of its broadcast came to its end and the
\* requester was shown offers of every agent of the flow: neither a broadcast that
\* ended in NO_OFFERS, nor one whose requester was cut off before the answer, becomes
\* ACTIVE, however late offers, closes and expiry interleave.  The handler counts
\* offers and not their senders: the one exception is an agent that sent two.
ActiveOnlyIfComplete ==
    \A s \in Sessions : status[s] = "active" =>
        /\ job[s] = "ended" /\ answer[s] = "offers" /\ s \in aggregated
        /\ flow[s] \subseteq Offerers(s) \/ OfferedTwice(s)

\* The inductive strengthening of ActiveOnlyIfComplete: a session exists once the flow
\* is created; those who got intent.deliver are of the flow, and until the requester
\* is answered they alone offer; what the requester was told is what was aggregated,
\* and that had an offer of everybody.
FlowInv ==
    \A s \in Sessions :
        /\ status[s] # "absent" \/ delivered[s] # {} => job[s] \in {"collecting", "ended"}
        /\ delivered[s] \subseteq flow[s]
        /\ job[s] # "ended" => Offerers(s) \subseteq delivered[s]
        /\ answer[s] # "none" => job[s] = "ended"
        /\ answer[s] = "offers" => s \in aggregated
        /\ s \in aggregated =>
              /\ job[s] = "ended"
              /\ flow[s] \subseteq Offerers(s) \/ OfferedTwice(s)
        /\ IsFiniteSet(offers[s]) /\ IsFiniteSet(flow[s])

\* Agents may wait for each other: each broadcasts an intent whose flow names the
\* other, and neither connection reads the offer it was sent.  The wait ends all the
\* same, with an answer unless the requester's connection is gone, and the connection
\* reads on.
FlowEnds ==
    \A s \in Sessions :
        (job[s] = "collecting") ~>
            (job[s] = "ended" /\ answer[s] # "none" /\ s \notin attached)

\* A session past its time does not stay open, unless the requester agrees once more.
LateSessionsEnd ==
    \A s \in Sessions : (status[s] \in Open /\ s \in late) ~> (s \notin late)

\* README.md: "Sessions have explicit TTLs. They are born, serve their purpose, and
\* dissolve": a session that is CLOSED or EXPIRED does not come back.
EndedSessionsStayEnded ==
    [][ \A s \in Sessions : status[s] \in Ended => status'[s] \in Ended ]_vars

\* handler.py: NO_OFFERS means "No agents responded with offers for the flow".
NoOffersMeansNone ==
    [][ \A s \in Sessions :
          (answer[s] = "none" /\ answer'[s] = "no_offers") => offers[s] = {} ]_vars
=============================================================================
