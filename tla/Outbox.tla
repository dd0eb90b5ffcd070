------------------------------- MODULE Outbox -------------------------------
(***************************************************************************)
(* What the connection queues (src/transport/queue.py) and the handlers    *)
(* of exec.* and exec.stream.* (src/transport/handler.py) promise the two  *)
(* ends of a session: one bounded queue before the requester's websocket,  *)
(* for all its streams, and one message at a time in the hand of a         *)
(* provider.  A message leaves the hand for the end of the queue; a full   *)
(* queue has the requester told, or ends the provider.  It leaves the      *)
(* queue for the websocket, in order, unless the link is down or the queue *)
(* is stopped with all it holds.  There are neither locks nor writers nor  *)
(* queues that follow one another here.                                    *)
(***************************************************************************)
EXTENDS Integers, Sequences

CONSTANTS Providers, Requesters, RequesterOf, MaxSize

VARIABLES
    link,      \* a requester's websocket: "open", "closed", then "gone"
    pending,   \* what waits for a requester
    written,   \* what was written to a requester's websocket
    read,      \* how many messages of a provider were read
    hand,      \* what a provider's handler has in hand
    stopped    \* the requesters whose queue was stopped some time

outboxVars == <<link, pending, written, read, hand, stopped>>

OutboxInit ==
    /\ link = [r \in Requesters |-> "open"]
    /\ pending = [r \in Requesters |-> <<>>]
    /\ written = [r \in Requesters |-> <<>>]
    /\ read = [p \in Providers |-> 0]
    /\ hand = [p \in Providers |-> "nothing"]
    /\ stopped = {}

Entry(p, n, k) == [from |-> p, n |-> n, kind |-> k]

Room(r) == Len(pending[r]) < MaxSize

\* m is written to the websocket of r, or lost with it.
Tell(r, m) ==
    written' = IF link[r] = "open" THEN [written EXCEPT ![r] = Append(@, m)] ELSE written

\* p reads its next message, which leaves k in its hand.
Reads(p, k) ==
    /\ hand[p] = "nothing" /\ link[RequesterOf[p]] # "gone"
    /\ read' = [read EXCEPT ![p] = @ + 1]
    /\ hand' = [hand EXCEPT ![p] = k]
    /\ UNCHANGED <<link, pending, stopped>>

Direct(p) == Reads(p, "nothing") /\ Tell(RequesterOf[p], Entry(p, read[p] + 1, "direct"))

StreamMessage(p, k) == Reads(p, k) /\ k \in {"mark", "chunk"} /\ written' = written

\* p has put down what it had in hand, or has k there instead.
Leaves(p, k) == hand' = [hand EXCEPT ![p] = k] /\ UNCHANGED <<link, read, stopped>>

Accept(p) ==
    LET r == RequesterOf[p] IN
    /\ hand[p] \in {"mark", "chunk"} /\ Room(r)
    /\ pending' = [pending EXCEPT ![r] = Append(@, Entry(p, read[p], hand[p]))]
    /\ Leaves(p, "nothing")
    /\ written' = written

\* There is no room.
Refuse(p) ==
    /\ hand[p] \in {"mark", "chunk"} /\ ~Room(RequesterOf[p])
    /\ Leaves(p, IF hand[p] = "chunk" THEN "refusal" ELSE "error")
    /\ UNCHANGED <<pending, written>>

TellRefusal(p) ==
    /\ hand[p] = "refusal"
    /\ Tell(RequesterOf[p], Entry(p, read[p], "refused"))
    /\ Leaves(p, "nothing")
    /\ pending' = pending

\* The first message of the queue is written, or lost with the link.
Deliver(r) ==
    /\ pending[r] # <<>>
    /\ pending' = [pending EXCEPT ![r] = Tail(@)]
    /\ Tell(r, Head(pending[r]))
    /\ UNCHANGED <<link, read, hand, stopped>>

\* The queue is stopped.
Drop(r) ==
    /\ pending' = [pending EXCEPT ![r] = <<>>]
    /\ stopped' = stopped \cup {r}
    /\ UNCHANGED <<link, written, read, hand>>

HangUp(r) ==
    /\ link[r] # "gone"
    /\ link' = [link EXCEPT ![r] = IF @ = "open" THEN "closed" ELSE "gone"]
    /\ UNCHANGED <<pending, written, read, hand, stopped>>

OutboxNext ==
    \/ \E p \in Providers : Direct(p) \/ Accept(p) \/ Refuse(p) \/ TellRefusal(p)
    \/ \E p \in Providers, k \in {"mark", "chunk"} : StreamMessage(p, k)
    \/ \E r \in Requesters : Deliver(r) \/ Drop(r) \/ HangUp(r)

OutboxSpec == OutboxInit /\ [][OutboxNext]_outboxVars
=============================================================================
