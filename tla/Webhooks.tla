------------------------------ MODULE Webhooks ------------------------------
(***************************************************************************)
(* How the server reports events to webhooks.  An event goes to every      *)
(* enabled webhook whose filters it passes.  Each webhook has a queue of   *)
(* its own in memory, delivers one event after the other with up to two    *)
(* retries, and drops what comes while too much is waiting.                *)
(*                                                                         *)
(* A delivery carries the webhook as it was when the event was dispatched: *)
(* an edit or a deletion afterwards does not reach it.  Events are         *)
(* numbered in the order they were dispatched.  The kinds of a webhook are *)
(* the ones its filters pass, at least one.                                *)
(***************************************************************************)
EXTENDS Integers, Sequences, SequencesExt

CONSTANTS
  Hooks,
  Kinds,       \* kinds of events
  MaxEvents,
  MaxPending,  \* MAX_PENDING_PER_WEBHOOK
  MaxEdits,    \* edits of webhooks and restarts of the server
  Down         \* the webhooks whose target never answers

ASSUME WebhooksAssumption ==
  /\ {MaxEvents, MaxPending, MaxEdits} \subseteq Nat
  /\ Down \subseteq Hooks /\ Kinds # {}

MaxAttempts == 3

VARIABLES
  hooks,    \* hook -> [enabled, kinds], or Deleted
  events,   \* events dispatched
  queue,    \* hook -> the deliveries waiting, the first one under way
  arrived,  \* hook -> the event that arrived last at its target, or 0
  result,   \* hook -> the outcome stored with it
  edits

webhooksVars == <<hooks, events, queue, arrived, result, edits>>

Deleted   == [enabled |-> FALSE, kinds |-> {}]
HookRows  == [enabled : BOOLEAN, kinds : (SUBSET Kinds) \ {{}}] \cup {Deleted}
Delivery  == [event : 1..MaxEvents, attempts : 0..(MaxAttempts - 1)]
NoResult  == [event |-> 0, ok |-> FALSE]

Accepts(w, kind) == hooks[w].enabled /\ kind \in hooks[w].kinds

-----------------------------------------------------------------------------

Enqueue(pending, event) ==
  IF Len(pending) >= MaxPending THEN pending ELSE Append(pending, [event |-> event, attempts |-> 0])

Dispatch(kind) ==
  /\ events < MaxEvents
  /\ events' = events + 1
  /\ queue'  = [w \in Hooks |-> IF Accepts(w, kind) THEN Enqueue(queue[w], events + 1) ELSE queue[w]]
  /\ UNCHANGED <<hooks, arrived, result, edits>>

\* The delivery is over.  Its outcome is stored with the webhook if that is
\* still there.
Settle(w, ok) ==
  /\ queue'  = [queue EXCEPT ![w] = Tail(@)]
  /\ result' = IF hooks[w] = Deleted THEN result
               ELSE [result EXCEPT ![w] = [event |-> Head(queue[w]).event, ok |-> ok]]

\* The request reaches the target, whatever becomes of the answer.
Arrive(w) == arrived' = [arrived EXCEPT ![w] = Head(queue[w]).event]

\* Answered, or refused for good: a status below 500 other than 429.
Answered(w) ==
  /\ queue[w] # <<>> /\ w \notin Down
  /\ Arrive(w)
  /\ \E ok \in BOOLEAN : Settle(w, ok)
  /\ UNCHANGED <<hooks, events, edits>>

\* The template does not render: nothing is sent.
NotRendered(w) ==
  /\ queue[w] # <<>> /\ Head(queue[w]).attempts = 0
  /\ Settle(w, FALSE)
  /\ UNCHANGED <<hooks, events, arrived, edits>>

\* Mutant: a retry is put behind what came meanwhile.
RetryLater(pending) == Append(Tail(pending), [Head(pending) EXCEPT !.attempts = @ + 1])

\* A retry waits in front of everything that came after it.
Retry(pending) == [pending EXCEPT ![1].attempts = @ + 1]

IsLast(delivery) == delivery.attempts = MaxAttempts - 1

\* No answer in time, or one that asks to try again.  The target may have
\* taken the request all the same.
Failed(w) ==
  /\ queue[w] # <<>>
  /\ Arrive(w) \/ UNCHANGED arrived
  /\ IF IsLast(Head(queue[w])) THEN Settle(w, FALSE)
     ELSE queue' = [queue EXCEPT ![w] = Retry(@)] /\ UNCHANGED result
  /\ UNCHANGED <<hooks, events, edits>>

Deliver(w) == Answered(w) \/ NotRendered(w) \/ Failed(w)

\* The operator switches a webhook, changes what it is sent, or deletes it.
Edit(w, row) ==
  /\ edits < MaxEdits /\ hooks[w] # Deleted /\ row # hooks[w]
  /\ edits' = edits + 1
  /\ hooks' = [hooks EXCEPT ![w] = row]
  /\ UNCHANGED <<events, queue, arrived, result>>

\* The queues are in memory only.
RestartServer ==
  /\ edits < MaxEdits
  /\ edits' = edits + 1
  /\ queue' = [w \in Hooks |-> <<>>]
  /\ UNCHANGED <<hooks, events, arrived, result>>

WebhooksInit ==
  /\ hooks   = [w \in Hooks |-> [enabled |-> TRUE, kinds |-> Kinds]]
  /\ events  = 0
  /\ queue   = [w \in Hooks |-> <<>>]
  /\ arrived = [w \in Hooks |-> 0]
  /\ result  = [w \in Hooks |-> NoResult]
  /\ edits   = 0

WebhooksNext ==
  \/ \E kind \in Kinds : Dispatch(kind)
  \/ \E w \in Hooks :
       \/ Deliver(w)
       \/ \E row \in HookRows : Edit(w, row)
  \/ RestartServer

WebhooksSpec == WebhooksInit /\ [][WebhooksNext]_webhooksVars

-----------------------------------------------------------------------------
(* Properties.                                                             *)

\* The shape of the state; no queue grows past its limit.
WebhooksTypeOK ==
  /\ hooks \in [Hooks -> HookRows]
  /\ events \in 0..MaxEvents
  /\ queue \in [Hooks -> BoundedSeq(Delivery, MaxPending)]
  /\ arrived \in [Hooks -> 0..MaxEvents]
  /\ result \in [Hooks -> [event : 0..MaxEvents, ok : BOOLEAN]]
  /\ edits \in 0..MaxEdits

\* A target sees events in their order, as WebhookService says of its queues:
\* nothing still waiting is older than what arrived last, and what waits is in
\* order itself, though each delivery may be sent three times, settled without
\* having arrived, or dropped before it was queued.
ArrivesInOrder ==
  \A w \in Hooks :
    /\ \A i \in 1..Len(queue[w]) : arrived[w] <= queue[w][i].event
    /\ \A i, j \in 1..Len(queue[w]) : i < j => queue[w][i].event < queue[w][j].event

\* Webhooks are delivered as they were dispatched, and no queue outgrows its
\* limit.
DeliveriesKept == WebhooksTypeOK /\ ArrivesInOrder
=============================================================================
