------------------------------ MODULE SlotPool ------------------------------
(***************************************************************************)
(* What maxConcurrentTunnels promises (docs/backend.md, "a queue, not a    *)
(* refusal"): never more than Size users hold a slot, a user waits only    *)
(* while all are taken, and a slot that is given back goes to the one who  *)
(* has waited longest.                                                     *)
(***************************************************************************)
EXTENDS Naturals, Sequences, FiniteSets

CONSTANTS Users, Size

VARIABLES holders, queue

InQueue(u) == \E i \in DOMAIN queue : queue[i] = u

Take(u) == /\ u \notin holders /\ queue = <<>>
           /\ Cardinality(holders) < Size
           /\ holders' = holders \cup {u}
           /\ UNCHANGED queue

Wait(u) == /\ u \notin holders /\ ~InQueue(u)
           /\ Cardinality(holders) = Size
           /\ queue' = Append(queue, u)
           /\ UNCHANGED holders

\* The one at place i has waited too long.
GiveUp(i) == /\ queue' = [k \in 1..(Len(queue) - 1) |-> queue[IF k < i THEN k ELSE k + 1]]
             /\ UNCHANGED holders

Return(u) ==
    /\ u \in holders
    /\ \/ queue = <<>> /\ holders' = holders \ {u} /\ UNCHANGED queue
       \/ /\ queue # <<>>
          /\ holders' = (holders \ {u}) \cup {Head(queue)}
          /\ queue' = Tail(queue)

Init == holders = {} /\ queue = <<>>

Next == \/ \E u \in Users : Take(u) \/ Wait(u) \/ Return(u)
        \/ \E i \in 1..Len(queue) : GiveUp(i)

Spec == Init /\ [][Next]_<<holders, queue>>
=============================================================================
