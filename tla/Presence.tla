------------------------------- MODULE Presence -------------------------------
(***************************************************************************)
(* What the server promises about an agent's presence: a disconnect is     *)
(* told only of an agent that left and stayed away, a reconnect only after *)
(* a disconnect that was told, and an agent that swaps one connection for  *)
(* another never left.                                                     *)
(***************************************************************************)
VARIABLES online,  \* the agent has a session
          told     \* "nothing", "leaving" while the grace time runs, "gone" once it was told

Init == online = FALSE /\ told = "nothing"

\* The agent is here; if it was told gone, that it is back is told now.
Come == ~online /\ online' = TRUE /\ told' = "nothing"

\* Its session ends.
Leave == online /\ online' = FALSE /\ told' = "leaving"

\* The grace time is over, and nothing has come back.
Tell == ~online /\ told = "leaving" /\ told' = "gone" /\ UNCHANGED online

\* The server ends the session itself (the client is deleted or registered
\* anew), forgets who was away, or starts again: nobody is told.
Evict == online' = FALSE /\ told' \in {told, "nothing"}

\* A deleted client may still be on a connection nobody ended.
Forget == told' = "nothing" /\ UNCHANGED online

Next == Come \/ Leave \/ Tell \/ Evict \/ Forget

Spec == Init /\ [][Next]_<<online, told>>
=============================================================================
