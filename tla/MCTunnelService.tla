--------------------------- MODULE MCTunnelService ---------------------------
(***************************************************************************)
(* Values for model-checking TunnelService: the requests of some clients   *)
(* that compete for one slot, some of them for the same PBS.               *)
(***************************************************************************)
EXTENDS TunnelService

CONSTANTS c1, c2, c3, q1, q2, q3, q4, q5, t1, t2

\* q1 ... q3 are of one client, q1 and q2 for the same PBS.
ThreeOneOne == [q \in Requests |-> CASE q = q4 -> c2 [] q = q5 -> c3 [] OTHER -> c1]
TwoTargets == [q \in Requests |-> IF q = q3 THEN t2 ELSE t1]
=============================================================================
