------------------------------ MODULE Delivery ------------------------------
(***************************************************************************)
(* What the history sync promises, without sockets, batches or timers: a   *)
(* record is rewritten at its source under ever higher revisions; the copy *)
(* moves forward only, never past the source; and the source takes for     *)
(* acknowledged only what the copy has.  The source may forget what was    *)
(* acknowledged -- it deletes the record, or starts offering it afresh --  *)
(* which costs another delivery and no more.                               *)
(***************************************************************************)
EXTENDS Naturals

CONSTANT Records

VARIABLES
    written,  \* highest revision the source wrote
    stored,   \* revision the copy has, 0 for none
    acked     \* revision the source takes for stored, 0 for none

vars == <<written, stored, acked>>

Zero == [r \in Records |-> 0]

Init == written = Zero /\ stored = Zero /\ acked = Zero

\* The source writes, learns of what is stored, or forgets.
SourceStep ==
    /\ written' \in [Records -> Nat] /\ acked' \in [Records -> Nat]
    /\ \A r \in Records :
          /\ written'[r] = written[r] \/ written'[r] = written[r] + 1
          /\ acked'[r] = 0 \/ acked'[r] \in acked[r]..stored[r]
    /\ UNCHANGED stored

\* The copy takes over revisions the source has written.
CopyStep ==
    /\ stored' \in [Records -> Nat]
    /\ \A r \in Records : stored'[r] \in stored[r]..written[r]
    /\ UNCHANGED <<written, acked>>

Next == SourceStep \/ CopyStep

Spec == Init /\ [][Next]_vars

-----------------------------------------------------------------------------
\* The order the promise keeps the three in.
NeverAhead == \A r \in Records : acked[r] <= stored[r] /\ stored[r] <= written[r]
=============================================================================
