----------------------------- MODULE MCExecutor -----------------------------
(***************************************************************************)
(* Values for model-checking Executor: the runs of one job and a restore,  *)
(* and what `spawn` may come to.                                           *)
(***************************************************************************)
EXTENDS Executor

CONSTANTS r1, r2, r3, r4, j1

\* r1 ... r3 are runs of one job, r4 is another one or a restore.
ThreeRuns == [r \in {r1, r2, r3} |-> j1]
ThreeAndRestore == [r \in {r1, r2, r3, r4} |-> IF r = r4 THEN NoJob ELSE j1]
TwoAndRestore == [r \in {r1, r2, r4} |-> IF r = r4 THEN NoJob ELSE j1]

StartsOrErrs == {"cli", "erring"}
StartsOrThrows == {"cli", "stuck"}
=============================================================================
