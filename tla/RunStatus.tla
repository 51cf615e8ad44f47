----------------------------- MODULE RunStatus -----------------------------
(***************************************************************************)
(* The statuses of a run (shared/src, JOB_STATUS), sorted the ways agent   *)
(* and server sort them.                                                   *)
(***************************************************************************)

Active == {"queued", "running"}
\* Statuses the server writes from a live STATUS_UPDATE (TERMINAL_JOB_STATUSES).
Terminal == {"success", "failed", "abort"}
\* Statuses a run ends in (isFinalJobStatus).
Final == Terminal \cup {"skipped", "missed"}
Status == Active \cup Final
=============================================================================
