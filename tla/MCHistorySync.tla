---------------------------- MODULE MCHistorySync ----------------------------
(***************************************************************************)
(* Values for model-checking HistorySync: one run taken through every way  *)
(* it can end, or several taken through few.                               *)
(***************************************************************************)
EXTENDS HistorySync

AllEnds == Final
ProcessEnds == {"success", "failed"}
SuccessOrSkipped == {"success", "skipped"}
OnlySuccess == {"success"}
NeverRan == {"missed", "abort"}
=============================================================================
