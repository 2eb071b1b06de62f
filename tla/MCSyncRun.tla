------------------------------- MODULE MCSyncRun -------------------------------
(* Values for TLC: which runs are started.  "incremental" is left out: it *)
(* takes the steps of "cron", and only the scheduler's skipping tells the *)
(* two apart.                                                              *)
EXTENDS SyncRun

KindsStarted == {"cron", "full", "reconcile", "refresh"}
=============================================================================
