------------------------------ MODULE JobStatus ------------------------------
(***************************************************************************)
(* The values of pipeline_jobs.status (storage.py).  "none" stands for a   *)
(* row that has not been inserted.                                         *)
(***************************************************************************)

\* Statuses of a job some worker has claimed and nobody has closed.
InProgress == {"running", "cancellation_requested"}

\* TERMINAL_JOB_STATUSES.
Terminal == {"completed", "failed", "cancelled"}

\* Statuses has_active_pipeline_job counts.
Active == {"queued"} \cup InProgress

Statuses == {"none"} \cup Active \cup Terminal
=============================================================================
