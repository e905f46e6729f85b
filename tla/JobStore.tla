------------------------------ MODULE JobStore ------------------------------
(***************************************************************************)
(* The job record that the API and the workers share in Redis, as the two  *)
(* job-store services see it: one JSON value per job that every update     *)
(* reads, patches and writes back whole.  There is no WATCH, no script and *)
(* no version, so an update is a GET and a later SET of everything the GET *)
(* returned.  Of the record's fields the status and the stage are kept;    *)
(* progress is a function of the stage.                                    *)
(***************************************************************************)

Status == {"queued", "processing", "completed", "failed", "cancelled", "timeout"}

\* The scraper's own stages (rendering, waiting_selector, extracting) are one.
Stage == {"queued", "fetching", "extracting", "completed"}

Terminal == {"completed", "failed", "cancelled", "timeout"}

Record == [status : Status, stage : Stage]

\* getRecord answers null
NoRecord == [status |-> "none", stage |-> "none"]

RecordOrNull == Record \cup {NoRecord}

\* The record jobs.service.ts builds for a job it is about to publish.
NewRecord == [status |-> "queued", stage |-> "queued"]

updateStatus(existing, status) == [existing EXCEPT !.status = status]

\* Mutation of updateProgress: the status the record had is not kept.
updateProgressOnly(existing, stage) == [status |-> "processing", stage |-> stage]

updateProgress(existing, stage) == [existing EXCEPT !.stage = stage]

=============================================================================
