------------------------------- MODULE MCJobs -------------------------------
(* Instances of BackgroundJobs with the one handler that the worker        *)
(* registers for each queue: queue.process(2, processor) has no name, and  *)
(* serves the jobs that were added without one, the requests'.             *)
EXTENDS BackgroundJobs

HandledByDefault == {"sync"}
=============================================================================
