--------------------------- MODULE BackgroundJobs ---------------------------
(***************************************************************************)
(* The two kinds of background work whose progress a page polls: the chain *)
(* of Bull jobs that follows onboarding (lib/queue), and the refresh jobs  *)
(* that the web process runs itself (app/api/dashboard/refresh-job).       *)
(*                                                                         *)
(* Every job of the chain is added to the queue of the job before it, so   *)
(* that all of them are jobs of sync-initial-data, under names; their ids  *)
(* are that queue's counter.  Bull itself is external: what is modelled of *)
(* it is the life of a job (waiting, active, delayed before a retry,       *)
(* completed, failed), the retries that the code asks for, and the stalled *)
(* check that finds the jobs of a lost worker.  Waiting jobs are taken in  *)
(* any order.  The jobs of match-customers, a queue of its own, are left   *)
(* out: the table refuses the step that they write of themselves.          *)
(***************************************************************************)
EXTENDS Integers, Sequences, FiniteSets

CONSTANTS
    Requests,      \* POSTs that ask for the initial sync
    Refreshes,     \* POSTs that ask for a refresh job
    Handled,       \* names that the worker has a handler for
    ATTEMPTS,      \* attempts of a job
    CONCURRENCY,   \* jobs that the worker runs at a time
    MaxStalled,    \* times that Bull restarts a stalled job
    MaxJobs,       \* bound: ids that fairness and liveness speak of
    MaxFaults      \* bound: losses of a process, failures of Redis or Postgres

Names == {"sync", "classify", "tag", "compute", "forecast"}

ASSUME JobsAssumption ==
    /\ Handled \subseteq Names
    /\ {ATTEMPTS, CONCURRENCY} \subseteq Nat \ {0}
    /\ {MaxStalled, MaxJobs, MaxFaults} \subseteq Nat

VARIABLES
    jobs,       \* the jobs of the queue, by id
    rows,       \* job_status.status by job id, "none" without a row
    latest,     \* id of the job whose row was written last, 0 if none
    posts,      \* where each request for a sync is
    refreshes,  \* refresh_jobs.status and the task of each refresh
    faults,     \* faults so far
    unwritten   \* history: jobs that lost a status write

vars == <<jobs, rows, latest, posts, refreshes, faults, unwritten>>
queueVars == <<jobs, rows, latest, unwritten>>

\* The job that the processor of each name adds.
Successor(name) ==
    CASE name = "sync" -> "classify"
      [] name = "classify" -> "tag"
      [] name = "tag" -> "compute"
      [] name = "compute" -> "forecast"

HasSuccessor(name) == name # "forecast"

JobStates == {"waiting", "active", "delayed", "completed", "failed"}

\* at: how far the processor has come with an active job; "lost" when its
\* worker is gone.  parent: the job that added it, 0 for a request.
Points == {"begin", "stored", "added", "throwing", "thrown", "lost"}
Job == [name : Names, state : JobStates, at : Points,
        attempts : Nat, stalled : Nat, parent : Nat]

RowStatus == {"none", "queued", "processing", "complete", "failed"}

JobIds == DOMAIN jobs
Children(j) == {k \in JobIds : jobs[k].parent = j}
Running == {j \in JobIds : jobs[j].state = "active" /\ jobs[j].at # "lost"}
Ended(j) == jobs[j].state \in {"completed", "failed"}

\* The processor of job j is at the point.
At(j, point) == jobs[j].state = "active" /\ jobs[j].at = point

Fault == faults < MaxFaults /\ faults' = faults + 1

\* queue.add.
Added(name, parent) ==
    /\ jobs' = Append(jobs, [name |-> name, state |-> "waiting", at |-> "begin",
                             attempts |-> 0, stalled |-> 0, parent |-> parent])
    /\ rows' = Append(rows, "none")

\* updateJobStatus: the row is inserted or overwritten; a failure is logged
\* and forgotten.
updateJobStatus(j, status) ==
    \/ /\ rows' = [rows EXCEPT ![j] = status]
       /\ latest' = j
       /\ UNCHANGED <<faults, unwritten>>
    \/ /\ Fault
       /\ unwritten' = unwritten \cup {j}
       /\ UNCHANGED <<rows, latest>>

---------------------------------------------------------------------------
(* The requests.                                                           *)

\* POST after-identity and sync-initial: the job is added first.
PostAdd(r) ==
    /\ posts[r] = [phase |-> "new", job |-> 0]
    /\ Added("sync", 0)
    /\ posts' = [posts EXCEPT ![r] = [phase |-> "added", job |-> Len(jobs) + 1]]
    /\ UNCHANGED <<latest, refreshes, faults, unwritten>>

PostAddFails(r) ==
    /\ posts[r].phase = "new"
    /\ Fault
    /\ posts' = [posts EXCEPT ![r].phase = "refused"]
    /\ UNCHANGED <<queueVars, refreshes>>

\* Mutant: the INSERT overwrites the row, as the worker's does.
InsertOverwrites(r) ==
    /\ posts[r].phase = "added"
    /\ rows' = [rows EXCEPT ![posts[r].job] = "queued"]
    /\ latest' = posts[r].job
    /\ posts' = [posts EXCEPT ![r].phase = "accepted"]
    /\ UNCHANGED <<jobs, refreshes, faults, unwritten>>

\* The first row of the job.  The worker may have written one already: then
\* the INSERT breaks the key of job_id and the request answers 500, as it
\* does when the INSERT fails.
PostInsert(r) ==
    LET j == posts[r].job
    IN  /\ posts[r].phase = "added"
        /\ \/ /\ rows[j] = "none"
              /\ rows' = [rows EXCEPT ![j] = "queued"]
              /\ latest' = j
              /\ posts' = [posts EXCEPT ![r].phase = "accepted"]
              /\ UNCHANGED faults
           \/ /\ rows[j] # "none"
              /\ posts' = [posts EXCEPT ![r].phase = "refused"]
              /\ UNCHANGED <<rows, latest, faults>>
           \/ /\ Fault
              /\ posts' = [posts EXCEPT ![r].phase = "refused"]
              /\ UNCHANGED <<rows, latest>>
        /\ UNCHANGED <<jobs, refreshes, unwritten>>

---------------------------------------------------------------------------
(* The worker.                                                             *)

\* A handler is registered without a name, for the jobs added without one.
Take(j) ==
    /\ jobs[j].state = "waiting"
    /\ jobs[j].name \in Handled
    /\ Cardinality(Running) < CONCURRENCY
    /\ jobs' = [jobs EXCEPT ![j] = [@ EXCEPT !.state = "active", !.at = "begin"]]
    /\ UNCHANGED <<rows, latest, posts, refreshes, faults, unwritten>>

\* A failed attempt: Bull delays the job for its backoff or gives it up.
AttemptFails(j) ==
    jobs' = [jobs EXCEPT ![j] = [@ EXCEPT
        !.attempts = jobs[j].attempts + 1,
        !.state = IF jobs[j].attempts + 1 < ATTEMPTS THEN "delayed" ELSE "failed"]]

\* "Missing process handler": no processor runs, so no row is written.
MissingHandler(j) ==
    /\ jobs[j].state = "waiting"
    /\ jobs[j].name \notin Handled
    /\ AttemptFails(j)
    /\ UNCHANGED <<rows, latest, posts, refreshes, faults, unwritten>>

\* The end of the backoff.
Promote(j) ==
    /\ jobs[j].state = "delayed"
    /\ jobs' = [jobs EXCEPT ![j].state = "waiting"]
    /\ UNCHANGED <<rows, latest, posts, refreshes, faults, unwritten>>

\* The processor's own work is done and its row written.
WriteProgress(j) ==
    /\ At(j, "begin")
    /\ jobs' = [jobs EXCEPT ![j].at = IF HasSuccessor(jobs[j].name) THEN "stored" ELSE "added"]
    /\ updateJobStatus(j, IF HasSuccessor(jobs[j].name) THEN "processing" ELSE "complete")
    /\ UNCHANGED <<posts, refreshes>>

\* Mutant: something after queue.add can throw.
ThrowingAfterAdd(name) == {"stored", "added"}

\* Where the processor can throw.  The fetches of the first one cannot; that
\* of the tags adds a job to the queue match-customers beside its successor,
\* which can fail when the successor is there already.
Throwing(name) ==
    CASE name = "sync" -> {"stored"}
      [] name = "tag" -> {"begin", "stored", "added"}
      [] OTHER -> {"begin", "stored"}

\* The work or queue.add throws.
Throws(j) ==
    /\ jobs[j].state = "active" /\ jobs[j].at \in Throwing(jobs[j].name)
    /\ Fault
    /\ jobs' = [jobs EXCEPT ![j].at = "throwing"]
    /\ UNCHANGED <<rows, latest, posts, refreshes, unwritten>>

\* Mutant: a status that the table does not know.
WriteError(j) ==
    /\ At(j, "throwing")
    /\ jobs' = [jobs EXCEPT ![j].at = "thrown"]
    /\ updateJobStatus(j, "error")
    /\ UNCHANGED <<posts, refreshes>>

\* The catch block's row.
WriteFailed(j) ==
    /\ At(j, "throwing")
    /\ jobs' = [jobs EXCEPT ![j].at = "thrown"]
    /\ updateJobStatus(j, "failed")
    /\ UNCHANGED <<posts, refreshes>>

\* The error reaches Bull.
Fail(j) ==
    /\ At(j, "thrown")
    /\ AttemptFails(j)
    /\ UNCHANGED <<rows, latest, posts, refreshes, faults, unwritten>>

\* The next job goes to the queue of this one, under its name.
AddNext(j) ==
    /\ At(j, "stored")
    /\ LET next == [name |-> Successor(jobs[j].name), state |-> "waiting", at |-> "begin",
                    attempts |-> 0, stalled |-> 0, parent |-> j]
       IN  jobs' = Append([jobs EXCEPT ![j].at = "added"], next)
    /\ rows' = Append(rows, "none")
    /\ UNCHANGED <<latest, posts, refreshes, faults, unwritten>>

\* The processor has returned.
Complete(j) ==
    /\ At(j, "added")
    /\ jobs' = [jobs EXCEPT ![j].state = "completed"]
    /\ UNCHANGED <<rows, latest, posts, refreshes, faults, unwritten>>

\* The worker process is lost and comes back.
WorkerLost ==
    /\ Running # {}
    /\ Fault
    /\ jobs' = [j \in JobIds |-> IF j \in Running THEN [jobs[j] EXCEPT !.at = "lost"] ELSE jobs[j]]
    /\ UNCHANGED <<rows, latest, posts, refreshes, unwritten>>

\* Mutant: a job that has stalled too often is left as it is.
StallCheckOnlyRestarts(j) ==
    /\ At(j, "lost") /\ jobs[j].stalled < MaxStalled
    /\ jobs' = [jobs EXCEPT ![j] = [@ EXCEPT !.stalled = jobs[j].stalled + 1, !.state = "waiting"]]
    /\ UNCHANGED <<rows, latest, posts, refreshes, faults, unwritten>>

\* Bull finds a job whose lock has run out: it starts again, or has failed
\* when it did so too often.  No catch block runs then.
StallCheck(j) ==
    /\ At(j, "lost")
    /\ jobs' = [jobs EXCEPT ![j] = [@ EXCEPT
          !.stalled = jobs[j].stalled + 1,
          !.state = IF jobs[j].stalled < MaxStalled THEN "waiting" ELSE "failed"]]
    /\ UNCHANGED <<rows, latest, posts, refreshes, faults, unwritten>>

---------------------------------------------------------------------------
(* Refresh jobs, tasks of the web process.                                 *)

RefreshStatus == {"none", "pending", "running", "completed", "failed"}
Tasks == {"none", "started", "working", "worked", "error", "ended", "lost"}
Refresh == [status : RefreshStatus, task : Tasks]

\* refreshes[f]' as given, and nothing else.
Becomes(f, status, task) ==
    /\ refreshes' = [refreshes EXCEPT ![f] = [status |-> status, task |-> task]]
    /\ UNCHANGED <<queueVars, posts>>

\* POST: the row, and the task that nobody waits for.
RefreshPost(f) ==
    /\ refreshes[f].status = "none"
    /\ Becomes(f, "pending", "started")
    /\ UNCHANGED faults

\* The three statements of the try block; each of them, and the work
\* between them, can throw.
RefreshStep(f) ==
    /\ UNCHANGED faults
    /\ \/ refreshes[f].task = "started" /\ Becomes(f, "running", "working")
       \/ refreshes[f].task = "working" /\ Becomes(f, "running", "worked")
       \/ refreshes[f].task = "worked" /\ Becomes(f, "completed", "ended")

RefreshThrows(f) ==
    /\ refreshes[f].task \in {"started", "working", "worked"}
    /\ Fault
    /\ Becomes(f, refreshes[f].status, "error")

\* Mutant: the catch block only logs.
CatchOnlyLogs(f) ==
    /\ refreshes[f].task = "error"
    /\ Becomes(f, refreshes[f].status, "ended")
    /\ UNCHANGED faults

\* The catch block; when its own UPDATE throws, the row stays as it is.
RefreshCatch(f) ==
    /\ refreshes[f].task = "error"
    /\ \/ Becomes(f, "failed", "ended") /\ UNCHANGED faults
       \/ Fault /\ Becomes(f, refreshes[f].status, "lost")

\* The web process is lost, with the requests and the tasks it ran.
WebLost ==
    /\ Fault
    /\ posts' = [r \in Requests |->
          IF posts[r].phase = "added" THEN [posts[r] EXCEPT !.phase = "unanswered"] ELSE posts[r]]
    /\ refreshes' = [f \in Refreshes |->
          IF refreshes[f].task \in {"none", "ended"} THEN refreshes[f]
          ELSE [refreshes[f] EXCEPT !.task = "lost"]]
    /\ UNCHANGED queueVars

---------------------------------------------------------------------------
Phases == {"new", "added", "accepted", "refused", "unanswered"}

Init ==
    /\ jobs = <<>> /\ rows = <<>> /\ latest = 0
    /\ posts = [r \in Requests |-> [phase |-> "new", job |-> 0]]
    /\ refreshes = [f \in Refreshes |-> [status |-> "none", task |-> "none"]]
    /\ faults = 0 /\ unwritten = {}

Post(r) == PostAdd(r) \/ PostAddFails(r) \/ PostInsert(r)

\* What the worker and Bull do with a job of their own accord.
Work(j) ==
    \/ Take(j) \/ MissingHandler(j) \/ Promote(j)
    \/ WriteProgress(j) \/ AddNext(j) \/ Complete(j)
    \/ WriteFailed(j) \/ Fail(j) \/ StallCheck(j)

Task(f) == RefreshStep(f) \/ RefreshCatch(f)

Next ==
    \/ \E r \in Requests : Post(r)
    \/ \E j \in JobIds : Work(j) \/ Throws(j)
    \/ \E f \in Refreshes : RefreshPost(f) \/ Task(f) \/ RefreshThrows(f)
    \/ WorkerLost \/ WebLost

\* The worker and Bull go on, and so does a task once it is started.  No
\* client has to send anything.
Fairness ==
    /\ \A j \in 1..MaxJobs : WF_vars(j \in JobIds /\ Work(j))
    /\ \A r \in Requests : WF_vars(PostInsert(r))
    /\ \A f \in Refreshes : WF_vars(Task(f))

Spec == Init /\ [][Next]_vars /\ Fairness

---------------------------------------------------------------------------
(* Properties.                                                             *)

\* Types; every job has its place among the rows.
TypeOK ==
    /\ jobs \in Seq(Job)
    /\ rows \in Seq(RowStatus) /\ Len(rows) = Len(jobs)
    /\ latest \in 0..Len(jobs)
    /\ posts \in [Requests -> [phase : Phases, job : 0..Len(jobs)]]
    /\ refreshes \in [Refreshes -> Refresh]
    /\ faults \in 0..MaxFaults
    /\ unwritten \subseteq JobIds

\* A completed job has added its successor, and a job adds a second one only
\* when Bull ran it again after its worker was lost: a retry after an error
\* does not fork the chain (processSyncInitialData and the others: add is
\* the last statement that can throw).  But for processTagMovements, where
\* the second of two adds may.
ChainUnforked ==
    \A j \in JobIds :
        /\ jobs[j].state = "completed" /\ HasSuccessor(jobs[j].name) => Children(j) # {}
        /\ jobs[j].name = "tag" \/ Cardinality(Children(j)) <= 1 + jobs[j].stalled

\* The row tells how a job ended, whether the request's INSERT came before
\* or after the worker's writes: failed by its last error, or (a processor
\* has returned) its step's status.  Except for a job that lost a write, and
\* for one that Bull gave up as stalled.
RowTellsOutcome ==
    \A j \in JobIds \ unwritten :
        /\ jobs[j].state = "completed" => rows[j] \in {"processing", "complete"}
        /\ jobs[j].name \in Handled /\ jobs[j].state = "failed" /\ jobs[j].stalled <= MaxStalled
              => rows[j] = "failed"

\* Every job ends, through all retries, losses of the worker and lost writes.
EveryJobEnds == \A j \in 1..MaxJobs : j \in JobIds ~> j \in JobIds /\ Ended(j)

\* A refresh that the page was told of ends as completed or failed, unless
\* its process is lost or the UPDATE of the catch block fails
\* (startRefreshJob).
RefreshSettles ==
    \A f \in Refreshes :
        refreshes[f].status = "pending" ~>
            refreshes[f].status \in {"completed", "failed"} \/ refreshes[f].task = "lost"

\* after-identity/route.ts:6: "Frontend polls /api/dashboard/sync-status until
\* done".  The status that the poll reads, the row written last, settles
\* after every accepted request.
ChainSettles ==
    \A r \in Requests :
        posts[r].phase = "accepted" ~> latest > 0 /\ rows[latest] \in {"complete", "failed"}
=============================================================================
