----------------------------- MODULE ReconLock -----------------------------
(***************************************************************************)
(* The reconciliation lock of one user (table reconciliation_locks) and    *)
(* the background runs it serialises (app/api/ar-ap-step/route.ts): a      *)
(* request with run=true acquires the lock and starts a run, a run works   *)
(* through its steps and looks at the clock between them, and the end of a *)
(* run releases the lock, whoever holds it by then.                        *)
(*                                                                         *)
(* Time is a number of ticks.  Ages, not instants, are state: how long ago *)
(* the lock was taken and how long each run has been going, both capped    *)
(* just past the larger of the two limits.                                 *)
(***************************************************************************)
EXTENDS Integers

CONSTANTS
    Runs,          \* requests with run=true; each has one run at a time
    LockTimeout,   \* LOCK_TIMEOUT_MS, in ticks
    MaxDuration,   \* MAX_DURATION_MS, in ticks
    CheckedSteps   \* steps that end with a look at the clock; one step more follows

ASSUME LimitAssumption ==
    LockTimeout \in Nat /\ MaxDuration \in Nat /\ CheckedSteps \in Nat \ {0}

VARIABLES
    lock,      \* the row of reconciliation_locks: its status, "none" before
               \* the first run, and the age of started_at while "running"
    runs,      \* the step each run is in (0: acquired, not started) and its age
    overran,   \* history: some run was active with its lock past the time-out
    forced     \* history: an administrator cleared the lock of an active run

vars == <<lock, runs, overran, forced>>

\* Every age past both limits is the same to the code.
AgeCap == (IF LockTimeout >= MaxDuration THEN LockTimeout ELSE MaxDuration) + 1
Older(age) == IF age < AgeCap THEN age + 1 ELSE age

Idle == [op |-> "idle"]
Working(step, age) == [op |-> "working", step |-> step, age |-> age]
Active == {r \in Runs : runs[r] # Idle}

Free(status) == [status |-> status, age |-> 0]
Held(age) == [status |-> "running", age |-> age]

\* Every variable holds a value of its kind; in particular the lock has a
\* status the CHECK constraint of its table accepts.
TypeOK ==
    /\ lock \in [status : {"none", "running", "completed", "failed"}, age : 0..AgeCap]
    /\ runs \in [Runs -> {Idle}
                   \cup [op : {"working"}, step : 0..(CheckedSteps + 1), age : 0..AgeCap]]
    /\ overran \in BOOLEAN
    /\ forced \in BOOLEAN

Init ==
    /\ lock = Free("none")
    /\ runs = [r \in Runs |-> Idle]
    /\ overran = FALSE
    /\ forced = FALSE

---------------------------------------------------------------------------
Stale == lock.status = "running" /\ lock.age > LockTimeout

\* Mutant: the INSERT has lost the WHERE of its DO UPDATE.
AcquireAnyLock(r) ==
    /\ runs[r] = Idle
    /\ lock' = Held(0)
    /\ runs' = [runs EXCEPT ![r] = Working(0, 0)]
    /\ UNCHANGED <<overran, forced>>

\* acquireReconciliationLock: the INSERT ... ON CONFLICT takes any lock that
\* is not running.
Acquire(r) ==
    /\ runs[r] = Idle
    /\ lock.status # "running"
    /\ lock' = Held(0)
    /\ runs' = [runs EXCEPT ![r] = Working(0, 0)]
    /\ UNCHANGED <<overran, forced>>

\* Mutant: the cleanup of stale locks is missing.
RefuseStaleNoCleanup(r) ==
    /\ runs[r] = Idle
    /\ Stale
    /\ UNCHANGED vars

\* Mutant: a lock is stale at the time-out, not only past it.
RefuseStaleEarly(r) ==
    /\ runs[r] = Idle
    /\ lock.status = "running" /\ lock.age >= LockTimeout
    /\ lock' = Free("failed")
    /\ UNCHANGED <<runs, overran, forced>>

\* The same statement on a stale lock: the INSERT and the cleanup CTE see
\* the same snapshot, so the INSERT still finds the lock running and the
\* request is refused, while the cleanup frees the lock for the next one.
\* (A lock that is running and not stale refuses and changes nothing.)
RefuseStale(r) ==
    /\ runs[r] = Idle
    /\ Stale
    /\ lock' = Free("failed")
    /\ UNCHANGED <<runs, overran, forced>>

\* The handler calls runReconciliationInBackground, which reads the clock.
StartRun(r) ==
    /\ runs[r] # Idle
    /\ runs[r].step = 0
    /\ runs' = [runs EXCEPT ![r] = Working(1, 0)]
    /\ UNCHANGED <<lock, overran, forced>>

\* releaseReconciliationLock: by user, not by run; the run ends with it.
Release(r, status) ==
    /\ lock' = Free(status)
    /\ runs' = [runs EXCEPT ![r] = Idle]
    /\ UNCHANGED <<overran, forced>>

\* Mutant: the lock is released before the entity profiles are built.
FinishStepReleasesEarly(r) ==
    /\ runs[r] # Idle
    /\ runs[r].step \in 1..CheckedSteps
    /\ IF runs[r].age > MaxDuration
         THEN Release(r, "failed")
         ELSE /\ runs' = [runs EXCEPT ![r].step = @ + 1]
              /\ lock' = IF runs[r].step = CheckedSteps THEN Free("completed") ELSE lock
              /\ UNCHANGED <<overran, forced>>

\* Steps 1 to 6 end with a look at the clock.
FinishStep(r) ==
    /\ runs[r] # Idle
    /\ runs[r].step \in 1..CheckedSteps
    /\ IF runs[r].age > MaxDuration
         THEN Release(r, "failed")
         ELSE /\ runs' = [runs EXCEPT ![r].step = @ + 1]
              /\ UNCHANGED <<lock, overran, forced>>

\* Mutant: the status of a run with warnings reaches the table.
FinishLastStepWarns(r) ==
    /\ runs[r] # Idle
    /\ runs[r].step = CheckedSteps + 1
    /\ Release(r, "completed") \/ Release(r, "completed_with_warnings")

\* Steps 7 and 8: whatever fails in them is a warning, lateness too.  The
\* status "completed_with_warnings" violates the CHECK of the table, the
\* catch block then releases with "failed".
FinishLastStep(r) ==
    /\ runs[r] # Idle
    /\ runs[r].step = CheckedSteps + 1
    /\ Release(r, "completed") \/ Release(r, "failed")

\* A step of 1 to 6 throws.
StepThrows(r) ==
    /\ runs[r] # Idle
    /\ runs[r].step \in 1..CheckedSteps
    /\ Release(r, "failed")

\* The server process is lost, or every attempt to release fails: the row
\* stays as it is.
Crash(r) ==
    /\ runs[r] # Idle
    /\ runs' = [runs EXCEPT ![r] = Idle]
    /\ UNCHANGED <<lock, overran, forced>>

\* GET /api/admin/clear-recon-lock: clears a running lock of any age.
AdminClear ==
    /\ lock.status = "running"
    /\ lock' = Free("failed")
    /\ forced' = (forced \/ Active # {})
    /\ UNCHANGED <<runs, overran>>

Tick ==
    /\ lock' = IF lock.status = "running" THEN Held(Older(lock.age)) ELSE lock
    /\ runs' = [r \in Runs |-> IF runs[r] = Idle THEN Idle
                               ELSE [runs[r] EXCEPT !.age = Older(@)]]
    /\ overran' = (overran \/ (Active # {} /\ lock'.age > LockTimeout))
    /\ UNCHANGED forced

RunStep(r) == StartRun(r) \/ FinishStep(r) \/ FinishLastStep(r) \/ StepThrows(r)

Ask(r) == Acquire(r) \/ RefuseStale(r)

Next ==
    \/ \E r \in Runs : Ask(r) \/ RunStep(r) \/ Crash(r)
    \/ AdminClear
    \/ Tick

Spec == Init /\ [][Next]_vars

\* Steps of a run end or throw, time passes, and somebody keeps asking for
\* a run; nothing makes an administrator act.
Fairness ==
    /\ \A r \in Runs : WF_vars(RunStep(r))
    /\ WF_vars(Tick)
    /\ WF_vars(\E r \in Runs : Ask(r))
FairSpec == Spec /\ Fairness

---------------------------------------------------------------------------
(* Properties.                                                             *)

\* While every run ends within the time-out of its lock and nobody clears a
\* lock in use, at most one run is active: the guard of the INSERT, the
\* cleanup, the releases that name no owner and crashes between them.
AtMostOneRunInTime ==
    ~overran /\ ~forced => \A r, s \in Active : r = s

\* ... and its lock is running, so that pages see a run in progress.
ActiveRunHoldsLock ==
    ~overran /\ ~forced /\ Active # {} => lock.status = "running" /\ ~Stale

\* The lock implements RunExclusion.
Exclusion == INSTANCE RunExclusion WITH
    holders <- Active, broken <- overran \/ forced
Excludes == Exclusion!Spec

\* No lock stays running for ever, whatever crashed while it was held, as
\* long as somebody keeps asking for a run.
LockRecovers == lock.status = "running" ~> lock.status # "running"

\* What the repository says and the code does not do.

\* "Multiple reconciliation runs for the same user at the same time. Should
\* be prevented by reconciliation_locks table"
\* (scripts/chaos-test-reconciliation.ts): without any administrator, a run
\* that outlives the time-out loses its lock to the next request.
AtMostOneRunUnlessForced == ~forced => \A r, s \in Active : r = s
===========================================================================
