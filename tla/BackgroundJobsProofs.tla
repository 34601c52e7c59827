------------------------ MODULE BackgroundJobsProofs ------------------------
(***************************************************************************)
(* Proofs about BackgroundJobs, for every set of requests and refreshes,   *)
(* every set of handled names, every number of attempts, of restarts and of*)
(* faults.                                                                 *)
(*                                                                         *)
(* The two invariants speak of jobs that have ended.  What makes them      *)
(* inductive is how far a running job has come: between its status write   *)
(* and its end its row holds the step's status, between the catch block's  *)
(* write and the failure it holds "failed", and it has added no successor  *)
(* beyond those of the runs that stalled until it stands behind queue.add. *)
(* The job of the tags is excepted, whose second add may fail.             *)
(***************************************************************************)
EXTENDS BackgroundJobs, TLAPS, FiniteSetTheorems, SequenceTheorems

\* This run of j, or the one that was lost, may have added a successor.
MayHaveAdded(j) ==
    jobs[j].state \in {"completed", "failed"} \/ At(j, "added") \/ At(j, "lost")

ChainInv(j) ==
    /\ jobs[j].parent < j
    /\ jobs[j].state # "failed" => jobs[j].stalled <= MaxStalled
    /\ jobs[j].state = "active" => jobs[j].name \in Handled
    /\ At(j, "stored") => HasSuccessor(jobs[j].name)
    /\ ~MayHaveAdded(j) /\ jobs[j].name # "tag" => Cardinality(Children(j)) <= jobs[j].stalled
    /\ jobs[j].name = "tag" \/ Cardinality(Children(j)) <= 1 + jobs[j].stalled
    /\ (At(j, "added") \/ jobs[j].state = "completed") /\ HasSuccessor(jobs[j].name)
          => Children(j) # {}

RowInv(j) ==
    /\ At(j, "stored") \/ At(j, "added") \/ jobs[j].state = "completed"
          => rows[j] \in {"processing", "complete"}
    /\ At(j, "thrown") => rows[j] = "failed"
    /\ jobs[j].name \in Handled /\ jobs[j].state = "failed" /\ jobs[j].stalled <= MaxStalled
          => rows[j] = "failed"

\* A request between its two steps knows its job.
AddedHasJob == \A r \in Requests : posts[r].phase = "added" => posts[r].job \in JobIds

\* The inductive invariant.
IInv ==
    /\ TypeOK
    /\ AddedHasJob
    /\ \A j \in JobIds : ChainInv(j)
    /\ \A j \in JobIds \ unwritten : RowInv(j)

\* The constants one by one.
LEMMA Bounds ==
    /\ Handled \subseteq Names
    /\ ATTEMPTS \in Nat /\ MaxStalled \in Nat /\ MaxFaults \in Nat
  BY JobsAssumption

LEMMA Ids == ASSUME TypeOK PROVE JobIds = 1..Len(jobs) /\ Len(jobs) \in Nat
  BY DEF TypeOK, JobIds

LEMMA FaultBound == ASSUME TypeOK, Fault PROVE faults' \in 0..MaxFaults
  BY Bounds DEF TypeOK, Fault

\* The successors of a job are finitely many.
LEMMA ChildrenFinite ==
    ASSUME TypeOK, NEW k
    PROVE  IsFiniteSet(Children(k)) /\ Cardinality(Children(k)) \in Nat
  <1>1. IsFiniteSet(1..Len(jobs))
    BY Ids, FS_Interval
  <1>2. Children(k) \in SUBSET (1..Len(jobs))
    BY Ids DEF Children
  <1> QED
    BY <1>1, <1>2, FS_Subset, FS_CardinalityType

\* A step of one job, which keeps its parent.
LEMMA OneJob ==
    ASSUME TypeOK, NEW j \in JobIds, NEW r \in Job, r.parent = jobs[j].parent,
           jobs' = [jobs EXCEPT ![j] = r]
    PROVE  /\ jobs' \in Seq(Job)
           /\ Len(jobs') = Len(jobs)
           /\ JobIds' = JobIds
           /\ \A k \in JobIds : jobs'[k] = IF k = j THEN r ELSE jobs[k]
           /\ \A k : Children(k)' = Children(k)
  <1>1. jobs \in Seq(Job) /\ j \in 1..Len(jobs)
    BY Ids DEF TypeOK
  <1>2. /\ jobs' \in Seq(Job)
        /\ Len(jobs') = Len(jobs)
        /\ \A k \in 1..Len(jobs) : jobs'[k] = IF k = j THEN r ELSE jobs[k]
    BY <1>1, ExceptSeq
  <1>3. JobIds' = 1..Len(jobs') /\ JobIds = 1..Len(jobs)
    BY <1>2, Ids DEF JobIds
  <1>4. \A k : Children(k)' = Children(k)
    BY <1>2, <1>3 DEF Children
  <1> QED
    BY <1>2, <1>3, <1>4

\* A job joins the queue.
LEMMA NewJob ==
    ASSUME TypeOK, NEW base \in Seq(Job), Len(base) = Len(jobs),
           \A k \in JobIds : base[k].parent = jobs[k].parent,
           NEW r \in Job, jobs' = Append(base, r)
    PROVE  /\ jobs' \in Seq(Job)
           /\ Len(jobs') = Len(jobs) + 1
           /\ JobIds' = JobIds \cup {Len(jobs) + 1}
           /\ \A k \in JobIds : jobs'[k] = base[k]
           /\ jobs'[Len(jobs) + 1] = r
           /\ \A k : r.parent # k => Children(k)' = Children(k)
           /\ \A k : r.parent = k => Children(k)' = Children(k) \cup {Len(jobs) + 1}
  <1>1. /\ jobs' \in Seq(Job)
        /\ Len(jobs') = Len(jobs) + 1
        /\ \A k \in 1..Len(jobs) : jobs'[k] = base[k]
        /\ jobs'[Len(jobs) + 1] = r
    BY AppendProperties
  <1>2. JobIds' = 1..Len(jobs') /\ JobIds = 1..Len(jobs) /\ Len(jobs) \in Nat
    BY <1>1, Ids DEF JobIds
  <1>3. JobIds' = JobIds \cup {Len(jobs) + 1}
    BY <1>1, <1>2
  <1>4. \A k \in JobIds : jobs'[k].parent = jobs[k].parent
    BY <1>1, <1>2
  <1>5. \A k : r.parent # k => Children(k)' = Children(k)
    BY <1>1, <1>3, <1>4 DEF Children
  <1>6. \A k : r.parent = k => Children(k)' = Children(k) \cup {Len(jobs) + 1}
    BY <1>1, <1>3, <1>4 DEF Children
  <1> QED
    BY <1>1, <1>2, <1>3, <1>5, <1>6

\* A status write, made or lost.
LEMMA RowUpdate ==
    ASSUME TypeOK, NEW j \in JobIds, NEW status \in RowStatus, updateJobStatus(j, status)
    PROVE  /\ rows' \in Seq(RowStatus) /\ Len(rows') = Len(jobs)
           /\ latest' \in 0..Len(jobs)
           /\ faults' \in 0..MaxFaults
           /\ unwritten' \subseteq JobIds /\ unwritten \subseteq unwritten'
           /\ \A k \in JobIds : k # j => rows'[k] = rows[k]
           /\ j \notin unwritten' => rows'[j] = status
  <1>1. /\ rows \in Seq(RowStatus) /\ Len(rows) = Len(jobs) /\ j \in 1..Len(rows)
        /\ JobIds = 1..Len(rows)
    BY Ids DEF TypeOK
  <1>2. CASE /\ rows' = [rows EXCEPT ![j] = status]
             /\ latest' = j
             /\ UNCHANGED <<faults, unwritten>>
    <2>1. /\ rows' \in Seq(RowStatus)
          /\ Len(rows') = Len(rows)
          /\ \A k \in 1..Len(rows) : rows'[k] = IF k = j THEN status ELSE rows[k]
      BY <1>1, <1>2, ExceptSeq
    <2> QED
      BY <1>1, <1>2, <2>1 DEF TypeOK
  <1>3. CASE /\ Fault
             /\ unwritten' = unwritten \cup {j}
             /\ UNCHANGED <<rows, latest>>
    BY <1>1, <1>3, FaultBound DEF TypeOK
  <1> QED
    BY <1>2, <1>3 DEF updateJobStatus

\* What is left to show of a step of one job: the job's own invariants.
LEMMA JobMoves ==
    ASSUME IInv, NEW j \in JobIds, NEW r \in Job, r.parent = jobs[j].parent,
           r.name = jobs[j].name,
           jobs' = [jobs EXCEPT ![j] = r],
           rows' \in Seq(RowStatus), Len(rows') = Len(jobs),
           \A k \in JobIds : k # j => rows'[k] = rows[k],
           latest' \in 0..Len(jobs), faults' \in 0..MaxFaults,
           unwritten' \subseteq JobIds, unwritten \subseteq unwritten',
           UNCHANGED <<posts, refreshes>>,
           ChainInv(j)', j \notin unwritten' => RowInv(j)'
    PROVE  IInv'
  <1>1. /\ jobs' \in Seq(Job)
        /\ Len(jobs') = Len(jobs)
        /\ JobIds' = JobIds
        /\ \A k \in JobIds : jobs'[k] = IF k = j THEN r ELSE jobs[k]
        /\ \A k : Children(k)' = Children(k)
    BY OneJob DEF IInv
  <1>2. TypeOK'
    BY <1>1 DEF IInv, TypeOK
  <1>3. ASSUME NEW k \in JobIds, k # j PROVE ChainInv(k)'
    BY <1>1, <1>3 DEF IInv, ChainInv, MayHaveAdded, At
  <1>4. ASSUME NEW k \in JobIds \ unwritten', k # j PROVE RowInv(k)'
    <2>1. RowInv(k) /\ jobs'[k] = jobs[k] /\ rows'[k] = rows[k]
      BY <1>1, <1>4 DEF IInv
    <2> QED
      BY <2>1 DEF RowInv, At
  <1> QED
    BY <1>1, <1>2, <1>3, <1>4 DEF IInv, AddedHasJob

LEMMA InitInv == Init => IInv
  <1> SUFFICES ASSUME Init PROVE IInv
    OBVIOUS
  <1>1. jobs \in Seq(Job) /\ rows \in Seq(RowStatus) /\ Len(rows) = 0 /\ Len(jobs) = 0
    BY DEF Init
  <1>2. JobIds = {}
    BY <1>1 DEF JobIds
  <1>3. TypeOK
    BY <1>1, <1>2, Bounds DEF Init, TypeOK, Phases, Refresh, RefreshStatus, Tasks
  <1>4. AddedHasJob
    BY DEF Init, AddedHasJob
  <1> QED
    BY <1>2, <1>3, <1>4 DEF IInv

---------------------------------------------------------------------------
(* One lemma per action of the worker.                                     *)

LEMMA TakeInv == ASSUME IInv, NEW j \in JobIds, Take(j) PROVE IInv'
  <1> DEFINE r == [jobs[j] EXCEPT !.state = "active", !.at = "begin"]
  <1>1. /\ jobs[j] \in Job /\ j \in Nat
        /\ Cardinality(Children(j)) \in Nat
        /\ ChainInv(j) /\ (j \notin unwritten => RowInv(j))
    BY Ids, ChildrenFinite DEF IInv, TypeOK
  <1>2. /\ r \in Job /\ r.parent = jobs[j].parent /\ r.name = jobs[j].name
        /\ jobs' = [jobs EXCEPT ![j] = r]
        /\ UNCHANGED <<posts, refreshes>>
    <2>1. jobs' = [jobs EXCEPT ![j] = r] /\ UNCHANGED <<posts, refreshes>>
      BY DEF Take
    <2>2. r \in Job /\ r.parent = jobs[j].parent /\ r.name = jobs[j].name
      BY <1>1, Bounds DEF Job, JobStates, Points
    <2> QED
      BY <2>1, <2>2
  <1>3. /\ jobs'[j] = r
        /\ \A k : Children(k)' = Children(k)
    <2>1. TypeOK
      BY DEF IInv
    <2> HIDE DEF r
    <2>2. \A k \in JobIds : jobs'[k] = IF k = j THEN r ELSE jobs[k]
      BY <1>2, <2>1, OneJob
    <2>3. \A k : Children(k)' = Children(k)
      BY <1>2, <2>1, OneJob
    <2> QED
      BY <2>2, <2>3
  <1>4. /\ rows' \in Seq(RowStatus) /\ Len(rows') = Len(jobs)
        /\ \A k \in JobIds : rows'[k] = rows[k]
        /\ latest' \in 0..Len(jobs) /\ faults' \in 0..MaxFaults
        /\ unwritten' \subseteq JobIds /\ unwritten \subseteq unwritten'
    BY DEF Take, IInv, TypeOK
  <1>5. ChainInv(j)'
    BY <1>1, <1>2, <1>3, Bounds DEF Take, ChainInv, MayHaveAdded, At, Job
  <1>6. j \notin unwritten' => RowInv(j)'
    BY <1>1, <1>2, <1>3, <1>4, Bounds DEF Take, RowInv, ChainInv, At, Job
  <1> HIDE DEF r
  <1> QED
    BY <1>2, <1>4, <1>5, <1>6, JobMoves

LEMMA MissingHandlerInv == ASSUME IInv, NEW j \in JobIds, MissingHandler(j) PROVE IInv'
  <1> DEFINE r == [jobs[j] EXCEPT
        !.attempts = jobs[j].attempts + 1,
        !.state = IF jobs[j].attempts + 1 < ATTEMPTS THEN "delayed" ELSE "failed"]
  <1>1. /\ jobs[j] \in Job /\ j \in Nat
        /\ Cardinality(Children(j)) \in Nat
        /\ ChainInv(j) /\ (j \notin unwritten => RowInv(j))
    BY Ids, ChildrenFinite DEF IInv, TypeOK
  <1>2. /\ r \in Job /\ r.parent = jobs[j].parent /\ r.name = jobs[j].name
        /\ jobs' = [jobs EXCEPT ![j] = r]
        /\ UNCHANGED <<posts, refreshes>>
    <2>1. jobs' = [jobs EXCEPT ![j] = r] /\ UNCHANGED <<posts, refreshes>>
      BY DEF MissingHandler, AttemptFails
    <2>2. r \in Job /\ r.parent = jobs[j].parent /\ r.name = jobs[j].name
      <3>1. jobs[j].attempts + 1 \in Nat
        BY <1>1 DEF Job
      <3>2. (IF jobs[j].attempts + 1 < ATTEMPTS THEN "delayed" ELSE "failed") \in JobStates
        BY DEF JobStates
      <3> QED
        BY <1>1, <3>1, <3>2 DEF Job
    <2> QED
      BY <2>1, <2>2
  <1>3. /\ jobs'[j] = r
        /\ \A k : Children(k)' = Children(k)
    <2>1. TypeOK
      BY DEF IInv
    <2> HIDE DEF r
    <2>2. \A k \in JobIds : jobs'[k] = IF k = j THEN r ELSE jobs[k]
      BY <1>2, <2>1, OneJob
    <2>3. \A k : Children(k)' = Children(k)
      BY <1>2, <2>1, OneJob
    <2> QED
      BY <2>2, <2>3
  <1>4. /\ rows' \in Seq(RowStatus) /\ Len(rows') = Len(jobs)
        /\ \A k \in JobIds : rows'[k] = rows[k]
        /\ latest' \in 0..Len(jobs) /\ faults' \in 0..MaxFaults
        /\ unwritten' \subseteq JobIds /\ unwritten \subseteq unwritten'
    BY DEF MissingHandler, IInv, TypeOK
  <1>5. ChainInv(j)'
    BY <1>1, <1>2, <1>3, Bounds DEF MissingHandler, ChainInv, MayHaveAdded, At, Job, AttemptFails
  <1>6. j \notin unwritten' => RowInv(j)'
    BY <1>1, <1>2, <1>3, <1>4, Bounds DEF MissingHandler, RowInv, ChainInv, At, Job, AttemptFails
  <1> HIDE DEF r
  <1> QED
    BY <1>2, <1>4, <1>5, <1>6, JobMoves

LEMMA FailInv == ASSUME IInv, NEW j \in JobIds, Fail(j) PROVE IInv'
  <1> DEFINE r == [jobs[j] EXCEPT
        !.attempts = jobs[j].attempts + 1,
        !.state = IF jobs[j].attempts + 1 < ATTEMPTS THEN "delayed" ELSE "failed"]
  <1>1. /\ jobs[j] \in Job /\ j \in Nat
        /\ Cardinality(Children(j)) \in Nat
        /\ ChainInv(j) /\ (j \notin unwritten => RowInv(j))
    BY Ids, ChildrenFinite DEF IInv, TypeOK
  <1>2. /\ r \in Job /\ r.parent = jobs[j].parent /\ r.name = jobs[j].name
        /\ jobs' = [jobs EXCEPT ![j] = r]
        /\ UNCHANGED <<posts, refreshes>>
    <2>1. jobs' = [jobs EXCEPT ![j] = r] /\ UNCHANGED <<posts, refreshes>>
      BY DEF Fail, AttemptFails, At
    <2>2. r \in Job /\ r.parent = jobs[j].parent /\ r.name = jobs[j].name
      <3>1. jobs[j].attempts + 1 \in Nat
        BY <1>1 DEF Job
      <3>2. (IF jobs[j].attempts + 1 < ATTEMPTS THEN "delayed" ELSE "failed") \in JobStates
        BY DEF JobStates
      <3> QED
        BY <1>1, <3>1, <3>2 DEF Job
    <2> QED
      BY <2>1, <2>2
  <1>3. /\ jobs'[j] = r
        /\ \A k : Children(k)' = Children(k)
    <2>1. TypeOK
      BY DEF IInv
    <2> HIDE DEF r
    <2>2. \A k \in JobIds : jobs'[k] = IF k = j THEN r ELSE jobs[k]
      BY <1>2, <2>1, OneJob
    <2>3. \A k : Children(k)' = Children(k)
      BY <1>2, <2>1, OneJob
    <2> QED
      BY <2>2, <2>3
  <1>4. /\ rows' \in Seq(RowStatus) /\ Len(rows') = Len(jobs)
        /\ \A k \in JobIds : rows'[k] = rows[k]
        /\ latest' \in 0..Len(jobs) /\ faults' \in 0..MaxFaults
        /\ unwritten' \subseteq JobIds /\ unwritten \subseteq unwritten'
    BY DEF Fail, IInv, TypeOK
  <1>5. ChainInv(j)'
    BY <1>1, <1>2, <1>3, Bounds DEF Fail, ChainInv, MayHaveAdded, At, Job, AttemptFails
  <1>6. j \notin unwritten' => RowInv(j)'
    BY <1>1, <1>2, <1>3, <1>4, Bounds DEF Fail, RowInv, ChainInv, At, Job, AttemptFails
  <1> HIDE DEF r
  <1> QED
    BY <1>2, <1>4, <1>5, <1>6, JobMoves

LEMMA PromoteInv == ASSUME IInv, NEW j \in JobIds, Promote(j) PROVE IInv'
  <1> DEFINE r == [jobs[j] EXCEPT !.state = "waiting"]
  <1>1. /\ jobs[j] \in Job /\ j \in Nat
        /\ Cardinality(Children(j)) \in Nat
        /\ ChainInv(j) /\ (j \notin unwritten => RowInv(j))
    BY Ids, ChildrenFinite DEF IInv, TypeOK
  <1>2. /\ r \in Job /\ r.parent = jobs[j].parent /\ r.name = jobs[j].name
        /\ jobs' = [jobs EXCEPT ![j] = r]
        /\ UNCHANGED <<posts, refreshes>>
    <2>1. jobs' = [jobs EXCEPT ![j] = r] /\ UNCHANGED <<posts, refreshes>>
      BY DEF Promote
    <2>2. r \in Job /\ r.parent = jobs[j].parent /\ r.name = jobs[j].name
      BY <1>1, Bounds DEF Job, JobStates, Points
    <2> QED
      BY <2>1, <2>2
  <1>3. /\ jobs'[j] = r
        /\ \A k : Children(k)' = Children(k)
    <2>1. TypeOK
      BY DEF IInv
    <2> HIDE DEF r
    <2>2. \A k \in JobIds : jobs'[k] = IF k = j THEN r ELSE jobs[k]
      BY <1>2, <2>1, OneJob
    <2>3. \A k : Children(k)' = Children(k)
      BY <1>2, <2>1, OneJob
    <2> QED
      BY <2>2, <2>3
  <1>4. /\ rows' \in Seq(RowStatus) /\ Len(rows') = Len(jobs)
        /\ \A k \in JobIds : rows'[k] = rows[k]
        /\ latest' \in 0..Len(jobs) /\ faults' \in 0..MaxFaults
        /\ unwritten' \subseteq JobIds /\ unwritten \subseteq unwritten'
    BY DEF Promote, IInv, TypeOK
  <1>5. ChainInv(j)'
    BY <1>1, <1>2, <1>3, Bounds DEF Promote, ChainInv, MayHaveAdded, At, Job
  <1>6. j \notin unwritten' => RowInv(j)'
    BY <1>1, <1>2, <1>3, <1>4, Bounds DEF Promote, RowInv, ChainInv, At, Job
  <1> HIDE DEF r
  <1> QED
    BY <1>2, <1>4, <1>5, <1>6, JobMoves

LEMMA CompleteInv == ASSUME IInv, NEW j \in JobIds, Complete(j) PROVE IInv'
  <1> DEFINE r == [jobs[j] EXCEPT !.state = "completed"]
  <1>1. /\ jobs[j] \in Job /\ j \in Nat
        /\ Cardinality(Children(j)) \in Nat
        /\ ChainInv(j) /\ (j \notin unwritten => RowInv(j))
    BY Ids, ChildrenFinite DEF IInv, TypeOK
  <1>2. /\ r \in Job /\ r.parent = jobs[j].parent /\ r.name = jobs[j].name
        /\ jobs' = [jobs EXCEPT ![j] = r]
        /\ UNCHANGED <<posts, refreshes>>
    <2>1. jobs' = [jobs EXCEPT ![j] = r] /\ UNCHANGED <<posts, refreshes>>
      BY DEF Complete
    <2>2. r \in Job /\ r.parent = jobs[j].parent /\ r.name = jobs[j].name
      BY <1>1, Bounds DEF Job, JobStates, Points
    <2> QED
      BY <2>1, <2>2
  <1>3. /\ jobs'[j] = r
        /\ \A k : Children(k)' = Children(k)
    <2>1. TypeOK
      BY DEF IInv
    <2> HIDE DEF r
    <2>2. \A k \in JobIds : jobs'[k] = IF k = j THEN r ELSE jobs[k]
      BY <1>2, <2>1, OneJob
    <2>3. \A k : Children(k)' = Children(k)
      BY <1>2, <2>1, OneJob
    <2> QED
      BY <2>2, <2>3
  <1>4. /\ rows' \in Seq(RowStatus) /\ Len(rows') = Len(jobs)
        /\ \A k \in JobIds : rows'[k] = rows[k]
        /\ latest' \in 0..Len(jobs) /\ faults' \in 0..MaxFaults
        /\ unwritten' \subseteq JobIds /\ unwritten \subseteq unwritten'
    BY DEF Complete, IInv, TypeOK
  <1>5. ChainInv(j)'
    BY <1>1, <1>2, <1>3, Bounds DEF Complete, ChainInv, MayHaveAdded, At, Job
  <1>6. j \notin unwritten' => RowInv(j)'
    BY <1>1, <1>2, <1>3, <1>4, Bounds DEF Complete, RowInv, ChainInv, At, Job
  <1> HIDE DEF r
  <1> QED
    BY <1>2, <1>4, <1>5, <1>6, JobMoves

LEMMA ThrowsInv == ASSUME IInv, NEW j \in JobIds, Throws(j) PROVE IInv'
  <1> DEFINE r == [jobs[j] EXCEPT !.at = "throwing"]
  <1>1. /\ jobs[j] \in Job /\ j \in Nat
        /\ Cardinality(Children(j)) \in Nat
        /\ ChainInv(j) /\ (j \notin unwritten => RowInv(j))
    BY Ids, ChildrenFinite DEF IInv, TypeOK
  <1>2. /\ r \in Job /\ r.parent = jobs[j].parent /\ r.name = jobs[j].name
        /\ jobs' = [jobs EXCEPT ![j] = r]
        /\ UNCHANGED <<posts, refreshes>>
    <2>1. jobs' = [jobs EXCEPT ![j] = r] /\ UNCHANGED <<posts, refreshes>>
      BY DEF Throws, Throwing
    <2>2. r \in Job /\ r.parent = jobs[j].parent /\ r.name = jobs[j].name
      BY <1>1, Bounds DEF Job, JobStates, Points
    <2> QED
      BY <2>1, <2>2
  <1>3. /\ jobs'[j] = r
        /\ \A k : Children(k)' = Children(k)
    <2>1. TypeOK
      BY DEF IInv
    <2> HIDE DEF r
    <2>2. \A k \in JobIds : jobs'[k] = IF k = j THEN r ELSE jobs[k]
      BY <1>2, <2>1, OneJob
    <2>3. \A k : Children(k)' = Children(k)
      BY <1>2, <2>1, OneJob
    <2> QED
      BY <2>2, <2>3
  <1>4. /\ rows' \in Seq(RowStatus) /\ Len(rows') = Len(jobs)
        /\ \A k \in JobIds : rows'[k] = rows[k]
        /\ latest' \in 0..Len(jobs) /\ faults' \in 0..MaxFaults
        /\ unwritten' \subseteq JobIds /\ unwritten \subseteq unwritten'
    BY FaultBound DEF Throws, IInv, TypeOK
  <1>5. ChainInv(j)'
    BY <1>1, <1>2, <1>3, Bounds DEF Throws, ChainInv, MayHaveAdded, At, Job, Throwing
  <1>6. j \notin unwritten' => RowInv(j)'
    BY <1>1, <1>2, <1>3, <1>4, Bounds DEF Throws, RowInv, ChainInv, At, Job, Throwing
  <1> HIDE DEF r
  <1> QED
    BY <1>2, <1>4, <1>5, <1>6, JobMoves

LEMMA StallCheckInv == ASSUME IInv, NEW j \in JobIds, StallCheck(j) PROVE IInv'
  <1> DEFINE r == [jobs[j] EXCEPT
        !.stalled = jobs[j].stalled + 1,
        !.state = IF jobs[j].stalled < MaxStalled THEN "waiting" ELSE "failed"]
  <1>1. /\ jobs[j] \in Job /\ j \in Nat
        /\ Cardinality(Children(j)) \in Nat
        /\ ChainInv(j) /\ (j \notin unwritten => RowInv(j))
    BY Ids, ChildrenFinite DEF IInv, TypeOK
  <1>2. /\ r \in Job /\ r.parent = jobs[j].parent /\ r.name = jobs[j].name
        /\ jobs' = [jobs EXCEPT ![j] = r]
        /\ UNCHANGED <<posts, refreshes>>
    <2>1. jobs' = [jobs EXCEPT ![j] = r] /\ UNCHANGED <<posts, refreshes>>
      BY DEF StallCheck
    <2>2. r \in Job /\ r.parent = jobs[j].parent /\ r.name = jobs[j].name
      <3>1. jobs[j].stalled + 1 \in Nat
        BY <1>1 DEF Job
      <3>2. (IF jobs[j].stalled < MaxStalled THEN "waiting" ELSE "failed") \in JobStates
        BY DEF JobStates
      <3> QED
        BY <1>1, <3>1, <3>2 DEF Job
    <2> QED
      BY <2>1, <2>2
  <1>3. /\ jobs'[j] = r
        /\ \A k : Children(k)' = Children(k)
    <2>1. TypeOK
      BY DEF IInv
    <2> HIDE DEF r
    <2>2. \A k \in JobIds : jobs'[k] = IF k = j THEN r ELSE jobs[k]
      BY <1>2, <2>1, OneJob
    <2>3. \A k : Children(k)' = Children(k)
      BY <1>2, <2>1, OneJob
    <2> QED
      BY <2>2, <2>3
  <1>4. /\ rows' \in Seq(RowStatus) /\ Len(rows') = Len(jobs)
        /\ \A k \in JobIds : rows'[k] = rows[k]
        /\ latest' \in 0..Len(jobs) /\ faults' \in 0..MaxFaults
        /\ unwritten' \subseteq JobIds /\ unwritten \subseteq unwritten'
    BY DEF StallCheck, IInv, TypeOK
  <1>5. ChainInv(j)'
    BY <1>1, <1>2, <1>3, Bounds DEF StallCheck, ChainInv, MayHaveAdded, At, Job
  <1>6. j \notin unwritten' => RowInv(j)'
    BY <1>1, <1>2, <1>3, <1>4, Bounds DEF StallCheck, RowInv, ChainInv, At, Job
  <1> HIDE DEF r
  <1> QED
    BY <1>2, <1>4, <1>5, <1>6, JobMoves

LEMMA WriteProgressInv == ASSUME IInv, NEW j \in JobIds, WriteProgress(j) PROVE IInv'
  <1> DEFINE r == [jobs[j] EXCEPT !.at = IF HasSuccessor(jobs[j].name) THEN "stored" ELSE "added"]
  <1>1. /\ jobs[j] \in Job /\ j \in Nat
        /\ Cardinality(Children(j)) \in Nat
        /\ ChainInv(j) /\ (j \notin unwritten => RowInv(j))
    BY Ids, ChildrenFinite DEF IInv, TypeOK
  <1>2. /\ r \in Job /\ r.parent = jobs[j].parent /\ r.name = jobs[j].name
        /\ jobs' = [jobs EXCEPT ![j] = r]
        /\ UNCHANGED <<posts, refreshes>>
    <2>1. jobs' = [jobs EXCEPT ![j] = r] /\ UNCHANGED <<posts, refreshes>>
      BY DEF WriteProgress
    <2>2. r \in Job /\ r.parent = jobs[j].parent /\ r.name = jobs[j].name
      BY <1>1, Bounds DEF Job, JobStates, Points
    <2> QED
      BY <2>1, <2>2
  <1>3. /\ jobs'[j] = r
        /\ \A k : Children(k)' = Children(k)
    <2>1. TypeOK
      BY DEF IInv
    <2> HIDE DEF r
    <2>2. \A k \in JobIds : jobs'[k] = IF k = j THEN r ELSE jobs[k]
      BY <1>2, <2>1, OneJob
    <2>3. \A k : Children(k)' = Children(k)
      BY <1>2, <2>1, OneJob
    <2> QED
      BY <2>2, <2>3
  <1>4. /\ rows' \in Seq(RowStatus) /\ Len(rows') = Len(jobs)
        /\ \A k \in JobIds : k # j => rows'[k] = rows[k]
        /\ j \notin unwritten' => rows'[j] = (IF HasSuccessor(jobs[j].name) THEN "processing" ELSE "complete")
        /\ latest' \in 0..Len(jobs) /\ faults' \in 0..MaxFaults
        /\ unwritten' \subseteq JobIds /\ unwritten \subseteq unwritten'
    <2>1. updateJobStatus(j, (IF HasSuccessor(jobs[j].name) THEN "processing" ELSE "complete")) /\ (IF HasSuccessor(jobs[j].name) THEN "processing" ELSE "complete") \in RowStatus
      BY DEF WriteProgress, RowStatus
    <2> QED
      BY <2>1, RowUpdate DEF IInv
  <1>5. ChainInv(j)'
    BY <1>1, <1>2, <1>3, Bounds DEF WriteProgress, ChainInv, MayHaveAdded, At, Job
  <1>6. j \notin unwritten' => RowInv(j)'
    BY <1>1, <1>2, <1>3, <1>4, Bounds DEF WriteProgress, RowInv, ChainInv, At, Job
  <1> HIDE DEF r
  <1> QED
    BY <1>2, <1>4, <1>5, <1>6, JobMoves

LEMMA WriteFailedInv == ASSUME IInv, NEW j \in JobIds, WriteFailed(j) PROVE IInv'
  <1> DEFINE r == [jobs[j] EXCEPT !.at = "thrown"]
  <1>1. /\ jobs[j] \in Job /\ j \in Nat
        /\ Cardinality(Children(j)) \in Nat
        /\ ChainInv(j) /\ (j \notin unwritten => RowInv(j))
    BY Ids, ChildrenFinite DEF IInv, TypeOK
  <1>2. /\ r \in Job /\ r.parent = jobs[j].parent /\ r.name = jobs[j].name
        /\ jobs' = [jobs EXCEPT ![j] = r]
        /\ UNCHANGED <<posts, refreshes>>
    <2>1. jobs' = [jobs EXCEPT ![j] = r] /\ UNCHANGED <<posts, refreshes>>
      BY DEF WriteFailed
    <2>2. r \in Job /\ r.parent = jobs[j].parent /\ r.name = jobs[j].name
      BY <1>1, Bounds DEF Job, JobStates, Points
    <2> QED
      BY <2>1, <2>2
  <1>3. /\ jobs'[j] = r
        /\ \A k : Children(k)' = Children(k)
    <2>1. TypeOK
      BY DEF IInv
    <2> HIDE DEF r
    <2>2. \A k \in JobIds : jobs'[k] = IF k = j THEN r ELSE jobs[k]
      BY <1>2, <2>1, OneJob
    <2>3. \A k : Children(k)' = Children(k)
      BY <1>2, <2>1, OneJob
    <2> QED
      BY <2>2, <2>3
  <1>4. /\ rows' \in Seq(RowStatus) /\ Len(rows') = Len(jobs)
        /\ \A k \in JobIds : k # j => rows'[k] = rows[k]
        /\ j \notin unwritten' => rows'[j] = "failed"
        /\ latest' \in 0..Len(jobs) /\ faults' \in 0..MaxFaults
        /\ unwritten' \subseteq JobIds /\ unwritten \subseteq unwritten'
    <2>1. updateJobStatus(j, "failed") /\ "failed" \in RowStatus
      BY DEF WriteFailed, RowStatus
    <2> QED
      BY <2>1, RowUpdate DEF IInv
  <1>5. ChainInv(j)'
    BY <1>1, <1>2, <1>3, Bounds DEF WriteFailed, ChainInv, MayHaveAdded, At, Job
  <1>6. j \notin unwritten' => RowInv(j)'
    BY <1>1, <1>2, <1>3, <1>4, Bounds DEF WriteFailed, RowInv, ChainInv, At, Job
  <1> HIDE DEF r
  <1> QED
    BY <1>2, <1>4, <1>5, <1>6, JobMoves

\* The id of the next job is free.
LEMMA NextId ==
    ASSUME IInv
    PROVE  Len(jobs) + 1 \notin JobIds /\ Children(Len(jobs) + 1) = {}
  <1>1. JobIds = 1..Len(jobs) /\ Len(jobs) \in Nat
    BY Ids DEF IInv
  <1>2. \A k \in JobIds : jobs[k].parent \in Nat /\ jobs[k].parent < k
    <2> TAKE k \in JobIds
    <2>1. jobs[k] \in Job /\ ChainInv(k)
      BY <1>1 DEF IInv, TypeOK
    <2> QED
      BY <2>1 DEF ChainInv, Job
  <1> QED
    BY <1>1, <1>2 DEF Children

\* A job that has just joined the queue.
LEMMA FreshChain ==
    ASSUME NEW n \in Nat, jobs'[n].state = "waiting", jobs'[n].stalled = 0,
           jobs'[n].parent < n, Children(n)' = {}
    PROVE  ChainInv(n)'
  <1>1. Cardinality(Children(n)') = 0
    BY FS_EmptySet
  <1> QED
    BY <1>1, Bounds DEF ChainInv, MayHaveAdded, At

\* The next job: it has no row and no successor yet, and its parent one more.
LEMMA AddNextInv == ASSUME IInv, NEW j \in JobIds, AddNext(j) PROVE IInv'
  <1> DEFINE moved == [jobs[j] EXCEPT !.at = "added"]
             base == [jobs EXCEPT ![j] = moved]
             next == [name |-> Successor(jobs[j].name), state |-> "waiting", at |-> "begin",
                      attempts |-> 0, stalled |-> 0, parent |-> j]
             n == Len(jobs) + 1
  <1>1. /\ TypeOK
        /\ JobIds = 1..Len(jobs) /\ Len(jobs) \in Nat
        /\ jobs \in Seq(Job) /\ rows \in Seq(RowStatus) /\ Len(rows) = Len(jobs)
        /\ jobs[j] \in Job /\ j \in 1..Len(jobs)
        /\ ChainInv(j) /\ (j \notin unwritten => RowInv(j))
        /\ At(j, "stored") /\ jobs' = Append(base, next) /\ rows' = Append(rows, "none")
        /\ UNCHANGED <<latest, posts, refreshes, faults, unwritten>>
    BY Ids DEF IInv, TypeOK, AddNext
  <1>2. next \in Job
    BY <1>1 DEF ChainInv, HasSuccessor, Successor, Job, Names, JobStates, Points
  <1>3. moved \in Job /\ moved.parent = jobs[j].parent
    BY <1>1 DEF Job, Points
  <1>4. /\ base \in Seq(Job) /\ Len(base) = Len(jobs)
        /\ \A k \in JobIds : base[k] = IF k = j THEN moved ELSE jobs[k]
    <2> HIDE DEF moved
    <2> QED
      BY <1>1, <1>3, ExceptSeq
  <1>5. /\ jobs' \in Seq(Job) /\ Len(jobs') = n
        /\ JobIds' = JobIds \cup {n}
        /\ \A k \in JobIds : jobs'[k] = base[k]
        /\ jobs'[n] = next
        /\ \A k : next.parent # k => Children(k)' = Children(k)
        /\ \A k : next.parent = k => Children(k)' = Children(k) \cup {n}
    <2>1. \A k \in JobIds : base[k].parent = jobs[k].parent
      BY <1>3, <1>4
    <2> HIDE DEF base, next
    <2> QED
      BY <1>1, <1>2, <1>4, <2>1, NewJob
  <1>6. /\ rows' \in Seq(RowStatus) /\ Len(rows') = n
        /\ \A k \in JobIds : rows'[k] = rows[k]
    <2>1. "none" \in RowStatus
      BY DEF RowStatus
    <2> QED
      BY <1>1, <2>1, AppendProperties
  <1>7. TypeOK'
    BY <1>1, <1>5, <1>6 DEF TypeOK
  <1>8. Children(j)' = Children(j) \cup {n} /\ \A k : k # j => Children(k)' = Children(k)
    BY <1>5
  <1>9. n \notin JobIds /\ Children(n) = {} /\ n \notin Children(j) /\ n # j
    BY <1>1, NextId DEF Children
  <1>10. ASSUME NEW k \in JobIds' PROVE ChainInv(k)'
    <2>1. CASE k = n
      BY <1>1, <1>5, <1>8, <1>9, <2>1, FreshChain
    <2>2. CASE k = j
      <3>1. /\ Cardinality(Children(j)) \in Nat
            /\ Cardinality(Children(j) \cup {n}) = Cardinality(Children(j)) + 1
        BY <1>1, <1>9, ChildrenFinite, FS_AddElement
      <3>2. jobs[j].name = "tag" \/ Cardinality(Children(j)) <= jobs[j].stalled
        BY <1>1 DEF ChainInv, MayHaveAdded, At
      <3>3. jobs'[j] = moved
        BY <1>4, <1>5
      <3>4. /\ Cardinality(Children(j)') = Cardinality(Children(j)) + 1
            /\ n \in Children(j)'
        BY <1>8, <3>1
      <3>5. jobs'[j].stalled = jobs[j].stalled /\ jobs[j].stalled \in Nat /\ At(j, "added")'
        BY <1>1, <3>3 DEF At, Job
      <3>6. /\ jobs'[j].parent = jobs[j].parent /\ jobs'[j].name = jobs[j].name
            /\ jobs'[j].state = "active" /\ jobs'[j].at = "added"
        BY <1>1, <3>3 DEF At, Job
      <3> QED
        BY <1>1, <2>2, <3>1, <3>2, <3>4, <3>5, <3>6 DEF ChainInv, MayHaveAdded, At
    <2>3. CASE k \in JobIds /\ k # j
      <3>1. jobs'[k] = jobs[k] /\ Children(k)' = Children(k) /\ ChainInv(k)
        BY <1>4, <1>5, <1>8, <2>3 DEF IInv
      <3> QED
        BY <3>1 DEF ChainInv, MayHaveAdded, At
    <2> QED
      BY <1>5, <2>1, <2>2, <2>3
  <1>11. ASSUME NEW k \in JobIds' \ unwritten' PROVE RowInv(k)'
    <2>1. CASE k = n
      BY <1>5, <2>1 DEF RowInv, At
    <2>2. CASE k = j
      <3>1. jobs'[j] = moved /\ rows'[j] = rows[j] /\ RowInv(j)
        BY <1>1, <1>4, <1>5, <1>6, <1>11, <2>2
      <3> QED
        BY <1>1, <2>2, <3>1 DEF RowInv, At, Job
    <2>3. CASE k \in JobIds /\ k # j
      <3>1. jobs'[k] = jobs[k] /\ rows'[k] = rows[k] /\ RowInv(k)
        BY <1>1, <1>4, <1>5, <1>6, <1>11, <2>3 DEF IInv
      <3> QED
        BY <3>1 DEF RowInv, At
    <2> QED
      BY <1>5, <2>1, <2>2, <2>3
  <1>12. AddedHasJob'
    BY <1>1, <1>5 DEF IInv, AddedHasJob
  <1> QED
    BY <1>7, <1>10, <1>11, <1>12 DEF IInv

LEMMA PostAddInv == ASSUME IInv, NEW r \in Requests, PostAdd(r) PROVE IInv'
  <1> DEFINE new == [name |-> "sync", state |-> "waiting", at |-> "begin",
                     attempts |-> 0, stalled |-> 0, parent |-> 0]
             n == Len(jobs) + 1
  <1>1. /\ TypeOK
        /\ JobIds = 1..Len(jobs) /\ Len(jobs) \in Nat
        /\ jobs \in Seq(Job) /\ rows \in Seq(RowStatus) /\ Len(rows) = Len(jobs)
        /\ jobs' = Append(jobs, new) /\ rows' = Append(rows, "none")
        /\ posts' = [posts EXCEPT ![r] = [phase |-> "added", job |-> n]]
        /\ UNCHANGED <<latest, refreshes, faults, unwritten>>
    BY Ids DEF IInv, TypeOK, PostAdd, Added
  <1>2. new \in Job
    BY DEF Job, Names, JobStates, Points
  <1>3. /\ jobs' \in Seq(Job) /\ Len(jobs') = n
        /\ JobIds' = JobIds \cup {n}
        /\ \A k \in JobIds : jobs'[k] = jobs[k]
        /\ jobs'[n] = new
        /\ \A k : new.parent # k => Children(k)' = Children(k)
    <2> HIDE DEF new
    <2> QED
      BY <1>1, <1>2, NewJob
  <1>4. /\ rows' \in Seq(RowStatus) /\ Len(rows') = n
        /\ \A k \in JobIds : rows'[k] = rows[k]
    <2>1. "none" \in RowStatus
      BY DEF RowStatus
    <2> QED
      BY <1>1, <2>1, AppendProperties
  <1>5. TypeOK'
    BY <1>1, <1>3, <1>4 DEF TypeOK, Phases
  <1>6. \A k \in JobIds' : Children(k)' = Children(k)
    BY <1>1, <1>3
  <1>7. n \notin JobIds /\ Children(n) = {}
    BY NextId
  <1>8. ASSUME NEW k \in JobIds' PROVE ChainInv(k)'
    <2>1. CASE k = n
      BY <1>1, <1>3, <1>6, <1>7, <2>1, FreshChain
    <2>2. CASE k \in JobIds
      <3>1. jobs'[k] = jobs[k] /\ Children(k)' = Children(k) /\ ChainInv(k)
        BY <1>3, <1>6, <2>2 DEF IInv
      <3> QED
        BY <3>1 DEF ChainInv, MayHaveAdded, At
    <2> QED
      BY <1>3, <2>1, <2>2
  <1>9. ASSUME NEW k \in JobIds' \ unwritten' PROVE RowInv(k)'
    <2>1. CASE k = n
      BY <1>3, <2>1 DEF RowInv, At
    <2>2. CASE k \in JobIds
      <3>1. jobs'[k] = jobs[k] /\ rows'[k] = rows[k] /\ RowInv(k)
        BY <1>1, <1>3, <1>4, <1>9, <2>2 DEF IInv
      <3> QED
        BY <3>1 DEF RowInv, At
    <2> QED
      BY <1>3, <2>1, <2>2
  <1>10. AddedHasJob'
    BY <1>1, <1>3 DEF IInv, AddedHasJob, TypeOK
  <1> QED
    BY <1>5, <1>8, <1>9, <1>10 DEF IInv

---------------------------------------------------------------------------
(* The steps of the requests, the refreshes and the processes.             *)

\* A step that leaves the queue and the rows alone.
LEMMA QueueStays ==
    ASSUME IInv, UNCHANGED <<jobs, rows, latest, unwritten>>,
           posts' \in [Requests -> [phase : Phases, job : 0..Len(jobs)]],
           refreshes' \in [Refreshes -> Refresh],
           faults' \in 0..MaxFaults, AddedHasJob'
    PROVE  IInv'
  <1>1. JobIds' = JobIds /\ \A k : Children(k)' = Children(k)
    BY DEF JobIds, Children
  <1>2. TypeOK'
    BY <1>1 DEF IInv, TypeOK
  <1>3. \A k \in JobIds : ChainInv(k)'
    BY <1>1 DEF IInv, ChainInv, MayHaveAdded, At
  <1>4. \A k \in JobIds \ unwritten : RowInv(k)'
    BY DEF IInv, RowInv, At
  <1> QED
    BY <1>1, <1>2, <1>3, <1>4 DEF IInv

\* The INSERT writes only a row that does not exist, of which nothing is
\* claimed yet.
LEMMA PostInsertInv == ASSUME IInv, NEW r \in Requests, PostInsert(r) PROVE IInv'
  <1> DEFINE j == posts[r].job
  <1>1. /\ TypeOK
        /\ JobIds = 1..Len(jobs) /\ Len(jobs) \in Nat
        /\ rows \in Seq(RowStatus) /\ Len(rows) = Len(jobs)
        /\ UNCHANGED <<jobs, refreshes, unwritten>>
    BY Ids DEF IInv, TypeOK, PostInsert
  <1>2. \A phase \in Phases : [posts EXCEPT ![r].phase = phase]
                                \in [Requests -> [phase : Phases, job : 0..Len(jobs)]]
    BY <1>1 DEF TypeOK
  <1>3. "accepted" \in Phases /\ "refused" \in Phases
    BY DEF Phases
  <1>4. \A phase : phase # "added" /\ posts' = [posts EXCEPT ![r].phase = phase] => AddedHasJob'
    BY <1>1 DEF IInv, AddedHasJob, TypeOK, JobIds
  <1>5. CASE posts' = [posts EXCEPT ![r].phase = "refused"] /\ UNCHANGED <<rows, latest, faults>>
    <2>1. faults' \in 0..MaxFaults /\ refreshes' \in [Refreshes -> Refresh]
      BY <1>1, <1>5 DEF TypeOK
    <2> QED
      BY <1>1, <1>2, <1>3, <1>4, <1>5, <2>1, QueueStays
  <1>6. CASE posts' = [posts EXCEPT ![r].phase = "refused"] /\ Fault /\ UNCHANGED <<rows, latest>>
    <2>1. faults' \in 0..MaxFaults /\ refreshes' \in [Refreshes -> Refresh]
      BY <1>1, <1>6, FaultBound DEF TypeOK
    <2> QED
      BY <1>1, <1>2, <1>3, <1>4, <1>6, <2>1, QueueStays
  <1>7. CASE /\ posts[r].phase = "added" /\ rows[j] = "none"
             /\ rows' = [rows EXCEPT ![j] = "queued"]
             /\ latest' = j
             /\ posts' = [posts EXCEPT ![r].phase = "accepted"]
             /\ UNCHANGED faults
    <2>0. j \in JobIds
      BY <1>7 DEF IInv, AddedHasJob
    <2>1. "queued" \in RowStatus
      BY DEF RowStatus
    <2>2. /\ rows' \in Seq(RowStatus) /\ Len(rows') = Len(jobs)
          /\ \A k \in JobIds : rows'[k] = IF k = j THEN "queued" ELSE rows[k]
      <3> HIDE DEF j
      <3> QED
        BY <1>1, <1>7, <2>0, <2>1, ExceptSeq
    <2>3. JobIds' = JobIds /\ \A k : Children(k)' = Children(k)
      BY <1>1 DEF JobIds, Children
    <2>4. TypeOK'
      BY <1>1, <1>2, <1>3, <1>7, <2>0, <2>2, <2>3 DEF TypeOK
    <2>5. \A k \in JobIds : ChainInv(k)'
      BY <1>1, <2>3 DEF IInv, ChainInv, MayHaveAdded, At
    <2>6. ASSUME NEW k \in JobIds \ unwritten PROVE RowInv(k)'
      <3>1. RowInv(k) /\ jobs'[k] = jobs[k]
        BY <1>1 DEF IInv
      <3>2. CASE k = j
        BY <1>7, <3>1, <3>2 DEF RowInv, At
      <3>3. CASE k # j
        <4>1. rows'[k] = rows[k]
          BY <2>2, <3>3
        <4> QED
          BY <3>1, <4>1 DEF RowInv, At
      <3> QED
        BY <3>2, <3>3
    <2> QED
      BY <1>1, <2>3, <2>4, <2>5, <2>6, <1>3, <1>7, <1>4 DEF IInv
  <1> QED
    BY <1>5, <1>6, <1>7 DEF PostInsert

LEMMA PostAddFailsInv == ASSUME IInv, NEW r \in Requests, PostAddFails(r) PROVE IInv'
  <1>1. TypeOK /\ faults' \in 0..MaxFaults
    BY FaultBound DEF IInv, PostAddFails
  <1>2. /\ posts' \in [Requests -> [phase : Phases, job : 0..Len(jobs)]]
        /\ AddedHasJob'
    BY <1>1 DEF IInv, PostAddFails, AddedHasJob, TypeOK, Phases, JobIds, queueVars
  <1>3. refreshes' \in [Refreshes -> Refresh] /\ UNCHANGED <<jobs, rows, latest, unwritten>>
    BY <1>1 DEF PostAddFails, TypeOK, queueVars
  <1> QED
    BY <1>1, <1>2, <1>3, QueueStays

\* A step of one refresh.
LEMMA RefreshInv ==
    ASSUME IInv, NEW f \in Refreshes, NEW status \in RefreshStatus, NEW task \in Tasks,
           Becomes(f, status, task), faults' \in 0..MaxFaults
    PROVE  IInv'
  <1>1. TypeOK /\ AddedHasJob
    BY DEF IInv
  <1>2. refreshes' \in [Refreshes -> Refresh]
    BY <1>1 DEF Becomes, TypeOK, Refresh
  <1>3. UNCHANGED <<jobs, rows, latest, unwritten>> /\ UNCHANGED posts
    BY DEF Becomes, queueVars
  <1>4. /\ posts' \in [Requests -> [phase : Phases, job : 0..Len(jobs)]]
        /\ AddedHasJob'
    BY <1>1, <1>3 DEF TypeOK, AddedHasJob, JobIds
  <1> QED
    BY <1>2, <1>3, <1>4, QueueStays

LEMMA RefreshesInv ==
    ASSUME IInv, NEW f \in Refreshes, RefreshPost(f) \/ Task(f) \/ RefreshThrows(f)
    PROVE  IInv'
  <1>1. TypeOK /\ faults \in 0..MaxFaults /\ refreshes[f].status \in RefreshStatus
    BY DEF IInv, TypeOK, Refresh
  <1>2. Fault => faults' \in 0..MaxFaults
    BY <1>1, FaultBound
  <1>3. /\ {"pending", "running", "completed", "failed"} \subseteq RefreshStatus
        /\ {"started", "working", "worked", "error", "ended", "lost"} \subseteq Tasks
    BY DEF RefreshStatus, Tasks
  <1>4. CASE RefreshPost(f)
    BY <1>1, <1>3, <1>4, RefreshInv DEF RefreshPost
  <1>5. CASE RefreshStep(f)
    BY <1>1, <1>3, <1>5, RefreshInv DEF RefreshStep
  <1>6. CASE RefreshCatch(f)
    BY <1>1, <1>2, <1>3, <1>6, RefreshInv DEF RefreshCatch
  <1>7. CASE RefreshThrows(f)
    BY <1>1, <1>2, <1>3, <1>7, RefreshInv DEF RefreshThrows
  <1> QED
    BY <1>4, <1>5, <1>6, <1>7 DEF Task

LEMMA WebLostInv == ASSUME IInv, WebLost PROVE IInv'
  <1>1. TypeOK /\ faults' \in 0..MaxFaults /\ AddedHasJob
    BY FaultBound DEF IInv, WebLost
  <1>2. /\ posts' \in [Requests -> [phase : Phases, job : 0..Len(jobs)]]
        /\ AddedHasJob'
    BY <1>1 DEF WebLost, AddedHasJob, TypeOK, Phases, JobIds, queueVars
  <1>3. refreshes' \in [Refreshes -> Refresh]
    <2> SUFFICES ASSUME NEW f \in Refreshes PROVE refreshes'[f] \in Refresh
      BY DEF WebLost
    <2>1. refreshes[f] \in Refresh
      BY <1>1 DEF TypeOK
    <2> QED
      BY <2>1 DEF WebLost, Refresh, Tasks
  <1>4. UNCHANGED <<jobs, rows, latest, unwritten>>
    BY DEF WebLost, queueVars
  <1> QED
    BY <1>1, <1>2, <1>3, <1>4, QueueStays

\* A lost run may have added its successor or not.
LEMMA WorkerLostInv == ASSUME IInv, WorkerLost PROVE IInv'
  <1> DEFINE moved(k) == IF k \in Running THEN [jobs[k] EXCEPT !.at = "lost"] ELSE jobs[k]
  <1>1. /\ TypeOK /\ AddedHasJob /\ faults' \in 0..MaxFaults
        /\ jobs \in Seq(Job)
        /\ JobIds = 1..Len(jobs) /\ Len(jobs) \in Nat
        /\ jobs' = [k \in JobIds |-> moved(k)]
        /\ UNCHANGED <<rows, latest, posts, refreshes, unwritten>>
    BY Ids, FaultBound DEF IInv, TypeOK, WorkerLost
  <1>2. \A k \in JobIds : /\ jobs[k] \in Job
                          /\ moved(k) \in Job /\ jobs'[k] = moved(k)
    <2> TAKE k \in JobIds
    <2>1. jobs[k] \in Job
      BY <1>1
    <2>2. moved(k) \in Job
      BY <2>1 DEF Job, Points
    <2> QED
      BY <1>1, <2>1, <2>2
  <1>3. jobs' \in Seq(Job) /\ Len(jobs') = Len(jobs) /\ JobIds' = JobIds
    <2> HIDE DEF moved
    <2>1. jobs' \in [1..Len(jobs) -> Job]
      BY <1>1, <1>2
    <2>2. jobs' \in Seq(Job) /\ Len(jobs') = Len(jobs)
      BY <1>1, <2>1
    <2> QED
      BY <1>1, <2>2 DEF JobIds
  <1>4. \A k : Children(k)' = Children(k)
    <2>1. \A k \in JobIds : jobs'[k].parent = jobs[k].parent
      BY <1>2 DEF Job
    <2> QED
      BY <1>3, <2>1 DEF Children
  <1>5. TypeOK'
    BY <1>1, <1>3 DEF TypeOK
  <1>6. AddedHasJob'
    BY <1>1, <1>3 DEF AddedHasJob
  <1>7. ASSUME NEW k \in JobIds PROVE ChainInv(k)'
    <2>1. ChainInv(k) /\ jobs[k] \in Job /\ jobs'[k] = moved(k) /\ Children(k)' = Children(k)
      BY <1>2, <1>4, <1>7 DEF IInv
    <2>2. CASE k \in Running
      BY <1>7, <2>1, <2>2 DEF ChainInv, MayHaveAdded, At, Running, Job
    <2>3. CASE k \notin Running
      BY <1>7, <2>1, <2>3 DEF ChainInv, MayHaveAdded, At
    <2> QED
      BY <2>2, <2>3
  <1>8. ASSUME NEW k \in JobIds \ unwritten PROVE RowInv(k)'
    <2>1. RowInv(k) /\ jobs[k] \in Job /\ jobs'[k] = moved(k) /\ rows' = rows
      BY <1>1, <1>2, <1>8 DEF IInv
    <2>2. CASE k \in Running
      BY <2>1, <2>2 DEF RowInv, At, Running, Job
    <2>3. CASE k \notin Running
      BY <2>1, <2>3 DEF RowInv, At
    <2> QED
      BY <2>2, <2>3
  <1> QED
    BY <1>1, <1>3, <1>5, <1>6, <1>7, <1>8 DEF IInv

LEMMA NextInv == IInv /\ [Next]_vars => IInv'
  <1> SUFFICES ASSUME IInv, [Next]_vars PROVE IInv'
    OBVIOUS
  <1>1. ASSUME NEW r \in Requests, Post(r) PROVE IInv'
    BY <1>1, PostAddInv, PostAddFailsInv, PostInsertInv DEF Post
  <1>2. ASSUME NEW j \in JobIds, Work(j) PROVE IInv'
    BY <1>2, TakeInv, MissingHandlerInv, PromoteInv, WriteProgressInv, AddNextInv,
       CompleteInv, WriteFailedInv, FailInv, StallCheckInv DEF Work
  <1>3. ASSUME NEW j \in JobIds, Throws(j) PROVE IInv'
    BY <1>3, ThrowsInv
  <1>4. ASSUME NEW f \in Refreshes, RefreshPost(f) \/ Task(f) \/ RefreshThrows(f) PROVE IInv'
    BY <1>4, RefreshesInv
  <1>5. CASE UNCHANGED vars
    <2>1. /\ posts' \in [Requests -> [phase : Phases, job : 0..Len(jobs)]]
          /\ refreshes' \in [Refreshes -> Refresh] /\ faults' \in 0..MaxFaults
          /\ AddedHasJob' /\ UNCHANGED <<jobs, rows, latest, unwritten>>
      BY <1>5 DEF vars, IInv, TypeOK, AddedHasJob, JobIds
    <2> QED
      BY <2>1, QueueStays
  <1> QED
    BY <1>1, <1>2, <1>3, <1>4, <1>5, WorkerLostInv, WebLostInv DEF Next

---------------------------------------------------------------------------
(* The theorems.                                                           *)

\* The inductive invariant holds throughout.
THEOREM JobsInvariant == Spec => []IInv
  BY InitInv, NextInv, PTL DEF Spec

\* Types: jobs and rows stay in step, and the page's row is one of them.
THEOREM JobsTypeOK == Spec => []TypeOK
  <1>1. IInv => TypeOK
    BY DEF IInv
  <1> QED
    BY <1>1, JobsInvariant, PTL

\* The chain is continued by every completed job, and forked only by the
\* restarts of a stalled one (processSyncInitialData).
THEOREM ChainNeverForked == Spec => []ChainUnforked
  <1>1. IInv => ChainUnforked
    BY DEF IInv, ChainInv, ChainUnforked
  <1> QED
    BY <1>1, JobsInvariant, PTL

\* The row of a job tells how it ended, in whatever order the request's
\* INSERT and the worker's writes come (after-identity, updateJobStatus).
THEOREM RowAlwaysTells == Spec => []RowTellsOutcome
  <1>1. IInv => RowTellsOutcome
    BY DEF IInv, RowInv, RowTellsOutcome
  <1> QED
    BY <1>1, JobsInvariant, PTL
=============================================================================
