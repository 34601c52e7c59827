-------------------------- MODULE ReconLockProofs --------------------------
(***************************************************************************)
(* Proofs about ReconLock, for every set of runs and every limit.          *)
(*                                                                         *)
(* The invariant is the conjunction of what the runs of TLC check.  That   *)
(* at most one run is active is not inductive alone: a request may enter   *)
(* when the lock is not running, so an active run must be known to hold a  *)
(* running lock; and a cleanup may free a stale lock, so that lock must be *)
(* known not to be stale.                                                  *)
(***************************************************************************)
EXTENDS ReconLock, TLAPS

\* The inductive invariant.
Inv == TypeOK /\ AtMostOneRunInTime /\ ActiveRunHoldsLock

Work == [op : {"working"}, step : 0..(CheckedSteps + 1), age : 0..AgeCap]

\* A working run is not idle.
LEMMA WorkNotIdle == \A w \in Work : w # Idle
  BY DEF Work, Idle

\* The cap lies past both limits, and growing older respects it.
LEMMA Ages ==
    /\ AgeCap \in Nat /\ AgeCap > LockTimeout /\ AgeCap > MaxDuration
    /\ \A age \in 0..AgeCap : Older(age) \in 0..AgeCap
  BY LimitAssumption DEF AgeCap, Older

\* A run that ends or starts changes Active at that run only.
LEMMA ActiveAfter ==
    ASSUME NEW r \in Runs, NEW v, TypeOK, runs' = [runs EXCEPT ![r] = v]
    PROVE  /\ v = Idle => Active' = Active \ {r}
           /\ v # Idle => Active' = Active \cup {r}
  <1>1. runs \in [Runs -> {Idle} \cup Work]
    BY DEF TypeOK, Work
  <1>2. \A s \in Runs : runs'[s] = IF s = r THEN v ELSE runs[s]
    BY <1>1
  <1>3. v = Idle => Active' = Active \ {r}
    BY <1>2 DEF Active
  <1>4. v # Idle => Active' = Active \cup {r}
    BY <1>2 DEF Active
  <1> QED
    BY <1>3, <1>4

\* The first state satisfies the invariant.
LEMMA InitInv == Init => Inv
  <1> SUFFICES ASSUME Init PROVE Inv
    OBVIOUS
  <1>1. 0 \in 0..AgeCap
    BY Ages
  <1>2. TypeOK
    BY <1>1 DEF Init, TypeOK, Free
  <1>3. Active = {}
    BY DEF Init, Active
  <1> QED
    BY <1>2, <1>3 DEF Inv, AtMostOneRunInTime, ActiveRunHoldsLock

\* Ending a run, with whatever status the table accepts.
LEMMA ReleaseInv ==
    ASSUME Inv, NEW r \in Runs, runs[r] # Idle,
           NEW status \in {"completed", "failed"}, Release(r, status)
    PROVE  Inv'
  <1>1. TypeOK'
    BY Ages DEF Inv, TypeOK, Release, Free
  <1>2. Active' = Active \ {r}
    BY ActiveAfter DEF Inv, Release
  <1>3. r \in Active
    BY DEF Active
  <1>4. ~overran' /\ ~forced' => Active' = {}
    BY <1>2, <1>3 DEF Inv, AtMostOneRunInTime, Release
  <1> QED
    BY <1>1, <1>4 DEF Inv, AtMostOneRunInTime, ActiveRunHoldsLock

\* A step that leaves the lock and the history alone, and no run becomes
\* active, keeps the two clauses about active runs.
LEMMA SameLockInv ==
    ASSUME Inv, TypeOK', UNCHANGED <<lock, overran, forced>>, Active' \subseteq Active
    PROVE  Inv'
  BY DEF Inv, AtMostOneRunInTime, ActiveRunHoldsLock, Stale

\* Every step keeps the invariant.
LEMMA NextInv == Inv /\ [Next]_vars => Inv'
  <1> SUFFICES ASSUME Inv, [Next]_vars PROVE Inv'
    OBVIOUS
  <1> USE DEF Inv
  <1>1. ASSUME NEW r \in Runs, Acquire(r) PROVE Inv'
    <2>1. Working(0, 0) \in Work
      BY LimitAssumption, Ages DEF Working, Work
    <2>2. TypeOK'
      BY <1>1, <2>1, Ages DEF TypeOK, Acquire, Held, Work
    <2>3. Active' = Active \cup {r}
      BY <1>1, <2>1, WorkNotIdle, ActiveAfter DEF Acquire
    <2>4. ~overran' /\ ~forced' => Active = {}
      BY <1>1 DEF Acquire, ActiveRunHoldsLock
    <2>5. lock'.status = "running" /\ ~Stale'
      BY <1>1, LimitAssumption DEF Acquire, Held, Stale
    <2> QED
      BY <2>2, <2>3, <2>4, <2>5 DEF AtMostOneRunInTime, ActiveRunHoldsLock
  <1>2. ASSUME NEW r \in Runs, RefuseStale(r) PROVE Inv'
    <2>1. TypeOK'
      BY <1>2, Ages DEF TypeOK, RefuseStale, Free
    <2>2. Active' = Active
      BY <1>2 DEF RefuseStale, Active
    <2>3. ~overran' /\ ~forced' => Active' = {}
      BY <1>2, <2>2 DEF RefuseStale, ActiveRunHoldsLock
    <2> QED
      BY <2>1, <2>3 DEF AtMostOneRunInTime, ActiveRunHoldsLock
  <1>3. ASSUME NEW r \in Runs, StartRun(r) PROVE Inv'
    <2>1. Working(1, 0) \in Work
      BY LimitAssumption, Ages DEF Working, Work
    <2>2. TypeOK'
      BY <1>3, <2>1 DEF TypeOK, StartRun, Work
    <2>3. Active' = Active
      BY <1>3, <2>1, WorkNotIdle, ActiveAfter DEF StartRun, Active
    <2> QED
      BY <1>3, <2>2, <2>3, SameLockInv DEF StartRun
  <1>4. ASSUME NEW r \in Runs, FinishStep(r) PROVE Inv'
    <2>1. CASE runs[r].age > MaxDuration
      BY <1>4, <2>1, ReleaseInv DEF FinishStep
    <2>2. CASE ~(runs[r].age > MaxDuration)
      <3>1. runs' = [runs EXCEPT ![r] = [runs[r] EXCEPT !.step = @ + 1]]
        BY <1>4, <2>2 DEF FinishStep
      <3>2. runs[r] \in Work /\ runs[r].step \in 1..CheckedSteps
        BY <1>4 DEF FinishStep, TypeOK, Work
      <3>3. [runs[r] EXCEPT !.step = @ + 1] \in Work
        BY <3>2, LimitAssumption DEF Work
      <3>4. TypeOK'
        BY <1>4, <2>2, <3>1, <3>3 DEF TypeOK, FinishStep, Work
      <3>5. Active' = Active
        BY <1>4, <3>1, <3>3, WorkNotIdle, ActiveAfter DEF FinishStep, Active
      <3> QED
        BY <1>4, <2>2, <3>4, <3>5, SameLockInv DEF FinishStep
    <2> QED
      BY <2>1, <2>2
  <1>5. ASSUME NEW r \in Runs, FinishLastStep(r) PROVE Inv'
    BY <1>5, ReleaseInv DEF FinishLastStep
  <1>6. ASSUME NEW r \in Runs, StepThrows(r) PROVE Inv'
    BY <1>6, ReleaseInv DEF StepThrows
  <1>7. ASSUME NEW r \in Runs, Crash(r) PROVE Inv'
    <2>1. TypeOK'
      BY <1>7 DEF TypeOK, Crash
    <2>2. Active' = Active \ {r}
      BY <1>7, ActiveAfter DEF Crash
    <2> QED
      BY <1>7, <2>1, <2>2, SameLockInv DEF Crash
  <1>8. CASE AdminClear
    <2>1. TypeOK'
      BY <1>8, Ages DEF TypeOK, AdminClear, Free
    <2>2. ~overran' /\ ~forced' => Active' = {}
      BY <1>8 DEF AdminClear, Active
    <2> QED
      BY <2>1, <2>2 DEF AtMostOneRunInTime, ActiveRunHoldsLock
  <1>9. CASE Tick
    <2>1. \A r \in Runs : runs[r] # Idle =>
             /\ runs[r] \in Work
             /\ [runs[r] EXCEPT !.age = Older(@)] \in Work
      BY Ages DEF TypeOK, Work
    <2>2. \A r \in Runs : runs'[r] = Idle <=> runs[r] = Idle
      BY <1>9, <2>1, WorkNotIdle DEF Tick, TypeOK
    <2>3. Active' = Active
      BY <2>2 DEF Active
    <2>4. runs' \in [Runs -> {Idle} \cup Work]
      <3>1. \A r \in Runs :
               (IF runs[r] = Idle THEN Idle ELSE [runs[r] EXCEPT !.age = Older(@)])
                 \in {Idle} \cup Work
        BY <2>1
      <3> QED
        BY <1>9, <3>1 DEF Tick
    <2>5. \/ lock' = lock
          \/ lock' = Held(Older(lock.age)) /\ lock.status = "running"
      BY <1>9 DEF Tick
    <2>6. lock' \in [status : {"none", "running", "completed", "failed"}, age : 0..AgeCap]
      <3>1. lock.age \in 0..AgeCap /\ Older(lock.age) \in 0..AgeCap
        BY Ages DEF TypeOK
      <3> QED
        BY <2>5, <3>1 DEF Held, TypeOK
    <2>7. TypeOK'
      BY <1>9, <2>4, <2>6 DEF TypeOK, Tick, Work
    <2>8. ~overran' /\ ~forced' /\ Active' # {} => lock'.status = "running" /\ ~Stale'
      BY <1>9, <2>3, <2>5, <2>6, LimitAssumption DEF Tick, ActiveRunHoldsLock, Held, Stale
    <2>9. ~overran' /\ ~forced' => ~overran /\ ~forced
      BY <1>9 DEF Tick, TypeOK
    <2> QED
      BY <2>3, <2>7, <2>8, <2>9 DEF AtMostOneRunInTime, ActiveRunHoldsLock
  <1>10. CASE UNCHANGED vars
    BY <1>10, SameLockInv DEF vars, TypeOK, Active
  <1> QED
    BY <1>1, <1>2, <1>3, <1>4, <1>5, <1>6, <1>7, <1>8, <1>9, <1>10 DEF Next, Ask, RunStep

\* The invariant holds in every reachable state.
THEOREM InvHolds == Spec => []Inv
  <1>1. Init => Inv
    BY InitInv
  <1>2. Inv /\ [Next]_vars => Inv'
    BY NextInv
  <1> QED
    BY <1>1, <1>2, PTL DEF Spec

\* Every variable holds a value of its kind: the lock has only statuses the
\* CHECK constraint of reconciliation_locks accepts.
THEOREM TypeCorrect == Spec => []TypeOK
  <1>1. Inv => TypeOK
    BY DEF Inv
  <1> QED
    BY <1>1, InvHolds, PTL

\* While no run outlives its lock and no administrator clears a lock in
\* use, there is one run at a time.
THEOREM OneRunInTime == Spec => []AtMostOneRunInTime
  <1>1. Inv => AtMostOneRunInTime
    BY DEF Inv
  <1> QED
    BY <1>1, InvHolds, PTL

\* Under the same condition an active run holds a lock that is running and
\* not stale, so no cleanup can take it away.
THEOREM ActiveRunHolds == Spec => []ActiveRunHoldsLock
  <1>1. Inv => ActiveRunHoldsLock
    BY DEF Inv
  <1> QED
    BY <1>1, InvHolds, PTL

---------------------------------------------------------------------------
(* The lock implements RunExclusion.                                       *)

\* The first state maps to the first state of RunExclusion.
LEMMA InitRefines == Init => Exclusion!Init
  BY DEF Init, Exclusion!Init, Active

\* Leaving: a run ends, the history is unchanged.
LEMMA EndRefines ==
    ASSUME TypeOK, NEW r \in Runs, runs[r] # Idle,
           runs' = [runs EXCEPT ![r] = Idle], UNCHANGED <<overran, forced>>
    PROVE  Exclusion!Leave(r)
  <1>1. Active' = Active \ {r} /\ r \in Active
    BY ActiveAfter DEF Active
  <1> QED
    BY <1>1 DEF Exclusion!Leave

\* Every step maps to a step of RunExclusion or leaves its variables alone.
LEMMA NextRefines ==
    Inv /\ [Next]_vars => [Exclusion!Next]_<<Active, overran \/ forced>>
  <1> SUFFICES ASSUME Inv, [Next]_vars
               PROVE  \/ Exclusion!Next
                      \/ Active' = Active /\ (overran' \/ forced') = (overran \/ forced)
    OBVIOUS
  <1> USE DEF Inv
  <1>1. ASSUME NEW r \in Runs, Acquire(r) PROVE Exclusion!Enter(r)
    <2>1. Working(0, 0) # Idle
      BY DEF Working, Idle
    <2>2. Active' = Active \cup {r}
      BY <1>1, <2>1, ActiveAfter DEF Acquire
    <2>3. Active = {} \/ overran \/ forced
      BY <1>1 DEF Acquire, ActiveRunHoldsLock
    <2> QED
      BY <1>1, <2>2, <2>3 DEF Acquire, Exclusion!Enter
  <1>2. ASSUME NEW r \in Runs, RefuseStale(r)
        PROVE  Active' = Active /\ UNCHANGED <<overran, forced>>
    BY <1>2 DEF RefuseStale, Active
  <1>3. ASSUME NEW r \in Runs, StartRun(r)
        PROVE  Active' = Active /\ UNCHANGED <<overran, forced>>
    <2>1. Working(1, 0) # Idle
      BY DEF Working, Idle
    <2> QED
      BY <1>3, <2>1, ActiveAfter DEF StartRun, Active
  <1>4. ASSUME NEW r \in Runs, FinishStep(r)
        PROVE  \/ Exclusion!Leave(r)
               \/ Active' = Active /\ UNCHANGED <<overran, forced>>
    <2>1. CASE runs[r].age > MaxDuration
      BY <1>4, <2>1, EndRefines DEF FinishStep, Release
    <2>2. CASE ~(runs[r].age > MaxDuration)
      <3>1. runs' = [runs EXCEPT ![r] = [runs[r] EXCEPT !.step = @ + 1]]
        BY <1>4, <2>2 DEF FinishStep
      <3>2. runs[r] \in Work
        BY <1>4 DEF FinishStep, TypeOK, Work
      <3>3. [runs[r] EXCEPT !.step = @ + 1] # Idle
        BY <3>2 DEF Work, Idle
      <3> QED
        BY <1>4, <2>2, <3>1, <3>3, ActiveAfter DEF FinishStep, Active
    <2> QED
      BY <2>1, <2>2
  <1>5. ASSUME NEW r \in Runs, FinishLastStep(r) PROVE Exclusion!Leave(r)
    BY <1>5, EndRefines DEF FinishLastStep, Release
  <1>6. ASSUME NEW r \in Runs, StepThrows(r) PROVE Exclusion!Leave(r)
    BY <1>6, EndRefines DEF StepThrows, Release
  <1>7. ASSUME NEW r \in Runs, Crash(r) PROVE Exclusion!Leave(r)
    BY <1>7, EndRefines DEF Crash
  <1>8. CASE AdminClear
    <2>1. Active' = Active
      BY <1>8 DEF AdminClear, Active
    <2>2. CASE Active = {}
      BY <1>8, <2>1, <2>2 DEF AdminClear
    <2>3. CASE Active # {}
      <3>1. Exclusion!Break
        BY <1>8, <2>1, <2>3 DEF AdminClear, Exclusion!Break
      <3> QED
        BY <3>1 DEF Exclusion!Next
    <2> QED
      BY <2>2, <2>3
  <1>9. CASE Tick
    <2>1. \A r \in Runs : runs[r] # Idle => [runs[r] EXCEPT !.age = Older(@)] # Idle
      BY DEF TypeOK, Idle
    <2>2. Active' = Active
      BY <1>9, <2>1 DEF Tick, Active, TypeOK
    <2>3. CASE overran' = overran
      BY <1>9, <2>2, <2>3 DEF Tick
    <2>4. CASE overran' # overran
      <3>1. Active # {} /\ overran'
        BY <1>9, <2>4 DEF Tick, TypeOK
      <3>2. Exclusion!Break
        BY <1>9, <2>2, <3>1 DEF Tick, Exclusion!Break
      <3> QED
        BY <3>2 DEF Exclusion!Next
    <2> QED
      BY <2>3, <2>4
  <1>10. CASE UNCHANGED vars
    BY <1>10 DEF vars, Active
  <1> QED
    BY <1>1, <1>2, <1>3, <1>4, <1>5, <1>6, <1>7, <1>8, <1>9, <1>10
    DEF Next, Ask, RunStep, Exclusion!Next

\* The detailed lock is an implementation of the abstract exclusion, with
\* the active runs as holders.
THEOREM LockImplementsExclusion == Spec => Excludes
  <1>1. Init => Exclusion!Init
    BY InitRefines
  <1>2. Inv /\ [Next]_vars => [Exclusion!Next]_<<Active, overran \/ forced>>
    BY NextRefines
  <1> QED
    BY <1>1, <1>2, InvHolds, PTL DEF Spec, Excludes, Exclusion!Spec
===========================================================================
