----------------------- MODULE MovementRebuildProofs -----------------------
(***************************************************************************)
(* Proofs about MovementRebuild, for any number of runs, processes,        *)
(* sessions, transactions and attributions.                                *)
(*                                                                         *)
(* That runs of different processes exclude one another as long as none    *)
(* has lost its lock follows from three facts: at most one session holds   *)
(* the lock, a run that still has its lock took it on a session of its own *)
(* pool that holds it, and a session only ever waits for a run of its own  *)
(* pool.                                                                   *)
(***************************************************************************)
EXTENDS MovementRebuild, TLAPS

OneHolder == \A s, t \in Sessions : held[s] > 0 /\ held[t] > 0 => s = t

AtHeld ==
    \A r \in Tasks : task[r].at # Nobody => task[r].at \in Pool[r] /\ held[task[r].at] > 0

WaitsForOwn == \A s \in Sessions : waiter[s] \in Tasks => s \in Pool[waiter[s]]

\* Only rebuilds go through the steps of a rebuild.
Rebuilding == {"save", "delete", "movements", "observations", "duplicates", "restore"}
Rebuilders == \A r \in Tasks : task[r].pc \in Rebuilding => r \in Rebuilds

\* The inductive invariant.
LockInv == OneHolder /\ AtHeld /\ WaitsForOwn
IInv == TypeOK /\ LockInv /\ Rebuilders

Steps == {"ask", "wait", "locked", "save", "delete", "movements", "observations",
          "duplicates", "restore", "unlock", "end"}

----------------------------------------------------------------------------
(* Records of runs.                                                        *)

LEMMA OverTyped == Over \in TaskRecord /\ Over.at = Nobody
  BY DEF Over, Fresh, TaskRecord

LEMMA FreeInPool ==
    ASSUME NEW r \in Tasks, NEW s \in Free(r)
    PROVE  s \in Sessions /\ s \in Pool[r] /\ waiter[s] = Nobody
  BY RebuildAssumption DEF Free

\* A step of a run in its own record.
LEMMA PcTyped ==
    ASSUME NEW t \in TaskRecord, NEW pc \in Steps
    PROVE  [t EXCEPT !.pc = pc] \in TaskRecord /\ [t EXCEPT !.pc = pc].at = t.at
  BY DEF TaskRecord, Steps

\* Losing the lock or its loneliness keeps a record a record.
LEMMA LossTyped ==
    ASSUME NEW t \in TaskRecord
    PROVE  /\ [t EXCEPT !.at = Nobody] \in TaskRecord
           /\ [t EXCEPT !.at = Nobody].at = Nobody
           /\ [t EXCEPT !.alone = FALSE] \in TaskRecord
           /\ [t EXCEPT !.alone = FALSE].at = t.at
  BY DEF TaskRecord

\* Only the record of r changes.
LEMMA OneRecord ==
    ASSUME TypeOK, NEW r \in Tasks, NEW t \in TaskRecord,
           task' = [task EXCEPT ![r] = t]
    PROVE  task' \in [Tasks -> TaskRecord] /\ \A q \in Tasks : task'[q].at \in {task[q].at, t.at}
  BY DEF TypeOK

\* r writes, and the others are not alone any more.
LEMMA DisturbTyped ==
    ASSUME TypeOK, NEW r \in Tasks, NEW t \in TaskRecord, t.at = task[r].at,
           task' = Disturb(r, t)
    PROVE  task' \in [Tasks -> TaskRecord] /\ \A q \in Tasks : task'[q].at = task[q].at
  <1>1. \A q \in Tasks : task[q] \in TaskRecord
    BY DEF TypeOK
  <1>2. \A q \in Tasks : q # r => task'[q] = [task[q] EXCEPT !.alone = FALSE]
    BY DEF Disturb
  <1>3. task'[r] = t
    BY DEF Disturb
  <1>4. \A q \in Tasks : task'[q] \in TaskRecord /\ task'[q].at = task[q].at
    BY <1>1, <1>2, <1>3, LossTyped
  <1>5. task' = [q \in Tasks |-> task'[q]]
    BY DEF Disturb
  <1> QED BY <1>4, <1>5

\* Where neither the lock nor its queue changes, a run can only lose its lock.
LEMMA SameLock ==
    ASSUME LockInv, UNCHANGED <<held, waiter>>,
           \A q \in Tasks : task'[q].at \in {task[q].at, Nobody}
    PROVE  LockInv'
  BY DEF LockInv, OneHolder, AtHeld, WaitsForOwn

LEMMA MadeTyped ==
    ASSUME NEW r \in Rebuilds, NEW groups \in SUBSET SUBSET Observations,
           NEW dup \in BOOLEAN
    PROVE  Made(r, groups, dup) \subseteq Movement
  BY DEF Made, Movement

\* The tables when movements are added and nothing else changes.
LEMMA MoreMovements ==
    ASSUME TypeOK, NEW new \in SUBSET Movement, movements' = movements \union new,
           UNCHANGED <<owner, attributions>>
    PROVE  /\ movements' \subseteq Movement
           /\ owner' \in [Observations -> movements' \union {None}]
           /\ attributions' \subseteq [tag : Tags, of : movements']
  BY DEF TypeOK
----------------------------------------------------------------------------
(* The initial state.                                                      *)

LEMMA InitTables ==
    ASSUME Init
    PROVE  /\ movements \subseteq Movement
           /\ owner \in [Observations -> movements \union {None}]
           /\ attributions \subseteq [tag : Tags, of : movements]
  <1>1. PICK groups \in Groupings(Observations) :
          /\ movements = {[by |-> "earlier", made |-> g, dup |-> FALSE] : g \in groups}
          /\ owner = [o \in Observations |-> CHOOSE m \in movements : o \in m.made]
          /\ \E of \in [Tags -> movements] :
               attributions = {[tag |-> t, of |-> of[t]] : t \in Tags}
    BY DEF Init
  <1>2. movements \subseteq Movement
    <2>1. \A g \in groups : g \in SUBSET Observations
      BY DEF Groupings
    <2>2. \A g \in groups : [by |-> "earlier", made |-> g, dup |-> FALSE] \in Movement
      BY <2>1 DEF Movement
    <2> QED BY <1>1, <2>2
  <1>3. \A o \in Observations : \E m \in movements : o \in m.made
    <2> SUFFICES ASSUME NEW o \in Observations PROVE \E m \in movements : o \in m.made
      OBVIOUS
    <2>1. PICK g \in groups : o \in g
      BY <1>1 DEF Groupings
    <2>2. [by |-> "earlier", made |-> g, dup |-> FALSE] \in movements
      BY <1>1
    <2> QED BY <2>1, <2>2
  <1>4. \A o \in Observations : (CHOOSE m \in movements : o \in m.made) \in movements
    BY <1>3
  <1>5. owner \in [Observations -> movements \union {None}]
    BY <1>1, <1>4
  <1>6. PICK of \in [Tags -> movements] : attributions = {[tag |-> t, of |-> of[t]] : t \in Tags}
    BY <1>1
  <1>7. attributions \subseteq [tag : Tags, of : movements]
    BY <1>6
  <1> QED BY <1>2, <1>5, <1>7

LEMMA InitIInv == Init => IInv
  <1> SUFFICES ASSUME Init PROVE IInv
    OBVIOUS
  <1>1. Fresh \in TaskRecord /\ Fresh.at = Nobody /\ Fresh.pc = "ask"
    BY DEF Fresh, TaskRecord
  <1>2. TypeOK
    <2>1. held \in [Sessions -> Nat] /\ waiter \in [Sessions -> Tasks \union {Nobody, Abandoned}]
      BY DEF Init
    <2>2. task \in [Tasks -> TaskRecord] /\ faults \in 0..MaxFaults
      BY <1>1, RebuildAssumption DEF Init
    <2> QED BY <2>1, <2>2, InitTables DEF TypeOK
  <1>3. LockInv
    BY <1>1, Waiters DEF Init, LockInv, OneHolder, AtHeld, WaitsForOwn
  <1>4. Rebuilders
    BY <1>1 DEF Init, Rebuilders, Rebuilding
  <1> QED BY <1>2, <1>3, <1>4 DEF IInv

----------------------------------------------------------------------------
(* The lock.                                                               *)

LEMMA AskLockKeeps ==
    ASSUME IInv, NEW r \in Tasks, AskLock(r)
    PROVE  IInv'
  <1>1. PICK s \in Free(r) :
          IF LockFree(s)
          THEN /\ held' = [held EXCEPT ![s] = @ + 1]
               /\ task' = [task EXCEPT ![r].pc = "locked", ![r].at = s]
               /\ UNCHANGED waiter
          ELSE /\ waiter' = [waiter EXCEPT ![s] = r]
               /\ task' = [task EXCEPT ![r].pc = "wait"]
               /\ UNCHANGED held
    BY DEF AskLock
  <1>2. s \in Sessions /\ s \in Pool[r] /\ waiter[s] = Nobody
    BY FreeInPool
  <1>3. TypeOK /\ LockInv /\ Rebuilders /\ UNCHANGED <<movements, owner, attributions, faults>>
    BY DEF AskLock, IInv
  <1>4. CASE LockFree(s)
    <2> DEFINE t == [task[r] EXCEPT !.pc = "locked", !.at = s]
    <2>1. held' = [held EXCEPT ![s] = @ + 1] /\ task' = [task EXCEPT ![r] = t]
          /\ UNCHANGED waiter
      BY <1>1, <1>4, <1>3 DEF TypeOK
    <2>2. task[r] \in TaskRecord
      BY <1>3 DEF TypeOK
    <2>3. t \in TaskRecord /\ t.at = s /\ t.pc = "locked"
      BY <2>2, <1>2 DEF TaskRecord
    <2> HIDE DEF t
    <2>4. task' \in [Tasks -> TaskRecord]
      BY <2>1, <2>3, <1>3, OneRecord
    <2>5. held' \in [Sessions -> Nat]
      BY <2>1, <1>2, <1>3 DEF TypeOK
    <2>6. TypeOK'
      BY <2>1, <2>4, <2>5, <1>3 DEF TypeOK
    <2>7. \A u \in Sessions : held'[u] > 0 <=> u = s
      BY <2>1, <1>2, <1>3, <1>4 DEF TypeOK, LockFree
    <2>8. task'[r] = t /\ \A q \in Tasks : q # r => task'[q] = task[q]
      BY <2>1, <1>3 DEF TypeOK
    <2>9. \A q \in Tasks : task'[q].at # Nobody => task'[q].at \in Pool[q] /\ held'[task'[q].at] > 0
      <3> SUFFICES ASSUME NEW q \in Tasks, task'[q].at # Nobody
                   PROVE  task'[q].at \in Pool[q] /\ held'[task'[q].at] > 0
        OBVIOUS
      <3>1. CASE q = r
        BY <3>1, <2>3, <2>7, <2>8, <1>2
      <3>2. CASE q # r
        <4>1. task'[q].at = task[q].at /\ task[q].at \in Pool[q] /\ held[task[q].at] > 0
          BY <3>2, <2>8, <1>3 DEF LockInv, AtHeld
        <4>2. task[q].at \in Sessions
          BY <4>1, RebuildAssumption
        <4>3. task[q].at = s
          BY <4>1, <4>2, <1>4, <1>3 DEF LockFree, TypeOK
        <4> QED BY <4>1, <4>3, <2>7, <1>2
      <3> QED BY <3>1, <3>2
    <2>10. LockInv'
      BY <2>1, <2>7, <2>9, <1>3 DEF LockInv, OneHolder, AtHeld, WaitsForOwn
    <2>11. Rebuilders'
      BY <2>3, <2>8, <1>3 DEF Rebuilders, Rebuilding
    <2> QED BY <2>6, <2>10, <2>11 DEF IInv
  <1>5. CASE ~LockFree(s)
    <2> DEFINE t == [task[r] EXCEPT !.pc = "wait"]
    <2>1. waiter' = [waiter EXCEPT ![s] = r] /\ task' = [task EXCEPT ![r] = t]
          /\ UNCHANGED held
      BY <1>1, <1>5, <1>3 DEF TypeOK
    <2>2. t \in TaskRecord /\ t.at = task[r].at /\ t.pc = "wait"
      BY <1>3 DEF TypeOK, TaskRecord
    <2> HIDE DEF t
    <2>3. task' \in [Tasks -> TaskRecord]
      BY <2>1, <2>2, <1>3, OneRecord
    <2>4. TypeOK'
      BY <2>1, <2>3, <1>2, <1>3 DEF TypeOK
    <2>5. task'[r] = t /\ \A q \in Tasks : q # r => task'[q] = task[q]
      BY <2>1, <1>3 DEF TypeOK
    <2>6. AtHeld'
      BY <2>1, <2>2, <2>5, <1>3 DEF LockInv, AtHeld
    <2>7. WaitsForOwn'
      BY <2>1, <1>2, <1>3 DEF LockInv, WaitsForOwn, TypeOK
    <2>8. LockInv'
      BY <2>1, <2>6, <2>7, <1>3 DEF LockInv, OneHolder
    <2>9. Rebuilders'
      BY <2>2, <2>5, <1>3 DEF Rebuilders, Rebuilding
    <2> QED BY <2>4, <2>8, <2>9 DEF IInv
  <1> QED BY <1>4, <1>5

LEMMA GrantKeeps ==
    ASSUME IInv, NEW s \in Sessions, Grant(s)
    PROVE  IInv'
  <1>1. /\ waiter[s] # Nobody /\ LockFree(s)
        /\ held' = [held EXCEPT ![s] = @ + 1]
        /\ waiter' = [waiter EXCEPT ![s] = Nobody]
        /\ task' = [r \in Tasks |-> IF waiter[s] = r
                                    THEN [task[r] EXCEPT !.pc = "locked", !.at = s]
                                    ELSE task[r]]
        /\ UNCHANGED <<movements, owner, attributions, faults>>
    BY DEF Grant
  <1>16. waiter[s] # Nobody /\ LockFree(s) /\ held' = [held EXCEPT ![s] = held[s] + 1]
         /\ waiter' = [waiter EXCEPT ![s] = Nobody]
    BY DEF Grant
  <1>2. TypeOK /\ LockInv /\ Rebuilders
    BY DEF IInv
  <1>3. \A q \in Tasks : task[q] \in TaskRecord
    BY <1>2 DEF TypeOK
  <1>4. \A q \in Tasks : /\ [task[q] EXCEPT !.pc = "locked", !.at = s] \in TaskRecord
                         /\ [task[q] EXCEPT !.pc = "locked", !.at = s].at = s
                         /\ [task[q] EXCEPT !.pc = "locked", !.at = s].pc = "locked"
    <2> SUFFICES ASSUME NEW q \in Tasks, NEW t, t = task[q]
                 PROVE  /\ [t EXCEPT !.pc = "locked", !.at = s] \in TaskRecord
                        /\ [t EXCEPT !.pc = "locked", !.at = s].at = s
                        /\ [t EXCEPT !.pc = "locked", !.at = s].pc = "locked"
      OBVIOUS
    <2>1. t \in TaskRecord
      BY <1>3
    <2> QED BY <2>1 DEF TaskRecord
  <1>5. \A q \in Tasks : task'[q] \in TaskRecord
    BY <1>1, <1>3, <1>4
  <1>6. \A q \in Tasks : IF waiter[s] = q THEN task'[q].at = s /\ task'[q].pc = "locked"
                                          ELSE task'[q] = task[q]
    BY <1>1, <1>4
  <1>7. task' \in [Tasks -> TaskRecord]
    BY <1>1, <1>5
  <1>8. held \in [Sessions -> Nat] /\ waiter \in [Sessions -> Tasks \union {Nobody, Abandoned}]
    BY <1>2 DEF TypeOK
  <1>14. held' \in [Sessions -> Nat] /\ waiter' \in [Sessions -> Tasks \union {Nobody, Abandoned}]
    BY <1>16, <1>8
  <1>15. TypeOK'
    BY <1>1, <1>2, <1>7, <1>14 DEF TypeOK
  <1>9. \A u \in Sessions : held'[u] > 0 <=> u = s
    BY <1>16, <1>8 DEF LockFree
  <1>10. \A q \in Tasks : task'[q].at # Nobody => task'[q].at \in Pool[q] /\ held'[task'[q].at] > 0
    <2> SUFFICES ASSUME NEW q \in Tasks, task'[q].at # Nobody
                 PROVE  task'[q].at \in Pool[q] /\ held'[task'[q].at] > 0
      OBVIOUS
    <2>1. CASE waiter[s] = q
      BY <2>1, <1>2, <1>6, <1>9 DEF LockInv, WaitsForOwn
    <2>2. CASE waiter[s] # q
      <3>1. task'[q].at = task[q].at /\ task[q].at \in Pool[q] /\ held[task[q].at] > 0
        BY <2>2, <1>6, <1>2 DEF LockInv, AtHeld
      <3>2. task[q].at \in Sessions
        BY <3>1, RebuildAssumption
      <3>3. task[q].at = s
        BY <3>1, <3>2, <1>16, <1>8 DEF LockFree
      <3> QED BY <3>1, <3>3, <1>9
    <2> QED BY <2>1, <2>2
  <1>11. WaitsForOwn'
    BY <1>1, <1>2, Waiters DEF LockInv, WaitsForOwn, TypeOK
  <1>12. LockInv'
    BY <1>9, <1>10, <1>11 DEF LockInv, OneHolder, AtHeld
  <1>13. Rebuilders'
    BY <1>6, <1>2 DEF Rebuilders, Rebuilding
  <1> QED BY <1>15, <1>12, <1>13 DEF IInv
LEMMA GiveUpKeeps ==
    ASSUME IInv, NEW r \in Tasks, GiveUp(r)
    PROVE  IInv'
  <1>1. PICK s \in Sessions : waiter[s] = r /\ waiter' = [waiter EXCEPT ![s] = Abandoned]
    BY DEF GiveUp
  <1>2. task' = [task EXCEPT ![r] = Over] /\ UNCHANGED <<held, movements, owner, attributions, faults>>
    BY DEF GiveUp
  <1>3. TypeOK /\ LockInv /\ Rebuilders
    BY DEF IInv
  <1>4. task' \in [Tasks -> TaskRecord] /\ \A q \in Tasks : task'[q].at \in {task[q].at, Nobody}
    BY <1>2, <1>3, OverTyped, OneRecord
  <1>5. TypeOK'
    BY <1>1, <1>2, <1>3, <1>4 DEF TypeOK
  <1>6. OneHolder' /\ AtHeld'
    BY <1>2, <1>3, <1>4 DEF LockInv, OneHolder, AtHeld
  <1>7. WaitsForOwn'
    BY <1>1, <1>3, Waiters DEF LockInv, WaitsForOwn, TypeOK
  <1>8. Over.pc = "end"
    BY DEF Over, Fresh
  <1>9. Rebuilders'
    BY <1>2, <1>3, <1>8 DEF TypeOK, Rebuilders, Rebuilding
  <1> QED BY <1>5, <1>6, <1>7, <1>9 DEF IInv, LockInv

\* A run after a change of its session.
LEMMA LapsedTyped ==
    ASSUME TypeOK, NEW q \in Tasks, NEW s, NEW n
    PROVE  /\ Lapsed(q, s, n) \in TaskRecord
           /\ Lapsed(q, s, n).pc = task[q].pc
           /\ Lapsed(q, s, n).at \in {task[q].at, Nobody}
           /\ n = 0 => Lapsed(q, s, n).at # s \/ s = Nobody
  <1>1. \A t \in TaskRecord : /\ [t EXCEPT !.at = Nobody] \in TaskRecord
                              /\ [t EXCEPT !.at = Nobody].at = Nobody
                              /\ [t EXCEPT !.at = Nobody].pc = t.pc
    BY DEF TaskRecord
  <1>2. task[q] \in TaskRecord
    BY DEF TypeOK
  <1> QED BY <1>1, <1>2 DEF Lapsed

\* A session holds the lock less often, or no longer.
LEMMA HeldLess ==
    ASSUME TypeOK, LockInv, NEW s \in Sessions, NEW n \in Nat, n <= held[s],
           held' = [held EXCEPT ![s] = n], UNCHANGED waiter,
           \A q \in Tasks : task'[q].at \in {task[q].at, Nobody},
           n = 0 => \A q \in Tasks : task'[q].at # s \/ s = Nobody
    PROVE  LockInv' /\ held' \in [Sessions -> Nat]
  <1>1. held \in [Sessions -> Nat]
    BY DEF TypeOK
  <1>2. held' \in [Sessions -> Nat]
    BY <1>1
  <1>3. \A u \in Sessions : held'[u] = IF u = s THEN n ELSE held[u]
    BY <1>1
  <1>4. \A u \in Sessions : held'[u] > 0 => held[u] > 0
    BY <1>1, <1>3
  <1>5. OneHolder'
    BY <1>4 DEF LockInv, OneHolder
  <1>6. AtHeld'
    <2> SUFFICES ASSUME NEW q \in Tasks, task'[q].at # Nobody
                 PROVE  task'[q].at \in Pool[q] /\ held'[task'[q].at] > 0
      BY DEF AtHeld
    <2>1. task'[q].at = task[q].at /\ task[q].at \in Pool[q] /\ held[task[q].at] > 0
      BY DEF LockInv, AtHeld
    <2>2. task[q].at \in Sessions
      BY <2>1, RebuildAssumption
    <2>3. CASE task[q].at = s
      BY <2>1, <2>3, <1>3
    <2>4. CASE task[q].at # s
      BY <2>1, <2>2, <2>4, <1>3
    <2> QED BY <2>3, <2>4
  <1>7. WaitsForOwn'
    BY DEF LockInv, WaitsForOwn
  <1> QED BY <1>2, <1>5, <1>6, <1>7 DEF LockInv

LEMMA CloseIdleKeeps ==
    ASSUME IInv, NEW s \in Sessions, CloseIdle(s)
    PROVE  IInv'
  <1>1. /\ held' = [held EXCEPT ![s] = 0]
        /\ task' = [r \in Tasks |-> Lapsed(r, s, 0)]
        /\ UNCHANGED <<waiter, movements, owner, attributions, faults>>
    BY DEF CloseIdle
  <1>2. TypeOK /\ LockInv /\ Rebuilders /\ held[s] \in Nat
    BY DEF IInv, TypeOK
  <1>3. task' \in [Tasks -> TaskRecord]
    BY <1>1, <1>2, LapsedTyped
  <1>4. \A q \in Tasks : task'[q] = Lapsed(q, s, 0)
    BY <1>1
  <1>8. \A q \in Tasks : task'[q].at \in {task[q].at, Nobody}
    BY <1>2, <1>4, LapsedTyped
  <1>9. \A q \in Tasks : task'[q].at # s \/ s = Nobody
    <2> SUFFICES ASSUME NEW q \in Tasks PROVE task'[q].at # s \/ s = Nobody
      OBVIOUS
    <2>1. Lapsed(q, s, 0).at # s \/ s = Nobody
      BY <1>2, LapsedTyped
    <2> QED BY <2>1, <1>4
  <1>10. held' = [held EXCEPT ![s] = 0] /\ UNCHANGED waiter /\ 0 \in Nat /\ 0 <= held[s]
    BY <1>2 DEF CloseIdle
  <1>5. LockInv' /\ held' \in [Sessions -> Nat]
    BY <1>2, <1>8, <1>9, <1>10, HeldLess
  <1>6. TypeOK'
    BY <1>1, <1>2, <1>3, <1>5 DEF TypeOK
  <1>7. Rebuilders'
    BY <1>2, <1>4, LapsedTyped DEF Rebuilders
  <1> QED BY <1>5, <1>6, <1>7 DEF IInv

LEMMA UnlockKeeps ==
    ASSUME IInv, NEW r \in Tasks, Unlock(r)
    PROVE  IInv'
  <1>1. PICK s \in Free(r) :
          LET left == IF held[s] > 0 THEN held[s] - 1 ELSE 0
          IN  /\ held' = [held EXCEPT ![s] = left]
              /\ task' = [q \in Tasks |-> IF q = r THEN Over ELSE Lapsed(q, s, left)]
    BY DEF Unlock
  <1> DEFINE left == IF held[s] > 0 THEN held[s] - 1 ELSE 0
  <1>2. TypeOK /\ LockInv /\ Rebuilders /\ UNCHANGED <<waiter, movements, owner, attributions, faults>>
    BY DEF IInv, Unlock
  <1>3. s \in Sessions /\ held[s] \in Nat
    BY <1>2, FreeInPool DEF TypeOK
  <1>4. left \in Nat /\ left <= held[s]
    BY <1>3
  <1> HIDE DEF left
  <1>5. held' = [held EXCEPT ![s] = left]
        /\ task' = [q \in Tasks |-> IF q = r THEN Over ELSE Lapsed(q, s, left)]
    BY <1>1 DEF left
  <1>6. \A q \in Tasks : task'[q] = IF q = r THEN Over ELSE Lapsed(q, s, left)
    BY <1>5
  <1>7. task' \in [Tasks -> TaskRecord]
    BY <1>2, <1>5, LapsedTyped, OverTyped
  <1>8. \A q \in Tasks : task'[q].at \in {task[q].at, Nobody}
    BY <1>2, <1>6, LapsedTyped, OverTyped
  <1>9. left = 0 => \A q \in Tasks : task'[q].at # s \/ s = Nobody
    <2> SUFFICES ASSUME left = 0, NEW q \in Tasks PROVE task'[q].at # s \/ s = Nobody
      OBVIOUS
    <2>1. CASE q = r
      BY <2>1, <1>6, OverTyped
    <2>2. CASE q # r
      <3>1. Lapsed(q, s, left).at # s \/ s = Nobody
        BY <1>2, LapsedTyped
      <3> QED BY <2>2, <3>1, <1>6
    <2> QED BY <2>1, <2>2
  <1>10. LockInv' /\ held' \in [Sessions -> Nat]
    BY <1>2, <1>3, <1>4, <1>5, <1>8, <1>9, HeldLess
  <1>11. TypeOK'
    BY <1>2, <1>7, <1>10 DEF TypeOK
  <1>12. Over.pc = "end"
    BY DEF Over, Fresh
  <1>13. Rebuilders'
    BY <1>2, <1>6, <1>12, LapsedTyped DEF Rebuilders, Rebuilding
  <1> QED BY <1>10, <1>11, <1>13 DEF IInv

----------------------------------------------------------------------------
(* The tables.                                                             *)

\* A step that leaves the lock alone keeps the invariant if it keeps the
\* types, the place of the lock in the records and who may be rebuilding.
LEMMA StepKeeps ==
    ASSUME IInv, UNCHANGED <<held, waiter>>,
           task' \in [Tasks -> TaskRecord],
           \A q \in Tasks : task'[q].at \in {task[q].at, Nobody},
           \A q \in Tasks : task'[q].pc \in Rebuilding => q \in Rebuilds,
           movements' \subseteq Movement,
           owner' \in [Observations -> movements' \union {None}],
           attributions' \subseteq [tag : Tags, of : movements'],
           faults' \in 0..MaxFaults
    PROVE  IInv'
  <1>1. LockInv'
    BY SameLock DEF IInv
  <1>2. TypeOK'
    BY DEF IInv, TypeOK
  <1>3. Rebuilders'
    BY DEF Rebuilders
  <1> QED BY <1>1, <1>2, <1>3 DEF IInv

\* The same where the tables do not change and only r goes on.
LEMMA OneGoesOn ==
    ASSUME IInv, NEW r \in Tasks, NEW t \in TaskRecord, t.at \in {task[r].at, Nobody},
           t.pc \in Rebuilding => r \in Rebuilds,
           task' = [task EXCEPT ![r] = t],
           UNCHANGED <<held, waiter, movements, owner, attributions>>,
           faults' \in 0..MaxFaults
    PROVE  IInv'
  <1>1. TypeOK /\ Rebuilders
    BY DEF IInv
  <1>2. task' \in [Tasks -> TaskRecord] /\ \A q \in Tasks : task'[q].at \in {task[q].at, Nobody}
    BY <1>1, OneRecord
  <1>3. \A q \in Tasks : task'[q].pc \in Rebuilding => q \in Rebuilds
    BY <1>1 DEF TypeOK, Rebuilders
  <1>4. /\ movements' \subseteq Movement
        /\ owner' \in [Observations -> movements' \union {None}]
        /\ attributions' \subseteq [tag : Tags, of : movements']
    BY <1>1 DEF TypeOK
  <1> QED BY <1>2, <1>3, <1>4, StepKeeps

\* The same where r writes to the tables.
LEMMA OneWrites ==
    ASSUME IInv, NEW r \in Tasks, NEW t \in TaskRecord, t.at = task[r].at,
           t.pc \in Rebuilding => r \in Rebuilds,
           task' = Disturb(r, t),
           UNCHANGED <<held, waiter>>,
           movements' \subseteq Movement,
           owner' \in [Observations -> movements' \union {None}],
           attributions' \subseteq [tag : Tags, of : movements'],
           faults' \in 0..MaxFaults
    PROVE  IInv'
  <1>1. TypeOK /\ Rebuilders
    BY DEF IInv
  <1>2. task' \in [Tasks -> TaskRecord] /\ \A q \in Tasks : task'[q].at \in {task[q].at, Nobody}
    BY <1>1, DisturbTyped
  <1>3. \A u \in TaskRecord : [u EXCEPT !.alone = FALSE].pc = u.pc
    BY DEF TaskRecord
  <1>4. \A q \in Tasks : task'[q].pc \in Rebuilding => q \in Rebuilds
    BY <1>1, <1>3 DEF TypeOK, Rebuilders, Disturb
  <1> QED BY <1>2, <1>4, StepKeeps

LEMMA EndKeeps ==
    ASSUME IInv, NEW r \in Tasks, task' = [task EXCEPT ![r] = Over],
           UNCHANGED <<held, waiter, movements, owner, attributions>>,
           faults' \in 0..MaxFaults
    PROVE  IInv'
  <1>1. Over.pc \notin Rebuilding
    BY DEF Over, Fresh, Rebuilding
  <1> QED BY <1>1, OverTyped, OneGoesOn
LEMMA ExtractKeeps ==
    ASSUME IInv, NEW r \in Tasks, Extract(r)
    PROVE  IInv'
  <1>1. PICK obs \in Found[r] :
          \/ /\ obs = {}
             /\ task' = [task EXCEPT ![r] = Over]
          \/ /\ obs # {}
             /\ \E groups \in Groupings(obs) : \E dups \in SUBSET groups :
                  /\ dups # groups
                  /\ task' = [task EXCEPT ![r].pc = "save", ![r].alone = TRUE,
                                          ![r].keep = groups \ dups, ![r].dups = dups]
    BY DEF Extract
  <1>2. r \in Rebuilds /\ UNCHANGED <<held, waiter, movements, owner, attributions, faults>>
    BY DEF Extract
  <1>3. faults' \in 0..MaxFaults /\ task[r] \in TaskRecord /\ task \in [Tasks -> TaskRecord]
    BY <1>2 DEF IInv, TypeOK
  <1>4. CASE obs = {} /\ task' = [task EXCEPT ![r] = Over]
    BY <1>2, <1>3, <1>4, EndKeeps
  <1>5. CASE obs # {}
    <2>6. PICK groups \in Groupings(obs) : \E dups \in SUBSET groups :
            task' = [task EXCEPT ![r].pc = "save", ![r].alone = TRUE,
                                 ![r].keep = groups \ dups, ![r].dups = dups]
      BY <1>1, <1>5
    <2>1. PICK dups \in SUBSET groups :
            task' = [task EXCEPT ![r].pc = "save", ![r].alone = TRUE,
                                 ![r].keep = groups \ dups, ![r].dups = dups]
      BY <2>6
    <2>2. obs \subseteq Observations
      BY <1>2, RebuildAssumption
    <2>3. groups \in SUBSET SUBSET Observations
      BY <2>2 DEF Groupings
    <2> DEFINE t == [task[r] EXCEPT !.pc = "save", !.alone = TRUE,
                                    !.keep = groups \ dups, !.dups = dups]
    <2>4. t \in TaskRecord /\ t.at = task[r].at
      BY <1>3, <2>3 DEF TaskRecord
    <2>5. task' = [task EXCEPT ![r] = t]
      BY <2>1, <1>3
    <2>7. UNCHANGED <<held, waiter, movements, owner, attributions>> /\ faults' \in 0..MaxFaults
      BY <1>2, <1>3
    <2> HIDE DEF t
    <2> QED BY <1>2, <2>4, <2>5, <2>7, OneGoesOn
  <1> QED BY <1>1, <1>4, <1>5

LEMMA SaveKeeps ==
    ASSUME IInv, NEW r \in Tasks, Save(r)
    PROVE  IInv'
  <1>1. TypeOK /\ Rebuilders /\ task[r] \in TaskRecord /\ task \in [Tasks -> TaskRecord]
    BY DEF IInv, TypeOK
  <1>2. UNCHANGED <<held, waiter, movements, owner, attributions>> /\ r \in Rebuilds
    BY <1>1 DEF Save, Statement, Rebuilders, Rebuilding
  <1>3. ASSUME NEW key \in [movements -> Observations \union {Nobody}],
               task' = [task EXCEPT
                          ![r].pc = "delete",
                          ![r].had = {a \in attributions : key[a.of] # Nobody},
                          ![r].saved = {[tag |-> a.tag, key |-> key[a.of]] :
                                          a \in {b \in attributions : key[b.of] # Nobody}}],
               UNCHANGED faults
        PROVE  IInv'
    <2> DEFINE kept == {[tag |-> a.tag, key |-> key[a.of]] :
                          a \in {b \in attributions : key[b.of] # Nobody}}
               found == {a \in attributions : key[a.of] # Nobody}
               t == [task[r] EXCEPT !.pc = "delete", !.had = found, !.saved = kept]
    <2>1. attributions \in SUBSET Attribution
      BY <1>1 DEF TypeOK, Attribution
    <2>2. \A a \in attributions : a.tag \in Tags /\ a.of \in movements
      BY <1>1 DEF TypeOK
    <2>3. \A a \in attributions : key[a.of] # Nobody => key[a.of] \in Observations
      BY <2>2, <1>3
    <2>4. kept \in SUBSET [tag : Tags, key : Observations]
      BY <2>2, <2>3
    <2>5. task' = [task EXCEPT ![r] = t]
      BY <1>3, <1>1
    <2>8. found \in SUBSET Attribution
      BY <2>1
    <2> HIDE DEF kept, found
    <2>6. t \in TaskRecord /\ t.at = task[r].at
      BY <1>1, <2>8, <2>4 DEF TaskRecord
    <2>7. faults' \in 0..MaxFaults
      BY <1>1, <1>3 DEF TypeOK
    <2> QED BY <1>2, <2>5, <2>6, <2>7, OneGoesOn
  <1>4. ASSUME faults < MaxFaults, faults' = faults + 1,
               task' = [task EXCEPT ![r].pc = "delete", ![r].alone = FALSE]
        PROVE  IInv'
    <2> DEFINE t == [task[r] EXCEPT !.pc = "delete", !.alone = FALSE]
    <2>1. task' = [task EXCEPT ![r] = t] /\ t \in TaskRecord /\ t.at = task[r].at
      BY <1>1, <1>4 DEF TaskRecord
    <2>2. faults' \in 0..MaxFaults
      BY <1>1, <1>4, RebuildAssumption DEF TypeOK
    <2> QED BY <1>2, <2>1, <2>2, OneGoesOn
  <1> QED BY <1>3, <1>4 DEF Save

LEMMA DeleteKeeps ==
    ASSUME IInv, NEW r \in Tasks, Delete(r)
    PROVE  IInv'
  <1> DEFINE t == [task[r] EXCEPT !.pc = "movements"]
  <1>1. TypeOK /\ Rebuilders /\ task[r] \in TaskRecord
    BY DEF IInv, TypeOK
  <1>2. t \in TaskRecord /\ t.at = task[r].at
    BY <1>1, PcTyped DEF Steps
  <1>3. task' = Disturb(r, t) /\ UNCHANGED <<held, waiter, faults>>
    BY DEF Delete
  <1>4. r \in Rebuilds
    BY <1>1 DEF Delete, Statement, Rebuilders, Rebuilding
  <1>5. /\ movements' \subseteq Movement
        /\ owner' \in [Observations -> movements' \union {None}]
        /\ attributions' \subseteq [tag : Tags, of : movements']
    BY DEF Delete
  <1>6. faults' \in 0..MaxFaults
    BY <1>1, <1>3 DEF TypeOK
  <1> HIDE DEF t
  <1> QED BY <1>2, <1>3, <1>4, <1>5, <1>6, OneWrites

LEMMA InsertMovementsKeeps ==
    ASSUME IInv, NEW r \in Tasks, InsertMovements(r)
    PROVE  IInv'
  <1> DEFINE t == [task[r] EXCEPT !.pc = "observations"]
  <1>1. TypeOK /\ Rebuilders /\ task[r] \in TaskRecord
    BY DEF IInv, TypeOK
  <1>2. t \in TaskRecord /\ t.at = task[r].at
    BY <1>1, PcTyped DEF Steps
  <1>3. /\ task' = Disturb(r, t) /\ UNCHANGED <<held, waiter, owner, attributions, faults>>
        /\ movements' = movements \union Made(r, task[r].keep, FALSE)
    BY DEF InsertMovements
  <1>4. r \in Rebuilds
    BY <1>1 DEF InsertMovements, Statement, Rebuilders, Rebuilding
  <1>5. Made(r, task[r].keep, FALSE) \in SUBSET Movement
    BY <1>1, <1>4, MadeTyped DEF TaskRecord
  <1>6. /\ movements' \subseteq Movement
        /\ owner' \in [Observations -> movements' \union {None}]
        /\ attributions' \subseteq [tag : Tags, of : movements']
    BY <1>1, <1>3, <1>5, MoreMovements
  <1>7. faults' \in 0..MaxFaults
    BY <1>1, <1>3 DEF TypeOK
  <1> HIDE DEF t
  <1> QED BY <1>2, <1>3, <1>4, <1>6, <1>7, OneWrites

LEMMA InsertObservationsKeeps ==
    ASSUME IInv, NEW r \in Tasks, InsertObservations(r)
    PROVE  IInv'
  <1> DEFINE t == [task[r] EXCEPT !.pc = "duplicates"]
             new == Made(r, task[r].keep, FALSE)
  <1>1. TypeOK /\ Rebuilders /\ task[r] \in TaskRecord
    BY DEF IInv, TypeOK
  <1>2. UNCHANGED <<held, waiter, attributions, faults>> /\ faults' \in 0..MaxFaults
    BY <1>1 DEF InsertObservations, TypeOK
  <1>3. r \in Rebuilds
    BY <1>1 DEF InsertObservations, Statement, Rebuilders, Rebuilding
  <1>4. CASE ~(new \subseteq movements)
    <2>1. task' = [task EXCEPT ![r] = Over] /\ UNCHANGED <<movements, owner>>
      BY <1>4 DEF InsertObservations, Refers
    <2> QED BY <1>2, <2>1, EndKeeps
  <1>5. CASE new \subseteq movements
    <2>1. MoveObservations(r)
      BY <1>5 DEF InsertObservations, Refers
    <2>2. /\ owner' = [o \in Observations |-> IF \E m \in new : o \in m.made
                                              THEN CHOOSE m \in new : o \in m.made
                                              ELSE owner[o]]
          /\ task' = Disturb(r, t) /\ UNCHANGED movements
      BY <2>1 DEF MoveObservations
    <2>3. t \in TaskRecord /\ t.at = task[r].at
      BY <1>1, PcTyped DEF Steps
    <2> HIDE DEF t, new
    <2>4. \A o \in Observations : (\E m \in new : o \in m.made)
                                  => (CHOOSE m \in new : o \in m.made) \in new
      OBVIOUS
    <2>5. \A o \in Observations : owner[o] \in movements \union {None}
      BY <1>1 DEF TypeOK
    <2>6. owner' \in [Observations -> movements \union {None}]
      BY <2>2, <2>4, <2>5, <1>5
    <2>7. /\ movements' \subseteq Movement
          /\ owner' \in [Observations -> movements' \union {None}]
          /\ attributions' \subseteq [tag : Tags, of : movements']
      BY <1>1, <1>2, <2>2, <2>6 DEF TypeOK
    <2> QED BY <1>2, <1>3, <2>2, <2>3, <2>7, OneWrites
  <1> QED BY <1>4, <1>5

LEMMA InsertDuplicatesKeeps ==
    ASSUME IInv, NEW r \in Tasks, InsertDuplicates(r)
    PROVE  IInv'
  <1>1. TypeOK /\ Rebuilders /\ task[r] \in TaskRecord /\ task \in [Tasks -> TaskRecord]
    BY DEF IInv, TypeOK
  <1>2. UNCHANGED <<held, waiter, attributions, faults>> /\ faults' \in 0..MaxFaults
    BY <1>1 DEF InsertDuplicates, TypeOK
  <1>3. r \in Rebuilds
    BY <1>1 DEF InsertDuplicates, Statement, Rebuilders, Rebuilding
  <1>4. CASE task[r].dups = {} /\ ~Refers(r, StoreDuplicates(r))
    <2> DEFINE t == [task[r] EXCEPT !.pc = "restore", !.keep = {}]
    <2>1. task' = [task EXCEPT ![r].pc = "restore", ![r].keep = {}] /\ UNCHANGED <<movements, owner>>
      BY <1>4 DEF InsertDuplicates
    <2>2. task' = [task EXCEPT ![r] = t]
      BY <2>1, <1>1
    <2>3. t \in TaskRecord /\ t.at = task[r].at
      BY <1>1 DEF TaskRecord
    <2> QED BY <1>2, <1>3, <2>1, <2>2, <2>3, OneGoesOn
  <1>5. CASE Refers(r, StoreDuplicates(r)) /\ ~(Made(r, task[r].keep, FALSE) \subseteq movements)
    <2>1. task' = [task EXCEPT ![r] = Over] /\ UNCHANGED <<movements, owner>>
      BY <1>5 DEF Refers
    <2> QED BY <1>2, <2>1, EndKeeps
  <1>6. CASE Refers(r, StoreDuplicates(r)) /\ Made(r, task[r].keep, FALSE) \subseteq movements
    <2> DEFINE t == [task[r] EXCEPT !.pc = "restore", !.keep = {}, !.dups = {}]
    <2>1. StoreDuplicates(r)
      BY <1>6 DEF Refers
    <2>2. PICK stored \in SUBSET task[r].dups : movements' = movements \union Made(r, stored, TRUE)
      BY <2>1 DEF StoreDuplicates
    <2>3. task' = Disturb(r, t) /\ UNCHANGED owner
      BY <2>1 DEF StoreDuplicates
    <2>4. t \in TaskRecord /\ t.at = task[r].at
      BY <1>1 DEF TaskRecord
    <2>5. task[r].dups \in SUBSET SUBSET Observations
      BY <1>1 DEF TaskRecord
    <2>6. Made(r, stored, TRUE) \in SUBSET Movement
      BY <1>3, <2>5, MadeTyped
    <2>7. /\ movements' \subseteq Movement
          /\ owner' \in [Observations -> movements' \union {None}]
          /\ attributions' \subseteq [tag : Tags, of : movements']
      BY <1>1, <1>2, <2>2, <2>3, <2>6, MoreMovements
    <2> HIDE DEF t
    <2> QED BY <1>2, <1>3, <2>3, <2>4, <2>7, OneWrites
  <1> QED BY <1>4, <1>5, <1>6 DEF InsertDuplicates
LEMMA RestoreKeeps ==
    ASSUME IInv, NEW r \in Tasks, Restore(r)
    PROVE  IInv'
  <1> DEFINE back == {[tag |-> a.tag, of |-> owner[a.key]] :
                        a \in {b \in task[r].saved : owner[b.key] # None}}
             t == [task[r] EXCEPT !.pc = "unlock", !.saved = {}]
             u == [task[r] EXCEPT !.pc = "unlock", !.saved = {}, !.alone = FALSE]
  <1>1. TypeOK /\ task[r] \in TaskRecord
    BY DEF IInv, TypeOK
  <1>2. UNCHANGED <<held, waiter, movements, owner>>
    BY DEF Restore
  <1>3. \/ /\ attributions' = attributions \union back
           /\ task' = Disturb(r, t)
           /\ UNCHANGED faults
        \/ /\ faults < MaxFaults /\ faults' = faults + 1
           /\ \E some \in SUBSET back : attributions' = attributions \union some
           /\ task' = Disturb(r, u)
    BY DEF Restore
  <1>4. \A a \in task[r].saved : a.tag \in Tags /\ a.key \in Observations
    BY <1>1 DEF TaskRecord
  <1>5. \A a \in task[r].saved : owner[a.key] \in movements \union {None}
    BY <1>1, <1>4 DEF TypeOK
  <1>6. back \in SUBSET [tag : Tags, of : movements]
    BY <1>4, <1>5
  <1>7. attributions \in SUBSET [tag : Tags, of : movements]
    BY <1>1 DEF TypeOK
  <1>8. t \in TaskRecord /\ t.at = task[r].at /\ t.pc \notin Rebuilding
    BY <1>1 DEF TaskRecord, Rebuilding
  <1>9. u \in TaskRecord /\ u.at = task[r].at /\ u.pc \notin Rebuilding
    BY <1>1 DEF TaskRecord, Rebuilding
  <1> HIDE DEF back, t, u
  <1>10. attributions' \in SUBSET [tag : Tags, of : movements]
    BY <1>3, <1>6, <1>7
  <1>11. /\ movements' \subseteq Movement
         /\ owner' \in [Observations -> movements' \union {None}]
         /\ attributions' \subseteq [tag : Tags, of : movements']
    BY <1>1, <1>2, <1>10 DEF TypeOK
  <1>12. faults' \in 0..MaxFaults
    BY <1>1, <1>3, RebuildAssumption DEF TypeOK
  <1>13. CASE task' = Disturb(r, t)
    BY <1>2, <1>8, <1>11, <1>12, <1>13, OneWrites
  <1>14. CASE task' = Disturb(r, u)
    BY <1>2, <1>9, <1>11, <1>12, <1>14, OneWrites
  <1> QED BY <1>3, <1>13, <1>14

LEMMA RefreshKeeps ==
    ASSUME IInv, NEW r \in Tasks, Refresh(r)
    PROVE  IInv'
  <1> DEFINE t == [task[r] EXCEPT !.pc = "unlock"]
  <1>1. TypeOK /\ task[r] \in TaskRecord /\ task \in [Tasks -> TaskRecord]
    BY DEF IInv, TypeOK
  <1>2. t \in TaskRecord /\ t.at = task[r].at /\ t.pc \notin Rebuilding
    BY <1>1 DEF TaskRecord, Rebuilding
  <1>3. task' = [task EXCEPT ![r] = t]
    BY <1>1 DEF Refresh
  <1>4. UNCHANGED <<held, waiter, movements, owner, attributions, faults>> /\ faults' \in 0..MaxFaults
    BY <1>1 DEF Refresh, TypeOK
  <1> HIDE DEF t
  <1> QED BY <1>2, <1>3, <1>4, OneGoesOn

LEMMA ThrowsKeeps ==
    ASSUME IInv, NEW r \in Tasks, Throws(r)
    PROVE  IInv'
  <1>1. faults' \in 0..MaxFaults
    BY RebuildAssumption DEF Throws, IInv, TypeOK
  <1> QED BY <1>1, EndKeeps DEF Throws

----------------------------------------------------------------------------
(* The theorems.                                                           *)

LEMMA NextKeeps == IInv /\ [Next]_vars => IInv'
  <1> SUFFICES ASSUME IInv, [Next]_vars PROVE IInv'
    OBVIOUS
  <1>1. ASSUME NEW r \in Tasks, Step(r) PROVE IInv'
    <2>1. ASSUME Rebuild(r) PROVE IInv'
      BY <2>1, ExtractKeeps, SaveKeeps, DeleteKeeps, InsertMovementsKeeps,
         InsertObservationsKeeps, InsertDuplicatesKeeps, RestoreKeeps DEF Rebuild
    <2> QED BY <1>1, <2>1, AskLockKeeps, RefreshKeeps, UnlockKeeps DEF Step
  <1>2. ASSUME NEW r \in Tasks, GiveUp(r) PROVE IInv'
    BY <1>2, GiveUpKeeps
  <1>3. ASSUME NEW r \in Tasks, Throws(r) PROVE IInv'
    BY <1>3, ThrowsKeeps
  <1>4. ASSUME NEW s \in Sessions, Grant(s) PROVE IInv'
    BY <1>4, GrantKeeps
  <1>5. ASSUME NEW s \in Sessions, CloseIdle(s) PROVE IInv'
    BY <1>5, CloseIdleKeeps
  <1>6. CASE UNCHANGED vars
    BY <1>6 DEF vars, IInv, TypeOK, LockInv, OneHolder, AtHeld, WaitsForOwn, Rebuilders
  <1> QED BY <1>1, <1>2, <1>3, <1>4, <1>5, <1>6 DEF Next

\* Every reachable state satisfies the inductive invariant.
THEOREM RebuildInvariant == Spec => []IInv
  <1>1. Init => IInv
    BY InitIInv
  <1>2. IInv /\ [Next]_vars => IInv'
    BY NextKeeps
  <1> QED BY <1>1, <1>2, PTL DEF Spec

\* The foreign keys of the tables hold through all interleavings of rebuilds:
\* no observation and no attribution refers to a movement that is gone.
THEOREM RebuildTypeOK == Spec => []TypeOK
  <1>1. IInv => TypeOK
    BY DEF IInv
  <1> QED BY <1>1, RebuildInvariant, PTL

\* Two runs of classifyMovements or refreshMovementEntityIds in different
\* processes are inside together only if one of them has lost its lock.
THEOREM LockAlwaysExcludes == Spec => []LockExcludesProcesses
  <1>1. IInv => LockExcludesProcesses
    <2> SUFFICES ASSUME IInv, NEW r \in Tasks, NEW q \in Tasks,
                        Pool[r] \intersect Pool[q] = {},
                        task[r].at # Nobody, task[q].at # Nobody
                 PROVE  FALSE
      BY DEF LockExcludesProcesses
    <2>1. /\ task[r].at \in Pool[r] /\ held[task[r].at] > 0
          /\ task[q].at \in Pool[q] /\ held[task[q].at] > 0
      BY DEF IInv, LockInv, AtHeld
    <2>2. task[r].at \in Sessions /\ task[q].at \in Sessions
      BY <2>1, RebuildAssumption
    <2>3. task[r].at = task[q].at
      BY <2>1, <2>2 DEF IInv, LockInv, OneHolder
    <2> QED BY <2>1, <2>3
  <1> QED BY <1>1, RebuildInvariant, PTL

----------------------------------------------------------------------------
(* Attributions survive a rebuild that nothing disturbs: until it restores *)
(* them, each one that it found has a copy under an observation of its     *)
(* movement, and an observation only ever goes to a movement made of it.   *)

OwnerMade == \A o \in Observations : owner[o] # None => o \in owner[o].made

Copying == {"delete", "movements", "observations", "duplicates", "restore"}

Copied(t) == \A a \in t.had : \E k \in a.of.made : [tag |-> a.tag, key |-> k] \in t.saved

Kept(t, own, rows) ==
    \A a \in t.had : (\A o \in a.of.made : own[o] # None)
        => \E b \in rows : b.tag = a.tag /\ b.of.made \intersect a.of.made # {}

Survives(t, own, rows) ==
    t.alone => (t.pc \in Copying => Copied(t)) /\ (t.pc = "unlock" => Kept(t, own, rows))

KeepInv == OwnerMade /\ \A r \in Rebuilds : Survives(task[r], owner, attributions)

LEMMA InitKeepInv ==
    ASSUME Init
    PROVE  KeepInv
  <1>1. PICK groups \in Groupings(Observations) :
          /\ movements = {[by |-> "earlier", made |-> g, dup |-> FALSE] : g \in groups}
          /\ owner = [o \in Observations |-> CHOOSE m \in movements : o \in m.made]
    BY DEF Init
  <1>2. ASSUME NEW o \in Observations PROVE o \in owner[o].made
    <2>1. PICK g \in groups : o \in g
      BY <1>1 DEF Groupings
    <2> DEFINE m == [by |-> "earlier", made |-> g, dup |-> FALSE]
    <2>3. m \in movements /\ o \in m.made
      BY <1>1, <2>1
    <2> HIDE DEF m
    <2>2. \E n \in movements : o \in n.made
      BY <2>3
    <2> QED BY <1>1, <2>2
  <1>3. \A r \in Rebuilds : Survives(task[r], owner, attributions)
    BY DEF Init, Tasks, Fresh, Survives
  <1> QED BY <1>2, <1>3 DEF KeepInv, OwnerMade

\* A step that leaves the tables alone, and what matters of the record of each
\* rebuild, unless the rebuild is no more alone, or neither copies nor unlocks.
LEMMA TablesStay ==
    ASSUME KeepInv, UNCHANGED <<owner, attributions>>,
           \A q \in Rebuilds :
             \/ Survives(task'[q], owner', attributions')
             \/ ~task'[q].alone
             \/ task'[q].pc \notin Copying \union {"unlock"}
             \/ /\ task'[q].alone = task[q].alone /\ task'[q].pc = task[q].pc
                /\ task'[q].had = task[q].had /\ task'[q].saved = task[q].saved
    PROVE  KeepInv'
  BY DEF KeepInv, OwnerMade, Survives, Copied, Kept

\* A step of a rebuild r that disturbs the others.
LEMMA OthersDisturbed ==
    ASSUME TypeOK, NEW r \in Tasks, NEW t, task' = Disturb(r, t), OwnerMade',
           Survives(t, owner', attributions')
    PROVE  KeepInv'
  <1>1. ASSUME NEW q \in Rebuilds PROVE Survives(task'[q], owner', attributions')
    <2>1. q \in Tasks
      BY DEF Tasks
    <2>2. CASE q = r
      BY <2>1, <2>2 DEF Disturb, Survives, Copied, Kept
    <2>3. CASE q # r
      <3>1. task'[q] = [task[q] EXCEPT !.alone = FALSE] /\ task[q] \in TaskRecord
        BY <2>1, <2>3 DEF Disturb, TypeOK
      <3>2. ~task'[q].alone
        BY <3>1 DEF TaskRecord
      <3> QED BY <3>2 DEF Survives
    <2> QED BY <2>2, <2>3
  <1> QED BY <1>1 DEF KeepInv

LEMMA OverNotAlone == ~Over.alone
  BY DEF Over, Fresh

\* The steps that leave the tables alone.
LEMMA TaskOnlyKeeps ==
    ASSUME TypeOK, KeepInv, NEW r \in Tasks, UNCHANGED <<owner, attributions>>,
           NEW t, task' = [task EXCEPT ![r] = t],
           r \in Refreshes \/ Survives(t, owner', attributions')
    PROVE  KeepInv'
  <1>1. \A q \in Rebuilds : q \in Tasks /\ (q # r => task'[q] = task[q])
    BY DEF Tasks, TypeOK
  <1>2. task'[r] = t
    BY DEF TypeOK
  <1>3. ASSUME NEW q \in Rebuilds PROVE Survives(task'[q], owner', attributions')
    <2>1. CASE q # r
      <3>1. Survives(task[q], owner, attributions)
        BY DEF KeepInv
      <3>2. task'[q] = task[q] /\ owner' = owner /\ attributions' = attributions
        BY <1>1, <2>1
      <3> QED  BY <3>1, <3>2
    <2>2. CASE q = r
      <3>1. Survives(t, owner', attributions')
        BY <2>2, RebuildAssumption
      <3> QED BY <3>1, <2>2, <1>2 DEF Survives, Copied, Kept
    <2> QED BY <2>1, <2>2
  <1> QED BY <1>3 DEF KeepInv, OwnerMade

LEMMA LockStepsKeepCopies ==
    ASSUME IInv, KeepInv,
           \/ \E r \in Tasks : AskLock(r) \/ Refresh(r) \/ Unlock(r) \/ GiveUp(r) \/ Throws(r)
           \/ \E s \in Sessions : Grant(s) \/ CloseIdle(s)
    PROVE  KeepInv'
  <1>0. TypeOK /\ task \in [Tasks -> TaskRecord]
    BY DEF IInv, TypeOK
  <1>1. ASSUME NEW r \in Tasks, AskLock(r) PROVE KeepInv'
    <2>1. PICK s \in Sessions :
            \/ task' = [task EXCEPT ![r].pc = "locked", ![r].at = s]
            \/ task' = [task EXCEPT ![r].pc = "wait"]
      BY <1>1, FreeInPool DEF AskLock
    <2>2. \A q \in Tasks : task'[q] = task[q] \/ task'[q].pc \in {"locked", "wait"}
      BY <2>1, <1>0 DEF TaskRecord
    <2>3. \A q \in Rebuilds : task'[q] = task[q] \/ task'[q].pc \notin Copying \union {"unlock"}
      BY <2>2 DEF Tasks, Copying
    <2> QED BY <2>3, <1>1, TablesStay DEF AskLock
  <1>2. ASSUME NEW r \in Tasks, Refresh(r) PROVE KeepInv'
    <2>1. \A q \in Tasks : q # r => task'[q] = task[q]
      BY <1>2, <1>0 DEF Refresh
    <2>2. \A q \in Rebuilds : task'[q] = task[q]
      BY <2>1, <1>2, RebuildAssumption DEF Refresh, Tasks
    <2> QED BY <2>2, <1>2, TablesStay DEF Refresh
  <1>3. ASSUME NEW r \in Tasks, Unlock(r) PROVE KeepInv'
    <2>1. PICK s \in Sessions, left \in Nat :
            task' = [q \in Tasks |-> IF q = r THEN Over ELSE Lapsed(q, s, left)]
      <3>1. PICK s \in Free(r) :
              LET left == IF held[s] > 0 THEN held[s] - 1 ELSE 0
              IN  task' = [q \in Tasks |-> IF q = r THEN Over ELSE Lapsed(q, s, left)]
        BY <1>3 DEF Unlock
      <3>2. s \in Sessions /\ held[s] \in Nat
        BY FreeInPool, <1>0 DEF TypeOK
      <3> DEFINE left == IF held[s] > 0 THEN held[s] - 1 ELSE 0
      <3>3. left \in Nat
        BY <3>2
      <3> QED BY <3>1, <3>2, <3>3
    <2>2. ASSUME NEW q \in Rebuilds
          PROVE  \/ ~task'[q].alone
                 \/ /\ task'[q].alone = task[q].alone /\ task'[q].pc = task[q].pc
                    /\ task'[q].had = task[q].had /\ task'[q].saved = task[q].saved
      <3>1. q \in Tasks /\ task[q] \in TaskRecord
        BY <1>0 DEF Tasks
      <3>2. task'[q] = Over \/ task'[q] = Lapsed(q, s, left)
        BY <2>1, <3>1
      <3> QED BY <3>1, <3>2, OverNotAlone DEF Lapsed, TaskRecord
    <2> QED BY <2>2, <1>3, TablesStay DEF Unlock
  <1>4. ASSUME NEW r \in Tasks, GiveUp(r) \/ Throws(r) PROVE KeepInv'
    <2>1. task' = [task EXCEPT ![r] = Over] /\ UNCHANGED <<owner, attributions>>
      BY <1>4 DEF GiveUp, Throws
    <2>2. Survives(Over, owner', attributions')
      BY OverNotAlone DEF Survives
    <2> QED BY <2>1, <2>2, <1>0, TaskOnlyKeeps
  <1>5. ASSUME NEW s \in Sessions, Grant(s) PROVE KeepInv'
    <2>1. \A q \in Tasks : task'[q] \in {task[q], [task[q] EXCEPT !.pc = "locked", !.at = s]}
      BY <1>5 DEF Grant
    <2>2. \A q \in Tasks : task'[q] = task[q] \/ task'[q].pc = "locked"
      BY <2>1, <1>0 DEF TaskRecord
    <2>3. \A q \in Rebuilds : task'[q] = task[q] \/ task'[q].pc \notin Copying \union {"unlock"}
      BY <2>2 DEF Tasks, Copying
    <2> QED BY <2>3, <1>5, TablesStay DEF Grant
  <1>6. ASSUME NEW s \in Sessions, CloseIdle(s) PROVE KeepInv'
    <2>1. ASSUME NEW q \in Rebuilds
          PROVE  /\ task'[q].alone = task[q].alone /\ task'[q].pc = task[q].pc
                 /\ task'[q].had = task[q].had /\ task'[q].saved = task[q].saved
      <3>1. q \in Tasks /\ task[q] \in TaskRecord
        BY <1>0 DEF Tasks
      <3>2. task'[q] = Lapsed(q, s, 0)
        BY <1>6, <3>1 DEF CloseIdle
      <3> QED BY <3>1, <3>2 DEF Lapsed, TaskRecord
    <2> QED BY <2>1, <1>6, TablesStay DEF CloseIdle
  <1> QED BY <1>1, <1>2, <1>3, <1>4, <1>5, <1>6

LEMMA ExtractKeepsCopies ==
    ASSUME IInv, KeepInv, NEW r \in Tasks, Extract(r)
    PROVE  KeepInv'
  <1>1. UNCHANGED <<owner, attributions>> /\ task \in [Tasks -> TaskRecord]
    BY DEF Extract, IInv, TypeOK
  <1>2. \E keep, dups :
          \/ task' = [task EXCEPT ![r] = Over]
          \/ task' = [task EXCEPT ![r].pc = "save", ![r].alone = TRUE,
                                  ![r].keep = keep, ![r].dups = dups]
    BY DEF Extract
  <1>3. \A q \in Tasks : task'[q] = task[q] \/ task'[q] = Over \/ task'[q].pc = "save"
    BY <1>1, <1>2 DEF TaskRecord
  <1>4. \A q \in Rebuilds : \/ task'[q] = task[q] \/ ~task'[q].alone
                            \/ task'[q].pc \notin Copying \union {"unlock"}
    BY <1>3, OverNotAlone DEF Tasks, Copying
  <1> QED BY <1>1, <1>4, TablesStay

\* Saving copies each attribution that it finds under an observation that its
\* movement has.
LEMMA SaveCopies ==
    ASSUME IInv, KeepInv, NEW r \in Tasks, Save(r)
    PROVE  KeepInv'
  <1>1. UNCHANGED <<owner, attributions>> /\ TypeOK /\ task[r] \in TaskRecord
        /\ task \in [Tasks -> TaskRecord]
    BY DEF Save, IInv, TypeOK
  <1>2. ASSUME NEW key \in [movements -> Observations \union {Nobody}],
               \A m \in movements :
                 IF \E o \in Observations : owner[o] = m
                 THEN key[m] # Nobody /\ owner[key[m]] = m
                 ELSE key[m] = Nobody,
               task' = [task EXCEPT
                          ![r].pc = "delete",
                          ![r].had = {a \in attributions : key[a.of] # Nobody},
                          ![r].saved = {[tag |-> a.tag, key |-> key[a.of]] :
                                          a \in {b \in attributions : key[b.of] # Nobody}}]
        PROVE  KeepInv'
    <2> DEFINE found == {a \in attributions : key[a.of] # Nobody}
               kept == {[tag |-> a.tag, key |-> key[a.of]] : a \in found}
               t == [task[r] EXCEPT !.pc = "delete", !.had = found, !.saved = kept]
    <2>1. task' = [task EXCEPT ![r] = t]
      BY <1>1, <1>2
    <2>2. ASSUME NEW a \in found
          PROVE  key[a.of] \in a.of.made /\ [tag |-> a.tag, key |-> key[a.of]] \in kept
      <3>1. a.of \in movements /\ key[a.of] # Nobody
        BY <1>1 DEF TypeOK
      <3>2. key[a.of] \in Observations /\ owner[key[a.of]] = a.of
        BY <3>1, <1>2
      <3>3. a.of # None
        <4>1. a.of \in Movement
          BY <3>1, <1>1 DEF TypeOK
        <4>2. a.of.by \in Rebuilds \union {"earlier"}
          BY <4>1 DEF Movement
        <4>3. None.by = "none" /\ "none" \notin Rebuilds
          BY RebuildAssumption DEF None
        <4> QED BY <4>2, <4>3
      <3> QED BY <3>2, <3>3 DEF KeepInv, OwnerMade
    <2>3. t.had = found /\ t.saved = kept /\ t.pc = "delete"
      BY <1>1 DEF TaskRecord
    <2> HIDE DEF found, kept, t
    <2>4. Copied(t)
      BY <2>2, <2>3 DEF Copied
    <2>5. Survives(t, owner', attributions')
      BY <2>3, <2>4 DEF Survives
    <2> QED BY <1>1, <2>1, <2>5, TaskOnlyKeeps
  <1>3. ASSUME task' = [task EXCEPT ![r].pc = "delete", ![r].alone = FALSE]
        PROVE  KeepInv'
    <2>1. \A q \in Tasks : task'[q] = task[q] \/ ~task'[q].alone
      BY <1>1, <1>3 DEF TaskRecord
    <2> QED BY <2>1, <1>1, TablesStay DEF Tasks
  <1> QED BY <1>2, <1>3 DEF Save

LEMMA DeleteKeepsCopies ==
    ASSUME IInv, KeepInv, NEW r \in Tasks, Delete(r)
    PROVE  KeepInv'
  <1> DEFINE t == [task[r] EXCEPT !.pc = "movements"]
  <1>1. TypeOK /\ task[r] \in TaskRecord /\ task' = Disturb(r, t) /\ r \in Rebuilds
    BY DEF Delete, Statement, IInv, TypeOK, Rebuilders, Rebuilding
  <1>2. OwnerMade'
    BY DEF Delete, OwnerMade
  <1>3. Survives(task[r], owner, attributions) /\ task[r].pc = "delete"
    BY <1>1 DEF KeepInv, Delete, Statement
  <1>4. t.alone = task[r].alone /\ t.had = task[r].had /\ t.saved = task[r].saved
        /\ t.pc = "movements"
    BY <1>1 DEF TaskRecord
  <1> HIDE DEF t
  <1>5. Survives(t, owner', attributions')
    BY <1>3, <1>4 DEF Survives, Copied, Copying
  <1> QED BY <1>1, <1>2, <1>5, OthersDisturbed

LEMMA InsertMovementsKeepsCopies ==
    ASSUME IInv, KeepInv, NEW r \in Tasks, InsertMovements(r)
    PROVE  KeepInv'
  <1> DEFINE t == [task[r] EXCEPT !.pc = "observations"]
  <1>1. TypeOK /\ task[r] \in TaskRecord /\ task' = Disturb(r, t) /\ r \in Rebuilds
    BY DEF InsertMovements, Statement, IInv, TypeOK, Rebuilders, Rebuilding
  <1>2. OwnerMade'
    BY DEF InsertMovements, KeepInv, OwnerMade
  <1>3. Survives(task[r], owner, attributions) /\ task[r].pc = "movements"
    BY <1>1 DEF KeepInv, InsertMovements, Statement
  <1>4. t.alone = task[r].alone /\ t.had = task[r].had /\ t.saved = task[r].saved
        /\ t.pc = "observations"
    BY <1>1 DEF TaskRecord
  <1> HIDE DEF t
  <1>5. Survives(t, owner', attributions')
    BY <1>3, <1>4 DEF Survives, Copied, Copying
  <1> QED BY <1>1, <1>2, <1>5, OthersDisturbed

LEMMA InsertObservationsKeepsCopies ==
    ASSUME IInv, KeepInv, NEW r \in Tasks, InsertObservations(r)
    PROVE  KeepInv'
  <1> DEFINE t == [task[r] EXCEPT !.pc = "duplicates"]
             new == Made(r, task[r].keep, FALSE)
  <1>1. TypeOK /\ task[r] \in TaskRecord /\ UNCHANGED attributions /\ r \in Rebuilds
    BY DEF InsertObservations, Statement, IInv, TypeOK, Rebuilders, Rebuilding
  <1>2. CASE ~(new \subseteq movements)
    <2>1. task' = [task EXCEPT ![r] = Over] /\ UNCHANGED owner
      BY <1>2 DEF InsertObservations, Refers
    <2>2. Survives(Over, owner', attributions')
      BY OverNotAlone DEF Survives
    <2> QED BY <1>1, <2>1, <2>2, TaskOnlyKeeps
  <1>3. CASE new \subseteq movements
    <2>1. MoveObservations(r)
      BY <1>3 DEF InsertObservations, Refers
    <2>2. /\ owner' = [o \in Observations |-> IF \E m \in new : o \in m.made
                                              THEN CHOOSE m \in new : o \in m.made
                                              ELSE owner[o]]
          /\ task' = Disturb(r, t)
      BY <2>1 DEF MoveObservations
    <2>3. Survives(task[r], owner, attributions) /\ task[r].pc = "observations"
      BY <1>1 DEF KeepInv, InsertObservations, Statement
    <2>4. t.alone = task[r].alone /\ t.had = task[r].had /\ t.saved = task[r].saved
          /\ t.pc = "duplicates"
      BY <1>1 DEF TaskRecord
    <2> HIDE DEF t, new
    <2>5. \A o \in Observations : (\E m \in new : o \in m.made)
                                  => o \in (CHOOSE m \in new : o \in m.made).made
      OBVIOUS
    <2>6. OwnerMade'
      BY <2>2, <2>5 DEF KeepInv, OwnerMade
    <2>7. Survives(t, owner', attributions')
      BY <2>3, <2>4 DEF Survives, Copied, Copying
    <2> QED BY <1>1, <2>2, <2>6, <2>7, OthersDisturbed
  <1> QED BY <1>2, <1>3

LEMMA InsertDuplicatesKeepsCopies ==
    ASSUME IInv, KeepInv, NEW r \in Tasks, InsertDuplicates(r)
    PROVE  KeepInv'
  <1>1. /\ TypeOK /\ task[r] \in TaskRecord /\ UNCHANGED attributions /\ r \in Rebuilds
        /\ task \in [Tasks -> TaskRecord]
    BY DEF InsertDuplicates, Statement, IInv, TypeOK, Rebuilders, Rebuilding
  <1>2. Survives(task[r], owner, attributions) /\ task[r].pc = "duplicates"
    BY <1>1 DEF KeepInv, InsertDuplicates, Statement
  <1>3. CASE Refers(r, StoreDuplicates(r)) /\ ~(Made(r, task[r].keep, FALSE) \subseteq movements)
    <2>1. task' = [task EXCEPT ![r] = Over] /\ UNCHANGED owner
      BY <1>3 DEF Refers
    <2>2. Survives(Over, owner', attributions')
      BY OverNotAlone DEF Survives
    <2> QED BY <1>1, <2>1, <2>2, TaskOnlyKeeps
  <1>4. CASE Refers(r, StoreDuplicates(r)) /\ Made(r, task[r].keep, FALSE) \subseteq movements
    <2> DEFINE t == [task[r] EXCEPT !.pc = "restore", !.keep = {}, !.dups = {}]
    <2>1. task' = Disturb(r, t) /\ UNCHANGED owner
      BY <1>4 DEF Refers, StoreDuplicates
    <2>2. t.alone = task[r].alone /\ t.had = task[r].had /\ t.saved = task[r].saved
          /\ t.pc = "restore"
      BY <1>1 DEF TaskRecord
    <2> HIDE DEF t
    <2>3. Survives(t, owner', attributions')
      BY <1>2, <2>2 DEF Survives, Copied, Copying
    <2>4. OwnerMade'
      BY <2>1 DEF KeepInv, OwnerMade
    <2> QED BY <1>1, <2>1, <2>3, <2>4, OthersDisturbed
  <1>5. CASE task' = [task EXCEPT ![r].pc = "restore", ![r].keep = {}]
             /\ UNCHANGED <<movements, owner>>
    <2> DEFINE t == [task[r] EXCEPT !.pc = "restore", !.keep = {}]
    <2>1. task' = [task EXCEPT ![r] = t]
      BY <1>5, <1>1
    <2>2. t.alone = task[r].alone /\ t.had = task[r].had /\ t.saved = task[r].saved
          /\ t.pc = "restore"
      BY <1>1 DEF TaskRecord
    <2> HIDE DEF t
    <2>3. Survives(t, owner', attributions')
      BY <1>2, <2>2 DEF Survives, Copied, Copying
    <2> QED BY <1>1, <1>5, <2>1, <2>3, TaskOnlyKeeps
  <1> QED BY <1>3, <1>4, <1>5 DEF InsertDuplicates

\* Restoring gives each copy to the movement that has its observation, and that
\* movement is made of it.
LEMMA RestoreGivesBack ==
    ASSUME IInv, KeepInv, NEW r \in Tasks, Restore(r)
    PROVE  KeepInv'
  <1> DEFINE back == {[tag |-> a.tag, of |-> owner[a.key]] :
                        a \in {b \in task[r].saved : owner[b.key] # None}}
             t == [task[r] EXCEPT !.pc = "unlock", !.saved = {}]
             u == [task[r] EXCEPT !.pc = "unlock", !.saved = {}, !.alone = FALSE]
  <1>1. /\ TypeOK /\ task[r] \in TaskRecord /\ UNCHANGED owner /\ r \in Rebuilds
        /\ task[r].pc = "restore"
    BY DEF Restore, Statement, IInv, TypeOK, Rebuilders, Rebuilding
  <1>2. \/ attributions' = attributions \union back /\ task' = Disturb(r, t)
        \/ task' = Disturb(r, u)
    BY DEF Restore
  <1>3. OwnerMade /\ OwnerMade' /\ Survives(task[r], owner, attributions)
    BY <1>1 DEF KeepInv, OwnerMade
  <1>4. CASE attributions' = attributions \union back /\ task' = Disturb(r, t)
    <2>1. t.alone = task[r].alone /\ t.had = task[r].had /\ t.pc = "unlock"
      BY <1>1 DEF TaskRecord
    <2>2. ASSUME task[r].alone, NEW a \in task[r].had, \A o \in a.of.made : owner[o] # None
          PROVE  \E b \in attributions' : b.tag = a.tag /\ b.of.made \intersect a.of.made # {}
      <3>1. PICK k \in a.of.made : [tag |-> a.tag, key |-> k] \in task[r].saved
        BY <1>1, <1>3, <2>2 DEF Survives, Copied, Copying
      <3>2. [tag |-> a.tag, key |-> k] \in [tag : Tags, key : Observations]
        BY <3>1, <1>1 DEF TaskRecord
      <3>3. k \in Observations
        BY <3>2
      <3>4. owner[k] # None /\ k \in owner[k].made
        BY <3>3, <2>2, <1>3 DEF OwnerMade
      <3>5. [tag |-> a.tag, of |-> owner[k]] \in back
        <4> DEFINE c == [tag |-> a.tag, key |-> k]
        <4>1. c \in {b \in task[r].saved : owner[b.key] # None}
          BY <3>1, <3>4
        <4>2. [tag |-> c.tag, of |-> owner[c.key]] \in back
          BY <4>1
        <4> QED BY <4>2
      <3>6. [tag |-> a.tag, of |-> owner[k]] \in attributions'
        BY <3>5, <1>4
      <3> QED BY <3>4, <3>6
    <2> HIDE DEF t, back
    <2>3. Survives(t, owner', attributions')
      BY <2>1, <2>2, <1>1 DEF Survives, Kept, Copying
    <2> QED BY <1>1, <1>3, <1>4, <2>3, OthersDisturbed
  <1>5. CASE task' = Disturb(r, u)
    <2>1. ~u.alone
      BY <1>1 DEF TaskRecord
    <2> HIDE DEF u
    <2>2. Survives(u, owner', attributions')
      BY <2>1 DEF Survives
    <2> QED BY <1>1, <1>3, <1>5, <2>2, OthersDisturbed
  <1> QED BY <1>2, <1>4, <1>5

LEMMA NextKeepsCopies ==
    IInv /\ KeepInv /\ [Next]_vars => KeepInv'
  <1> SUFFICES ASSUME IInv, KeepInv, [Next]_vars PROVE KeepInv'
    OBVIOUS
  <1>1. ASSUME NEW r \in Tasks, Rebuild(r) PROVE KeepInv'
    BY <1>1, ExtractKeepsCopies, SaveCopies, DeleteKeepsCopies, InsertMovementsKeepsCopies,
       InsertObservationsKeepsCopies, InsertDuplicatesKeepsCopies, RestoreGivesBack DEF Rebuild
  <1>2. CASE UNCHANGED vars
    BY <1>2 DEF vars, KeepInv, OwnerMade, Survives, Copied, Kept
  <1> QED BY <1>1, <1>2, LockStepsKeepCopies DEF Next, Step

\* A rebuild that nothing disturbs and in which no statement fails keeps every
\* attribution that it found, whatever the transactions are grouped into.
THEOREM AttributionsAlwaysSurvive == Spec => []AttributionsSurvive
  <1>1. Init => KeepInv
    BY InitKeepInv
  <1>2. IInv /\ KeepInv /\ [Next]_vars => KeepInv'
    BY NextKeepsCopies
  <1>3. KeepInv => AttributionsSurvive
    BY DEF KeepInv, Survives, Kept, AttributionsSurvive
  <1> QED BY <1>1, <1>2, <1>3, RebuildInvariant, PTL DEF Spec
=============================================================================
