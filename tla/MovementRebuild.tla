-------------------------- MODULE MovementRebuild --------------------------
(***************************************************************************)
(* classifyMovements deletes the movements of a user and builds them again *)
(* from the transactions of all sources, in autocommitted statements under *)
(* pg_advisory_lock; refreshMovementEntityIds takes the same lock with a   *)
(* time-out of its own.  The lock belongs to a database session.  Every    *)
(* statement takes whichever session of its process's pool is free, the    *)
(* lock and the unlock included, and a pool closes sessions that it has    *)
(* not used for a while.                                                   *)
(*                                                                         *)
(* What a run makes of the transactions is left open: any grouping of any  *)
(* set of them, with any groups set aside as duplicates of another.        *)
(***************************************************************************)
EXTENDS Naturals

CONSTANTS
    Rebuilds,       \* runs of classifyMovements
    Refreshes,      \* runs of refreshMovementEntityIds
    Sessions,       \* database sessions, of all pools
    Pool,           \* [Rebuilds \union Refreshes -> SUBSET Sessions]
    Observations,   \* transactions of the sources: (source, source_id)
    Found,          \* [Rebuilds -> SUBSET SUBSET Observations], bound: what a run may find
    Tags,           \* attributions of the user
    MaxFaults       \* bound: statements that fail

Tasks == Rebuilds \union Refreshes

ASSUME RebuildAssumption ==
    /\ Pool \in [Tasks -> SUBSET Sessions]
    /\ Found \in [Rebuilds -> SUBSET SUBSET Observations]
    /\ Rebuilds \intersect (Refreshes \union {"none", "earlier"}) = {}
    /\ MaxFaults \in Nat

CONSTANTS Nobody, Abandoned

ASSUME Waiters == {Nobody, Abandoned} \intersect Tasks = {} /\ Nobody # Abandoned

VARIABLES
    held,           \* how often each session holds the user's advisory lock
    waiter,         \* whose request for the lock a session is blocked on
    task,           \* the runs
    movements,      \* rows of movements
    owner,          \* movement_observations: the movement of each observation
    attributions,   \* rows of movement_attributions: [tag, of]
    faults          \* number of failed statements

tables == <<movements, owner, attributions>>
vars == <<held, waiter, task, movements, owner, attributions, faults>>

\* A movement goes by the run that made it and the observations it was made
\* of.  A duplicate has no observations of its own.
Movement == [by : Rebuilds \union {"earlier"}, made : SUBSET Observations, dup : BOOLEAN]
None == [by |-> "none", made |-> {}, dup |-> FALSE]

Groupings(obs) ==
    {g \in SUBSET ((SUBSET obs) \ {{}}) :
        UNION g = obs /\ \A x, y \in g : x = y \/ x \intersect y = {}}

\* A run: what it has made of the observations, which attributions it has found
\* and what it has saved of them, where it took the lock while that lasts, and
\* whether it has rebuilt alone and without a failure so far.
Fresh == [pc |-> "ask", at |-> Nobody, alone |-> FALSE, keep |-> {}, dups |-> {},
          had |-> {}, saved |-> {}]
Over == [Fresh EXCEPT !.pc = "end"]

----------------------------------------------------------------------------
(* The lock and the pools.                                                 *)

Free(r) == {s \in Pool[r] : waiter[s] = Nobody}
LockFree(s) == \A u \in Sessions \ {s} : held[u] = 0

\* Mutant: pg_try_advisory_lock, and the answer is not looked at.
AskLockTriesOnly(r) ==
    /\ task[r].pc = "ask"
    /\ \E s \in Free(r) :
         /\ held' = [held EXCEPT ![s] = IF LockFree(s) THEN @ + 1 ELSE @]
         /\ task' = [task EXCEPT ![r].pc = "locked", ![r].at = s]
    /\ UNCHANGED <<waiter, movements, owner, attributions, faults>>

\* pg_advisory_lock: at once if no other session holds it; a session that
\* holds it already gets it again.
AskLock(r) ==
    /\ task[r].pc = "ask"
    /\ \E s \in Free(r) :
         IF LockFree(s)
         THEN /\ held' = [held EXCEPT ![s] = @ + 1]
              /\ task' = [task EXCEPT ![r].pc = "locked", ![r].at = s]
              /\ UNCHANGED waiter
         ELSE /\ waiter' = [waiter EXCEPT ![s] = r]
              /\ task' = [task EXCEPT ![r].pc = "wait"]
              /\ UNCHANGED held
    /\ UNCHANGED <<movements, owner, attributions, faults>>

\* The database grants the lock to a session that waits for it, whether
\* anyone still wants it or not.
Grant(s) ==
    /\ waiter[s] # Nobody
    /\ LockFree(s)
    /\ held' = [held EXCEPT ![s] = @ + 1]
    /\ waiter' = [waiter EXCEPT ![s] = Nobody]
    /\ task' = [r \in Tasks |-> IF waiter[s] = r
                                THEN [task[r] EXCEPT !.pc = "locked", !.at = s]
                                ELSE task[r]]
    /\ UNCHANGED <<movements, owner, attributions, faults>>

\* refreshMovementEntityIds waits 10 s for the lock, then throws; the request
\* stays with the database.
GiveUp(r) ==
    /\ r \in Refreshes
    /\ task[r].pc = "wait"
    /\ \E s \in Sessions : waiter[s] = r /\ waiter' = [waiter EXCEPT ![s] = Abandoned]
    /\ task' = [task EXCEPT ![r] = Over]
    /\ UNCHANGED <<held, movements, owner, attributions, faults>>

\* The run r when session s holds the lock n times from now on: at zero the
\* lock is gone for all who took it on s.
Lapsed(r, s, n) ==
    IF task[r].at = s /\ n = 0 THEN [task[r] EXCEPT !.at = Nobody] ELSE task[r]

\* A pool closes a session that it has not used for a while, and the database
\* releases what the session held.
CloseIdle(s) ==
    /\ waiter[s] = Nobody
    /\ held[s] > 0
    /\ held' = [held EXCEPT ![s] = 0]
    /\ task' = [r \in Tasks |-> Lapsed(r, s, 0)]
    /\ UNCHANGED <<waiter, movements, owner, attributions, faults>>

\* pg_advisory_unlock, on any session: without the lock it does nothing.
Unlock(r) ==
    /\ task[r].pc = "unlock"
    /\ \E s \in Free(r) :
         LET left == IF held[s] > 0 THEN held[s] - 1 ELSE 0
         IN  /\ held' = [held EXCEPT ![s] = left]
             /\ task' = [q \in Tasks |->
                           IF q = r THEN Over ELSE Lapsed(q, s, left)]
    /\ UNCHANGED <<waiter, movements, owner, attributions, faults>>

----------------------------------------------------------------------------
(* A run of classifyMovements.                                             *)

\* Another run writes while r rebuilds.
Disturb(r, t) == [q \in Tasks |-> IF q = r THEN t ELSE [task[q] EXCEPT !.alone = FALSE]]

\* Mutant: the session of the lock is kept for the lock.
StatementElsewhere(r, pc) == task[r].pc = pc /\ Free(r) \ {task[r].at} # {}

\* One statement, on some free session of the pool.
Statement(r, pc) == task[r].pc = pc /\ Free(r) # {}

\* Steps 1 to 9: the observations are read, grouped and classified.  Without
\* any the run returns, and leaves the lock behind.
Extract(r) ==
    /\ Statement(r, "locked") /\ r \in Rebuilds
    /\ \E obs \in Found[r] :
         \/ /\ obs = {}
            /\ task' = [task EXCEPT ![r] = Over]
         \/ /\ obs # {}
            /\ \E groups \in Groupings(obs) : \E dups \in SUBSET groups :
                 /\ dups # groups
                 /\ task' = [task EXCEPT ![r].pc = "save", ![r].alone = TRUE,
                                         ![r].keep = groups \ dups, ![r].dups = dups]
    /\ UNCHANGED <<held, waiter, movements, owner, attributions, faults>>

\* G3: the attributions are kept under one observation of their movement, the
\* one that the database happens to list last.  Those of a movement whose
\* observations have all gone to another are not found, and lost.  A failure is
\* only logged.
Save(r) ==
    /\ Statement(r, "save")
    /\ \/ \E key \in [movements -> Observations \union {Nobody}] :
            /\ \A m \in movements :
                 IF \E o \in Observations : owner[o] = m
                 THEN key[m] # Nobody /\ owner[key[m]] = m
                 ELSE key[m] = Nobody
            /\ LET found == {a \in attributions : key[a.of] # Nobody}
               IN  task' = [task EXCEPT
                              ![r].pc = "delete",
                              ![r].had = found,
                              ![r].saved = {[tag |-> a.tag, key |-> key[a.of]] : a \in found}]
            /\ UNCHANGED faults
       \/ /\ faults < MaxFaults /\ faults' = faults + 1
          /\ task' = [task EXCEPT ![r].pc = "delete", ![r].alone = FALSE]
    /\ UNCHANGED <<held, waiter, movements, owner, attributions>>

\* Mutant: the attributions do not refer to movements by a foreign key.
DeleteWithoutCascade(r) ==
    /\ Statement(r, "delete")
    /\ movements' = {}
    /\ owner' = [o \in Observations |-> None]
    /\ task' = Disturb(r, [task[r] EXCEPT !.pc = "movements"])
    /\ UNCHANGED <<held, waiter, attributions, faults>>

\* DELETE FROM movements, and by cascade everything that refers to them.
Delete(r) ==
    /\ Statement(r, "delete")
    /\ movements' = {}
    /\ owner' = [o \in Observations |-> None]
    /\ attributions' = {}
    /\ task' = Disturb(r, [task[r] EXCEPT !.pc = "movements"])
    /\ UNCHANGED <<held, waiter, faults>>

Made(r, groups, dup) == {[by |-> r, made |-> g, dup |-> dup] : g \in groups}

InsertMovements(r) ==
    /\ Statement(r, "movements")
    /\ movements' = movements \union Made(r, task[r].keep, FALSE)
    /\ task' = Disturb(r, [task[r] EXCEPT !.pc = "observations"])
    /\ UNCHANGED <<held, waiter, owner, attributions, faults>>

\* A row that refers to a movement of r which is gone meanwhile is refused by
\* its foreign key, and the run ends.
Refers(r, Row) ==
    IF Made(r, task[r].keep, FALSE) \subseteq movements
    THEN Row
    ELSE task' = [task EXCEPT ![r] = Over] /\ UNCHANGED <<movements, owner>>

\* An observation that another movement has moves to the new one.
MoveObservations(r) ==
    LET new == Made(r, task[r].keep, FALSE)
    IN  /\ owner' = [o \in Observations |-> IF \E m \in new : o \in m.made
                                            THEN CHOOSE m \in new : o \in m.made
                                            ELSE owner[o]]
        /\ task' = Disturb(r, [task[r] EXCEPT !.pc = "duplicates"])
        /\ UNCHANGED movements

InsertObservations(r) ==
    /\ Statement(r, "observations")
    /\ Refers(r, MoveObservations(r))
    /\ UNCHANGED <<held, waiter, attributions, faults>>

\* Duplicates are stored without observations.  One whose original is itself
\* a duplicate is not stored at all; not all of them are such.
StoreDuplicates(r) ==
    /\ \E stored \in (SUBSET task[r].dups) \ {{}} :
         movements' = movements \union Made(r, stored, TRUE)
    /\ task' = Disturb(r, [task[r] EXCEPT !.pc = "restore", !.keep = {}, !.dups = {}])
    /\ UNCHANGED owner

InsertDuplicates(r) ==
    /\ Statement(r, "duplicates")
    /\ \/ /\ task[r].dups # {}
          /\ Refers(r, StoreDuplicates(r))
       \/ /\ task[r].dups = {}
          /\ task' = [task EXCEPT ![r].pc = "restore", ![r].keep = {}]
          /\ UNCHANGED <<movements, owner>>
    /\ UNCHANGED <<held, waiter, attributions, faults>>

\* Mutant: the saved attributions still name the deleted movements; their
\* foreign key refuses them, and the failure is only logged.
RestoreOldIds(r) ==
    /\ Statement(r, "restore")
    /\ task' = Disturb(r, [task[r] EXCEPT !.pc = "unlock", !.saved = {}])
    /\ UNCHANGED <<held, waiter, movements, owner, attributions, faults>>

\* The saved attributions go to the movements that have their observations
\* now.  A failure leaves the rest out, and is only logged.
Restore(r) ==
    /\ Statement(r, "restore")
    /\ LET back == {[tag |-> a.tag, of |-> owner[a.key]] :
                      a \in {b \in task[r].saved : owner[b.key] # None}}
       IN  \/ /\ attributions' = attributions \union back
              /\ task' = Disturb(r, [task[r] EXCEPT !.pc = "unlock", !.saved = {}])
              /\ UNCHANGED faults
           \/ /\ faults < MaxFaults /\ faults' = faults + 1
              /\ \E some \in SUBSET back : attributions' = attributions \union some
              /\ task' = Disturb(r, [task[r] EXCEPT !.pc = "unlock", !.saved = {},
                                                         !.alone = FALSE])
    /\ UNCHANGED <<held, waiter, movements, owner>>

\* refreshMovementEntityIds corrects entity ids in place, and unlocks in a
\* finally block.
Refresh(r) ==
    /\ Statement(r, "locked") /\ r \in Refreshes
    /\ task' = [task EXCEPT ![r].pc = "unlock"]
    /\ UNCHANGED <<held, waiter, movements, owner, attributions, faults>>

\* A statement of a rebuild fails where nothing catches it, or the unlock
\* itself: the lock stays with its session.
Throws(r) ==
    /\ task[r].pc \in {"delete", "movements", "observations", "duplicates", "unlock"}
       \/ (r \in Rebuilds /\ task[r].pc = "locked")
    /\ faults < MaxFaults /\ faults' = faults + 1
    /\ task' = [task EXCEPT ![r] = Over]
    /\ UNCHANGED <<held, waiter, movements, owner, attributions>>

----------------------------------------------------------------------------
\* What an earlier run has left, with the attributions made since.
Init ==
    /\ held = [s \in Sessions |-> 0]
    /\ waiter = [s \in Sessions |-> Nobody]
    /\ task = [r \in Tasks |-> Fresh]
    /\ \E groups \in Groupings(Observations) :
         /\ movements = {[by |-> "earlier", made |-> g, dup |-> FALSE] : g \in groups}
         /\ owner = [o \in Observations |-> CHOOSE m \in movements : o \in m.made]
         /\ \E of \in [Tags -> movements] :
              attributions = {[tag |-> t, of |-> of[t]] : t \in Tags}
    /\ faults = 0

Rebuild(r) ==
    \/ Extract(r) \/ Save(r) \/ Delete(r) \/ InsertMovements(r)
    \/ InsertObservations(r) \/ InsertDuplicates(r) \/ Restore(r)

Step(r) == AskLock(r) \/ Rebuild(r) \/ Refresh(r) \/ Unlock(r)

Next ==
    \/ \E r \in Tasks : Step(r) \/ GiveUp(r) \/ Throws(r)
    \/ \E s \in Sessions : Grant(s) \/ CloseIdle(s)

\* Tasks run and the database grants the lock.  Nothing is assumed of when a
\* pool closes sessions: all requests of the process share it.
Fairness ==
    /\ \A r \in Tasks : WF_vars(Step(r))
    /\ \A s \in Sessions : WF_vars(Grant(s))

Spec == Init /\ [][Next]_vars /\ Fairness

----------------------------------------------------------------------------
(* Properties                                                              *)

Attribution == [tag : Tags, of : Movement]
TaskRecord ==
    [pc : {"ask", "wait", "locked", "save", "delete", "movements", "observations",
           "duplicates", "restore", "unlock", "end"},
     at : Sessions \union {Nobody}, alone : BOOLEAN,
     keep : SUBSET SUBSET Observations, dups : SUBSET SUBSET Observations,
     had : SUBSET Attribution, saved : SUBSET [tag : Tags, key : Observations]]

\* Types, and what the foreign keys and the unique index of the tables say.
TypeOK ==
    /\ held \in [Sessions -> Nat]
    /\ waiter \in [Sessions -> Tasks \union {Nobody, Abandoned}]
    /\ task \in [Tasks -> TaskRecord]
    /\ movements \subseteq Movement
    /\ owner \in [Observations -> movements \union {None}]
    /\ attributions \subseteq [tag : Tags, of : movements]
    /\ faults \in 0..MaxFaults

Inside(r) == task[r].pc \notin {"ask", "wait", "end"}

\* Runs of different processes are inside together only if one of them has
\* lost its lock under its feet: its pool has closed the session (which rests
\* for as long as the language model is asked to classify), or a run of its
\* own process has unlocked that session.
LockExcludesProcesses ==
    \A r, q \in Tasks :
        Inside(r) /\ Inside(q) /\ Pool[r] \intersect Pool[q] = {}
            => task[r].at = Nobody \/ task[q].at = Nobody

\* A rebuild that nothing disturbs and in which no statement fails keeps every
\* attribution that it found, if the observations of its movement all have a
\* movement again: the attribution goes to a movement that has one of them.
AttributionsSurvive ==
    \A r \in Rebuilds : task[r].pc = "unlock" /\ task[r].alone =>
        \A a \in task[r].had :
            (\A o \in a.of.made : owner[o] # None)
            => \E b \in attributions : b.tag = a.tag /\ b.of.made \intersect a.of.made # {}

\* No transaction is counted twice: two movements that are not duplicates are
\* made of different observations.
NoSecondMovement ==
    \A m, n \in movements :
        m = n \/ m.dup \/ n.dup \/ m.made \intersect n.made = {}

\* A session holds the lock, and no run of its pool will release it: runs that
\* failed or found no transactions never unlock, unlocks go to the wrong
\* session, and requests that were given up are granted to nobody.
LeftBehind == \E s \in Sessions : held[s] > 0 /\ \A r \in Tasks : s \in Pool[r] => ~Inside(r)

\* A run that waits for the lock ends waiting, unless the lock is left behind:
\* waiters never take from the run that holds the lock the sessions that it
\* needs to go on and to unlock, although they block the sessions of its pool.
WaitersServed ==
    \A r \in Tasks : task[r].pc = "wait" ~> task[r].pc # "wait" \/ LeftBehind

\* Without the exception, for the configuration that shows that it is needed.
NeverLeftWaiting == \A r \in Tasks : task[r].pc = "wait" ~> task[r].pc # "wait"
=============================================================================
