--------------------------- MODULE RunExclusion ---------------------------
(***************************************************************************)
(* What the reconciliation lock of one user promises: one run at a time,   *)
(* until the promise is broken.  It breaks for one of two reasons only: a  *)
(* run outlives the time-out of its lock, or an administrator clears the   *)
(* lock of a run that is still active.                                     *)
(***************************************************************************)
CONSTANT Runs

VARIABLES
    holders,   \* runs that hold the lock or believe to hold it
    broken     \* a lock has been taken from an active run, or could be

Init == holders = {} /\ broken = FALSE

Enter(r) ==
    /\ holders = {} \/ broken
    /\ holders' = holders \cup {r}
    /\ UNCHANGED broken

Leave(r) ==
    /\ r \in holders
    /\ holders' = holders \ {r}
    /\ UNCHANGED broken

Break ==
    /\ holders # {}
    /\ broken' = TRUE
    /\ UNCHANGED holders

Next == Break \/ \E r \in Runs : Enter(r) \/ Leave(r)

Spec == Init /\ [][Next]_<<holders, broken>>
===========================================================================
