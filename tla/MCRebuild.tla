----------------------------- MODULE MCRebuild -----------------------------
(* Instances of MovementRebuild: the web process has two sessions, the     *)
(* worker has one.                                                         *)
EXTENDS MovementRebuild

CONSTANTS a, b, f, w1, w2, k1, o1, o2

\* A rebuild in each process, and a refresh in the web process.
TwoProcesses == [r \in {a, b, f} |-> IF r = b THEN {k1} ELSE {w1, w2}]

\* The worker's run looks at the sources when one transaction is still to come.
Early == [r \in {a, b} |-> IF r = b THEN {{o1}} ELSE {{}, {o1, o2}}]

\* Two webhooks, and so two rebuilds, in the web process.
OneProcess == [r \in {a, b} |-> {w1, w2}]
Apart == [r \in {a, b} |-> IF r = b THEN {k1} ELSE {w1, w2}]
Both == [r \in {a, b} |-> {{o1}}]
=============================================================================
