----------------------------- MODULE MCStage4 -----------------------------
(* Instances of Stage4.                                                    *)
EXTENDS Stage4, TLC

CONSTANTS m1, m2, d1, d2, r1, r2, u1

TwoPairs == {<<m1, d1>>, <<m1, d2>>}
MCCash == [m \in Movements |-> IF m = m1 THEN 3 ELSE 2]
MCDue == [d \in Documents |-> IF d = d1 THEN 3 ELSE 2]
Offer(h, x, n) == [high |-> h, amount |-> x, near |-> n]
WhatIsDue == {Offer(TRUE, 0, TRUE)}
OnePlanned == {[m |-> m1, d |-> d1, x |-> 1]}
AnyDate == {Offer(TRUE, 0, n) : n \in BOOLEAN}
RunsAlike == Permutations(Runs)

\* For the configurations that leave out that runs overlap.
OneRun == \A r, q \in Runs : Active(r) /\ Active(q) => r = q
=============================================================================
