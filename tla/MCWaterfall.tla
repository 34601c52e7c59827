---------------------------- MODULE MCWaterfall ----------------------------
(* Small instances of Waterfall for TLC.                                   *)
EXTENDS Waterfall, TLC

CONSTANTS e1, e2, m1, m2, a1, a2, a3, r1, r2, w1, w2

MCAttrSymmetry == Permutations(AttrIds)

MCNet == 1..MaxAmount
MCRank == [e \in Events |-> IF e = e1 THEN 1 ELSE 2]
MCAnyEvent == [m \in Movements |-> Events]
\* Nothing fits the movement m2.
MCOnlyM1 == [m \in Movements |-> IF m = m1 THEN Events ELSE {}]
MCNoLink == [m \in Movements |-> NoRow]

\* A payment that exceeds one document: it pays another in part, or it is
\* linked to the document by a tag and has cash left for review.
MCOneMovement == <<m1>>
MCLargeCash == [m \in Movements |-> 6]
MCLinkToE1 == [m \in Movements |-> e1]

\* A small transfer and a larger one.
MCTwoMovements == <<m1, m2>>
MCTwoCash == [m \in Movements |-> IF m = m1 THEN 2 ELSE 4]
===========================================================================
