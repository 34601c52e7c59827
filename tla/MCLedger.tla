----------------------------- MODULE MCLedger -----------------------------
(* Small instances of CashLedger for TLC.                                  *)
EXTENDS CashLedger, TLC

CONSTANTS i1, b1, b2, m1, m2, a1, a2, x1, x2, r1, r2

MCCashOf == [m \in Movements |-> 5]

\* Payments that each cover a part of the invoice.
MCSmallCash == [m \in Movements |-> 2]

MCLedgerSymmetry ==
    Permutations(MatchIds) \cup Permutations(Movements) \cup Permutations(AttrIds)
===========================================================================
