---------------------------- MODULE ArApStatus ----------------------------
(***************************************************************************)
(* The canonical AR/AP status helpers (lib/ar-ap-status.ts) and the SQL    *)
(* forms of the same rules that other writers carry inline.                *)
(*                                                                         *)
(* Amounts are whole cents, so the tolerance of one cent is 1.  The pieces *)
(* are pure: they take a cash_events row and give the row after the write. *)
(***************************************************************************)
EXTENDS Integers

\* Tolerance: one cent and less counts as nothing left to pay.
EPS == 1

Statuses == {"open", "partially_paid", "paid"}

\* The columns of cash_events that the writers read or change.  reconciled
\* is "last_reconciled_at IS NOT NULL"; manualPaid and stale are the
\* metadata keys manual_paid and stale_reason.
CashEventRow(Amounts) ==
    [amount : Amounts, outstanding : Nat, status : Statuses,
     reconciled : BOOLEAN, manualPaid : BOOLEAN, stale : BOOLEAN]

\* A row is paid exactly when no more than the tolerance is outstanding.
SettledRow(row) == row.status = "paid" <=> row.outstanding <= EPS

LeastOf(a, b) == IF a <= b THEN a ELSE b

\* Mutant: no clamp at zero.
LessUnclamped(total, part) == total - part

\* Math.max(0, total - part): what is left after taking part off total.
LessButNotNegative(total, part) == IF part >= total THEN 0 ELSE total - part

statusFromOutstanding(outstanding, originalAmount) ==
    IF outstanding <= EPS \/ originalAmount <= EPS THEN "paid"
    ELSE IF outstanding < originalAmount - EPS THEN "partially_paid"
    ELSE "open"

\* The status expression of the unmatch handler: no tolerance at the upper
\* end, so one cent short of the amount is already "partially_paid".
UnmatchStatus(outstanding, originalAmount) ==
    IF outstanding <= EPS THEN "paid"
    ELSE IF outstanding < originalAmount THEN "partially_paid"
    ELSE "open"

\* The UPDATE of writeStatusChange.
StatusChanged(row, toStatus, toOutstanding, forceReconciledAt) ==
    [row EXCEPT !.outstanding = toOutstanding,
                !.status = toStatus,
                !.reconciled = \/ row.reconciled
                               \/ toStatus \in {"paid", "partially_paid"}
                               \/ forceReconciledAt]

\* writeStatusChange adds a row to ar_ap_status_log only for a real change.
IsLogged(fromStatus, toStatus, fromOutstanding, toOutstanding) ==
    \/ fromStatus # toStatus
    \/ fromOutstanding - toOutstanding > EPS
    \/ toOutstanding - fromOutstanding > EPS

---------------------------------------------------------------------------
(* The upserts of the accounting sync (lib/cash-events-build.ts).          *)

\* INSERT of an invoice or bill with something due.
NewOpenRow(due) ==
    [amount |-> due, outstanding |-> due, status |-> "open",
     reconciled |-> FALSE, manualPaid |-> FALSE, stale |-> FALSE]

\* INSERT of an invoice that the accounting system calls paid.
NewPaidRow(amount) ==
    [amount |-> amount, outstanding |-> 0, status |-> "paid",
     reconciled |-> FALSE, manualPaid |-> FALSE, stale |-> FALSE]

\* Mutant: the amount of the source replaces a reduced balance.
KeptOutstandingReset(row, due) == due

\* ON CONFLICT: a balance some reconciliation already reduced is kept.
KeptOutstanding(row, due) ==
    IF row.outstanding < row.amount THEN LeastOf(row.outstanding, due) ELSE due

\* Mutant: the F3 guard is missing and the status is that of a new row.
KeptStatusFresh(row, due) == UnmatchStatus(due, due)

\* ON CONFLICT: a manual payment keeps its status, a settled reconciled
\* event stays paid, anything else follows the new balance.
KeptStatus(row, due) ==
    IF row.manualPaid THEN row.status
    ELSE IF row.reconciled /\ row.outstanding <= EPS THEN "paid"
    ELSE UnmatchStatus(KeptOutstanding(row, due), due)

\* ON CONFLICT of upsertArSql and upsertApSql: metadata is replaced, which
\* drops manual_paid and stale_reason.
UpsertedOpenRow(row, due) ==
    [row EXCEPT !.amount = due,
                !.outstanding = KeptOutstanding(row, due),
                !.status = KeptStatus(row, due),
                !.manualPaid = FALSE,
                !.stale = FALSE]

\* ON CONFLICT of upsertArPaidSql: balance and status are left alone.
UpsertedPaidRow(row, amount) ==
    [row EXCEPT !.amount = amount, !.manualPaid = FALSE, !.stale = FALSE]

\* Mutant: a removed document keeps its balance.
StaleRowKeepsBalance(row) == [row EXCEPT !.status = "paid", !.stale = TRUE]

\* The staleSet of rows the source no longer lists.
StaleRow(row) ==
    [row EXCEPT !.status = "paid", !.outstanding = 0, !.stale = TRUE]
===========================================================================
