---------------------------- MODULE CashLedger ----------------------------
(***************************************************************************)
(* The ledger of receivables and payables: the table cash_events, the      *)
(* attributions of bank movements to its rows, the invoice matches a user  *)
(* confirms, and every request that changes them:                          *)
(*   - creating, confirming, rejecting and deleting an invoice match,      *)
(*   - removing an attribution (unmatch),                                  *)
(*   - marking an event paid or unpaid by hand,                            *)
(*   - the accounting sync, which upserts the events of a feed row by row. *)
(*                                                                         *)
(* A request is a record in inflight that carries what the handler has     *)
(* read.  A handler that reads before its transaction, or whose reads and  *)
(* writes are separate autocommitted statements, is split at those points; *)
(* the transaction itself is one action where the row locks it takes make  *)
(* it so (READ COMMITTED elsewhere).                                       *)
(***************************************************************************)
EXTENDS ArApStatus, FiniteSets

CONSTANTS
    Invoices,     \* ids of the receivables (event_type 'ar')
    Bills,        \* ids of the payables (event_type 'ap')
    Movements,    \* bank movements
    AttrIds,      \* ids of movement_attributions; an id is used once
    MatchIds,     \* ids of ar_reconciliation_matches; an id is used once
    Requests,     \* requests that can be in progress at the same time
    MaxAmount,    \* bound: no document or movement exceeds it
    Amounts,      \* amounts of the documents
    NetAmounts,   \* bound: cash that attributions give their events at the start
    CashOf,       \* the absolute amount of each movement
    NoRow         \* the row does not exist

Events == Invoices \cup Bills

\* Documents of one cent or less are outside the model.
ASSUME AmountAssumption ==
    /\ MaxAmount \in Nat
    /\ Amounts \subseteq (EPS + 1)..MaxAmount
    /\ NetAmounts \subseteq 1..MaxAmount
    /\ CashOf \in [Movements -> 1..MaxAmount]

VARIABLES
    events,        \* cash_events: the row of each id, or NoRow
    attributions,  \* movement_attributions: the row of each id, or NoRow
    matches,       \* ar_reconciliation_matches; "deleted" marks a spent id
    inflight,      \* what each request has done and read so far
    audit,         \* rows the last step added to ar_ap_status_log
    overwritten    \* history: events whose balance does not say any more what
                   \* the matches have taken (see ConfirmedMatchesHoldCash)

vars == <<events, attributions, matches, inflight, audit, overwritten>>

---------------------------------------------------------------------------
MatchStates == {"pending", "confirmed", "rejected", "deleted"}

\* A match in full, up to the tolerance, may give a cent more than the movement
\* has.
MaxNet == MaxAmount + EPS
Attribution == [event : Events, net : 1..MaxNet]
Match == [state : MatchStates, movement : Movements, event : Events,
          matched : 1..MaxAmount]

ASSUME IdAssumption ==
    /\ IsFiniteSet(AttrIds) /\ IsFiniteSet(MatchIds)
    /\ Invoices \cap Bills = {}
    /\ NoRow \notin CashEventRow(Amounts) \cup Attribution \cup Match

\* What the accounting system says of one document.
Due == [paid : BOOLEAN, amount : Amounts]
Feed == UNION {[listed -> Due] : listed \in SUBSET Events}

Idle == [op |-> "idle"]

Request ==
    {Idle}
    \cup [op : {"patch"}, match : MatchIds, to : {"confirmed", "rejected"}]
    \cup [op : {"delete"}, match : MatchIds, seen : MatchStates]
    \cup [op : {"unmatchRead"}, attr : AttrIds, event : Events]
    \cup [op : {"unmatchDeleted"}, attr : AttrIds, event : Events,
          amount : Amounts]
    \cup [op : {"unmatchSummed"}, attr : AttrIds, event : Events,
          amount : Amounts, matched : Nat]
    \cup [op : {"markPaid"}, event : Events, outstanding : Nat]
    \cup [op : {"markUnpaid"}, event : Events, amount : Amounts]
    \cup [op : {"syncUpsert"}, feed : Feed, todo : SUBSET Events]
    \cup [op : {"syncStaleAr", "syncStaleAp"}, feed : Feed]
    \cup [op : {"syncOrphans"}]

LogRow == [event : Events, from : Statuses, to : Statuses]

\* Every variable holds a value of its kind: in particular no outstanding
\* balance is ever negative.
TypeOK ==
    /\ events \in [Events -> CashEventRow(Amounts) \cup {NoRow}]
    /\ attributions \in [AttrIds -> Attribution \cup {NoRow}]
    /\ matches \in [MatchIds -> Match \cup {NoRow}]
    /\ inflight \in [Requests -> Request]
    /\ audit \in SUBSET LogRow
    /\ overwritten \subseteq Events

Exists(e) == events[e] # NoRow
Live(a) == attributions[a] # NoRow

\* SELECT SUM(net_amount) over the attributions in ids, in cents: the sum
\* of naturals counted as the number of cents in it.
SumOfNet(ids) ==
    Cardinality({c \in ids \X (1..MaxNet) : c[2] <= attributions[c[1]].net})

\* The cash attributed to event e.
AttributedTo(e) == SumOfNet({a \in AttrIds : Live(a) /\ attributions[a].event = e})

---------------------------------------------------------------------------
\* The engine has reconciled some of the events: the balance it left is the
\* amount less the cash attributed, with the canonical status.
ReconciledRow(e, amount) ==
    LET left == LessButNotNegative(amount, AttributedTo(e))
    IN  [amount |-> amount, outstanding |-> left,
         status |-> statusFromOutstanding(left, amount),
         reconciled |-> AttributedTo(e) > 0, manualPaid |-> FALSE, stale |-> FALSE]

Init ==
    /\ attributions \in [AttrIds -> [event : Events, net : NetAmounts] \cup {NoRow}]
    /\ \E known \in SUBSET Events, amount \in [Events -> Amounts] :
         /\ \A a \in AttrIds : Live(a) => attributions[a].event \in known
         /\ events = [e \in Events |-> IF e \in known THEN ReconciledRow(e, amount[e])
                                       ELSE NoRow]
    /\ matches = [x \in MatchIds |-> NoRow]
    /\ inflight = [r \in Requests |-> Idle]
    /\ audit = {}
    /\ overwritten = {}

Starts(r, request) ==
    /\ inflight[r] = Idle
    /\ inflight' = [inflight EXCEPT ![r] = request]

Continues(r, request) == inflight' = [inflight EXCEPT ![r] = request]
Ends(r) == inflight' = [inflight EXCEPT ![r] = Idle]

Logged(e, before, after) ==
    IF IsLogged(before.status, after.status, before.outstanding, after.outstanding)
    THEN {[event |-> e, from |-> before.status, to |-> after.status]} ELSE {}

\* History: this step, which is not one of a match, raises the balance of some
\* events or changes their amount.
Overwrites ==
    overwritten' = overwritten \cup
        {e \in Events : /\ events[e] # NoRow
                        /\ \/ events'[e].outstanding > events[e].outstanding
                           \/ events'[e].amount # events[e].amount}

---------------------------------------------------------------------------
(* Invoice matches.                                                        *)

\* POST /api/ar-reconciliation/matches: createARMatch.  The amounts come
\* from the page: the movement's cash and the amount it showed for the
\* invoice.  UNIQUE (movement_id, cash_event_id) refuses a second row.
CreateMatch(x, m, e) ==
    /\ matches[x] = NoRow
    /\ Exists(e)
    /\ \A y \in MatchIds :
         matches[y] # NoRow /\ matches[y].state # "deleted"
           => <<matches[y].movement, matches[y].event>> # <<m, e>>
    /\ \E invoiceAmount \in Amounts :
         matches' = [matches EXCEPT ![x] =
           [state |-> "pending", movement |-> m, event |-> e,
            matched |-> LeastOf(CashOf[m], invoiceAmount)]]
    /\ audit' = {}
    /\ UNCHANGED <<events, attributions, inflight, overwritten>>

MatchFound(x) == matches[x] # NoRow /\ matches[x].state # "deleted"

\* PATCH: the lookup before the transaction and the SELECT inside it, which
\* takes no lock.
PatchSelect(r, x, to) ==
    /\ MatchFound(x)
    /\ Starts(r, [op |-> "patch", match |-> x, to |-> to])
    /\ audit' = {}
    /\ UNCHANGED <<events, attributions, matches, overwritten>>

\* Mutant: the status is derived from the balance before the change.
SyncedInvoiceOldStatus(row, delta, isConfirm) ==
    StatusChanged(row, statusFromOutstanding(row.outstanding, row.amount),
                  LessButNotNegative(row.outstanding, delta), isConfirm)

\* syncInvoiceStatusFromMatch: under the lock of the event's row.
SyncedInvoice(row, delta, isConfirm) ==
    LET left == LessButNotNegative(row.outstanding, delta)
    IN  StatusChanged(row, statusFromOutstanding(left, row.amount), left, isConfirm)

SyncInvoiceStatusFromMatch(x, delta, isConfirm) ==
    LET e == matches[x].event
        after == SyncedInvoice(events[e], delta, isConfirm)
    IN  /\ events' = [events EXCEPT ![e] = after]
        /\ audit' = Logged(e, events[e], after)

\* PATCH: the UPDATE of the match, which changes no row when the match has
\* been deleted meanwhile, and the sync of the invoice on a confirmation.
PatchCommit(r) ==
    /\ inflight[r].op = "patch"
    /\ LET x == inflight[r].match
           confirms == inflight[r].to = "confirmed"
       IN  /\ matches' = IF matches[x].state = "deleted" THEN matches
                         ELSE [matches EXCEPT ![x].state = inflight[r].to]
           /\ IF confirms
                THEN /\ SyncInvoiceStatusFromMatch(x, matches[x].matched, TRUE)
                     /\ overwritten' = overwritten \cup
                          {e \in {matches[x].event} : events[e].outstanding < matches[x].matched}
                ELSE audit' = {} /\ UNCHANGED <<events, overwritten>>
    /\ Ends(r)
    /\ UNCHANGED attributions

\* classifyMovements deletes the movements and inserts them anew: the matches go
\* with them (ON DELETE CASCADE).  The attributions, which it saves and inserts
\* again, are left out here (Stage4 has them).
RebuildMovements ==
    /\ \E x \in MatchIds : MatchFound(x)
    /\ matches' = [x \in MatchIds |-> IF MatchFound(x) THEN [matches[x] EXCEPT !.state = "deleted"]
                                      ELSE matches[x]]
    /\ audit' = {}
    /\ UNCHANGED <<events, attributions, inflight, overwritten>>

\* DELETE: the lookup before the transaction, which sees the status.
DeleteRead(r, x) ==
    /\ MatchFound(x)
    /\ Starts(r, [op |-> "delete", match |-> x, seen |-> matches[x].state])
    /\ audit' = {}
    /\ UNCHANGED <<events, attributions, matches, overwritten>>

\* Mutant: the DELETE handler keeps the row and marks it rejected.
DeleteCommitSoft(r) ==
    /\ inflight[r].op = "delete"
    /\ LET x == inflight[r].match
       IN  /\ IF inflight[r].seen = "confirmed"
                THEN /\ SyncInvoiceStatusFromMatch(x, -matches[x].matched, FALSE)
                     /\ overwritten' = overwritten \cup
                          {e \in {matches[x].event} : matches[x].state = "deleted"}
                ELSE audit' = {} /\ UNCHANGED <<events, overwritten>>
           /\ matches' = [matches EXCEPT ![x].state = "rejected"]
    /\ Ends(r)
    /\ UNCHANGED attributions

\* DELETE: the transaction trusts the status seen before it.
DeleteCommit(r) ==
    /\ inflight[r].op = "delete"
    /\ LET x == inflight[r].match
       IN  /\ IF inflight[r].seen = "confirmed"
                THEN /\ SyncInvoiceStatusFromMatch(x, -matches[x].matched, FALSE)
                     /\ overwritten' = overwritten \cup
                          {e \in {matches[x].event} : matches[x].state = "deleted"}
                ELSE audit' = {} /\ UNCHANGED <<events, overwritten>>
           /\ matches' = [matches EXCEPT ![x].state = "deleted"]
    /\ Ends(r)
    /\ UNCHANGED attributions

---------------------------------------------------------------------------
(* Removing an attribution: DELETE .../reconciliation/unmatch.             *)

\* The attribution is read before the transaction.
UnmatchRead(r, a) ==
    /\ Live(a)
    /\ Starts(r, [op |-> "unmatchRead", attr |-> a, event |-> attributions[a].event])
    /\ audit' = {}
    /\ UNCHANGED <<events, attributions, matches, overwritten>>

\* Mutant: the first read locks the attribution (FOR SHARE) for the request.
HoldsAttributionEarly(r, a) ==
    /\ inflight[r].op \in {"unmatchRead", "unmatchDeleted", "unmatchSummed"}
    /\ inflight[r].attr = a

\* A transaction that deleted attribution a and has not committed.
HoldsAttribution(r, a) ==
    inflight[r].op \in {"unmatchDeleted", "unmatchSummed"} /\ inflight[r].attr = a

\* DELETE, which waits for the lock on the attribution's row, then the
\* SELECT of the event's amount.  The deletion shows to others at commit.
UnmatchDelete(r) ==
    /\ inflight[r].op = "unmatchRead"
    /\ \A other \in Requests \ {r} : ~HoldsAttribution(other, inflight[r].attr)
    /\ Continues(r, [op |-> "unmatchDeleted", attr |-> inflight[r].attr,
                     event |-> inflight[r].event,
                     amount |-> events[inflight[r].event].amount])
    /\ audit' = {}
    /\ UNCHANGED <<events, attributions, matches, overwritten>>

\* What is still attributed to event e once attribution a is gone.
RemainingFor(e, a) ==
    SumOfNet({b \in AttrIds \ {a} : Live(b) /\ attributions[b].event = e})

\* SELECT SUM(net_amount): committed rows and the own deletion.
UnmatchSum(r) ==
    /\ inflight[r].op = "unmatchDeleted"
    /\ Continues(r, [op |-> "unmatchSummed", attr |-> inflight[r].attr,
                     event |-> inflight[r].event, amount |-> inflight[r].amount,
                     matched |-> RemainingFor(inflight[r].event, inflight[r].attr)])
    /\ audit' = {}
    /\ UNCHANGED <<events, attributions, matches, overwritten>>

UnmatchedRow(row, amount, matched) ==
    LET left == LessButNotNegative(amount, matched)
    IN  [row EXCEPT !.outstanding = left, !.status = UnmatchStatus(left, amount),
                    !.manualPaid = FALSE]

\* The UPDATEs and the commit; nothing is logged.
UnmatchCommit(r) ==
    /\ inflight[r].op = "unmatchSummed"
    /\ LET e == inflight[r].event
       IN  events' = [events EXCEPT ![e] =
                        UnmatchedRow(@, inflight[r].amount, inflight[r].matched)]
    /\ attributions' = [attributions EXCEPT ![inflight[r].attr] = NoRow]
    /\ Ends(r)
    /\ audit' = {}
    /\ Overwrites
    /\ UNCHANGED matches

---------------------------------------------------------------------------
(* Marking by hand: POST .../reconciliation/mark-paid.  The attributions   *)
(* of source 'user' it deletes do not exist here: the only writer of them  *)
(* for an event is the sentinel below, which is never stored.              *)

MarkPaidRead(r, e) ==
    /\ Exists(e)
    /\ Starts(r, [op |-> "markPaid", event |-> e, outstanding |-> events[e].outstanding])
    /\ audit' = {}
    /\ UNCHANGED <<events, attributions, matches, overwritten>>

ManuallyPaid(row) ==
    [row EXCEPT !.outstanding = 0, !.status = "paid", !.reconciled = TRUE,
                !.manualPaid = TRUE]

\* With something outstanding the handler inserts a sentinel attribution
\* without a movement, which the NOT NULL constraint on movement_id refuses:
\* the transaction rolls back and the request ends with an error.
MarkPaidCommit(r) ==
    /\ inflight[r].op = "markPaid"
    /\ LET e == inflight[r].event
       IN  events' = IF inflight[r].outstanding > EPS THEN events
                     ELSE [events EXCEPT ![e] = ManuallyPaid(@)]
    /\ Ends(r)
    /\ audit' = {}
    /\ UNCHANGED <<attributions, matches, overwritten>>

MarkUnpaidRead(r, e) ==
    /\ Exists(e)
    /\ Starts(r, [op |-> "markUnpaid", event |-> e, amount |-> events[e].amount])
    /\ audit' = {}
    /\ UNCHANGED <<events, attributions, matches, overwritten>>

MarkedUnpaid(row, amount) ==
    [row EXCEPT !.outstanding = amount, !.status = "open", !.reconciled = FALSE,
                !.manualPaid = FALSE]

\* The amount restored is the one read before the transaction.
MarkUnpaidCommit(r) ==
    /\ inflight[r].op = "markUnpaid"
    /\ LET e == inflight[r].event
       IN  events' = [events EXCEPT ![e] = MarkedUnpaid(@, inflight[r].amount)]
    /\ Ends(r)
    /\ audit' = {}
    /\ Overwrites
    /\ UNCHANGED <<attributions, matches>>

---------------------------------------------------------------------------
(* The accounting sync: syncCashEventsForUser.  Each statement commits on  *)
(* its own.                                                                *)

\* A feed lists some documents; a bill with nothing due is skipped, so a
\* paid bill counts as not listed.
SyncStart(r, feed) ==
    /\ \A e \in Bills \cap DOMAIN feed : ~feed[e].paid
    /\ Starts(r, [op |-> "syncUpsert", feed |-> feed, todo |-> DOMAIN feed])
    /\ audit' = {}
    /\ UNCHANGED <<events, attributions, matches, overwritten>>

UpsertedRow(e, due) ==
    IF due.paid
      THEN IF Exists(e) THEN UpsertedPaidRow(events[e], due.amount)
                        ELSE NewPaidRow(due.amount)
      ELSE IF Exists(e) THEN UpsertedOpenRow(events[e], due.amount)
                        ELSE NewOpenRow(due.amount)

\* One document, invoices before bills.
SyncUpsert(r, e) ==
    /\ inflight[r].op = "syncUpsert"
    /\ e \in inflight[r].todo
    /\ e \in Bills => inflight[r].todo \cap Invoices = {}
    /\ events' = [events EXCEPT ![e] = UpsertedRow(e, inflight[r].feed[e])]
    /\ Continues(r, [op |-> "syncUpsert", feed |-> inflight[r].feed,
                     todo |-> inflight[r].todo \ {e}])
    /\ audit' = {}
    /\ Overwrites
    /\ UNCHANGED <<attributions, matches>>

SyncUpsertsDone(r) ==
    /\ inflight[r].op = "syncUpsert"
    /\ inflight[r].todo = {}
    /\ Continues(r, [op |-> "syncStaleAr", feed |-> inflight[r].feed])
    /\ audit' = {}
    /\ UNCHANGED <<events, attributions, matches, overwritten>>

\* Rows of one kind that the feed does not list become paid; an empty list
\* of that kind marks nothing.
MarkStale(kind, feed) ==
    events' = [e \in Events |->
                 IF e \in kind \ DOMAIN feed /\ Exists(e) /\ kind \cap DOMAIN feed # {}
                 THEN StaleRow(events[e]) ELSE events[e]]

SyncStaleAr(r) ==
    /\ inflight[r].op = "syncStaleAr"
    /\ MarkStale(Invoices, inflight[r].feed)
    /\ Continues(r, [op |-> "syncStaleAp", feed |-> inflight[r].feed])
    /\ audit' = {}
    /\ UNCHANGED <<attributions, matches, overwritten>>

SyncStaleAp(r) ==
    /\ inflight[r].op = "syncStaleAp"
    /\ MarkStale(Bills, inflight[r].feed)
    /\ Continues(r, [op |-> "syncOrphans"])
    /\ audit' = {}
    /\ UNCHANGED <<attributions, matches, overwritten>>

Orphaned(a) == Live(a) /\ events[attributions[a].event].stale

\* DELETE of the attributions of stale events; it waits for the rows that
\* an unmatch has deleted without committing.
SyncDeleteOrphans(r) ==
    /\ inflight[r].op = "syncOrphans"
    /\ \A other \in Requests, a \in AttrIds : Orphaned(a) => ~HoldsAttribution(other, a)
    /\ attributions' = [a \in AttrIds |-> IF Orphaned(a) THEN NoRow ELSE attributions[a]]
    /\ Ends(r)
    /\ audit' = {}
    /\ UNCHANGED <<events, matches, overwritten>>

---------------------------------------------------------------------------
\* An error or the loss of the server process: the transaction in progress
\* rolls back, the statements already committed stay.
Fail(r) ==
    /\ inflight[r] # Idle
    /\ Ends(r)
    /\ audit' = {}
    /\ UNCHANGED <<events, attributions, matches, overwritten>>

Begin(r) ==
    \/ \E x \in MatchIds, to \in {"confirmed", "rejected"} : PatchSelect(r, x, to)
    \/ \E x \in MatchIds : DeleteRead(r, x)
    \/ \E a \in AttrIds : UnmatchRead(r, a)
    \/ \E e \in Events : MarkPaidRead(r, e) \/ MarkUnpaidRead(r, e)
    \/ \E feed \in Feed : SyncStart(r, feed)

Proceed(r) ==
    \/ PatchCommit(r)
    \/ DeleteCommit(r)
    \/ UnmatchDelete(r) \/ UnmatchSum(r) \/ UnmatchCommit(r)
    \/ MarkPaidCommit(r) \/ MarkUnpaidCommit(r)
    \/ \E e \in Events : SyncUpsert(r, e)
    \/ SyncUpsertsDone(r) \/ SyncStaleAr(r) \/ SyncStaleAp(r) \/ SyncDeleteOrphans(r)

Next ==
    \/ \E x \in MatchIds, m \in Movements, e \in Events : CreateMatch(x, m, e)
    \/ RebuildMovements
    \/ \E r \in Requests : Begin(r) \/ Proceed(r) \/ Fail(r)

Spec == Init /\ [][Next]_vars

\* A handler that has started runs on: nothing in it waits for a user.  A
\* statement that waits for a row lock is in PostgreSQL's queue for it, so it
\* is not overtaken for ever: hence strong fairness.
Fairness == \A r \in Requests : SF_vars(Proceed(r))
FairSpec == Spec /\ Fairness

---------------------------------------------------------------------------
(* Properties.                                                             *)

\* What a row, or a request that waits, refers to exists: rows of
\* cash_events are never deleted and ids are never used again.
ReferencesExist ==
    /\ \A a \in AttrIds : Live(a) => Exists(attributions[a].event)
    /\ \A x \in MatchIds : matches[x] # NoRow => Exists(matches[x].event)
    /\ \A r \in Requests :
         /\ inflight[r].op \in {"patch", "delete"} => matches[inflight[r].match] # NoRow
         /\ inflight[r].op \in {"unmatchRead", "unmatchDeleted", "unmatchSummed",
                               "markPaid", "markUnpaid"} => Exists(inflight[r].event)
         /\ inflight[r].op = "syncUpsert" => inflight[r].todo \subseteq DOMAIN inflight[r].feed

\* Every writer, whichever formula it uses and however its statements
\* interleave with others, leaves an event "paid" exactly when no more than
\* the tolerance is outstanding (statusFromOutstanding against the inline
\* SQL of the sync, unmatch and mark-paid).
PaidIffSettled ==
    \A e \in Events : Exists(e) => SettledRow(events[e])

\* What the given matches take, in cents.
SumOfMatched(rows, ids) ==
    Cardinality({c \in ids \X (1..MaxAmount) : c[2] <= rows[c[1]].matched})

ConfirmedFor(e) ==
    {x \in MatchIds : MatchFound(x) /\ matches[x].event = e /\ matches[x].state = "confirmed"}

\* What an invoice still owes and what its confirmed matches took are together
\* no more than its amount, in whatever order PATCH, DELETE, marking by hand,
\* a sync and a rebuild come: no match that is still confirmed has been given
\* back by the DELETE of it or of another.  Not so once an unmatch, mark-unpaid
\* or a new amount has written over the balance, a confirmation has found less
\* than it takes, or two DELETEs have given back one match: those are in
\* overwritten, and MCLedgerWiped.cfg shows them.
ConfirmedMatchesHoldCash ==
    \A e \in Events : Exists(e) /\ e \notin overwritten =>
        events[e].outstanding + SumOfMatched(matches, ConfirmedFor(e)) <= events[e].amount

\* A user's request that gives cash back on event e completes in this step.
GivesBack(r, e) ==
    /\ inflight'[r] = Idle
    /\ \/ inflight[r].op = "delete" /\ matches[inflight[r].match].event = e
       \/ inflight[r].op \in {"unmatchSummed", "markUnpaid"} /\ inflight[r].event = e

\* A paid event leaves "paid" only through a user's unmatch, mark-unpaid or
\* match deletion: no sync, no confirmation and no failure reopens it (the
\* F3 rule of the sync, and the transitions ar-ap-architecture.md draws).
PaidReopensOnlyByUser ==
    [][\A e \in Events :
         /\ Exists(e) /\ events[e].status = "paid"
         /\ events'[e].status # "paid"
         => \E r \in Requests : GivesBack(r, e)]_vars

\* A balance that reconciliation has reduced grows again only by a user's
\* request: the sync, with a new amount from the source, an interleaved
\* sync or a stale-marking, never gives cash back.
ReducedBalanceGrowsOnlyByUser ==
    [][\A e \in Events :
         /\ Exists(e) /\ events[e].outstanding < events[e].amount
         /\ events'[e].outstanding > events[e].outstanding
         => \E r \in Requests : GivesBack(r, e)]_vars

\* What the repository says of these handlers and the code does not do.

\* "every status transition on cash_events is recorded here" (lib/db.ts, of
\* ar_ap_status_log): unmatch, mark-paid and the sync change statuses
\* without a log row.
EveryTransitionLogged ==
    [][\A e \in Events :
         Exists(e) /\ events'[e].status # events[e].status
         => [event |-> e, from |-> events[e].status, to |-> events'[e].status]
              \in audit']_vars

\* The same without exceptions: a match that is confirmed has its amount taken
\* off the invoice.  Unmatch and mark-unpaid write over what it took.
ConfirmedAlwaysHoldCash ==
    \A e \in Events : Exists(e) =>
        events[e].outstanding + SumOfMatched(matches, ConfirmedFor(e)) <= events[e].amount

\* Rejecting a confirmed match gives its cash back (syncInvoiceStatusFromMatch:
\* "Called when a match is confirmed or rejected/deleted").
RejectionGivesBack ==
    [][\A e \in Events : \A x \in ConfirmedFor(e) :
         matches'[x].state = "rejected" => events'[e].outstanding > events[e].outstanding]_vars

\* So does deleting it (DELETE: "restore the invoice outstanding amount"); the
\* cascade from the movements does not.
DeletionGivesBack ==
    [][\A e \in Events : \A x \in ConfirmedFor(e) :
         matches'[x].state = "deleted" => events'[e].outstanding > events[e].outstanding]_vars

\* An unmatch leaves the amount less what remains attributed (unmatch
\* route, "Re-aggregate outstanding from remaining attributions").
UnmatchReaggregates ==
    [][\A r \in Requests, e \in Events :
         UnmatchCommit(r) /\ e = inflight[r].event
         => (events[e].outstanding
               = LessButNotNegative(events[e].amount, AttributedTo(e)))']_vars

\* Marking an event paid makes it paid (mark-paid route, "Mark paid: set
\* outstanding to 0, status = paid").
MarkPaidTakesEffect ==
    [][\A r \in Requests, e \in Events :
         MarkPaidCommit(r) /\ e = inflight[r].event => events'[e].status = "paid"]_vars

\* Every request is answered: the locks of concurrent unmatches and of the
\* orphan cleanup never leave requests waiting for each other.
RequestsComplete == \A r \in Requests : inflight[r] # Idle ~> inflight[r] = Idle
==============================================================================
