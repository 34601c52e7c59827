------------------------------ MODULE BankFeed ------------------------------
(***************************************************************************)
(* The transaction feed of one connected bank (a Plaid item).  The bank    *)
(* keeps a log of updates and announces it by webhook; the application     *)
(* pages through the log with a cursor that it stores before it writes the *)
(* page.  Every webhook and every "sync" request starts a loop of its own, *)
(* and nothing keeps two loops over the same item apart.                   *)
(*                                                                         *)
(* A version of a transaction is the position in the log of the update     *)
(* that wrote it; 0 is "no row".  The bank's side is external and follows  *)
(* what the code relies on: pages are contiguous, a cursor is a position,  *)
(* and a transaction that was removed does not come back under its id.     *)
(***************************************************************************)
EXTENDS Naturals, FiniteSets, Sequences

CONSTANTS
    MaxTransactions,    \* bound: transactions the bank ever reports
    Syncs,              \* loops that may be under way at the same time
    MaxLog,             \* bound: updates the bank ever reports
    PAGE,               \* updates in one page of the feed
    MaxFaults           \* bound: failed statements, failed calls and lost processes

ASSUME FeedAssumption ==
    /\ MaxTransactions \in Nat /\ MaxLog \in Nat /\ MaxFaults \in Nat
    /\ PAGE \in Nat \ {0}

VARIABLES
    feed,       \* the bank's log: [tx, removed]
    owed,       \* the bank has announced nothing since its last update
    cursor,     \* plaid_items.cursor
    stored,     \* plaid_transactions: the version of each row
    movements,  \* the versions that the last classifyMovements was built from
    sync,       \* the loops
    faults,     \* number of faults so far
    late,       \* history: transactions that the cursor passed while they were written
    torn        \* history: transactions of pages that were given up half written

vars == <<feed, owed, cursor, stored, movements, sync, faults, late, torn>>

----------------------------------------------------------------------------
(* The bank.                                                               *)

\* The version of t that the log up to position c ends with: its last update,
\* unless that is a removal.
LastWrites(t, c) ==
    {p \in 1..c : /\ feed[p].tx = t /\ ~feed[p].removed
                  /\ \A q \in 1..c : feed[q].tx = t => q <= p}
Replay(t, c) ==
    IF LastWrites(t, c) = {} THEN 0 ELSE CHOOSE p \in LastWrites(t, c) : TRUE

Latest(t) == Replay(t, Len(feed))

\* Transactions go by the order in which the bank first reports them.
Transactions == 1..MaxTransactions
Known(t) == \E p \in DOMAIN feed : feed[p].tx = t
Removed(t) == \E p \in DOMAIN feed : feed[p].tx = t /\ feed[p].removed

\* The bank adds or modifies a transaction, or removes one it has reported
\* (a pending transaction that has been posted under another id).
BankUpdates(t, removed) ==
    /\ Len(feed) < MaxLog
    /\ ~Removed(t)
    /\ removed => Known(t)
    /\ t > 1 => Known(t - 1)
    /\ feed' = Append(feed, [tx |-> t, removed |-> removed])
    /\ owed' = TRUE
    /\ UNCHANGED <<cursor, stored, movements, sync, faults, late, torn>>

----------------------------------------------------------------------------
(* One loop of runTransactionsSync, or of POST /api/plaid/transactions-sync. *)

Loop(pc, classify) ==
    [pc |-> pc, from |-> 0, upTo |-> 0, more |-> FALSE, rows |-> {}, gone |-> {},
     classify |-> classify]
Idle == Loop("idle", FALSE)
Started(classify) == Loop("read", classify)

\* The page after position c: the updates to write, and the ids to delete.
PageEnd(c) == IF c + PAGE < Len(feed) THEN c + PAGE ELSE Len(feed)
PageOf(c) == (c + 1)..PageEnd(c)
Rows(c) == {p \in PageOf(c) : ~feed[p].removed}
RemovedIds(c) == {feed[p].tx : p \in {q \in PageOf(c) : feed[q].removed}}

\* The rows are written in the bank's order, added before modified.
IsNew(p) == \A q \in 1..(p - 1) : feed[q].tx # feed[p].tx

\* Mutant of IsNext: the changes are written before the additions.
IsNextModifiedFirst(p, ps) ==
    \A q \in ps \ {p} :
        IF IsNew(p) <=> IsNew(q) THEN p < q ELSE IsNew(q)

IsNext(p, ps) ==
    \A q \in ps \ {p} :
        IF IsNew(p) <=> IsNew(q) THEN p < q ELSE IsNew(p)

\* What is left to write of the page of a loop.
Carried(s) == {feed[p].tx : p \in sync[s].rows} \union sync[s].gone

\* The saved cursor is past the page that s is still writing: a loop that
\* starts now reads on from there.
Overtaken(s) == cursor > sync[s].upTo

\* Writing t again makes good what was late or given up before, unless this
\* write is late itself.
Wrote(s, ts) ==
    /\ late' = IF Overtaken(s) THEN late \union ts ELSE late \ ts
    /\ torn' = torn \ ts

Fault == faults < MaxFaults /\ faults' = faults + 1

\* Mutant of Webhook: the loop is started without the owner of the item.
WebhookWithoutOwner(s) ==
    /\ owed
    /\ sync[s].pc = "idle"
    /\ owed' = FALSE
    /\ sync' = [sync EXCEPT ![s] = Started(FALSE)]
    /\ UNCHANGED <<feed, cursor, stored, movements, faults, late, torn>>

\* The webhook answers 200 whatever becomes of the loop, so the bank does not
\* send it again.  A failed look-up of the owner drops the classification.
Webhook(s) ==
    /\ owed
    /\ sync[s].pc = "idle"
    /\ owed' = FALSE
    /\ \/ sync' = [sync EXCEPT ![s] = Started(TRUE)] /\ UNCHANGED faults
       \/ sync' = [sync EXCEPT ![s] = Started(FALSE)] /\ Fault
    /\ UNCHANGED <<feed, cursor, stored, movements, late, torn>>

\* POST /api/plaid/transactions-sync, at any time; the bound on loops always
\* leaves a place for the webhook.
UserSync(s) ==
    /\ sync[s].pc = "idle"
    /\ \E u \in Syncs \ {s} : sync[u].pc = "idle"
    /\ sync' = [sync EXCEPT ![s] = Started(TRUE)]
    /\ UNCHANGED <<feed, owed, cursor, stored, movements, faults, late, torn>>

\* getPlaidItem
ReadCursor(s) ==
    /\ sync[s].pc = "read"
    /\ sync' = [sync EXCEPT ![s].pc = "fetch", ![s].from = cursor]
    /\ UNCHANGED <<feed, owed, cursor, stored, movements, faults, late, torn>>

\* Mutant of Fetch: the next cursor is counted on instead of taken from the
\* answer.
FetchCountsOn(s) ==
    /\ sync[s].pc = "fetch"
    /\ LET c == sync[s].from
       IN  sync' = [sync EXCEPT ![s] = [@ EXCEPT !.pc = "save",
                                                 !.upTo = c + PAGE,
                                                 !.more = PageEnd(c) < Len(feed),
                                                 !.rows = Rows(c),
                                                 !.gone = RemovedIds(c)]]
    /\ UNCHANGED <<feed, owed, cursor, stored, movements, faults, late, torn>>

\* client.transactionsSync
Fetch(s) ==
    /\ sync[s].pc = "fetch"
    /\ LET c == sync[s].from
       IN  sync' = [sync EXCEPT ![s] = [@ EXCEPT !.pc = "save",
                                                 !.upTo = PageEnd(c),
                                                 !.more = PageEnd(c) < Len(feed),
                                                 !.rows = Rows(c),
                                                 !.gone = RemovedIds(c)]]
    /\ UNCHANGED <<feed, owed, cursor, stored, movements, faults, late, torn>>

\* updatePlaidItemCursor comes before the page is written, and swallows the
\* failure of its statement.  What another loop has meanwhile taken the cursor
\* back over is skipped.
SaveCursor(s) ==
    /\ sync[s].pc = "save"
    /\ sync' = [sync EXCEPT ![s].pc = "write"]
    /\ \/ /\ cursor' = sync[s].upTo
          /\ late' = late \union {feed[p].tx : p \in (cursor + 1)..sync[s].from}
          /\ UNCHANGED faults
       \/ Fault /\ UNCHANGED <<cursor, late>>
    /\ UNCHANGED <<feed, owed, stored, movements, torn>>

\* upsertTransactions: one row, one statement, one commit.
UpsertRow(s) ==
    /\ sync[s].pc = "write"
    /\ \E p \in sync[s].rows :
         LET t == feed[p].tx
         IN  /\ IsNext(p, sync[s].rows)
             /\ stored' = [stored EXCEPT ![t] = p]
             /\ Wrote(s, {t})
             /\ sync' = [sync EXCEPT ![s].rows = sync[s].rows \ {p}]
    /\ UNCHANGED <<feed, owed, cursor, movements, faults>>

\* deleteTransactions: one statement for the page; then the next page, if the
\* answer said that there is one.
DeleteRemoved(s) ==
    /\ sync[s].pc = "write"
    /\ sync[s].rows = {}
    /\ stored' = [t \in Transactions |-> IF t \in sync[s].gone THEN 0 ELSE stored[t]]
    /\ Wrote(s, sync[s].gone)
    /\ sync' = [sync EXCEPT ![s].pc = IF sync[s].more THEN "read" ELSE "classify",
                            ![s].gone = {}]
    /\ UNCHANGED <<feed, owed, cursor, movements, faults>>

\* classifyMovements rebuilds the movements from the rows it finds; a failure
\* is logged, and the loop is over.
Classify(s) ==
    /\ sync[s].pc = "classify"
    /\ movements' = IF sync[s].classify THEN stored ELSE movements
    /\ sync' = [sync EXCEPT ![s] = Idle]
    /\ UNCHANGED <<feed, owed, cursor, stored, faults, late, torn>>

\* What loops that end now leave unwritten although the cursor is past it.
GivenUp(ss) ==
    UNION {Carried(s) : s \in {u \in ss : sync[u].pc = "write" /\ cursor > sync[u].from}}

EndLoops(ss) ==
    /\ Fault
    /\ torn' = torn \union GivenUp(ss)
    /\ sync' = [s \in Syncs |-> IF s \in ss THEN Idle ELSE sync[s]]
    /\ UNCHANGED <<feed, owed, cursor, stored, movements, late>>

\* A statement or a call fails, the exception is caught outside the loop, and
\* nothing tries again.
SyncFails(s) == sync[s].pc # "idle" /\ EndLoops({s})

\* The process is lost, and every loop with it.
ProcessLost == (\E s \in Syncs : sync[s].pc # "idle") /\ EndLoops(Syncs)

----------------------------------------------------------------------------
Init ==
    /\ feed = <<>>
    /\ owed = FALSE
    /\ cursor = 0
    /\ stored = [t \in Transactions |-> 0]
    /\ movements = stored
    /\ sync = [s \in Syncs |-> Idle]
    /\ faults = 0
    /\ late = {}
    /\ torn = {}

SyncStep(s) ==
    \/ ReadCursor(s) \/ Fetch(s) \/ SaveCursor(s)
    \/ UpsertRow(s) \/ DeleteRemoved(s) \/ Classify(s)

Next ==
    \/ \E t \in Transactions, removed \in BOOLEAN : BankUpdates(t, removed)
    \/ \E s \in Syncs : Webhook(s) \/ UserSync(s) \/ SyncStep(s) \/ SyncFails(s)
    \/ ProcessLost

\* The bank delivers the webhook it owes, and the event loop runs the loops.
Fairness ==
    /\ WF_vars(\E s \in Syncs : Webhook(s))
    /\ \A s \in Syncs : WF_vars(SyncStep(s))

Spec == Init /\ [][Next]_vars /\ Fairness

----------------------------------------------------------------------------
(* Properties                                                              *)

Update == [tx : Transactions, removed : BOOLEAN]
SyncRecord ==
    [pc : {"idle", "read", "fetch", "save", "write", "classify"},
     from : 0..MaxLog, upTo : 0..MaxLog, more : BOOLEAN, rows : SUBSET (1..MaxLog),
     gone : SUBSET Transactions, classify : BOOLEAN]

\* Types; the cursor, and the version of every row, is a place in the bank's log.
TypeOK ==
    /\ feed \in Seq(Update) /\ Len(feed) <= MaxLog
    /\ owed \in BOOLEAN
    /\ cursor \in 0..Len(feed)
    /\ stored \in [Transactions -> 0..Len(feed)]
    /\ movements \in [Transactions -> 0..Len(feed)]
    /\ sync \in [Syncs -> SyncRecord]
    /\ faults \in 0..MaxFaults
    /\ late \subseteq Transactions /\ torn \subseteq Transactions

InHand(t) == \E s \in Syncs : sync[s].pc = "write" /\ t \in Carried(s)

\* The cursor is saved before the page it stands for is written.  Once no
\* loop has anything of a transaction left to write, its row is nevertheless
\* what the feed said at the cursor or after it: the cursor never skips an
\* update, except one whose page was given up half written (torn) or written
\* after another loop had taken the cursor past it (late).
RowsFollowCursor ==
    \A t \in Transactions \ (late \union torn) :
        InHand(t) \/ stored[t] \in {Replay(t, c) : c \in cursor..Len(feed)}

\* However earlier loops have failed, raced or taken the cursor back, the next
\* webhook makes it good if its loop runs alone and meets no fault: movements
\* come to show every transaction as the bank last reported it, but for those
\* that an earlier loop left torn or late.
Active == {s \in Syncs : sync[s].pc # "idle"}

LoneWebhookCatchesUp ==
    \A t \in Transactions : \A n \in 0..MaxFaults :
        (owed /\ Active = {} /\ faults = n) ~>
            \/ faults > n \/ Cardinality(Active) > 1
            \/ t \in late \union torn
            \/ movements[t] = Latest(t)
=============================================================================
