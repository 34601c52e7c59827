--------------------------- MODULE BankFeedProofs ---------------------------
(***************************************************************************)
(* Proofs about BankFeed, for any number of transactions, loops, pages and *)
(* faults.                                                                 *)
(*                                                                         *)
(* RowsFollowCursor is not inductive: a loop that ends may have excused a  *)
(* row that no loop has in hand any more.  The invariant says how old such *)
(* a row can be: never older than the place from which a loop that still   *)
(* carries the transaction has read its page, so that the loop may stop    *)
(* while the cursor is not past that place.  For this the page that is     *)
(* left to write must hold, with an update of a transaction, every later   *)
(* update of it in the page (PagesWhole), and a removal must be the last   *)
(* word on its transaction (RemovedForGood).                               *)
(***************************************************************************)
EXTENDS BankFeed, TLAPS

\* The updates that the page of a loop stood for when it was fetched.
Span(r) == (r.from + 1)..r.upTo

\* What a loop holds of the log.
LoopOk(r) ==
    /\ r.pc = "fetch" => r.from <= Len(feed)
    /\ r.pc \in {"save", "write"} =>
         /\ r.from <= r.upTo /\ r.upTo <= Len(feed)
         /\ \A p \in r.rows : p \in Span(r) /\ ~feed[p].removed
         /\ \A p \in Span(r) : feed[p].removed => feed[p].tx \in r.gone
         /\ \A t \in r.gone : \E p \in Span(r) : feed[p].tx = t /\ feed[p].removed
         /\ \A p \in r.rows, q \in Span(r) :
              p < q /\ feed[q].tx = feed[p].tx /\ ~feed[q].removed => q \in r.rows
    /\ r.pc = "save" => \A p \in Span(r) : ~feed[p].removed => p \in r.rows

PagesWhole == \A s \in Syncs : LoopOk(sync[s])

RemovedForGood ==
    \A p, q \in 1..Len(feed) : p < q /\ feed[p].removed => feed[q].tx # feed[p].tx

\* The row of t is what the feed said at c or, as far as a loop carries t, at
\* least at the place that loop started from.
Excused(t, c) ==
    \/ c >= cursor
    \/ \E s \in Syncs : sync[s].pc = "write" /\ t \in Carried(s) /\ c >= sync[s].from

RowsBounded ==
    \A t \in Transactions \ (late \union torn) :
        \E c \in 0..Len(feed) : stored[t] = Replay(t, c) /\ Excused(t, c)

\* The inductive invariant.
IInv == TypeOK /\ PagesWhole /\ RemovedForGood /\ RowsBounded

----------------------------------------------------------------------------
(* Facts about the log.                                                    *)

\* The last update of t up to c decides its version.
LEMMA ReplayIs ==
    ASSUME NEW t, NEW c \in Nat, NEW p \in 1..c, feed[p].tx = t,
           \A q \in 1..c : p < q => feed[q].tx # t
    PROVE  Replay(t, c) = IF feed[p].removed THEN 0 ELSE p
  <1>1. CASE feed[p].removed
    <2>1. LastWrites(t, c) = {}
      BY <1>1 DEF LastWrites
    <2> QED  BY <1>1, <2>1 DEF Replay
  <1>2. CASE ~feed[p].removed
    <2>1. LastWrites(t, c) = {p}
      BY <1>2 DEF LastWrites
    <2> QED  BY <1>2, <2>1 DEF Replay
  <1> QED  BY <1>1, <1>2

\* Updates of other transactions do not change a version.
LEMMA ReplaySame ==
    ASSUME NEW t, NEW c \in Nat, NEW d \in Nat, c <= d,
           \A q \in 1..d : c < q => feed[q].tx # t
    PROVE  Replay(t, c) = Replay(t, d)
  <1>1. LastWrites(t, c) = LastWrites(t, d)
    BY DEF LastWrites
  <1> QED  BY <1>1 DEF Replay

LEMMA ReplayZero == \A t : Replay(t, 0) = 0
  BY DEF Replay, LastWrites

\* What was in the log stays in it.
LEMMA FeedGrows ==
    ASSUME TypeOK, NEW t \in Transactions, NEW removed \in BOOLEAN,
           feed' = Append(feed, [tx |-> t, removed |-> removed])
    PROVE  /\ Len(feed) \in Nat
           /\ Len(feed') = Len(feed) + 1
           /\ \A p \in 1..Len(feed) : feed'[p] = feed[p]
           /\ feed'[Len(feed) + 1] = [tx |-> t, removed |-> removed]
  BY DEF TypeOK

LEMMA ReplayKept ==
    ASSUME TypeOK, NEW c \in 0..Len(feed), NEW t,
           \A p \in 1..Len(feed) : feed'[p] = feed[p]
    PROVE  Replay(t, c)' = Replay(t, c)
  <1>1. \A p \in 1..c : feed'[p] = feed[p]
    BY DEF TypeOK
  <1>2. LastWrites(t, c)' = LastWrites(t, c)
    BY <1>1 DEF LastWrites
  <1> QED  BY <1>2 DEF Replay

----------------------------------------------------------------------------
(* Types.                                                                  *)

LEMMA Limits ==
    /\ MaxTransactions \in Nat /\ MaxLog \in Nat /\ MaxFaults \in Nat
    /\ PAGE \in Nat /\ PAGE > 0
  BY FeedAssumption

LEMMA IdleIsRecord ==
    Idle \in SyncRecord /\ Started(TRUE) \in SyncRecord /\ Started(FALSE) \in SyncRecord
  <1>1. 0 \in 0..MaxLog /\ {} \in SUBSET (1..MaxLog) /\ {} \in SUBSET Transactions
    BY Limits
  <1>2. \A b \in BOOLEAN : Loop("idle", b) \in SyncRecord /\ Loop("read", b) \in SyncRecord
    BY <1>1 DEF Loop, SyncRecord
  <1> QED  BY <1>2 DEF Idle, Started

LEMMA FeedFields ==
    ASSUME TypeOK
    PROVE  /\ Len(feed) \in Nat /\ Len(feed) <= MaxLog
           /\ \A p \in 1..Len(feed) :
                feed[p] \in Update /\ feed[p].tx \in Transactions /\ feed[p].removed \in BOOLEAN
  <1>1. feed \in Seq(Update) /\ Len(feed) \in Nat /\ Len(feed) <= MaxLog
    BY DEF TypeOK
  <1>2. \A p \in 1..Len(feed) : feed[p] \in Update
    BY <1>1
  <1> QED  BY <1>1, <1>2 DEF Update

LEMMA SyncFields ==
    ASSUME TypeOK, NEW s \in Syncs
    PROVE  /\ sync[s] \in SyncRecord
           /\ sync[s].from \in Nat /\ sync[s].upTo \in Nat
           /\ sync[s].from <= MaxLog /\ sync[s].upTo <= MaxLog
           /\ sync[s].rows \subseteq 1..MaxLog
           /\ sync[s].gone \subseteq Transactions
           /\ cursor \in Nat /\ cursor <= Len(feed)
           /\ Len(feed) \in Nat /\ Len(feed) <= MaxLog
           /\ \A p \in 1..Len(feed) : feed[p].tx \in Transactions /\ feed[p].removed \in BOOLEAN
  <1>1. sync[s] \in SyncRecord
    BY DEF TypeOK
  <1>2. /\ sync[s].from \in 0..MaxLog /\ sync[s].upTo \in 0..MaxLog
        /\ sync[s].rows \in SUBSET (1..MaxLog) /\ sync[s].gone \in SUBSET Transactions
    BY <1>1 DEF SyncRecord
  <1>3. cursor \in 0..Len(feed)
    BY DEF TypeOK
  <1> QED  BY <1>1, <1>2, <1>3, FeedFields, Limits

\* The answer of the bank to a loop.
LEMMA PageFacts ==
    ASSUME TypeOK, NEW c \in 0..Len(feed)
    PROVE  /\ PageEnd(c) \in c..Len(feed)
           /\ Rows(c) \subseteq 1..Len(feed)
           /\ RemovedIds(c) \subseteq Transactions
  <1>1. PageEnd(c) \in c..Len(feed)
    BY Limits DEF PageEnd, TypeOK
  <1>2. PageOf(c) \subseteq 1..Len(feed)
    BY <1>1 DEF PageOf, TypeOK
  <1>3. \A p \in 1..Len(feed) : feed[p].tx \in Transactions
    BY FeedFields
  <1> QED  BY <1>1, <1>2, <1>3 DEF Rows, RemovedIds

LEMMA InitInv == Init => IInv
  <1> SUFFICES ASSUME Init PROVE IInv
    OBVIOUS
  <1>1. feed \in Seq(Update) /\ Len(feed) = 0
    BY DEF Init
  <1>2. TypeOK
    <2>1. sync \in [Syncs -> SyncRecord]
      BY IdleIsRecord DEF Init
    <2>2. stored \in [Transactions -> 0..Len(feed)] /\ movements = stored
      BY <1>1 DEF Init
    <2>3. owed \in BOOLEAN
      BY DEF Init
    <2>4. cursor = 0
      BY DEF Init
    <2>5. Len(feed) <= MaxLog /\ cursor \in 0..Len(feed)
      BY <1>1, <2>4, Limits
    <2>6. faults \in 0..MaxFaults /\ late = {} /\ torn = {}
      BY Limits DEF Init
    <2> QED  BY <1>1, <2>1, <2>2, <2>3, <2>5, <2>6 DEF TypeOK
  <1>3. \A s \in Syncs : sync[s].pc = "idle"
    BY DEF Init, Idle, Loop
  <1>4. PagesWhole
    BY <1>3 DEF PagesWhole, LoopOk
  <1>5. RemovedForGood
    BY <1>1 DEF RemovedForGood
  <1>6. RowsBounded
    <2> SUFFICES ASSUME NEW t \in Transactions
                 PROVE  \E c \in 0..Len(feed) : stored[t] = Replay(t, c) /\ Excused(t, c)
      BY DEF RowsBounded
    <2>1. stored[t] = Replay(t, 0) /\ Excused(t, 0)
      BY ReplayZero DEF Init, Excused
    <2> QED  BY <2>1, <1>1
  <1> QED  BY <1>2, <1>4, <1>5, <1>6 DEF IInv

LEMMA BankUpdatesInv ==
    ASSUME IInv, NEW t \in Transactions, NEW removed \in BOOLEAN, BankUpdates(t, removed)
    PROVE  IInv'
  <1> DEFINE n == Len(feed)
             u == [tx |-> t, removed |-> removed]
  <1>1. TypeOK /\ feed' = Append(feed, u) /\ n < MaxLog /\ ~Removed(t)
    BY DEF IInv, BankUpdates
  <1>2. /\ n \in Nat /\ Len(feed') = n + 1
        /\ \A p \in 1..n : feed'[p] = feed[p]
        /\ feed'[n + 1] = u
    BY <1>1, FeedGrows
  <1>3. UNCHANGED <<cursor, stored, movements, sync, faults, late, torn>> /\ owed' = TRUE
    BY DEF BankUpdates
  <1>4. feed' \in Seq(Update)
    BY <1>1 DEF TypeOK, Update
  <1>5. TypeOK'
    BY <1>1, <1>2, <1>3, <1>4, Limits DEF TypeOK
  <1>8. \A s \in Syncs : sync[s].pc \in {"save", "write"} => Span(sync[s]) \subseteq 1..n
    <2> TAKE s \in Syncs
    <2> QED  BY <1>1, SyncFields DEF Span, PagesWhole, LoopOk, IInv
  <1>9. PagesWhole'
    <2> SUFFICES ASSUME NEW s \in Syncs
                 PROVE  LoopOk(sync[s])'
      BY <1>3 DEF PagesWhole
    <2>1. LoopOk(sync[s])
      BY DEF PagesWhole, IInv
    <2>2. CASE sync[s].pc \in {"save", "write"}
      <3>1. \A p \in Span(sync[s]) : feed'[p] = feed[p]
        BY <1>2, <1>8, <2>2
      <3>2. sync[s].from <= sync[s].upTo /\ sync[s].upTo <= Len(feed')
        BY <1>1, <1>2, <2>1, <2>2, SyncFields DEF LoopOk
      <3>3. Span(sync[s])' = Span(sync[s])
        BY <1>3 DEF Span
      <3>4. \A p \in sync[s].rows : p \in Span(sync[s]) /\ ~feed'[p].removed
        BY <2>1, <2>2, <3>1 DEF LoopOk
      <3>5. \A p \in Span(sync[s]) : feed'[p].removed => feed'[p].tx \in sync[s].gone
        BY <2>1, <2>2, <3>1 DEF LoopOk
      <3>6. \A x \in sync[s].gone :
                \E p \in Span(sync[s]) : feed'[p].tx = x /\ feed'[p].removed
        BY <2>1, <2>2, <3>1 DEF LoopOk
      <3>7. \A p \in sync[s].rows, q \in Span(sync[s]) :
                p < q /\ feed'[q].tx = feed'[p].tx /\ ~feed'[q].removed => q \in sync[s].rows
        BY <2>1, <2>2, <3>1, <3>4 DEF LoopOk
      <3>8. sync[s].pc = "save" =>
                \A p \in Span(sync[s]) : ~feed'[p].removed => p \in sync[s].rows
        BY <2>1, <3>1, <2>2 DEF LoopOk
      <3> QED  BY <1>3, <2>2, <3>2, <3>3, <3>4, <3>5, <3>6, <3>7, <3>8 DEF LoopOk
    <2>3. CASE sync[s].pc \notin {"save", "write"}
      <3>1. sync[s].pc = "fetch" => sync[s].from <= Len(feed')
        BY <1>1, <1>2, <2>1, SyncFields DEF LoopOk
      <3> QED  BY <1>3, <2>3, <3>1 DEF LoopOk
    <2> QED  BY <2>2, <2>3
  <1>10. RemovedForGood'
    <2> SUFFICES ASSUME NEW p \in 1..(n + 1), NEW q \in 1..(n + 1), p < q, feed'[p].removed
                 PROVE  feed'[q].tx # feed'[p].tx
      BY <1>2 DEF RemovedForGood
    <2>1. p \in 1..n /\ feed[p].removed
      BY <1>2
    <2>2. CASE q \in 1..n
      BY <1>2, <2>1, <2>2 DEF RemovedForGood, IInv
    <2>3. CASE q = n + 1
      <3>1. feed[p].tx # t
        BY <1>1, <2>1 DEF Removed, TypeOK
      <3> QED  BY <3>1, <2>1, <2>3, <1>2
    <2> QED  BY <2>2, <2>3, <1>2
  <1>11. RowsBounded'
    <2> SUFFICES ASSUME NEW x \in Transactions \ (late \union torn)
                 PROVE  \E c \in 0..(n + 1) : stored[x] = Replay(x, c)' /\ Excused(x, c)'
      BY <1>2, <1>3 DEF RowsBounded
    <2>1. PICK c \in 0..n : stored[x] = Replay(x, c) /\ Excused(x, c)
      BY DEF RowsBounded, IInv
    <2>2. Replay(x, c)' = Replay(x, c)
      BY <1>1, <1>2, ReplayKept
    <2>3. \A s \in Syncs : sync[s].pc = "write" => Carried(s)' = Carried(s)
      <3> SUFFICES ASSUME NEW s \in Syncs, sync[s].pc = "write"
                   PROVE  Carried(s)' = Carried(s)
        OBVIOUS
      <3>1. \A p \in sync[s].rows : feed'[p] = feed[p]
        BY <1>2, <1>8 DEF PagesWhole, LoopOk, IInv
      <3> QED  BY <3>1, <1>3 DEF Carried
    <2>4. Excused(x, c)'
      BY <2>1, <2>3, <1>3 DEF Excused
    <2> QED  BY <2>1, <2>2, <2>4, <1>2
  <1> QED  BY <1>5, <1>9, <1>10, <1>11 DEF IInv

----------------------------------------------------------------------------
(* The steps of the loops.                                                 *)

\* One loop takes a step, and the log stays.
LEMMA LoopsKept ==
    ASSUME IInv, NEW s \in Syncs, NEW r \in SyncRecord, LoopOk(r),
           sync' = [sync EXCEPT ![s] = r], UNCHANGED feed
    PROVE  /\ sync' \in [Syncs -> SyncRecord]
           /\ sync'[s] = r /\ \A u \in Syncs \ {s} : sync'[u] = sync[u]
           /\ PagesWhole' /\ RemovedForGood'
  <1>1. sync \in [Syncs -> SyncRecord]
    BY DEF IInv, TypeOK
  <1>2. sync'[s] = r /\ \A u \in Syncs \ {s} : sync'[u] = sync[u]
    BY <1>1
  <1>3. PagesWhole'
    <2> SUFFICES ASSUME NEW u \in Syncs PROVE LoopOk(sync[u])'
      BY DEF PagesWhole
    <2>1. LoopOk(sync'[u])
      BY <1>2 DEF IInv, PagesWhole
    <2> QED  BY <2>1 DEF LoopOk, Span
  <1>4. RemovedForGood'
    BY DEF IInv, RemovedForGood
  <1> QED  BY <1>1, <1>2, <1>3, <1>4

\* As long as no loop stops writing, the bound on the rows stays.
LEMMA RowsKept ==
    ASSUME IInv, UNCHANGED <<feed, cursor, stored, late, torn>>,
           \A u \in Syncs : sync[u].pc = "write" => sync'[u] = sync[u]
    PROVE  RowsBounded'
  <1> SUFFICES ASSUME NEW t \in Transactions \ (late \union torn)
               PROVE  \E c \in 0..Len(feed) : stored[t] = Replay(t, c)' /\ Excused(t, c)'
    BY DEF RowsBounded
  <1>1. PICK c \in 0..Len(feed) : stored[t] = Replay(t, c) /\ Excused(t, c)
    BY DEF RowsBounded, IInv
  <1>2. Replay(t, c)' = Replay(t, c)
    BY DEF Replay, LastWrites
  <1>3. \A u \in Syncs : sync[u].pc = "write" => Carried(u)' = Carried(u)
    BY DEF Carried
  <1>4. Excused(t, c)'
    BY <1>1, <1>3 DEF Excused
  <1> QED  BY <1>1, <1>2, <1>4

\* Steps before the page is written.
LEMMA StartInv ==
    ASSUME IInv, NEW s \in Syncs, NEW b \in BOOLEAN,
           sync[s].pc = "idle", sync' = [sync EXCEPT ![s] = Started(b)],
           owed' \in BOOLEAN, faults' \in 0..MaxFaults,
           UNCHANGED <<feed, cursor, stored, movements, late, torn>>
    PROVE  IInv'
  <1> DEFINE r == Started(b)
  <1>1. r \in SyncRecord /\ r.pc = "read"
    BY IdleIsRecord DEF Started, Loop
  <1>2. LoopOk(r)
    BY <1>1 DEF LoopOk
  <1> HIDE DEF r
  <1>3. /\ sync' \in [Syncs -> SyncRecord] /\ PagesWhole' /\ RemovedForGood'
        /\ \A u \in Syncs \ {s} : sync'[u] = sync[u]
    BY <1>1, <1>2, LoopsKept DEF r
  <1>4. RowsBounded'
    BY <1>3, RowsKept
  <1>5. TypeOK'
    BY <1>3 DEF IInv, TypeOK
  <1> QED  BY <1>3, <1>4, <1>5 DEF IInv

LEMMA WebhookInv ==
    ASSUME IInv, NEW s \in Syncs, Webhook(s)
    PROVE  IInv'
  <1>1. owed' \in BOOLEAN
    BY DEF Webhook
  <1>2. faults' \in 0..MaxFaults
    <2>1. faults \in 0..MaxFaults
      BY DEF IInv, TypeOK
    <2>2. faults' = faults \/ (faults < MaxFaults /\ faults' = faults + 1)
      BY DEF Webhook, Fault
    <2> QED  BY <2>1, <2>2, Limits
  <1>3. \E b \in BOOLEAN : sync' = [sync EXCEPT ![s] = Started(b)]
    BY DEF Webhook
  <1> QED  BY <1>1, <1>2, <1>3, StartInv DEF Webhook

LEMMA UserSyncInv ==
    ASSUME IInv, NEW s \in Syncs, UserSync(s)
    PROVE  IInv'
  <1>1. owed' \in BOOLEAN /\ faults' \in 0..MaxFaults
    BY DEF UserSync, IInv, TypeOK
  <1> QED  BY <1>1, StartInv DEF UserSync

LEMMA ReadCursorInv ==
    ASSUME IInv, NEW s \in Syncs, ReadCursor(s)
    PROVE  IInv'
  <1> DEFINE r == [sync[s] EXCEPT !.pc = "fetch", !.from = cursor]
  <1>1. sync' = [sync EXCEPT ![s] = r]
    BY DEF ReadCursor, IInv, TypeOK
  <1>2. sync[s] \in SyncRecord /\ cursor \in 0..MaxLog /\ cursor <= Len(feed)
    BY SyncFields, Limits DEF IInv
  <1>3. r \in SyncRecord /\ r.pc = "fetch" /\ r.from = cursor
    BY <1>2 DEF SyncRecord
  <1>4. LoopOk(r)
    BY <1>2, <1>3 DEF LoopOk
  <1> HIDE DEF r
  <1>5. /\ sync' \in [Syncs -> SyncRecord] /\ PagesWhole' /\ RemovedForGood'
        /\ \A u \in Syncs \ {s} : sync'[u] = sync[u]
    BY <1>1, <1>3, <1>4, LoopsKept DEF ReadCursor
  <1>6. RowsBounded'
    BY <1>5, RowsKept DEF ReadCursor
  <1>7. TypeOK'
    BY <1>5 DEF ReadCursor, IInv, TypeOK
  <1> QED  BY <1>5, <1>6, <1>7 DEF IInv

LEMMA FetchInv ==
    ASSUME IInv, NEW s \in Syncs, Fetch(s)
    PROVE  IInv'
  <1> DEFINE c == sync[s].from
             r == [sync[s] EXCEPT !.pc = "save", !.upTo = PageEnd(c),
                                  !.more = PageEnd(c) < Len(feed),
                                  !.rows = Rows(c), !.gone = RemovedIds(c)]
  <1>1. sync' = [sync EXCEPT ![s] = r]
    BY DEF Fetch, IInv, TypeOK
  <1>2. TypeOK /\ sync[s] \in SyncRecord /\ c \in 0..Len(feed) /\ Len(feed) \in Nat
             /\ Len(feed) <= MaxLog
    BY SyncFields DEF IInv, PagesWhole, LoopOk, Fetch
  <1>3. /\ PageEnd(c) \in c..Len(feed) /\ PageEnd(c) \in 0..MaxLog
        /\ Rows(c) \in SUBSET (1..MaxLog) /\ RemovedIds(c) \in SUBSET Transactions
    BY <1>2, PageFacts, Limits
  <1>4. /\ r \in SyncRecord /\ r.pc = "save" /\ r.from = c /\ r.upTo = PageEnd(c)
        /\ r.rows = Rows(c) /\ r.gone = RemovedIds(c)
    <2>1. (PageEnd(c) < Len(feed)) \in BOOLEAN
      OBVIOUS
    <2> QED  BY <1>2, <1>3, <2>1 DEF SyncRecord
  <1> HIDE DEF r
  <1>5. Span(r) = PageOf(c)
    BY <1>4 DEF Span, PageOf
  <1>6. LoopOk(r)
    <2>1. r.from <= r.upTo /\ r.upTo <= Len(feed)
      BY <1>2, <1>3, <1>4
    <2> QED  BY <1>4, <1>5, <2>1 DEF LoopOk, Rows, RemovedIds
  <1>7. /\ sync' \in [Syncs -> SyncRecord] /\ PagesWhole' /\ RemovedForGood'
        /\ \A u \in Syncs \ {s} : sync'[u] = sync[u]
    BY <1>1, <1>4, <1>6, LoopsKept DEF Fetch
  <1>8. RowsBounded'
    BY <1>7, RowsKept DEF Fetch
  <1>9. TypeOK'
    BY <1>7 DEF Fetch, IInv, TypeOK
  <1> QED  BY <1>7, <1>8, <1>9 DEF IInv

LEMMA ClassifyInv ==
    ASSUME IInv, NEW s \in Syncs, Classify(s)
    PROVE  IInv'
  <1>1. Idle \in SyncRecord /\ LoopOk(Idle)
    BY IdleIsRecord DEF LoopOk, Idle, Loop
  <1>2. /\ sync' \in [Syncs -> SyncRecord] /\ PagesWhole' /\ RemovedForGood'
        /\ \A u \in Syncs \ {s} : sync'[u] = sync[u]
    BY <1>1, LoopsKept DEF Classify
  <1>3. RowsBounded'
    BY <1>2, RowsKept DEF Classify
  <1>4. TypeOK'
    BY <1>2 DEF Classify, IInv, TypeOK
  <1> QED  BY <1>2, <1>3, <1>4 DEF IInv

\* Steps that write the page.
LEMMA SaveCursorInv ==
    ASSUME IInv, NEW s \in Syncs, SaveCursor(s)
    PROVE  IInv'
  <1> DEFINE r == [sync[s] EXCEPT !.pc = "write"]
  <1>1. sync' = [sync EXCEPT ![s] = r] /\ sync[s].pc = "save"
    BY DEF SaveCursor, IInv, TypeOK
  <1>2. TypeOK /\ sync[s] \in SyncRecord /\ LoopOk(sync[s])
    BY SyncFields DEF IInv, PagesWhole
  <1>3. /\ r \in SyncRecord /\ r.pc = "write" /\ r.from = sync[s].from
        /\ r.upTo = sync[s].upTo /\ r.rows = sync[s].rows /\ r.gone = sync[s].gone
    BY <1>2 DEF SyncRecord
  <1> HIDE DEF r
  <1>4. LoopOk(r)
    <2>1. Span(r) = Span(sync[s])
      BY <1>3 DEF Span
    <2> QED  BY <1>1, <1>2, <1>3, <2>1 DEF LoopOk
  <1>5. UNCHANGED <<feed, owed, stored, movements, torn>>
    BY DEF SaveCursor
  <1>6. /\ sync' \in [Syncs -> SyncRecord] /\ PagesWhole' /\ RemovedForGood'
        /\ sync'[s] = r /\ \A u \in Syncs \ {s} : sync'[u] = sync[u]
    BY <1>1, <1>3, <1>4, <1>5, LoopsKept
  <1>7. /\ sync[s].from \in Nat /\ sync[s].upTo \in Nat /\ cursor \in Nat
        /\ sync[s].from <= sync[s].upTo /\ sync[s].upTo <= Len(feed)
        /\ cursor <= Len(feed) /\ Len(feed) \in Nat /\ Len(feed) <= MaxLog
    BY <1>1, <1>2, SyncFields DEF LoopOk
  <1>8. \/ /\ cursor' = sync[s].upTo /\ faults' = faults
           /\ late' = late \union {feed[p].tx : p \in (cursor + 1)..sync[s].from}
        \/ cursor' = cursor /\ late' = late /\ faults < MaxFaults /\ faults' = faults + 1
    BY DEF SaveCursor, Fault
  <1>9. TypeOK'
    <2>1. cursor' \in 0..Len(feed)
      BY <1>7, <1>8
    <2>2. faults' \in 0..MaxFaults
      BY <1>2, <1>8, Limits DEF TypeOK
    <2>3. late' \subseteq Transactions
      <3>1. \A p \in (cursor + 1)..sync[s].from : feed[p].tx \in Transactions
        BY <1>2, <1>7, FeedFields
      <3> QED  BY <1>2, <1>8, <3>1 DEF TypeOK
    <2> QED  BY <1>2, <1>5, <1>6, <2>1, <2>2, <2>3 DEF TypeOK
  <1>10. \A u \in Syncs : sync[u].pc = "write" =>
             /\ sync'[u].pc = "write" /\ sync'[u].from = sync[u].from
             /\ Carried(u)' = Carried(u)
    BY <1>1, <1>5, <1>6 DEF Carried
  <1>11. RowsBounded'
    <2> SUFFICES ASSUME NEW t \in Transactions \ (late' \union torn)
                 PROVE  \E c \in 0..Len(feed) : stored[t] = Replay(t, c) /\ Excused(t, c)'
      BY <1>5 DEF RowsBounded, Replay, LastWrites
    <2>1. t \in Transactions \ (late \union torn)
      BY <1>8
    <2>2. PICK c \in 0..Len(feed) : stored[t] = Replay(t, c) /\ Excused(t, c)
      BY <2>1 DEF RowsBounded, IInv
    <2>3. CASE c < cursor
      BY <1>10, <2>2, <2>3, <1>7 DEF Excused
    <2>4. CASE cursor <= c /\ cursor' <= c
      BY <2>2, <2>4, <1>7, <1>8 DEF Excused
    <2>5. CASE cursor <= c /\ c < cursor'
      <3>1. cursor' = sync[s].upTo /\ \A p \in (cursor + 1)..sync[s].from : feed[p].tx # t
        BY <1>7, <1>8, <2>5
      <3>2. CASE \A q \in 1..sync[s].upTo : c < q => feed[q].tx # t
        <4>1. PICK d \in 0..Len(feed) : d = sync[s].upTo
          BY <1>7
        <4>2. stored[t] = Replay(t, d)
          BY <2>2, <2>5, <3>1, <3>2, <1>7, <4>1, ReplaySame
        <4>3. Excused(t, d)'
          BY <4>1, <3>1 DEF Excused
        <4> QED  BY <4>2, <4>3
      <3>3. CASE \E q \in 1..sync[s].upTo : c < q /\ feed[q].tx = t
        <4>1. PICK q \in 1..sync[s].upTo : c < q /\ feed[q].tx = t
          BY <3>3
        <4>2. q > sync[s].from
          BY <4>1, <3>1, <2>5, <1>7
        <4>3. q \in Span(sync[s])
          BY <4>1, <4>2, <1>7 DEF Span
        <4>4. t \in Carried(s)'
          <5>1. q \in sync[s].rows \/ t \in sync[s].gone
            BY <1>1, <1>2, <4>1, <4>3 DEF LoopOk
          <5> QED  BY <1>3, <1>5, <1>6, <5>1, <4>1 DEF Carried
        <4>5. CASE sync[s].from <= c
          <5>1. Excused(t, c)'
            BY <1>3, <1>6, <4>4, <4>5 DEF Excused
          <5> QED  BY <2>2, <5>1
        <4>6. CASE c < sync[s].from
          <5>1. \A p \in 1..sync[s].from : c < p => feed[p].tx # t
            BY <3>1, <2>5, <1>7
          <5>2. PICK d \in 0..Len(feed) : d = sync[s].from
            BY <1>7
          <5>3. stored[t] = Replay(t, d)
            BY <2>2, <4>6, <5>1, <5>2, <1>7, ReplaySame
          <5>4. Excused(t, d)'
            BY <1>3, <1>6, <1>7, <4>4, <5>2 DEF Excused
          <5> QED  BY <5>3, <5>4
        <4> QED  BY <4>5, <4>6, <1>7
      <3> QED  BY <3>2, <3>3
    <2> QED  BY <2>3, <2>4, <2>5, <1>7, <1>8
  <1> QED  BY <1>6, <1>9, <1>11 DEF IInv

LEMMA UpsertRowInv ==
    ASSUME IInv, NEW s \in Syncs, UpsertRow(s)
    PROVE  IInv'
  <1>1. PICK p \in sync[s].rows :
            /\ IsNext(p, sync[s].rows)
            /\ stored' = [stored EXCEPT ![feed[p].tx] = p]
            /\ Wrote(s, {feed[p].tx})
            /\ sync' = [sync EXCEPT ![s].rows = sync[s].rows \ {p}]
    BY DEF UpsertRow
  <1> DEFINE x == feed[p].tx
             r == [sync[s] EXCEPT !.rows = sync[s].rows \ {p}]
  <1>2. sync[s].pc = "write" /\ UNCHANGED <<feed, owed, cursor, movements, faults>>
    BY DEF UpsertRow
  <1>3. TypeOK /\ sync[s] \in SyncRecord /\ LoopOk(sync[s])
    BY SyncFields DEF IInv, PagesWhole
  <1>4. sync' = [sync EXCEPT ![s] = r]
    BY <1>1, <1>3 DEF TypeOK
  <1>5. /\ r \in SyncRecord /\ r.pc = "write" /\ r.from = sync[s].from
        /\ r.upTo = sync[s].upTo /\ r.rows = sync[s].rows \ {p} /\ r.gone = sync[s].gone
    BY <1>2, <1>3 DEF SyncRecord
  <1> HIDE DEF r
  <1>6. /\ sync[s].from \in Nat /\ sync[s].upTo \in Nat /\ cursor \in Nat
        /\ sync[s].from <= sync[s].upTo /\ sync[s].upTo <= Len(feed)
        /\ cursor <= Len(feed) /\ Len(feed) \in Nat
    BY <1>2, <1>3, SyncFields DEF LoopOk
  <1>7. p \in Span(sync[s]) /\ ~feed[p].removed
    BY <1>2, <1>3 DEF LoopOk
  <1>8. p \in 1..Len(feed) /\ sync[s].from < p /\ p <= sync[s].upTo /\ x \in Transactions
    BY <1>3, <1>6, <1>7, FeedFields DEF Span
  <1>9. \A q \in sync[s].rows : feed[q].tx = x => p <= q
    <2> SUFFICES ASSUME NEW q \in sync[s].rows \ {p}, feed[q].tx = x PROVE p <= q
      BY <1>8
    <2>1. q \in 1..Len(feed)
      BY <1>2, <1>3, <1>6 DEF LoopOk, Span
    <2>2. IF IsNew(p) <=> IsNew(q) THEN p < q ELSE IsNew(p)
      BY <1>1 DEF IsNext
    <2>3. IsNew(p) /\ q < p => FALSE
      BY <2>1, <1>8 DEF IsNew
    <2>4. IsNew(p) \in BOOLEAN /\ IsNew(q) \in BOOLEAN
      BY DEF IsNew
    <2>5. IsNew(p) => ~(q < p)
      BY <2>3
    <2>6. ~IsNew(p) => p < q
      BY <2>2, <2>4
    <2> QED  BY <2>1, <2>5, <2>6, <1>8
  <1>10. LoopOk(r)
    <2>1. Span(r) = Span(sync[s])
      BY <1>5 DEF Span
    <2>2. \A a \in r.rows, q \in Span(r) :
             a < q /\ feed[q].tx = feed[a].tx /\ ~feed[q].removed => q \in r.rows
      <3> SUFFICES ASSUME NEW a \in r.rows, NEW q \in Span(r),
                          a < q, feed[q].tx = feed[a].tx, ~feed[q].removed
                   PROVE  q \in r.rows
        OBVIOUS
      <3>1. a \in sync[s].rows /\ a # p /\ q \in sync[s].rows
        BY <1>2, <1>3, <1>5, <2>1 DEF LoopOk
      <3>2. a \in 1..Len(feed)
        BY <3>1, <1>2, <1>3, <1>6 DEF LoopOk, Span
      <3>3. q # p
        BY <3>1, <3>2, <1>9, <1>8
      <3> QED  BY <3>1, <3>3, <1>5
    <2> QED  BY <1>2, <1>3, <1>5, <2>1, <2>2 DEF LoopOk
  <1>11. /\ sync' \in [Syncs -> SyncRecord] /\ PagesWhole' /\ RemovedForGood'
         /\ sync'[s] = r /\ \A u \in Syncs \ {s} : sync'[u] = sync[u]
    BY <1>2, <1>4, <1>5, <1>10, LoopsKept
  <1>12. TypeOK'
    <2>1. stored' \in [Transactions -> 0..Len(feed)]
      BY <1>1, <1>3, <1>8 DEF TypeOK
    <2>2. late' \subseteq Transactions /\ torn' \subseteq Transactions
      BY <1>1, <1>3, <1>8 DEF TypeOK, Wrote
    <2> QED  BY <1>2, <1>3, <1>11, <2>1, <2>2 DEF TypeOK
  <1>13. RowsBounded'
    <2>0. \A t, c : Replay(t, c)' = Replay(t, c)
      BY <1>2 DEF Replay, LastWrites
    <2> SUFFICES ASSUME NEW t \in Transactions \ (late' \union torn')
                 PROVE  \E c \in 0..Len(feed) : stored'[t] = Replay(t, c) /\ Excused(t, c)'
      BY <1>2, <2>0 DEF RowsBounded
    <2>1. CASE t # x
      <3>1. t \notin late \union torn /\ stored'[t] = stored[t]
        BY <1>1, <1>3, <2>1 DEF Wrote, TypeOK
      <3>2. PICK c \in 0..Len(feed) : stored[t] = Replay(t, c) /\ Excused(t, c)
        BY <3>1 DEF RowsBounded, IInv
      <3>3. \A u \in Syncs : sync[u].pc = "write" /\ t \in Carried(u) =>
               sync'[u].pc = "write" /\ t \in Carried(u)' /\ sync'[u].from = sync[u].from
        <4> SUFFICES ASSUME NEW u \in Syncs, sync[u].pc = "write", t \in Carried(u)
                     PROVE  sync'[u].pc = "write" /\ t \in Carried(u)' /\ sync'[u].from = sync[u].from
          OBVIOUS
        <4>1. CASE u # s
          BY <1>2, <1>11, <4>1 DEF Carried
        <4>2. CASE u = s
          BY <1>2, <1>5, <1>11, <2>1, <4>2 DEF Carried
        <4> QED  BY <4>1, <4>2
      <3>4. Excused(t, c)'
        BY <3>2, <3>3, <1>2 DEF Excused
      <3> QED  BY <3>1, <3>2, <3>4
    <2>2. CASE t = x
      <3>1. stored'[t] = p
        BY <1>1, <1>3, <1>8, <2>2 DEF TypeOK
      <3>2. cursor <= sync[s].upTo
        BY <1>1, <1>6, <2>2 DEF Wrote, Overtaken
      <3>3. CASE t \in Carried(s)'
        <4>1. stored'[t] = Replay(t, p)
          <5>1. p \in Nat /\ p \in 1..p /\ \A q \in 1..p : p < q => feed[q].tx # t
            BY <1>8
          <5> QED  BY <3>1, <5>1, <1>7, <2>2, ReplayIs
        <4>2. Excused(t, p)'
          BY <1>5, <1>6, <1>8, <1>11, <3>3 DEF Excused
        <4> QED  BY <4>1, <4>2, <1>8
      <3>4. CASE t \notin Carried(s)'
        <4>1. \A q \in sync[s].rows \ {p} : feed[q].tx # t
          BY <3>4, <1>2, <1>5, <1>11 DEF Carried
        <4>2. t \notin sync[s].gone
          BY <3>4, <1>2, <1>5, <1>11 DEF Carried
        <4>3. \A q \in 1..sync[s].upTo : p < q => feed[q].tx # t
          <5> SUFFICES ASSUME NEW q \in 1..sync[s].upTo, p < q, feed[q].tx = t PROVE FALSE
            OBVIOUS
          <5>1. q \in Span(sync[s])
            BY <1>6, <1>8 DEF Span
          <5>2. ~feed[q].removed
            BY <1>2, <1>3, <4>2, <5>1 DEF LoopOk
          <5>3. q \in sync[s].rows
            BY <1>2, <1>3, <2>2, <5>1, <5>2 DEF LoopOk
          <5> QED  BY <4>1, <5>3, <1>8
        <4>4. PICK d \in 0..Len(feed) : d = sync[s].upTo
          BY <1>6
        <4>5. stored'[t] = Replay(t, d)
          BY <3>1, <4>3, <4>4, <1>6, <1>7, <1>8, <2>2, ReplayIs
        <4>6. Excused(t, d)'
          BY <3>2, <4>4, <1>2, <1>6 DEF Excused
        <4> QED  BY <4>5, <4>6
      <3> QED  BY <3>3, <3>4
    <2> QED  BY <2>1, <2>2
  <1> QED  BY <1>11, <1>12, <1>13 DEF IInv

LEMMA DeleteRemovedInv ==
    ASSUME IInv, NEW s \in Syncs, DeleteRemoved(s)
    PROVE  IInv'
  <1> DEFINE r == [sync[s] EXCEPT !.pc = IF sync[s].more THEN "read" ELSE "classify",
                                  !.gone = {}]
  <1>1. /\ sync[s].pc = "write" /\ sync[s].rows = {}
        /\ stored' = [t \in Transactions |-> IF t \in sync[s].gone THEN 0 ELSE stored[t]]
        /\ Wrote(s, sync[s].gone)
        /\ UNCHANGED <<feed, owed, cursor, movements, faults>>
    BY DEF DeleteRemoved
  <1>2. TypeOK /\ sync[s] \in SyncRecord /\ LoopOk(sync[s])
    BY SyncFields DEF IInv, PagesWhole
  <1>3. sync' = [sync EXCEPT ![s] = r]
    BY <1>2 DEF DeleteRemoved, TypeOK
  <1>4. r \in SyncRecord /\ r.pc \in {"read", "classify"}
    BY <1>2 DEF SyncRecord
  <1> HIDE DEF r
  <1>5. LoopOk(r)
    BY <1>4 DEF LoopOk
  <1>6. /\ sync' \in [Syncs -> SyncRecord] /\ PagesWhole' /\ RemovedForGood'
        /\ \A u \in Syncs \ {s} : sync'[u] = sync[u]
    BY <1>1, <1>3, <1>4, <1>5, LoopsKept
  <1>7. /\ sync[s].from \in Nat /\ sync[s].upTo \in Nat /\ cursor \in Nat
        /\ sync[s].from <= sync[s].upTo /\ sync[s].upTo <= Len(feed)
        /\ Len(feed) \in Nat /\ sync[s].gone \subseteq Transactions
    BY <1>1, <1>2, SyncFields DEF LoopOk
  <1>8. TypeOK'
    <2>1. stored' \in [Transactions -> 0..Len(feed)]
      BY <1>1, <1>2, <1>7 DEF TypeOK
    <2>2. late' \subseteq Transactions /\ torn' \subseteq Transactions
      BY <1>1, <1>2, <1>7 DEF TypeOK, Wrote
    <2> QED  BY <1>1, <1>2, <1>6, <2>1, <2>2 DEF TypeOK
  <1>9. RowsBounded'
    <2>1. \A t, c : Replay(t, c)' = Replay(t, c)
      BY <1>1 DEF Replay, LastWrites
    <2> SUFFICES ASSUME NEW t \in Transactions \ (late' \union torn')
                 PROVE  \E c \in 0..Len(feed) : stored'[t] = Replay(t, c) /\ Excused(t, c)'
      BY <1>1, <2>1 DEF RowsBounded
    <2>2. CASE t \notin sync[s].gone
      <3>1. t \notin late \union torn /\ stored'[t] = stored[t]
        BY <1>1, <2>2 DEF Wrote
      <3>2. PICK c \in 0..Len(feed) : stored[t] = Replay(t, c) /\ Excused(t, c)
        BY <3>1 DEF RowsBounded, IInv
      <3>3. t \notin Carried(s)
        BY <1>1, <2>2 DEF Carried
      <3>4. \A u \in Syncs \ {s} : Carried(u)' = Carried(u)
        BY <1>1, <1>6 DEF Carried
      <3>5. Excused(t, c)'
        BY <3>2, <3>3, <3>4, <1>1, <1>6 DEF Excused
      <3> QED  BY <3>1, <3>2, <3>5
    <2>3. CASE t \in sync[s].gone
      <3>1. stored'[t] = 0 /\ cursor <= sync[s].upTo
        BY <1>1, <1>7, <2>3 DEF Wrote, Overtaken
      <3>2. PICK p \in Span(sync[s]) : feed[p].tx = t /\ feed[p].removed
        BY <1>1, <1>2, <2>3 DEF LoopOk
      <3>3. p \in 1..sync[s].upTo /\ p \in 1..Len(feed)
        BY <1>7 DEF Span
      <3>4. \A q \in 1..sync[s].upTo : p < q => feed[q].tx # t
        BY <3>2, <3>3, <1>7 DEF IInv, RemovedForGood
      <3>5. PICK d \in 0..Len(feed) : d = sync[s].upTo
        BY <1>7
      <3>6. stored'[t] = Replay(t, d)
        BY <3>1, <3>2, <3>3, <3>4, <3>5, ReplayIs
      <3>7. Excused(t, d)'
        BY <3>1, <3>5, <1>1 DEF Excused
      <3> QED  BY <3>6, <3>7
    <2> QED  BY <2>2, <2>3
  <1> QED  BY <1>6, <1>8, <1>9 DEF IInv

\* Loops that end.
LEMMA EndLoopsInv ==
    ASSUME IInv, NEW ss \in SUBSET Syncs, EndLoops(ss)
    PROVE  IInv'
  <1>1. /\ sync' = [s \in Syncs |-> IF s \in ss THEN Idle ELSE sync[s]]
        /\ torn' = torn \union GivenUp(ss)
        /\ UNCHANGED <<feed, owed, cursor, stored, movements, late>>
        /\ faults < MaxFaults /\ faults' = faults + 1
    BY DEF EndLoops, Fault
  <1>2. TypeOK
    BY DEF IInv
  <1>3. Idle \in SyncRecord /\ LoopOk(Idle)
    BY IdleIsRecord DEF LoopOk, Idle, Loop
  <1>4. PagesWhole'
    <2> SUFFICES ASSUME NEW u \in Syncs PROVE LoopOk(sync[u])'
      BY DEF PagesWhole
    <2>1. LoopOk(sync'[u])
      BY <1>1, <1>3 DEF IInv, PagesWhole
    <2> QED  BY <1>1, <2>1 DEF LoopOk, Span
  <1>5. RemovedForGood'
    BY <1>1 DEF IInv, RemovedForGood
  <1>6. GivenUp(ss) \subseteq Transactions
    <2> SUFFICES ASSUME NEW u \in ss, sync[u].pc = "write"
                 PROVE  Carried(u) \subseteq Transactions
      BY DEF GivenUp
    <2>1. u \in Syncs /\ LoopOk(sync[u])
      BY DEF IInv, PagesWhole
    <2>2. \A p \in sync[u].rows : p \in 1..Len(feed)
      BY <1>2, <2>1, SyncFields DEF LoopOk, Span
    <2>3. \A p \in sync[u].rows : feed[p].tx \in Transactions
      BY <1>2, <2>2, FeedFields
    <2> QED  BY <1>2, <2>1, <2>3, SyncFields DEF Carried
  <1>7. TypeOK'
    <2>1. sync' \in [Syncs -> SyncRecord]
      BY <1>1, <1>2, <1>3 DEF TypeOK
    <2>2. faults' \in 0..MaxFaults
      BY <1>1, <1>2, Limits DEF TypeOK
    <2>3. torn' \subseteq Transactions
      BY <1>1, <1>2, <1>6 DEF TypeOK
    <2> QED  BY <1>1, <1>2, <2>1, <2>2, <2>3 DEF TypeOK
  <1>8. RowsBounded'
    <2>1. \A t, c : Replay(t, c)' = Replay(t, c)
      BY <1>1 DEF Replay, LastWrites
    <2> SUFFICES ASSUME NEW t \in Transactions \ (late \union torn')
                 PROVE  \E c \in 0..Len(feed) : stored[t] = Replay(t, c) /\ Excused(t, c)'
      BY <1>1, <2>1 DEF RowsBounded
    <2>2. t \notin late \union torn /\ t \notin GivenUp(ss)
      BY <1>1
    <2>3. PICK c \in 0..Len(feed) : stored[t] = Replay(t, c) /\ Excused(t, c)
      BY <2>2 DEF RowsBounded, IInv
    <2>4. CASE c >= cursor
      BY <1>1, <2>3, <2>4 DEF Excused
    <2>5. CASE ~(c >= cursor)
      <3>1. PICK u \in Syncs : sync[u].pc = "write" /\ t \in Carried(u) /\ c >= sync[u].from
        BY <2>3, <2>5 DEF Excused
      <3>2. cursor > sync[u].from
        BY <1>2, <2>5, <3>1, SyncFields
      <3>3. u \notin ss
        BY <2>2, <3>1, <3>2 DEF GivenUp
      <3>4. sync'[u] = sync[u] /\ Carried(u)' = Carried(u)
        BY <1>1, <3>3 DEF Carried
      <3>5. Excused(t, c)'
        BY <3>1, <3>4 DEF Excused
      <3> QED  BY <2>3, <3>5
    <2> QED  BY <2>4, <2>5
  <1> QED  BY <1>4, <1>5, <1>7, <1>8 DEF IInv

----------------------------------------------------------------------------
LEMMA StutterInv == IInv /\ UNCHANGED vars => IInv'
  <1> SUFFICES ASSUME IInv, UNCHANGED vars PROVE IInv'
    OBVIOUS
  <1>1. UNCHANGED <<feed, owed, cursor, stored, movements, sync, faults, late, torn>>
    BY DEF vars
  <1>2. TypeOK'
    BY <1>1 DEF IInv, TypeOK
  <1>3. PagesWhole' /\ RemovedForGood'
    BY <1>1 DEF IInv, PagesWhole, LoopOk, Span, RemovedForGood
  <1>4. RowsBounded'
    BY <1>1, RowsKept
  <1> QED  BY <1>2, <1>3, <1>4 DEF IInv

LEMMA NextInv == IInv /\ [Next]_vars => IInv'
  <1> SUFFICES ASSUME IInv, [Next]_vars PROVE IInv'
    OBVIOUS
  <1>1. CASE \E t \in Transactions, removed \in BOOLEAN : BankUpdates(t, removed)
    BY <1>1, BankUpdatesInv
  <1>2. ASSUME NEW s \in Syncs, Webhook(s) PROVE IInv'
    BY <1>2, WebhookInv
  <1>3. ASSUME NEW s \in Syncs, UserSync(s) PROVE IInv'
    BY <1>3, UserSyncInv
  <1>4. ASSUME NEW s \in Syncs, SyncStep(s) PROVE IInv'
    BY <1>4, ReadCursorInv, FetchInv, SaveCursorInv, UpsertRowInv, DeleteRemovedInv,
       ClassifyInv DEF SyncStep
  <1>5. ASSUME NEW s \in Syncs, SyncFails(s) PROVE IInv'
    BY <1>5, EndLoopsInv DEF SyncFails
  <1>6. CASE ProcessLost
    BY <1>6, EndLoopsInv DEF ProcessLost
  <1>7. CASE UNCHANGED vars
    BY <1>7, StutterInv
  <1> QED  BY <1>1, <1>2, <1>3, <1>4, <1>5, <1>6, <1>7 DEF Next

\* The invariant holds whatever the bank reports and however loops overlap,
\* fail or are lost.
THEOREM FeedInvariant == Spec => []IInv
  <1>1. Init => IInv
    BY InitInv
  <1>2. IInv /\ [Next]_vars => IInv'
    BY NextInv
  <1> QED  BY <1>1, <1>2, PTL DEF Spec

\* Types: in particular the cursor and all versions stay within the bank's log.
THEOREM FeedTypeOK == Spec => []TypeOK
  <1>1. IInv => TypeOK
    BY DEF IInv
  <1> QED  BY <1>1, FeedInvariant, PTL

\* The cursor never skips an update of the bank, except one whose page was
\* given up half written or overtaken by another loop's cursor: runTransactionsSync
\* may save the cursor before the page as long as it is neither lost nor raced.
THEOREM RowsAlwaysFollow == Spec => []RowsFollowCursor
  <1>1. IInv => RowsFollowCursor
    <2> SUFFICES ASSUME IInv, NEW t \in Transactions \ (late \union torn), ~InHand(t)
                 PROVE  stored[t] \in {Replay(t, c) : c \in cursor..Len(feed)}
      BY DEF RowsFollowCursor
    <2>1. PICK c \in 0..Len(feed) : stored[t] = Replay(t, c) /\ Excused(t, c)
      BY DEF RowsBounded, IInv
    <2>2. c >= cursor
      BY <2>1 DEF Excused, InHand
    <2>3. c \in cursor..Len(feed)
      BY <2>2 DEF IInv, TypeOK
    <2> QED  BY <2>1, <2>3
  <1> QED  BY <1>1, FeedInvariant, PTL
=============================================================================
