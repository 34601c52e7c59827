------------------------- MODULE CashLedgerProofs -------------------------
(* Proofs about CashLedger, and about the row operators of ArApStatus it   *)
(* is built from, for every set of events, attributions, matches and       *)
(* requests and every bound.                                               *)
EXTENDS CashLedger, TLAPS, FiniteSetTheorems

---------------------------------------------------------------------------
(* What the row operators preserve, for every amount above the tolerance.  *)

\* Clamped subtraction stays a natural number for any integer taken off.
LEMMA ClampedIsNat ==
    ASSUME NEW total \in Nat, NEW part \in Int
    PROVE  LessButNotNegative(total, part) \in Nat
BY DEF LessButNotNegative

\* The canonical status is "paid" exactly up to the tolerance.
THEOREM CanonicalStatusPaid ==
    ASSUME NEW outstanding \in Nat, NEW amount \in Nat, amount > EPS
    PROVE  /\ statusFromOutstanding(outstanding, amount) \in Statuses
           /\ statusFromOutstanding(outstanding, amount) = "paid" <=> outstanding <= EPS
BY DEF statusFromOutstanding, Statuses, EPS

\* So is the status of the unmatch handler and of the sync's upsert.
LEMMA InlineStatusPaid ==
    ASSUME NEW outstanding \in Nat, NEW amount \in Nat
    PROVE  /\ UnmatchStatus(outstanding, amount) \in Statuses
           /\ UnmatchStatus(outstanding, amount) = "paid" <=> outstanding <= EPS
BY DEF UnmatchStatus, Statuses

LEMMA NewRows ==
    ASSUME NEW A, A \subseteq Nat, \A a \in A : a > EPS, NEW due \in A
    PROVE  /\ NewOpenRow(due) \in CashEventRow(A) /\ SettledRow(NewOpenRow(due))
           /\ NewPaidRow(due) \in CashEventRow(A) /\ SettledRow(NewPaidRow(due))
BY DEF NewOpenRow, NewPaidRow, CashEventRow, SettledRow, Statuses, EPS

\* The balance an upsert keeps is a natural number, no larger than a reduced
\* balance before it, and settled when the event was settled.
LEMMA KeptBalance ==
    ASSUME NEW A, A \subseteq Nat, \A a \in A : a > EPS,
           NEW row \in CashEventRow(A), NEW due \in A
    PROVE  /\ KeptOutstanding(row, due) \in Nat
           /\ row.outstanding < row.amount => KeptOutstanding(row, due) <= row.outstanding
           /\ row.outstanding <= EPS => KeptOutstanding(row, due) <= EPS
           /\ row.outstanding > EPS => KeptOutstanding(row, due) > EPS
<1>1. /\ row.outstanding \in Nat /\ row.amount \in Nat /\ row.amount > EPS
      /\ due \in Nat /\ due > EPS
  BY DEF CashEventRow
<1> QED  BY <1>1 DEF KeptOutstanding, LeastOf, EPS

\* The conflict branch of the upserts keeps a settled event settled, also
\* where the status is kept for a manual payment (F3).
THEOREM UpsertKeepsSettled ==
    ASSUME NEW A, A \subseteq Nat, \A a \in A : a > EPS,
           NEW row \in CashEventRow(A), SettledRow(row), NEW due \in A
    PROVE  /\ UpsertedOpenRow(row, due) \in CashEventRow(A)
           /\ SettledRow(UpsertedOpenRow(row, due))
           /\ row.status = "paid" => UpsertedOpenRow(row, due).status = "paid"
           /\ row.outstanding < row.amount
                => UpsertedOpenRow(row, due).outstanding <= row.outstanding
<1> DEFINE kept == KeptOutstanding(row, due)
           after == UpsertedOpenRow(row, due)
<1>1. /\ kept \in Nat
      /\ row.outstanding < row.amount => kept <= row.outstanding
      /\ row.outstanding <= EPS => kept <= EPS
      /\ row.outstanding > EPS => kept > EPS
  BY KeptBalance
<1>2. /\ row.status \in Statuses /\ row.outstanding \in Nat
      /\ row.reconciled \in BOOLEAN /\ row.manualPaid \in BOOLEAN
  BY DEF CashEventRow
<1>3. UnmatchStatus(kept, due) \in Statuses /\ (UnmatchStatus(kept, due) = "paid" <=> kept <= EPS)
  BY <1>1, InlineStatusPaid
<1>4. /\ KeptStatus(row, due) \in Statuses
      /\ KeptStatus(row, due) = "paid" <=> kept <= EPS
  BY <1>1, <1>2, <1>3, SMT DEF KeptStatus, SettledRow, Statuses, EPS
<1>5. /\ after.outstanding = kept /\ after.status = KeptStatus(row, due)
      /\ after \in CashEventRow(A)
  BY <1>1, <1>4 DEF UpsertedOpenRow, CashEventRow
<1>6. kept <= EPS <=> row.outstanding <= EPS
  BY <1>1, <1>2 DEF EPS
<1> QED  BY <1>1, <1>4, <1>5, <1>6 DEF SettledRow

LEMMA UpsertPaidKeepsRow ==
    ASSUME NEW A, NEW row \in CashEventRow(A), NEW amount \in A
    PROVE  /\ UpsertedPaidRow(row, amount) \in CashEventRow(A)
           /\ UpsertedPaidRow(row, amount).status = row.status
           /\ UpsertedPaidRow(row, amount).outstanding = row.outstanding
BY DEF UpsertedPaidRow, CashEventRow

LEMMA StaleIsSettled ==
    ASSUME NEW A, NEW row \in CashEventRow(A)
    PROVE  /\ StaleRow(row) \in CashEventRow(A) /\ SettledRow(StaleRow(row))
           /\ StaleRow(row).status = "paid" /\ StaleRow(row).outstanding = 0
<1>1. StaleRow(row) \in CashEventRow(A)
  BY DEF StaleRow, CashEventRow, Statuses
<1>2. StaleRow(row).status = "paid" /\ StaleRow(row).outstanding = 0
  BY DEF StaleRow, CashEventRow
<1> QED  BY <1>1, <1>2 DEF SettledRow, EPS

\* writeStatusChange with the canonical status of a balance leaves a
\* consistent row.
LEMMA CanonicalWrite ==
    ASSUME NEW A, A \subseteq Nat, \A a \in A : a > EPS,
           NEW row \in CashEventRow(A), NEW left \in Nat, NEW force \in BOOLEAN
    PROVE  /\ StatusChanged(row, statusFromOutstanding(left, row.amount), left, force)
                \in CashEventRow(A)
           /\ SettledRow(StatusChanged(row, statusFromOutstanding(left, row.amount), left, force))
           /\ StatusChanged(row, statusFromOutstanding(left, row.amount), left, force).outstanding
                = left
<1>1. row.amount \in Nat /\ row.amount > EPS  BY DEF CashEventRow
<1>2. /\ statusFromOutstanding(left, row.amount) \in Statuses
      /\ statusFromOutstanding(left, row.amount) = "paid" <=> left <= EPS
  BY <1>1, CanonicalStatusPaid
<1> QED  BY <1>2 DEF StatusChanged, CashEventRow, SettledRow

---------------------------------------------------------------------------
(* The ledger.                                                             *)

\* The inductive invariant: types and references first, since a step that
\* writes a row computes it from the rows and requests they describe.
Inv == TypeOK /\ ReferencesExist /\ PaidIffSettled

LEMMA AmountFacts ==
    /\ Amounts \subseteq Nat
    /\ \A a \in Amounts : a > EPS
    /\ \A m \in Movements, a \in Amounts : LeastOf(CashOf[m], a) \in 1..MaxAmount
<1>1. /\ MaxAmount \in Nat /\ Amounts \subseteq (EPS + 1)..MaxAmount
      /\ CashOf \in [Movements -> 1..MaxAmount]
  BY AmountAssumption
<1>2. \A a \in Amounts : a \in 2..MaxAmount
  BY <1>1 DEF EPS
<1>3. \A m \in Movements : CashOf[m] \in 1..MaxAmount
  BY <1>1
<1> QED  BY <1>1, <1>2, <1>3 DEF EPS, LeastOf

\* The sum of the nets of any attributions is a natural number.
LEMMA SumOfNetIsNat ==
    ASSUME NEW ids, ids \subseteq AttrIds
    PROVE  SumOfNet(ids) \in Nat
<1> DEFINE cells == ids \X (1..MaxNet)
           S == {c \in cells : c[2] <= attributions[c[1]].net}
<1>1. IsFiniteSet(ids)
  BY IdAssumption, FS_Subset
<1>2. IsFiniteSet(1..MaxNet)
  <2>1. MaxNet \in Int
    BY AmountAssumption DEF MaxNet, EPS
  <2> QED  BY <2>1, FS_Interval
<1>3. IsFiniteSet(cells)
  BY <1>1, <1>2, FS_Product
<1>4. IsFiniteSet(S)
  <2>1. S \subseteq cells
    OBVIOUS
  <2> QED  BY <1>3, <2>1, FS_Subset
<1>5. Cardinality(S) \in Nat
  BY <1>4, FS_CardinalityType
<1> QED  BY <1>5 DEF SumOfNet

LEMMA FeedFields ==
    ASSUME NEW feed \in Feed
    PROVE  /\ DOMAIN feed \subseteq Events
           /\ \A e \in DOMAIN feed : feed[e] \in Due
<1>1. PICK listed \in SUBSET Events : feed \in [listed -> Due]
  BY DEF Feed
<1> QED  BY <1>1

\* What a request of each kind carries.
LEMMA RequestFields ==
    ASSUME NEW q \in Request
    PROVE  /\ q.op = "patch" => q.match \in MatchIds /\ q.to \in {"confirmed", "rejected"}
           /\ q.op = "delete" => q.match \in MatchIds /\ q.seen \in MatchStates
           /\ q.op \in {"unmatchRead", "unmatchDeleted", "unmatchSummed"}
                => q.attr \in AttrIds /\ q.event \in Events
           /\ q.op \in {"unmatchDeleted", "unmatchSummed"} => q.amount \in Amounts
           /\ q.op = "unmatchSummed" => q.matched \in Nat
           /\ q.op = "markPaid" => q.event \in Events /\ q.outstanding \in Nat
           /\ q.op = "markUnpaid" => q.event \in Events /\ q.amount \in Amounts
           /\ q.op = "syncUpsert" => q.feed \in Feed /\ q.todo \in SUBSET Events
           /\ q.op \in {"syncStaleAr", "syncStaleAp"} => q.feed \in Feed
BY DEF Request, Idle

\* A consistent row written to an event leaves types and consistency, and
\* every event that existed still exists.
LEMMA WriteEvent ==
    ASSUME TypeOK, PaidIffSettled, NEW e \in Events,
           NEW row \in CashEventRow(Amounts), SettledRow(row),
           events' = [events EXCEPT ![e] = row]
    PROVE  /\ events' \in [Events -> CashEventRow(Amounts) \cup {NoRow}]
           /\ PaidIffSettled'
           /\ \A f \in Events : Exists(f) => Exists(f)'
<1>1. events \in [Events -> CashEventRow(Amounts) \cup {NoRow}]
  BY DEF TypeOK
<1>2. events' \in [Events -> CashEventRow(Amounts) \cup {NoRow}]
  BY <1>1
<1>3. row # NoRow
  BY IdAssumption
<1>4. \A f \in Events : events'[f] = IF f = e THEN row ELSE events[f]
  BY <1>1
<1> QED  BY <1>2, <1>3, <1>4 DEF PaidIffSettled, Exists

\* A step that only moves requests on keeps the invariant if the new request
\* is well formed and refers to rows that exist.
LEMMA MoveRequest ==
    ASSUME Inv, NEW r \in Requests, NEW q \in Request,
           inflight' = [inflight EXCEPT ![r] = q],
           audit' = {}, UNCHANGED <<events, attributions, matches, overwritten>>,
           q.op \in {"patch", "delete"} => matches[q.match] # NoRow,
           q.op \in {"unmatchRead", "unmatchDeleted", "unmatchSummed", "markPaid", "markUnpaid"}
             => Exists(q.event),
           q.op = "syncUpsert" => q.todo \subseteq DOMAIN q.feed
    PROVE  Inv'
<1>1. inflight \in [Requests -> Request] /\ inflight' \in [Requests -> Request]
  BY DEF Inv, TypeOK
<1>2. TypeOK'
  BY <1>1 DEF Inv, TypeOK
<1>3. \A s \in Requests : inflight'[s] = IF s = r THEN q ELSE inflight[s]
  BY <1>1
<1>4. ReferencesExist'
  BY <1>1, <1>3 DEF Inv, ReferencesExist, Live, Exists
<1> QED  BY <1>2, <1>4 DEF Inv, PaidIffSettled, Exists

\* A request that moves to a state without references of its own, while rows
\* of events and matches stay and at most attributions go away.
LEMMA DetachRequest ==
    ASSUME Inv, NEW r \in Requests, NEW next \in Request,
           inflight' = [inflight EXCEPT ![r] = next],
           next.op \in {"idle", "syncUpsert", "syncStaleAr", "syncStaleAp", "syncOrphans"},
           next.op = "syncUpsert" => next.todo \subseteq DOMAIN next.feed,
           \A e \in Events : Exists(e) => Exists(e)',
           \A x \in MatchIds : matches[x] # NoRow => /\ matches'[x] # NoRow
                                                     /\ matches'[x].event = matches[x].event,
           \A x \in MatchIds : matches'[x] # NoRow => matches[x] # NoRow,
           \A a \in AttrIds : attributions'[a] \in {attributions[a], NoRow}
    PROVE  /\ inflight' \in [Requests -> Request]
           /\ ReferencesExist'
<1>1. /\ inflight \in [Requests -> Request]
      /\ attributions \in [AttrIds -> Attribution \cup {NoRow}]
      /\ matches \in [MatchIds -> Match \cup {NoRow}]
  BY DEF Inv, TypeOK
<1>3. inflight' \in [Requests -> Request]
  BY <1>1
<1>4. \A s \in Requests : inflight'[s] = IF s = r THEN next ELSE inflight[s]
  BY <1>1
<1>5. \A a \in AttrIds : Live(a)' => Live(a) /\ attributions'[a] = attributions[a]
  BY DEF Live
<1>6. \A a \in AttrIds : Live(a)' => Exists(attributions[a].event)'
  <2> TAKE a \in AttrIds
  <2> HAVE Live(a)'
  <2>1. Live(a) /\ attributions'[a] = attributions[a]
    BY <1>5
  <2>2. attributions[a].event \in Events
    BY <1>1, <2>1 DEF Live, Attribution
  <2>3. Exists(attributions[a].event)
    BY <2>1 DEF Inv, ReferencesExist
  <2>4. events'[attributions[a].event] # NoRow
    BY <2>2, <2>3 DEF Exists
  <2> QED  BY <2>1, <2>4 DEF Exists
<1>7. \A x \in MatchIds : matches'[x] # NoRow => Exists(matches[x].event)'
  <2> TAKE x \in MatchIds
  <2> HAVE matches'[x] # NoRow
  <2>1. matches[x] # NoRow /\ matches'[x].event = matches[x].event
    OBVIOUS
  <2>2. matches[x].event \in Events
    BY <1>1, <2>1 DEF Match
  <2>3. Exists(matches[x].event)
    BY <2>1 DEF Inv, ReferencesExist
  <2>4. events'[matches[x].event] # NoRow
    BY <2>2, <2>3 DEF Exists
  <2> QED  BY <2>1, <2>4 DEF Exists
<1>8. ASSUME NEW s \in Requests
      PROVE  /\ inflight'[s].op \in {"patch", "delete"} => matches'[inflight'[s].match] # NoRow
             /\ inflight'[s].op \in {"unmatchRead", "unmatchDeleted", "unmatchSummed",
                                     "markPaid", "markUnpaid"} => Exists(inflight[s].event)'
             /\ inflight'[s].op = "syncUpsert"
                  => inflight'[s].todo \subseteq DOMAIN inflight'[s].feed
  <2>1. CASE s = r
    BY <1>4, <2>1
  <2>2. CASE s # r
    <3> PICK q \in Request : q = inflight[s]
      BY <1>1
    <3>1. inflight'[s] = q
      BY <1>1, <1>4, <2>2
    <3>2. q.op \in {"patch", "delete"} => matches'[q.match] # NoRow
      BY <3>1, RequestFields DEF Inv, ReferencesExist
    <3>3. q.op \in {"unmatchRead", "unmatchDeleted", "unmatchSummed", "markPaid", "markUnpaid"}
            => q.event \in Events /\ Exists(q.event)
      BY <3>1, RequestFields DEF Inv, ReferencesExist
    <3>4. q.op \in {"unmatchRead", "unmatchDeleted", "unmatchSummed", "markPaid", "markUnpaid"}
            => events'[q.event] # NoRow
      BY <3>3 DEF Exists
    <3>5. q.op = "syncUpsert" => q.todo \subseteq DOMAIN q.feed
      BY DEF Inv, ReferencesExist
    <3> QED  BY <3>1, <3>2, <3>4, <3>5 DEF Exists
  <2> QED  BY <2>1, <2>2
<1> QED  BY <1>3, <1>6, <1>7, <1>8 DEF ReferencesExist

LEMMA EndRequest ==
    ASSUME Inv, NEW r \in Requests, Ends(r),
           \A e \in Events : Exists(e) => Exists(e)',
           \A x \in MatchIds : matches[x] # NoRow => /\ matches'[x] # NoRow
                                                     /\ matches'[x].event = matches[x].event,
           \A x \in MatchIds : matches'[x] # NoRow => matches[x] # NoRow,
           \A a \in AttrIds : attributions'[a] \in {attributions[a], NoRow}
    PROVE  /\ inflight' \in [Requests -> Request]
           /\ ReferencesExist'
<1>1. Idle \in Request /\ Idle.op = "idle"
  BY DEF Request, Idle
<1>2. inflight' = [inflight EXCEPT ![r] = Idle]
  BY DEF Ends
<1> QED  BY <1>1, <1>2, DetachRequest

---------------------------------------------------------------------------
LEMMA ReconciledRowIsSettled ==
    ASSUME NEW e \in Events, NEW amount \in Amounts
    PROVE  ReconciledRow(e, amount) \in CashEventRow(Amounts) /\ SettledRow(ReconciledRow(e, amount))
<1> DEFINE left == LessButNotNegative(amount, AttributedTo(e))
<1>1. AttributedTo(e) \in Nat
  BY SumOfNetIsNat DEF AttributedTo
<1>2. amount \in Nat /\ amount > EPS
  BY AmountFacts
<1>3. left \in Nat
  BY <1>1, <1>2, ClampedIsNat
<1>4. /\ statusFromOutstanding(left, amount) \in Statuses
      /\ statusFromOutstanding(left, amount) = "paid" <=> left <= EPS
  BY <1>2, <1>3, CanonicalStatusPaid
<1>5. (AttributedTo(e) > 0) \in BOOLEAN
  OBVIOUS
<1> HIDE DEF left
<1> QED  BY <1>3, <1>4, <1>5 DEF ReconciledRow, CashEventRow, SettledRow, left

LEMMA InitInv == Init => Inv
<1> SUFFICES ASSUME Init PROVE Inv
  OBVIOUS
<1>1. PICK known \in SUBSET Events, amount \in [Events -> Amounts] :
        /\ \A a \in AttrIds : Live(a) => attributions[a].event \in known
        /\ events = [e \in Events |-> IF e \in known THEN ReconciledRow(e, amount[e]) ELSE NoRow]
  BY DEF Init
<1>2. \A e \in Events : /\ ReconciledRow(e, amount[e]) \in CashEventRow(Amounts)
                        /\ SettledRow(ReconciledRow(e, amount[e]))
  BY ReconciledRowIsSettled
<1>3. Idle \in Request /\ Idle.op = "idle"
  BY DEF Request, Idle
<1>4. TypeOK
  <2>1. events \in [Events -> CashEventRow(Amounts) \cup {NoRow}]
    BY <1>1, <1>2
  <2>2. inflight \in [Requests -> Request]
    BY <1>3 DEF Init
  <2>3. attributions \in [AttrIds -> Attribution \cup {NoRow}]
    <3>1. NetAmounts \subseteq 1..MaxNet
      BY AmountAssumption DEF MaxNet, EPS
    <3>2. [event : Events, net : NetAmounts] \subseteq Attribution
      BY <3>1 DEF Attribution
    <3> QED  BY <3>2 DEF Init
  <2> QED  BY <2>1, <2>2, <2>3 DEF Init, TypeOK
<1>5. \A e \in Events : e \in known <=> Exists(e)
  BY <1>1, <1>2, IdAssumption DEF Exists
<1>6. ReferencesExist
  BY <1>1, <1>3, <1>5 DEF Init, ReferencesExist
<1>7. PaidIffSettled
  BY <1>1, <1>2, <1>5 DEF PaidIffSettled
<1> QED  BY <1>4, <1>6, <1>7 DEF Inv

LEMMA CreateMatchInv ==
    ASSUME Inv, NEW x \in MatchIds, NEW m \in Movements, NEW e \in Events, CreateMatch(x, m, e)
    PROVE  Inv'
<1>1. PICK a \in Amounts :
        matches' = [matches EXCEPT ![x] = [state |-> "pending", movement |-> m, event |-> e,
                                           matched |-> LeastOf(CashOf[m], a)]]
  BY DEF CreateMatch
<1> DEFINE row == [state |-> "pending", movement |-> m, event |-> e,
                   matched |-> LeastOf(CashOf[m], a)]
<1>2. row \in Match
  BY AmountFacts DEF Match, MatchStates
<1>3. row # NoRow
  BY <1>2, IdAssumption
<1> HIDE DEF row
<1>4. row.state = "pending" /\ row.event = e
  BY DEF row
<1>5. matches \in [MatchIds -> Match \cup {NoRow}]
  BY DEF Inv, TypeOK
<1>6. matches' = [matches EXCEPT ![x] = row]
  BY <1>1 DEF row
<1>7. matches' \in [MatchIds -> Match \cup {NoRow}]
  BY <1>2, <1>5, <1>6
<1>8. \A y \in MatchIds : matches'[y] = IF y = x THEN row ELSE matches[y]
  BY <1>5, <1>6
<1>9. matches[x] = NoRow /\ Exists(e) /\ UNCHANGED <<events, attributions, inflight, overwritten>> /\ audit' = {}
  BY DEF CreateMatch
<1>10. TypeOK'
  BY <1>7, <1>9 DEF Inv, TypeOK
<1>11. ReferencesExist'
  BY <1>3, <1>4, <1>8, <1>9, <1>5, RequestFields DEF Inv, TypeOK, ReferencesExist, Live, Exists
<1> QED  BY <1>9, <1>10, <1>11 DEF Inv, PaidIffSettled, Exists

\* syncInvoiceStatusFromMatch leaves a consistent event for any amount added
\* or taken off.
LEMMA SyncInvoiceStep ==
    ASSUME Inv, NEW x \in MatchIds, matches[x] # NoRow, NEW delta \in Int, NEW force \in BOOLEAN,
           SyncInvoiceStatusFromMatch(x, delta, force)
    PROVE  /\ events' \in [Events -> CashEventRow(Amounts) \cup {NoRow}]
           /\ PaidIffSettled'
           /\ audit' \in SUBSET LogRow
           /\ \A f \in Events : Exists(f) => Exists(f)'
           /\ \A f \in Events : f # matches[x].event => events'[f] = events[f]
           /\ delta >= 0 => events'[matches[x].event].outstanding
                              <= events[matches[x].event].outstanding
<1> DEFINE e == matches[x].event
           row == events[e]
           left == LessButNotNegative(row.outstanding, delta)
           after == SyncedInvoice(row, delta, force)
<1>1. e \in Events /\ row # NoRow
  BY DEF Inv, TypeOK, ReferencesExist, Match, Exists
<1>2. row \in CashEventRow(Amounts) /\ row.outstanding \in Nat
  BY <1>1 DEF Inv, TypeOK, CashEventRow
<1>3. left \in Nat
  BY <1>2, ClampedIsNat
<1>4. after \in CashEventRow(Amounts) /\ SettledRow(after) /\ after.outstanding = left
  <2>1. after = StatusChanged(row, statusFromOutstanding(left, row.amount), left, force)
    BY DEF SyncedInvoice
  <2> HIDE DEF after, left, row
  <2>2. Amounts \subseteq Nat /\ \A a \in Amounts : a > EPS
    BY AmountFacts
  <2> QED  BY <1>2, <1>3, <2>1, <2>2, CanonicalWrite
<1>5. delta >= 0 => left <= row.outstanding
  BY <1>2 DEF LessButNotNegative
<1>6. /\ events' = [events EXCEPT ![e] = after]
      /\ audit' = Logged(e, row, after)
  BY DEF SyncInvoiceStatusFromMatch
<1> HIDE DEF after, left
<1>7. audit' \in SUBSET LogRow
  BY <1>1, <1>2, <1>4, <1>6 DEF Logged, LogRow, CashEventRow
<1>8. events \in [Events -> CashEventRow(Amounts) \cup {NoRow}]
  BY DEF Inv, TypeOK
<1>9. \A f \in Events : events'[f] = IF f = e THEN after ELSE events[f]
  BY <1>6, <1>8
<1>10. /\ events' \in [Events -> CashEventRow(Amounts) \cup {NoRow}]
       /\ PaidIffSettled'
       /\ \A f \in Events : Exists(f) => Exists(f)'
  BY <1>1, <1>4, <1>6, WriteEvent DEF Inv
<1> QED  BY <1>1, <1>4, <1>5, <1>7, <1>9, <1>10

LEMMA PatchCommitInv ==
    ASSUME Inv, NEW r \in Requests, PatchCommit(r)
    PROVE  Inv'
<1> PICK x \in MatchIds : x = inflight[r].match /\ matches[x] # NoRow
  BY RequestFields DEF Inv, TypeOK, ReferencesExist, PatchCommit
<1> PICK to \in {"confirmed", "rejected"} : to = inflight[r].to
  BY RequestFields DEF Inv, TypeOK, PatchCommit
<1>1. /\ matches \in [MatchIds -> Match \cup {NoRow}]
      /\ attributions \in [AttrIds -> Attribution \cup {NoRow}]
  BY DEF Inv, TypeOK
<1>2. matches[x] \in Match /\ matches[x].matched \in Int
  BY <1>1, AmountAssumption DEF Match
<1>3. matches' = IF matches[x].state = "deleted" THEN matches
                 ELSE [matches EXCEPT ![x].state = to]
  BY DEF PatchCommit
<1>4. /\ Ends(r) /\ attributions' = attributions
      /\ IF to = "confirmed"
           THEN SyncInvoiceStatusFromMatch(x, matches[x].matched, TRUE)
           ELSE audit' = {} /\ UNCHANGED events
  BY DEF PatchCommit
<1>5. /\ events' \in [Events -> CashEventRow(Amounts) \cup {NoRow}]
      /\ PaidIffSettled'
      /\ audit' \in SUBSET LogRow
      /\ \A f \in Events : Exists(f) => Exists(f)'
  <2>1. CASE to = "confirmed"
    BY <1>2, <1>4, <2>1, SyncInvoiceStep
  <2>2. CASE to = "rejected"
    BY <1>4, <2>2 DEF Inv, TypeOK, PaidIffSettled, Exists
  <2> QED  BY <2>1, <2>2
<1>6. \A y \in MatchIds :
        matches'[y] = IF y = x /\ matches[x].state # "deleted"
                      THEN [matches[x] EXCEPT !.state = to] ELSE matches[y]
  BY <1>1, <1>3
<1>7. [matches[x] EXCEPT !.state = to] \in Match
  BY <1>2 DEF Match, MatchStates
<1>8. [matches[x] EXCEPT !.state = to].event = matches[x].event
      /\ [matches[x] EXCEPT !.state = to].state = to
  BY <1>2 DEF Match
<1>9. matches' \in [MatchIds -> Match \cup {NoRow}]
  BY <1>1, <1>3, <1>7
<1>10. /\ \A y \in MatchIds : matches[y] # NoRow => /\ matches'[y] # NoRow
                                                    /\ matches'[y].event = matches[y].event
       /\ \A y \in MatchIds : matches'[y] # NoRow => matches[y] # NoRow
  BY <1>6, <1>7, <1>8, IdAssumption
<1>11. /\ inflight' \in [Requests -> Request]
       /\ ReferencesExist'
  BY <1>4, <1>5, <1>10, EndRequest
<1>12. matches[x].event \in Events
  BY <1>2 DEF Match
<1>13. overwritten' \subseteq Events
  BY <1>12 DEF PatchCommit, Inv, TypeOK
<1>14. TypeOK'
  BY <1>1, <1>4, <1>5, <1>9, <1>11, <1>13 DEF TypeOK
<1> QED  BY <1>5, <1>11, <1>14 DEF Inv

\* The cascade spends match ids and touches nothing else.
LEMMA RebuildMovementsInv ==
    ASSUME Inv, RebuildMovements
    PROVE  Inv'
<1>1. /\ matches \in [MatchIds -> Match \cup {NoRow}]
      /\ UNCHANGED <<events, attributions, inflight, overwritten>> /\ audit' = {}
      /\ matches' = [x \in MatchIds |->
                       IF MatchFound(x) THEN [matches[x] EXCEPT !.state = "deleted"] ELSE matches[x]]
  BY DEF Inv, TypeOK, RebuildMovements
<1>2. ASSUME NEW x \in MatchIds
      PROVE  /\ matches'[x] \in Match \cup {NoRow}
             /\ matches'[x] # NoRow <=> matches[x] # NoRow
             /\ matches[x] # NoRow => matches'[x].event = matches[x].event
  <2>1. CASE ~MatchFound(x)
    BY <1>1, <2>1
  <2>2. CASE MatchFound(x)
    <3>1. matches[x] \in Match
      BY <1>1, <2>2 DEF MatchFound
    <3>2. matches'[x] \in Match /\ matches'[x].event = matches[x].event
      BY <1>1, <2>2, <3>1 DEF Match, MatchStates
    <3> QED  BY <2>2, <3>2, IdAssumption DEF MatchFound
  <2> QED  BY <2>1, <2>2
<1>3. matches' \in [MatchIds -> Match \cup {NoRow}]
  BY <1>1, <1>2
<1>4. TypeOK'
  BY <1>1, <1>3 DEF Inv, TypeOK
<1>5. ReferencesExist'
  BY <1>1, <1>2, RequestFields DEF Inv, TypeOK, ReferencesExist, Live, Exists
<1> QED  BY <1>1, <1>4, <1>5 DEF Inv, PaidIffSettled, Exists

LEMMA DeleteCommitInv ==
    ASSUME Inv, NEW r \in Requests, DeleteCommit(r)
    PROVE  Inv'
<1> PICK x \in MatchIds : x = inflight[r].match /\ matches[x] # NoRow
  BY RequestFields DEF Inv, TypeOK, ReferencesExist, DeleteCommit
<1>1. /\ matches \in [MatchIds -> Match \cup {NoRow}]
      /\ attributions \in [AttrIds -> Attribution \cup {NoRow}]
  BY DEF Inv, TypeOK
<1>2. matches[x] \in Match /\ -matches[x].matched \in Int
  BY <1>1, AmountAssumption DEF Match
<1>3. /\ Ends(r) /\ attributions' = attributions
      /\ matches' = [matches EXCEPT ![x].state = "deleted"]
      /\ IF inflight[r].seen = "confirmed"
           THEN SyncInvoiceStatusFromMatch(x, -matches[x].matched, FALSE)
           ELSE audit' = {} /\ UNCHANGED events
  BY DEF DeleteCommit
<1>4. /\ events' \in [Events -> CashEventRow(Amounts) \cup {NoRow}]
      /\ PaidIffSettled'
      /\ audit' \in SUBSET LogRow
      /\ \A f \in Events : Exists(f) => Exists(f)'
  <2>1. CASE inflight[r].seen = "confirmed"
    BY <1>2, <1>3, <2>1, SyncInvoiceStep
  <2>2. CASE inflight[r].seen # "confirmed"
    BY <1>3, <2>2 DEF Inv, TypeOK, PaidIffSettled, Exists
  <2> QED  BY <2>1, <2>2
<1> DEFINE gone == [matches[x] EXCEPT !.state = "deleted"]
<1>5. gone \in Match /\ gone.event = matches[x].event /\ gone.state = "deleted"
  BY <1>2 DEF Match, MatchStates
<1>6. matches' = [matches EXCEPT ![x] = gone]
  BY <1>3
<1> HIDE DEF gone
<1>7. \A y \in MatchIds : matches'[y] = IF y = x THEN gone ELSE matches[y]
  BY <1>1, <1>6
<1>8. matches' \in [MatchIds -> Match \cup {NoRow}]
  BY <1>1, <1>5, <1>6
<1>9. /\ \A y \in MatchIds : matches[y] # NoRow => /\ matches'[y] # NoRow
                                                   /\ matches'[y].event = matches[y].event
      /\ \A y \in MatchIds : matches'[y] # NoRow => matches[y] # NoRow
  BY <1>5, <1>7, IdAssumption
<1>10. /\ inflight' \in [Requests -> Request]
       /\ ReferencesExist'
  BY <1>3, <1>4, <1>9, EndRequest
<1>11. matches[x].event \in Events
  BY <1>2 DEF Match
<1>12. overwritten' \subseteq Events
  BY <1>11 DEF DeleteCommit, Inv, TypeOK
<1>13. TypeOK'
  BY <1>1, <1>3, <1>4, <1>8, <1>10, <1>12 DEF TypeOK
<1> QED  BY <1>4, <1>10, <1>13 DEF Inv

---------------------------------------------------------------------------
LEMMA OverwritesTypes ==
    ASSUME Inv, Overwrites
    PROVE  overwritten' \subseteq Events
BY DEF Inv, TypeOK, Overwrites

\* A request that ends by writing a consistent row, and at most deletes
\* attributions, keeps the invariant.
LEMMA WriteAndEnd ==
    ASSUME Inv, NEW r \in Requests, Ends(r), NEW e \in Events,
           NEW row \in CashEventRow(Amounts), SettledRow(row),
           events' = [events EXCEPT ![e] = row],
           attributions' \in [AttrIds -> Attribution \cup {NoRow}],
           \A a \in AttrIds : attributions'[a] \in {attributions[a], NoRow},
           audit' = {}, UNCHANGED matches, overwritten' \subseteq Events
    PROVE  Inv'
<1>1. /\ events' \in [Events -> CashEventRow(Amounts) \cup {NoRow}]
      /\ PaidIffSettled'
      /\ \A f \in Events : Exists(f) => Exists(f)'
  BY WriteEvent DEF Inv
<1>2. /\ inflight' \in [Requests -> Request]
      /\ ReferencesExist'
  BY <1>1, EndRequest
<1>3. TypeOK'
  BY <1>1, <1>2 DEF Inv, TypeOK
<1> QED  BY <1>1, <1>2, <1>3 DEF Inv

\* A request that ends without writing an event.
LEMMA OnlyEnd ==
    ASSUME Inv, NEW r \in Requests, Ends(r),
           attributions' \in [AttrIds -> Attribution \cup {NoRow}],
           \A a \in AttrIds : attributions'[a] \in {attributions[a], NoRow},
           audit' = {}, UNCHANGED <<events, matches, overwritten>>
    PROVE  Inv'
<1>1. \A f \in Events : Exists(f) => Exists(f)'
  BY DEF Exists
<1>2. /\ inflight' \in [Requests -> Request]
      /\ ReferencesExist'
  BY <1>1, EndRequest
<1>3. TypeOK'
  BY <1>2 DEF Inv, TypeOK
<1> QED  BY <1>2, <1>3 DEF Inv, PaidIffSettled, Exists

\* The row of an existing event.
LEMMA RowOf ==
    ASSUME Inv, NEW e \in Events, Exists(e)
    PROVE  events[e] \in CashEventRow(Amounts) /\ SettledRow(events[e])
BY DEF Inv, TypeOK, PaidIffSettled, Exists

LEMMA UnmatchedRowIsSettled ==
    ASSUME NEW row \in CashEventRow(Amounts), NEW amount \in Amounts, NEW matched \in Nat
    PROVE  UnmatchedRow(row, amount, matched) \in CashEventRow(Amounts)
           /\ SettledRow(UnmatchedRow(row, amount, matched))
<1> DEFINE left == LessButNotNegative(amount, matched)
           after == UnmatchedRow(row, amount, matched)
<1>1. amount \in Nat /\ matched \in Int
  BY AmountFacts
<1>2. left \in Nat
  BY <1>1, ClampedIsNat
<1>3. UnmatchStatus(left, amount) \in Statuses /\ (UnmatchStatus(left, amount) = "paid" <=> left <= EPS)
  BY <1>1, <1>2, InlineStatusPaid
<1>4. after = [row EXCEPT !.outstanding = left, !.status = UnmatchStatus(left, amount),
                          !.manualPaid = FALSE]
  BY DEF UnmatchedRow
<1> HIDE DEF left, after
<1>5. /\ after \in CashEventRow(Amounts)
      /\ after.outstanding = left /\ after.status = UnmatchStatus(left, amount)
  BY <1>2, <1>3, <1>4 DEF CashEventRow
<1>6. SettledRow(after)
  BY <1>3, <1>5 DEF SettledRow
<1> QED  BY <1>5, <1>6 DEF after

LEMMA MarkedRowsAreSettled ==
    ASSUME NEW row \in CashEventRow(Amounts), NEW amount \in Amounts
    PROVE  /\ ManuallyPaid(row) \in CashEventRow(Amounts) /\ SettledRow(ManuallyPaid(row))
           /\ ManuallyPaid(row).outstanding = 0
           /\ MarkedUnpaid(row, amount) \in CashEventRow(Amounts)
           /\ SettledRow(MarkedUnpaid(row, amount))
<1>1. amount \in Nat /\ amount > EPS
  BY AmountFacts
<1>2. /\ ManuallyPaid(row) \in CashEventRow(Amounts)
      /\ ManuallyPaid(row).outstanding = 0 /\ ManuallyPaid(row).status = "paid"
  BY DEF ManuallyPaid, CashEventRow, Statuses
<1>3. /\ MarkedUnpaid(row, amount) \in CashEventRow(Amounts)
      /\ MarkedUnpaid(row, amount).outstanding = amount /\ MarkedUnpaid(row, amount).status = "open"
  BY <1>1 DEF MarkedUnpaid, CashEventRow, Statuses
<1> QED  BY <1>1, <1>2, <1>3 DEF SettledRow, EPS

LEMMA UnmatchCommitInv ==
    ASSUME Inv, NEW r \in Requests, UnmatchCommit(r)
    PROVE  Inv'
<1> PICK q \in Request : q = inflight[r]
  BY DEF Inv, TypeOK
<1>1. /\ q.op = "unmatchSummed" /\ q.event \in Events /\ q.amount \in Amounts
      /\ q.matched \in Nat /\ q.attr \in AttrIds
  BY RequestFields DEF UnmatchCommit
<1>2. Exists(q.event)
  BY <1>1 DEF Inv, ReferencesExist
<1> DEFINE row == UnmatchedRow(events[q.event], q.amount, q.matched)
<1>3. row \in CashEventRow(Amounts) /\ SettledRow(row)
  BY <1>1, <1>2, RowOf, UnmatchedRowIsSettled
<1>4. events' = [events EXCEPT ![q.event] = row]
  BY DEF UnmatchCommit
<1>5. attributions \in [AttrIds -> Attribution \cup {NoRow}]
  BY DEF Inv, TypeOK
<1>6. attributions' = [attributions EXCEPT ![q.attr] = NoRow]
  BY DEF UnmatchCommit
<1>7. /\ attributions' \in [AttrIds -> Attribution \cup {NoRow}]
      /\ \A a \in AttrIds : attributions'[a] \in {attributions[a], NoRow}
  BY <1>5, <1>6
<1>8. Ends(r) /\ audit' = {} /\ UNCHANGED matches /\ overwritten' \subseteq Events
  BY OverwritesTypes DEF UnmatchCommit
<1> HIDE DEF row
<1> QED  BY <1>1, <1>3, <1>4, <1>7, <1>8, WriteAndEnd

LEMMA AttributionsKept ==
    ASSUME Inv, UNCHANGED attributions
    PROVE  /\ attributions' \in [AttrIds -> Attribution \cup {NoRow}]
           /\ \A a \in AttrIds : attributions'[a] \in {attributions[a], NoRow}
BY DEF Inv, TypeOK

LEMMA MarkCommitInv ==
    ASSUME Inv, NEW r \in Requests, MarkPaidCommit(r) \/ MarkUnpaidCommit(r)
    PROVE  Inv'
<1> PICK q \in Request : q = inflight[r]
  BY DEF Inv, TypeOK
<1>1. /\ Ends(r) /\ audit' = {} /\ UNCHANGED matches /\ overwritten' \subseteq Events
      /\ attributions' \in [AttrIds -> Attribution \cup {NoRow}]
      /\ \A a \in AttrIds : attributions'[a] \in {attributions[a], NoRow}
  BY AttributionsKept, OverwritesTypes DEF MarkPaidCommit, MarkUnpaidCommit, Inv, TypeOK
<1>2. q.event \in Events /\ Exists(q.event)
  BY RequestFields DEF Inv, ReferencesExist, MarkPaidCommit, MarkUnpaidCommit
<1>3. events[q.event] \in CashEventRow(Amounts)
  BY <1>2, RowOf
<1>4. CASE MarkPaidCommit(r)
  <2> DEFINE row == ManuallyPaid(events[q.event])
  <2>1. PICK a \in Amounts : TRUE
    BY <1>3 DEF CashEventRow
  <2>2. row \in CashEventRow(Amounts) /\ SettledRow(row)
    BY <1>3, <2>1, MarkedRowsAreSettled
  <2>3. CASE q.outstanding > EPS
    <3>1. UNCHANGED <<events, overwritten>>
      BY <1>4, <2>3 DEF MarkPaidCommit
    <3> QED  BY <1>1, <3>1, OnlyEnd
  <2>4. CASE ~(q.outstanding > EPS)
    <3>1. events' = [events EXCEPT ![q.event] = row]
      BY <1>4, <2>4 DEF MarkPaidCommit
    <3> HIDE DEF row
    <3> QED  BY <1>1, <1>2, <2>2, <3>1, WriteAndEnd
  <2> QED  BY <2>3, <2>4
<1>5. CASE MarkUnpaidCommit(r)
  <2> DEFINE row == MarkedUnpaid(events[q.event], q.amount)
  <2>1. q.amount \in Amounts
    BY <1>5, RequestFields DEF MarkUnpaidCommit
  <2>2. row \in CashEventRow(Amounts) /\ SettledRow(row)
    BY <1>3, <2>1, MarkedRowsAreSettled
  <2>3. events' = [events EXCEPT ![q.event] = row]
    BY <1>5 DEF MarkUnpaidCommit
  <2> HIDE DEF row
  <2> QED  BY <1>1, <1>2, <2>2, <2>3, WriteAndEnd
<1> QED  BY <1>4, <1>5

---------------------------------------------------------------------------
\* What a sync's upsert makes of an event, whether it existed or not: a
\* consistent row, no reopening, no reduced balance given back.
LEMMA UpsertedRowFacts ==
    ASSUME Inv, NEW e \in Events, NEW due \in Due
    PROVE  /\ UpsertedRow(e, due) \in CashEventRow(Amounts) /\ SettledRow(UpsertedRow(e, due))
           /\ Exists(e) /\ events[e].status = "paid" => UpsertedRow(e, due).status = "paid"
           /\ Exists(e) /\ events[e].outstanding < events[e].amount
                => UpsertedRow(e, due).outstanding <= events[e].outstanding
<1>1. due.amount \in Amounts /\ due.paid \in BOOLEAN
  BY DEF Due
<1>2. Amounts \subseteq Nat /\ \A a \in Amounts : a > EPS
  BY AmountFacts
<1>3. CASE ~Exists(e)
  BY <1>1, <1>2, <1>3, NewRows DEF UpsertedRow
<1>4. CASE Exists(e)
  <2> DEFINE row == events[e]
  <2>1. row \in CashEventRow(Amounts) /\ SettledRow(row) /\ row.outstanding \in Nat
    BY <1>4, RowOf DEF CashEventRow
  <2>2. CASE due.paid
    <3>1. UpsertedRow(e, due) = UpsertedPaidRow(row, due.amount)
      BY <1>4, <2>2 DEF UpsertedRow
    <3> HIDE DEF row
    <3>2. /\ UpsertedPaidRow(row, due.amount) \in CashEventRow(Amounts)
          /\ UpsertedPaidRow(row, due.amount).status = row.status
          /\ UpsertedPaidRow(row, due.amount).outstanding = row.outstanding
      BY <1>1, <2>1, UpsertPaidKeepsRow
    <3> QED  BY <2>1, <3>1, <3>2 DEF SettledRow, row
  <2>3. CASE ~due.paid
    <3>1. UpsertedRow(e, due) = UpsertedOpenRow(row, due.amount)
      BY <1>4, <2>3 DEF UpsertedRow
    <3> HIDE DEF row
    <3>2. /\ UpsertedOpenRow(row, due.amount) \in CashEventRow(Amounts)
          /\ SettledRow(UpsertedOpenRow(row, due.amount))
          /\ row.status = "paid" => UpsertedOpenRow(row, due.amount).status = "paid"
          /\ row.outstanding < row.amount
               => UpsertedOpenRow(row, due.amount).outstanding <= row.outstanding
      BY <1>1, <1>2, <2>1, UpsertKeepsSettled
    <3> QED  BY <3>1, <3>2 DEF row
  <2> QED  BY <1>1, <2>2, <2>3
<1> QED  BY <1>3, <1>4

\* A sync's step: consistent events, the sync moves on, nothing else.
LEMMA SyncMoves ==
    ASSUME Inv, NEW r \in Requests, NEW next \in Request,
           inflight' = [inflight EXCEPT ![r] = next],
           next.op \in {"syncUpsert", "syncStaleAr", "syncStaleAp", "syncOrphans"},
           next.op = "syncUpsert" => next.todo \subseteq DOMAIN next.feed,
           events' \in [Events -> CashEventRow(Amounts) \cup {NoRow}],
           PaidIffSettled', \A f \in Events : Exists(f) => Exists(f)',
           audit' = {}, UNCHANGED <<attributions, matches>>, overwritten' \subseteq Events
    PROVE  Inv'
<1>1. \A a \in AttrIds : attributions'[a] \in {attributions[a], NoRow}
  OBVIOUS
<1>2. /\ inflight' \in [Requests -> Request]
      /\ ReferencesExist'
  BY <1>1, DetachRequest
<1>3. TypeOK'
  BY <1>2 DEF Inv, TypeOK
<1> QED  BY <1>2, <1>3 DEF Inv

LEMMA SyncUpsertInv ==
    ASSUME Inv, NEW r \in Requests, NEW e \in Events, SyncUpsert(r, e)
    PROVE  Inv'
<1> PICK q \in Request : q = inflight[r]
  BY DEF Inv, TypeOK
<1>1. /\ q.op = "syncUpsert" /\ q.feed \in Feed /\ q.todo \in SUBSET Events
      /\ e \in q.todo
  BY RequestFields DEF SyncUpsert
<1>2. q.todo \subseteq DOMAIN q.feed
  BY <1>1 DEF Inv, ReferencesExist
<1>3. q.feed[e] \in Due
  BY <1>1, <1>2, FeedFields
<1> DEFINE row == UpsertedRow(e, q.feed[e])
           next == [op |-> "syncUpsert", feed |-> q.feed, todo |-> q.todo \ {e}]
<1>4. row \in CashEventRow(Amounts) /\ SettledRow(row)
  BY <1>3, UpsertedRowFacts
<1>5. events' = [events EXCEPT ![e] = row] /\ inflight' = [inflight EXCEPT ![r] = next]
      /\ audit' = {} /\ UNCHANGED <<attributions, matches>> /\ overwritten' \subseteq Events
  BY OverwritesTypes DEF SyncUpsert, Continues
<1>6. next \in Request /\ next.op = "syncUpsert" /\ next.todo \subseteq DOMAIN next.feed
  BY <1>1, <1>2 DEF Request
<1> HIDE DEF row, next
<1>7. /\ events' \in [Events -> CashEventRow(Amounts) \cup {NoRow}]
      /\ PaidIffSettled'
      /\ \A f \in Events : Exists(f) => Exists(f)'
  BY <1>4, <1>5, WriteEvent DEF Inv
<1> QED  BY <1>5, <1>6, <1>7, SyncMoves

\* Marking rows stale settles them and touches no other row.
LEMMA MarkStaleFacts ==
    ASSUME Inv, NEW kind, NEW feed, MarkStale(kind, feed)
    PROVE  /\ events' \in [Events -> CashEventRow(Amounts) \cup {NoRow}]
           /\ PaidIffSettled'
           /\ \A f \in Events : Exists(f) => Exists(f)'
           /\ \A f \in Events :
                events'[f] = events[f] \/ (events'[f].status = "paid" /\ events'[f].outstanding = 0)
<1>1. events \in [Events -> CashEventRow(Amounts) \cup {NoRow}]
  BY DEF Inv, TypeOK
<1>2. ASSUME NEW f \in Events
      PROVE  \/ events'[f] = events[f]
             \/ Exists(f) /\ events'[f] = StaleRow(events[f])
  BY DEF MarkStale
<1>3. ASSUME NEW f \in Events, Exists(f)
      PROVE  /\ StaleRow(events[f]) \in CashEventRow(Amounts) /\ SettledRow(StaleRow(events[f]))
             /\ StaleRow(events[f]).status = "paid" /\ StaleRow(events[f]).outstanding = 0
             /\ StaleRow(events[f]) # NoRow
  BY <1>3, RowOf, StaleIsSettled, IdAssumption
<1>4. events' \in [Events -> CashEventRow(Amounts) \cup {NoRow}]
  BY <1>1, <1>2, <1>3 DEF MarkStale
<1>5. \A f \in Events : Exists(f) => Exists(f)'
  BY <1>2, <1>3 DEF Exists
<1>6. PaidIffSettled'
  BY <1>2, <1>3 DEF Inv, PaidIffSettled, Exists
<1> QED  BY <1>2, <1>3, <1>4, <1>5, <1>6

LEMMA SyncRestInv ==
    ASSUME Inv, NEW r \in Requests,
           SyncUpsertsDone(r) \/ SyncStaleAr(r) \/ SyncStaleAp(r)
    PROVE  Inv'
<1> PICK q \in Request : q = inflight[r]
  BY DEF Inv, TypeOK
<1>1. q.feed \in Feed
  BY RequestFields DEF SyncUpsertsDone, SyncStaleAr, SyncStaleAp
<1>2. \E next \in Request :
        /\ inflight' = [inflight EXCEPT ![r] = next]
        /\ next.op \in {"syncStaleAr", "syncStaleAp", "syncOrphans"}
  <2>1. /\ [op |-> "syncStaleAr", feed |-> q.feed] \in Request
        /\ [op |-> "syncStaleAp", feed |-> q.feed] \in Request
        /\ [op |-> "syncOrphans"] \in Request
    BY <1>1 DEF Request
  <2>2. CASE SyncUpsertsDone(r)
    BY <2>1, <2>2 DEF SyncUpsertsDone, Continues
  <2>3. CASE SyncStaleAr(r)
    BY <2>1, <2>3 DEF SyncStaleAr, Continues
  <2>4. CASE SyncStaleAp(r)
    <3>1. inflight' = [inflight EXCEPT ![r] = [op |-> "syncOrphans"]]
      BY <2>4 DEF SyncStaleAp, Continues
    <3>2. [op |-> "syncOrphans"].op = "syncOrphans"
      OBVIOUS
    <3> QED  BY <2>1, <3>1, <3>2
  <2> QED  BY <2>2, <2>3, <2>4
<1>3. audit' = {} /\ UNCHANGED <<attributions, matches>> /\ overwritten' \subseteq Events
  BY DEF SyncUpsertsDone, SyncStaleAr, SyncStaleAp, Inv, TypeOK
<1>4. /\ events' \in [Events -> CashEventRow(Amounts) \cup {NoRow}]
      /\ PaidIffSettled'
      /\ \A f \in Events : Exists(f) => Exists(f)'
  <2>1. CASE UNCHANGED events
    BY <2>1 DEF Inv, TypeOK, PaidIffSettled, Exists
  <2>2. CASE \E kind \in {Invoices, Bills} : MarkStale(kind, q.feed)
    BY <2>2, MarkStaleFacts
  <2> QED  BY <2>1, <2>2 DEF SyncUpsertsDone, SyncStaleAr, SyncStaleAp
<1> QED  BY <1>2, <1>3, <1>4, SyncMoves

LEMMA SyncDeleteOrphansInv ==
    ASSUME Inv, NEW r \in Requests, SyncDeleteOrphans(r)
    PROVE  Inv'
<1>1. /\ Ends(r) /\ audit' = {} /\ UNCHANGED <<events, matches, overwritten>>
      /\ attributions' = [a \in AttrIds |-> IF Orphaned(a) THEN NoRow ELSE attributions[a]]
  BY DEF SyncDeleteOrphans
<1>2. attributions \in [AttrIds -> Attribution \cup {NoRow}]
  BY DEF Inv, TypeOK
<1>3. /\ attributions' \in [AttrIds -> Attribution \cup {NoRow}]
      /\ \A a \in AttrIds : attributions'[a] \in {attributions[a], NoRow}
  BY <1>1, <1>2
<1> QED  BY <1>1, <1>3, OnlyEnd
---------------------------------------------------------------------------

---------------------------------------------------------------------------
\* The steps that read and keep what they read.
LEMMA BeginInv ==
    ASSUME Inv, NEW r \in Requests, Begin(r)
    PROVE  Inv'
<1> USE DEF Starts
<1>1. ASSUME NEW x \in MatchIds, NEW to \in {"confirmed", "rejected"}, PatchSelect(r, x, to)
      PROVE  Inv'
  <2> DEFINE q == [op |-> "patch", match |-> x, to |-> to]
  <2>1. q \in Request /\ q.op = "patch" /\ q.match = x
    BY DEF Request
  <2> HIDE DEF q
  <2>2. inflight' = [inflight EXCEPT ![r] = q] /\ matches[x] # NoRow /\ audit' = {}
        /\ UNCHANGED <<events, attributions, matches, overwritten>>
    BY <1>1 DEF PatchSelect, MatchFound, q
  <2> QED  BY <2>1, <2>2, MoveRequest
<1>2. ASSUME NEW x \in MatchIds, DeleteRead(r, x)
      PROVE  Inv'
  <2> DEFINE q == [op |-> "delete", match |-> x, seen |-> matches[x].state]
  <2>1. matches[x] # NoRow /\ matches[x] \in Match
    BY <1>2 DEF DeleteRead, MatchFound, Inv, TypeOK
  <2>2. q \in Request /\ q.op = "delete" /\ q.match = x
    BY <2>1 DEF Request, Match
  <2> HIDE DEF q
  <2>3. inflight' = [inflight EXCEPT ![r] = q] /\ audit' = {}
        /\ UNCHANGED <<events, attributions, matches, overwritten>>
    BY <1>2 DEF DeleteRead, q
  <2> QED  BY <2>1, <2>2, <2>3, MoveRequest
<1>3. ASSUME NEW a \in AttrIds, UnmatchRead(r, a)
      PROVE  Inv'
  <2> DEFINE q == [op |-> "unmatchRead", attr |-> a, event |-> attributions[a].event]
  <2>1. Live(a) /\ attributions[a] \in Attribution
    BY <1>3 DEF UnmatchRead, Live, Inv, TypeOK
  <2>2. q \in Request /\ q.op = "unmatchRead" /\ q.event = attributions[a].event
    BY <2>1 DEF Request, Attribution
  <2>3. Exists(attributions[a].event)
    BY <2>1 DEF Inv, ReferencesExist
  <2> HIDE DEF q
  <2>4. inflight' = [inflight EXCEPT ![r] = q] /\ audit' = {}
        /\ UNCHANGED <<events, attributions, matches, overwritten>>
    BY <1>3 DEF UnmatchRead, q
  <2> QED  BY <2>2, <2>3, <2>4, MoveRequest
<1>4. ASSUME NEW e \in Events, MarkPaidRead(r, e)
      PROVE  Inv'
  <2> DEFINE q == [op |-> "markPaid", event |-> e, outstanding |-> events[e].outstanding]
  <2>1. Exists(e) /\ events[e].outstanding \in Nat
    BY <1>4, RowOf DEF MarkPaidRead, CashEventRow
  <2>2. q \in Request /\ q.op = "markPaid" /\ q.event = e
    BY <2>1 DEF Request
  <2> HIDE DEF q
  <2>3. inflight' = [inflight EXCEPT ![r] = q] /\ audit' = {}
        /\ UNCHANGED <<events, attributions, matches, overwritten>>
    BY <1>4 DEF MarkPaidRead, q
  <2> QED  BY <2>1, <2>2, <2>3, MoveRequest
<1>5. ASSUME NEW e \in Events, MarkUnpaidRead(r, e)
      PROVE  Inv'
  <2> DEFINE q == [op |-> "markUnpaid", event |-> e, amount |-> events[e].amount]
  <2>1. Exists(e) /\ events[e].amount \in Amounts
    BY <1>5, RowOf DEF MarkUnpaidRead, CashEventRow
  <2>2. q \in Request /\ q.op = "markUnpaid" /\ q.event = e
    BY <2>1 DEF Request
  <2> HIDE DEF q
  <2>3. inflight' = [inflight EXCEPT ![r] = q] /\ audit' = {}
        /\ UNCHANGED <<events, attributions, matches, overwritten>>
    BY <1>5 DEF MarkUnpaidRead, q
  <2> QED  BY <2>1, <2>2, <2>3, MoveRequest
<1>6. ASSUME NEW feed \in Feed, SyncStart(r, feed)
      PROVE  Inv'
  <2> DEFINE q == [op |-> "syncUpsert", feed |-> feed, todo |-> DOMAIN feed]
  <2>1. q \in Request /\ q.op = "syncUpsert" /\ q.todo \subseteq DOMAIN q.feed
    BY FeedFields DEF Request
  <2> HIDE DEF q
  <2>2. inflight' = [inflight EXCEPT ![r] = q] /\ audit' = {}
        /\ UNCHANGED <<events, attributions, matches, overwritten>>
    BY <1>6 DEF SyncStart, q
  <2> QED  BY <2>1, <2>2, MoveRequest
<1> QED  BY <1>1, <1>2, <1>3, <1>4, <1>5, <1>6 DEF Begin

\* The two reads inside the unmatch transaction.
LEMMA UnmatchReadsInv ==
    ASSUME Inv, NEW r \in Requests, UnmatchDelete(r) \/ UnmatchSum(r)
    PROVE  Inv'
<1> PICK p \in Request : p = inflight[r]
  BY DEF Inv, TypeOK
<1>1. p.attr \in AttrIds /\ p.event \in Events /\ Exists(p.event)
  BY RequestFields DEF UnmatchDelete, UnmatchSum, Inv, ReferencesExist
<1>2. audit' = {} /\ UNCHANGED <<events, attributions, matches, overwritten>>
  BY DEF UnmatchDelete, UnmatchSum
<1>3. CASE UnmatchDelete(r)
  <2> DEFINE q == [op |-> "unmatchDeleted", attr |-> p.attr, event |-> p.event,
                   amount |-> events[p.event].amount]
  <2>1. events[p.event].amount \in Amounts
    BY <1>1, RowOf DEF CashEventRow
  <2>2. q \in Request /\ q.op = "unmatchDeleted" /\ q.event = p.event
    BY <1>1, <2>1 DEF Request
  <2>3. inflight' = [inflight EXCEPT ![r] = q]
    BY <1>3 DEF UnmatchDelete, Continues
  <2> HIDE DEF q
  <2> QED  BY <1>1, <1>2, <2>2, <2>3, MoveRequest
<1>4. CASE UnmatchSum(r)
  <2> DEFINE q == [op |-> "unmatchSummed", attr |-> p.attr, event |-> p.event,
                   amount |-> p.amount, matched |-> RemainingFor(p.event, p.attr)]
  <2>1. RemainingFor(p.event, p.attr) \in Nat
    BY SumOfNetIsNat DEF RemainingFor
  <2>2. p.amount \in Amounts
    BY <1>4, RequestFields DEF UnmatchSum
  <2>3. q \in Request /\ q.op = "unmatchSummed" /\ q.event = p.event
    BY <1>1, <2>1, <2>2 DEF Request
  <2>4. inflight' = [inflight EXCEPT ![r] = q]
    BY <1>4 DEF UnmatchSum, Continues
  <2> HIDE DEF q
  <2> QED  BY <1>1, <1>2, <2>3, <2>4, MoveRequest
<1> QED  BY <1>3, <1>4

LEMMA FailInv ==
    ASSUME Inv, NEW r \in Requests, Fail(r)
    PROVE  Inv'
<1>1. Ends(r) /\ audit' = {} /\ UNCHANGED <<events, attributions, matches, overwritten>>
  BY DEF Fail
<1> QED  BY <1>1, AttributionsKept, OnlyEnd

LEMMA NextInv == Inv /\ [Next]_vars => Inv'
<1> SUFFICES ASSUME Inv, [Next]_vars PROVE Inv'
  OBVIOUS
<1>1. ASSUME NEW x \in MatchIds, NEW m \in Movements, NEW e \in Events, CreateMatch(x, m, e)
      PROVE  Inv'
  BY <1>1, CreateMatchInv
<1>2. ASSUME NEW r \in Requests, Begin(r) PROVE Inv'
  BY <1>2, BeginInv
<1>3. ASSUME NEW r \in Requests, Proceed(r) PROVE Inv'
  <2>1. CASE PatchCommit(r)
    BY <2>1, PatchCommitInv
  <2>2. CASE DeleteCommit(r)
    BY <2>2, DeleteCommitInv
  <2>3. CASE UnmatchDelete(r) \/ UnmatchSum(r)
    BY <2>3, UnmatchReadsInv
  <2>4. CASE UnmatchCommit(r)
    BY <2>4, UnmatchCommitInv
  <2>5. CASE MarkPaidCommit(r) \/ MarkUnpaidCommit(r)
    BY <2>5, MarkCommitInv
  <2>6. CASE \E e \in Events : SyncUpsert(r, e)
    BY <2>6, SyncUpsertInv
  <2>7. CASE SyncUpsertsDone(r) \/ SyncStaleAr(r) \/ SyncStaleAp(r)
    BY <2>7, SyncRestInv
  <2>8. CASE SyncDeleteOrphans(r)
    BY <2>8, SyncDeleteOrphansInv
  <2> QED  BY <1>3, <2>1, <2>2, <2>3, <2>4, <2>5, <2>6, <2>7, <2>8 DEF Proceed
<1>4. ASSUME NEW r \in Requests, Fail(r) PROVE Inv'
  BY <1>4, FailInv
<1>6. CASE RebuildMovements
  BY <1>6, RebuildMovementsInv
<1>5. CASE UNCHANGED vars
  BY <1>5 DEF vars, Inv, TypeOK, ReferencesExist, PaidIffSettled, Live,
              Exists
<1> QED  BY <1>1, <1>2, <1>3, <1>4, <1>5, <1>6 DEF Next

THEOREM InvHolds == Spec => []Inv
BY InitInv, NextInv, PTL DEF Spec

\* Types hold throughout: in particular no balance is ever negative.
THEOREM TypeCorrect == Spec => []TypeOK
<1>1. Inv => TypeOK
  BY DEF Inv
<1> QED  BY <1>1, InvHolds, PTL

\* Whatever writers interleave, an event is "paid" exactly when at most one
\* cent is outstanding.
THEOREM PaidIffSettledHolds == Spec => []PaidIffSettled
<1>1. Inv => PaidIffSettled
  BY DEF Inv
<1> QED  BY <1>1, InvHolds, PTL

---------------------------------------------------------------------------
(* What confirmed matches hold.                                            *)

\* The cents that SumOfMatched counts.
CentsOf(rows, ids) == {c \in ids \X (1..MaxAmount) : c[2] <= rows[c[1]].matched}

LEMMA CentsAreFinite ==
    ASSUME NEW rows, NEW ids, ids \subseteq MatchIds
    PROVE  /\ IsFiniteSet(CentsOf(rows, ids))
           /\ SumOfMatched(rows, ids) = Cardinality(CentsOf(rows, ids))
           /\ SumOfMatched(rows, ids) \in Nat
<1>1. IsFiniteSet(ids)
  BY IdAssumption, FS_Subset
<1>2. IsFiniteSet(1..MaxAmount)
  BY AmountAssumption, FS_Interval
<1>3. IsFiniteSet(ids \X (1..MaxAmount))
  BY <1>1, <1>2, FS_Product
<1>4. CentsOf(rows, ids) \subseteq ids \X (1..MaxAmount)
  BY DEF CentsOf
<1>5. IsFiniteSet(CentsOf(rows, ids))
  BY <1>3, <1>4, FS_Subset
<1>6. SumOfMatched(rows, ids) = Cardinality(CentsOf(rows, ids))
  BY DEF SumOfMatched, CentsOf
<1> QED  BY <1>5, <1>6, FS_CardinalityType

\* Fewer matches with the same amounts take no more.
LEMMA FewerTakeLess ==
    ASSUME NEW rows, NEW other, NEW ids, NEW more, ids \subseteq more, more \subseteq MatchIds,
           \A x \in ids : rows[x].matched = other[x].matched
    PROVE  SumOfMatched(rows, ids) <= SumOfMatched(other, more)
<1>1. CentsOf(rows, ids) \subseteq CentsOf(other, more)
  BY DEF CentsOf
<1>2. IsFiniteSet(CentsOf(other, more))
  BY CentsAreFinite
<1>3. Cardinality(CentsOf(rows, ids)) <= Cardinality(CentsOf(other, more))
  BY <1>1, <1>2, FS_Subset
<1> QED  BY <1>3, CentsAreFinite

\* One more match takes its amount.
LEMMA OneMoreTakes ==
    ASSUME NEW rows, NEW ids, ids \subseteq MatchIds, NEW x \in MatchIds, x \notin ids,
           rows[x].matched \in 1..MaxAmount
    PROVE  SumOfMatched(rows, ids \cup {x}) = SumOfMatched(rows, ids) + rows[x].matched
<1> DEFINE m == rows[x].matched
           own == {x} \X (1..m)
<1> HIDE DEF m
<1>1. m \in Nat /\ m \in 1..MaxAmount
  BY AmountAssumption DEF m
<1>2. IsFiniteSet(own) /\ Cardinality(own) = m
  <2>1. IsFiniteSet({x}) /\ Cardinality({x}) = 1
    BY FS_Singleton
  <2>2. IsFiniteSet(1..m) /\ Cardinality(1..m) = m
    <3>1. IsFiniteSet(1..m) /\ Cardinality(1..m) = IF 1 > m THEN 0 ELSE m - 1 + 1
      BY <1>1, FS_Interval
    <3> QED  BY <1>1, <3>1
  <2>3. IsFiniteSet({x} \X (1..m)) /\ Cardinality({x} \X (1..m)) = Cardinality({x}) * Cardinality(1..m)
    <3> DEFINE S == {x}
               T == 1..m
    <3>1. IsFiniteSet(S) /\ IsFiniteSet(T)
      BY <2>1, <2>2
    <3> HIDE DEF S, T
    <3>2. IsFiniteSet(S \X T) /\ Cardinality(S \X T) = Cardinality(S) * Cardinality(T)
      BY <3>1, FS_Product
    <3> QED  BY <3>2 DEF S, T
  <2>4. Cardinality({x} \X (1..m)) = 1 * m
    BY <2>1, <2>2, <2>3
  <2> QED  BY <1>1, <2>3, <2>4
<1>3. CentsOf(rows, ids \cup {x}) = CentsOf(rows, ids) \cup own
  <2>1. ASSUME NEW n PROVE (n \in 1..MaxAmount /\ n <= m) <=> n \in 1..m
    BY <1>1, AmountAssumption
  <2> QED  BY <2>1 DEF CentsOf, m
<1>4. CentsOf(rows, ids) \cap own = {}
  BY DEF CentsOf
<1>5. /\ IsFiniteSet(CentsOf(rows, ids))
      /\ SumOfMatched(rows, ids) = Cardinality(CentsOf(rows, ids))
      /\ SumOfMatched(rows, ids) \in Nat
  BY CentsAreFinite
<1>6. SumOfMatched(rows, ids \cup {x}) = Cardinality(CentsOf(rows, ids \cup {x}))
  BY CentsAreFinite
<1> HIDE DEF own
<1>7. Cardinality(CentsOf(rows, ids) \cup own)
        = Cardinality(CentsOf(rows, ids)) + Cardinality(own)
            - Cardinality(CentsOf(rows, ids) \cap own)
  BY <1>2, <1>5, FS_Union
<1>8. Cardinality(CentsOf(rows, ids) \cap own) = 0
  BY <1>4, FS_EmptySet
<1>9. SumOfMatched(rows, ids \cup {x}) = SumOfMatched(rows, ids) + m - 0
  BY <1>2, <1>3, <1>5, <1>6, <1>7, <1>8
<1>10. SumOfMatched(rows, ids \cup {x}) = SumOfMatched(rows, ids) + m
  BY <1>1, <1>5, <1>9
<1> QED  BY <1>10 DEF m

\* A DELETE has seen match x confirmed and will give its amount back.
DeleteUnderWay(x) ==
    \E r \in Requests : /\ inflight[r].op = "delete" /\ inflight[r].match = x
                        /\ inflight[r].seen = "confirmed"

\* The matches whose amount event e must still be able to give back: those that
\* are confirmed, and those a DELETE under way has seen confirmed.
TakenFor(e) ==
    {x \in MatchIds : /\ MatchFound(x) /\ matches[x].event = e
                      /\ matches[x].state = "confirmed" \/ DeleteUnderWay(x)}

\* The inductive form of ConfirmedMatchesHoldCash.
TakenIsHeld ==
    \A e \in Events : Exists(e) /\ e \notin overwritten =>
        events[e].outstanding + SumOfMatched(matches, TakenFor(e)) <= events[e].amount

\* Event e takes part in the balance as before or with less outstanding.
LowerOrSame(e) ==
    /\ Exists(e) /\ e \notin overwritten
    /\ events'[e].outstanding <= events[e].outstanding
    /\ events'[e].amount = events[e].amount

LEMMA RowAmounts ==
    ASSUME Inv, NEW e \in Events, Exists(e)
    PROVE  /\ events[e].outstanding \in Nat /\ events[e].amount \in Nat
           /\ SumOfMatched(matches, TakenFor(e)) \in Nat
<1>1. events[e].outstanding \in Nat /\ events[e].amount \in Nat
  BY RowOf, AmountFacts DEF CashEventRow
<1>2. TakenFor(e) \subseteq MatchIds
  BY DEF TakenFor
<1> QED  BY <1>1, <1>2, CentsAreFinite

\* No match of an event that is new is confirmed yet.
LEMMA NewEventHasNone ==
    ASSUME Inv, NEW e \in Events, ~Exists(e)
    PROVE  TakenFor(e) = {}
BY DEF Inv, ReferencesExist, TakenFor, MatchFound

\* A step on event e that lowers its balance, or creates it, and adds no match
\* to those it holds.
LEMMA HeldWhenLower ==
    ASSUME Inv, Inv', TakenIsHeld, NEW e \in Events, Exists(e)',
           TakenFor(e)' \subseteq TakenFor(e),
           \A x \in TakenFor(e) : matches'[x].matched = matches[x].matched,
           \/ LowerOrSame(e)
           \/ ~Exists(e) /\ events'[e].outstanding <= events'[e].amount
    PROVE  (events[e].outstanding + SumOfMatched(matches, TakenFor(e)) <= events[e].amount)'
<1> DEFINE before == TakenFor(e)
           after == TakenFor(e)'
<1>1. before \subseteq MatchIds /\ after \subseteq MatchIds
  BY DEF TakenFor
<1>2. /\ events'[e].outstanding \in Nat /\ events'[e].amount \in Nat
      /\ SumOfMatched(matches', after) \in Nat
  <2>1. events'[e] \in CashEventRow(Amounts)
    BY DEF Inv, TypeOK, Exists
  <2>3. events'[e].outstanding \in Nat /\ events'[e].amount \in Nat
    BY <2>1, AmountFacts DEF CashEventRow
  <2>2. SumOfMatched(matches', after) \in Nat
    BY <1>1, CentsAreFinite
  <2> QED  BY <2>2, <2>3
<1> HIDE DEF before, after
<1>3. SumOfMatched(matches', after) <= SumOfMatched(matches, before)
  <2>1. after \subseteq before /\ \A x \in after : matches'[x].matched = matches[x].matched
    BY DEF before, after
  <2> QED  BY <1>1, <2>1, FewerTakeLess
<1>4. CASE LowerOrSame(e)
  <2>1. /\ events[e].outstanding \in Nat /\ events[e].amount \in Nat
        /\ SumOfMatched(matches, before) \in Nat
    BY <1>4, RowAmounts DEF LowerOrSame, before
  <2>2. events[e].outstanding + SumOfMatched(matches, before) <= events[e].amount
    BY <1>4 DEF LowerOrSame, TakenIsHeld, before
  <2>3. events'[e].outstanding + SumOfMatched(matches', after) <= events'[e].amount
    BY <1>2, <1>3, <1>4, <2>1, <2>2 DEF LowerOrSame
  <2> QED  BY <2>3 DEF after
<1>5. CASE ~Exists(e) /\ events'[e].outstanding <= events'[e].amount
  <2>1. before = {}
    BY <1>5, NewEventHasNone DEF before
  <2>2. CentsOf(matches, {}) = {}
    BY DEF CentsOf
  <2>3. SumOfMatched(matches, {}) = 0
    BY <2>2, CentsAreFinite, FS_EmptySet
  <2>4. SumOfMatched(matches', after) = 0
    BY <1>2, <1>3, <2>1, <2>3
  <2>5. events'[e].outstanding + SumOfMatched(matches', after) <= events'[e].amount
    BY <1>2, <1>5, <2>4
  <2> QED  BY <2>5 DEF after
<1> QED  BY <1>4, <1>5

\* A step that lets no further match be held, and lowers or leaves the balances
\* of the events that are not overwritten.
LEMMA HeldByStep ==
    ASSUME Inv, Inv', TakenIsHeld,
           \A x \in MatchIds :
             (/\ MatchFound(x)
              /\ matches[x].state = "confirmed" \/ DeleteUnderWay(x))'
             => /\ MatchFound(x) /\ matches'[x].event = matches[x].event
                /\ matches[x].state = "confirmed" \/ DeleteUnderWay(x),
           \A x \in MatchIds : MatchFound(x) => matches'[x].matched = matches[x].matched,
           \A e \in Events : Exists(e)' /\ e \notin overwritten' =>
             \/ LowerOrSame(e)
             \/ ~Exists(e) /\ events'[e].outstanding <= events'[e].amount
    PROVE  TakenIsHeld'
<1>1. ASSUME NEW e \in Events, Exists(e)', e \notin overwritten'
      PROVE  (events[e].outstanding + SumOfMatched(matches, TakenFor(e)) <= events[e].amount)'
  <2>1. TakenFor(e)' \subseteq TakenFor(e)
    BY DEF TakenFor
  <2>2. \A x \in TakenFor(e) : matches'[x].matched = matches[x].matched
    BY DEF TakenFor
  <2>3. \/ LowerOrSame(e)
        \/ ~Exists(e) /\ events'[e].outstanding <= events'[e].amount
    BY <1>1
  <2> QED  BY <1>1, <2>1, <2>2, <2>3, HeldWhenLower
<1> QED  BY <1>1 DEF TakenIsHeld

\* Moving one request on starts no DELETE unless of a match that is confirmed.
LEMMA NoNewDelete ==
    ASSUME Inv, NEW r \in Requests, NEW q, inflight' = [inflight EXCEPT ![r] = q],
           q.op = "delete" /\ q.seen = "confirmed" => matches[q.match].state = "confirmed"
    PROVE  \A x \in MatchIds : DeleteUnderWay(x)' =>
             DeleteUnderWay(x) \/ matches[x].state = "confirmed"
<1>1. \A s \in Requests : inflight'[s] = IF s = r THEN q ELSE inflight[s]
  BY DEF Inv, TypeOK
<1> QED  BY <1>1 DEF DeleteUnderWay

\* A step of one request that is not a match's and no DELETE of one.
LEMMA HeldByOthers ==
    ASSUME Inv, Inv', TakenIsHeld, UNCHANGED matches,
           NEW r \in Requests, NEW q, inflight' = [inflight EXCEPT ![r] = q],
           q.op = "delete" /\ q.seen = "confirmed" => matches[q.match].state = "confirmed",
           \A e \in Events : Exists(e)' /\ e \notin overwritten' =>
             \/ LowerOrSame(e)
             \/ ~Exists(e) /\ events'[e].outstanding <= events'[e].amount
    PROVE  TakenIsHeld'
<1>1. \A x \in MatchIds : DeleteUnderWay(x)' =>
        DeleteUnderWay(x) \/ matches[x].state = "confirmed"
  BY NoNewDelete
<1>2. \A x \in MatchIds :
        (/\ MatchFound(x)
         /\ matches[x].state = "confirmed" \/ DeleteUnderWay(x))'
        => /\ MatchFound(x) /\ matches'[x].event = matches[x].event
           /\ matches[x].state = "confirmed" \/ DeleteUnderWay(x)
  BY <1>1 DEF MatchFound
<1>3. \A x \in MatchIds : MatchFound(x) => matches'[x].matched = matches[x].matched
  OBVIOUS
<1> QED  BY <1>2, <1>3, HeldByStep

\* The balances when no event changes.
LEMMA SameBalances ==
    ASSUME Inv, UNCHANGED <<events, overwritten>>
    PROVE  \A e \in Events : Exists(e)' /\ e \notin overwritten' => LowerOrSame(e)
<1>1. \A e \in Events : Exists(e) => events[e].outstanding \in Nat
  BY RowAmounts
<1> QED  BY <1>1 DEF LowerOrSame, Exists

\* A write that is recorded in overwritten lowers the balances of the others.
LEMMA OverwritesLowers ==
    ASSUME Inv, Inv', Overwrites
    PROVE  \A e \in Events : Exists(e)' /\ e \notin overwritten' /\ Exists(e) => LowerOrSame(e)
<1> TAKE e \in Events
<1> HAVE Exists(e)' /\ e \notin overwritten' /\ Exists(e)
<1>1. /\ ~(events'[e].outstanding > events[e].outstanding)
      /\ events'[e].amount = events[e].amount /\ e \notin overwritten
  BY DEF Overwrites, Exists
<1>2. events[e].outstanding \in Nat
  BY RowAmounts
<1>3. events'[e] \in CashEventRow(Amounts)
  BY DEF Inv, TypeOK, Exists
<1>4. events'[e].outstanding \in Nat
  BY <1>3 DEF CashEventRow
<1> QED  BY <1>1, <1>2, <1>4 DEF LowerOrSame

LEMMA HeldByCreateMatch ==
    ASSUME Inv, Inv', TakenIsHeld, NEW x \in MatchIds, NEW m \in Movements, NEW e \in Events,
           CreateMatch(x, m, e)
    PROVE  TakenIsHeld'
<1>1. matches[x] = NoRow /\ UNCHANGED <<events, inflight, overwritten>>
  BY DEF CreateMatch
<1>2. matches'[x].state = "pending" /\ \A y \in MatchIds : y # x => matches'[y] = matches[y]
  BY DEF CreateMatch, Inv, TypeOK
<1>3. ~DeleteUnderWay(x)'
  BY <1>1 DEF DeleteUnderWay, Inv, ReferencesExist
<1>4. \A y \in MatchIds :
        (/\ MatchFound(y)
         /\ matches[y].state = "confirmed" \/ DeleteUnderWay(y))'
        => /\ MatchFound(y) /\ matches'[y].event = matches[y].event
           /\ matches[y].state = "confirmed" \/ DeleteUnderWay(y)
  BY <1>1, <1>2, <1>3 DEF MatchFound, DeleteUnderWay
<1>5. \A y \in MatchIds : MatchFound(y) => matches'[y].matched = matches[y].matched
  BY <1>1, <1>2 DEF MatchFound
<1> QED  BY <1>1, <1>4, <1>5, SameBalances, HeldByStep

LEMMA HeldByRebuild ==
    ASSUME Inv, Inv', TakenIsHeld, RebuildMovements
    PROVE  TakenIsHeld'
<1>1. UNCHANGED <<events, inflight, overwritten>>
  BY DEF RebuildMovements
<1>2. ASSUME NEW x \in MatchIds
      PROVE  /\ ~MatchFound(x)'
             /\ MatchFound(x) => matches'[x].matched = matches[x].matched
  <2>1. CASE MatchFound(x)
    <3>1. matches[x] \in Match /\ matches'[x] = [matches[x] EXCEPT !.state = "deleted"]
      BY <2>1 DEF RebuildMovements, MatchFound, Inv, TypeOK
    <3>2. matches'[x].state = "deleted" /\ matches'[x].matched = matches[x].matched
      BY <3>1 DEF Match
    <3> QED  BY <3>2 DEF MatchFound
  <2>2. CASE ~MatchFound(x)
    <3>1. matches'[x] = matches[x]
      BY <2>2 DEF RebuildMovements
    <3> QED  BY <2>2, <3>1 DEF MatchFound
  <2> QED  BY <2>1, <2>2
<1> QED  BY <1>1, <1>2, SameBalances, HeldByStep

\* What syncInvoiceStatusFromMatch makes of the balance.
LEMMA SyncedBalance ==
    ASSUME Inv, NEW x \in MatchIds, matches[x] # NoRow, NEW delta \in Int, NEW force \in BOOLEAN,
           SyncInvoiceStatusFromMatch(x, delta, force)
    PROVE  /\ events'[matches[x].event].outstanding
                = LessButNotNegative(events[matches[x].event].outstanding, delta)
           /\ events'[matches[x].event].amount = events[matches[x].event].amount
<1> DEFINE e == matches[x].event
           after == SyncedInvoice(events[e], delta, force)
<1>1. e \in Events /\ events[e] \in CashEventRow(Amounts)
  BY DEF Inv, TypeOK, ReferencesExist, Match, Exists
<1>2. events' = [events EXCEPT ![e] = after]
  BY DEF SyncInvoiceStatusFromMatch
<1>3. /\ after.outstanding = LessButNotNegative(events[e].outstanding, delta)
      /\ after.amount = events[e].amount
  BY <1>1 DEF SyncedInvoice, StatusChanged, CashEventRow
<1> HIDE DEF after
<1>4. events'[e] = after
  BY <1>1, <1>2 DEF Inv, TypeOK
<1> QED  BY <1>3, <1>4

\* A confirmation takes its amount off the balance, or finds less than that.
LEMMA HeldByPatch ==
    ASSUME Inv, Inv', TakenIsHeld, NEW r \in Requests, PatchCommit(r)
    PROVE  TakenIsHeld'
<1> PICK x \in MatchIds : x = inflight[r].match /\ matches[x] # NoRow
  BY RequestFields DEF Inv, TypeOK, ReferencesExist, PatchCommit
<1> DEFINE d == matches[x].event
           m == matches[x].matched
<1>1. /\ matches[x] \in Match /\ d \in Events /\ m \in 1..MaxAmount /\ m \in Nat
      /\ matches \in [MatchIds -> Match \cup {NoRow}]
      /\ inflight' = [inflight EXCEPT ![r] = Idle]
      /\ inflight \in [Requests -> Request]
  BY AmountAssumption DEF Inv, TypeOK, Match, PatchCommit, Ends
<1>2. \A y \in MatchIds : /\ matches'[y].matched = matches[y].matched
                          /\ matches'[y].event = matches[y].event
                          /\ MatchFound(y)' => MatchFound(y)
                          /\ y # x => matches'[y] = matches[y]
                          /\ matches[y].state = "deleted" => matches'[y] = matches[y]
  BY <1>1 DEF PatchCommit, MatchFound, Match
<1>3. Idle.op # "delete"
  BY DEF Idle
<1>4. \A y \in MatchIds : DeleteUnderWay(y)' => DeleteUnderWay(y)
  <2>1. \A s \in Requests : inflight'[s] = IF s = r THEN Idle ELSE inflight[s]
    BY <1>1
  <2> QED  BY <1>3, <2>1 DEF DeleteUnderWay
<1>5. ASSUME NEW e \in Events
      PROVE  /\ TakenFor(e)' \subseteq TakenFor(e) \cup {x}
             /\ x \in TakenFor(e)' => e = d
             /\ TakenFor(e) \subseteq MatchIds
  BY <1>2, <1>4 DEF TakenFor
<1>6. inflight[r].to # "confirmed" =>
        /\ UNCHANGED <<events, overwritten>>
        /\ matches'[x].state # "confirmed"
  <2>1. inflight[r].to \in {"confirmed", "rejected"}
    BY <1>1, RequestFields DEF PatchCommit
  <2> QED  BY <1>1, <2>1 DEF PatchCommit, Match
<1>7. inflight[r].to = "confirmed" =>
        /\ events'[d].outstanding = LessButNotNegative(events[d].outstanding, m)
        /\ events'[d].amount = events[d].amount
        /\ \A e \in Events : e # d => events'[e] = events[e]
        /\ overwritten' = overwritten \cup {e \in {d} : events[e].outstanding < m}
  <2> SUFFICES ASSUME inflight[r].to = "confirmed"
               PROVE  /\ events'[d].outstanding = LessButNotNegative(events[d].outstanding, m)
                      /\ events'[d].amount = events[d].amount
                      /\ \A e \in Events : e # d => events'[e] = events[e]
                      /\ overwritten' = overwritten \cup {e \in {d} : events[e].outstanding < m}
    OBVIOUS
  <2>1. SyncInvoiceStatusFromMatch(x, m, TRUE)
    BY DEF PatchCommit
  <2>5. m \in Int
    BY <1>1
  <2>2. /\ events'[d].outstanding = LessButNotNegative(events[d].outstanding, m)
        /\ events'[d].amount = events[d].amount
    BY <2>1, <2>5, SyncedBalance
  <2>3. \A e \in Events : e # d => events'[e] = events[e]
    BY <2>1, <2>5, SyncInvoiceStep
  <2>4. overwritten' = overwritten \cup {e \in {d} : events[e].outstanding < m}
    BY DEF PatchCommit
  <2> QED  BY <2>2, <2>3, <2>4
<1>8. ASSUME NEW e \in Events, Exists(e)', e \notin overwritten'
      PROVE  (events[e].outstanding + SumOfMatched(matches, TakenFor(e)) <= events[e].amount)'
  <2>1. Exists(e)
    <3>1. CASE inflight[r].to = "confirmed" /\ e = d
      BY <3>1 DEF Inv, ReferencesExist
    <3> QED  BY <1>6, <1>7, <1>8, <3>1 DEF Exists
  <2>2. /\ events[e].outstanding \in Nat /\ events[e].amount \in Nat
        /\ SumOfMatched(matches, TakenFor(e)) \in Nat
    BY <2>1, RowAmounts
  <2>3. e \notin overwritten
    BY <1>6, <1>7, <1>8
  <2>4. LowerOrSame(e)
    <3>1. CASE inflight[r].to = "confirmed" /\ e = d
      <4>1. LessButNotNegative(events[e].outstanding, m) <= events[e].outstanding
        BY <1>1, <2>2 DEF LessButNotNegative
      <4> QED  BY <1>7, <2>1, <2>3, <3>1, <4>1 DEF LowerOrSame
    <3>2. CASE ~(inflight[r].to = "confirmed" /\ e = d)
      <4>1. events'[e] = events[e]
        BY <1>6, <1>7, <3>2
      <4> QED  BY <2>1, <2>2, <2>3, <4>1 DEF LowerOrSame
    <3> QED  BY <3>1, <3>2
  <2>5. CASE TakenFor(e)' \subseteq TakenFor(e)
    <3>1. \A y \in TakenFor(e) : matches'[y].matched = matches[y].matched
      BY <1>2, <1>5
    <3> QED  BY <1>8, <2>4, <2>5, <3>1, HeldWhenLower
  <2>6. CASE ~(TakenFor(e)' \subseteq TakenFor(e))
    <3>1. x \in TakenFor(e)' /\ x \notin TakenFor(e) /\ e = d
      BY <1>5, <2>6
    <3>2. matches'[x].state = "confirmed"
      BY <1>2, <1>4, <3>1 DEF TakenFor
    <3>3. inflight[r].to = "confirmed"
      BY <1>6, <3>2
    <3>4. ~(events[e].outstanding < m)
      BY <1>7, <1>8, <3>1, <3>3
    <3>5. events'[e].outstanding = events[e].outstanding - m
      BY <1>1, <1>7, <2>2, <3>1, <3>3, <3>4 DEF LessButNotNegative
    <3> DEFINE more == TakenFor(e) \cup {x}
               after == TakenFor(e)'
    <3>6. SumOfMatched(matches, more) = SumOfMatched(matches, TakenFor(e)) + m
      BY <1>1, <1>5, <3>1, OneMoreTakes
    <3>7. after \subseteq more /\ more \subseteq MatchIds /\ after \subseteq MatchIds
      BY <1>5
    <3>8. \A y \in after : matches'[y].matched = matches[y].matched
      BY <1>2, <3>7
    <3>9. SumOfMatched(matches', after) \in Nat
      BY <3>7, CentsAreFinite
    <3> HIDE DEF more, after
    <3>10. SumOfMatched(matches', after) <= SumOfMatched(matches, more)
      BY <3>7, <3>8, FewerTakeLess
    <3>11. events[e].outstanding + SumOfMatched(matches, TakenFor(e)) <= events[e].amount
      BY <2>1, <2>3 DEF TakenIsHeld
    <3>12. events'[e].amount = events[e].amount
      BY <2>4 DEF LowerOrSame
    <3>13. events'[e].outstanding + SumOfMatched(matches', after) <= events'[e].amount
      BY <1>1, <2>2, <3>5, <3>6, <3>9, <3>10, <3>11, <3>12
    <3> QED  BY <3>13 DEF after
  <2> QED  BY <2>5, <2>6
<1> QED  BY <1>8 DEF TakenIsHeld

\* A deletion gives the amount back together with the match, or finds it spent.
LEMMA HeldByDelete ==
    ASSUME Inv, Inv', TakenIsHeld, NEW r \in Requests, DeleteCommit(r)
    PROVE  TakenIsHeld'
<1> PICK x \in MatchIds : x = inflight[r].match /\ matches[x] # NoRow
  BY RequestFields DEF Inv, TypeOK, ReferencesExist, DeleteCommit
<1> DEFINE d == matches[x].event
           m == matches[x].matched
<1>1. /\ matches[x] \in Match /\ d \in Events /\ m \in 1..MaxAmount /\ m \in Nat
      /\ matches \in [MatchIds -> Match \cup {NoRow}]
      /\ inflight' = [inflight EXCEPT ![r] = Idle]
      /\ inflight \in [Requests -> Request]
      /\ matches' = [matches EXCEPT ![x].state = "deleted"]
      /\ inflight[r].op = "delete"
  BY AmountAssumption DEF Inv, TypeOK, Match, DeleteCommit, Ends
<1>2. \A y \in MatchIds : /\ matches'[y].matched = matches[y].matched
                          /\ matches'[y].event = matches[y].event
                          /\ MatchFound(y)' => y # x /\ matches'[y] = matches[y]
  BY <1>1 DEF MatchFound, Match
<1>3. \A y \in MatchIds : DeleteUnderWay(y)' => DeleteUnderWay(y)
  <2>1. \A s \in Requests : inflight'[s] = IF s = r THEN Idle ELSE inflight[s]
    BY <1>1
  <2>2. Idle.op # "delete"
    BY DEF Idle
  <2> QED  BY <2>1, <2>2 DEF DeleteUnderWay
<1>4. ASSUME NEW e \in Events
      PROVE  /\ TakenFor(e)' \subseteq TakenFor(e) \ {x}
             /\ TakenFor(e) \subseteq MatchIds
  BY <1>2, <1>3 DEF TakenFor, MatchFound
<1>5. inflight[r].seen # "confirmed" => UNCHANGED <<events, overwritten>>
  BY DEF DeleteCommit
<1>6. inflight[r].seen = "confirmed" =>
        /\ events'[d].outstanding = LessButNotNegative(events[d].outstanding, -m)
        /\ events'[d].amount = events[d].amount
        /\ \A e \in Events : e # d => events'[e] = events[e]
        /\ overwritten' = overwritten \cup {e \in {d} : matches[x].state = "deleted"}
  <2> SUFFICES ASSUME inflight[r].seen = "confirmed"
               PROVE  /\ events'[d].outstanding = LessButNotNegative(events[d].outstanding, -m)
                      /\ events'[d].amount = events[d].amount
                      /\ \A e \in Events : e # d => events'[e] = events[e]
                      /\ overwritten' = overwritten \cup {e \in {d} : matches[x].state = "deleted"}
    OBVIOUS
  <2>1. SyncInvoiceStatusFromMatch(x, -m, FALSE)
    BY DEF DeleteCommit
  <2>5. -m \in Int
    BY <1>1
  <2>2. /\ events'[d].outstanding = LessButNotNegative(events[d].outstanding, -m)
        /\ events'[d].amount = events[d].amount
    BY <2>1, <2>5, SyncedBalance
  <2>3. \A e \in Events : e # d => events'[e] = events[e]
    BY <2>1, <2>5, SyncInvoiceStep
  <2>4. overwritten' = overwritten \cup {e \in {d} : matches[x].state = "deleted"}
    BY DEF DeleteCommit
  <2> QED  BY <2>2, <2>3, <2>4
<1>7. ASSUME NEW e \in Events, Exists(e)', e \notin overwritten'
      PROVE  (events[e].outstanding + SumOfMatched(matches, TakenFor(e)) <= events[e].amount)'
  <2>1. CASE ~(inflight[r].seen = "confirmed" /\ e = d)
    <3>1. events'[e] = events[e] /\ e \notin overwritten
      BY <1>5, <1>6, <1>7, <2>1
    <3>2. Exists(e)
      BY <1>7, <3>1 DEF Exists
    <3>3. LowerOrSame(e)
      BY <3>1, <3>2, RowAmounts DEF LowerOrSame
    <3>4. TakenFor(e)' \subseteq TakenFor(e)
      BY <1>4
    <3>5. \A y \in TakenFor(e) : matches'[y].matched = matches[y].matched
      BY <1>2, <1>4
    <3> QED  BY <1>7, <3>3, <3>4, <3>5, HeldWhenLower
  <2>2. CASE inflight[r].seen = "confirmed" /\ e = d
    <3>1. Exists(e)
      BY <2>2 DEF Inv, ReferencesExist
    <3>2. e \notin overwritten /\ matches[x].state # "deleted"
      BY <1>6, <1>7, <2>2
    <3>3. x \in TakenFor(e)
      BY <1>1, <2>2, <3>2 DEF TakenFor, MatchFound, DeleteUnderWay
    <3> DEFINE less == TakenFor(e) \ {x}
               after == TakenFor(e)'
    <3>4. less \subseteq MatchIds /\ after \subseteq less /\ x \notin less
          /\ less \cup {x} = TakenFor(e)
      BY <1>4, <3>3
    <3>5. \A y \in after : matches'[y].matched = matches[y].matched
      BY <1>2, <3>4
    <3>6. /\ events[e].outstanding \in Nat /\ events[e].amount \in Nat
          /\ SumOfMatched(matches, TakenFor(e)) \in Nat
      BY <3>1, RowAmounts
    <3>7. events[e].outstanding + SumOfMatched(matches, TakenFor(e)) <= events[e].amount
      BY <3>1, <3>2 DEF TakenIsHeld
    <3> HIDE DEF less, after
    <3>8. SumOfMatched(matches, TakenFor(e)) = SumOfMatched(matches, less) + m
      <4>1. matches[x].matched \in 1..MaxAmount
        BY <1>1
      <4>2. SumOfMatched(matches, less \cup {x}) = SumOfMatched(matches, less) + matches[x].matched
        BY <3>4, <4>1, OneMoreTakes
      <4> QED  BY <3>4, <4>2
    <3>9. /\ SumOfMatched(matches', after) \in Nat /\ SumOfMatched(matches, less) \in Nat
          /\ SumOfMatched(matches', after) <= SumOfMatched(matches, less)
      BY <3>4, <3>5, CentsAreFinite, FewerTakeLess
    <3>10. events'[e].outstanding = events[e].outstanding + m /\ events'[e].amount = events[e].amount
      BY <1>1, <1>6, <2>2, <3>6 DEF LessButNotNegative
    <3>11. events'[e].outstanding + SumOfMatched(matches', after) <= events'[e].amount
      BY <1>1, <3>6, <3>7, <3>8, <3>9, <3>10
    <3> QED  BY <3>11 DEF after
  <2> QED  BY <2>1, <2>2
<1> QED  BY <1>7 DEF TakenIsHeld

\* The rows the sync makes of an event: a new one owes no more than its amount,
\* and marking one stale keeps the amount.
LEMMA HeldBySyncUpsert ==
    ASSUME Inv, Inv', TakenIsHeld, NEW r \in Requests, NEW f \in Events, SyncUpsert(r, f)
    PROVE  TakenIsHeld'
<1> PICK q \in Request : q = inflight[r]
  BY DEF Inv, TypeOK
<1>1. q.op = "syncUpsert" /\ q.feed \in Feed /\ f \in q.todo
  BY RequestFields DEF SyncUpsert
<1>2. q.todo \subseteq DOMAIN q.feed
  BY <1>1 DEF Inv, ReferencesExist
<1>3. q.feed[f] \in Due
  BY <1>1, <1>2, FeedFields
<1> DEFINE next == [op |-> "syncUpsert", feed |-> q.feed, todo |-> q.todo \ {f}]
<1>4. /\ UNCHANGED matches /\ inflight' = [inflight EXCEPT ![r] = next]
      /\ Overwrites /\ next.op # "delete"
      /\ events' = [events EXCEPT ![f] = UpsertedRow(f, q.feed[f])]
  BY DEF SyncUpsert, Continues
<1> HIDE DEF next
<1>5. ASSUME NEW e \in Events, Exists(e)', e \notin overwritten'
      PROVE  \/ LowerOrSame(e)
             \/ ~Exists(e) /\ events'[e].outstanding <= events'[e].amount
  <2>1. CASE Exists(e)
    BY <1>4, <1>5, <2>1, OverwritesLowers
  <2>2. CASE ~Exists(e)
    <3>1. e = f /\ events'[e] = UpsertedRow(e, q.feed[e])
      BY <1>4, <1>5, <2>2 DEF Exists, Inv, TypeOK
    <3>2. q.feed[e].amount \in Nat
      BY <1>3, <3>1, AmountFacts DEF Due
    <3>3. UpsertedRow(e, q.feed[e]).outstanding <= UpsertedRow(e, q.feed[e]).amount
      BY <2>2, <3>2 DEF UpsertedRow, NewPaidRow, NewOpenRow
    <3> QED  BY <2>2, <3>1, <3>3
  <2> QED  BY <2>1, <2>2
<1> QED  BY <1>4, <1>5, HeldByOthers

LEMMA HeldByMarkStale ==
    ASSUME Inv, NEW kind, NEW feed, MarkStale(kind, feed), UNCHANGED overwritten,
           NEW e \in Events, Exists(e)', e \notin overwritten'
    PROVE  LowerOrSame(e)
<1>1. \/ events'[e] = events[e]
      \/ Exists(e) /\ events'[e] = StaleRow(events[e])
  BY DEF MarkStale
<1>2. Exists(e)
  BY <1>1 DEF Exists
<1>3. events[e].outstanding \in Nat /\ events[e] \in CashEventRow(Amounts)
  BY <1>2, RowAmounts, RowOf
<1>4. StaleRow(events[e]).outstanding = 0 /\ StaleRow(events[e]).amount = events[e].amount
  BY <1>3 DEF StaleRow, CashEventRow
<1> QED  BY <1>1, <1>2, <1>3, <1>4 DEF LowerOrSame

LEMMA HeldByMarkPaid ==
    ASSUME Inv, NEW r \in Requests, MarkPaidCommit(r), NEW e \in Events, Exists(e)',
           e \notin overwritten'
    PROVE  LowerOrSame(e)
<1>1. overwritten' = overwritten
  BY DEF MarkPaidCommit
<1>2. inflight[r].event \in Events /\ Exists(inflight[r].event)
  BY RequestFields DEF MarkPaidCommit, Inv, TypeOK, ReferencesExist
<1>3. \/ events'[e] = events[e]
      \/ Exists(e) /\ events'[e] = ManuallyPaid(events[e])
  BY <1>2 DEF MarkPaidCommit, Inv, TypeOK
<1>4. Exists(e)
  BY <1>3 DEF Exists
<1>5. events[e].outstanding \in Nat /\ events[e] \in CashEventRow(Amounts)
  BY <1>4, RowAmounts, RowOf
<1>6. /\ ManuallyPaid(events[e]).outstanding = 0
      /\ ManuallyPaid(events[e]).amount = events[e].amount
  BY <1>5 DEF ManuallyPaid, CashEventRow
<1> QED  BY <1>1, <1>3, <1>4, <1>5, <1>6 DEF LowerOrSame

LEMMA HeldByBegin ==
    ASSUME Inv, Inv', TakenIsHeld, NEW r \in Requests,
           Begin(r) \/ UnmatchDelete(r) \/ UnmatchSum(r) \/ SyncUpsertsDone(r)
             \/ SyncDeleteOrphans(r) \/ Fail(r)
    PROVE  TakenIsHeld'
<1>1. UNCHANGED <<events, matches, overwritten>>
  BY DEF Begin, UnmatchDelete, UnmatchSum, SyncUpsertsDone, SyncDeleteOrphans, Fail, PatchSelect,
         DeleteRead, UnmatchRead, MarkPaidRead, MarkUnpaidRead, SyncStart
<1>2. \E q : /\ inflight' = [inflight EXCEPT ![r] = q]
             /\ q.op = "delete" /\ q.seen = "confirmed" => matches[q.match].state = "confirmed"
  <2>1. CASE \E x \in MatchIds : DeleteRead(r, x)
    <3> PICK x \in MatchIds : DeleteRead(r, x)
      BY <2>1
    <3> DEFINE q == [op |-> "delete", match |-> x, seen |-> matches[x].state]
    <3>1. inflight' = [inflight EXCEPT ![r] = q]
      BY DEF DeleteRead, Starts
    <3>2. q.match = x /\ q.seen = matches[x].state
      OBVIOUS
    <3> HIDE DEF q
    <3> QED  BY <3>1, <3>2
  <2>2. CASE \/ \E x \in MatchIds, to \in {"confirmed", "rejected"} : PatchSelect(r, x, to)
             \/ \E a \in AttrIds : UnmatchRead(r, a)
             \/ \E e \in Events : MarkPaidRead(r, e) \/ MarkUnpaidRead(r, e)
             \/ \E feed \in Feed : SyncStart(r, feed)
    <3>1. \E q : inflight' = [inflight EXCEPT ![r] = q] /\ q.op # "delete"
      <4>1. ASSUME NEW x \in MatchIds, NEW to, PatchSelect(r, x, to)
            PROVE  \E q : inflight' = [inflight EXCEPT ![r] = q] /\ q.op # "delete"
        <5> DEFINE q == [op |-> "patch", match |-> x, to |-> to]
        <5>1. inflight' = [inflight EXCEPT ![r] = q]
          BY <4>1 DEF PatchSelect, Starts
        <5>2. q.op # "delete"
          OBVIOUS
        <5> HIDE DEF q
        <5> QED  BY <5>1, <5>2
      <4>2. ASSUME NEW a \in AttrIds, UnmatchRead(r, a)
            PROVE  \E q : inflight' = [inflight EXCEPT ![r] = q] /\ q.op # "delete"
        <5> DEFINE q == [op |-> "unmatchRead", attr |-> a, event |-> attributions[a].event]
        <5>1. inflight' = [inflight EXCEPT ![r] = q]
          BY <4>2 DEF UnmatchRead, Starts
        <5>2. q.op # "delete"
          OBVIOUS
        <5> HIDE DEF q
        <5> QED  BY <5>1, <5>2
      <4>3. ASSUME NEW e \in Events, MarkPaidRead(r, e)
            PROVE  \E q : inflight' = [inflight EXCEPT ![r] = q] /\ q.op # "delete"
        <5> DEFINE q == [op |-> "markPaid", event |-> e, outstanding |-> events[e].outstanding]
        <5>1. inflight' = [inflight EXCEPT ![r] = q]
          BY <4>3 DEF MarkPaidRead, Starts
        <5>2. q.op # "delete"
          OBVIOUS
        <5> HIDE DEF q
        <5> QED  BY <5>1, <5>2
      <4>5. ASSUME NEW e \in Events, MarkUnpaidRead(r, e)
            PROVE  \E q : inflight' = [inflight EXCEPT ![r] = q] /\ q.op # "delete"
        <5> DEFINE q == [op |-> "markUnpaid", event |-> e, amount |-> events[e].amount]
        <5>1. inflight' = [inflight EXCEPT ![r] = q]
          BY <4>5 DEF MarkUnpaidRead, Starts
        <5>2. q.op # "delete"
          OBVIOUS
        <5> HIDE DEF q
        <5> QED  BY <5>1, <5>2
      <4>4. ASSUME NEW feed \in Feed, SyncStart(r, feed)
            PROVE  \E q : inflight' = [inflight EXCEPT ![r] = q] /\ q.op # "delete"
        <5> DEFINE q == [op |-> "syncUpsert", feed |-> feed, todo |-> DOMAIN feed]
        <5>1. inflight' = [inflight EXCEPT ![r] = q]
          BY <4>4 DEF SyncStart, Starts
        <5>2. q.op # "delete"
          OBVIOUS
        <5> HIDE DEF q
        <5> QED  BY <5>1, <5>2
      <4> QED  BY <2>2, <4>1, <4>2, <4>3, <4>4, <4>5
    <3> QED  BY <3>1
  <2>3. CASE UnmatchDelete(r) \/ UnmatchSum(r) \/ SyncUpsertsDone(r)
    BY <2>3 DEF UnmatchDelete, UnmatchSum, SyncUpsertsDone, Continues
  <2>4. CASE SyncDeleteOrphans(r) \/ Fail(r)
    BY <2>4 DEF SyncDeleteOrphans, Fail, Ends, Idle
  <2> QED  BY <2>1, <2>2, <2>3, <2>4 DEF Begin
<1> QED  BY <1>1, <1>2, SameBalances, HeldByOthers

LEMMA HeldByWrites ==
    ASSUME Inv, Inv', TakenIsHeld, NEW r \in Requests,
           UnmatchCommit(r) \/ MarkPaidCommit(r) \/ MarkUnpaidCommit(r)
             \/ SyncStaleAr(r) \/ SyncStaleAp(r)
    PROVE  TakenIsHeld'
<1>1. UNCHANGED matches
  BY DEF UnmatchCommit, MarkPaidCommit, MarkUnpaidCommit, SyncStaleAr, SyncStaleAp
<1>2. \E q : inflight' = [inflight EXCEPT ![r] = q] /\ q.op # "delete"
  BY DEF UnmatchCommit, MarkPaidCommit, MarkUnpaidCommit, SyncStaleAr, SyncStaleAp, Ends, Continues,
         Idle
<1>3. ASSUME NEW e \in Events, Exists(e)', e \notin overwritten'
      PROVE  LowerOrSame(e)
  <2>1. CASE UnmatchCommit(r) \/ MarkUnpaidCommit(r)
    <3>1. Overwrites
      BY <2>1 DEF UnmatchCommit, MarkUnpaidCommit
    <3>2. inflight[r].event \in Events /\ Exists(inflight[r].event)
      BY <2>1, RequestFields DEF UnmatchCommit, MarkUnpaidCommit, Inv, TypeOK, ReferencesExist
    <3>3. Exists(e)
      BY <1>3, <2>1, <3>2 DEF UnmatchCommit, MarkUnpaidCommit, Exists, Inv, TypeOK
    <3> QED  BY <1>3, <3>1, <3>3, OverwritesLowers
  <2>2. CASE MarkPaidCommit(r)
    BY <1>3, <2>2, HeldByMarkPaid
  <2>3. CASE SyncStaleAr(r) \/ SyncStaleAp(r)
    <3>1. UNCHANGED overwritten /\ \E kind, feed : MarkStale(kind, feed)
      BY <2>3 DEF SyncStaleAr, SyncStaleAp
    <3> QED  BY <1>3, <3>1, HeldByMarkStale
  <2> QED  BY <2>1, <2>2, <2>3
<1> QED  BY <1>1, <1>2, <1>3, HeldByOthers

LEMMA InitHeld == Init => TakenIsHeld
<1> SUFFICES ASSUME Init PROVE TakenIsHeld
  OBVIOUS
<1>1. Inv
  BY InitInv
<1>2. ASSUME NEW e \in Events, Exists(e)
      PROVE  events[e].outstanding + SumOfMatched(matches, TakenFor(e)) <= events[e].amount
  <2>1. TakenFor(e) = {}
    BY DEF TakenFor, MatchFound, Init
  <2>2. CentsOf(matches, {}) = {}
    BY DEF CentsOf
  <2>3. SumOfMatched(matches, {}) = 0
    BY <2>2, CentsAreFinite, FS_EmptySet
  <2>4. PICK amount \in Amounts : events[e] = ReconciledRow(e, amount)
    BY <1>2 DEF Init, Exists
  <2>5. /\ events[e].outstanding = LessButNotNegative(amount, AttributedTo(e))
        /\ events[e].amount = amount
    BY <2>4 DEF ReconciledRow
  <2>6. AttributedTo(e) \in Nat /\ amount \in Nat
    BY SumOfNetIsNat, AmountFacts DEF AttributedTo
  <2>7. LessButNotNegative(amount, AttributedTo(e)) \in Nat
        /\ LessButNotNegative(amount, AttributedTo(e)) <= amount
    BY <2>6 DEF LessButNotNegative
  <2> QED  BY <2>1, <2>3, <2>5, <2>6, <2>7
<1> QED  BY <1>2 DEF TakenIsHeld

LEMMA NextHeld ==
    ASSUME Inv, Inv', TakenIsHeld, [Next]_vars
    PROVE  TakenIsHeld'
<1>1. ASSUME NEW r \in Requests, Begin(r) \/ Proceed(r) \/ Fail(r) PROVE TakenIsHeld'
  <2>1. CASE \/ Begin(r) \/ UnmatchDelete(r) \/ UnmatchSum(r) \/ SyncUpsertsDone(r)
             \/ SyncDeleteOrphans(r) \/ Fail(r)
    BY <2>1, HeldByBegin
  <2>2. CASE \/ UnmatchCommit(r) \/ MarkPaidCommit(r) \/ MarkUnpaidCommit(r)
             \/ SyncStaleAr(r) \/ SyncStaleAp(r)
    BY <2>2, HeldByWrites
  <2>3. CASE PatchCommit(r)
    BY <2>3, HeldByPatch
  <2>4. CASE DeleteCommit(r)
    BY <2>4, HeldByDelete
  <2>5. CASE \E e \in Events : SyncUpsert(r, e)
    BY <2>5, HeldBySyncUpsert
  <2> QED  BY <1>1, <2>1, <2>2, <2>3, <2>4, <2>5 DEF Proceed
<1>2. CASE \E x \in MatchIds, m \in Movements, e \in Events : CreateMatch(x, m, e)
  BY <1>2, HeldByCreateMatch
<1>3. CASE RebuildMovements
  BY <1>3, HeldByRebuild
<1>4. CASE UNCHANGED vars
  BY <1>4 DEF vars, TakenIsHeld, TakenFor, MatchFound, DeleteUnderWay, Exists
<1> QED  BY <1>1, <1>2, <1>3, <1>4 DEF Next

\* What an invoice still owes and what its confirmed matches took never add up
\* to more than its amount, until one of the writers of overwritten comes: no
\* order of PATCH, DELETE, sync, marking paid and cascade gives the amount of a
\* match back that still stands.
THEOREM ConfirmedMatchesHold == Spec => []ConfirmedMatchesHoldCash
<1>1. Inv /\ TakenIsHeld => ConfirmedMatchesHoldCash
  <2> SUFFICES ASSUME Inv, TakenIsHeld, NEW e \in Events, Exists(e), e \notin overwritten
               PROVE  events[e].outstanding + SumOfMatched(matches, ConfirmedFor(e))
                        <= events[e].amount
    BY DEF ConfirmedMatchesHoldCash
  <2>1. ConfirmedFor(e) \subseteq TakenFor(e) /\ TakenFor(e) \subseteq MatchIds
    BY DEF ConfirmedFor, TakenFor
  <2>2. /\ SumOfMatched(matches, ConfirmedFor(e)) <= SumOfMatched(matches, TakenFor(e))
        /\ SumOfMatched(matches, ConfirmedFor(e)) \in Nat
    BY <2>1, FewerTakeLess, CentsAreFinite
  <2>3. /\ events[e].outstanding \in Nat /\ events[e].amount \in Nat
        /\ SumOfMatched(matches, TakenFor(e)) \in Nat
    BY RowAmounts
  <2>4. events[e].outstanding + SumOfMatched(matches, TakenFor(e)) <= events[e].amount
    BY DEF TakenIsHeld
  <2> QED  BY <2>2, <2>3, <2>4
<1>2. Inv /\ Inv' /\ TakenIsHeld /\ [Next]_vars => TakenIsHeld'
  BY NextHeld
<1> QED  BY <1>1, <1>2, InitHeld, InvHolds, PTL DEF Spec

---------------------------------------------------------------------------
\* Event e stays paid if it was, and a reduced balance does not grow.
Keeps(e) ==
    /\ events[e].status = "paid" => events'[e].status = "paid"
    /\ events[e].outstanding < events[e].amount
         => ~(events'[e].outstanding > events[e].outstanding)

LEMMA UnchangedKeeps ==
    ASSUME Inv, NEW e \in Events, Exists(e), events'[e] = events[e]
    PROVE  Keeps(e)
<1>1. events[e].outstanding \in Nat
  BY RowOf DEF CashEventRow
<1> QED  BY <1>1 DEF Keeps

\* Every step keeps an event or completes a request that gives cash back.
LEMMA StepKeepsOrGivesBack ==
    ASSUME Inv, [Next]_vars, NEW e \in Events, Exists(e)
    PROVE  Keeps(e) \/ \E r \in Requests : GivesBack(r, e)
<1>1. /\ events \in [Events -> CashEventRow(Amounts) \cup {NoRow}]
      /\ inflight \in [Requests -> Request]
  BY DEF Inv, TypeOK
<1>2. CASE events' = events
  BY <1>2, UnchangedKeeps
<1>3. ASSUME NEW r \in Requests, PatchCommit(r)
      PROVE  Keeps(e)
  <2> PICK x \in MatchIds : x = inflight[r].match /\ matches[x] # NoRow
    BY <1>3, RequestFields DEF Inv, TypeOK, ReferencesExist, PatchCommit
  <2>1. CASE inflight[r].to # "confirmed"
    <3>1. UNCHANGED events
      BY <1>3, <2>1 DEF PatchCommit
    <3> QED  BY <3>1, UnchangedKeeps
  <2>2. CASE inflight[r].to = "confirmed"
    <3>1. SyncInvoiceStatusFromMatch(x, matches[x].matched, TRUE)
      BY <1>3, <2>2 DEF PatchCommit
    <3>2. matches[x].matched \in Int /\ matches[x].matched >= 0
      BY AmountAssumption DEF Inv, TypeOK, Match
    <3>3. /\ \A f \in Events : f # matches[x].event => events'[f] = events[f]
          /\ events'[matches[x].event].outstanding <= events[matches[x].event].outstanding
          /\ PaidIffSettled' /\ Exists(e)'
          /\ events' \in [Events -> CashEventRow(Amounts) \cup {NoRow}]
      BY <3>1, <3>2, SyncInvoiceStep
    <3>4. CASE e # matches[x].event
      BY <3>3, <3>4, UnchangedKeeps
    <3>5. CASE e = matches[x].event
      <4>1. SettledRow(events[e]) /\ (SettledRow(events[e]))'
        BY <3>3, RowOf DEF PaidIffSettled
      <4>2. events[e].outstanding \in Nat /\ events'[e].outstanding \in Nat
        BY <1>1, <3>3 DEF Exists, CashEventRow
      <4>3. events'[e].outstanding <= events[e].outstanding
        BY <3>3, <3>5
      <4> QED  BY <4>1, <4>2, <4>3 DEF Keeps, SettledRow, EPS
    <3> QED  BY <3>4, <3>5
  <2> QED  BY <2>1, <2>2
<1>4. ASSUME NEW r \in Requests, DeleteCommit(r)
      PROVE  Keeps(e) \/ GivesBack(r, e)
  <2> PICK x \in MatchIds : x = inflight[r].match /\ matches[x] # NoRow
    BY <1>4, RequestFields DEF Inv, TypeOK, ReferencesExist, DeleteCommit
  <2>1. CASE e = matches[x].event
    BY <1>1, <1>4, <2>1 DEF DeleteCommit, GivesBack, Ends
  <2>2. CASE e # matches[x].event
    <3>1. events'[e] = events[e]
      BY <1>1, <1>4, <2>2 DEF DeleteCommit, SyncInvoiceStatusFromMatch
    <3> QED  BY <3>1, UnchangedKeeps
  <2> QED  BY <2>1, <2>2
<1>5. ASSUME NEW r \in Requests, UnmatchCommit(r) \/ MarkUnpaidCommit(r)
      PROVE  Keeps(e) \/ GivesBack(r, e)
  <2>1. CASE e = inflight[r].event
    BY <1>1, <1>5, <2>1 DEF UnmatchCommit, MarkUnpaidCommit, GivesBack, Ends
  <2>2. CASE e # inflight[r].event
    <3>1. events'[e] = events[e]
      BY <1>1, <1>5, <2>2 DEF UnmatchCommit, MarkUnpaidCommit
    <3> QED  BY <3>1, UnchangedKeeps
  <2> QED  BY <2>1, <2>2
<1>6. ASSUME NEW r \in Requests, MarkPaidCommit(r)
      PROVE  Keeps(e)
  <2>1. CASE events'[e] = events[e]
    BY <2>1, UnchangedKeeps
  <2>2. CASE events'[e] # events[e]
    <3>1. events'[e] = ManuallyPaid(events[e])
      BY <1>1, <1>6, <2>2 DEF MarkPaidCommit
    <3>2. events[e] \in CashEventRow(Amounts) /\ events[e].outstanding \in Nat
      BY RowOf DEF CashEventRow
    <3>3. events'[e].outstanding = 0 /\ events'[e].status = "paid"
      BY <3>1, <3>2 DEF ManuallyPaid, CashEventRow
    <3> QED  BY <3>2, <3>3 DEF Keeps
  <2> QED  BY <2>1, <2>2
<1>7. ASSUME NEW r \in Requests, NEW f \in Events, SyncUpsert(r, f)
      PROVE  Keeps(e)
  <2> PICK q \in Request : q = inflight[r]
    BY <1>1
  <2>1. q.op = "syncUpsert" /\ q.feed \in Feed /\ f \in q.todo
    BY <1>7, RequestFields DEF SyncUpsert
  <2>2. q.todo \subseteq DOMAIN q.feed
    BY <2>1 DEF Inv, ReferencesExist
  <2>3. q.feed[f] \in Due
    BY <2>1, <2>2, FeedFields
  <2>4. events' = [events EXCEPT ![f] = UpsertedRow(f, q.feed[f])]
    BY <1>7 DEF SyncUpsert
  <2>5. CASE e # f
    <3>1. events'[e] = events[e]
      BY <1>1, <2>4, <2>5
    <3> QED  BY <3>1, UnchangedKeeps
  <2>6. CASE e = f
    <3>1. events'[e] = UpsertedRow(e, q.feed[e])
      BY <1>1, <2>4, <2>6
    <3>2. /\ events[e].status = "paid" => UpsertedRow(e, q.feed[e]).status = "paid"
          /\ events[e].outstanding < events[e].amount
               => UpsertedRow(e, q.feed[e]).outstanding <= events[e].outstanding
      BY <2>3, <2>6, UpsertedRowFacts
    <3>3. events[e].outstanding \in Nat /\ UpsertedRow(e, q.feed[e]).outstanding \in Nat
      BY <2>3, <2>6, UpsertedRowFacts, RowOf DEF CashEventRow
    <3> QED  BY <3>1, <3>2, <3>3 DEF Keeps
  <2> QED  BY <2>5, <2>6
<1>8. ASSUME NEW r \in Requests, SyncStaleAr(r) \/ SyncStaleAp(r)
      PROVE  Keeps(e)
  <2>1. \E kind, feed : MarkStale(kind, feed)
    BY <1>8 DEF SyncStaleAr, SyncStaleAp
  <2>2. events'[e] = events[e] \/ (events'[e].status = "paid" /\ events'[e].outstanding = 0)
    BY <2>1, MarkStaleFacts
  <2>3. events[e].outstanding \in Nat
    BY RowOf DEF CashEventRow
  <2> QED  BY <2>2, <2>3 DEF Keeps
<1>9. CASE Next
  <2>1. ASSUME NEW r \in Requests, Begin(r) \/ Fail(r) PROVE UNCHANGED events
    BY <2>1 DEF Begin, Fail, PatchSelect, DeleteRead, UnmatchRead, MarkPaidRead, MarkUnpaidRead,
                SyncStart
  <2>2. ASSUME NEW x \in MatchIds, NEW m \in Movements, NEW f \in Events, CreateMatch(x, m, f)
        PROVE UNCHANGED events
    BY <2>2 DEF CreateMatch
  <2>5. RebuildMovements => UNCHANGED events
    BY DEF RebuildMovements
  <2>3. ASSUME NEW r \in Requests,
               UnmatchDelete(r) \/ UnmatchSum(r) \/ SyncUpsertsDone(r) \/ SyncDeleteOrphans(r)
        PROVE UNCHANGED events
    BY <2>3 DEF UnmatchDelete, UnmatchSum, SyncUpsertsDone, SyncDeleteOrphans
  <2>4. ASSUME NEW r \in Requests, Proceed(r)
        PROVE  Keeps(e) \/ GivesBack(r, e)
    <3>1. CASE \E f \in Events : SyncUpsert(r, f)
      BY <1>7, <3>1
    <3>2. CASE PatchCommit(r) \/ MarkPaidCommit(r) \/ SyncStaleAr(r) \/ SyncStaleAp(r)
      BY <1>3, <1>6, <1>8, <3>2
    <3>3. CASE DeleteCommit(r) \/ UnmatchCommit(r) \/ MarkUnpaidCommit(r)
      BY <1>4, <1>5, <3>3
    <3>4. CASE UnmatchDelete(r) \/ UnmatchSum(r) \/ SyncUpsertsDone(r) \/ SyncDeleteOrphans(r)
      BY <2>3, <3>4, UnchangedKeeps
    <3> QED  BY <2>4, <3>1, <3>2, <3>3, <3>4 DEF Proceed
  <2> QED  BY <1>2, <1>9, <2>1, <2>2, <2>4, <2>5 DEF Next
<1> QED  BY <1>2, <1>9 DEF vars

\* No sync, confirmation or failure reopens a paid event.
THEOREM PaidReopensOnlyByUserHolds == Spec => PaidReopensOnlyByUser
<1>1. Inv /\ [Next]_vars =>
        [\A e \in Events :
           /\ Exists(e) /\ events[e].status = "paid"
           /\ events'[e].status # "paid"
           => \E r \in Requests : GivesBack(r, e)]_vars
  BY StepKeepsOrGivesBack DEF Keeps
<1> QED  BY <1>1, InvHolds, PTL DEF Spec, PaidReopensOnlyByUser

\* No sync gives cash back that a reconciliation took off an event.
THEOREM ReducedBalanceGrowsOnlyByUserHolds == Spec => ReducedBalanceGrowsOnlyByUser
<1>1. Inv /\ [Next]_vars =>
        [\A e \in Events :
           /\ Exists(e) /\ events[e].outstanding < events[e].amount
           /\ events'[e].outstanding > events[e].outstanding
           => \E r \in Requests : GivesBack(r, e)]_vars
  BY StepKeepsOrGivesBack DEF Keeps
<1> QED  BY <1>1, InvHolds, PTL DEF Spec, ReducedBalanceGrowsOnlyByUser
===========================================================================
