----------------------------- MODULE Waterfall -----------------------------
(***************************************************************************)
(* The reconciliation waterfall (lib/reconciliation-waterfall.ts) over the *)
(* ledger of CashLedger: an engine reads the events, reads the cash that   *)
(* each movement has left, plans which movement pays which event, and in   *)
(* one transaction deletes the attributions of the previous run (D5), reads*)
(* the events again under their locks (D6), replays its plan on them (D7)  *)
(* and stores the new attributions.  Meanwhile users and the sync go on:   *)
(* every action of CashLedger is an action here.                           *)
(*                                                                         *)
(* Which events a movement may pay (direction, economic class, names, the  *)
(* language model's opinion) is data: Candidates and DirectLink.  A        *)
(* movement of an excluded class is one that is not in MovementOrder.      *)
(*                                                                         *)
(* Three parts of the planner cannot be reached and are left out: the      *)
(* settlement branch (its class is excluded first), stage 2 (stage 1 takes *)
(* its whole fee band), and a second match of one movement in stage 3 (the *)
(* guard compares entity_id, which is unique for each event; for the same  *)
(* reason a fee is never assumed there).                                   *)
(***************************************************************************)
EXTENDS CashLedger, Sequences

CONSTANTS
    Engines,          \* runs of the waterfall that may overlap
    MovementOrder,    \* the movements in the order of their dates
    EventRank,        \* place of each event in the order of expected dates
    Candidates,       \* the events that fit each movement
    DirectLink,       \* the event a tag names for a movement, or NoRow
    Processor,        \* movements that come from a payment processor
    ReviewThreshold   \* STAGE4_REVIEW_THRESHOLD

ASSUME EngineAssumption ==
    /\ NoRow \notin Movements
    /\ MovementOrder \in Seq(Movements)
    /\ \A j, k \in DOMAIN MovementOrder : MovementOrder[j] = MovementOrder[k] => j = k
    /\ EventRank \in [Events -> Nat]
    /\ Candidates \in [Movements -> SUBSET Events]
    /\ DirectLink \in [Movements -> Events \cup {NoRow}]
    /\ Processor \subseteq Movements
    /\ ReviewThreshold \in Nat

VARIABLES
    movementOf,   \* the movement of each attribution that exists, else NoRow
    engines       \* what each run of the waterfall has read and planned

engineVars == <<movementOf, engines>>
allVars == <<vars, engineVars>>

---------------------------------------------------------------------------
(* The planner, on its own copy of the events.  A plan is a sequence of    *)
(* lines: movement, event, the gross taken off the event and the net that  *)
(* the attribution stores.                                                 *)

Line == [movement : Movements, event : Events, gross : Nat \ {0}, net : 1..MaxNet]

\* A paid event is matched by its full amount ("historical").
MatchAmount(row) == IF row.status = "paid" THEN row.amount ELSE row.outstanding

\* filterForMovement: anything to pay, or paid and not yet used by this run.
Pool(p, m) ==
    {e \in Candidates[m] :
        /\ p.rows[e] # NoRow
        /\ p.rows[e].outstanding > EPS \/ (p.rows[e].status = "paid" /\ e \notin p.used)}

\* Stage 0: the document that the tag names.
Linked(p, m) ==
    {e \in {DirectLink[m]} \cap Events :
        p.rows[e] # NoRow /\ (p.rows[e].outstanding > EPS \/ p.rows[e].status = "paid")}

\* Stage 1: the exact amount or, from a processor, up to 8% more.
Sniper(p, m, cash) ==
    LET exact == {e \in Pool(p, m) : MatchAmount(p.rows[e]) = cash}
        withFee == {e \in Pool(p, m) :
                      /\ m \in Processor /\ MatchAmount(p.rows[e]) > EPS
                      /\ MatchAmount(p.rows[e]) >= cash
                      /\ 100 * (MatchAmount(p.rows[e]) - cash) <= 8 * MatchAmount(p.rows[e])}
    IN  IF exact # {} THEN exact ELSE withFee

\* Stage 3: open events before paid ones; a processor never pays in part.
Fifo(p, m, cash) ==
    LET fits == {e \in Pool(p, m) : /\ MatchAmount(p.rows[e]) > EPS
                                    /\ m \in Processor => cash >= MatchAmount(p.rows[e])}
        open == {e \in fits : p.rows[e].status # "paid"}
    IN  IF open # {} THEN open ELSE fits

First(candidates) ==
    CHOOSE e \in candidates : \A f \in candidates : EventRank[e] <= EventRank[f]

\* Mutant: the status is that of the balance before.
TakenOffOldStatus(row, gross) ==
    [row EXCEPT !.outstanding = LessButNotNegative(@, gross),
                !.status = statusFromOutstanding(row.outstanding, row.amount)]

\* The balance falls by gross, not below zero, and the status follows it.
TakenOff(row, gross) ==
    LET left == LessButNotNegative(row.outstanding, gross)
    IN  [row EXCEPT !.outstanding = left, !.status = statusFromOutstanding(left, row.amount)]

\* Adding a line changes the copy, or marks a paid event as used.
Matched(p, m, e, gross, net) ==
    [p EXCEPT
       !.lines = Append(@, [movement |-> m, event |-> e, gross |-> gross, net |-> net]),
       !.rows = IF p.rows[e].status = "paid" THEN p.rows
                ELSE [p.rows EXCEPT ![e] = TakenOff(p.rows[e], gross)],
       !.used = IF p.rows[e].status = "paid" THEN @ \cup {e} ELSE @]

\* The line stored for a direct link: the insert swaps gross and net when
\* the cash exceeds the document.
LinkedNet(due, cash) == IF cash > due + EPS THEN due ELSE cash

\* Stage 3 pays in full, up to the tolerance, or in part.
FifoGross(due, cash) == IF cash + EPS >= due THEN due ELSE cash

NeedsReview(p, left) == [p EXCEPT !.review = @ \/ left > ReviewThreshold]

\* Mutant: after a match in stage 3 the movement goes on with all its cash.
PlanMovementKeepsCash(p, m, cash) ==
    LET due(q) == MatchAmount(q.rows[First(Fifo(q, m, cash))])
        more(q) == IF Fifo(q, m, cash) = {} THEN q
                   ELSE Matched(q, m, First(Fifo(q, m, cash)),
                                FifoGross(due(q), cash), FifoGross(due(q), cash))
    IN  IF cash <= EPS THEN p ELSE more(more(p))

PlanMovement(p, m, cash) ==
    LET linked == Linked(p, m)
        sniped == Sniper(p, m, cash)
        queue == Fifo(p, m, cash)
    IN  IF cash <= EPS THEN p
        ELSE IF linked # {}
          THEN LET e == First(linked)
                   due == MatchAmount(p.rows[e])
               IN  Matched(p, m, e, due, LinkedNet(due, cash))
        ELSE IF sniped # {}
          THEN LET e == First(sniped)
               IN  Matched(p, m, e, MatchAmount(p.rows[e]), cash)
        ELSE IF queue # {}
          THEN LET e == First(queue)
                   gross == FifoGross(MatchAmount(p.rows[e]), cash)
               IN  NeedsReview(Matched(p, m, e, gross, gross), cash - gross)
        ELSE NeedsReview(p, cash)

\* One movement after the other.
PlanOf(rows, cash) ==
    LET p[k \in 0..Len(MovementOrder)] ==
          IF k = 0 THEN [rows |-> rows, used |-> {}, lines |-> <<>>, review |-> FALSE]
          ELSE PlanMovement(p[k - 1], MovementOrder[k], cash[MovementOrder[k]])
    IN  p[Len(MovementOrder)]

---------------------------------------------------------------------------
(* One run of the waterfall.                                               *)

\* fetchMovementsWithAvailableCash: what no attribution explains.
AvailableCash(m) == CashOf[m] - SumOfNet({a \in AttrIds : Live(a) /\ movementOf[a] = m})

\* loadOpenCashEvents: all events of the ledger, paid ones too.
Snapshot(w) ==
    /\ engines[w] = Idle
    /\ engines' = [engines EXCEPT ![w] = [op |-> "snapshot", rows |-> events]]
    /\ audit' = {}
    /\ UNCHANGED <<events, attributions, matches, inflight, overwritten, movementOf>>

\* The movements are read and the plan is made; a plan with no line and
\* nothing to review ends the run before its transaction.
Plan(w) ==
    /\ engines[w].op = "snapshot"
    /\ \E p \in {PlanOf(engines[w].rows, [m \in Movements |-> AvailableCash(m)])} :
         engines' = [engines EXCEPT ![w] =
           IF p.lines = <<>> /\ ~p.review THEN Idle
           ELSE [op |-> "planned", lines |-> p.lines,
                 original |-> [e \in {p.lines[k].event : k \in DOMAIN p.lines} |->
                                 engines[w].rows[e]]]]
    /\ audit' = {}
    /\ UNCHANGED <<events, attributions, matches, inflight, overwritten, movementOf>>

\* A run that has a plan.
WithPlan == {"planned", "clearing", "cleared"}

\* Mutant: reading the available cash locks the attributions (FOR SHARE).
EngineHoldsWhilePlanned(w, a) == engines[w].op \in WithPlan /\ Live(a)

\* Attributions that engine w has deleted and not committed.
EngineHolds(w, a) == engines[w].op = "cleared" /\ a \in engines[w].gone

\* No other transaction has deleted attribution a and not committed.
FreeOfOthers(w, a) ==
    /\ \A r \in Requests : ~HoldsAttribution(r, a)
    /\ \A v \in Engines \ {w} : ~EngineHolds(v, a)

\* D5: every attribution here is of an earlier waterfall.  The DELETE is of
\* those that are there when it starts (READ COMMITTED).
StartClearing(w) ==
    /\ engines[w].op = "planned"
    /\ engines' = [engines EXCEPT ![w] =
         [op |-> "clearing", lines |-> @.lines, original |-> @.original,
          targets |-> {a \in AttrIds : Live(a)}]]
    /\ audit' = {}
    /\ UNCHANGED <<events, attributions, matches, inflight, overwritten, movementOf>>

\* It waits for rows that others have deleted without committing, and deletes
\* what is left of its own; not what another run has inserted meanwhile.
ClearPrevious(w) ==
    /\ engines[w].op = "clearing"
    /\ \A a \in engines[w].targets : Live(a) => FreeOfOthers(w, a)
    /\ engines' = [engines EXCEPT ![w] =
         [op |-> "cleared", lines |-> @.lines, original |-> @.original,
          gone |-> {a \in @.targets : Live(a)}]]
    /\ audit' = {}
    /\ UNCHANGED <<events, attributions, matches, inflight, overwritten, movementOf>>

\* Mutant: the plan is overwritten to the rows read at the start.
RowsOfSnapshot(w) ==
    [e \in Events |-> IF e \in DOMAIN engines[w].original THEN engines[w].original[e]
                      ELSE events[e]]

\* D6: the events read again FOR UPDATE, as they are when the run commits.
RowsUnderLock(w) == events

\* D7: the lines of the plan one after the other on these rows.
Replayed(rows, lines) ==
    LET after[k \in 0..Len(lines)] ==
          IF k = 0 THEN rows
          ELSE [after[k - 1] EXCEPT ![lines[k].event] = TakenOff(@, lines[k].gross)]
    IN  after[Len(lines)]

\* insertAttributionWithClient updates the line of the same movement and
\* event, if another run stored one, and waits for it if that has been
\* deleted without a commit; the others get new ids.
SameLine(w, line) ==
    {a \in AttrIds : /\ Live(a) /\ ~EngineHolds(w, a)
                     /\ movementOf[a] = line.movement /\ attributions[a].event = line.event}

NewId(w, a) ==
    /\ ~Live(a) \/ EngineHolds(w, a)
    /\ \A v \in Engines \ {w} : ~EngineHolds(v, a)
    /\ \A v \in Engines : engines[v].op = "clearing" => a \notin engines[v].targets
    /\ \A r \in Requests :
         inflight[r].op \in {"unmatchRead", "unmatchDeleted", "unmatchSummed"}
           => inflight[r].attr # a

StoredIds(w, lines) ==
    {id \in [DOMAIN lines -> AttrIds] :
        /\ \A j, k \in DOMAIN lines : id[j] = id[k] => j = k
        /\ \A k \in DOMAIN lines :
             IF SameLine(w, lines[k]) # {}
             THEN id[k] \in SameLine(w, lines[k]) /\ FreeOfOthers(w, id[k])
             ELSE NewId(w, id[k])}

StoreLines(w, lines) ==
    \E id \in StoredIds(w, lines) :
        /\ attributions' = [a \in AttrIds |->
             IF \E k \in DOMAIN lines : id[k] = a
             THEN LET k == CHOOSE k \in DOMAIN lines : id[k] = a
                  IN  [event |-> lines[k].event, net |-> lines[k].net]
             ELSE IF EngineHolds(w, a) THEN NoRow ELSE attributions[a]]
        /\ movementOf' = [a \in AttrIds |->
             IF \E k \in DOMAIN lines : id[k] = a
             THEN lines[CHOOSE k \in DOMAIN lines : id[k] = a].movement
             ELSE IF EngineHolds(w, a) THEN NoRow ELSE movementOf[a]]

\* writeStatusChange of the waterfall: the row is written only if it
\* differs from what the run read at its start.
Written(original, row, after) ==
    IF IsLogged(original.status, after.status, original.outstanding, after.outstanding)
    THEN StatusChanged(row, after.status, after.outstanding, FALSE)
    ELSE row

Commit(w) ==
    /\ engines[w].op = "cleared"
    /\ LET lines == engines[w].lines
           original == engines[w].original
           after == Replayed(RowsUnderLock(w), lines)
       IN  /\ StoreLines(w, lines)
           /\ events' = [e \in Events |-> IF e \in DOMAIN original
                                          THEN Written(original[e], events[e], after[e])
                                          ELSE events[e]]
           /\ audit' = UNION {Logged(e, original[e], after[e]) : e \in DOMAIN original}
    /\ engines' = [engines EXCEPT ![w] = Idle]
    /\ UNCHANGED <<matches, inflight, overwritten>>

\* An error or a crash: the transaction rolls back.
EngineFail(w) ==
    /\ engines[w] # Idle
    /\ engines' = [engines EXCEPT ![w] = Idle]
    /\ audit' = {}
    /\ UNCHANGED <<events, attributions, matches, inflight, overwritten, movementOf>>

---------------------------------------------------------------------------
\* A request neither locks nor deletes an attribution that an engine has
\* deleted and not committed.
Waits == \A w \in Engines, a \in AttrIds : EngineHolds(w, a) =>
    /\ attributions'[a] = attributions[a]
    /\ \A r \in Requests : HoldsAttribution(r, a)' => HoldsAttribution(r, a)

Alongside ==
    /\ Waits
    /\ movementOf' = [a \in AttrIds |-> IF attributions'[a] = NoRow THEN NoRow
                                        ELSE movementOf[a]]
    /\ UNCHANGED engines

LedgerStep == Next /\ Alongside

EngineInit ==
    /\ attributions = [a \in AttrIds |-> NoRow]
    /\ Init
    /\ movementOf = [a \in AttrIds |-> NoRow]
    /\ engines = [w \in Engines |-> Idle]

EngineProceed(w) == Plan(w) \/ StartClearing(w) \/ ClearPrevious(w) \/ Commit(w)

EngineNext ==
    \/ LedgerStep
    \/ \E w \in Engines : Snapshot(w) \/ EngineProceed(w) \/ EngineFail(w)

EngineSpec == EngineInit /\ [][EngineNext]_allVars

\* As in CashLedger: what has started runs on, and a statement that waits
\* for a row lock is not overtaken for ever.
EngineFairness ==
    /\ \A w \in Engines : SF_allVars(EngineProceed(w))
    /\ \A r \in Requests : SF_allVars(Proceed(r) /\ Alongside)
FairEngineSpec == EngineSpec /\ EngineFairness

---------------------------------------------------------------------------
(* Properties.                                                             *)

\* Every variable holds a value of its kind, those of the ledger included.
EngineTypeOK ==
    /\ TypeOK
    /\ movementOf \in [AttrIds -> Movements \cup {NoRow}]
    /\ \A a \in AttrIds : Live(a) <=> movementOf[a] # NoRow
    /\ \A w \in Engines :
         /\ engines[w].op \in {"idle", "snapshot"} \cup WithPlan
         /\ engines[w].op \in WithPlan =>
              engines[w].lines \in Seq(Line)

\* The attributions of a movement never give more than its cash, up to the
\* tolerance of a match in full: what a run plans, what D5 deletes and what
\* it stores after it add up, unless two runs are in or past D5 at a time.
MovementsWithinCash ==
    \A m \in Movements :
        SumOfNet({a \in AttrIds : Live(a) /\ movementOf[a] = m}) <= CashOf[m] + EPS

\* At most one run is between the start of its D5 and its commit.
TransactionsApart ==
    \A v, w \in Engines :
        {engines[v].op, engines[w].op} \subseteq {"clearing", "cleared"} => v = w

\* "Track paid events that have been matched in this run to prevent
\* re-matching" (usedPaidEventIds): an event that was paid when the run read
\* it is matched by one line of its plan, and again only for a movement that
\* a tag links to it.
HistoricalOnce ==
    \A w \in Engines : engines[w].op \in WithPlan =>
        \A j, k \in DOMAIN engines[w].lines :
            LET e == engines[w].lines[k].event
            IN  j < k /\ engines[w].lines[j].event = e /\ engines[w].original[e].status = "paid"
                  => DirectLink[engines[w].lines[k].movement] = e

\* Every run and every request comes to an end: their locks on
\* attributions never leave them waiting for each other.
EnginesComplete ==
    /\ \A w \in Engines : engines[w] # Idle ~> engines[w] = Idle
    /\ \A r \in Requests : inflight[r] # Idle ~> inflight[r] = Idle

\* What the repository says of the waterfall and the code does not do.

\* "... to prevent re-matching": no line of a plan follows another that has
\* settled its event.  An event that the run itself has paid is not tracked,
\* and is matched again by its full amount, as if it had been paid before.
PaidOnceByPlan ==
    \A w \in Engines : engines[w].op \in WithPlan =>
        LET lines == engines[w].lines
        IN  \A j, k \in DOMAIN lines :
              j < k /\ lines[j].event = lines[k].event =>
                Replayed(engines[w].original, SubSeq(lines, 1, j))[lines[j].event].outstanding > EPS

\* "Delete previous waterfall attributions to ensure idempotency on re-run"
\* (D5): a balance that only the waterfall has reduced is explained by
\* attributions.  The next run deletes them and does not restore the balance.
BalancesExplained ==
    \A e \in Events :
        Exists(e) /\ events[e].outstanding < events[e].amount => AttributedTo(e) > 0

\* "Re-load cash events inside transaction to avoid TOCTOU race" (D6): a
\* commit leaves each event of its plan with what was there less what the
\* plan takes.  The write is skipped when that equals the old snapshot.
PlanTakesEffect ==
    [][\A w \in Engines :
         Commit(w) => \A e \in DOMAIN engines[w].original :
           events'[e].outstanding = Replayed(RowsUnderLock(w), engines[w].lines)[e].outstanding]_allVars
===========================================================================
