------------------------------ MODULE Stage4 ------------------------------
(***************************************************************************)
(* Stage 4 of the reconciliation: the movements that stages 0 to 3 have    *)
(* left are shown to a language model together with the open documents     *)
(* (invoices for inflows, bills for outflows), and what it answers with    *)
(* high confidence is applied in one transaction: attributions are         *)
(* inserted and the balances of the documents reduced.  The model thinks   *)
(* for minutes; meanwhile the waterfall of the financial brain, which      *)
(* takes no lock, matches a movement, users unmatch, the movements are     *)
(* rebuilt under new ids in statements that commit one by one, and another *)
(* run may overtake this one when it outlives the reconciliation lock.     *)
(*                                                                         *)
(* The status of a document follows its balance; it is left out, and so    *)
(* are the review flags of movements, which are only shown to users.       *)
(***************************************************************************)
EXTENDS Integers, Sequences, FiniteSetsExt

CONSTANTS
    Movements, Documents,
    Cash,           \* [Movements -> Nat]: amounts
    Due,            \* [Documents -> Nat]: what the accounting system says is due
    Suits,          \* pairs of a movement and a document of the same direction
    Planned,        \* [m, d, x]: what the brain's waterfall may match
    Offers,         \* what the model may say of a pair: [high, amount, near]
    Runs,
    Requests,       \* requests of users to unmatch
    MaxLines,       \* bound: suggestions in an answer
    MaxRebuilds,    \* bound: rebuilds of the movements
    MaxFaults       \* bound: statements that fail, processes that are lost

ASSUME StageAssumption ==
    /\ Cash \in [Movements -> Nat \ {0}]
    /\ Due \in [Documents -> Nat \ {0}]
    /\ Suits \subseteq Movements \X Documents
    /\ Planned \subseteq [m : Movements, d : Documents, x : Nat \ {0}]
    /\ Offers \subseteq [high : BOOLEAN, amount : Nat, near : BOOLEAN]
    /\ MaxLines \in Nat /\ MaxRebuilds \in Nat /\ MaxFaults \in Nat

VARIABLES
    left,           \* cash_events: outstanding amount of each document
    attributions,   \* movement_attributions, committed: [m, d, by, net]
    present,        \* movements that are in the table now
    rebuild,        \* the rebuild under way, and what it has saved: [pc, saved]
    rebuilds,       \* how often the table was emptied: movements go by new ids
    run,            \* the reconciliation runs, from stage 4 on
    request,        \* the requests to unmatch
    disturbed,      \* whether those who change attributions have got in each
                    \* other's way, or a rebuild has lost what it saved
    faults

movements == <<present, rebuild, rebuilds>>
vars == <<left, attributions, movements, run, request, disturbed, faults>>

Less(a, b) == IF a > b THEN a - b ELSE 0
Lesser(a, b) == IF a < b THEN a ELSE b

\* A suggestion, as parsed: whether its confidence is high, the amount (0 if it
\* names none), and whether the two dates are near each other.
Line == [m : Movements, d : Documents, high : BOOLEAN, amount : Nat, near : BOOLEAN]
Suggestions ==
    {[m |-> p[1], d |-> p[2], high |-> o.high, amount |-> o.amount, near |-> o.near] :
        p \in Suits, o \in Offers}
Named(l) == IF l.amount = 0 THEN Due[l.d] ELSE l.amount

Matched(m) == \E a \in attributions : a.m = m
Key(a) == <<a.m, a.d, a.by>>
Keys(rows) == {Key(a) : a \in rows}
NetOf(rows) == MapThenSumSet(LAMBDA a : a.net, rows)
Spent(rows, m) == NetOf({a \in rows : a.m = m})
Taken(rows, d) == NetOf({a \in rows : a.d = d})

\* A run before it has read anything.
Fresh == [pc |-> "start", gen |-> 0, has |-> [m \in Movements |-> 0], lines |-> <<>>,
          next |-> 1, old |-> {}, gone |-> {}, rows |-> {}, cut |-> [d \in Documents |-> 0],
          open |-> FALSE, missed |-> FALSE, rejected |-> {}]

\* A run that is over, and what it reports as rejected.
Ended(rejected) == [Fresh EXCEPT !.pc = "end", !.rejected = rejected]

NoRequest == [pc |-> "idle"]

\* A rebuild that has put back all but these rows.
Restoring(rows) == [pc |-> IF rows = {} THEN "idle" ELSE "restore", saved |-> rows]

Active(r) == run[r].pc \notin {"start", "end"}

----------------------------------------------------------------------------
(* Row locks of the open transactions.                                     *)

Others(r) == Runs \ {r}
HoldsDocument(r, d) == run[r].open /\ run[r].cut[d] > 0
HoldsRow(r, k) == run[r].open /\ k \in Keys(run[r].rows \union run[r].gone)
HoldsMovements(r) == run[r].open /\ (run[r].rows # {} \/ run[r].gone # {})

\* The transaction of a request, between its SUM and its UPDATE, holds the row
\* that it has deleted.
Summed(u) == request[u].pc = "sum"
Deletes(u, k) == Summed(u) /\ request[u].there /\ Key(request[u].row) = k

\* Rows that are gone are not found again by those who still look for them, even
\* if others like them come: those go by ids of their own.
Without(keys) ==
    [u \in Requests |->
        IF request[u].pc # "idle" /\ Key(request[u].row) \in keys
        THEN [request[u] EXCEPT !.there = FALSE]
        ELSE request[u]]
Forget(t, keys) == [t EXCEPT !.old = t.old \ keys]

\* A rebuild has saved the attributions, and is going to delete them or has not
\* put them back yet.
UnderWay == rebuild.pc = "delete" \/ rebuild.saved # {}
SetAside == rebuild.pc # "delete" /\ rebuild.saved # {}

\* A change of the attributions of docs gets in the way of a rebuild, or of a
\* request of us that has summed them up.
InTheWay(docs, us) == UnderWay \/ \E u \in us : Summed(u) /\ request[u].row.d \in docs

\* A statement of r fails.  The transaction is aborted at once, the error is
\* caught and the loop goes on.
Aborted(t) == [t EXCEPT !.open = FALSE, !.rows = {}, !.gone = {},
                        !.cut = [d \in Documents |-> 0]]

Fault == faults < MaxFaults /\ faults' = faults + 1

----------------------------------------------------------------------------
(* A run.                                                                  *)

\* The run's own waterfall commits, with nothing to match (a bound: it comes
\* before the brain's, whose rows it would delete).
Start(r) ==
    /\ run[r].pc = "start"
    /\ \A a \in attributions : a.by = "llm"
    /\ run' = [run EXCEPT ![r].pc = "reconciled"]
    /\ disturbed' = (disturbed \/ \E q \in Others(r) : Active(q))
    /\ UNCHANGED <<left, attributions, movements, request, faults>>

\* getAllUnreconciledMovements: movements without any attribution to a
\* document, with their cash.
Read(r) ==
    /\ run[r].pc = "reconciled"
    /\ LET has == [m \in Movements |-> IF m \in present /\ ~Matched(m) THEN Cash[m] ELSE 0]
       IN  run' = [run EXCEPT ![r] =
                     IF \A m \in Movements : has[m] = 0
                     THEN Ended({})
                     ELSE [Fresh EXCEPT !.pc = "asked", !.has = has, !.gen = rebuilds]]
    /\ disturbed' = (disturbed \/ SetAside)
    /\ UNCHANGED <<left, attributions, movements, request, faults>>

\* Ids that were not shown, and pairs named before, are dropped.
Answers(r) ==
    {lines \in UNION {[1..n -> Suggestions] : n \in 0..MaxLines} :
        /\ \A i \in DOMAIN lines : run[r].has[lines[i].m] > 0
        /\ \A i, j \in DOMAIN lines :
             lines[i].m = lines[j].m /\ lines[i].d = lines[j].d => i = j}

Answer(r) ==
    /\ run[r].pc = "asked"
    /\ \E lines \in Answers(r) : run' = [run EXCEPT ![r].pc = "answered", ![r].lines = lines]
    /\ UNCHANGED <<left, attributions, movements, request, disturbed, faults>>

\* Mutant: the old matches are deleted before the transaction.
BeginAfterDelete(r) ==
    /\ run[r].pc = "answered"
    /\ LET again == {run[r].lines[i].m : i \in {j \in DOMAIN run[r].lines : run[r].lines[j].high}}
       IN  attributions' = {a \in attributions :
                              a.by # "llm" \/ a.m \notin again \/ run[r].gen # rebuilds}
    /\ run' = [run EXCEPT ![r].pc = "clear"]
    /\ UNCHANGED <<left, movements, request, disturbed, faults>>

\* The transaction begins with the deletion of what the model matched before
\* for the same movements: of the rows that the statement sees,
Begin(r) ==
    /\ run[r].pc = "answered"
    /\ LET again == {run[r].lines[i].m : i \in {j \in DOMAIN run[r].lines : run[r].lines[j].high}}
       IN  run' = [run EXCEPT
                     ![r].pc = "clear",
                     ![r].old = Keys({a \in attributions : /\ a.by = "llm" /\ a.m \in again
                                                           /\ run[r].gen = rebuilds})]
    /\ UNCHANGED <<left, attributions, movements, request, disturbed, faults>>

\* once no other transaction holds any of them, those that are still there.
Clear(r) ==
    /\ run[r].pc = "clear"
    /\ \A k \in run[r].old : /\ \A q \in Others(r) : ~HoldsRow(q, k)
                              /\ \A u \in Requests : ~Deletes(u, k)
    /\ run' = [run EXCEPT ![r].pc = "apply", ![r].open = TRUE, ![r].old = {},
                          ![r].gone = {a \in attributions : Key(a) \in run[r].old}]
    /\ UNCHANGED <<left, attributions, movements, request, disturbed, faults>>

Current(r) == run[r].lines[run[r].next]
InLoop(r) == run[r].pc = "apply" /\ run[r].next <= Len(run[r].lines)

\* A suggestion of less than high confidence, or a movement whose cash is
\* used up.
SkipLine(r) ==
    /\ InLoop(r)
    /\ ~Current(r).high \/ run[r].has[Current(r).m] = 0
    /\ run' = [run EXCEPT ![r].next = @ + 1]
    /\ UNCHANGED <<left, attributions, movements, request, disturbed, faults>>

\* Another transaction holds the document of a suggestion, or a row that the
\* suggestion would overwrite.
RowHeld(r, l) ==
    LET k == <<l.m, l.d, "llm">>
    IN  /\ k \in Keys(attributions \ run[r].gone)
        /\ \/ \E q \in Others(r) : HoldsRow(q, k)
           \/ \E u \in Requests : Deletes(u, k)
Waits(r, l) == RowHeld(r, l) \/ \E q \in Others(r) : HoldsDocument(q, l.d)

\* Mutant: the cash that a suggestion uses is not taken from the movement.
ApplyLineAgain(r) ==
    LET l == Current(r)
        net == Lesser(Named(l), run[r].has[l.m])
        t == run[r]
    IN  /\ InLoop(r) /\ l.high /\ t.has[l.m] > 0
        /\ t.open /\ t.gen = rebuilds
        /\ ~Waits(r, l)
        /\ run' = [run EXCEPT ![r] =
                     [t EXCEPT !.next = t.next + 1,
                               !.rows = t.rows \union
                                          {[m |-> l.m, d |-> l.d, by |-> "llm", net |-> net]},
                               !.cut = [t.cut EXCEPT ![l.d] = t.cut[l.d] + net]]]
        /\ UNCHANGED <<left, attributions, movements, request, disturbed, faults>>

\* Mutant: the balance is reduced by the amount named, not by what is applied.
ApplyLineNamed(r) ==
    LET l == Current(r)
        net == Lesser(Named(l), run[r].has[l.m])
        t == run[r]
    IN  /\ InLoop(r) /\ l.high /\ t.has[l.m] > 0
        /\ t.open /\ t.gen = rebuilds
        /\ ~Waits(r, l)
        /\ run' = [run EXCEPT ![r] =
                     [t EXCEPT !.next = t.next + 1,
                               !.has = [t.has EXCEPT ![l.m] = t.has[l.m] - net],
                               !.rows = t.rows \union
                                          {[m |-> l.m, d |-> l.d, by |-> "llm", net |-> net]},
                               !.cut = [t.cut EXCEPT ![l.d] = t.cut[l.d] + Named(l)]]]
        /\ UNCHANGED <<left, attributions, movements, request, disturbed, faults>>

\* The attribution is inserted, or overwrites one of the model for the same
\* pair, and the balance is reduced.
ApplyLine(r) ==
    LET l == Current(r)
        net == Lesser(Named(l), run[r].has[l.m])
        t == run[r]
    IN  /\ InLoop(r) /\ l.high /\ t.has[l.m] > 0
        /\ t.open /\ t.gen = rebuilds
        /\ ~Waits(r, l)
        /\ run' = [run EXCEPT ![r] =
                     [t EXCEPT !.next = t.next + 1,
                               !.has = [t.has EXCEPT ![l.m] = t.has[l.m] - net],
                               !.rows = t.rows \union
                                          {[m |-> l.m, d |-> l.d, by |-> "llm", net |-> net]},
                               !.cut = [t.cut EXCEPT ![l.d] = t.cut[l.d] + net]]]
        /\ UNCHANGED <<left, attributions, movements, request, disturbed, faults>>

\* The movement is gone and the foreign key refuses the row; or the
\* transaction is aborted already; or the statement fails for another reason.
LineFails(r) ==
    /\ InLoop(r) /\ Current(r).high /\ run[r].has[Current(r).m] > 0
    /\ \/ run[r].open /\ run[r].gen # rebuilds /\ UNCHANGED faults
       \/ ~run[r].open /\ UNCHANGED faults
       \/ run[r].open /\ run[r].gen = rebuilds /\ Fault
    /\ run' = [run EXCEPT ![r] = [Aborted(run[r]) EXCEPT !.next = run[r].next + 1]]
    /\ UNCHANGED <<left, attributions, movements, request, disturbed>>

\* The row that the suggestion was to overwrite is deleted while the statement
\* waits for it.  The error is the program's own, and the transaction goes on.
RowVanishes(r) ==
    LET l == Current(r)
        k == <<l.m, l.d, "llm">>
    IN  /\ InLoop(r) /\ l.high /\ run[r].has[l.m] > 0
        /\ run[r].open /\ run[r].gen = rebuilds
        /\ k \in Keys(attributions \ run[r].gone)
        /\ \/ \E q \in Others(r) : run[q].open /\ k \in Keys(run[q].gone)
           \/ \E u \in Requests : Deletes(u, k)
        /\ run' = [run EXCEPT ![r].next = @ + 1, ![r].missed = TRUE]
        /\ UNCHANGED <<left, attributions, movements, request, disturbed, faults>>

Upserted(old, rows) ==
    {a \in old : \A b \in rows : Key(a) # Key(b)} \union rows

\* What a commit of r changes besides the balances.
Committed(r) ==
    LET t == run[r]
        over == [Aborted(t) EXCEPT !.pc = "applied", !.missed = FALSE]
    IN  IF t.open
        THEN /\ attributions' = Upserted(attributions \ t.gone, t.rows)
             /\ run' = [q \in Runs |-> IF q = r THEN over ELSE Forget(run[q], Keys(t.gone))]
             /\ request' = Without(Keys(t.gone))
             /\ disturbed' = (disturbed \/ (t.rows # {} /\ InTheWay({a.d : a \in t.rows}, Requests)))
        ELSE /\ run' = [run EXCEPT ![r] = over]
             /\ UNCHANGED <<attributions, request, disturbed>>

\* Mutant: a balance is reduced below zero.
CommitBelowZero(r) ==
    /\ run[r].pc = "apply" /\ run[r].next > Len(run[r].lines)
    /\ left' = IF run[r].open THEN [d \in Documents |-> left[d] - run[r].cut[d]] ELSE left
    /\ Committed(r)
    /\ UNCHANGED <<movements, faults>>

\* COMMIT.  Of an aborted transaction it makes a rollback, and says nothing.
Commit(r) ==
    /\ run[r].pc = "apply" /\ run[r].next > Len(run[r].lines)
    /\ left' = IF run[r].open THEN [d \in Documents |-> Less(left[d], run[r].cut[d])] ELSE left
    /\ Committed(r)
    /\ UNCHANGED <<movements, faults>>

\* validateARSuggestion, validateAPSuggestion: the amount is near what is due,
\* or else what is due is near the movement's amount; and the dates are near.
Within(a, b) == 10 * a >= 9 * b /\ 10 * a <= 11 * b
Grounded(l) == (Within(Named(l), Due[l.d]) \/ Within(Due[l.d], Cash[l.m])) /\ l.near

\* filterHallucinations: the suggestions that are rejected are reported.
Filter(r) ==
    /\ run[r].pc = "applied"
    /\ LET lines == {run[r].lines[i] : i \in DOMAIN run[r].lines}
       IN  run' = [run EXCEPT ![r] = Ended({l \in lines : ~Grounded(l)})]
    /\ UNCHANGED <<left, attributions, movements, request, disturbed, faults>>

\* An error that nothing catches, or the loss of the process.
Lost(r) ==
    /\ Active(r) /\ Fault
    /\ run' = [run EXCEPT ![r] = Ended({})]
    /\ UNCHANGED <<left, attributions, movements, request, disturbed>>

----------------------------------------------------------------------------
(* The others.                                                             *)

\* runFinancialBrain's waterfall commits a match it planned from older reads
\* (a bound: one such match).  If the movement is gone its foreign key refuses
\* the row, and the waterfall is rolled back.
OtherWaterfall(p) ==
    /\ p.m \in present
    /\ \A a \in attributions : a.by = "llm"
    /\ \A r \in Runs : ~HoldsDocument(r, p.d)
    /\ attributions' = attributions \union {[m |-> p.m, d |-> p.d, by |-> "waterfall", net |-> p.x]}
    /\ left' = [left EXCEPT ![p.d] = Less(@, p.x)]
    /\ disturbed' = (disturbed \/ InTheWay({p.d}, Requests))
    /\ UNCHANGED <<movements, run, request, faults>>

\* A user unmatches.  The row is read before the transaction,
UnmatchRead(u, a) ==
    /\ request[u].pc = "idle"
    /\ request' = [request EXCEPT ![u] = [pc |-> "read", row |-> a, there |-> TRUE, balance |-> 0]]
    /\ UNCHANGED <<left, attributions, movements, run, disturbed, faults>>

\* deleted in it, if it is still there, and the other attributions of the
\* document are summed up without a lock;
UnmatchSum(u) ==
    LET a == request[u].row
        others == IF request[u].there
                  THEN {b \in attributions : Key(b) # Key(a)}
                  ELSE attributions
    IN  /\ request[u].pc = "read"
        /\ request[u].there =>
             /\ \A r \in Runs : ~HoldsRow(r, Key(a))
             /\ \A v \in Requests : ~Deletes(v, Key(a))
        /\ request' = [request EXCEPT ![u].pc = "sum",
                                      ![u].balance = Less(Due[a.d], Taken(others, a.d))]
        /\ disturbed' = (disturbed \/ SetAside)
        /\ UNCHANGED <<left, attributions, movements, run, faults>>

\* the balance is what they left then, once no run holds the document.
UnmatchCommit(u) ==
    LET a == request[u].row
        keys == IF request[u].there THEN {Key(a)} ELSE {}
    IN  /\ Summed(u)
        /\ \A r \in Runs : ~HoldsDocument(r, a.d)
        /\ attributions' = {b \in attributions : Key(b) \notin keys}
        /\ left' = [left EXCEPT ![a.d] = request[u].balance]
        /\ run' = [r \in Runs |-> Forget(run[r], keys)]
        /\ request' = [Without(keys) EXCEPT ![u] = NoRequest]
        /\ disturbed' = (disturbed \/ InTheWay({a.d}, Requests \ {u}))
        /\ UNCHANGED <<movements, faults>>

\* An error: the transaction is rolled back.
UnmatchFails(u) ==
    /\ request[u].pc # "idle" /\ Fault
    /\ request' = [request EXCEPT ![u] = NoRequest]
    /\ UNCHANGED <<left, attributions, movements, run, disturbed>>

Unmatch(u) ==
    \/ \E a \in attributions : UnmatchRead(u, a)
    \/ UnmatchSum(u) \/ UnmatchCommit(u) \/ UnmatchFails(u)

----------------------------------------------------------------------------
(* classifyMovements, in statements that commit one by one.                *)

\* The attributions are read; an error there is only logged.
SaveAttributions ==
    /\ rebuild.pc = "idle" /\ rebuilds < MaxRebuilds
    /\ \/ /\ rebuild' = [pc |-> "delete", saved |-> attributions]
          /\ UNCHANGED <<disturbed, faults>>
       \/ /\ Fault
          /\ rebuild' = [pc |-> "delete", saved |-> {}]
          /\ disturbed' = (disturbed \/ attributions # {})
    /\ UNCHANGED <<left, attributions, present, rebuilds, run, request>>

\* DELETE FROM movements, and by cascade their attributions, once no
\* transaction holds any of them.
DeleteMovements ==
    /\ rebuild.pc = "delete"
    /\ \A r \in Runs : ~HoldsMovements(r)
    /\ \A u \in Requests, a \in attributions : ~Deletes(u, Key(a))
    /\ attributions' = {}
    /\ present' = {}
    /\ rebuild' = [rebuild EXCEPT !.pc = "insert"]
    /\ rebuilds' = rebuilds + 1
    /\ run' = [r \in Runs |-> Forget(run[r], Keys(attributions))]
    /\ request' = Without(Keys(attributions))
    /\ UNCHANGED <<left, disturbed, faults>>

\* The movements come back in batches, under new ids, without attributions.
InsertBatch ==
    /\ rebuild.pc = "insert"
    /\ \E batch \in (SUBSET (Movements \ present)) \ {{}} : present' = present \union batch
    /\ rebuild' = IF present' = Movements THEN Restoring(rebuild.saved) ELSE rebuild
    /\ UNCHANGED <<left, attributions, rebuilds, run, request, disturbed, faults>>

\* Each attribution saved is inserted, unless there is one of its key.
RestoreRow(a) ==
    /\ rebuild.pc = "restore"
    /\ \A r \in Runs : ~HoldsRow(r, Key(a))
    /\ \A u \in Requests : ~Deletes(u, Key(a))
    /\ attributions' = IF Key(a) \in Keys(attributions) THEN attributions
                       ELSE attributions \union {a}
    /\ rebuild' = Restoring(rebuild.saved \ {a})
    /\ disturbed' = (disturbed \/ Key(a) \in Keys(attributions))
    /\ UNCHANGED <<left, present, rebuilds, run, request, faults>>

\* An error while they are restored is only logged; one before ends the rebuild,
\* and so does the loss of the process.  What is not restored yet is lost.
RebuildFails ==
    /\ rebuild.pc # "idle" /\ Fault
    /\ rebuild' = Restoring({})
    /\ disturbed' = (disturbed \/ SetAside)
    /\ UNCHANGED <<left, attributions, present, rebuilds, run, request>>

Rebuild ==
    \/ SaveAttributions \/ DeleteMovements \/ InsertBatch
    \/ \E a \in rebuild.saved : RestoreRow(a)
    \/ RebuildFails

Init ==
    /\ left = Due
    /\ attributions = {}
    /\ present = Movements
    /\ rebuild = Restoring({})
    /\ rebuilds = 0
    /\ run = [r \in Runs |-> Fresh]
    /\ request = [u \in Requests |-> NoRequest]
    /\ disturbed = FALSE
    /\ faults = 0

Step(r) ==
    \/ Start(r) \/ Read(r) \/ Answer(r) \/ Begin(r) \/ Clear(r)
    \/ SkipLine(r) \/ ApplyLine(r) \/ LineFails(r) \/ RowVanishes(r) \/ Commit(r)
    \/ Filter(r)

Next ==
    \/ \E r \in Runs : Step(r) \/ Lost(r)
    \/ \E p \in Planned : OtherWaterfall(p)
    \/ \E u \in Requests : Unmatch(u)
    \/ Rebuild

Spec == Init /\ [][Next]_vars

----------------------------------------------------------------------------
(* Properties                                                              *)

Row == [m : Movements, d : Documents, by : {"llm", "waterfall"}, net : Nat \ {0}]
RowKey == Movements \X Documents \X {"llm", "waterfall"}
RunRecord ==
    [pc : {"start", "reconciled", "asked", "answered", "clear", "apply", "applied", "end"},
     gen : Nat, has : [Movements -> Nat], lines : Seq(Line), next : Nat \ {0},
     old : SUBSET RowKey, gone : SUBSET Row, rows : SUBSET Row, cut : [Documents -> Nat],
     open : BOOLEAN, missed : BOOLEAN, rejected : SUBSET Line]
RebuildRecord == [pc : {"idle", "delete", "insert", "restore"}, saved : SUBSET Row]
RequestRecord ==
    {NoRequest} \union [pc : {"read", "sum"}, row : Row, there : BOOLEAN, balance : Nat]

\* Every variable holds a value of its kind.
TypeOK ==
    /\ left \in [Documents -> Nat]
    /\ attributions \subseteq Row
    /\ present \subseteq Movements
    /\ rebuild \in RebuildRecord
    /\ rebuilds \in 0..MaxRebuilds
    /\ run \in [Runs -> RunRecord]
    /\ request \in [Requests -> RequestRecord]
    /\ disturbed \in BOOLEAN
    /\ faults \in 0..MaxFaults

\* What is attributed, or will be again when the rebuild under way is done.
Attributed == attributions \union rebuild.saved

\* What a document has left is what its attributions leave, those included that
\* a rebuild has set aside: through failed statements, aborted transactions
\* that are committed, other waterfalls, and unmatches and rebuilds while the
\* model thinks.  It needs that no two runs are active together, that nobody
\* uses the attributions while a rebuild has them set aside or is about to, that
\* those of a document are not changed between an unmatch's SUM and its UPDATE,
\* and that no rebuild loses what it saved.
BalancesFollow ==
    ~disturbed =>
        \A d \in Documents : left[d] = Less(Due[d], Taken(Attributed, d))

\* Under the same conditions the model gives out no more than the cash of a
\* movement, over several documents and several runs.
ModelWithinCash ==
    ~disturbed =>
        \A m \in Movements : Spent({a \in Attributed : a.by = "llm"}, m) <= Cash[m]

\* No step but the DELETE of a rebuild and an unmatch takes from a movement the
\* last attribution that the model has given it: although each run deletes them
\* first, runs overlap, and statements fail.  Only a run that has missed a row
\* it was to overwrite may do so.
ModelRows(m) == {a \in attributions : a.m = m /\ a.by = "llm"}
NeverWithout ==
    [][\A m \in Movements :
          ModelRows(m) # {} => \/ ModelRows(m)' # {}
                               \/ DeleteMovements
                               \/ \E u \in Requests : UnmatchCommit(u)
                               \/ \E r \in Runs : run[r].missed /\ Commit(r)]_vars

\* What the filter rejects is not applied.
OnlyGroundedApplied ==
    \A r \in Runs : run[r].pc = "end" =>
        \A l \in run[r].rejected :
            \A a \in attributions : Key(a) # <<l.m, l.d, "llm">>

\* Without the exceptions, for the configurations that show that each is needed.
NeverEmptied ==
    [][\A m \in Movements :
          ModelRows(m) # {} => \/ ModelRows(m)' # {}
                               \/ \E u \in Requests : UnmatchCommit(u)]_vars
CashGivenOnce ==
    \A m \in Movements : Spent({a \in attributions : a.by = "llm"}, m) <= Cash[m]
BalancesExact ==
    rebuild.pc = "idle" =>
        \A d \in Documents : left[d] = Less(Due[d], Taken(attributions, d))
=============================================================================
