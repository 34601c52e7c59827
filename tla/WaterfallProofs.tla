-------------------------- MODULE WaterfallProofs --------------------------
(***************************************************************************)
(* Proofs about Waterfall: that any number of waterfalls, interleaved with *)
(* each other and with every request of the ledger, keep the types, leave  *)
(* an event "paid" exactly when it is settled, and neither reopen a paid   *)
(* event nor give back cash.  What the planner and the replay of its plan  *)
(* return is established by induction on the movements and on the lines.   *)
(***************************************************************************)
EXTENDS Waterfall, CashLedgerProofs, WellFoundedInduction

----------------------------------------------------------------------------
(* Induction on the natural numbers, for a set, and functions defined by   *)
(* recursion on 0..n.                                                      *)

LEMMA LeastNatural ==
    ASSUME NEW T \in SUBSET Nat, T # {}
    PROVE  \E n \in T : \A k \in T : n <= k
<1> DEFINE R == OpToRel(<, Nat)
<1>1. IsWellFoundedOn(R, Nat)
  BY NatLessThanWellFounded
<1>2. \A k, n \in Nat : k < n => <<k, n>> \in R
  BY DEF OpToRel
<1> HIDE DEF R
<1>3. PICK n \in T : \A k \in T : ~ (<<k, n>> \in R)
  BY <1>1, WFMin
<1>4. n \in Nat /\ \A k \in T : k \in Nat /\ ~ (k < n)
  BY <1>2, <1>3
<1>5. \A k \in T : n <= k
  BY <1>4
<1> QED  BY <1>5

LEMMA SetInduction ==
    ASSUME NEW P, 0 \in P, \A n \in Nat : n \in P => n + 1 \in P
    PROVE  Nat \subseteq P
<1> SUFFICES ASSUME Nat \ P # {} PROVE FALSE
  OBVIOUS
<1>1. PICK n \in Nat \ P : \A k \in Nat \ P : n <= k
  BY LeastNatural
<1>2. n - 1 \in Nat /\ n - 1 \in P
  BY <1>1
<1> QED  BY <1>1, <1>2

\* What each step of a function passes on holds of all its values.
LEMMA StepsStayIn ==
    ASSUME NEW N \in Nat, NEW S, NEW f, f[0] \in S,
           \A k \in 1..N : f[k - 1] \in S => f[k] \in S
    PROVE  \A k \in 0..N : f[k] \in S
<1> DEFINE P == {n \in Nat : n <= N => f[n] \in S}
<1>1. 0 \in P
  OBVIOUS
<1>2. ASSUME NEW n \in Nat, n \in P PROVE n + 1 \in P
  <2> SUFFICES ASSUME n + 1 <= N PROVE f[n + 1] \in S
    OBVIOUS
  <2>1. n + 1 \in 1..N /\ (n + 1) - 1 = n
    OBVIOUS
  <2>2. f[n] \in S
    BY <1>2
  <2> QED  BY <2>1, <2>2
<1> HIDE DEF P
<1>3. Nat \subseteq P
  BY <1>1, <1>2, SetInduction
<1> QED  BY <1>3 DEF P

\* The function f starts at b and goes on by step, up to N.
Follows(f, N, b, step) == f[0] = b /\ \A k \in 1..N : f[k] = step[k][f[k - 1]]

\* Such a function exists.
LEMMA RecursionExists ==
    ASSUME NEW N \in Nat, NEW S, NEW b \in S, NEW step \in [1..N -> [S -> S]]
    PROVE  \E f \in [0..N -> S] : Follows(f, N, b, step)
<1> DEFINE Good(n, f) == f[0] = b /\ \A k \in 1..n : f[k] = step[k][f[k - 1]]
           P == {n \in Nat : n <= N => \E f \in [0..n -> S] : Good(n, f)}
<1>1. 0 \in P
  <2>1. [k \in 0..0 |-> b] \in [0..0 -> S] /\ Good(0, [k \in 0..0 |-> b])
    OBVIOUS
  <2> HIDE DEF Good
  <2> QED  BY <2>1
<1>2. ASSUME NEW n \in Nat, n \in P PROVE n + 1 \in P
  <2> SUFFICES ASSUME n + 1 <= N PROVE \E f \in [0..(n + 1) -> S] : Good(n + 1, f)
    OBVIOUS
  <2>1. PICK f \in [0..n -> S] : Good(n, f)
    BY <1>2
  <2> DEFINE last == step[n + 1][f[n]]
             g == [k \in 0..(n + 1) |-> IF k = n + 1 THEN last ELSE f[k]]
  <2>2. n + 1 \in 1..N /\ f[n] \in S
    OBVIOUS
  <2>3. last \in S
    BY <2>2
  <2>4. g \in [0..(n + 1) -> S]
    BY <2>3
  <2>5. g[0] = b
    BY <2>1
  <2>6. ASSUME NEW k \in 1..(n + 1) PROVE g[k] = step[k][g[k - 1]]
    <3>1. k - 1 \in 0..n /\ k - 1 # n + 1 /\ g[k - 1] = f[k - 1]
      OBVIOUS
    <3>2. CASE k = n + 1
      BY <3>1, <3>2
    <3>3. CASE k # n + 1
      <4>1. k \in 1..n /\ g[k] = f[k]
        BY <3>3
      <4> QED  BY <2>1, <3>1, <4>1
    <3> QED  BY <3>2, <3>3
  <2> HIDE DEF g
  <2> QED  BY <2>4, <2>5, <2>6
<1> HIDE DEF P
<1>3. Nat \subseteq P
  BY <1>1, <1>2, SetInduction
<1>4. \E f \in [0..N -> S] : Good(N, f)
  BY <1>3 DEF P
<1> QED  BY <1>4 DEF Follows

----------------------------------------------------------------------------
(* The planner.                                                            *)

Rows == [Events -> CashEventRow(Amounts) \cup {NoRow}]

\* Each row is "paid" exactly when it is settled.
SettledRows(rows) == \A e \in Events : rows[e] # NoRow => SettledRow(rows[e])

\* An event that is paid in the given rows.
PaidIn(rows, e) == rows[e] # NoRow /\ rows[e].status = "paid"

\* The lines pay an event that was paid once, or else by a tag.
OnceOrTagged(rows, lines) ==
    \A j, k \in DOMAIN lines :
        j < k /\ lines[j].event = lines[k].event /\ PaidIn(rows, lines[k].event)
          => DirectLink[lines[k].movement] = lines[k].event

\* What the planner can hold, having started from the given rows: it pays only
\* events that were there; what was paid keeps its row and is used once matched.
PlanState(rows) ==
    {p \in [rows : Rows, used : SUBSET Events, lines : Seq(Line), review : BOOLEAN] :
        /\ \A e \in Events : p.rows[e] # NoRow => rows[e] # NoRow
        /\ \A k \in DOMAIN p.lines : rows[p.lines[k].event] # NoRow
        /\ \A e \in Events : PaidIn(rows, e) => p.rows[e] = rows[e]
        /\ \A k \in DOMAIN p.lines : PaidIn(rows, p.lines[k].event) => p.lines[k].event \in p.used
        /\ OnceOrTagged(rows, p.lines)}

\* A movement adds at most one line, within its cash up to the tolerance.
Adds(lines, more, m, cash) ==
    \/ more = lines
    \/ \E line \in Line : /\ more = Append(lines, line)
                          /\ line.movement = m /\ line.net <= cash + EPS

\* What the planner can hold after movement m, having held p before it.
PlanAfter(rows, p, m, cash) == {q \in PlanState(rows) : Adds(p.lines, q.lines, m, cash)}

\* There is a first of the events that fit.
LEMMA FirstFits ==
    ASSUME NEW S \in SUBSET Events, S # {}
    PROVE  First(S) \in S
<1> DEFINE ranks == {EventRank[e] : e \in S}
<1>1. ranks \in SUBSET Nat /\ ranks # {}
  BY EngineAssumption
<1> HIDE DEF ranks
<1>2. PICK n \in ranks : \A k \in ranks : n <= k
  BY <1>1, LeastNatural
<1>3. \E e \in S : \A f \in S : EventRank[e] <= EventRank[f]
  BY <1>2 DEF ranks
<1> QED  BY <1>3 DEF First

\* Something is matched of an event that is open or paid.
LEMMA MatchIsPositive ==
    ASSUME NEW row \in CashEventRow(Amounts), row.outstanding > EPS \/ row.status = "paid"
    PROVE  MatchAmount(row) \in Nat \ {0}
<1>1. row.outstanding \in Nat /\ row.amount \in Nat /\ row.amount > EPS
  BY AmountFacts DEF CashEventRow
<1> QED  BY <1>1 DEF MatchAmount, EPS

\* Taking from a balance leaves a consistent row with no larger balance.
LEMMA TakenOffSettles ==
    ASSUME NEW row \in CashEventRow(Amounts), NEW gross \in Nat
    PROVE  /\ TakenOff(row, gross) \in CashEventRow(Amounts)
           /\ SettledRow(TakenOff(row, gross))
           /\ TakenOff(row, gross).outstanding <= row.outstanding
<1> DEFINE left == LessButNotNegative(row.outstanding, gross)
<1>1. row.outstanding \in Nat /\ row.amount \in Nat /\ row.amount > EPS
  BY AmountFacts DEF CashEventRow
<1>2. left \in Nat /\ left <= row.outstanding
  BY <1>1 DEF LessButNotNegative
<1>3. TakenOff(row, gross)
        = [row EXCEPT !.outstanding = left, !.status = statusFromOutstanding(left, row.amount)]
  BY DEF TakenOff
<1> HIDE DEF left
<1>4. /\ statusFromOutstanding(left, row.amount) \in Statuses
      /\ statusFromOutstanding(left, row.amount) = "paid" <=> left <= EPS
  BY <1>1, <1>2, CanonicalStatusPaid
<1> QED  BY <1>2, <1>3, <1>4 DEF CashEventRow, SettledRow

\* An event that was paid may be matched while it is not used, or by a tag.
MayMatch(rows, p, m, e) == PaidIn(rows, e) => e \notin p.used \/ DirectLink[m] = e

LEMMA MatchedIsPlan ==
    ASSUME NEW rows, NEW p \in PlanState(rows), NEW m \in Movements, NEW e \in Events,
           p.rows[e] # NoRow, MayMatch(rows, p, m, e), NEW gross \in Nat \ {0}, NEW net \in 1..MaxNet,
           NEW cash \in Int, net <= cash + EPS
    PROVE  Matched(p, m, e, gross, net) \in PlanAfter(rows, p, m, cash)
<1> DEFINE line == [movement |-> m, event |-> e, gross |-> gross, net |-> net]
           paid == p.rows[e].status = "paid"
           lines2 == Append(p.lines, line)
           rows2 == IF paid THEN p.rows ELSE [p.rows EXCEPT ![e] = TakenOff(p.rows[e], gross)]
           used2 == IF paid THEN p.used \cup {e} ELSE p.used
           q == [p EXCEPT !.lines = lines2, !.rows = rows2, !.used = used2]
<1>1. Matched(p, m, e, gross, net) = q
  BY DEF Matched
<1>2. p \in [rows : Rows, used : SUBSET Events, lines : Seq(Line), review : BOOLEAN]
  BY DEF PlanState
<1>3. /\ line \in Line /\ line.event = e
      /\ line.movement = m /\ line.net <= cash + EPS
  BY DEF Line
<1> HIDE DEF line
<1>4. /\ lines2 \in Seq(Line)
      /\ \A k \in DOMAIN lines2 :
           \/ /\ lines2[k].event = e /\ lines2[k].movement = m
              /\ \A j \in DOMAIN lines2 : j < k => j \in DOMAIN p.lines /\ lines2[j] = p.lines[j]
           \/ /\ k \in DOMAIN p.lines /\ lines2[k] = p.lines[k]
              /\ \A j \in DOMAIN lines2 : j < k => j \in DOMAIN p.lines /\ lines2[j] = p.lines[j]
  <2> DEFINE old == p.lines
  <2>1. old \in Seq(Line) /\ lines2 = Append(old, line)
    BY <1>2
  <2> HIDE DEF old, lines2
  <2>2. lines2 \in Seq(Line) /\ Len(lines2) = Len(old) + 1
    BY <1>3, <2>1
  <2>3. /\ DOMAIN lines2 = 1..(Len(old) + 1) /\ DOMAIN old = 1..Len(old) /\ Len(old) \in Nat
        /\ lines2[Len(old) + 1] = line /\ \A k \in 1..Len(old) : lines2[k] = old[k]
    BY <1>3, <2>1, <2>2
  <2>4. \A k \in DOMAIN lines2 : k = Len(old) + 1 \/ k \in DOMAIN old
    BY <2>3
  <2>5. ASSUME NEW k \in DOMAIN lines2
        PROVE  \/ /\ lines2[k].event = e /\ lines2[k].movement = m
                  /\ \A j \in DOMAIN lines2 : j < k => j \in DOMAIN old /\ lines2[j] = old[j]
               \/ /\ k \in DOMAIN old /\ lines2[k] = old[k]
                  /\ \A j \in DOMAIN lines2 : j < k => j \in DOMAIN old /\ lines2[j] = old[j]
    <3>0. \A j \in DOMAIN lines2 : j < k => j \in DOMAIN old /\ lines2[j] = old[j]
      BY <2>3
    <3>1. CASE k = Len(old) + 1
      <4>1. lines2[k] = line
        BY <2>3, <3>1
      <4> QED  BY <1>3, <3>0, <4>1
    <3>2. CASE k \in DOMAIN old
      BY <2>3, <3>0, <3>2
    <3> QED  BY <2>4, <3>1, <3>2
  <2> QED  BY <2>2, <2>5 DEF old
<1>5. p.rows[e] \in CashEventRow(Amounts)
  BY <1>2 DEF Rows
<1>6. TakenOff(p.rows[e], gross) \in CashEventRow(Amounts)
  BY <1>5, TakenOffSettles
<1>7. /\ rows2 \in Rows
      /\ \A f \in Events : rows2[f] # NoRow => p.rows[f] # NoRow
  BY <1>2, <1>6 DEF Rows
<1>8. used2 \in SUBSET Events
  BY <1>2
<1>12. Adds(p.lines, lines2, m, cash)
  BY <1>3 DEF Adds
<1>13. /\ \A f \in Events : PaidIn(rows, f) => p.rows[f] = rows[f]
       /\ \A k \in DOMAIN p.lines : PaidIn(rows, p.lines[k].event) => p.lines[k].event \in p.used
       /\ OnceOrTagged(rows, p.lines)
  BY DEF PlanState
<1>14. PaidIn(rows, e) => paid
  BY <1>13 DEF PaidIn
<1>15. /\ \A f \in Events : PaidIn(rows, f) => rows2[f] = rows[f]
       /\ PaidIn(rows, e) => e \in used2
       /\ p.used \subseteq used2
  BY <1>2, <1>13, <1>14 DEF Rows
<1> HIDE DEF lines2, rows2, used2, paid
<1>16. ASSUME NEW k \in DOMAIN lines2, PaidIn(rows, lines2[k].event)
       PROVE  /\ lines2[k].event \in used2
              /\ \A j \in DOMAIN lines2 : j < k /\ lines2[j].event = lines2[k].event
                   => DirectLink[lines2[k].movement] = lines2[k].event
  <2>1. CASE /\ lines2[k].event = e /\ lines2[k].movement = m
             /\ \A j \in DOMAIN lines2 : j < k => j \in DOMAIN p.lines /\ lines2[j] = p.lines[j]
    <3>1. ASSUME NEW j \in DOMAIN lines2, j < k, lines2[j].event = e
          PROVE  DirectLink[m] = e
      <4>1. e \in p.used
        BY <1>13, <1>16, <2>1, <3>1
      <4> QED  BY <1>16, <2>1, <4>1 DEF MayMatch
    <3> QED  BY <1>15, <1>16, <2>1, <3>1
  <2>2. CASE /\ k \in DOMAIN p.lines /\ lines2[k] = p.lines[k]
             /\ \A j \in DOMAIN lines2 : j < k => j \in DOMAIN p.lines /\ lines2[j] = p.lines[j]
    BY <1>13, <1>15, <1>16, <2>2 DEF OnceOrTagged
  <2> QED  BY <1>4, <2>1, <2>2
<1>17. OnceOrTagged(rows, lines2)
  BY <1>16 DEF OnceOrTagged
<1>9. /\ q \in [rows : Rows, used : SUBSET Events, lines : Seq(Line), review : BOOLEAN]
      /\ q.rows = rows2 /\ q.lines = lines2 /\ q.used = used2
  BY <1>2, <1>4, <1>7, <1>8
<1> HIDE DEF q
<1>10. /\ \A f \in Events : p.rows[f] # NoRow => rows[f] # NoRow
       /\ \A k \in DOMAIN p.lines : rows[p.lines[k].event] # NoRow
  BY DEF PlanState
<1>11. q \in PlanState(rows)
  <2>1. \A k \in DOMAIN lines2 : rows[lines2[k].event] # NoRow
    BY <1>4, <1>10
  <2>2. \A f \in Events : rows2[f] # NoRow => rows[f] # NoRow
    BY <1>7, <1>10
  <2> QED  BY <1>9, <1>15, <1>16, <1>17, <2>1, <2>2 DEF PlanState
<1> QED  BY <1>1, <1>9, <1>11, <1>12 DEF PlanAfter

\* A flag for review changes nothing else.
LEMMA ReviewIsPlan ==
    ASSUME NEW rows, NEW p, NEW m, NEW cash, NEW q \in PlanAfter(rows, p, m, cash), NEW left
    PROVE  NeedsReview(q, left) \in PlanAfter(rows, p, m, cash)
<1> DEFINE flag == q.review \/ left > ReviewThreshold
<1>1. NeedsReview(q, left) = [q EXCEPT !.review = flag]
  BY DEF NeedsReview
<1>2. flag \in BOOLEAN
  OBVIOUS
<1> HIDE DEF flag
<1>3. q \in PlanState(rows) /\ Adds(p.lines, q.lines, m, cash)
  BY DEF PlanAfter
<1>4. [q EXCEPT !.review = flag].lines = q.lines /\ [q EXCEPT !.review = flag] \in PlanState(rows)
  BY <1>2, <1>3 DEF PlanState
<1> QED  BY <1>1, <1>3, <1>4 DEF PlanAfter

\* What is planned for a movement: one line at most, of an event that is there,
\* for an amount above zero, with no more than a cent above the movement's cash.
LEMMA PlanMovementIsPlan ==
    ASSUME NEW rows, SettledRows(rows), NEW p \in PlanState(rows), NEW m \in Movements,
           NEW cash \in Int, cash <= MaxAmount
    PROVE  PlanMovement(p, m, cash) \in PlanAfter(rows, p, m, cash)
<1> DEFINE linked == Linked(p, m)
           sniped == Sniper(p, m, cash)
           queue == Fifo(p, m, cash)
<1>1. \A e \in Events : p.rows[e] # NoRow => p.rows[e] \in CashEventRow(Amounts)
  BY DEF PlanState, Rows
<1>2. /\ linked \in SUBSET Events
      /\ \A e \in linked : /\ p.rows[e] # NoRow
                           /\ p.rows[e].outstanding > EPS \/ p.rows[e].status = "paid"
  BY DEF Linked
<1>3. /\ Pool(p, m) \in SUBSET Events
      /\ \A e \in Pool(p, m) : /\ p.rows[e] # NoRow
                               /\ p.rows[e].outstanding > EPS \/ p.rows[e].status = "paid"
  BY EngineAssumption DEF Pool
<1>4. sniped \subseteq Pool(p, m) /\ queue \subseteq Pool(p, m)
  BY DEF Sniper, Fifo
<1>13. \A e \in linked : MayMatch(rows, p, m, e)
  BY DEF Linked, MayMatch
<1>14. ASSUME NEW e \in Pool(p, m) PROVE MayMatch(rows, p, m, e)
  <2> SUFFICES ASSUME PaidIn(rows, e) PROVE e \notin p.used
    BY DEF MayMatch
  <2>1. e \in Events
    BY <1>3
  <2>2. p.rows[e] = rows[e] /\ SettledRow(rows[e])
    BY <2>1 DEF PlanState, PaidIn, SettledRows
  <2>3. ~(p.rows[e].outstanding > EPS)
    BY <1>1, <1>3, <2>1, <2>2 DEF SettledRow, PaidIn, CashEventRow, EPS
  <2> QED  BY <2>3 DEF Pool
<1>5. ASSUME NEW S \in SUBSET Events, S # {},
             \A e \in S : /\ p.rows[e] # NoRow
                          /\ p.rows[e].outstanding > EPS \/ p.rows[e].status = "paid"
      PROVE  /\ First(S) \in Events /\ p.rows[First(S)] # NoRow
             /\ MatchAmount(p.rows[First(S)]) \in Nat \ {0}
  <2>1. First(S) \in S
    BY <1>5, FirstFits
  <2> QED  BY <1>1, <1>5, <2>1, MatchIsPositive
<1>6. MaxNet \in Nat /\ MaxAmount \in Nat /\ MaxNet = MaxAmount + 1
  BY AmountAssumption DEF MaxNet, EPS
<1>12. p \in PlanAfter(rows, p, m, cash)
  BY DEF PlanAfter, Adds
<1>7. CASE cash <= EPS
  BY <1>7, <1>12 DEF PlanMovement
<1>8. CASE ~(cash <= EPS) /\ linked # {}
  <2> DEFINE e == First(linked)
             due == MatchAmount(p.rows[e])
  <2>1. e \in Events /\ p.rows[e] # NoRow /\ due \in Nat \ {0}
    BY <1>2, <1>5, <1>8
  <2>4. MayMatch(rows, p, m, e)
    <3> HIDE DEF linked
    <3> QED  BY <1>2, <1>8, <1>13, FirstFits
  <2>2. PlanMovement(p, m, cash) = Matched(p, m, e, due, LinkedNet(due, cash))
    BY <1>8 DEF PlanMovement
  <2> HIDE DEF e, due
  <2>3. LinkedNet(due, cash) \in 1..MaxNet /\ LinkedNet(due, cash) <= cash + EPS
    BY <1>6, <1>8, <2>1 DEF LinkedNet, EPS
  <2> QED  BY <2>1, <2>2, <2>3, <2>4, MatchedIsPlan
<1>9. CASE ~(cash <= EPS) /\ linked = {} /\ sniped # {}
  <2> DEFINE e == First(sniped)
             due == MatchAmount(p.rows[e])
  <2>1. e \in Events /\ p.rows[e] # NoRow /\ due \in Nat \ {0}
    <3> HIDE DEF sniped
    <3>1. sniped \in SUBSET Events /\ sniped # {}
      BY <1>3, <1>4, <1>9
    <3>2. \A f \in sniped : /\ p.rows[f] # NoRow
                            /\ p.rows[f].outstanding > EPS \/ p.rows[f].status = "paid"
      BY <1>3, <1>4
    <3> QED  BY <1>5, <3>1, <3>2
  <2>4. MayMatch(rows, p, m, e)
    <3> HIDE DEF sniped
    <3>1. First(sniped) \in sniped
      BY <1>3, <1>4, <1>9, FirstFits
    <3> QED  BY <1>4, <1>14, <3>1
  <2>2. PlanMovement(p, m, cash) = Matched(p, m, e, due, cash)
    BY <1>9 DEF PlanMovement
  <2> HIDE DEF e, due
  <2>3. cash \in 1..MaxNet /\ cash <= cash + EPS
    BY <1>6, <1>9 DEF EPS
  <2> QED  BY <2>1, <2>2, <2>3, <2>4, MatchedIsPlan
<1>10. CASE ~(cash <= EPS) /\ linked = {} /\ sniped = {} /\ queue # {}
  <2> DEFINE e == First(queue)
             due == MatchAmount(p.rows[e])
             gross == FifoGross(due, cash)
  <2>1. e \in Events /\ p.rows[e] # NoRow /\ due \in Nat \ {0}
    <3> HIDE DEF queue
    <3>1. queue \in SUBSET Events /\ queue # {}
      BY <1>3, <1>4, <1>10
    <3>2. \A f \in queue : /\ p.rows[f] # NoRow
                           /\ p.rows[f].outstanding > EPS \/ p.rows[f].status = "paid"
      BY <1>3, <1>4
    <3> QED  BY <1>5, <3>1, <3>2
  <2>4. MayMatch(rows, p, m, e)
    <3> HIDE DEF queue
    <3>1. First(queue) \in queue
      BY <1>3, <1>4, <1>10, FirstFits
    <3> QED  BY <1>4, <1>14, <3>1
  <2>2. PlanMovement(p, m, cash) = NeedsReview(Matched(p, m, e, gross, gross), cash - gross)
    BY <1>10 DEF PlanMovement
  <2> HIDE DEF e, due
  <2>3. gross \in 1..MaxNet /\ gross \in Nat \ {0} /\ gross <= cash + EPS
    BY <1>6, <1>10, <2>1 DEF FifoGross, EPS
  <2> HIDE DEF gross
  <2> QED  BY <2>1, <2>2, <2>3, <2>4, MatchedIsPlan, ReviewIsPlan
<1>11. CASE ~(cash <= EPS) /\ linked = {} /\ sniped = {} /\ queue = {}
  <2>1. PlanMovement(p, m, cash) = NeedsReview(p, cash)
    BY <1>11 DEF PlanMovement
  <2> QED  BY <1>12, <2>1, ReviewIsPlan
<1> QED  BY <1>7, <1>8, <1>9, <1>10, <1>11

\* Each movement has at most one line, within its cash up to the tolerance.
LinesWithin(lines, cash) ==
    /\ \A k \in DOMAIN lines : lines[k].net <= cash[lines[k].movement] + EPS
    /\ \A j, k \in DOMAIN lines : lines[j].movement = lines[k].movement => j = k

\* The same, with lines for the first n movements only.
PaidUpTo(lines, cash, n) ==
    /\ LinesWithin(lines, cash)
    /\ \A k \in DOMAIN lines : \E j \in 1..n : lines[k].movement = MovementOrder[j]

\* The line of the next movement is no second line of an earlier one.
LEMMA NextIsPaid ==
    ASSUME NEW lines \in Seq(Line), NEW more, NEW cash, NEW n \in DOMAIN MovementOrder,
           PaidUpTo(lines, cash, n - 1),
           Adds(lines, more, MovementOrder[n], cash[MovementOrder[n]])
    PROVE  PaidUpTo(more, cash, n)
<1> DEFINE L == Len(lines)
<1>1. /\ L \in Nat /\ DOMAIN lines = 1..L /\ n \in Nat /\ n >= 1
      /\ \A j \in 1..(n - 1) : j \in 1..n /\ j \in DOMAIN MovementOrder /\ j # n
  BY EngineAssumption
<1>2. \A k \in DOMAIN lines : lines[k].movement # MovementOrder[n]
  <2>1. \A j \in 1..(n - 1) : MovementOrder[j] # MovementOrder[n]
    BY <1>1, EngineAssumption
  <2> QED  BY <2>1 DEF PaidUpTo
<1>3. CASE more = lines
  BY <1>1, <1>3 DEF PaidUpTo
<1>4. ASSUME NEW line \in Line, more = Append(lines, line), line.movement = MovementOrder[n],
             line.net <= cash[MovementOrder[n]] + EPS
      PROVE  PaidUpTo(more, cash, n)
  <2>1. /\ DOMAIN more = 1..(L + 1) /\ more[L + 1] = line
        /\ \A k \in 1..L : more[k] = lines[k]
    BY <1>4
  <2>2. /\ \A k \in DOMAIN more : k = L + 1 \/ k \in 1..L
        /\ L + 1 \notin 1..L /\ n \in 1..n
    BY <1>1, <2>1
  <2> HIDE DEF L
  <2>3. ASSUME NEW k \in DOMAIN more
        PROVE  /\ more[k].net <= cash[more[k].movement] + EPS
               /\ \E j \in 1..n : more[k].movement = MovementOrder[j]
    <3>1. CASE k = L + 1
      BY <1>4, <2>1, <2>2, <3>1
    <3>2. CASE k \in 1..L
      <4>1. more[k] = lines[k] /\ k \in DOMAIN lines
        BY <1>1, <2>1, <3>2
      <4>2. /\ lines[k].net <= cash[lines[k].movement] + EPS
            /\ \E j \in 1..(n - 1) : lines[k].movement = MovementOrder[j]
        BY <4>1 DEF PaidUpTo, LinesWithin
      <4> QED  BY <1>1, <4>1, <4>2
    <3> QED  BY <2>2, <3>1, <3>2
  <2>4. ASSUME NEW j \in DOMAIN more, NEW k \in DOMAIN more, more[j].movement = more[k].movement
        PROVE  j = k
    <3>1. \A i \in 1..L : more[i].movement # MovementOrder[n]
      BY <1>1, <1>2, <2>1
    <3>2. more[L + 1].movement = MovementOrder[n]
      BY <1>4, <2>1
    <3>3. CASE j \in 1..L /\ k \in 1..L
      BY <1>1, <2>1, <2>4, <3>3 DEF PaidUpTo, LinesWithin
    <3> QED  BY <2>2, <2>4, <3>1, <3>2, <3>3
  <2> QED  BY <2>3, <2>4 DEF PaidUpTo, LinesWithin
<1> QED  BY <1>3, <1>4 DEF Adds

\* The plan of all movements, whatever the events, the movements and their
\* number: each line pays an event that is there, an event that was paid is
\* matched once or else by a tag, each movement has one line at most, which
\* gives no more than its available cash, up to a cent.
THEOREM PlanIsPlan ==
    ASSUME NEW rows \in Rows, SettledRows(rows), NEW cash \in [Movements -> Int],
           \A m \in Movements : cash[m] <= MaxAmount
    PROVE  PlanOf(rows, cash) \in PlanState(rows) /\ LinesWithin(PlanOf(rows, cash).lines, cash)
<1> DEFINE N == Len(MovementOrder)
           b == [rows |-> rows, used |-> {}, lines |-> <<>>, review |-> FALSE]
           S == PlanState(rows)
           at(k, p) == PlanMovement(p, MovementOrder[k], cash[MovementOrder[k]])
           step == [k \in 1..N |-> [p \in S |-> at(k, p)]]
           IsPlan(f) == f = [k \in 0..N |-> IF k = 0 THEN b ELSE at(k, f[k - 1])]
           plan == CHOOSE f : IsPlan(f)
<1>1. N \in Nat /\ \A k \in 1..N : MovementOrder[k] \in Movements
  BY EngineAssumption
<1>2. b \in S
  BY DEF PlanState, OnceOrTagged
<1>3. PlanOf(rows, cash) = plan[N]
  BY DEF PlanOf
<1>4. ASSUME NEW k \in 1..N, NEW p \in S PROVE at(k, p) \in S
  BY <1>1, PlanMovementIsPlan DEF PlanAfter
<1> HIDE DEF N, b, S, at
<1>5. step \in [1..N -> [S -> S]]
  BY <1>4
<1>6. PICK f \in [0..N -> S] : Follows(f, N, b, step)
  <2> HIDE DEF step
  <2> QED  BY <1>1, <1>2, <1>5, RecursionExists
<1>7. ASSUME NEW k \in 0..N PROVE f[k] = IF k = 0 THEN b ELSE at(k, f[k - 1])
  <2>1. CASE k = 0
    BY <1>6, <2>1 DEF Follows
  <2>2. CASE k # 0
    <3>1. k \in 1..N /\ k - 1 \in 0..N
      BY <1>1, <2>2
    <3>2. step[k][f[k - 1]] = at(k, f[k - 1])
      BY <1>6, <3>1
    <3> HIDE DEF step
    <3> QED  BY <1>6, <2>2, <3>1, <3>2 DEF Follows
  <2> QED  BY <2>1, <2>2
<1>8. IsPlan(f)
  <2> DEFINE e(k) == IF k = 0 THEN b ELSE at(k, f[k - 1])
  <2>1. \A k \in 0..N : f[k] = e(k)
    BY <1>7
  <2> HIDE DEF e
  <2>2. f = [k \in 0..N |-> e(k)]
    BY <2>1
  <2> QED  BY <2>2 DEF e
<1>9. IsPlan(plan)
  <2> HIDE DEF IsPlan
  <2> QED  BY <1>8
<1> HIDE DEF plan
<1>10. \A k \in 0..N : plan[k] = IF k = 0 THEN b ELSE at(k, plan[k - 1])
  <2> DEFINE e(k) == IF k = 0 THEN b ELSE at(k, plan[k - 1])
  <2>1. plan = [k \in 0..N |-> e(k)]
    BY <1>9
  <2> HIDE DEF e
  <2>2. \A k \in 0..N : plan[k] = e(k)
    BY <2>1
  <2> QED  BY <2>2 DEF e
<1>11. plan[0] \in S /\ \A k \in 1..N : plan[k - 1] \in S => plan[k] \in S
  <2>1. 0 \in 0..N /\ \A k \in 1..N : k \in 0..N /\ k # 0
    BY <1>1
  <2> QED  BY <1>2, <1>4, <1>10, <2>1
<1>12. \A k \in 0..N : plan[k] \in S
  BY <1>1, <1>11, StepsStayIn
<1> DEFINE P == {k \in Nat : k <= N => PaidUpTo(plan[k].lines, cash, k)}
<1>13. 0 \in P
  <2>1. plan[0] = b
    BY <1>1, <1>10
  <2>2. plan[0].lines = <<>>
    BY <2>1 DEF b
  <2> QED  BY <2>2 DEF PaidUpTo, LinesWithin
<1>14. ASSUME NEW k \in Nat, k \in P PROVE k + 1 \in P
  <2> SUFFICES ASSUME k + 1 <= N PROVE PaidUpTo(plan[k + 1].lines, cash, k + 1)
    OBVIOUS
  <2>1. /\ k + 1 \in 1..N /\ k + 1 \in 0..N /\ k \in 0..N /\ k + 1 # 0 /\ (k + 1) - 1 = k
        /\ k <= N
    BY <1>1
  <2>2. PaidUpTo(plan[k].lines, cash, k)
    BY <1>14, <2>1
  <2>3. plan[k] \in PlanState(rows) /\ plan[k].lines \in Seq(Line)
    BY <1>12, <2>1 DEF S, PlanState
  <2> DEFINE m == MovementOrder[k + 1]
  <2>4. plan[k + 1] = PlanMovement(plan[k], m, cash[m])
    <3>1. plan[k + 1] = at(k + 1, plan[k])
      BY <1>10, <2>1
    <3> QED  BY <3>1 DEF at
  <2>5. m \in Movements /\ cash[m] \in Int /\ cash[m] <= MaxAmount
    BY <1>1, <2>1
  <2>6. plan[k + 1] \in PlanAfter(rows, plan[k], m, cash[m])
    <3> HIDE DEF m
    <3> QED  BY <2>3, <2>4, <2>5, PlanMovementIsPlan
  <2>7. Adds(plan[k].lines, plan[k + 1].lines, m, cash[m])
    BY <2>6 DEF PlanAfter
  <2>8. k + 1 \in DOMAIN MovementOrder
    BY <2>1, EngineAssumption DEF N
  <2> DEFINE n == k + 1
             lines == plan[k].lines
             more == plan[k + 1].lines
  <2>9. /\ n \in DOMAIN MovementOrder /\ lines \in Seq(Line)
        /\ PaidUpTo(lines, cash, n - 1)
        /\ Adds(lines, more, MovementOrder[n], cash[MovementOrder[n]])
    BY <2>1, <2>2, <2>3, <2>7, <2>8
  <2> HIDE DEF n, lines, more, m, P
  <2>10. PaidUpTo(more, cash, n)
    BY <2>9, NextIsPaid
  <2> QED  BY <2>10 DEF n, more
<1> HIDE DEF P
<1>15. Nat \subseteq P
  BY <1>13, <1>14, SetInduction
<1>16. PaidUpTo(plan[N].lines, cash, N)
  BY <1>1, <1>15 DEF P
<1> QED  BY <1>1, <1>3, <1>12, <1>16 DEF S, PaidUpTo

----------------------------------------------------------------------------
(* The replay of a plan.                                                   *)

\* What taking lines off the given rows can make of them: an event that exists
\* has a consistent row with no larger balance, one that does not stays away.
TakenFrom(rows) ==
    {after \in Rows : \A e \in Events :
        IF rows[e] = NoRow THEN after[e] = NoRow
        ELSE /\ after[e] # NoRow
             /\ SettledRow(after[e])
             /\ after[e].outstanding <= rows[e].outstanding}

LEMMA LineIsTaken ==
    ASSUME NEW rows \in Rows, NEW after \in TakenFrom(rows), NEW line \in Line,
           rows[line.event] # NoRow
    PROVE  [after EXCEPT ![line.event] = TakenOff(@, line.gross)] \in TakenFrom(rows)
<1> DEFINE e == line.event
           row == TakenOff(after[e], line.gross)
           next == [after EXCEPT ![e] = row]
<1>1. e \in Events /\ line.gross \in Nat
  BY DEF Line
<1>2. after \in Rows
  BY DEF TakenFrom
<1>3. /\ after[e] # NoRow /\ after[e].outstanding <= rows[e].outstanding
      /\ after[e] \in CashEventRow(Amounts) /\ rows[e] \in CashEventRow(Amounts)
  BY <1>1, <1>2 DEF TakenFrom, Rows
<1>4. /\ row \in CashEventRow(Amounts) /\ SettledRow(row)
      /\ row.outstanding <= after[e].outstanding
  BY <1>1, <1>3, TakenOffSettles
<1>5. row # NoRow
  BY <1>4, IdAssumption
<1>6. row.outstanding <= rows[e].outstanding
  <2>1. /\ row.outstanding \in Nat /\ after[e].outstanding \in Nat
        /\ rows[e].outstanding \in Nat
    BY <1>3, <1>4 DEF CashEventRow
  <2> QED  BY <1>3, <1>4, <2>1
<1> HIDE DEF row, e
<1>7. next \in Rows /\ \A f \in Events : next[f] = IF f = e THEN row ELSE after[f]
  BY <1>1, <1>2, <1>4 DEF Rows
<1> HIDE DEF next
<1>8. next \in TakenFrom(rows)
  BY <1>1, <1>4, <1>5, <1>6, <1>7 DEF TakenFrom, e
<1> QED  BY <1>8 DEF next, row, e

\* Replaying a plan on rows that have what it pays: whatever the rows have
\* become since the plan was made, balances only fall and rows stay consistent.
LEMMA ReplayIsTaken ==
    ASSUME NEW rows \in Rows, NEW lines \in Seq(Line),
           \A e \in Events : rows[e] # NoRow => SettledRow(rows[e]),
           \A k \in DOMAIN lines : rows[lines[k].event] # NoRow
    PROVE  Replayed(rows, lines) \in TakenFrom(rows)
<1> DEFINE N == Len(lines)
           S == TakenFrom(rows)
           at(k, p) == [p EXCEPT ![lines[k].event] = TakenOff(@, lines[k].gross)]
           step == [k \in 1..N |-> [p \in S |-> at(k, p)]]
           IsReplay(f) == f = [k \in 0..N |-> IF k = 0 THEN rows ELSE at(k, f[k - 1])]
           replay == CHOOSE f : IsReplay(f)
<1>1. N \in Nat /\ \A k \in 1..N : lines[k] \in Line /\ rows[lines[k].event] # NoRow
  OBVIOUS
<1>2. rows \in S
  <2>1. \A e \in Events : rows[e] # NoRow => rows[e].outstanding \in Nat
    BY DEF Rows, CashEventRow
  <2>2. \A e \in Events : rows[e] # NoRow => rows[e].outstanding <= rows[e].outstanding
    BY <2>1
  <2> QED  BY <2>2 DEF TakenFrom
<1>3. Replayed(rows, lines) = replay[N]
  BY DEF Replayed
<1>4. ASSUME NEW k \in 1..N, NEW p \in S PROVE at(k, p) \in S
  BY <1>1, LineIsTaken
<1> HIDE DEF N, S, at
<1>5. step \in [1..N -> [S -> S]]
  BY <1>4
<1>6. PICK f \in [0..N -> S] : Follows(f, N, rows, step)
  <2> HIDE DEF step
  <2> QED  BY <1>1, <1>2, <1>5, RecursionExists
<1>7. ASSUME NEW k \in 0..N PROVE f[k] = IF k = 0 THEN rows ELSE at(k, f[k - 1])
  <2>1. CASE k = 0
    BY <1>6, <2>1 DEF Follows
  <2>2. CASE k # 0
    <3>1. k \in 1..N /\ k - 1 \in 0..N
      BY <1>1, <2>2
    <3>2. step[k][f[k - 1]] = at(k, f[k - 1])
      BY <1>6, <3>1
    <3> HIDE DEF step
    <3> QED  BY <1>6, <2>2, <3>1, <3>2 DEF Follows
  <2> QED  BY <2>1, <2>2
<1>8. IsReplay(f)
  <2> DEFINE e(k) == IF k = 0 THEN rows ELSE at(k, f[k - 1])
  <2>1. \A k \in 0..N : f[k] = e(k)
    BY <1>7
  <2> HIDE DEF e
  <2>2. f = [k \in 0..N |-> e(k)]
    BY <2>1
  <2> QED  BY <2>2 DEF e
<1>9. IsReplay(replay)
  <2> HIDE DEF IsReplay
  <2> QED  BY <1>8
<1> HIDE DEF replay
<1>10. \A k \in 0..N : replay[k] = IF k = 0 THEN rows ELSE at(k, replay[k - 1])
  <2> DEFINE e(k) == IF k = 0 THEN rows ELSE at(k, replay[k - 1])
  <2>1. replay = [k \in 0..N |-> e(k)]
    BY <1>9
  <2> HIDE DEF e
  <2>2. \A k \in 0..N : replay[k] = e(k)
    BY <2>1
  <2> QED  BY <2>2 DEF e
<1>11. replay[0] \in S /\ \A k \in 1..N : replay[k - 1] \in S => replay[k] \in S
  <2>1. 0 \in 0..N /\ \A k \in 1..N : k \in 0..N /\ k # 0
    BY <1>1
  <2> QED  BY <1>2, <1>4, <1>10, <2>1
<1>12. \A k \in 0..N : replay[k] \in S
  BY <1>1, <1>11, StepsStayIn
<1> QED  BY <1>1, <1>3, <1>12 DEF S

----------------------------------------------------------------------------
(* A step of the ledger.                                                   *)

\* Only an unmatch and the orphan cleanup touch attributions, and they only
\* delete them.
LEMMA LedgerOnlyDeletes ==
    ASSUME Inv, Next
    PROVE  \A a \in AttrIds : attributions'[a] \in {attributions[a], NoRow}
<1>1. attributions \in [AttrIds -> Attribution \cup {NoRow}]
  BY DEF Inv, TypeOK
<1>2. CASE UNCHANGED attributions
  BY <1>2
<1>3. ASSUME NEW r \in Requests, UnmatchCommit(r)
      PROVE  \A a \in AttrIds : attributions'[a] \in {attributions[a], NoRow}
  <2>1. attributions' = [attributions EXCEPT ![inflight[r].attr] = NoRow]
    BY <1>3 DEF UnmatchCommit
  <2> QED  BY <1>1, <2>1
<1>4. ASSUME NEW r \in Requests, SyncDeleteOrphans(r)
      PROVE  \A a \in AttrIds : attributions'[a] \in {attributions[a], NoRow}
  BY <1>4 DEF SyncDeleteOrphans
<1>5. ASSUME NEW r \in Requests, Begin(r) \/ Fail(r) PROVE UNCHANGED attributions
  BY <1>5 DEF Begin, Fail, PatchSelect, DeleteRead, UnmatchRead, MarkPaidRead, MarkUnpaidRead,
              SyncStart
<1>6. ASSUME NEW x \in MatchIds, NEW m \in Movements, NEW e \in Events,
             CreateMatch(x, m, e)
      PROVE UNCHANGED attributions
  BY <1>6 DEF CreateMatch
<1>8. RebuildMovements => UNCHANGED attributions
  BY DEF RebuildMovements
<1>7. ASSUME NEW r \in Requests, Proceed(r), ~UnmatchCommit(r), ~SyncDeleteOrphans(r)
      PROVE UNCHANGED attributions
  BY <1>7 DEF Proceed, PatchCommit, DeleteCommit, UnmatchDelete, UnmatchSum, MarkPaidCommit,
              MarkUnpaidCommit, SyncUpsert, SyncUpsertsDone, SyncStaleAr, SyncStaleAp
<1> QED  BY <1>2, <1>3, <1>4, <1>5, <1>6, <1>7, <1>8 DEF Next

\* No request makes an event's row disappear.
LEMMA EventsStay ==
    ASSUME Inv, Next, NEW e \in Events, Exists(e)
    PROVE  Exists(e)'
<1>1. /\ events \in [Events -> CashEventRow(Amounts) \cup {NoRow}]
      /\ inflight \in [Requests -> Request]
  BY DEF Inv, TypeOK
<1>2. \A row \in CashEventRow(Amounts) : row # NoRow
  BY IdAssumption
<1>3. CASE UNCHANGED events
  BY <1>3 DEF Exists
<1>4. ASSUME NEW r \in Requests, PatchCommit(r) \/ DeleteCommit(r)
      PROVE  Exists(e)'
  <2> PICK x \in MatchIds : x = inflight[r].match /\ matches[x] # NoRow
    BY <1>4, RequestFields DEF Inv, TypeOK, ReferencesExist, PatchCommit, DeleteCommit
  <2>1. CASE UNCHANGED events
    BY <2>1 DEF Exists
  <2>2. matches[x].matched \in Int /\ -matches[x].matched \in Int
    BY AmountAssumption DEF Inv, TypeOK, Match
  <2>3. ASSUME ~UNCHANGED events
        PROVE  \/ SyncInvoiceStatusFromMatch(x, matches[x].matched, TRUE)
               \/ SyncInvoiceStatusFromMatch(x, -matches[x].matched, FALSE)
    BY <1>4, <2>3 DEF PatchCommit, DeleteCommit
  <2>4. CASE SyncInvoiceStatusFromMatch(x, matches[x].matched, TRUE)
    BY <2>2, <2>4, SyncInvoiceStep
  <2>5. CASE SyncInvoiceStatusFromMatch(x, -matches[x].matched, FALSE)
    BY <2>2, <2>5, SyncInvoiceStep
  <2> QED  BY <2>1, <2>3, <2>4, <2>5
<1>5. ASSUME NEW r \in Requests, UnmatchCommit(r) \/ MarkPaidCommit(r) \/ MarkUnpaidCommit(r)
      PROVE  Exists(e)'
  <2> PICK q \in Request : q = inflight[r]
    BY <1>1
  <2> DEFINE unmatched == UnmatchedRow(events[e], q.amount, q.matched)
             unpaid == MarkedUnpaid(events[e], q.amount)
             paid == ManuallyPaid(events[e])
  <2>1. events[e] \in CashEventRow(Amounts) /\ \E amount \in Amounts : TRUE
    BY RowOf DEF CashEventRow
  <2>2. /\ UnmatchCommit(r) => unmatched # NoRow
        /\ MarkUnpaidCommit(r) => unpaid # NoRow
        /\ paid # NoRow
    <3>1. UnmatchCommit(r) => q.amount \in Amounts /\ q.matched \in Nat
      BY RequestFields DEF UnmatchCommit
    <3>2. MarkUnpaidCommit(r) => q.amount \in Amounts
      BY RequestFields DEF MarkUnpaidCommit
    <3> QED  BY <1>2, <2>1, <3>1, <3>2, UnmatchedRowIsSettled, MarkedRowsAreSettled
  <2>3. \/ events'[e] = events[e]
        \/ UnmatchCommit(r) /\ events'[e] = unmatched
        \/ MarkUnpaidCommit(r) /\ events'[e] = unpaid
        \/ events'[e] = paid
    BY <1>1, <1>5 DEF UnmatchCommit, MarkPaidCommit, MarkUnpaidCommit
  <2> HIDE DEF unmatched, unpaid, paid
  <2> QED  BY <2>2, <2>3 DEF Exists
<1>6. ASSUME NEW r \in Requests, NEW f \in Events, SyncUpsert(r, f)
      PROVE  Exists(e)'
  <2> PICK q \in Request : q = inflight[r]
    BY <1>1
  <2>1. q.op = "syncUpsert" /\ q.feed \in Feed /\ f \in q.todo
    BY <1>6, RequestFields DEF SyncUpsert
  <2>2. q.todo \subseteq DOMAIN q.feed
    BY <2>1 DEF Inv, ReferencesExist
  <2>3. q.feed[f] \in Due
    BY <2>1, <2>2, FeedFields
  <2>4. events' = [events EXCEPT ![f] = UpsertedRow(f, q.feed[f])]
    BY <1>6 DEF SyncUpsert
  <2>5. UpsertedRow(f, q.feed[f]) # NoRow
    BY <1>2, <2>3, UpsertedRowFacts
  <2> QED  BY <1>1, <2>4, <2>5 DEF Exists
<1>7. ASSUME NEW r \in Requests, SyncStaleAr(r) \/ SyncStaleAp(r)
      PROVE  Exists(e)'
  <2>1. \E kind, feed : MarkStale(kind, feed)
    BY <1>7 DEF SyncStaleAr, SyncStaleAp
  <2> QED  BY <2>1, MarkStaleFacts
<1>8. ASSUME NEW r \in Requests, Begin(r) \/ Fail(r) PROVE UNCHANGED events
  BY <1>8 DEF Begin, Fail, PatchSelect, DeleteRead, UnmatchRead, MarkPaidRead, MarkUnpaidRead,
              SyncStart
<1>9. ASSUME NEW x \in MatchIds, NEW m \in Movements, NEW f \in Events, CreateMatch(x, m, f)
      PROVE UNCHANGED events
  BY <1>9 DEF CreateMatch
<1>12. RebuildMovements => UNCHANGED events
  BY DEF RebuildMovements
<1>10. ASSUME NEW r \in Requests,
              UnmatchDelete(r) \/ UnmatchSum(r) \/ SyncUpsertsDone(r) \/ SyncDeleteOrphans(r)
       PROVE UNCHANGED events
  BY <1>10 DEF UnmatchDelete, UnmatchSum, SyncUpsertsDone, SyncDeleteOrphans
<1>11. ASSUME NEW r \in Requests, Proceed(r)
       PROVE  Exists(e)'
  BY <1>3, <1>4, <1>5, <1>6, <1>7, <1>10, <1>11 DEF Proceed
<1> QED  BY <1>3, <1>8, <1>9, <1>11, <1>12 DEF Next

----------------------------------------------------------------------------
(* The inductive invariant: that of the ledger and what an engine holds.   *)

\* What an engine can be: it has a snapshot, or a plan for events that it read.
Originals == UNION {[read -> CashEventRow(Amounts)] : read \in SUBSET Events}
Engine ==
    {Idle}
    \cup [op : {"snapshot"}, rows : Rows]
    \cup [op : {"planned"}, lines : Seq(Line), original : Originals]
    \cup [op : {"clearing"}, lines : Seq(Line), original : Originals, targets : SUBSET AttrIds]
    \cup [op : {"cleared"}, lines : Seq(Line), original : Originals, gone : SUBSET AttrIds]

\* An event that was paid when it was read is matched once, or else by a tag.
HistoricalLines(lines, original) ==
    \A j, k \in DOMAIN lines :
        j < k /\ lines[j].event = lines[k].event /\ original[lines[k].event].status = "paid"
          => DirectLink[lines[k].movement] = lines[k].event

\* What an engine has read exists, settled, and it has read what its plan pays.
ReadExists(t) ==
    /\ t.op = "snapshot" =>
         /\ \A e \in Events : t.rows[e] # NoRow => Exists(e)
         /\ SettledRows(t.rows)
    /\ t.op \in WithPlan =>
         /\ \A e \in DOMAIN t.original : Exists(e)
         /\ \A k \in DOMAIN t.lines : t.lines[k].event \in DOMAIN t.original
         /\ HistoricalLines(t.lines, t.original)

\* The movement of every attribution is known.
MovementKnown ==
    /\ movementOf \in [AttrIds -> Movements \cup {NoRow}]
    /\ \A a \in AttrIds : Live(a) <=> movementOf[a] # NoRow

EngineInv ==
    /\ MovementKnown
    /\ engines \in [Engines -> Engine]
    /\ \A w \in Engines : ReadExists(engines[w])

EInv == Inv /\ EngineInv

LEMMA EngineFields ==
    ASSUME NEW t \in Engine
    PROVE  /\ t.op \in {"idle", "snapshot"} \cup WithPlan
           /\ t.op = "snapshot" => t.rows \in Rows
           /\ t.op \in WithPlan => t.lines \in Seq(Line) /\ t.original \in Originals
           /\ t.op = "clearing" => t.targets \in SUBSET AttrIds
BY DEF Engine, Idle, WithPlan

LEMMA OriginalFields ==
    ASSUME NEW original \in Originals
    PROVE  /\ DOMAIN original \subseteq Events
           /\ \A e \in DOMAIN original : original[e] \in CashEventRow(Amounts)
<1>1. PICK read \in SUBSET Events : original \in [read -> CashEventRow(Amounts)]
  BY DEF Originals
<1> QED  BY <1>1

\* What an engine has read still exists after a step that deletes no event.
LEMMA ReadStaysThere ==
    ASSUME NEW t \in Engine, ReadExists(t), \A e \in Events : Exists(e) => events'[e] # NoRow
    PROVE  /\ t.op = "snapshot" => \A e \in Events : t.rows[e] # NoRow => events'[e] # NoRow
           /\ t.op \in WithPlan =>
                /\ \A e \in DOMAIN t.original : events'[e] # NoRow
                /\ \A k \in DOMAIN t.lines : t.lines[k].event \in DOMAIN t.original
<1>1. t.op \in WithPlan => DOMAIN t.original \subseteq Events
  BY EngineFields, OriginalFields
<1> QED  BY <1>1 DEF ReadExists

\* A step in which engine w moves on, while no event disappears.
LEMMA MoveEngine ==
    ASSUME EngineInv, NEW w \in Engines, NEW t \in Engine,
           engines' = [engines EXCEPT ![w] = t],
           \A e \in Events : Exists(e) => events'[e] # NoRow,
           ReadExists(t)
    PROVE  engines' \in [Engines -> Engine] /\ \A v \in Engines : ReadExists(engines[v])'
<1>1. engines \in [Engines -> Engine]
  BY DEF EngineInv
<1>2. engines' \in [Engines -> Engine]
  BY <1>1
<1>3. ASSUME NEW v \in Engines PROVE ReadExists(engines[v])'
  <2>1. CASE v = w
    <3>1. engines'[v] = t
      BY <1>1, <2>1
    <3> QED  BY <3>1, ReadStaysThere DEF ReadExists, Exists
  <2>2. CASE v # w
    <3>1. engines'[v] = engines[v] /\ engines[v] \in Engine /\ ReadExists(engines[v])
      BY <1>1, <2>2 DEF EngineInv
    <3> QED  BY <3>1, ReadStaysThere DEF ReadExists, Exists
  <2> QED  BY <2>1, <2>2
<1> QED  BY <1>2, <1>3

\* A step in which an engine moves on and nothing else changes.
LEMMA OnlyEngineMoves ==
    ASSUME EInv, NEW w \in Engines, NEW t \in Engine,
           engines' = [engines EXCEPT ![w] = t], ReadExists(t), audit' = {},
           UNCHANGED <<events, attributions, matches, inflight, overwritten, movementOf>>
    PROVE  EInv'
<1>1. Inv'
  BY DEF EInv, Inv, TypeOK, ReferencesExist, PaidIffSettled, Live, Exists
<1>2. \A e \in Events : Exists(e) => events'[e] # NoRow
  BY DEF Exists
<1>3. EngineInv
  BY DEF EInv
<1>4. engines' \in [Engines -> Engine] /\ \A v \in Engines : ReadExists(engines[v])'
  BY <1>2, <1>3, MoveEngine
<1>5. MovementKnown'
  BY <1>3 DEF EngineInv, MovementKnown, Live
<1> QED  BY <1>1, <1>4, <1>5 DEF EInv, EngineInv

LEMMA EngineInitInv == EngineInit => EInv
<1> SUFFICES ASSUME EngineInit PROVE EInv
  OBVIOUS
<1>1. Inv
  BY InitInv DEF EngineInit
<1>2. MovementKnown
  BY DEF EngineInit, MovementKnown, Live
<1>3. Idle \in Engine /\ ReadExists(Idle)
  BY DEF Engine, ReadExists, Idle, WithPlan
<1>4. engines \in [Engines -> Engine] /\ \A w \in Engines : ReadExists(engines[w])
  BY <1>3 DEF EngineInit
<1> QED  BY <1>1, <1>2, <1>4 DEF EInv, EngineInv

LEMMA LedgerStepInv ==
    ASSUME EInv, LedgerStep
    PROVE  EInv'
<1>1. Inv /\ Next /\ UNCHANGED engines /\ EngineInv
  BY DEF EInv, LedgerStep, Alongside
<1>2. Inv'
  BY <1>1, NextInv
<1>3. \A e \in Events : Exists(e) => events'[e] # NoRow
  BY <1>1, EventsStay DEF Exists
<1>4. \A a \in AttrIds : attributions'[a] \in {attributions[a], NoRow}
  BY <1>1, LedgerOnlyDeletes
<1>5. MovementKnown'
  <2>1. movementOf' = [a \in AttrIds |-> IF attributions'[a] = NoRow THEN NoRow ELSE movementOf[a]]
    BY DEF LedgerStep, Alongside
  <2>2. MovementKnown
    BY <1>1 DEF EngineInv
  <2> QED  BY <1>4, <2>1, <2>2 DEF MovementKnown, Live
<1>6. ASSUME NEW w \in Engines PROVE engines[w] \in Engine /\ ReadExists(engines[w])'
  <2>1. engines[w] \in Engine /\ ReadExists(engines[w]) /\ engines'[w] = engines[w]
    BY <1>1 DEF EngineInv
  <2> QED  BY <1>3, <2>1, ReadStaysThere DEF ReadExists, Exists
<1>7. engines' \in [Engines -> Engine]
  BY <1>1 DEF EngineInv
<1> QED  BY <1>2, <1>5, <1>6, <1>7 DEF EInv, EngineInv

LEMMA SnapshotInv ==
    ASSUME EInv, NEW w \in Engines, Snapshot(w)
    PROVE  EInv'
<1> DEFINE t == [op |-> "snapshot", rows |-> events]
<1>1. events \in Rows
  BY DEF EInv, Inv, TypeOK, Rows
<1>4. SettledRows(events)
  BY DEF EInv, Inv, PaidIffSettled, SettledRows, SettledRow, Exists
<1>2. t \in Engine /\ ReadExists(t)
  BY <1>1, <1>4 DEF Engine, ReadExists, Exists, WithPlan
<1>3. engines' = [engines EXCEPT ![w] = t]
  BY DEF Snapshot
<1> HIDE DEF t
<1> QED  BY <1>2, <1>3, OnlyEngineMoves DEF Snapshot

\* The available cash of a movement is no more than the movement.
LEMMA AvailableIsBounded ==
    ASSUME NEW m \in Movements
    PROVE  AvailableCash(m) \in Int /\ AvailableCash(m) <= MaxAmount
<1> DEFINE explained == SumOfNet({a \in AttrIds : Live(a) /\ movementOf[a] = m})
<1>1. explained \in Nat
  BY SumOfNetIsNat
<1> HIDE DEF explained
<1>2. CashOf[m] \in 1..MaxAmount /\ MaxAmount \in Nat
  BY AmountAssumption
<1>3. AvailableCash(m) = CashOf[m] - explained
  BY DEF AvailableCash, explained
<1> QED  BY <1>1, <1>2, <1>3

LEMMA PlanInv ==
    ASSUME EInv, NEW w \in Engines, Plan(w)
    PROVE  EInv'
<1> DEFINE rows == engines[w].rows
           cash == [m \in Movements |-> AvailableCash(m)]
           p == PlanOf(rows, cash)
           paid == {p.lines[k].event : k \in DOMAIN p.lines}
           original == [e \in paid |-> rows[e]]
           t == [op |-> "planned", lines |-> p.lines, original |-> original]
<1>1. /\ engines[w] \in Engine /\ engines[w].op = "snapshot"
      /\ ReadExists(engines[w])
  BY DEF EInv, EngineInv, Plan
<1>2. /\ rows \in Rows /\ SettledRows(rows)
      /\ \A e \in Events : rows[e] # NoRow => Exists(e)
  BY <1>1, EngineFields DEF ReadExists
<1>3. engines' = [engines EXCEPT ![w] = IF p.lines = <<>> /\ ~p.review THEN Idle ELSE t]
  BY DEF Plan
<1> HIDE DEF rows
<1>4. cash \in [Movements -> Int] /\ \A m \in Movements : cash[m] <= MaxAmount
  BY AvailableIsBounded
<1> HIDE DEF cash
<1>5. p \in PlanState(rows)
  BY <1>2, <1>4, PlanIsPlan
<1> HIDE DEF p
<1>6. p.lines \in Seq(Line) /\ \A k \in DOMAIN p.lines : rows[p.lines[k].event] # NoRow
  BY <1>5 DEF PlanState
<1>7. \A k \in DOMAIN p.lines : p.lines[k].event \in Events
  <2> DEFINE lines == p.lines
  <2>1. lines \in Seq(Line)
    BY <1>6
  <2> HIDE DEF lines
  <2>2. \A k \in DOMAIN lines : lines[k] \in Line
    BY <2>1
  <2>3. \A k \in DOMAIN lines : lines[k].event \in Events
    BY <2>2 DEF Line
  <2> QED  BY <2>3 DEF lines
<1>8. paid \in SUBSET Events /\ \A e \in paid : rows[e] # NoRow
  BY <1>6, <1>7
<1>9. \A k \in DOMAIN p.lines : p.lines[k].event \in paid
  OBVIOUS
<1> HIDE DEF paid
<1>10. original \in Originals /\ DOMAIN original = paid
  <2>1. original \in [paid -> CashEventRow(Amounts)]
    BY <1>2, <1>8 DEF Rows
  <2> QED  BY <1>8, <2>1 DEF Originals
<1>13. HistoricalLines(p.lines, original)
  <2>1. OnceOrTagged(rows, p.lines)
    BY <1>5 DEF PlanState
  <2>2. ASSUME NEW k \in DOMAIN p.lines, original[p.lines[k].event].status = "paid"
        PROVE  PaidIn(rows, p.lines[k].event)
    <3>1. original[p.lines[k].event] = rows[p.lines[k].event]
      BY <1>9 DEF original
    <3> QED  BY <1>6, <2>2, <3>1 DEF PaidIn
  <2> HIDE DEF original
  <2> QED  BY <2>1, <2>2 DEF OnceOrTagged, HistoricalLines
<1> HIDE DEF original
<1>11. t \in Engine /\ ReadExists(t)
  BY <1>2, <1>6, <1>8, <1>9, <1>10, <1>13 DEF Engine, ReadExists, WithPlan
<1>12. Idle \in Engine /\ ReadExists(Idle)
  BY DEF Engine, ReadExists, Idle, WithPlan
<1> HIDE DEF t
<1> QED  BY <1>3, <1>11, <1>12, OnlyEngineMoves DEF Plan

LEMMA ClearInv ==
    ASSUME EInv, NEW w \in Engines, StartClearing(w) \/ ClearPrevious(w)
    PROVE  EInv'
<1> DEFINE s == engines[w]
           targets == {a \in AttrIds : Live(a)}
           gone == {a \in s.targets : Live(a)}
           clearing == [op |-> "clearing", lines |-> s.lines, original |-> s.original,
                        targets |-> targets]
           cleared == [op |-> "cleared", lines |-> s.lines, original |-> s.original, gone |-> gone]
<1>1. engines \in [Engines -> Engine] /\ s.op \in WithPlan /\ ReadExists(s)
  BY DEF EInv, EngineInv, StartClearing, ClearPrevious, WithPlan
<1>2. s.lines \in Seq(Line) /\ s.original \in Originals
  BY <1>1, EngineFields
<1>3. /\ StartClearing(w) => engines' = [engines EXCEPT ![w] = clearing]
      /\ ClearPrevious(w) => engines' = [engines EXCEPT ![w] = cleared]
  BY <1>1 DEF StartClearing, ClearPrevious
<1>4. /\ targets \in SUBSET AttrIds
      /\ ClearPrevious(w) => gone \in SUBSET AttrIds
  BY <1>1, EngineFields DEF ClearPrevious
<1> HIDE DEF targets, gone
<1>5. clearing \in Engine /\ ReadExists(clearing)
  BY <1>1, <1>2, <1>4 DEF Engine, ReadExists, WithPlan
<1>6. ClearPrevious(w) => cleared \in Engine /\ ReadExists(cleared)
  BY <1>1, <1>2, <1>4 DEF Engine, ReadExists, WithPlan
<1> HIDE DEF clearing, cleared
<1> QED  BY <1>3, <1>5, <1>6, OnlyEngineMoves DEF StartClearing, ClearPrevious

LEMMA EngineFailInv ==
    ASSUME EInv, NEW w \in Engines, EngineFail(w)
    PROVE  EInv'
<1>1. Idle \in Engine /\ ReadExists(Idle)
  BY DEF Engine, ReadExists, Idle, WithPlan
<1> QED  BY <1>1, OnlyEngineMoves DEF EngineFail

----------------------------------------------------------------------------
(* The commit of a run.                                                    *)

\* Every line is stored under an id of its own; of[a] is the line of a, or 0 for
\* an attribution that the run has not stored.
Stores(of, w, lines) ==
    /\ \A a \in AttrIds : of[a] \in DOMAIN lines \cup {0}
    /\ \A a, b \in AttrIds : of[a] # 0 /\ of[a] = of[b] => a = b
    /\ \A a \in AttrIds :
         IF of[a] # 0
         THEN /\ attributions'[a] = [event |-> lines[of[a]].event, net |-> lines[of[a]].net]
              /\ movementOf'[a] = lines[of[a]].movement
         ELSE \/ attributions'[a] = NoRow /\ movementOf'[a] = NoRow
              \/ /\ ~EngineHolds(w, a)
                 /\ attributions'[a] = attributions[a] /\ movementOf'[a] = movementOf[a]

LEMMA LinesAreStored ==
    ASSUME NEW w \in Engines, NEW lines \in Seq(Line), StoreLines(w, lines)
    PROVE  \E of : Stores(of, w, lines)
<1>1. PICK id \in StoredIds(w, lines) :
        /\ attributions' = [a \in AttrIds |->
             IF \E k \in DOMAIN lines : id[k] = a
             THEN LET k == CHOOSE k \in DOMAIN lines : id[k] = a
                  IN  [event |-> lines[k].event, net |-> lines[k].net]
             ELSE IF EngineHolds(w, a) THEN NoRow ELSE attributions[a]]
        /\ movementOf' = [a \in AttrIds |->
             IF \E k \in DOMAIN lines : id[k] = a
             THEN lines[CHOOSE k \in DOMAIN lines : id[k] = a].movement
             ELSE IF EngineHolds(w, a) THEN NoRow ELSE movementOf[a]]
  BY DEF StoreLines
<1> DEFINE stored(a) == \E k \in DOMAIN lines : id[k] = a
           line(a) == CHOOSE k \in DOMAIN lines : id[k] = a
           of == [a \in AttrIds |-> IF stored(a) THEN line(a) ELSE 0]
<1>2. \A k \in DOMAIN lines : k # 0
  OBVIOUS
<1>3. ASSUME NEW a \in AttrIds, stored(a)
      PROVE  /\ line(a) \in DOMAIN lines /\ id[line(a)] = a
             /\ attributions'[a] = [event |-> lines[line(a)].event, net |-> lines[line(a)].net]
             /\ movementOf'[a] = lines[line(a)].movement
  BY <1>1, <1>3
<1>4. ASSUME NEW a \in AttrIds, ~stored(a)
      PROVE  \/ attributions'[a] = NoRow /\ movementOf'[a] = NoRow
             \/ /\ ~EngineHolds(w, a)
                /\ attributions'[a] = attributions[a] /\ movementOf'[a] = movementOf[a]
  BY <1>1, <1>4
<1>5. \A a \in AttrIds : of[a] = IF stored(a) THEN line(a) ELSE 0
  OBVIOUS
<1> HIDE DEF stored, line, of
<1>6. \A a \in AttrIds : of[a] \in DOMAIN lines \cup {0} /\ (of[a] # 0 <=> stored(a))
  BY <1>2, <1>3, <1>5
<1>7. ASSUME NEW a \in AttrIds, NEW b \in AttrIds, of[a] # 0, of[a] = of[b] PROVE a = b
  <2>1. stored(a) /\ stored(b)
    BY <1>6, <1>7
  <2>2. line(a) = line(b)
    BY <1>5, <1>7, <2>1
  <2>3. id[line(a)] = a /\ id[line(b)] = b
    BY <1>3, <2>1
  <2> QED  BY <2>2, <2>3
<1>8. ASSUME NEW a \in AttrIds
      PROVE  IF of[a] # 0
             THEN /\ attributions'[a] = [event |-> lines[of[a]].event, net |-> lines[of[a]].net]
                  /\ movementOf'[a] = lines[of[a]].movement
             ELSE \/ attributions'[a] = NoRow /\ movementOf'[a] = NoRow
                  \/ /\ ~EngineHolds(w, a)
                     /\ attributions'[a] = attributions[a] /\ movementOf'[a] = movementOf[a]
  BY <1>3, <1>4, <1>5, <1>6
<1>9. Stores(of, w, lines)
  BY <1>6, <1>7, <1>8 DEF Stores
<1> QED  BY <1>9

\* What is stored is a well-formed attribution.
LEMMA StoredLine ==
    ASSUME NEW w, NEW lines \in Seq(Line), NEW of, Stores(of, w, lines),
           NEW a \in AttrIds, of[a] # 0
    PROVE  /\ of[a] \in DOMAIN lines
           /\ attributions'[a] \in Attribution /\ attributions'[a] # NoRow
           /\ attributions'[a].event = lines[of[a]].event
           /\ attributions'[a].net = lines[of[a]].net
           /\ movementOf'[a] = lines[of[a]].movement
           /\ movementOf'[a] \in Movements /\ movementOf'[a] # NoRow
<1>1. of[a] \in DOMAIN lines
  BY DEF Stores
<1> DEFINE line == lines[of[a]]
           row == [event |-> line.event, net |-> line.net]
<1>2. line \in Line
  BY <1>1
<1>3. attributions'[a] = row /\ movementOf'[a] = line.movement
  BY DEF Stores
<1> HIDE DEF line
<1>4. row \in Attribution /\ row.event = line.event /\ row.net = line.net
  BY <1>2 DEF Line, Attribution
<1>5. line.movement \in Movements
  BY <1>2 DEF Line
<1> HIDE DEF row
<1>6. row # NoRow /\ line.movement # NoRow
  BY <1>4, <1>5, IdAssumption, EngineAssumption
<1> QED  BY <1>1, <1>3, <1>4, <1>5, <1>6 DEF line

\* The attributions after a run are its lines, or were there before.
LEMMA StoredAttributions ==
    ASSUME EInv, NEW w \in Engines, NEW lines \in Seq(Line), StoreLines(w, lines)
    PROVE  /\ attributions' \in [AttrIds -> Attribution \cup {NoRow}]
           /\ MovementKnown'
           /\ \A a \in AttrIds : Live(a)' =>
                \/ Live(a) /\ attributions'[a] = attributions[a]
                \/ \E k \in DOMAIN lines : attributions'[a].event = lines[k].event
<1>1. PICK of : Stores(of, w, lines)
  BY LinesAreStored
<1>2. /\ attributions \in [AttrIds -> Attribution \cup {NoRow}]
      /\ MovementKnown
  BY DEF EInv, EngineInv, Inv, TypeOK
<1>3. /\ attributions' = [a \in AttrIds |-> attributions'[a]]
      /\ movementOf' = [a \in AttrIds |-> movementOf'[a]]
  BY DEF StoreLines
<1>4. ASSUME NEW a \in AttrIds
      PROVE  /\ attributions'[a] \in Attribution \cup {NoRow}
             /\ movementOf'[a] \in Movements \cup {NoRow}
             /\ attributions'[a] # NoRow <=> movementOf'[a] # NoRow
             /\ Live(a)' => \/ Live(a) /\ attributions'[a] = attributions[a]
                            \/ \E k \in DOMAIN lines : attributions'[a].event = lines[k].event
  <2>1. CASE of[a] # 0
    <3>1. /\ of[a] \in DOMAIN lines
          /\ attributions'[a] \in Attribution /\ attributions'[a] # NoRow
          /\ attributions'[a].event = lines[of[a]].event
          /\ attributions'[a].net = lines[of[a]].net
          /\ movementOf'[a] = lines[of[a]].movement
          /\ movementOf'[a] \in Movements /\ movementOf'[a] # NoRow
      BY <1>1, <2>1, StoredLine, ZenonT(60)
    <3> QED  BY <3>1
  <2>2. CASE of[a] = 0
    BY <1>1, <1>2, <2>2 DEF Stores, MovementKnown, Live
  <2> QED  BY <2>1, <2>2
<1>5. MovementKnown'
  BY <1>3, <1>4 DEF MovementKnown, Live
<1> QED  BY <1>3, <1>4, <1>5

\* What a run writes to an event, from what it read and what the replay on the
\* locked row made of it.
LEMMA WrittenRow ==
    ASSUME NEW original, NEW row \in CashEventRow(Amounts), SettledRow(row),
           NEW after \in CashEventRow(Amounts), SettledRow(after),
           after.outstanding <= row.outstanding
    PROVE  /\ Written(original, row, after) \in CashEventRow(Amounts)
           /\ SettledRow(Written(original, row, after))
           /\ Written(original, row, after).outstanding <= row.outstanding
<1> DEFINE changed == StatusChanged(row, after.status, after.outstanding, FALSE)
<1>1. row.outstanding \in Nat /\ after.outstanding \in Nat
  BY DEF CashEventRow
<1>2. /\ changed \in CashEventRow(Amounts)
      /\ changed.outstanding = after.outstanding /\ changed.status = after.status
  BY DEF StatusChanged, CashEventRow
<1>3. Written(original, row, after) = changed \/ Written(original, row, after) = row
  BY DEF Written
<1> HIDE DEF changed
<1>4. SettledRow(changed) /\ changed.outstanding <= row.outstanding
  BY <1>2 DEF SettledRow
<1>5. row.outstanding <= row.outstanding
  BY <1>1
<1>6. CASE Written(original, row, after) = changed
  BY <1>2, <1>4, <1>6
<1>7. CASE Written(original, row, after) = row
  BY <1>5, <1>7
<1> QED  BY <1>3, <1>6, <1>7

\* The commit of a run leaves every event consistent, with no larger balance
\* than it has at that moment.
LEMMA CommittedEvents ==
    ASSUME EInv, NEW w \in Engines, Commit(w)
    PROVE  /\ events' \in [Events -> CashEventRow(Amounts) \cup {NoRow}]
           /\ audit' \in SUBSET LogRow
           /\ \A e \in Events : Exists(e) =>
                /\ events'[e] \in CashEventRow(Amounts) /\ SettledRow(events'[e])
                /\ events'[e].outstanding <= events[e].outstanding
           /\ \A e \in Events : ~Exists(e) => events'[e] = NoRow
<1> DEFINE lines == engines[w].lines
           original == engines[w].original
           after == Replayed(events, lines)
<1>1. /\ events' = [e \in Events |-> IF e \in DOMAIN original
                                     THEN Written(original[e], events[e], after[e])
                                     ELSE events[e]]
      /\ audit' = UNION {Logged(e, original[e], after[e]) : e \in DOMAIN original}
  BY DEF Commit, RowsUnderLock
<1>2. engines[w] \in Engine /\ engines[w].op = "cleared" /\ ReadExists(engines[w])
  BY DEF EInv, EngineInv, Commit
<1>3. lines \in Seq(Line) /\ original \in Originals
  BY <1>2, EngineFields
<1>4. /\ \A e \in DOMAIN original : Exists(e)
      /\ \A k \in DOMAIN lines : lines[k].event \in DOMAIN original
  BY <1>2 DEF ReadExists, WithPlan
<1>5. /\ DOMAIN original \subseteq Events
      /\ \A e \in DOMAIN original : original[e] \in CashEventRow(Amounts)
  BY <1>3, OriginalFields
<1> HIDE DEF lines, original
<1>6. Inv /\ events \in Rows
  BY DEF EInv, Inv, TypeOK, Rows
<1>7. after \in TakenFrom(events)
  <2>1. \A e \in Events : events[e] # NoRow => SettledRow(events[e])
    BY <1>6, RowOf DEF Exists
  <2>2. \A k \in DOMAIN lines : events[lines[k].event] # NoRow
    BY <1>4 DEF Exists
  <2> QED  BY <1>3, <1>6, <2>1, <2>2, ReplayIsTaken
<1> HIDE DEF after
<1>8. ASSUME NEW e \in Events, Exists(e)
      PROVE  /\ events[e] \in CashEventRow(Amounts) /\ SettledRow(events[e])
             /\ after[e] \in CashEventRow(Amounts) /\ SettledRow(after[e])
             /\ after[e].outstanding <= events[e].outstanding
  BY <1>6, <1>7, <1>8, RowOf DEF TakenFrom, Rows, Exists
<1>9. ASSUME NEW e \in Events, Exists(e)
      PROVE  /\ events'[e] \in CashEventRow(Amounts) /\ SettledRow(events'[e])
             /\ events'[e].outstanding <= events[e].outstanding
  <2>1. CASE e \in DOMAIN original
    <3>1. events'[e] = Written(original[e], events[e], after[e])
      BY <1>1, <2>1
    <3> QED  BY <1>8, <1>9, <3>1, WrittenRow
  <2>2. CASE e \notin DOMAIN original
    <3>1. events'[e] = events[e]
      BY <1>1, <2>2
    <3>2. events[e].outstanding \in Nat
      BY <1>8, <1>9 DEF CashEventRow
    <3> QED  BY <1>8, <1>9, <3>1, <3>2
  <2> QED  BY <2>1, <2>2
<1>10. ASSUME NEW e \in Events, ~Exists(e) PROVE events'[e] = NoRow
  BY <1>1, <1>4, <1>10 DEF Exists
<1>11. events' \in [Events -> CashEventRow(Amounts) \cup {NoRow}]
  <2>1. \A e \in Events : events'[e] \in CashEventRow(Amounts) \cup {NoRow}
    BY <1>9, <1>10
  <2>2. events' = [e \in Events |-> events'[e]]
    BY <1>1
  <2> QED  BY <2>1, <2>2
<1>12. audit' \in SUBSET LogRow
  <2>1. ASSUME NEW e \in DOMAIN original PROVE Logged(e, original[e], after[e]) \subseteq LogRow
    <3>1. /\ e \in Events /\ original[e] \in CashEventRow(Amounts)
          /\ after[e] \in CashEventRow(Amounts)
      BY <1>4, <1>5, <1>8
    <3> QED  BY <3>1 DEF Logged, LogRow, CashEventRow
  <2> QED  BY <1>1, <2>1
<1> QED  BY <1>9, <1>10, <1>11, <1>12

LEMMA CommitInv ==
    ASSUME EInv, NEW w \in Engines, Commit(w)
    PROVE  EInv'
<1> DEFINE lines == engines[w].lines
<1>1. engines[w] \in Engine /\ engines[w].op = "cleared" /\ ReadExists(engines[w])
  BY DEF EInv, EngineInv, Commit
<1>2. lines \in Seq(Line)
  BY <1>1, EngineFields
<1>3. \A k \in DOMAIN lines : lines[k].event \in Events /\ Exists(lines[k].event)
  <2>1. DOMAIN engines[w].original \subseteq Events
    BY <1>1, EngineFields, OriginalFields
  <2> QED  BY <1>1, <2>1 DEF ReadExists, WithPlan
<1>4. /\ StoreLines(w, lines)
      /\ engines' = [engines EXCEPT ![w] = Idle]
      /\ UNCHANGED <<matches, inflight, overwritten>>
  BY DEF Commit
<1> HIDE DEF lines
<1>5. /\ attributions' \in [AttrIds -> Attribution \cup {NoRow}]
      /\ MovementKnown'
      /\ \A a \in AttrIds : Live(a)' =>
           \/ Live(a) /\ attributions'[a] = attributions[a]
           \/ \E k \in DOMAIN lines : attributions'[a].event = lines[k].event
  BY <1>2, <1>4, StoredAttributions
<1>6. /\ events' \in [Events -> CashEventRow(Amounts) \cup {NoRow}]
      /\ audit' \in SUBSET LogRow
      /\ \A e \in Events : Exists(e) => events'[e] \in CashEventRow(Amounts) /\ SettledRow(events'[e])
      /\ \A e \in Events : ~Exists(e) => events'[e] = NoRow
  BY CommittedEvents
<1>7. \A e \in Events : Exists(e) => events'[e] # NoRow
  BY <1>6, IdAssumption
<1>8. TypeOK'
  BY <1>4, <1>5, <1>6 DEF EInv, Inv, TypeOK
<1>9. PaidIffSettled'
  BY <1>6 DEF PaidIffSettled, Exists
<1>11. ReferencesExist'
  <2>1. /\ ReferencesExist
        /\ attributions \in [AttrIds -> Attribution \cup {NoRow}]
        /\ matches \in [MatchIds -> Match \cup {NoRow}]
        /\ inflight \in [Requests -> Request]
    BY DEF EInv, Inv, TypeOK
  <2>2. ASSUME NEW a \in AttrIds, attributions'[a] # NoRow
        PROVE  events'[attributions'[a].event] # NoRow
    <3>1. CASE Live(a) /\ attributions'[a] = attributions[a]
      <4>1. attributions[a].event \in Events /\ Exists(attributions[a].event)
        BY <2>1, <3>1 DEF Live, Attribution, ReferencesExist
      <4> QED  BY <1>7, <3>1, <4>1
    <3>2. CASE \E k \in DOMAIN lines : attributions'[a].event = lines[k].event
      BY <1>3, <1>7, <3>2
    <3> QED  BY <1>5, <2>2, <3>1, <3>2 DEF Live
  <2>3. ASSUME NEW x \in MatchIds, matches[x] # NoRow
        PROVE  events'[matches[x].event] # NoRow
    <3>1. matches[x].event \in Events /\ Exists(matches[x].event)
      BY <2>1, <2>3 DEF Match, ReferencesExist
    <3> QED  BY <1>7, <3>1
  <2>4. ASSUME NEW r \in Requests,
               inflight[r].op \in {"unmatchRead", "unmatchDeleted", "unmatchSummed",
                                   "markPaid", "markUnpaid"}
        PROVE  events'[inflight[r].event] # NoRow
    <3>1. inflight[r].event \in Events /\ Exists(inflight[r].event)
      BY <2>1, <2>4, RequestFields DEF ReferencesExist
    <3> QED  BY <1>7, <3>1
  <2> QED  BY <1>4, <2>1, <2>2, <2>3, <2>4 DEF ReferencesExist, Live, Exists
<1>12. Idle \in Engine /\ ReadExists(Idle)
  BY DEF Engine, ReadExists, Idle, WithPlan
<1>13. engines' \in [Engines -> Engine] /\ \A v \in Engines : ReadExists(engines[v])'
  <2>1. EngineInv
    BY DEF EInv
  <2> QED  BY <1>4, <1>7, <1>12, <2>1, MoveEngine
<1> QED  BY <1>5, <1>8, <1>9, <1>11, <1>13 DEF EInv, EngineInv, Inv

LEMMA EngineNextInv == EInv /\ [EngineNext]_allVars => EInv'
<1> SUFFICES ASSUME EInv, [EngineNext]_allVars PROVE EInv'
  OBVIOUS
<1>1. CASE LedgerStep
  BY <1>1, LedgerStepInv
<1>2. ASSUME NEW w \in Engines, Snapshot(w) PROVE EInv'
  BY <1>2, SnapshotInv
<1>3. ASSUME NEW w \in Engines, EngineProceed(w) PROVE EInv'
  BY <1>3, PlanInv, ClearInv, CommitInv DEF EngineProceed
<1>4. ASSUME NEW w \in Engines, EngineFail(w) PROVE EInv'
  BY <1>4, EngineFailInv
<1>5. CASE UNCHANGED allVars
  BY <1>5 DEF allVars, vars, engineVars, EInv, EngineInv, MovementKnown, ReadExists,
              Inv, TypeOK, ReferencesExist, PaidIffSettled, Live, Exists
<1> QED  BY <1>1, <1>2, <1>3, <1>4, <1>5 DEF EngineNext

\* Any number of waterfalls that overlap with each other and with every
\* request keep what the ledger and the engines rely on.
THEOREM EInvHolds == EngineSpec => []EInv
BY EngineInitInv, EngineNextInv, PTL DEF EngineSpec

\* Types hold throughout: whatever it reads, a run plans lines above zero for
\* events of the ledger, and every attribution it stores has its movement.
THEOREM EngineTypeCorrect == EngineSpec => []EngineTypeOK
<1>1. EInv => EngineTypeOK
  <2> SUFFICES ASSUME EInv PROVE EngineTypeOK
    OBVIOUS
  <2>1. TypeOK /\ MovementKnown
    BY DEF EInv, EngineInv, Inv
  <2>2. ASSUME NEW w \in Engines
        PROVE  /\ engines[w].op \in {"idle", "snapshot"} \cup WithPlan
               /\ engines[w].op \in WithPlan => engines[w].lines \in Seq(Line)
    <3>1. engines[w] \in Engine
      BY DEF EInv, EngineInv
    <3> QED  BY <3>1, EngineFields
  <2> QED  BY <2>1, <2>2 DEF EngineTypeOK, MovementKnown
<1> QED  BY <1>1, EInvHolds, PTL

\* For any movements and events, however often runs are repeated and whatever
\* users and the sync do: a run matches an event that was paid when it read it
\* once, and again only by a tag.  It rests on PaidIffSettled: a paid event
\* with a balance would be open to a second match.
THEOREM HistoricalMatchedOnce == EngineSpec => []HistoricalOnce
<1>1. EInv => HistoricalOnce
  BY DEF EInv, EngineInv, ReadExists, HistoricalLines, HistoricalOnce
<1> QED  BY <1>1, EInvHolds, PTL

\* The waterfall keeps the ledger's rule with every request running: an event
\* is "paid" exactly when at most one cent is outstanding.
THEOREM EnginesKeepPaidIffSettled == EngineSpec => []PaidIffSettled
<1>1. EInv => PaidIffSettled
  BY DEF EInv, Inv
<1> QED  BY <1>1, EInvHolds, PTL

----------------------------------------------------------------------------
(* What a step may never do.                                               *)

LEMMA EngineStepKeepsOrGivesBack ==
    ASSUME EInv, [EngineNext]_allVars, NEW e \in Events, Exists(e)
    PROVE  Keeps(e) \/ \E r \in Requests : GivesBack(r, e)
<1>1. Inv
  BY DEF EInv
<1>2. CASE LedgerStep
  <2>1. [Next]_vars
    BY <1>2 DEF LedgerStep
  <2> QED  BY <1>1, <2>1, StepKeepsOrGivesBack
<1>3. ASSUME NEW w \in Engines, Commit(w) PROVE Keeps(e)
  <2>1. /\ events'[e] \in CashEventRow(Amounts) /\ SettledRow(events'[e])
        /\ events'[e].outstanding <= events[e].outstanding
    BY <1>3, CommittedEvents
  <2>2. events[e] \in CashEventRow(Amounts) /\ SettledRow(events[e])
    BY <1>1, RowOf
  <2>3. events[e].outstanding \in Nat /\ events'[e].outstanding \in Nat
    BY <2>1, <2>2 DEF CashEventRow
  <2> QED  BY <2>1, <2>2, <2>3 DEF Keeps, SettledRow, EPS
<1>4. CASE UNCHANGED events
  BY <1>1, <1>4, UnchangedKeeps
<1>5. ASSUME NEW w \in Engines,
             \/ Snapshot(w) \/ Plan(w) \/ EngineFail(w)
             \/ StartClearing(w) \/ ClearPrevious(w)
      PROVE  UNCHANGED events
  BY <1>5 DEF Snapshot, Plan, StartClearing, ClearPrevious, EngineFail
<1>6. CASE UNCHANGED allVars
  BY <1>4, <1>6 DEF allVars, vars
<1> QED  BY <1>2, <1>3, <1>4, <1>5, <1>6 DEF EngineNext, EngineProceed

\* No run of the waterfall reopens a paid event, however old its snapshot is
\* and whatever its plan overlaps with: only a user's request does.
THEOREM EnginesReopenNothing == EngineSpec => PaidReopensOnlyByUser
<1>1. EInv /\ [EngineNext]_allVars =>
        [\A e \in Events :
           /\ Exists(e) /\ events[e].status = "paid"
           /\ events'[e].status # "paid"
           => \E r \in Requests : GivesBack(r, e)]_vars
  BY EngineStepKeepsOrGivesBack DEF Keeps
<1> QED  BY <1>1, EInvHolds, PTL DEF EngineSpec, PaidReopensOnlyByUser

\* No run of the waterfall gives back cash that was taken off an event.
THEOREM EnginesGiveNothingBack == EngineSpec => ReducedBalanceGrowsOnlyByUser
<1>1. EInv /\ [EngineNext]_allVars =>
        [\A e \in Events :
           /\ Exists(e) /\ events[e].outstanding < events[e].amount
           /\ events'[e].outstanding > events[e].outstanding
           => \E r \in Requests : GivesBack(r, e)]_vars
  BY EngineStepKeepsOrGivesBack DEF Keeps
<1> QED  BY <1>1, EInvHolds, PTL DEF EngineSpec, ReducedBalanceGrowsOnlyByUser

----------------------------------------------------------------------------
(* The cash of the movements, as long as transactions of runs stay apart.  *)

\* A movement has one attribution at most, which does not exceed its cash; what
\* is planned keeps to that too, the DELETE of D5 is of all that there is when
\* it starts, and a run that has cleared has deleted all of the attributions
\* that there are.
CashInv ==
    /\ \A a, b \in AttrIds : Live(a) /\ Live(b) /\ movementOf[a] = movementOf[b] => a = b
    /\ \A a \in AttrIds : Live(a) => attributions[a].net <= CashOf[movementOf[a]] + EPS
    /\ \A w \in Engines :
         /\ engines[w].op \in WithPlan => LinesWithin(engines[w].lines, CashOf)
         /\ engines[w].op = "clearing" => \A a \in AttrIds : Live(a) => a \in engines[w].targets
         /\ engines[w].op = "cleared" => \A a \in AttrIds : Live(a) => EngineHolds(w, a)

\* A step that stores no attribution, and leaves the engines alone or moves one
\* of them to a state that keeps to the cash.
LEMMA CashStays ==
    ASSUME CashInv,
           \A a \in AttrIds : Live(a)' => /\ Live(a) /\ attributions'[a] = attributions[a]
                                          /\ movementOf'[a] = movementOf[a],
           \A w \in Engines :
             \/ engines'[w] = engines[w]
             \/ /\ engines'[w].op \in WithPlan => LinesWithin(engines'[w].lines, CashOf)
                /\ engines'[w].op = "clearing" =>
                     \A a \in AttrIds : Live(a)' => a \in engines'[w].targets
                /\ engines'[w].op = "cleared" => \A a \in AttrIds : Live(a)' => EngineHolds(w, a)'
    PROVE  CashInv'
<1>1. \A a, b \in AttrIds : Live(a)' /\ Live(b)' /\ movementOf'[a] = movementOf'[b] => a = b
  BY DEF CashInv
<1>2. \A a \in AttrIds : Live(a)' => attributions'[a].net <= CashOf[movementOf'[a]] + EPS
  BY DEF CashInv
<1>3. ASSUME NEW w \in Engines
      PROVE  /\ engines'[w].op \in WithPlan => LinesWithin(engines'[w].lines, CashOf)
             /\ engines'[w].op = "clearing" =>
                  \A a \in AttrIds : Live(a)' => a \in engines'[w].targets
             /\ engines'[w].op = "cleared" => \A a \in AttrIds : Live(a)' => EngineHolds(w, a)'
  BY DEF CashInv, EngineHolds
<1> QED  BY <1>1, <1>2, <1>3 DEF CashInv

LEMMA AttributionsUnchanged ==
    ASSUME UNCHANGED <<attributions, movementOf>>
    PROVE  \A a \in AttrIds : Live(a)' => /\ Live(a) /\ attributions'[a] = attributions[a]
                                          /\ movementOf'[a] = movementOf[a]
BY DEF Live

LEMMA EngineInitCash == EngineInit => CashInv
BY DEF EngineInit, CashInv, Live, Idle, WithPlan

LEMMA LedgerStepCash ==
    ASSUME EInv, CashInv, LedgerStep
    PROVE  CashInv'
<1>1. Inv /\ Next /\ UNCHANGED engines
  BY DEF EInv, LedgerStep, Alongside
<1>2. \A a \in AttrIds : attributions'[a] \in {attributions[a], NoRow}
  BY <1>1, LedgerOnlyDeletes
<1>3. movementOf' = [a \in AttrIds |-> IF attributions'[a] = NoRow THEN NoRow ELSE movementOf[a]]
  BY DEF LedgerStep, Alongside
<1>4. \A a \in AttrIds : Live(a)' => /\ Live(a) /\ attributions'[a] = attributions[a]
                                     /\ movementOf'[a] = movementOf[a]
  BY <1>2, <1>3 DEF Live
<1> QED  BY <1>1, <1>4, CashStays

LEMMA PlanCash ==
    ASSUME EInv, CashInv, NEW w \in Engines, Plan(w)
    PROVE  CashInv'
<1> DEFINE rows == engines[w].rows
           cash == [m \in Movements |-> AvailableCash(m)]
           p == PlanOf(rows, cash)
<1>1. /\ engines \in [Engines -> Engine] /\ engines[w] \in Engine
      /\ engines[w].op = "snapshot"
  BY DEF EInv, EngineInv, Plan
<1>2. rows \in Rows /\ SettledRows(rows)
  BY <1>1, EngineFields DEF EInv, EngineInv, ReadExists
<1>3. \/ engines' = [engines EXCEPT ![w] = Idle]
      \/ \E original : engines' = [engines EXCEPT ![w] =
           [op |-> "planned", lines |-> p.lines, original |-> original]]
  BY DEF Plan
<1>4. UNCHANGED <<attributions, movementOf>>
  BY DEF Plan
<1> HIDE DEF rows
<1>5. /\ cash \in [Movements -> Int]
      /\ \A m \in Movements : cash[m] <= MaxAmount /\ cash[m] <= CashOf[m]
  <2>1. ASSUME NEW m \in Movements
        PROVE  /\ AvailableCash(m) \in Int /\ AvailableCash(m) <= MaxAmount
               /\ AvailableCash(m) <= CashOf[m]
    <3> DEFINE explained == SumOfNet({a \in AttrIds : Live(a) /\ movementOf[a] = m})
    <3>1. explained \in Nat
      BY SumOfNetIsNat
    <3>2. CashOf[m] \in Int
      BY AmountAssumption
    <3>3. AvailableCash(m) = CashOf[m] - explained
      BY DEF AvailableCash
    <3> HIDE DEF explained
    <3>4. AvailableCash(m) <= CashOf[m]
      BY <3>1, <3>2, <3>3
    <3> QED  BY <3>4, AvailableIsBounded
  <2> QED  BY <2>1
<1> HIDE DEF cash
<1>6. p \in PlanState(rows) /\ LinesWithin(p.lines, cash)
  BY <1>2, <1>5, PlanIsPlan
<1> HIDE DEF p
<1>7. LinesWithin(p.lines, CashOf)
  <2> DEFINE lines == p.lines
  <2>1. lines \in Seq(Line)
    BY <1>6 DEF PlanState
  <2>2. LinesWithin(lines, cash)
    BY <1>6
  <2> HIDE DEF lines
  <2>3. ASSUME NEW k \in DOMAIN lines
        PROVE  lines[k].net <= CashOf[lines[k].movement] + EPS
    <3>1. lines[k].movement \in Movements /\ lines[k].net \in Int
      <4>1. lines[k] \in Line
        BY <2>1
      <4> QED  BY <4>1 DEF Line
    <3>2. /\ cash[lines[k].movement] \in Int /\ CashOf[lines[k].movement] \in Int
          /\ cash[lines[k].movement] <= CashOf[lines[k].movement]
      BY <1>5, <3>1, AmountAssumption
    <3>3. lines[k].net <= cash[lines[k].movement] + EPS
      BY <2>2 DEF LinesWithin
    <3> QED  BY <3>1, <3>2, <3>3 DEF EPS
  <2>4. LinesWithin(lines, CashOf)
    BY <2>2, <2>3 DEF LinesWithin
  <2> QED  BY <2>4 DEF lines
<1>8. ASSUME NEW v \in Engines
      PROVE  \/ engines'[v] = engines[v]
             \/ /\ engines'[v].op \in WithPlan => LinesWithin(engines'[v].lines, CashOf)
                /\ engines'[v].op \notin {"clearing", "cleared"}
  <2>1. CASE v # w
    BY <1>1, <1>3, <2>1
  <2>2. CASE v = w
    <3>1. CASE engines' = [engines EXCEPT ![w] = Idle]
      BY <1>1, <2>2, <3>1 DEF Idle, WithPlan
    <3>2. ASSUME NEW original, engines' = [engines EXCEPT ![w] =
             [op |-> "planned", lines |-> p.lines, original |-> original]]
          PROVE  engines'[v].op = "planned" /\ engines'[v].lines = p.lines
      BY <1>1, <2>2, <3>2
    <3> QED  BY <1>3, <1>7, <3>1, <3>2
  <2> QED  BY <2>1, <2>2
<1>9. \A a \in AttrIds : Live(a)' => /\ Live(a) /\ attributions'[a] = attributions[a]
                                     /\ movementOf'[a] = movementOf[a]
  BY <1>4, AttributionsUnchanged
<1> QED  BY <1>8, <1>9, CashStays

LEMMA ClearCash ==
    ASSUME EInv, CashInv, NEW w \in Engines, StartClearing(w) \/ ClearPrevious(w)
    PROVE  CashInv'
<1> DEFINE targets == {a \in AttrIds : Live(a)}
           gone == {a \in engines[w].targets : Live(a)}
<1>1. engines \in [Engines -> Engine] /\ engines[w].op \in WithPlan
  BY DEF EInv, EngineInv, StartClearing, ClearPrevious, WithPlan
<1>2. UNCHANGED <<attributions, movementOf>>
  BY DEF StartClearing, ClearPrevious
<1>3. LinesWithin(engines[w].lines, CashOf)
  BY <1>1 DEF CashInv
<1>4. /\ engines'[w].op \in WithPlan => LinesWithin(engines'[w].lines, CashOf)
      /\ engines'[w].op = "clearing" => \A a \in AttrIds : Live(a)' => a \in engines'[w].targets
      /\ engines'[w].op = "cleared" => \A a \in AttrIds : Live(a)' => EngineHolds(w, a)'
  <2>1. CASE StartClearing(w)
    <3>1. /\ engines'[w].op = "clearing" /\ engines'[w].lines = engines[w].lines
          /\ engines'[w].targets = targets
      BY <1>1, <2>1 DEF StartClearing
    <3>2. \A a \in AttrIds : Live(a)' => a \in targets
      BY <1>2 DEF Live
    <3> HIDE DEF targets
    <3> QED  BY <1>3, <3>1, <3>2
  <2>2. CASE ClearPrevious(w)
    <3>1. /\ engines'[w].op = "cleared" /\ engines'[w].lines = engines[w].lines
          /\ engines'[w].gone = gone
      BY <1>1, <2>2 DEF ClearPrevious
    <3>2. engines[w].op = "clearing"
      BY <2>2 DEF ClearPrevious
    <3>3. \A a \in AttrIds : Live(a)' => a \in gone
      BY <1>2, <3>2 DEF CashInv, Live
    <3> HIDE DEF gone
    <3> QED  BY <1>3, <3>1, <3>3 DEF EngineHolds
  <2> QED  BY <2>1, <2>2
<1>5. ASSUME NEW v \in Engines, v # w PROVE engines'[v] = engines[v]
  BY <1>1, <1>5 DEF StartClearing, ClearPrevious
<1>6. \A a \in AttrIds : Live(a)' => /\ Live(a) /\ attributions'[a] = attributions[a]
                                     /\ movementOf'[a] = movementOf[a]
  BY <1>2, AttributionsUnchanged
<1> QED  BY <1>4, <1>5, <1>6, CashStays

\* A run stores its lines in place of all that was there; no other run has
\* deleted what it relies on to be there.
LEMMA CommitCash ==
    ASSUME EInv, CashInv, TransactionsApart, NEW w \in Engines, Commit(w)
    PROVE  CashInv'
<1> DEFINE lines == engines[w].lines
<1>1. /\ engines \in [Engines -> Engine] /\ engines[w] \in Engine
      /\ engines[w].op = "cleared"
  BY DEF EInv, EngineInv, Commit
<1>2. lines \in Seq(Line)
  BY <1>1, EngineFields
<1>3. /\ StoreLines(w, lines)
      /\ engines' = [engines EXCEPT ![w] = Idle]
  BY DEF Commit
<1>4. /\ LinesWithin(lines, CashOf)
      /\ \A a \in AttrIds : Live(a) => EngineHolds(w, a)
  BY <1>1 DEF CashInv, WithPlan
<1> HIDE DEF lines
<1>5. PICK of : Stores(of, w, lines)
  BY <1>2, <1>3, LinesAreStored
<1>6. ASSUME NEW a \in AttrIds, Live(a)'
      PROVE  /\ of[a] \in DOMAIN lines /\ of[a] # 0
             /\ attributions'[a].net = lines[of[a]].net
             /\ movementOf'[a] = lines[of[a]].movement
  <2>1. of[a] # 0
    BY <1>4, <1>5, <1>6 DEF Stores, Live
  <2>2. /\ of[a] \in DOMAIN lines
        /\ attributions'[a] \in Attribution /\ attributions'[a] # NoRow
        /\ attributions'[a].event = lines[of[a]].event
        /\ attributions'[a].net = lines[of[a]].net
        /\ movementOf'[a] = lines[of[a]].movement
        /\ movementOf'[a] \in Movements /\ movementOf'[a] # NoRow
    BY <1>2, <1>5, <2>1, StoredLine, ZenonT(60)
  <2> QED  BY <2>1, <2>2
<1>7. ASSUME NEW a \in AttrIds, NEW b \in AttrIds, Live(a)', Live(b)',
             movementOf'[a] = movementOf'[b]
      PROVE  a = b
  <2>1. of[a] = of[b]
    BY <1>4, <1>6, <1>7 DEF LinesWithin
  <2> QED  BY <1>5, <1>6, <1>7, <2>1 DEF Stores
<1>8. ASSUME NEW a \in AttrIds, Live(a)'
      PROVE  attributions'[a].net <= CashOf[movementOf'[a]] + EPS
  BY <1>4, <1>6, <1>8 DEF LinesWithin
<1>9. ASSUME NEW v \in Engines
      PROVE  /\ engines'[v].op \notin {"clearing", "cleared"}
             /\ engines'[v].op \in WithPlan => LinesWithin(engines'[v].lines, CashOf)
  <2>1. CASE v = w
    BY <1>1, <1>3, <2>1 DEF Idle, WithPlan
  <2>2. CASE v # w
    <3>1. engines'[v] = engines[v]
      BY <1>1, <1>3, <2>2
    <3>2. engines[v].op \notin {"clearing", "cleared"}
      BY <1>1, <2>2 DEF TransactionsApart
    <3> QED  BY <3>1, <3>2 DEF CashInv
  <2> QED  BY <2>1, <2>2
<1> QED  BY <1>7, <1>8, <1>9 DEF CashInv

LEMMA EngineNextCash ==
    ASSUME EInv, CashInv, TransactionsApart, [EngineNext]_allVars
    PROVE  CashInv'
<1>1. CASE LedgerStep
  BY <1>1, LedgerStepCash
<1>2. ASSUME NEW w \in Engines, Snapshot(w) \/ EngineFail(w) PROVE CashInv'
  <2>1. engines \in [Engines -> Engine] /\ UNCHANGED <<attributions, movementOf>>
    BY <1>2 DEF EInv, EngineInv, Snapshot, EngineFail
  <2>2. \A v \in Engines : engines'[v] = engines[v] \/ engines'[v].op \in {"idle", "snapshot"}
    BY <1>2, <2>1 DEF Snapshot, EngineFail, Idle
  <2>4. \A op \in {"idle", "snapshot"} : op \notin WithPlan
    BY DEF WithPlan
  <2>3. \A a \in AttrIds : Live(a)' => /\ Live(a) /\ attributions'[a] = attributions[a]
                                       /\ movementOf'[a] = movementOf[a]
    BY <2>1, AttributionsUnchanged
  <2> QED  BY <2>2, <2>3, <2>4, CashStays
<1>3. ASSUME NEW w \in Engines, EngineProceed(w) PROVE CashInv'
  <2>1. CASE Plan(w)
    BY <2>1, PlanCash
  <2>2. CASE StartClearing(w) \/ ClearPrevious(w)
    BY <2>2, ClearCash
  <2>3. CASE Commit(w)
    BY <2>3, CommitCash
  <2> QED  BY <1>3, <2>1, <2>2, <2>3 DEF EngineProceed
<1>4. CASE UNCHANGED allVars
  BY <1>4 DEF allVars, vars, engineVars, CashInv, Live, EngineHolds
<1> QED  BY <1>1, <1>2, <1>3, <1>4 DEF EngineNext

\* The sum over one attribution is its net, over none it is zero.
LEMMA SumOfOne ==
    ASSUME NEW ids \in SUBSET AttrIds, \A a, b \in ids : a = b, NEW bound \in Nat,
           \A a \in ids : attributions[a].net \in 1..MaxNet /\ attributions[a].net <= bound
    PROVE  SumOfNet(ids) <= bound
<1> DEFINE cents == {c \in ids \X (1..MaxNet) : c[2] <= attributions[c[1]].net}
<1>1. MaxNet \in Nat
  BY AmountAssumption DEF MaxNet, EPS
<1>2. IsFiniteSet(1..bound) /\ Cardinality(1..bound) = bound
  BY FS_Interval
<1>3. CASE ids = {}
  <2>1. cents = {}
    BY <1>3
  <2>2. Cardinality(cents) = 0
    BY <2>1, FS_EmptySet
  <2> QED  BY <2>2 DEF SumOfNet
<1>4. ASSUME NEW a \in ids PROVE SumOfNet(ids) <= bound
  <2>1. ids = {a}
    OBVIOUS
  <2> DEFINE f == [n \in 1..bound |-> <<a, n>>]
             image == {f[n] : n \in 1..bound}
  <2>2. cents \subseteq image
    <3>1. ASSUME NEW c \in cents PROVE c \in image
      <4>1. c[1] = a /\ c[2] \in 1..MaxNet /\ c[2] <= attributions[a].net /\ c = <<c[1], c[2]>>
        BY <2>1
      <4>2. c[2] \in 1..bound
        BY <1>1, <1>4, <4>1
      <4>3. f[c[2]] = c
        BY <4>1, <4>2
      <4> QED  BY <4>2, <4>3
    <3> QED  BY <3>1
  <2>3. IsFiniteSet(image) /\ Cardinality(image) <= Cardinality(1..bound)
    <3>1. f \in Surjection(1..bound, image)
      BY DEF Surjection
    <3> HIDE DEF f, image
    <3> QED  BY <1>2, <3>1, FS_Surjection
  <2>4. Cardinality(cents) <= Cardinality(image)
    BY <2>2, <2>3, FS_Subset
  <2> HIDE DEF cents, image
  <2>5. Cardinality(cents) \in Nat /\ Cardinality(image) \in Nat
    BY <2>2, <2>3, FS_Subset, FS_CardinalityType
  <2>6. Cardinality(cents) <= bound
    BY <1>2, <2>3, <2>4, <2>5
  <2> QED  BY <2>6 DEF SumOfNet, cents
<1> QED  BY <1>3, <1>4

\* No movement gives more than its cash as long as no two runs are between
\* their D5 and their commit at a time: runs may be repeated, and overlap while
\* they read and plan, and requests may come between all of their steps.
\* (MCWaterfallTwo.cfg shows what two open transactions do.)
THEOREM ApartStaysWithinCash == EngineSpec /\ []TransactionsApart => []MovementsWithinCash
<1>1. EngineInit => CashInv
  BY EngineInitCash
<1>2. EInv /\ CashInv /\ TransactionsApart /\ [EngineNext]_allVars => CashInv'
  BY EngineNextCash
<1>3. EInv /\ CashInv => MovementsWithinCash
  <2> SUFFICES ASSUME EInv, CashInv, NEW m \in Movements
               PROVE  SumOfNet({a \in AttrIds : Live(a) /\ movementOf[a] = m}) <= CashOf[m] + EPS
    BY DEF MovementsWithinCash
  <2> DEFINE ids == {a \in AttrIds : Live(a) /\ movementOf[a] = m}
             bound == CashOf[m] + EPS
  <2>1. attributions \in [AttrIds -> Attribution \cup {NoRow}]
    BY DEF EInv, Inv, TypeOK
  <2>2. ids \in SUBSET AttrIds /\ \A a, b \in ids : a = b
    BY DEF CashInv
  <2>3. bound \in Nat
    BY AmountAssumption DEF EPS
  <2>4. \A a \in ids : attributions[a].net \in 1..MaxNet /\ attributions[a].net <= bound
    BY <2>1 DEF CashInv, Live, Attribution
  <2> HIDE DEF ids, bound
  <2>5. SumOfNet(ids) <= bound
    BY <2>2, <2>3, <2>4, SumOfOne
  <2> QED  BY <2>5 DEF ids, bound
<1> QED  BY <1>1, <1>2, <1>3, EInvHolds, PTL DEF EngineSpec

\* One engine's transactions are always apart.
THEOREM OneRunStaysWithinCash ==
    ASSUME \A v, w \in Engines : v = w
    PROVE  EngineSpec => []MovementsWithinCash
<1>1. TransactionsApart
  BY DEF TransactionsApart
<1> QED  BY <1>1, ApartStaysWithinCash, PTL
============================================================================
