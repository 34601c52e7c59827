--------------------------- MODULE Stage4Proofs ---------------------------
(***************************************************************************)
(* Proofs about Stage4: its type invariant, and that no reader sees a      *)
(* movement without the attributions of the model because a run replaces   *)
(* them.  The argument for the latter is that a run whose transaction is   *)
(* still good, has missed no row and has deleted a movement's rows has     *)
(* either put a row of its own in their place, or has a suggestion of high *)
(* confidence for the movement still ahead, and cash of it left to give.   *)
(*                                                                         *)
(* And that the sums agree as long as those who change the attributions    *)
(* keep out of each other's way: what a document has left is what its      *)
(* attributions leave, those included that a rebuild has set aside, and    *)
(* the model gives out no more of a movement than its cash.  What a run    *)
(* has counted so far, and what a request has summed up, is then part of   *)
(* the invariant.                                                          *)
(***************************************************************************)
EXTENDS Stage4, TLAPS, FiniteSetTheorems, WellFoundedInduction

\* A row of movement m is in the place of those that were deleted, or will be.
Replaced(t, m) ==
    \/ \E b \in t.rows : b.m = m
    \/ /\ t.has[m] > 0
       /\ \E i \in t.next..Len(t.lines) : t.lines[i].high /\ t.lines[i].m = m

\* What holds of each run.
RunOK(t) ==
    /\ t.pc \in {"asked", "answered", "clear"} => t.next = 1 /\ t.rows = {}
    /\ t.pc \in {"answered", "clear"} =>
         \A i \in DOMAIN t.lines : t.has[t.lines[i].m] > 0
    /\ t.pc = "clear" =>
         \A k \in t.old : \E j \in DOMAIN t.lines : t.lines[j].high /\ t.lines[j].m = k[1]
    /\ IsFiniteSet(t.rows) /\ \A b \in t.rows : b.by = "llm"
    /\ t.open /\ ~t.missed => \A a \in t.gone : Replaced(t, a.m)
    /\ t.open => t.pc = "apply"

\* The inductive invariant.
IInv ==
    /\ TypeOK
    /\ IsFiniteSet(attributions) /\ IsFiniteSet(rebuild.saved)
    /\ rebuild.pc = "delete" => rebuilds < MaxRebuilds
    /\ \A r \in Runs : RunOK(run[r])

----------------------------------------------------------------------------
(* Sums over finite sets of rows.  What holds of a set if it holds of each *)
(* smaller one holds of all: a set it did not hold of would have a least   *)
(* subset of that kind, because strict inclusion of finite sets is well-   *)
(* founded.                                                                *)

LEMMA SubsetInduction ==
    ASSUME NEW S, IsFiniteSet(S), NEW Good,
           \A T \in SUBSET S : (\A U \in SUBSET T : U # T => U \in Good) => T \in Good
    PROVE  \A T \in SUBSET S : T \in Good
<1> DEFINE R == StrictSubsetOrdering(S)
           F == FiniteSubsetsOf(S)
           Bad == {T \in SUBSET S : T \notin Good}
<1>1. \A T \in SUBSET S : T \in F
  BY FS_Subset DEF FiniteSubsetsOf
<1>2. IsWellFoundedOn(R, F)
  BY FS_StrictSubsetOrderingWellFounded
<1>3. \A T, U \in SUBSET S : U \in SUBSET T /\ U # T => <<U, T>> \in R
  BY DEF StrictSubsetOrdering
<1> HIDE DEF R, F, Bad
<1>4. Bad \subseteq F
  BY <1>1 DEF Bad
<1>5. SUFFICES ASSUME Bad # {} PROVE FALSE
  BY DEF Bad
<1>6. \E T \in Bad : \A U \in Bad : ~ (<<U, T>> \in R)
  BY <1>2, <1>4, <1>5, WFMin
<1>7. PICK T \in Bad : \A U \in Bad : ~ (<<U, T>> \in R)
  BY <1>6
<1>8. ASSUME NEW U \in SUBSET T, U # T PROVE U \in Good
  <2>1. U \in SUBSET S /\ T \in SUBSET S
    BY <1>7 DEF Bad
  <2>2. <<U, T>> \in R
    BY <1>3, <1>8, <2>1
  <2> QED  BY <1>7, <2>1, <2>2 DEF Bad
<1>9. T \in SUBSET S /\ T \notin Good
  BY <1>7 DEF Bad
<1> QED  BY <1>8, <1>9

Pick(s) == CHOOSE x \in s : TRUE
IsSumOn(g, S) ==
    g = [s \in SUBSET S |-> IF s = {} THEN 0 ELSE Pick(s).net + g[s \ {Pick(s)}]]
SumOn(S) == CHOOSE g : IsSumOn(g, S)

LEMMA PickInSet == ASSUME NEW s, s # {} PROVE Pick(s) \in s
BY DEF Pick

LEMMA NetIsSum == ASSUME NEW S PROVE NetOf(S) = SumOn(S)[S]
BY DEF NetOf, MapThenSumSet, MapThenFoldSet, SumOn, IsSumOn, Pick

LEMMA SumAt ==
    ASSUME NEW g, NEW S, IsSumOn(g, S), NEW s \in SUBSET S
    PROVE  g[s] = IF s = {} THEN 0 ELSE Pick(s).net + g[s \ {Pick(s)}]
<1> DEFINE e(t) == IF t = {} THEN 0 ELSE Pick(t).net + g[t \ {Pick(t)}]
<1>1. g = [t \in SUBSET S |-> e(t)]
  BY DEF IsSumOn
<1> HIDE DEF e
<1>2. [t \in SUBSET S |-> e(t)][s] = e(s)
  OBVIOUS
<1>3. g[s] = e(s)
  BY <1>1, <1>2
<1> QED  BY <1>3 DEF e

\* Two such functions agree wherever both are defined.
LEMMA SumUnique ==
    ASSUME NEW S, NEW T, IsFiniteSet(S), NEW g, NEW h,
           IsSumOn(g, S), IsSumOn(h, T), S \subseteq T
    PROVE  \A s \in SUBSET S : g[s] = h[s]
<1> DEFINE Good == {s \in SUBSET S : g[s] = h[s]}
<1>1. ASSUME NEW s \in SUBSET S, \A u \in SUBSET s : u # s => u \in Good
      PROVE  s \in Good
  <2>1. g[s] = IF s = {} THEN 0 ELSE Pick(s).net + g[s \ {Pick(s)}]
    BY SumAt
  <2>2. h[s] = IF s = {} THEN 0 ELSE Pick(s).net + h[s \ {Pick(s)}]
    BY SumAt
  <2>3. s # {} => s \ {Pick(s)} \in SUBSET s /\ s \ {Pick(s)} # s
    BY PickInSet
  <2>4. s # {} => g[s \ {Pick(s)}] = h[s \ {Pick(s)}]
    BY <1>1, <2>3
  <2> QED  BY <2>1, <2>2, <2>4
<1> HIDE DEF Good
<1>2. \A s \in SUBSET S : s \in Good
  BY <1>1, SubsetInduction
<1> QED  BY <1>2 DEF Good

LEMMA SumExists ==
    ASSUME NEW S, IsFiniteSet(S)
    PROVE  \A T \in SUBSET S : IsSumOn(SumOn(T), T)
<1> DEFINE Good == {T \in SUBSET S : IsSumOn(SumOn(T), T)}
<1>1. ASSUME NEW T \in SUBSET S, \A U \in SUBSET T : U # T => U \in Good
      PROVE  T \in Good
  <2> DEFINE rest == T \ {Pick(T)}
             top == IF T = {} THEN 0 ELSE Pick(T).net + SumOn(rest)[rest]
             g == [s \in SUBSET T |-> IF s = T THEN top ELSE SumOn(s)[s]]
  <2>1. \A U \in SUBSET T : U # T => IsSumOn(SumOn(U), U)
    BY <1>1
  <2>2. ASSUME NEW s \in SUBSET T
        PROVE  g[s] = IF s = {} THEN 0 ELSE Pick(s).net + g[s \ {Pick(s)}]
    <3> DEFINE less == s \ {Pick(s)}
    <3>1. s # {} => less \in SUBSET s /\ less # s /\ less \in SUBSET T /\ less # T
      BY PickInSet
    <3>2. s # {} => g[less] = SumOn(less)[less]
      BY <3>1
    <3>3. CASE s = T
      BY <3>2, <3>3
    <3>4. CASE s # T
      <4>1. IsSumOn(SumOn(s), s)
        BY <2>1, <3>4
      <4>2. SumOn(s)[s] = IF s = {} THEN 0 ELSE Pick(s).net + SumOn(s)[less]
        BY <4>1, SumAt
      <4>3. ASSUME s # {} PROVE SumOn(s)[less] = SumOn(less)[less]
        <5>1. IsSumOn(SumOn(less), less) /\ less \subseteq s
          BY <2>1, <3>1, <4>3
        <5>2. IsFiniteSet(less)
          BY FS_Subset, <3>1, <4>3
        <5>3. \A u \in SUBSET less : SumOn(less)[u] = SumOn(s)[u]
          BY <4>1, <5>1, <5>2, SumUnique
        <5> QED  BY <5>3
      <4>4. g[s] = SumOn(s)[s]
        BY <3>4
      <4> QED  BY <3>2, <4>2, <4>3, <4>4
    <3> QED  BY <3>3, <3>4
  <2>3. IsSumOn(g, T)
    <3> DEFINE h == [s \in SUBSET T |-> IF s = {} THEN 0 ELSE Pick(s).net + g[s \ {Pick(s)}]]
    <3>1. \A s \in SUBSET T : g[s] = h[s]
      BY <2>2
    <3>2. g = [s \in SUBSET T |-> g[s]] /\ h = [s \in SUBSET T |-> h[s]]
      OBVIOUS
    <3>3. g = h
      <4> HIDE DEF g, h
      <4> QED  BY <3>1, <3>2
    <3> QED  BY <3>3 DEF IsSumOn
  <2>4. \E f : IsSumOn(f, T)
    BY <2>3
  <2>5. IsSumOn(SumOn(T), T)
    BY <2>4 DEF SumOn
  <2> QED  BY <2>5
<1> HIDE DEF Good
<1>2. \A T \in SUBSET S : T \in Good
  BY <1>1, SubsetInduction
<1> QED  BY <1>2 DEF Good

LEMMA NetOfNone == NetOf({}) = 0
<1>1. IsSumOn(SumOn({}), {})
  BY SumExists, FS_EmptySet
<1> QED  BY <1>1, SumAt, NetIsSum

\* The sum takes one row, which the library chooses, and the sum of the others.
LEMMA NetOfPicked ==
    ASSUME NEW S, IsFiniteSet(S), S # {}
    PROVE  NetOf(S) = Pick(S).net + NetOf(S \ {Pick(S)})
<1> DEFINE rest == S \ {Pick(S)}
<1>1. IsSumOn(SumOn(S), S) /\ IsSumOn(SumOn(rest), rest)
  BY SumExists
<1>2. SumOn(S)[S] = Pick(S).net + SumOn(S)[rest]
  BY <1>1, SumAt
<1>3. IsFiniteSet(rest)
  BY FS_RemoveElement
<1>4. \A s \in SUBSET rest : SumOn(rest)[s] = SumOn(S)[s]
  BY <1>1, <1>3, SumUnique
<1> QED  BY <1>2, <1>4, NetIsSum

LEMMA NetOfIsNat ==
    ASSUME NEW S, IsFiniteSet(S), \A a \in S : a.net \in Nat
    PROVE  \A T \in SUBSET S : NetOf(T) \in Nat
<1> DEFINE Good == {T \in SUBSET S : NetOf(T) \in Nat}
<1>1. ASSUME NEW T \in SUBSET S, \A U \in SUBSET T : U # T => U \in Good
      PROVE  T \in Good
  <2>1. CASE T = {}
    BY <2>1, NetOfNone
  <2>2. CASE T # {}
    <3>1. Pick(T) \in T /\ Pick(T).net \in Nat
      BY <2>2, PickInSet
    <3>2. NetOf(T \ {Pick(T)}) \in Nat
      BY <1>1, <3>1
    <3>3. NetOf(T) = Pick(T).net + NetOf(T \ {Pick(T)})
      BY <2>2, FS_Subset, NetOfPicked
    <3> QED  BY <3>1, <3>2, <3>3
  <2> QED  BY <2>1, <2>2
<1> HIDE DEF Good
<1>2. \A T \in SUBSET S : T \in Good
  BY <1>1, SubsetInduction
<1> QED  BY <1>2 DEF Good

\* Any row may be taken first.
LEMMA NetOfAny ==
    ASSUME NEW S, IsFiniteSet(S), \A a \in S : a.net \in Nat
    PROVE  \A T \in SUBSET S : \A x \in T : NetOf(T) = x.net + NetOf(T \ {x})
<1> DEFINE Good == {T \in SUBSET S : \A x \in T : NetOf(T) = x.net + NetOf(T \ {x})}
<1>1. ASSUME NEW T \in SUBSET S, \A U \in SUBSET T : U # T => U \in Good
      PROVE  T \in Good
  <2> SUFFICES ASSUME NEW x \in T PROVE NetOf(T) = x.net + NetOf(T \ {x})
    OBVIOUS
  <2> DEFINE c == Pick(T)
  <2>1. c \in T /\ c.net \in Nat /\ x.net \in Nat
    BY PickInSet
  <2>2. IsFiniteSet(T)
    BY FS_Subset
  <2>3. NetOf(T) = c.net + NetOf(T \ {c})
    BY <2>2, NetOfPicked
  <2> HIDE DEF c
  <2>4. CASE x = c
    BY <2>3, <2>4
  <2>5. CASE x # c
    <3>1. T \ {c} \in Good /\ T \ {x} \in Good
      BY <1>1, <2>1
    <3>2. NetOf(T \ {c}) = x.net + NetOf((T \ {c}) \ {x})
      BY <2>5, <3>1
    <3>3. NetOf(T \ {x}) = c.net + NetOf((T \ {x}) \ {c})
      BY <2>1, <2>5, <3>1
    <3>4. (T \ {c}) \ {x} = (T \ {x}) \ {c}
      OBVIOUS
    <3>5. NetOf((T \ {x}) \ {c}) \in Nat
      BY NetOfIsNat
    <3>6. NetOf(T \ {c}) = x.net + NetOf((T \ {x}) \ {c})
      BY <3>2, <3>4
    <3> DEFINE n == NetOf((T \ {x}) \ {c})
               u == x.net
               v == c.net
    <3>7. u \in Nat /\ v \in Nat /\ n \in Nat
      BY <2>1, <3>5
    <3>8. NetOf(T) = v + (u + n) /\ NetOf(T \ {x}) = v + n
      BY <2>3, <3>3, <3>6
    <3> HIDE DEF n, u, v
    <3>9. v + (u + n) = u + (v + n)
      BY <3>7
    <3> QED  BY <3>8, <3>9 DEF u
  <2> QED  BY <2>4, <2>5
<1> HIDE DEF Good
<1>2. \A T \in SUBSET S : T \in Good
  BY <1>1, SubsetInduction
<1> QED  BY <1>2 DEF Good

\* The sum of two sets without a common row.
LEMMA NetOfUnion ==
    ASSUME NEW S, NEW B, IsFiniteSet(S), IsFiniteSet(B), S \intersect B = {},
           \A a \in S \union B : a.net \in Nat
    PROVE  NetOf(S \union B) = NetOf(S) + NetOf(B)
<1> DEFINE Good == {T \in SUBSET B : NetOf(S \union T) = NetOf(S) + NetOf(T)}
<1>1. ASSUME NEW T \in SUBSET B, \A U \in SUBSET T : U # T => U \in Good
      PROVE  T \in Good
  <2>1. NetOf(S) \in Nat /\ NetOf(T) \in Nat
    BY NetOfIsNat
  <2>2. CASE T = {}
    BY <2>1, <2>2, NetOfNone
  <2>3. CASE T # {}
    <3>1. PICK x \in T : TRUE
      BY <2>3
    <3>2. T \ {x} \in Good
      BY <1>1
    <3>3. NetOf(S \union (T \ {x})) = NetOf(S) + NetOf(T \ {x})
      BY <3>2
    <3>4. IsFiniteSet(S \union T)
      BY FS_Subset, FS_Union
    <3>5. NetOf(S \union T) = x.net + NetOf((S \union T) \ {x})
      BY <3>4, NetOfAny
    <3>6. (S \union T) \ {x} = S \union (T \ {x})
      OBVIOUS
    <3>7. NetOf(T) = x.net + NetOf(T \ {x})
      BY NetOfAny
    <3>8. x.net \in Nat /\ NetOf(T \ {x}) \in Nat
      BY NetOfIsNat
    <3> DEFINE n == NetOf(T \ {x})
               u == x.net
               o == NetOf(S)
    <3>9. u \in Nat /\ n \in Nat /\ o \in Nat
      BY <2>1, <3>8
    <3>10. NetOf(S \union T) = u + (o + n) /\ NetOf(T) = u + n
      BY <3>3, <3>5, <3>6, <3>7
    <3> HIDE DEF n, u, o
    <3>11. u + (o + n) = o + (u + n)
      BY <3>9
    <3> QED  BY <3>10, <3>11 DEF o
  <2> QED  BY <2>2, <2>3
<1> HIDE DEF Good
<1>2. \A T \in SUBSET B : T \in Good
  BY <1>1, SubsetInduction
<1> QED  BY <1>2 DEF Good

----------------------------------------------------------------------------
(* What documents and movements have, as sums of rows.                     *)

LEMMA NetOfPlus ==
    ASSUME NEW S, IsFiniteSet(S), \A a \in S : a.net \in Nat,
           NEW x, x \notin S, x.net \in Nat
    PROVE  NetOf(S \union {x}) = NetOf(S) + x.net /\ NetOf(S) \in Nat
<1> DEFINE B == S \union {x}
<1>1. IsFiniteSet(B) /\ \A a \in B : a.net \in Nat
  BY FS_AddElement
<1>2. x \in B /\ B \ {x} = S /\ B \in SUBSET B
  OBVIOUS
<1> HIDE DEF B
<1>3. NetOf(B) = x.net + NetOf(S)
  BY <1>1, <1>2, NetOfAny
<1>4. NetOf(S) \in Nat
  BY NetOfIsNat
<1> QED  BY <1>3, <1>4 DEF B

\* A new row counts for its own document and its own movement.
LEMMA RowCounts ==
    ASSUME NEW S, IsFiniteSet(S), S \subseteq Row, NEW x \in Row, x \notin S
    PROVE  /\ \A d : /\ Taken(S, d) \in Nat
                     /\ Taken(S \union {x}, d) = Taken(S, d) + (IF x.d = d THEN x.net ELSE 0)
           /\ \A m : /\ Spent(S, m) \in Nat
                     /\ Spent(S \union {x}, m) = Spent(S, m) + (IF x.m = m THEN x.net ELSE 0)
<1>0. x.net \in Nat /\ \A a \in S : a.net \in Nat
  BY DEF Row
<1>1. ASSUME NEW d
      PROVE  /\ Taken(S, d) \in Nat
             /\ Taken(S \union {x}, d) = Taken(S, d) + (IF x.d = d THEN x.net ELSE 0)
  <2> DEFINE T == {a \in S : a.d = d}
             U == {a \in S \union {x} : a.d = d}
  <2>1. IsFiniteSet(T) /\ x \notin T /\ \A a \in T : a.net \in Nat
    BY <1>0, FS_Subset
  <2>2. U = IF x.d = d THEN T \union {x} ELSE T
    OBVIOUS
  <2> HIDE DEF T, U
  <2>3. NetOf(T \union {x}) = NetOf(T) + x.net /\ NetOf(T) \in Nat
    BY <1>0, <2>1, NetOfPlus
  <2>4. Taken(S, d) = NetOf(T) /\ Taken(S \union {x}, d) = NetOf(U)
    BY DEF Taken, T, U
  <2> QED  BY <2>2, <2>3, <2>4
<1>2. ASSUME NEW m
      PROVE  /\ Spent(S, m) \in Nat
             /\ Spent(S \union {x}, m) = Spent(S, m) + (IF x.m = m THEN x.net ELSE 0)
  <2> DEFINE T == {a \in S : a.m = m}
             U == {a \in S \union {x} : a.m = m}
  <2>1. IsFiniteSet(T) /\ x \notin T /\ \A a \in T : a.net \in Nat
    BY <1>0, FS_Subset
  <2>2. U = IF x.m = m THEN T \union {x} ELSE T
    OBVIOUS
  <2> HIDE DEF T, U
  <2>3. NetOf(T \union {x}) = NetOf(T) + x.net /\ NetOf(T) \in Nat
    BY <1>0, <2>1, NetOfPlus
  <2>4. Spent(S, m) = NetOf(T) /\ Spent(S \union {x}, m) = NetOf(U)
    BY DEF Spent, T, U
  <2> QED  BY <2>2, <2>3, <2>4
<1> QED  BY <1>1, <1>2

LEMMA NoRows == (\A d : Taken({}, d) = 0) /\ (\A m : Spent({}, m) = 0)
<1>1. ASSUME NEW d PROVE Taken({}, d) = 0
  <2>1. {a \in {} : a.d = d} = {}
    OBVIOUS
  <2> QED  BY <2>1, NetOfNone DEF Taken
<1>2. ASSUME NEW m PROVE Spent({}, m) = 0
  <2>1. {a \in {} : a.m = m} = {}
    OBVIOUS
  <2> QED  BY <2>1, NetOfNone DEF Spent
<1> QED  BY <1>1, <1>2

\* What is taken from a balance in two parts.
LEMMA LessTwice ==
    ASSUME NEW a \in Nat, NEW b \in Nat, NEW c \in Nat
    PROVE  Less(Less(a, b), c) = Less(a, b + c)
BY DEF Less

\* Two sets of rows without a common row.
LEMMA RowsAdd ==
    ASSUME NEW S, NEW B, IsFiniteSet(S), IsFiniteSet(B), S \subseteq Row, B \subseteq Row,
           S \intersect B = {}
    PROVE  /\ IsFiniteSet(S \union B)
           /\ \A d : /\ Taken(S, d) \in Nat /\ Taken(B, d) \in Nat
                     /\ Taken(S \union B, d) = Taken(S, d) + Taken(B, d)
<1>1. \A a \in S \union B : a.net \in Nat
  BY DEF Row
<1>2. ASSUME NEW d
      PROVE  /\ Taken(S, d) \in Nat /\ Taken(B, d) \in Nat
             /\ Taken(S \union B, d) = Taken(S, d) + Taken(B, d)
  <2> DEFINE T == {a \in S : a.d = d}
             U == {a \in B : a.d = d}
             V == {a \in S \union B : a.d = d}
  <2>1. /\ T \in SUBSET S /\ U \in SUBSET B /\ V = T \union U /\ T \intersect U = {}
        /\ \A a \in T \union U : a.net \in Nat
    BY <1>1
  <2>2. IsFiniteSet(T) /\ IsFiniteSet(U)
    BY <2>1, FS_Subset
  <2>3. Taken(S, d) = NetOf(T) /\ Taken(B, d) = NetOf(U) /\ Taken(S \union B, d) = NetOf(V)
    BY DEF Taken
  <2>4. NetOf(T) \in Nat /\ NetOf(U) \in Nat
    BY <1>1, <2>1, NetOfIsNat
  <2> HIDE DEF T, U, V
  <2>5. NetOf(T \union U) = NetOf(T) + NetOf(U)
    BY <2>1, <2>2, NetOfUnion
  <2> QED  BY <2>1, <2>3, <2>4, <2>5
<1> QED  BY <1>2, FS_Union

LEMMA SpentIsNat ==
    ASSUME NEW S, IsFiniteSet(S), S \subseteq Row
    PROVE  \A m : Spent(S, m) \in Nat
<1>1. \A a \in S : a.net \in Nat
  BY DEF Row
<1> QED  BY <1>1, NetOfIsNat DEF Spent

LEMMA TakenIsNat ==
    ASSUME NEW S, IsFiniteSet(S), S \subseteq Row
    PROVE  \A d : Taken(S, d) \in Nat
<1>1. \A a \in S : a.net \in Nat
  BY DEF Row
<1> QED  BY <1>1, NetOfIsNat DEF Taken

\* Movements without rows have nothing spent.
LEMMA NothingSpent ==
    ASSUME NEW S, NEW m, \A a \in S : a.m # m
    PROVE  Spent(S, m) = 0
<1>1. {a \in S : a.m = m} = {}
  OBVIOUS
<1> QED  BY <1>1, NetOfNone DEF Spent

LEMMA FewerSpend ==
    ASSUME NEW S, IsFiniteSet(S), S \subseteq Row, NEW T \in SUBSET S, NEW m
    PROVE  Spent(T, m) \in Nat /\ Spent(S, m) \in Nat /\ Spent(T, m) <= Spent(S, m)
<1> DEFINE few == {a \in T : a.m = m}
           rest == {a \in S \ T : a.m = m}
<1>1. few \in SUBSET S /\ rest \in SUBSET S /\ few \intersect rest = {}
      /\ {a \in S : a.m = m} = few \union rest /\ \A a \in S : a.net \in Nat
  BY DEF Row
<1>2. IsFiniteSet(few) /\ IsFiniteSet(rest)
  BY <1>1, FS_Subset
<1>3. Spent(T, m) = NetOf(few) /\ Spent(S, m) = NetOf(few \union rest)
  BY <1>1 DEF Spent
<1> HIDE DEF few, rest
<1>4. NetOf(few) \in Nat /\ NetOf(rest) \in Nat
  BY <1>1, NetOfIsNat
<1>5. NetOf(few \union rest) = NetOf(few) + NetOf(rest)
  BY <1>1, <1>2, NetOfUnion
<1> QED  BY <1>3, <1>4, <1>5
----------------------------------------------------------------------------
(* The runs.                                                               *)


\* A function with one value replaced by a run that is as it should be.
LEMMA RunsStay ==
    ASSUME run \in [Runs -> RunRecord], \A q \in Runs : RunOK(run[q]),
           NEW r \in Runs, NEW u \in RunRecord, RunOK(u),
           run' = [run EXCEPT ![r] = u]
    PROVE  /\ run' \in [Runs -> RunRecord]
           /\ \A q \in Runs : RunOK(run'[q])
<1>1. run' \in [Runs -> RunRecord]
  OBVIOUS
<1>2. \A q \in Runs : run'[q] = IF q = r THEN u ELSE run[q]
  OBVIOUS
<1>3. ASSUME NEW q \in Runs PROVE RunOK(run'[q])
  <2>1. CASE q = r  BY <2>1, <1>2
  <2>2. CASE q # r  BY <2>2, <1>2
  <2> QED  BY <2>1, <2>2
<1> QED  BY <1>1, <1>3

LEMMA FreshIsOK ==
    /\ Fresh \in RunRecord /\ RunOK(Fresh)
    /\ Fresh.rows = {} /\ Fresh.open = FALSE /\ Fresh.next = 1
BY FS_EmptySet DEF Fresh, RunRecord, RunOK, Line

LEMMA EndedIsOK ==
    ASSUME NEW rejected \in SUBSET Line
    PROVE  Ended(rejected) \in RunRecord /\ RunOK(Ended(rejected))
<1>1. Ended(rejected) \in RunRecord
  BY FreshIsOK DEF Ended, RunRecord
<1>2. /\ Ended(rejected).rows = {} /\ Ended(rejected).open = FALSE
      /\ Ended(rejected).pc = "end"
  BY FreshIsOK DEF Ended, RunRecord
<1> QED  BY <1>1, <1>2, FS_EmptySet DEF RunOK

\* What a statement that fails leaves of a run.
LEMMA AbortedIsOK ==
    ASSUME NEW t \in RunRecord, t.pc = "apply"
    PROVE  /\ Aborted(t) \in RunRecord /\ RunOK(Aborted(t))
           /\ Aborted(t).rows = {} /\ Aborted(t).open = FALSE /\ Aborted(t).pc = t.pc
<1>1. [d \in Documents |-> 0] \in [Documents -> Nat]
  OBVIOUS
<1>2. Aborted(t) \in RunRecord
  BY <1>1 DEF Aborted, RunRecord
<1>3. Aborted(t).rows = {} /\ Aborted(t).open = FALSE /\ Aborted(t).pc = t.pc
  BY DEF Aborted, RunRecord
<1> QED  BY <1>2, <1>3, FS_EmptySet DEF RunOK

\* Suggestions are lines, of pairs with something due and something to give.
LEMMA SuggestionsAreLines == Suggestions \subseteq Line
<1> SUFFICES ASSUME NEW l \in Suggestions PROVE l \in Line
  OBVIOUS
<1>1. PICK p \in Suits, o \in Offers :
        l = [m |-> p[1], d |-> p[2], high |-> o.high, amount |-> o.amount, near |-> o.near]
  BY DEF Suggestions
<1>2. p \in Movements \X Documents /\ o \in [high : BOOLEAN, amount : Nat, near : BOOLEAN]
  BY StageAssumption
<1> QED  BY <1>1, <1>2 DEF Line

\* A run that has forgotten some of the rows it was to delete is as before.
LEMMA ForgetFields ==
    ASSUME NEW t \in RunRecord, NEW keys
    PROVE  /\ Forget(t, keys) \in RunRecord
           /\ Forget(t, keys).pc = t.pc /\ Forget(t, keys).gen = t.gen
           /\ Forget(t, keys).has = t.has /\ Forget(t, keys).lines = t.lines
           /\ Forget(t, keys).next = t.next /\ Forget(t, keys).rows = t.rows
           /\ Forget(t, keys).gone = t.gone /\ Forget(t, keys).cut = t.cut
           /\ Forget(t, keys).open = t.open /\ Forget(t, keys).missed = t.missed
           /\ Forget(t, keys).old = t.old \ keys
BY DEF Forget, RunRecord

LEMMA ForgetIsOK ==
    ASSUME NEW t \in RunRecord, NEW keys, RunOK(t)
    PROVE  RunOK(Forget(t, keys))
<1> DEFINE u == Forget(t, keys)
<1>1. /\ u.pc = t.pc /\ u.has = t.has /\ u.lines = t.lines /\ u.next = t.next
      /\ u.rows = t.rows /\ u.gone = t.gone /\ u.open = t.open /\ u.missed = t.missed
      /\ u.old \subseteq t.old
  BY ForgetFields
<1> HIDE DEF u
<1> QED  BY <1>1 DEF RunOK, Replaced, u

LEMMA WithoutIsTyped ==
    ASSUME request \in [Requests -> RequestRecord], NEW keys
    PROVE  Without(keys) \in [Requests -> RequestRecord]
<1> SUFFICES ASSUME NEW u \in Requests
             PROVE  (IF request[u].pc # "idle" /\ Key(request[u].row) \in keys
                     THEN [request[u] EXCEPT !.there = FALSE]
                     ELSE request[u]) \in RequestRecord
  BY DEF Without
<1>1. CASE request[u].pc # "idle" /\ Key(request[u].row) \in keys
  <2>1. request[u] \in [pc : {"read", "sum"}, row : Row, there : BOOLEAN, balance : Nat]
    BY <1>1 DEF RequestRecord, NoRequest
  <2>2. [request[u] EXCEPT !.there = FALSE]
          \in [pc : {"read", "sum"}, row : Row, there : BOOLEAN, balance : Nat]
    BY <2>1
  <2> QED  BY <1>1, <2>2 DEF RequestRecord
<1>2. CASE ~(request[u].pc # "idle" /\ Key(request[u].row) \in keys)
  BY <1>2
<1> QED  BY <1>1, <1>2

LEMMA KeysAreKeys == ASSUME NEW S \in SUBSET Row PROVE Keys(S) \subseteq RowKey
BY DEF Keys, Key, Row, RowKey

----------------------------------------------------------------------------
(* The steps of a run.                                                     *)

LEMMA StartStep == ASSUME IInv, NEW r \in Runs, Start(r) PROVE IInv'
<1> DEFINE u == [run[r] EXCEPT !.pc = "reconciled"]
<1>1. run[r] \in RunRecord /\ RunOK(run[r]) /\ run[r].pc = "start"
  BY DEF IInv, TypeOK, Start
<1>2. /\ u \in RunRecord /\ u.pc = "reconciled" /\ u.rows = run[r].rows
      /\ u.open = run[r].open
  BY <1>1 DEF RunRecord
<1>3. RunOK(u)
  BY <1>1, <1>2 DEF RunOK
<1>4. run' = [run EXCEPT ![r] = u]
  BY DEF Start
<1> HIDE DEF u
<1>5. run' \in [Runs -> RunRecord] /\ \A q \in Runs : RunOK(run'[q])
  BY <1>2, <1>3, <1>4, RunsStay DEF IInv, TypeOK
<1>6. disturbed' \in BOOLEAN
  BY DEF Start, IInv, TypeOK
<1> QED  BY <1>5, <1>6 DEF Start, movements, IInv, TypeOK

LEMMA ReadStep == ASSUME IInv, NEW r \in Runs, Read(r) PROVE IInv'
<1> DEFINE has == [m \in Movements |-> IF m \in present /\ ~Matched(m) THEN Cash[m] ELSE 0]
           v == [Fresh EXCEPT !.pc = "asked", !.has = has, !.gen = rebuilds]
           u == IF \A m \in Movements : has[m] = 0 THEN Ended({}) ELSE v
<1>1. has \in [Movements -> Nat]
  BY StageAssumption
<1>2. run' = [run EXCEPT ![r] = u]
  BY DEF Read
<1> HIDE DEF has
<1>3. /\ v \in RunRecord /\ v.pc = "asked" /\ v.rows = {} /\ v.open = FALSE /\ v.next = 1
  <2>1. rebuilds \in Nat
    BY StageAssumption DEF IInv, TypeOK
  <2> QED
    BY <1>1, <2>1, FreshIsOK DEF RunRecord
<1>4. RunOK(v)
  BY <1>3, FS_EmptySet DEF RunOK
<1> HIDE DEF v
<1>5. u \in RunRecord /\ RunOK(u)
  BY <1>3, <1>4, EndedIsOK
<1> HIDE DEF u
<1>6. run' \in [Runs -> RunRecord] /\ \A q \in Runs : RunOK(run'[q])
  BY <1>2, <1>5, RunsStay DEF IInv, TypeOK
<1>7. disturbed' \in BOOLEAN
  BY DEF Read, SetAside, IInv, TypeOK
<1> QED  BY <1>6, <1>7 DEF Read, movements, IInv, TypeOK

LEMMA AnswerStep == ASSUME IInv, NEW r \in Runs, Answer(r) PROVE IInv'
<1>1. PICK lines \in Answers(r) :
        run' = [run EXCEPT ![r].pc = "answered", ![r].lines = lines]
  BY DEF Answer
<1> DEFINE u == [run[r] EXCEPT !.pc = "answered", !.lines = lines]
<1>2. run[r] \in RunRecord /\ RunOK(run[r]) /\ run[r].pc = "asked"
  BY DEF IInv, TypeOK, Answer
<1>3. PICK n \in 0..MaxLines : lines \in [1..n -> Suggestions]
  BY DEF Answers
<1>4. lines \in Seq(Line)
  BY <1>3, SuggestionsAreLines, StageAssumption
<1>5. \A i \in DOMAIN lines : run[r].has[lines[i].m] > 0
  BY DEF Answers
<1>6. /\ u \in RunRecord /\ u.pc = "answered" /\ u.lines = lines /\ u.has = run[r].has
      /\ u.rows = run[r].rows /\ u.open = run[r].open /\ u.next = run[r].next
  BY <1>2, <1>4 DEF RunRecord
<1>7. run' = [run EXCEPT ![r] = u]
  BY <1>1
<1> HIDE DEF u
<1>8. RunOK(u)
  BY <1>2, <1>5, <1>6 DEF RunOK
<1>9. run' \in [Runs -> RunRecord] /\ \A q \in Runs : RunOK(run'[q])
  BY <1>6, <1>7, <1>8, RunsStay DEF IInv, TypeOK
<1> QED  BY <1>9 DEF Answer, movements, IInv, TypeOK

LEMMA BeginStep == ASSUME IInv, NEW r \in Runs, Begin(r) PROVE IInv'
<1> DEFINE t == run[r]
           again == {t.lines[i].m : i \in {j \in DOMAIN t.lines : t.lines[j].high}}
           old == Keys({a \in attributions : /\ a.by = "llm" /\ a.m \in again
                                             /\ t.gen = rebuilds})
           u == [t EXCEPT !.pc = "clear", !.old = old]
<1>1. t \in RunRecord /\ RunOK(t) /\ t.pc = "answered"
  BY DEF IInv, TypeOK, Begin
<1>2. run' = [run EXCEPT ![r] = u]
  BY DEF Begin
<1>3. old \subseteq RowKey
  BY KeysAreKeys DEF IInv, TypeOK
<1>4. \A k \in old : \E j \in DOMAIN t.lines : t.lines[j].high /\ t.lines[j].m = k[1]
  BY DEF Keys, Key
<1> HIDE DEF old
<1>5. /\ u \in RunRecord /\ u.pc = "clear" /\ u.old = old /\ u.rows = t.rows
      /\ u.has = t.has /\ u.lines = t.lines /\ u.next = t.next /\ u.open = t.open
  BY <1>1, <1>3 DEF RunRecord
<1> HIDE DEF t, u
<1>6. RunOK(u)
  BY <1>1, <1>4, <1>5 DEF RunOK
<1>7. run' \in [Runs -> RunRecord] /\ \A q \in Runs : RunOK(run'[q])
  BY <1>2, <1>5, <1>6, RunsStay DEF IInv, TypeOK
<1> QED  BY <1>7 DEF Begin, movements, IInv, TypeOK

LEMMA ClearStep == ASSUME IInv, NEW r \in Runs, Clear(r) PROVE IInv'
<1> DEFINE t == run[r]
           gone == {a \in attributions : Key(a) \in t.old}
           u == [t EXCEPT !.pc = "apply", !.open = TRUE, !.old = {}, !.gone = gone]
<1>1. t \in RunRecord /\ RunOK(t) /\ t.pc = "clear"
  BY DEF IInv, TypeOK, Clear
<1>2. run' = [run EXCEPT ![r] = u]
  BY DEF Clear
<1>3. gone \subseteq Row
  BY DEF IInv, TypeOK
<1>4. \A a \in gone : \E j \in DOMAIN t.lines : t.lines[j].high /\ t.lines[j].m = a.m
  BY <1>1 DEF RunOK, Key
<1> HIDE DEF gone
<1>5. /\ u \in RunRecord /\ u.pc = "apply" /\ u.open /\ u.gone = gone /\ u.rows = t.rows
      /\ u.has = t.has /\ u.lines = t.lines /\ u.next = t.next
  BY <1>1, <1>3 DEF RunRecord
<1> HIDE DEF t, u
<1>6. t.next = 1 /\ t.rows = {} /\ \A i \in DOMAIN t.lines : t.has[t.lines[i].m] > 0
  BY <1>1 DEF RunOK
<1>7. DOMAIN t.lines = 1..Len(t.lines)
  BY <1>1 DEF RunRecord
<1>8. ASSUME NEW a \in gone PROVE Replaced(u, a.m)
  <2>1. PICK j \in DOMAIN t.lines : t.lines[j].high /\ t.lines[j].m = a.m
    BY <1>4
  <2> QED  BY <2>1, <1>5, <1>6, <1>7 DEF Replaced
<1>9. RunOK(u)
  BY <1>1, <1>5, <1>6, <1>8 DEF RunOK
<1>10. run' \in [Runs -> RunRecord] /\ \A q \in Runs : RunOK(run'[q])
  BY <1>2, <1>5, <1>9, RunsStay DEF IInv, TypeOK
<1> QED  BY <1>10 DEF Clear, movements, IInv, TypeOK

\* The suggestion whose turn it is.
LEMMA CurrentIsLine ==
    ASSUME IInv, NEW r \in Runs, InLoop(r)
    PROVE  /\ Current(r) \in Line
           /\ Current(r) = run[r].lines[run[r].next]
           /\ run[r] \in RunRecord /\ RunOK(run[r])
           /\ run[r].pc = "apply" /\ run[r].next \in 1..Len(run[r].lines)
BY DEF IInv, TypeOK, InLoop, Current, RunRecord

\* A movement whose turn has passed without a suggestion for it is as before.
LEMMA StillReplaced ==
    ASSUME NEW t \in RunRecord, NEW u \in RunRecord, NEW m \in Movements, Replaced(t, m),
           t.next \in 1..Len(t.lines), u.next = t.next + 1, u.lines = t.lines,
           t.rows \subseteq u.rows,
           \/ t.lines[t.next].m # m /\ u.has[m] = t.has[m]
           \/ u.has[m] = t.has[m] /\ (~t.lines[t.next].high \/ t.has[m] = 0)
           \/ \E b \in u.rows : b.m = m
    PROVE  Replaced(u, m)
<1>1. t.has[m] \in Nat /\ Len(t.lines) \in Nat /\ t.next \in Nat
  BY DEF RunRecord
<1>2. CASE \E b \in t.rows : b.m = m
  BY <1>2 DEF Replaced
<1>3. CASE \E b \in u.rows : b.m = m
  BY <1>3 DEF Replaced
<1>4. CASE ~(\E b \in t.rows : b.m = m) /\ ~(\E b \in u.rows : b.m = m)
  <2>1. t.has[m] > 0 /\ u.has[m] = t.has[m]
    BY <1>4 DEF Replaced
  <2>2. PICK i \in t.next..Len(t.lines) : t.lines[i].high /\ t.lines[i].m = m
    BY <1>4 DEF Replaced
  <2>3. i # t.next
    BY <1>1, <1>4, <2>1, <2>2
  <2>4. i \in u.next..Len(u.lines)
    BY <1>1, <2>2, <2>3
  <2> QED  BY <2>1, <2>2, <2>4 DEF Replaced
<1> QED  BY <1>2, <1>3, <1>4

LEMMA SkipStep == ASSUME IInv, NEW r \in Runs, SkipLine(r) PROVE IInv'
<1> DEFINE t == run[r]
           u == [t EXCEPT !.next = t.next + 1]
<1>1. InLoop(r) /\ (~Current(r).high \/ t.has[Current(r).m] = 0)
  BY DEF SkipLine
<1>2. /\ t \in RunRecord /\ RunOK(t) /\ t.pc = "apply" /\ t.next \in 1..Len(t.lines)
      /\ Current(r) = t.lines[t.next]
  BY <1>1, CurrentIsLine
<1>3. run' = [run EXCEPT ![r] = u]
  BY DEF SkipLine
<1>4. /\ u \in RunRecord /\ u.pc = "apply" /\ u.open = t.open /\ u.gone = t.gone
      /\ u.rows = t.rows /\ u.has = t.has /\ u.lines = t.lines /\ u.next = t.next + 1
      /\ u.missed = t.missed
  <2>1. t.next + 1 \in Nat \ {0}
    BY <1>2 DEF RunRecord
  <2> HIDE DEF t
  <2> QED  BY <1>2, <2>1 DEF RunRecord
<1> HIDE DEF t, u
<1>5. ASSUME t.open, ~t.missed, NEW a \in t.gone PROVE Replaced(u, a.m)
  <2>1. Replaced(t, a.m) /\ a.m \in Movements
    BY <1>2, <1>5 DEF RunOK, RunRecord, Row
  <2>2. \/ t.lines[t.next].m # a.m
        \/ ~t.lines[t.next].high \/ t.has[a.m] = 0
    BY <1>1, <1>2
  <2> QED  BY <1>2, <1>4, <2>1, <2>2, StillReplaced
<1>6. RunOK(u)
  BY <1>2, <1>4, <1>5 DEF RunOK
<1>7. run' \in [Runs -> RunRecord] /\ \A q \in Runs : RunOK(run'[q])
  BY <1>3, <1>4, <1>6, RunsStay DEF IInv, TypeOK
<1> QED  BY <1>7 DEF SkipLine, movements, IInv, TypeOK

LEMMA ApplyStep == ASSUME IInv, NEW r \in Runs, ApplyLine(r) PROVE IInv'
<1> DEFINE t == run[r]
           l == Current(r)
           net == Lesser(Named(l), t.has[l.m])
           row == [m |-> l.m, d |-> l.d, by |-> "llm", net |-> net]
           left2 == [t.has EXCEPT ![l.m] = t.has[l.m] - net]
           cut2 == [t.cut EXCEPT ![l.d] = t.cut[l.d] + net]
           u == [t EXCEPT !.next = t.next + 1, !.has = left2, !.rows = t.rows \union {row}, !.cut = cut2]
<1>1. InLoop(r) /\ l.high /\ t.has[l.m] > 0 /\ t.open
  BY DEF ApplyLine
<1>2. /\ t \in RunRecord /\ RunOK(t) /\ t.pc = "apply" /\ t.next \in 1..Len(t.lines)
      /\ l = t.lines[t.next] /\ l \in Line
  BY <1>1, CurrentIsLine
<1>3. run' = [run EXCEPT ![r] = u]
  BY DEF ApplyLine
<1>4. l.m \in Movements /\ l.d \in Documents /\ l.amount \in Nat
  BY <1>2 DEF Line
<1> HIDE DEF t, l
<1>5. t.has \in [Movements -> Nat] /\ t.cut \in [Documents -> Nat]
  BY <1>2 DEF RunRecord
<1>6. Named(l) \in Nat /\ Named(l) > 0
  BY <1>4, StageAssumption DEF Named
<1>7. net \in Nat \ {0} /\ net <= t.has[l.m]
  BY <1>1, <1>4, <1>5, <1>6 DEF Lesser
<1> HIDE DEF net
<1>8. left2 \in [Movements -> Nat] /\ \A m \in Movements : m # l.m => left2[m] = t.has[m]
  BY <1>4, <1>5, <1>7
<1>9. cut2 \in [Documents -> Nat]
  BY <1>4, <1>5, <1>7
<1>10. row \in Row /\ row.m = l.m /\ row.by = "llm"
  BY <1>4, <1>7 DEF Row
<1> HIDE DEF left2, cut2, row
<1>11. /\ u \in RunRecord /\ u.pc = "apply" /\ u.open = t.open /\ u.gone = t.gone
       /\ u.rows = t.rows \union {row} /\ u.has = left2 /\ u.lines = t.lines
       /\ u.next = t.next + 1 /\ u.missed = t.missed
  <2>1. t.next + 1 \in Nat \ {0}
    BY <1>2 DEF RunRecord
  <2>2. t.rows \union {row} \in SUBSET Row
    BY <1>2, <1>10 DEF RunRecord
  <2> QED  BY <1>2, <1>8, <1>9, <2>1, <2>2 DEF RunRecord
<1> HIDE DEF u
<1>12. ASSUME ~t.missed, NEW a \in t.gone PROVE Replaced(u, a.m)
  <2>1. Replaced(t, a.m) /\ a.m \in Movements
    BY <1>1, <1>2, <1>12 DEF RunOK, RunRecord, Row
  <2>2. CASE a.m = l.m
    BY <2>1, <2>2, <1>2, <1>10, <1>11, StillReplaced
  <2>3. CASE a.m # l.m
    BY <2>1, <2>3, <1>2, <1>8, <1>11, StillReplaced
  <2> QED  BY <2>2, <2>3
<1>13. RunOK(u)
  BY <1>2, <1>10, <1>11, <1>12, FS_AddElement DEF RunOK
<1>14. run' \in [Runs -> RunRecord] /\ \A q \in Runs : RunOK(run'[q])
  BY <1>3, <1>11, <1>13, RunsStay DEF IInv, TypeOK
<1> QED  BY <1>14 DEF ApplyLine, movements, IInv, TypeOK

LEMMA FailStep == ASSUME IInv, NEW r \in Runs, LineFails(r) PROVE IInv'
<1> DEFINE t == run[r]
           v == Aborted(t)
           u == [v EXCEPT !.next = t.next + 1]
<1>1. t \in RunRecord /\ t.pc = "apply"
  BY CurrentIsLine DEF LineFails
<1>2. v \in RunRecord /\ v.rows = {} /\ v.open = FALSE /\ v.pc = "apply"
  BY <1>1, AbortedIsOK
<1>3. run' = [run EXCEPT ![r] = u]
  BY DEF LineFails
<1>4. t.next + 1 \in Nat \ {0}
  BY <1>1 DEF RunRecord
<1> HIDE DEF t, v
<1>5. u \in RunRecord /\ u.rows = {} /\ u.open = FALSE /\ u.pc = "apply"
  BY <1>2, <1>4 DEF RunRecord
<1> HIDE DEF u
<1>6. RunOK(u)
  BY <1>5, FS_EmptySet DEF RunOK
<1>7. run' \in [Runs -> RunRecord] /\ \A q \in Runs : RunOK(run'[q])
  BY <1>3, <1>5, <1>6, RunsStay DEF IInv, TypeOK
<1>8. faults' \in 0..MaxFaults
  BY StageAssumption DEF LineFails, Fault, IInv, TypeOK
<1> QED  BY <1>7, <1>8 DEF LineFails, movements, IInv, TypeOK

LEMMA VanishStep == ASSUME IInv, NEW r \in Runs, RowVanishes(r) PROVE IInv'
<1> DEFINE t == run[r]
           u == [t EXCEPT !.next = t.next + 1, !.missed = TRUE]
<1>1. t \in RunRecord /\ RunOK(t) /\ t.pc = "apply"
  BY CurrentIsLine DEF RowVanishes
<1>2. run' = [run EXCEPT ![r] = u]
  BY DEF RowVanishes
<1>3. t.next + 1 \in Nat \ {0}
  BY <1>1 DEF RunRecord
<1> HIDE DEF t
<1>4. u \in RunRecord /\ u.pc = "apply" /\ u.rows = t.rows /\ u.missed
  BY <1>1, <1>3 DEF RunRecord
<1> HIDE DEF u
<1>5. RunOK(u)
  BY <1>1, <1>4 DEF RunOK
<1>6. run' \in [Runs -> RunRecord] /\ \A q \in Runs : RunOK(run'[q])
  BY <1>2, <1>4, <1>5, RunsStay DEF IInv, TypeOK
<1> QED  BY <1>6 DEF RowVanishes, movements, IInv, TypeOK

LEMMA CommitStep == ASSUME IInv, NEW r \in Runs, Commit(r) PROVE IInv'
<1> DEFINE t == run[r]
           v == Aborted(t)
           u == [v EXCEPT !.pc = "applied", !.missed = FALSE]
<1>1. t \in RunRecord /\ t.pc = "apply"
  BY DEF Commit, IInv, TypeOK
<1>2. v \in RunRecord /\ v.rows = {} /\ v.open = FALSE /\ v.pc = "apply"
  BY <1>1, AbortedIsOK
<1>3. \/ run' = [run EXCEPT ![r] = u]
      \/ run' = [q \in Runs |-> IF q = r THEN u ELSE Forget(run[q], Keys(t.gone))]
  BY DEF Commit, Committed
<1>4. attributions' \subseteq Row /\ disturbed' \in BOOLEAN
      /\ request' \in [Requests -> RequestRecord]
  BY <1>1, WithoutIsTyped DEF Commit, Committed, Upserted, InTheWay, RunRecord, IInv, TypeOK
<1>5. left' \in [Documents -> Nat]
  <2>1. CASE left' = left
    BY <2>1 DEF IInv, TypeOK
  <2>2. CASE left' = [d \in Documents |-> Less(left[d], t.cut[d])]
    <3>1. left \in [Documents -> Nat] /\ t.cut \in [Documents -> Nat]
      BY <1>1 DEF RunRecord, IInv, TypeOK
    <3>2. \A d \in Documents : Less(left[d], t.cut[d]) \in Nat
      BY <3>1 DEF Less
    <3> QED  BY <2>2, <3>2
  <2> QED  BY <2>1, <2>2 DEF Commit
<1> HIDE DEF t, v
<1>6. u \in RunRecord /\ u.rows = {} /\ u.open = FALSE /\ u.pc = "applied"
  BY <1>2 DEF RunRecord
<1> HIDE DEF u
<1>7. RunOK(u)
  BY <1>6, FS_EmptySet DEF RunOK
<1>8. run' \in [Runs -> RunRecord] /\ \A q \in Runs : RunOK(run'[q])
  <2>1. CASE run' = [run EXCEPT ![r] = u]
    BY <2>1, <1>6, <1>7, RunsStay DEF IInv, TypeOK
  <2>2. CASE run' = [q \in Runs |-> IF q = r THEN u ELSE Forget(run[q], Keys(t.gone))]
    BY <2>2, <1>6, <1>7, ForgetFields, ForgetIsOK DEF IInv, TypeOK
  <2> QED  BY <1>3, <2>1, <2>2
<1>9. IsFiniteSet(attributions')
  <2>1. IsFiniteSet(attributions) /\ IsFiniteSet(run[r].rows)
    BY DEF IInv, RunOK
  <2>2. IsFiniteSet(attributions \union run[r].rows)
    BY <2>1, FS_Union
  <2>3. attributions' \subseteq attributions \union run[r].rows
    BY DEF Commit, Committed, Upserted
  <2> QED  BY <2>2, <2>3, FS_Subset
<1> QED  BY <1>4, <1>5, <1>8, <1>9 DEF Commit, movements, IInv, TypeOK

LEMMA FilterStep == ASSUME IInv, NEW r \in Runs, Filter(r) PROVE IInv'
<1> DEFINE lines == {run[r].lines[i] : i \in DOMAIN run[r].lines}
           rejected == {l \in lines : ~Grounded(l)}
<1>1. run[r] \in RunRecord
  BY DEF IInv, TypeOK
<1>2. rejected \in SUBSET Line
  BY <1>1 DEF RunRecord
<1>3. run' = [run EXCEPT ![r] = Ended(rejected)]
  BY DEF Filter
<1> HIDE DEF rejected
<1>4. run' \in [Runs -> RunRecord] /\ \A q \in Runs : RunOK(run'[q])
  BY <1>2, <1>3, EndedIsOK, RunsStay DEF IInv, TypeOK
<1> QED  BY <1>4 DEF Filter, movements, IInv, TypeOK

LEMMA LostStep == ASSUME IInv, NEW r \in Runs, Lost(r) PROVE IInv'
<1>1. run' \in [Runs -> RunRecord] /\ \A q \in Runs : RunOK(run'[q])
  BY EndedIsOK, RunsStay DEF Lost, IInv, TypeOK
<1>2. faults' \in 0..MaxFaults
  BY StageAssumption DEF Lost, Fault, IInv, TypeOK
<1> QED  BY <1>1, <1>2 DEF Lost, movements, IInv, TypeOK

----------------------------------------------------------------------------
(* The steps of the others.                                                *)

LEMMA OtherStep ==
    ASSUME IInv, NEW p \in Planned, OtherWaterfall(p)
    PROVE  IInv'
<1>1. p \in [m : Movements, d : Documents, x : Nat \ {0}]
  BY StageAssumption
<1>2. attributions' \subseteq Row
  BY <1>1 DEF OtherWaterfall, Row, IInv, TypeOK
<1>3. left' \in [Documents -> Nat]
  <2>1. left \in [Documents -> Nat]
    BY DEF IInv, TypeOK
  <2>2. Less(left[p.d], p.x) \in Nat
    BY <1>1, <2>1 DEF Less
  <2> QED  BY <2>1, <2>2 DEF OtherWaterfall
<1>4. run' \in [Runs -> RunRecord] /\ \A q \in Runs : RunOK(run'[q])
  BY DEF OtherWaterfall, IInv, TypeOK
<1>5. disturbed' \in BOOLEAN
  BY DEF OtherWaterfall, InTheWay, IInv, TypeOK
<1>6. IsFiniteSet(attributions')
  BY FS_AddElement DEF OtherWaterfall, IInv
<1> QED  BY <1>2, <1>3, <1>4, <1>5, <1>6 DEF OtherWaterfall, movements, IInv, TypeOK

LEMMA UnmatchReadStep ==
    ASSUME IInv, NEW u \in Requests, NEW a \in attributions, UnmatchRead(u, a)
    PROVE  IInv'
<1>1. a \in Row
  BY DEF IInv, TypeOK
<1>2. [pc |-> "read", row |-> a, there |-> TRUE, balance |-> 0] \in RequestRecord
  BY <1>1 DEF RequestRecord
<1>3. request' \in [Requests -> RequestRecord]
  BY <1>2 DEF UnmatchRead, IInv, TypeOK
<1> QED  BY <1>3 DEF UnmatchRead, movements, IInv, TypeOK

\* What a request has read is a row.
LEMMA RowOfRequest ==
    ASSUME TypeOK, NEW u \in Requests, request[u].pc # "idle"
    PROVE  /\ request[u] \in [pc : {"read", "sum"}, row : Row, there : BOOLEAN, balance : Nat]
           /\ request[u].row \in Row /\ request[u].row.d \in Documents
           /\ request[u].balance \in Nat
<1>1. request[u] \in [pc : {"read", "sum"}, row : Row, there : BOOLEAN, balance : Nat]
  BY DEF TypeOK, RequestRecord, NoRequest
<1> QED  BY <1>1 DEF Row

LEMMA UnmatchSumStep ==
    ASSUME IInv, NEW u \in Requests, UnmatchSum(u) PROVE IInv'
<1> DEFINE a == request[u].row
           others == IF request[u].there
                     THEN {b \in attributions : Key(b) # Key(a)}
                     ELSE attributions
           balance == Less(Due[a.d], Taken(others, a.d))
<1>1. request[u] \in [pc : {"read", "sum"}, row : Row, there : BOOLEAN, balance : Nat]
      /\ a.d \in Documents
  BY RowOfRequest DEF UnmatchSum, IInv
<1>2. request' = [request EXCEPT ![u].pc = "sum", ![u].balance = balance]
  BY DEF UnmatchSum
<1>3. others \subseteq attributions
  OBVIOUS
<1> HIDE DEF others
<1>4. Taken(others, a.d) \in Nat
  BY <1>3, TakenIsNat, FS_Subset DEF IInv, TypeOK
<1>5. balance \in Nat
  <2>1. Due[a.d] \in Nat
    BY <1>1, StageAssumption
  <2> QED  BY <1>4, <2>1 DEF Less
<1> HIDE DEF balance, a
<1>6. request' \in [Requests -> RequestRecord]
  BY <1>1, <1>2, <1>5 DEF RequestRecord, IInv, TypeOK
<1>7. disturbed' \in BOOLEAN
  BY DEF UnmatchSum, SetAside, IInv, TypeOK
<1> QED  BY <1>6, <1>7 DEF UnmatchSum, movements, IInv, TypeOK

LEMMA UnmatchCommitStep ==
    ASSUME IInv, NEW u \in Requests, UnmatchCommit(u) PROVE IInv'
<1> DEFINE keys == IF request[u].there THEN {Key(request[u].row)} ELSE {}
<1>1. request[u].pc # "idle"
  BY DEF UnmatchCommit, Summed
<1>2. left' \in [Documents -> Nat]
  BY <1>1, RowOfRequest DEF UnmatchCommit, IInv, TypeOK
<1>3. attributions' \subseteq Row /\ disturbed' \in BOOLEAN
  BY DEF UnmatchCommit, InTheWay, IInv, TypeOK
<1>4. run' = [r \in Runs |-> Forget(run[r], keys)]
  BY DEF UnmatchCommit
<1>5. request' = [Without(keys) EXCEPT ![u] = NoRequest]
  BY DEF UnmatchCommit
<1> HIDE DEF keys
<1>6. run' \in [Runs -> RunRecord] /\ \A q \in Runs : RunOK(run'[q])
  BY <1>4, ForgetFields, ForgetIsOK DEF IInv, TypeOK
<1>7. request' \in [Requests -> RequestRecord]
  <2>1. Without(keys) \in [Requests -> RequestRecord] /\ NoRequest \in RequestRecord
    BY WithoutIsTyped DEF IInv, TypeOK, RequestRecord
  <2> QED  BY <1>5, <2>1
<1>8. IsFiniteSet(attributions')
  BY FS_Subset DEF UnmatchCommit, IInv
<1> QED  BY <1>2, <1>3, <1>6, <1>7, <1>8 DEF UnmatchCommit, movements, IInv, TypeOK

LEMMA UnmatchFailsStep ==
    ASSUME IInv, NEW u \in Requests, UnmatchFails(u) PROVE IInv'
<1>1. request' \in [Requests -> RequestRecord]
  BY DEF UnmatchFails, RequestRecord, IInv, TypeOK
<1>2. faults' \in 0..MaxFaults
  BY StageAssumption DEF UnmatchFails, Fault, IInv, TypeOK
<1> QED  BY <1>1, <1>2 DEF UnmatchFails, movements, IInv, TypeOK

\* What is left to restore of rows.
LEMMA RestoringIsTyped ==
    ASSUME NEW rows \in SUBSET Row
    PROVE  /\ Restoring(rows) \in RebuildRecord /\ Restoring(rows).saved = rows
           /\ Restoring(rows).pc = IF rows = {} THEN "idle" ELSE "restore"
BY DEF Restoring, RebuildRecord

LEMMA SaveStep == ASSUME IInv, SaveAttributions PROVE IInv'
<1>1. rebuild' \in RebuildRecord
  BY DEF SaveAttributions, RebuildRecord, IInv, TypeOK
<1>2. faults' \in 0..MaxFaults
  BY StageAssumption DEF SaveAttributions, Fault, IInv, TypeOK
<1>4. disturbed' \in BOOLEAN
  BY DEF SaveAttributions, IInv, TypeOK
<1>3. IsFiniteSet(rebuild'.saved)
  BY FS_EmptySet DEF SaveAttributions, IInv
<1> QED  BY <1>1, <1>2, <1>3, <1>4 DEF SaveAttributions, IInv, TypeOK

LEMMA DeleteStep == ASSUME IInv, DeleteMovements PROVE IInv'
<1>1. rebuild' \in RebuildRecord
  BY DEF DeleteMovements, RebuildRecord, IInv, TypeOK
<1>2. run' = [r \in Runs |-> Forget(run[r], Keys(attributions))]
  BY DEF DeleteMovements
<1>3. run' \in [Runs -> RunRecord] /\ \A q \in Runs : RunOK(run'[q])
  BY <1>2, ForgetFields, ForgetIsOK DEF IInv, TypeOK
<1>4. request' \in [Requests -> RequestRecord]
  BY WithoutIsTyped DEF DeleteMovements, IInv, TypeOK
<1>5. IsFiniteSet(attributions') /\ rebuild'.saved = rebuild.saved
  BY FS_EmptySet DEF DeleteMovements, IInv, TypeOK, RebuildRecord
<1>6. rebuilds' \in 0..MaxRebuilds /\ rebuild'.pc = "insert"
  BY StageAssumption DEF DeleteMovements, IInv, TypeOK, RebuildRecord
<1> QED  BY <1>1, <1>3, <1>4, <1>5, <1>6 DEF DeleteMovements, IInv, TypeOK

LEMMA InsertStep == ASSUME IInv, InsertBatch PROVE IInv'
<1>1. rebuild.saved \in SUBSET Row
  BY DEF IInv, TypeOK, RebuildRecord
<1>2. rebuild' \in RebuildRecord
  BY <1>1, RestoringIsTyped DEF InsertBatch, IInv, TypeOK
<1>3. present' \subseteq Movements
  BY DEF InsertBatch, IInv, TypeOK
<1>4. rebuild'.saved = rebuild.saved /\ rebuild'.pc # "delete"
  BY <1>1, RestoringIsTyped DEF InsertBatch
<1> QED  BY <1>2, <1>3, <1>4 DEF InsertBatch, IInv, TypeOK

LEMMA RestoreStep ==
    ASSUME IInv, NEW a \in rebuild.saved, RestoreRow(a) PROVE IInv'
<1>1. rebuild.saved \in SUBSET Row
  BY DEF IInv, TypeOK, RebuildRecord
<1>2. rebuild' \in RebuildRecord
  BY <1>1, RestoringIsTyped DEF RestoreRow
<1>3. attributions' \subseteq Row /\ disturbed' \in BOOLEAN
  BY <1>1 DEF RestoreRow, IInv, TypeOK
<1>6. rebuild'.pc # "delete"
  BY <1>1, RestoringIsTyped DEF RestoreRow
<1>4. IsFiniteSet(attributions') /\ IsFiniteSet(rebuild'.saved)
  <2>1. rebuild'.saved = rebuild.saved \ {a}
    BY <1>1, RestoringIsTyped DEF RestoreRow
  <2> QED  BY <2>1, FS_AddElement, FS_RemoveElement DEF RestoreRow, IInv
<1> QED  BY <1>2, <1>3, <1>4, <1>6 DEF RestoreRow, IInv, TypeOK

LEMMA RebuildFailsStep == ASSUME IInv, RebuildFails PROVE IInv'
<1>1. rebuild' \in RebuildRecord
  BY RestoringIsTyped DEF RebuildFails
<1>2. faults' \in 0..MaxFaults /\ disturbed' \in BOOLEAN
  BY StageAssumption DEF RebuildFails, Fault, SetAside, IInv, TypeOK
<1>3. IsFiniteSet(rebuild'.saved) /\ rebuild'.pc # "delete"
  BY RestoringIsTyped, FS_EmptySet DEF RebuildFails
<1> QED  BY <1>1, <1>2, <1>3 DEF RebuildFails, IInv, TypeOK

----------------------------------------------------------------------------
(* The theorems.                                                           *)

LEMMA InitIsOK == Init => IInv
<1> SUFFICES ASSUME Init PROVE IInv
  OBVIOUS
<1>1. run \in [Runs -> RunRecord] /\ \A q \in Runs : RunOK(run[q])
  BY FreshIsOK DEF Init
<1>2. left \in [Documents -> Nat]
  BY StageAssumption DEF Init
<1>3. attributions \subseteq Row /\ disturbed \in BOOLEAN /\ present \subseteq Movements
  BY DEF Init
<1>4. rebuilds \in 0..MaxRebuilds /\ faults \in 0..MaxFaults
  BY StageAssumption DEF Init
<1>5. rebuild \in RebuildRecord /\ rebuild.saved = {} /\ rebuild.pc # "delete"
  BY RestoringIsTyped DEF Init
<1>6. request \in [Requests -> RequestRecord]
  BY DEF Init, RequestRecord
<1>7. TypeOK
  BY <1>1, <1>2, <1>3, <1>4, <1>5, <1>6 DEF TypeOK
<1> QED  BY <1>1, <1>5, <1>7, FS_EmptySet DEF IInv, Init

LEMMA NextKeeps == IInv /\ [Next]_vars => IInv'
<1> SUFFICES ASSUME IInv, [Next]_vars PROVE IInv'
  OBVIOUS
<1>1. ASSUME NEW r \in Runs, Step(r) PROVE IInv'
  BY <1>1, StartStep, ReadStep, AnswerStep, BeginStep, ClearStep, SkipStep, ApplyStep,
     FailStep, VanishStep, CommitStep, FilterStep DEF Step
<1>2. ASSUME NEW r \in Runs, Lost(r) PROVE IInv'
  BY <1>2, LostStep
<1>3. ASSUME NEW p \in Planned, OtherWaterfall(p) PROVE IInv'
  BY <1>3, OtherStep
<1>4. ASSUME NEW u \in Requests, Unmatch(u) PROVE IInv'
  BY <1>4, UnmatchReadStep, UnmatchSumStep, UnmatchCommitStep, UnmatchFailsStep DEF Unmatch
<1>5. CASE Rebuild
  BY <1>5, SaveStep, DeleteStep, InsertStep, RestoreStep, RebuildFailsStep DEF Rebuild
<1>6. CASE UNCHANGED vars
  BY <1>6 DEF vars, movements, IInv, TypeOK
<1> QED  BY <1>1, <1>2, <1>3, <1>4, <1>5, <1>6 DEF Next

\* The inductive invariant holds of every reachable state of stage 4
\* (runLLMStage4 and applyLLMMatchesWithClear), for any number of runs,
\* movements, documents, suggestions, requests, rebuilds and failures.
THEOREM StageInvariant == Spec => []IInv
<1> QED  BY InitIsOK, NextKeeps, PTL DEF Spec

\* Every variable keeps its kind; no balance falls below zero.
THEOREM StageTypeOK == Spec => []TypeOK
<1>1. IInv => TypeOK
  BY DEF IInv
<1> QED  BY <1>1, StageInvariant, PTL

LEMMA CommitKeepsRows ==
    ASSUME IInv, NEW r \in Runs, Commit(r), ~run[r].missed,
           NEW m \in Movements, ModelRows(m) # {}
    PROVE  ModelRows(m)' # {}
<1>1. PICK a \in attributions : a.m = m /\ a.by = "llm"
  BY DEF ModelRows
<1> DEFINE t == run[r]
<1>2. t \in RunRecord /\ RunOK(t) /\ ~t.missed
  BY DEF IInv, TypeOK
<1>3. /\ t.open => attributions' = Upserted(attributions \ t.gone, t.rows)
      /\ ~t.open => attributions' = attributions
      /\ t.next > Len(t.lines)
  BY DEF Commit, Committed
<1> HIDE DEF t
<1>4. CASE ~t.open
  BY <1>1, <1>3, <1>4 DEF ModelRows
<1>5. CASE t.open /\ a \in t.gone
  <2>1. Replaced(t, m)
    BY <1>1, <1>2, <1>5 DEF RunOK
  <2>2. t.next \in Nat /\ Len(t.lines) \in Nat
    BY <1>2 DEF RunRecord
  <2>3. PICK b \in t.rows : b.m = m
    BY <1>3, <2>1, <2>2 DEF Replaced
  <2>4. b.by = "llm" /\ b \in attributions'
    BY <1>2, <1>3, <1>5, <2>3 DEF RunOK, Upserted
  <2> QED  BY <2>3, <2>4 DEF ModelRows
<1>6. CASE t.open /\ a \notin t.gone
  <2>1. CASE \E b \in t.rows : Key(b) = Key(a)
    <3>1. PICK b \in t.rows : Key(b) = Key(a)
      BY <2>1
    <3>2. b.m = m /\ b.by = "llm" /\ b \in attributions'
      BY <1>1, <1>3, <1>6, <3>1 DEF Key, Upserted
    <3> QED  BY <3>2 DEF ModelRows
  <2>2. CASE \A b \in t.rows : Key(a) # Key(b)
    <3>1. a \in attributions'
      BY <1>1, <1>3, <1>6, <2>2 DEF Upserted
    <3> QED  BY <1>1, <3>1 DEF ModelRows
  <2> QED  BY <2>1, <2>2
<1> QED  BY <1>4, <1>5, <1>6

LEMMA StepKeepsRows ==
    ASSUME IInv, Next, NEW m \in Movements, ModelRows(m) # {}
    PROVE  \/ ModelRows(m)' # {}
           \/ DeleteMovements
           \/ \E u \in Requests : UnmatchCommit(u)
           \/ \E r \in Runs : run[r].missed /\ Commit(r)
<1>1. attributions \subseteq attributions' => ModelRows(m)' # {}
  BY DEF ModelRows
<1>2. ASSUME NEW r \in Runs, Commit(r)
      PROVE  ModelRows(m)' # {} \/ run[r].missed
  BY <1>2, CommitKeepsRows
<1>3. ASSUME NEW r \in Runs, Step(r) \/ Lost(r), ~Commit(r)
      PROVE  attributions \subseteq attributions'
  BY <1>3 DEF Step, Start, Read, Answer, Begin, Clear, SkipLine, ApplyLine, LineFails,
     RowVanishes, Filter, Lost
<1>4. ASSUME NEW p \in Planned, OtherWaterfall(p) PROVE attributions \subseteq attributions'
  BY <1>4 DEF OtherWaterfall
<1>5. ASSUME NEW u \in Requests, Unmatch(u), ~UnmatchCommit(u)
      PROVE  attributions \subseteq attributions'
  BY <1>5 DEF Unmatch, UnmatchRead, UnmatchSum, UnmatchFails
<1>6. ASSUME Rebuild, ~DeleteMovements PROVE attributions \subseteq attributions'
  BY <1>6 DEF Rebuild, SaveAttributions, InsertBatch, RestoreRow, RebuildFails
<1> QED  BY <1>1, <1>2, <1>3, <1>4, <1>5, <1>6 DEF Next

\* Readers never see a movement lose all rows of the model because a run
\* replaces them, although applyLLMMatchesWithClear deletes them before it
\* inserts new ones, statements fail, and runs overlap; unless the run has
\* missed a row that it was to overwrite.  A rebuild and an unmatch may.
THEOREM NeverSeenWithout == Spec => NeverWithout
<1> DEFINE Keeps ==
      \A m \in Movements :
          ModelRows(m) # {} => \/ ModelRows(m)' # {}
                               \/ DeleteMovements
                               \/ \E u \in Requests : UnmatchCommit(u)
                               \/ \E r \in Runs : run[r].missed /\ Commit(r)
<1>1. IInv /\ [Next]_vars => [Keeps]_vars
  <2> SUFFICES ASSUME IInv, Next PROVE Keeps
    OBVIOUS
  <2>1. ASSUME NEW m \in Movements, ModelRows(m) # {}
        PROVE  \/ ModelRows(m)' # {}
               \/ DeleteMovements
               \/ \E u \in Requests : UnmatchCommit(u)
               \/ \E r \in Runs : run[r].missed /\ Commit(r)
    BY <2>1, StepKeepsRows
  <2> QED  BY <2>1
<1>2. [][Keeps]_vars => NeverWithout
  BY PTL DEF NeverWithout
<1> HIDE DEF Keeps
<1> QED  BY <1>1, <1>2, StageInvariant, PTL DEF Spec

----------------------------------------------------------------------------
(* The invariant of the sums.                                              *)

\* What a run has counted: the balances it takes off are those of its rows, it
\* gives no more of a movement than its cash, and each row stands for a
\* suggestion whose turn has passed, the only one for its pair.
Counted(t) ==
    /\ \A d \in Documents : t.cut[d] = Taken(t.rows, d)
    /\ \A m \in Movements : Spent(t.rows, m) + t.has[m] <= Cash[m]
    /\ \A i, j \in DOMAIN t.lines :
         t.lines[i].m = t.lines[j].m /\ t.lines[i].d = t.lines[j].d => i = j
    /\ \A b \in t.rows : \E i \in DOMAIN t.lines :
         i < t.next /\ b.m = t.lines[i].m /\ b.d = t.lines[i].d

\* The movements that a run may match have no rows of the model, nor have they
\* any that a rebuild has set aside.
NoModelRows(m) == \A a \in Attributed : a.m = m => a.by # "llm"
NothingToReplace(t) ==
    /\ t.old = {} /\ t.gone = {}
    /\ t.pc = "asked" => \A m \in Movements : t.has[m] > 0 => NoModelRows(m)
    /\ t.pc \in {"answered", "clear", "apply"} =>
         \A i \in DOMAIN t.lines : NoModelRows(t.lines[i].m)

\* What a request leaves; and what it has summed up is still so.
Staying(u) == {b \in Attributed : request[u].there => Key(b) # Key(request[u].row)}
SummedRight(u) ==
    Summed(u) => LET d == request[u].row.d
                 IN  request[u].balance = Less(Due[d], Taken(Staying(u), d))

\* A rebuild that is going to delete the attributions has saved them all.
SavedAll ==
    /\ rebuild.pc = "idle" => rebuild.saved = {}
    /\ rebuild.pc = "delete" => rebuild.saved = attributions

\* At most one run is active, and what holds then.
Alone ==
    /\ \A r, q \in Runs : Active(r) /\ Active(q) => r = q
    /\ \A r \in Runs : NothingToReplace(run[r])
    /\ SavedAll
    /\ \A d \in Documents : left[d] = Less(Due[d], Taken(Attributed, d))
    /\ \A m \in Movements : Spent({a \in Attributed : a.by = "llm"}, m) <= Cash[m]
    /\ \A u \in Requests : SummedRight(u)

\* The inductive invariant of the sums.
SumInv ==
    /\ \A r \in Runs : Counted(run[r])
    /\ ~disturbed => Alone

\* A run that has the same, as far as the sums are concerned.
Alike(t, u) ==
    /\ u.pc = t.pc /\ u.has = t.has /\ u.lines = t.lines /\ u.next = t.next
    /\ u.rows = t.rows /\ u.cut = t.cut /\ u.gone = t.gone /\ u.old \subseteq t.old

LEMMA ForgetAlike == ASSUME NEW t \in RunRecord, NEW keys PROVE Alike(t, Forget(t, keys))
BY ForgetFields DEF Alike

\* What a step that leaves the runs alike, and gives no movement its first row
\* of the model, keeps of them.
LEMMA AlikeRunsStay ==
    ASSUME SumInv, ~disturbed, \A q \in Runs : Alike(run[q], run'[q]),
           \A m : NoModelRows(m) => NoModelRows(m)'
    PROVE  /\ \A p, q \in Runs : Active(p)' /\ Active(q)' => p = q
           /\ \A q \in Runs : NothingToReplace(run[q])'
<1>1. Alone
  BY DEF SumInv
<1>2. \A p, q \in Runs : Active(p)' /\ Active(q)' => p = q
  BY <1>1 DEF Alone, Active, Alike
<1>3. ASSUME NEW q \in Runs PROVE NothingToReplace(run[q])'
  <2>1. NothingToReplace(run[q]) /\ Alike(run[q], run'[q])
    BY <1>1 DEF Alone
  <2>2. /\ run'[q].old = {} /\ run'[q].gone = {} /\ run'[q].pc = run[q].pc
        /\ run'[q].has = run[q].has /\ run'[q].lines = run[q].lines
    BY <2>1 DEF NothingToReplace, Alike
  <2>3. run'[q].pc = "asked" => \A m \in Movements : run'[q].has[m] > 0 => NoModelRows(m)'
    BY <2>1, <2>2 DEF NothingToReplace
  <2>4. run'[q].pc \in {"answered", "clear", "apply"} =>
          \A i \in DOMAIN run'[q].lines : \A m : m = run'[q].lines[i].m => NoModelRows(m)'
    BY <2>1, <2>2 DEF NothingToReplace
  <2> QED  BY <2>2, <2>3, <2>4 DEF NothingToReplace, NoModelRows
<1> QED  BY <1>2, <1>3

LEMMA AlikeCounted ==
    ASSUME SumInv, \A q \in Runs : Alike(run[q], run'[q])
    PROVE  (\A q \in Runs : Counted(run[q]))'
<1>1. ASSUME NEW q \in Runs PROVE Counted(run'[q])
  <2>1. Counted(run[q]) /\ Alike(run[q], run'[q])
    BY DEF SumInv
  <2> QED  BY <2>1 DEF Counted, Alike
<1> QED  BY <1>1 DEF Counted

\* A request that is as it was has summed up what it had.
LEMMA StillSummedRight ==
    ASSUME TypeOK, NEW u \in Requests, SummedRight(u),
           Summed(u)' => /\ request'[u] = request[u]
                         /\ {b \in Attributed' : b.d = request[u].row.d}
                              = {b \in Attributed : b.d = request[u].row.d}
    PROVE  SummedRight(u)'
<1> SUFFICES ASSUME Summed(u)' PROVE SummedRight(u)'
  BY DEF SummedRight
<1> DEFINE d == request[u].row.d
           now == {b \in Attributed : request[u].there => Key(b) # Key(request[u].row)}
           then == {b \in Attributed' : request[u].there => Key(b) # Key(request[u].row)}
<1>1. request'[u] = request[u] /\ Summed(u)
  BY DEF Summed
<1>2. request[u].balance = Less(Due[d], Taken(now, d))
  BY <1>1 DEF SummedRight, Staying
<1>3. {b \in then : b.d = d} = {b \in now : b.d = d}
  OBVIOUS
<1>4. Taken(then, d) = Taken(now, d)
  BY <1>3 DEF Taken
<1>5. Staying(u)' = then
  BY <1>1 DEF Staying
<1> HIDE DEF now, then
<1>6. request'[u].balance = Less(Due[request'[u].row.d], Taken(Staying(u)', request'[u].row.d))
  BY <1>1, <1>2, <1>4, <1>5
<1> QED  BY <1>6 DEF SummedRight

\* Steps that move no money: the runs stay alike, what is attributed stays,
\* set aside or not, and no request has summed up anything else.
LEMMA NothingMoves ==
    ASSUME IInv, SumInv, \A q \in Runs : Alike(run[q], run'[q]), left' = left,
           \A u \in Requests : Summed(u)' => request'[u] = request[u],
           ~disturbed' => ~disturbed /\ Attributed' = Attributed /\ SavedAll'
    PROVE  SumInv'
<1>1. (\A q \in Runs : Counted(run[q]))'
  BY AlikeCounted
<1>2. ASSUME ~disturbed' PROVE Alone'
  <2>1. ~disturbed /\ Attributed' = Attributed /\ SavedAll' /\ Alone
    BY <1>2 DEF SumInv
  <2>2. \A m : NoModelRows(m) => NoModelRows(m)'
    BY <2>1 DEF NoModelRows
  <2>3. /\ \A p, q \in Runs : Active(p)' /\ Active(q)' => p = q
        /\ \A q \in Runs : NothingToReplace(run[q])'
    BY <2>1, <2>2, AlikeRunsStay
  <2>4. ASSUME NEW u \in Requests PROVE SummedRight(u)'
    BY <2>1, StillSummedRight DEF Alone, IInv
  <2>5. \A d \in Documents : left'[d] = Less(Due[d], Taken(Attributed', d))
    BY <2>1 DEF Alone
  <2>6. \A m \in Movements : Spent({a \in Attributed' : a.by = "llm"}, m) <= Cash[m]
    BY <2>1 DEF Alone
  <2> QED  BY <2>1, <2>3, <2>4, <2>5, <2>6 DEF Alone
<1> QED  BY <1>1, <1>2 DEF SumInv

\* A step of a run that leaves the attributions and the balances alone.
LEMMA RunOnly ==
    ASSUME IInv, SumInv, NEW r \in Runs, NEW u \in RunRecord,
           run' = [run EXCEPT ![r] = u], attributions' = attributions, left' = left,
           rebuild' = rebuild, request' = request, disturbed' = disturbed,
           Counted(u), ~disturbed => NothingToReplace(u),
           Active(r) \/ u.pc = "end"
    PROVE  SumInv'
<1>1. \A q \in Runs : run'[q] = IF q = r THEN u ELSE run[q]
  BY DEF IInv, TypeOK
<1>2. \A q \in Runs : Counted(run'[q])
  BY <1>1 DEF SumInv
<1>3. ASSUME ~disturbed PROVE Alone'
  <2>1. Attributed' = Attributed
    BY DEF Attributed
  <2>2. \A q \in Runs : NothingToReplace(run[q])'
    <3>1. \A q \in Runs : NothingToReplace(run'[q])
      BY <1>1, <1>3 DEF SumInv, Alone
    <3> QED  BY <2>1, <3>1 DEF NothingToReplace, NoModelRows
  <2>3. \A p, q \in Runs : Active(p)' /\ Active(q)' => p = q
    BY <1>1, <1>3 DEF SumInv, Alone, Active
  <2>4. \A v \in Requests : SummedRight(v)'
    BY <1>3, <2>1 DEF SumInv, Alone, SummedRight, Summed, Staying
  <2> QED  BY <2>1, <2>2, <2>3, <2>4, <1>3 DEF SumInv, Alone, SavedAll
<1> QED  BY <1>2, <1>3 DEF SumInv, Counted

LEMMA FreshCounted ==
    /\ Counted(Fresh) /\ NothingToReplace(Fresh)
    /\ Fresh.lines = <<>> /\ Fresh.rows = {} /\ Fresh.gone = {} /\ Fresh.old = {} /\ Fresh.pc = "start"
    /\ Fresh.has = [m \in Movements |-> 0] /\ Fresh.cut = [d \in Documents |-> 0]
<1>1. /\ Fresh.lines = <<>> /\ Fresh.rows = {} /\ Fresh.gone = {} /\ Fresh.old = {} /\ Fresh.pc = "start"
      /\ Fresh.has = [m \in Movements |-> 0] /\ Fresh.cut = [d \in Documents |-> 0]
  BY DEF Fresh
<1>2. \A m \in Movements : Spent({}, m) + 0 <= Cash[m]
  BY NoRows, StageAssumption
<1>3. Counted(Fresh)
  BY <1>1, <1>2, NoRows DEF Counted
<1> QED  BY <1>1, <1>3 DEF NothingToReplace

\* A run of another stage that has counted the same.
LEMMA SameCounted ==
    ASSUME NEW t, NEW u, Counted(t), u.rows = t.rows, u.cut = t.cut, u.has = t.has,
           u.lines = t.lines, u.next = t.next
    PROVE  Counted(u)
BY DEF Counted

LEMMA EndedCounted ==
    ASSUME NEW rejected \in SUBSET Line
    PROVE  Counted(Ended(rejected)) /\ NothingToReplace(Ended(rejected))
<1> DEFINE u == Ended(rejected)
<1>1. /\ u.rows = Fresh.rows /\ u.cut = Fresh.cut /\ u.has = Fresh.has /\ u.pc = "end"
      /\ u.lines = Fresh.lines /\ u.next = Fresh.next /\ u.gone = Fresh.gone /\ u.old = Fresh.old
  BY FreshIsOK DEF Ended, RunRecord
<1> HIDE DEF u
<1>2. Counted(u)
  BY <1>1, FreshCounted, SameCounted
<1>3. NothingToReplace(u)
  BY <1>1, FreshCounted DEF NothingToReplace
<1> QED  BY <1>2, <1>3 DEF u

----------------------------------------------------------------------------
(* The steps that count.                                                   *)

LEMMA StartCounts == ASSUME IInv, SumInv, NEW r \in Runs, Start(r) PROVE SumInv'
<1> DEFINE u == [run[r] EXCEPT !.pc = "reconciled"]
<1>1. run[r] \in RunRecord /\ run[r].pc = "start" /\ run' = [run EXCEPT ![r] = u]
  BY DEF IInv, TypeOK, Start
<1>2. /\ u \in RunRecord /\ u.pc = "reconciled" /\ u.rows = run[r].rows /\ u.cut = run[r].cut
      /\ u.has = run[r].has /\ u.lines = run[r].lines /\ u.next = run[r].next
      /\ u.gone = run[r].gone /\ u.old = run[r].old
  BY <1>1 DEF RunRecord
<1> HIDE DEF u
<1>3. Counted(u)
  BY <1>2, SameCounted DEF SumInv
<1>4. \A q \in Runs : run'[q] = IF q = r THEN u ELSE run[q]
  BY <1>1 DEF IInv, TypeOK
<1>5. \A q \in Runs : Counted(run'[q])
  BY <1>3, <1>4 DEF SumInv
<1>6. /\ Attributed' = Attributed /\ request' = request /\ left' = left
      /\ attributions' = attributions /\ rebuild' = rebuild
  BY DEF Start, movements, Attributed
<1>7. ASSUME ~disturbed' PROVE Alone'
  <2>1. ~disturbed /\ (\A q \in Runs : q # r => ~Active(q)) /\ Alone
    BY <1>7 DEF Start, Others, SumInv
  <2>2. NothingToReplace(u)
    BY <1>2, <2>1 DEF Alone, NothingToReplace
  <2>3. \A q \in Runs : NothingToReplace(run'[q])
    BY <1>4, <2>1, <2>2 DEF Alone
  <2>4. \A q \in Runs : NothingToReplace(run[q])'
    BY <1>6, <2>3 DEF NothingToReplace, NoModelRows
  <2>5. \A q \in Runs : Active(q)' => q = r
    BY <1>4, <2>1 DEF Active
  <2>6. \A v \in Requests : SummedRight(v)'
    BY <1>6, <2>1 DEF Alone, SummedRight, Summed, Staying
  <2> QED  BY <1>6, <2>1, <2>4, <2>5, <2>6 DEF Alone, SavedAll
<1> QED  BY <1>5, <1>7 DEF SumInv, Counted

LEMMA ReadCounts == ASSUME IInv, SumInv, NEW r \in Runs, Read(r) PROVE SumInv'
<1> DEFINE has == [m \in Movements |-> IF m \in present /\ ~Matched(m) THEN Cash[m] ELSE 0]
           v == [Fresh EXCEPT !.pc = "asked", !.has = has, !.gen = rebuilds]
           u == IF \A m \in Movements : has[m] = 0 THEN Ended({}) ELSE v
<1>1. /\ has \in [Movements -> Nat]
      /\ \A m \in Movements : has[m] <= Cash[m] /\ (has[m] > 0 => ~Matched(m))
  BY StageAssumption
<1>2. run' = [run EXCEPT ![r] = u] /\ run[r].pc = "reconciled"
  BY DEF Read
<1> HIDE DEF has
<1>3. /\ v \in RunRecord /\ v.pc = "asked" /\ v.rows = {} /\ v.gone = {} /\ v.old = {}
      /\ v.has = has /\ v.lines = <<>> /\ v.cut = [d \in Documents |-> 0]
  <2>1. rebuilds \in Nat
    BY StageAssumption DEF IInv, TypeOK
  <2> QED
    BY <1>1, <2>1, FreshIsOK, FreshCounted DEF RunRecord
<1> HIDE DEF v
<1>4. Counted(v)
  <2>1. \A m \in Movements : Spent({}, m) + has[m] <= Cash[m]
    BY <1>1, NoRows
  <2> QED  BY <1>3, <2>1, NoRows DEF Counted
<1>5. ASSUME ~disturbed' PROVE NothingToReplace(v)
  <2>1. Alone /\ ~SetAside
    BY <1>5 DEF Read, SumInv
  <2>2. Attributed = attributions
    BY <2>1 DEF Alone, SavedAll, SetAside, Attributed
  <2> QED  BY <1>1, <1>3, <2>2 DEF NothingToReplace, Matched, NoModelRows
<1>6. u \in RunRecord /\ Counted(u) /\ (~disturbed' => NothingToReplace(u))
  BY <1>3, <1>4, <1>5, EndedIsOK, EndedCounted
<1> HIDE DEF u
<1>7. \A q \in Runs : run'[q] = IF q = r THEN u ELSE run[q]
  BY <1>2 DEF IInv, TypeOK
<1>8. \A q \in Runs : Counted(run'[q])
  BY <1>6, <1>7 DEF SumInv
<1>9. /\ Attributed' = Attributed /\ request' = request /\ left' = left
      /\ attributions' = attributions /\ rebuild' = rebuild
  BY DEF Read, movements, Attributed
<1>10. ASSUME ~disturbed' PROVE Alone'
  <2>1. Alone
    BY <1>10 DEF Read, SumInv
  <2>2. \A q \in Runs : NothingToReplace(run'[q])
    BY <1>6, <1>7, <1>10, <2>1 DEF Alone
  <2>3. \A q \in Runs : NothingToReplace(run[q])'
    BY <1>9, <2>2 DEF NothingToReplace, NoModelRows
  <2>4. \A p, q \in Runs : Active(p)' /\ Active(q)' => p = q
    BY <1>2, <1>7, <2>1 DEF Alone, Active
  <2>5. \A x \in Requests : SummedRight(x)'
    BY <1>9, <2>1 DEF Alone, SummedRight, Summed, Staying
  <2> QED  BY <1>9, <2>1, <2>3, <2>4, <2>5 DEF Alone, SavedAll
<1> QED  BY <1>8, <1>10 DEF SumInv, Counted

LEMMA AnswerCounts == ASSUME IInv, SumInv, NEW r \in Runs, Answer(r) PROVE SumInv'
<1>1. PICK lines \in Answers(r) :
        run' = [run EXCEPT ![r].pc = "answered", ![r].lines = lines]
  BY DEF Answer
<1> DEFINE u == [run[r] EXCEPT !.pc = "answered", !.lines = lines]
<1>2. run[r] \in RunRecord /\ RunOK(run[r]) /\ run[r].pc = "asked"
  BY DEF IInv, TypeOK, Answer
<1>3. PICK n \in 0..MaxLines : lines \in [1..n -> Suggestions]
  BY DEF Answers
<1>4. lines \in Seq(Line)
  BY <1>3, SuggestionsAreLines, StageAssumption
<1>5. /\ \A i \in DOMAIN lines : lines[i].m \in Movements /\ run[r].has[lines[i].m] > 0
      /\ \A i, j \in DOMAIN lines :
             lines[i].m = lines[j].m /\ lines[i].d = lines[j].d => i = j
  <2>1. \A i \in DOMAIN lines : lines[i].m \in Movements
    BY <1>3, SuggestionsAreLines DEF Line
  <2>2. /\ \A i \in DOMAIN lines : run[r].has[lines[i].m] > 0
        /\ \A i, j \in DOMAIN lines :
             lines[i].m = lines[j].m /\ lines[i].d = lines[j].d => i = j
    BY DEF Answers
  <2> QED  BY <2>1, <2>2
<1>6. /\ u \in RunRecord /\ u.pc = "answered" /\ u.lines = lines /\ u.has = run[r].has
      /\ u.rows = run[r].rows /\ u.cut = run[r].cut /\ u.gone = run[r].gone
      /\ u.old = run[r].old
  BY <1>2, <1>4 DEF RunRecord
<1>7. run' = [run EXCEPT ![r] = u]
  BY <1>1
<1> HIDE DEF u
<1>8. run[r].rows = {}
  BY <1>2 DEF RunOK
<1>9. Counted(u)
  <2>1. Counted(run[r])
    BY DEF SumInv
  <2>2. /\ \A d \in Documents : u.cut[d] = Taken(u.rows, d)
        /\ \A m \in Movements : Spent(u.rows, m) + u.has[m] <= Cash[m]
    BY <1>6, <2>1 DEF Counted
  <2>3. \A i, j \in DOMAIN u.lines :
           u.lines[i].m = u.lines[j].m /\ u.lines[i].d = u.lines[j].d => i = j
    BY <1>5, <1>6
  <2>4. u.rows = {}
    BY <1>6, <1>8
  <2> QED  BY <2>2, <2>3, <2>4 DEF Counted
<1>10. ~disturbed => NothingToReplace(u)
  BY <1>2, <1>5, <1>6 DEF SumInv, Alone, NothingToReplace
<1> QED  BY <1>2, <1>6, <1>7, <1>9, <1>10, RunOnly DEF Answer, Active, movements

LEMMA BeginCounts == ASSUME IInv, SumInv, NEW r \in Runs, Begin(r) PROVE SumInv'
<1> DEFINE t == run[r]
           again == {t.lines[i].m : i \in {j \in DOMAIN t.lines : t.lines[j].high}}
           seen == {a \in attributions : a.by = "llm" /\ a.m \in again /\ t.gen = rebuilds}
           u == [t EXCEPT !.pc = "clear", !.old = Keys(seen)]
<1>1. t \in RunRecord /\ t.pc = "answered"
  BY DEF IInv, TypeOK, Begin
<1>2. run' = [run EXCEPT ![r] = u]
  BY DEF Begin
<1>3. seen \subseteq Row /\ seen \subseteq Attributed
  BY DEF IInv, TypeOK, Attributed
<1>4. \A a \in seen : a.by = "llm" /\ \E j \in DOMAIN t.lines : t.lines[j].m = a.m
  OBVIOUS
<1> HIDE DEF seen
<1>5. /\ u \in RunRecord /\ u.pc = "clear" /\ u.gone = t.gone /\ u.rows = t.rows
      /\ u.has = t.has /\ u.lines = t.lines /\ u.next = t.next /\ u.cut = t.cut
      /\ u.old = Keys(seen)
  BY <1>1, <1>3, KeysAreKeys DEF RunRecord
<1> HIDE DEF u
<1>6. Counted(u)
  BY <1>5, SameCounted DEF SumInv
<1>7. ASSUME ~disturbed PROVE NothingToReplace(u)
  <2>1. t.gone = {} /\ \A i \in DOMAIN t.lines : NoModelRows(t.lines[i].m)
    BY <1>1, <1>7 DEF SumInv, Alone, NothingToReplace
  <2>2. seen = {}
    BY <1>3, <1>4, <2>1 DEF NoModelRows
  <2>3. Keys(seen) = {}
    BY <2>2 DEF Keys
  <2> QED  BY <1>5, <2>1, <2>3 DEF NothingToReplace
<1> QED  BY <1>1, <1>2, <1>5, <1>6, <1>7, RunOnly DEF Begin, Active, movements

LEMMA ClearCounts == ASSUME IInv, SumInv, NEW r \in Runs, Clear(r) PROVE SumInv'
<1> DEFINE t == run[r]
           gone == {a \in attributions : Key(a) \in t.old}
           u == [t EXCEPT !.pc = "apply", !.open = TRUE, !.old = {}, !.gone = gone]
<1>1. t \in RunRecord /\ t.pc = "clear"
  BY DEF IInv, TypeOK, Clear
<1>2. run' = [run EXCEPT ![r] = u]
  BY DEF Clear
<1>3. gone \subseteq Row /\ (t.old = {} => gone = {})
  BY DEF IInv, TypeOK
<1> HIDE DEF gone
<1>4. /\ u \in RunRecord /\ u.pc = "apply" /\ u.gone = gone /\ u.rows = t.rows
      /\ u.has = t.has /\ u.lines = t.lines /\ u.next = t.next /\ u.cut = t.cut
      /\ u.old = {}
  BY <1>1, <1>3 DEF RunRecord
<1> HIDE DEF u
<1>5. Counted(u)
  BY <1>4, SameCounted DEF SumInv
<1>6. ASSUME ~disturbed PROVE NothingToReplace(u)
  <2>1. t.old = {} /\ \A i \in DOMAIN t.lines : NoModelRows(t.lines[i].m)
    BY <1>1, <1>6 DEF SumInv, Alone, NothingToReplace
  <2> QED  BY <1>3, <1>4, <2>1 DEF NothingToReplace
<1> QED  BY <1>1, <1>2, <1>4, <1>5, <1>6, RunOnly DEF Clear, Active, movements

LEMMA SkipCounts == ASSUME IInv, SumInv, NEW r \in Runs, SkipLine(r) PROVE SumInv'
<1> DEFINE t == run[r]
           u == [t EXCEPT !.next = t.next + 1]
<1>1. t \in RunRecord /\ t.pc = "apply" /\ t.next \in Nat \ {0}
  BY CurrentIsLine DEF SkipLine, RunRecord
<1>2. run' = [run EXCEPT ![r] = u]
  BY DEF SkipLine
<1>3. Counted(t) /\ (~disturbed => NothingToReplace(t))
  BY DEF SumInv, Alone
<1> HIDE DEF t
<1>4. /\ u \in RunRecord /\ u.pc = "apply" /\ u.gone = t.gone /\ u.old = t.old /\ u.cut = t.cut
      /\ u.rows = t.rows /\ u.has = t.has /\ u.lines = t.lines /\ u.next = t.next + 1
  <2>1. t.next + 1 \in Nat \ {0}
    BY <1>1
  <2> QED  BY <1>1, <2>1 DEF RunRecord
<1> HIDE DEF u
<1>5. Counted(u)
  <2>1. \A i \in DOMAIN t.lines : i \in Nat
    BY <1>1 DEF RunRecord
  <2>2. \A b \in t.rows : \E i \in DOMAIN t.lines :
          i < t.next + 1 /\ b.m = t.lines[i].m /\ b.d = t.lines[i].d
    BY <1>1, <1>3, <2>1 DEF Counted
  <2> QED  BY <1>3, <1>4, <2>2 DEF Counted
<1>6. ~disturbed => NothingToReplace(u)
  BY <1>1, <1>3, <1>4 DEF NothingToReplace
<1> QED  BY <1>1, <1>2, <1>4, <1>5, <1>6, RunOnly DEF SkipLine, Active, movements, t

LEMMA ApplyCounts == ASSUME IInv, SumInv, NEW r \in Runs, ApplyLine(r) PROVE SumInv'
<1> DEFINE t == run[r]
           l == Current(r)
           net == Lesser(Named(l), t.has[l.m])
           row == [m |-> l.m, d |-> l.d, by |-> "llm", net |-> net]
           left2 == [t.has EXCEPT ![l.m] = t.has[l.m] - net]
           cut2 == [t.cut EXCEPT ![l.d] = t.cut[l.d] + net]
           u == [t EXCEPT !.next = t.next + 1, !.has = left2, !.rows = t.rows \union {row}, !.cut = cut2]
<1>1. InLoop(r) /\ t.has[l.m] > 0
  BY DEF ApplyLine
<1>2. /\ t \in RunRecord /\ t.pc = "apply" /\ t.next \in 1..Len(t.lines)
      /\ l = t.lines[t.next] /\ l \in Line
  BY <1>1, CurrentIsLine
<1>3. run' = [run EXCEPT ![r] = u]
  BY DEF ApplyLine
<1>4. l.m \in Movements /\ l.d \in Documents /\ l.amount \in Nat
  BY <1>2 DEF Line
<1>5. Counted(t) /\ RunOK(t) /\ (~disturbed => NothingToReplace(t))
  BY DEF SumInv, Alone, IInv
<1>6. Active(r)
  BY <1>2 DEF Active
<1> HIDE DEF t, l
<1>7. /\ t.has \in [Movements -> Nat] /\ t.cut \in [Documents -> Nat] /\ t.rows \subseteq Row
      /\ t.next \in Nat /\ Len(t.lines) \in Nat /\ DOMAIN t.lines = 1..Len(t.lines)
  BY <1>2 DEF RunRecord
<1>8. net \in Nat \ {0} /\ net <= t.has[l.m]
  <2>1. Named(l) \in Nat /\ Named(l) > 0
    BY <1>4, StageAssumption DEF Named
  <2> QED  BY <1>1, <1>4, <1>7, <2>1 DEF Lesser
<1> HIDE DEF net
<1>9. /\ left2 \in [Movements -> Nat]
      /\ \A m \in Movements : left2[m] + (IF l.m = m THEN net ELSE 0) = t.has[m]
  BY <1>4, <1>7, <1>8
<1>10. /\ cut2 \in [Documents -> Nat]
       /\ \A d \in Documents : cut2[d] = t.cut[d] + (IF l.d = d THEN net ELSE 0)
  BY <1>4, <1>7, <1>8
<1>11. row \in Row /\ row.m = l.m /\ row.d = l.d /\ row.net = net
  BY <1>4, <1>8 DEF Row
<1> HIDE DEF left2, cut2, row
<1>12. /\ u \in RunRecord /\ u.pc = "apply" /\ u.gone = t.gone /\ u.old = t.old
       /\ u.rows = t.rows \union {row} /\ u.has = left2 /\ u.lines = t.lines
       /\ u.next = t.next + 1 /\ u.cut = cut2
  <2>1. t.next + 1 \in Nat \ {0}
    BY <1>2 DEF RunRecord
  <2>2. t.rows \union {row} \in SUBSET Row
    BY <1>7, <1>11
  <2> QED  BY <1>2, <1>9, <1>10, <2>1, <2>2 DEF RunRecord
<1> HIDE DEF u
<1>13. row \notin t.rows
  <2> SUFFICES ASSUME row \in t.rows PROVE FALSE
    OBVIOUS
  <2>1. PICK i \in DOMAIN t.lines :
          i < t.next /\ row.m = t.lines[i].m /\ row.d = t.lines[i].d
    BY <1>5 DEF Counted
  <2>2. i = t.next
    BY <1>2, <1>5, <1>7, <1>11, <2>1 DEF Counted
  <2> QED  BY <1>7, <2>1, <2>2
<1>14. IsFiniteSet(t.rows) /\ IsFiniteSet(t.rows \union {row})
  BY <1>5, FS_AddElement DEF RunOK
<1>15. /\ \A d : /\ Taken(t.rows, d) \in Nat
                 /\ Taken(t.rows \union {row}, d)
                      = Taken(t.rows, d) + (IF row.d = d THEN row.net ELSE 0)
       /\ \A m : /\ Spent(t.rows, m) \in Nat
                 /\ Spent(t.rows \union {row}, m)
                      = Spent(t.rows, m) + (IF row.m = m THEN row.net ELSE 0)
  BY <1>7, <1>11, <1>13, <1>14, RowCounts
<1>16. ASSUME NEW d \in Documents PROVE cut2[d] = Taken(t.rows \union {row}, d)
  <2>1. cut2[d] = t.cut[d] + (IF l.d = d THEN net ELSE 0)
    BY <1>10
  <2>2. t.cut[d] = Taken(t.rows, d)
    BY <1>5 DEF Counted
  <2> QED  BY <1>11, <1>15, <2>1, <2>2
<1>17. ASSUME NEW m \in Movements PROVE Spent(t.rows \union {row}, m) + left2[m] <= Cash[m]
  <2> DEFINE more == IF l.m = m THEN net ELSE 0
             s == Spent(t.rows, m)
             s2 == Spent(t.rows \union {row}, m)
  <2>1. s \in Nat /\ s2 = s + more
    BY <1>11, <1>15
  <2>2. s + t.has[m] <= Cash[m]
    BY <1>5 DEF Counted
  <2>3. left2[m] + more = t.has[m] /\ left2[m] \in Nat /\ more \in Nat
    BY <1>8, <1>9
  <2>4. Cash[m] \in Nat
    BY StageAssumption
  <2> HIDE DEF more, s, s2
  <2>5. s2 + left2[m] <= Cash[m]
    BY <2>1, <2>2, <2>3, <2>4
  <2> QED  BY <2>5 DEF s2
<1>18. \A b \in t.rows \union {row} : \E i \in DOMAIN t.lines :
         i < t.next + 1 /\ b.m = t.lines[i].m /\ b.d = t.lines[i].d
  <2>1. \A i \in DOMAIN t.lines : i \in Nat
    BY <1>7
  <2>2. \A b \in t.rows : \E i \in DOMAIN t.lines :
          i < t.next + 1 /\ b.m = t.lines[i].m /\ b.d = t.lines[i].d
    BY <1>5, <1>7, <2>1 DEF Counted
  <2>3. t.next \in DOMAIN t.lines /\ t.next < t.next + 1
    BY <1>2, <1>7
  <2> QED  BY <1>2, <1>11, <2>2, <2>3
<1>19. \A i, j \in DOMAIN t.lines :
         t.lines[i].m = t.lines[j].m /\ t.lines[i].d = t.lines[j].d => i = j
  BY <1>5 DEF Counted
<1>20. Counted(u)
  <2>1. \A d \in Documents : u.cut[d] = Taken(u.rows, d)
    BY <1>12, <1>16
  <2>2. \A m \in Movements : Spent(u.rows, m) + u.has[m] <= Cash[m]
    BY <1>12, <1>17
  <2>3. \A b \in u.rows : \E i \in DOMAIN u.lines :
          i < u.next /\ b.m = u.lines[i].m /\ b.d = u.lines[i].d
    BY <1>12, <1>18
  <2>4. \A i, j \in DOMAIN u.lines :
          u.lines[i].m = u.lines[j].m /\ u.lines[i].d = u.lines[j].d => i = j
    BY <1>12, <1>19
  <2> QED  BY <2>1, <2>2, <2>3, <2>4 DEF Counted
<1>21. ~disturbed => NothingToReplace(u)
  BY <1>2, <1>5, <1>12 DEF NothingToReplace
<1> QED  BY <1>3, <1>6, <1>12, <1>20, <1>21, RunOnly DEF ApplyLine, movements

\* A run whose transaction is aborted, or over, has counted nothing.
LEMMA AbortedCounted ==
    ASSUME NEW t \in RunRecord, RunOK(t), Counted(t), NEW u, u.rows = {}, u.lines = t.lines,
           u.has = t.has, u.cut = [d \in Documents |-> 0]
    PROVE  Counted(u)
<1>1. ASSUME NEW m \in Movements PROVE Spent({}, m) + t.has[m] <= Cash[m]
  <2>1. Spent(t.rows, m) \in Nat
    <3>1. {a \in t.rows : a.m = m} \subseteq t.rows /\ IsFiniteSet(t.rows)
      BY DEF RunOK
    <3>2. \A a \in t.rows : a.net \in Nat
      BY DEF RunRecord, Row
    <3> QED  BY <3>1, <3>2, NetOfIsNat DEF Spent
  <2>2. t.has[m] \in Nat /\ Cash[m] \in Nat /\ Spent(t.rows, m) + t.has[m] <= Cash[m]
    BY StageAssumption DEF Counted, RunRecord
  <2> QED  BY <2>1, <2>2, NoRows
<1>2. \A d \in Documents : u.cut[d] = Taken({}, d)
  BY NoRows
<1> QED  BY <1>1, <1>2 DEF Counted

LEMMA AbortedFields ==
    ASSUME NEW t \in RunRecord, t.pc = "apply"
    PROVE  LET v == Aborted(t)
           IN  /\ v \in RunRecord /\ v.pc = "apply" /\ v.rows = {} /\ v.gone = {}
               /\ v.cut = [d \in Documents |-> 0] /\ v.has = t.has /\ v.lines = t.lines
               /\ v.next = t.next /\ v.old = t.old
<1>1. [d \in Documents |-> 0] \in [Documents -> Nat]
  OBVIOUS
<1> QED  BY <1>1 DEF Aborted, RunRecord

LEMMA FailCounts == ASSUME IInv, SumInv, NEW r \in Runs, LineFails(r) PROVE SumInv'
<1> DEFINE t == run[r]
           v == Aborted(t)
           u == [v EXCEPT !.next = t.next + 1]
<1>1. t \in RunRecord /\ t.pc = "apply" /\ Active(r)
  BY CurrentIsLine DEF LineFails, Active
<1>2. run' = [run EXCEPT ![r] = u]
  BY DEF LineFails
<1>3. Counted(t) /\ RunOK(t) /\ (~disturbed => NothingToReplace(t))
  BY DEF SumInv, Alone, IInv
<1> HIDE DEF t
<1>4. /\ v \in RunRecord /\ v.pc = "apply" /\ v.rows = {} /\ v.gone = {}
      /\ v.cut = [d \in Documents |-> 0] /\ v.has = t.has /\ v.lines = t.lines
      /\ v.old = t.old
  BY <1>1, AbortedFields
<1>5. t.next + 1 \in Nat \ {0}
  BY <1>1 DEF RunRecord
<1> HIDE DEF v
<1>6. /\ u \in RunRecord /\ u.pc = "apply" /\ u.rows = {} /\ u.gone = {}
      /\ u.cut = [d \in Documents |-> 0] /\ u.has = t.has /\ u.lines = t.lines
      /\ u.old = t.old
  BY <1>4, <1>5 DEF RunRecord
<1> HIDE DEF u
<1>7. Counted(u)
  BY <1>1, <1>3, <1>6, AbortedCounted
<1>8. ~disturbed => NothingToReplace(u)
  BY <1>1, <1>3, <1>6 DEF NothingToReplace
<1> QED  BY <1>1, <1>2, <1>6, <1>7, <1>8, RunOnly DEF LineFails, movements

LEMMA VanishCounts == ASSUME IInv, SumInv, NEW r \in Runs, RowVanishes(r) PROVE SumInv'
<1> DEFINE t == run[r]
           u == [t EXCEPT !.next = t.next + 1, !.missed = TRUE]
<1>1. t \in RunRecord /\ t.pc = "apply" /\ t.next \in Nat \ {0}
  BY CurrentIsLine DEF RowVanishes, RunRecord
<1>2. run' = [run EXCEPT ![r] = u]
  BY DEF RowVanishes
<1>3. Counted(t) /\ (~disturbed => NothingToReplace(t))
  BY DEF SumInv, Alone
<1> HIDE DEF t
<1>4. /\ u \in RunRecord /\ u.pc = "apply" /\ u.gone = t.gone /\ u.old = t.old
      /\ u.cut = t.cut /\ u.rows = t.rows /\ u.has = t.has /\ u.lines = t.lines
      /\ u.next = t.next + 1
  <2>1. t.next + 1 \in Nat \ {0}
    BY <1>1
  <2> QED  BY <1>1, <2>1 DEF RunRecord
<1> HIDE DEF u
<1>5. Counted(u)
  <2>1. \A i \in DOMAIN t.lines : i \in Nat
    BY <1>1 DEF RunRecord
  <2>2. \A b \in t.rows : \E i \in DOMAIN t.lines :
          i < t.next + 1 /\ b.m = t.lines[i].m /\ b.d = t.lines[i].d
    BY <1>1, <1>3, <2>1 DEF Counted
  <2> QED  BY <1>3, <1>4, <2>2 DEF Counted
<1>6. ~disturbed => NothingToReplace(u)
  BY <1>1, <1>3, <1>4 DEF NothingToReplace
<1> QED  BY <1>1, <1>2, <1>4, <1>5, <1>6, RunOnly DEF RowVanishes, Active, movements, t

LEMMA FilterCounts == ASSUME IInv, SumInv, NEW r \in Runs, Filter(r) PROVE SumInv'
<1> DEFINE lines == {run[r].lines[i] : i \in DOMAIN run[r].lines}
           rejected == {l \in lines : ~Grounded(l)}
<1>1. run[r] \in RunRecord
  BY DEF IInv, TypeOK
<1>2. rejected \in SUBSET Line
  BY <1>1 DEF RunRecord
<1>3. run' = [run EXCEPT ![r] = Ended(rejected)] /\ Active(r)
  BY DEF Filter, Active
<1> HIDE DEF rejected
<1> QED  BY <1>2, <1>3, EndedIsOK, EndedCounted, RunOnly DEF Filter, movements

LEMMA LostCounts == ASSUME IInv, SumInv, NEW r \in Runs, Lost(r) PROVE SumInv'
<1>1. run' = [run EXCEPT ![r] = Ended({})] /\ Active(r)
  BY DEF Lost
<1>2. Ended({}) \in RunRecord /\ Counted(Ended({})) /\ NothingToReplace(Ended({}))
  BY EndedIsOK, EndedCounted
<1> QED  BY <1>1, <1>2, RunOnly DEF Lost, movements

----------------------------------------------------------------------------
(* The steps that move money.                                              *)

\* Rows put beside those of a request that are not of its document do not
\* change what it leaves of that.
LEMMA NobodySummed ==
    ASSUME NEW docs, ~InTheWay(docs, Requests), NEW u \in Requests, Summed(u)
    PROVE  request[u].row.d \notin docs
BY DEF InTheWay

LEMMA CommitCounts == ASSUME IInv, SumInv, NEW r \in Runs, Commit(r) PROVE SumInv'
<1> DEFINE t == run[r]
           v == Aborted(t)
           u == [v EXCEPT !.pc = "applied", !.missed = FALSE]
<1>1. t \in RunRecord /\ RunOK(t) /\ t.pc = "apply" /\ Active(r)
  BY DEF Commit, IInv, TypeOK, Active
<1>2. Counted(t) /\ (~disturbed => NothingToReplace(t)) /\ IsFiniteSet(attributions)
  BY DEF SumInv, Alone, IInv
<1>3. \/ /\ ~t.open /\ attributions' = attributions /\ left' = left
         /\ run' = [run EXCEPT ![r] = u] /\ request' = request /\ disturbed' = disturbed
      \/ /\ attributions' = Upserted(attributions \ t.gone, t.rows)
         /\ left' = [d \in Documents |-> Less(left[d], t.cut[d])]
         /\ run' = [q \in Runs |-> IF q = r THEN u ELSE Forget(run[q], Keys(t.gone))]
         /\ request' = Without(Keys(t.gone))
         /\ disturbed' = (disturbed \/ (t.rows # {} /\ InTheWay({a.d : a \in t.rows}, Requests)))
  BY DEF Commit, Committed
<1>4. rebuild' = rebuild
  BY DEF Commit, movements
<1> HIDE DEF t
<1>5. /\ v \in RunRecord /\ v.pc = "apply" /\ v.rows = {} /\ v.gone = {} /\ v.old = t.old
      /\ v.cut = [d \in Documents |-> 0] /\ v.has = t.has /\ v.lines = t.lines
  BY <1>1, AbortedFields
<1> HIDE DEF v
<1>6. /\ u \in RunRecord /\ u.pc = "applied" /\ u.rows = {} /\ u.gone = {} /\ u.old = t.old
      /\ u.cut = [d \in Documents |-> 0] /\ u.has = t.has /\ u.lines = t.lines
  BY <1>5 DEF RunRecord
<1> HIDE DEF u
<1>7. Counted(u)
  BY <1>1, <1>2, <1>6, AbortedCounted
<1>8. ~disturbed => NothingToReplace(u)
  BY <1>2, <1>6 DEF NothingToReplace
<1>9. CASE /\ attributions' = attributions /\ left' = left /\ disturbed' = disturbed
           /\ run' = [run EXCEPT ![r] = u] /\ request' = request
  BY <1>1, <1>4, <1>6, <1>7, <1>8, <1>9, RunOnly
<1>10. CASE /\ attributions' = Upserted(attributions \ t.gone, t.rows)
            /\ left' = [d \in Documents |-> Less(left[d], t.cut[d])]
            /\ run' = [q \in Runs |-> IF q = r THEN u ELSE Forget(run[q], Keys(t.gone))]
            /\ request' = Without(Keys(t.gone))
            /\ disturbed' = (disturbed \/ (t.rows # {} /\ InTheWay({a.d : a \in t.rows}, Requests)))
  <2>1. \A q \in Runs : /\ q = r => run'[q] = u
                        /\ q # r => run'[q] = Forget(run[q], Keys(t.gone))
    BY <1>10
  <2>2. \A q \in Runs : Counted(run'[q])
    <3>1. \A q \in Runs : q # r => Alike(run[q], run'[q]) /\ Counted(run[q])
      BY <2>1, ForgetAlike DEF SumInv, IInv, TypeOK
    <3>2. \A q \in Runs : q # r => Counted(run'[q])
      BY <3>1 DEF Alike, Counted
    <3> QED  BY <1>7, <2>1, <3>2
  <2>3. ASSUME ~disturbed' PROVE Alone'
    <3>0. ~disturbed /\ (t.rows = {} \/ ~InTheWay({a.d : a \in t.rows}, Requests))
      BY <1>10, <2>3
    <3>1. /\ Alone /\ \A q \in Runs : q # r => ~Active(q)
      BY <1>1, <3>0 DEF SumInv, Alone
    <3>2. /\ t.rows \subseteq Row /\ IsFiniteSet(t.rows)
          /\ Attributed \subseteq Row /\ IsFiniteSet(Attributed)
      BY <1>1, FS_Union DEF RunOK, RunRecord, IInv, TypeOK, RebuildRecord, Attributed
    <3>3. \A b \in t.rows : b.by = "llm" /\ NoModelRows(b.m)
      BY <1>1, <1>2, <3>0 DEF RunOK, Counted, NothingToReplace
    <3>4. t.gone = {}
      BY <1>2, <3>0 DEF NothingToReplace
    <3>5. \A a \in Attributed, b \in t.rows : Key(a) # Key(b)
      BY <3>3 DEF Key, NoModelRows
    <3>6. /\ attributions' = attributions \union t.rows
          /\ Attributed' = Attributed \union t.rows /\ Attributed \intersect t.rows = {}
      BY <1>4, <1>10, <3>4, <3>5 DEF Upserted, Attributed
    <3>7. \A d : /\ Taken(Attributed, d) \in Nat /\ Taken(t.rows, d) \in Nat
                  /\ Taken(Attributed \union t.rows, d)
                       = Taken(Attributed, d) + Taken(t.rows, d)
      BY <3>2, <3>6, RowsAdd
    <3>8. ASSUME NEW d \in Documents PROVE left'[d] = Less(Due[d], Taken(Attributed', d))
      <4>1. /\ Taken(Attributed, d) \in Nat /\ Taken(t.rows, d) \in Nat
            /\ Taken(Attributed', d) = Taken(Attributed, d) + Taken(t.rows, d)
        BY <3>6, <3>7
      <4>2. left[d] = Less(Due[d], Taken(Attributed, d)) /\ t.cut[d] = Taken(t.rows, d)
        BY <1>2, <3>1 DEF Alone, Counted
      <4>3. left'[d] = Less(Less(Due[d], Taken(Attributed, d)), Taken(t.rows, d))
        BY <1>10, <4>2
      <4>4. Due[d] \in Nat
        BY StageAssumption
      <4> DEFINE x == Taken(Attributed, d)
                 y == Taken(t.rows, d)
                 z == Taken(Attributed', d)
      <4>5. x \in Nat /\ y \in Nat /\ z = x + y
        BY <4>1
      <4>6. left'[d] = Less(Less(Due[d], x), y)
        BY <4>3
      <4> HIDE DEF x, y, z
      <4>7. Less(Less(Due[d], x), y) = Less(Due[d], x + y)
        BY <4>4, <4>5, LessTwice
      <4>8. left'[d] = Less(Due[d], z)
        BY <4>5, <4>6, <4>7
      <4> QED  BY <4>8 DEF z
    <3>9. ASSUME NEW m \in Movements
          PROVE  Spent({a \in Attributed' : a.by = "llm"}, m) <= Cash[m]
      <4> DEFINE before == {a \in Attributed : a.by = "llm"}
                 new == {a \in Attributed' : a.by = "llm"}
      <4>1. Spent(before, m) <= Cash[m]
        BY <3>1 DEF Alone
      <4>2. Spent(t.rows, m) <= Cash[m]
        <5>1. Spent(t.rows, m) + t.has[m] <= Cash[m]
          BY <1>2 DEF Counted
        <5>2. Spent(t.rows, m) \in Nat /\ t.has[m] \in Nat /\ Cash[m] \in Nat
          BY <1>1, <3>2, SpentIsNat, StageAssumption DEF RunRecord
        <5> QED  BY <5>1, <5>2
      <4>3. new = before \union t.rows
        BY <3>3, <3>6
      <4>4. CASE \E b \in t.rows : b.m = m
        <5>1. {a \in new : a.m = m} = {a \in t.rows : a.m = m}
          BY <3>3, <4>3, <4>4 DEF NoModelRows
        <5> QED  BY <4>2, <5>1 DEF Spent
      <4>5. CASE \A b \in t.rows : b.m # m
        <5>1. {a \in new : a.m = m} = {a \in before : a.m = m}
          BY <4>3, <4>5
        <5> QED  BY <4>1, <5>1 DEF Spent
      <4> QED  BY <4>4, <4>5
    <3>10. \A q \in Runs : NothingToReplace(run[q])'
      <4>1. ASSUME NEW q \in Runs
            PROVE  /\ run'[q].gone = {} /\ run'[q].old = {}
                   /\ run'[q].pc \notin {"asked", "answered", "clear", "apply"}
        <5>1. CASE q = r
          BY <1>2, <1>6, <2>1, <3>0, <5>1 DEF NothingToReplace
        <5>2. CASE q # r
          <6>1. Alike(run[q], run'[q]) /\ NothingToReplace(run[q]) /\ ~Active(q)
            BY <2>1, <3>1, <5>2, ForgetAlike DEF Alone, IInv, TypeOK
          <6> QED  BY <6>1 DEF Alike, NothingToReplace, Active
        <5> QED  BY <5>1, <5>2
      <4> QED  BY <4>1 DEF NothingToReplace
    <3>11. \A q \in Runs : Active(q)' => q = r
      <4>1. \A q \in Runs : q # r => Alike(run[q], run'[q])
        BY <2>1, ForgetAlike DEF IInv, TypeOK
      <4> QED  BY <3>1, <4>1 DEF Active, Alike
    <3>12. SavedAll'
      <4>1. CASE t.rows = {}
        BY <1>4, <3>1, <3>6, <4>1 DEF Alone, SavedAll
      <4>2. CASE ~InTheWay({a.d : a \in t.rows}, Requests)
        BY <1>4, <4>2 DEF InTheWay, UnderWay, SavedAll
      <4> QED  BY <3>0, <4>1, <4>2
    <3>13. ASSUME NEW w \in Requests PROVE SummedRight(w)'
      <4>1. Keys(t.gone) = {}
        BY <3>4 DEF Keys
      <4>2. request'[w] = request[w]
        BY <1>10, <4>1 DEF Without
      <4>3. Summed(w)' => \A b \in t.rows : b.d # request[w].row.d
        BY <3>0, <4>2, NobodySummed DEF Summed
      <4>4. Summed(w)' => {b \in Attributed' : b.d = request[w].row.d}
                            = {b \in Attributed : b.d = request[w].row.d}
        BY <3>6, <4>3
      <4> QED  BY <3>1, <4>2, <4>4, StillSummedRight DEF Alone, IInv
    <3> QED  BY <3>8, <3>9, <3>10, <3>11, <3>12, <3>13 DEF Alone
  <2> QED  BY <2>2, <2>3 DEF SumInv, Counted
<1> QED  BY <1>3, <1>9, <1>10

\* A step of the brain's waterfall or of a request, while nobody is in its way:
\* no rows of the model come, and those that come or go are of one document.
LEMMA OneDocument ==
    ASSUME IInv, SumInv, NEW d \in Documents,
           \A q \in Runs : Alike(run[q], run'[q]),
           ~disturbed' =>
             /\ ~disturbed /\ ~UnderWay /\ rebuild' = rebuild
             /\ {a \in attributions' : a.by = "llm"} \subseteq {a \in attributions : a.by = "llm"}
             /\ {a \in attributions' : a.d # d} = {a \in attributions : a.d # d}
             /\ left'[d] = Less(Due[d], Taken(attributions', d))
             /\ \A e \in Documents : e # d => left'[e] = left[e]
             /\ \A v \in Requests :
                  Summed(v)' => request'[v] = request[v] /\ request[v].row.d # d
    PROVE  SumInv'
<1>1. (\A q \in Runs : Counted(run[q]))'
  BY AlikeCounted
<1>2. ASSUME ~disturbed' PROVE Alone'
  <2>1. /\ Alone /\ ~disturbed /\ rebuild.saved = {} /\ rebuild.pc # "delete"
        /\ rebuild' = rebuild
    BY <1>2 DEF UnderWay, SumInv
  <2>2. Attributed = attributions /\ Attributed' = attributions'
    BY <2>1 DEF Attributed
  <2>3. {a \in Attributed' : a.by = "llm"} \subseteq {a \in Attributed : a.by = "llm"}
    BY <1>2, <2>2
  <2>4. \A e \in Documents : e # d => {a \in Attributed' : a.d = e} = {a \in Attributed : a.d = e}
    BY <1>2, <2>2
  <2>5. \A m : NoModelRows(m) => NoModelRows(m)'
    BY <2>3 DEF NoModelRows
  <2>6. /\ \A p, q \in Runs : Active(p)' /\ Active(q)' => p = q
        /\ \A q \in Runs : NothingToReplace(run[q])'
    BY <2>1, <2>5, AlikeRunsStay
  <2>7. ASSUME NEW v \in Requests PROVE SummedRight(v)'
    <3>1. ASSUME Summed(v)'
          PROVE  /\ request'[v] = request[v]
                 /\ {b \in Attributed' : b.d = request[v].row.d}
                      = {b \in Attributed : b.d = request[v].row.d}
      <4>1. request'[v] = request[v] /\ request[v].row.d # d /\ request[v].pc = "sum"
        BY <1>2, <3>1 DEF Summed
      <4>2. request[v].row.d \in Documents
        BY <4>1, RowOfRequest DEF IInv
      <4> QED  BY <2>4, <4>1, <4>2
    <3> QED  BY <2>1, <3>1, StillSummedRight DEF Alone, IInv
  <2>8. ASSUME NEW e \in Documents PROVE left'[e] = Less(Due[e], Taken(Attributed', e))
    <3>1. CASE e = d
      BY <1>2, <2>2, <3>1
    <3>2. CASE e # d
      <4>1. Taken(Attributed', e) = Taken(Attributed, e)
        BY <2>4, <3>2 DEF Taken
      <4> QED  BY <1>2, <2>1, <3>2, <4>1 DEF Alone
    <3> QED  BY <3>1, <3>2
  <2>9. ASSUME NEW m \in Movements
        PROVE  Spent({a \in Attributed' : a.by = "llm"}, m) <= Cash[m]
    <3> DEFINE new == {a \in Attributed' : a.by = "llm"}
               before == {a \in Attributed : a.by = "llm"}
    <3>1. Spent(before, m) <= Cash[m] /\ Cash[m] \in Nat
      BY <2>1, StageAssumption DEF Alone
    <3>2. before \subseteq Row /\ IsFiniteSet(before)
      BY <2>2, FS_Subset DEF IInv, TypeOK
    <3>3. new \subseteq before
      BY <2>3
    <3> HIDE DEF new, before
    <3>4. Spent(new, m) \in Nat /\ Spent(before, m) \in Nat /\ Spent(new, m) <= Spent(before, m)
      BY <3>2, <3>3, FewerSpend
    <3>5. Spent(new, m) <= Cash[m]
      BY <3>1, <3>4
    <3> QED  BY <3>5 DEF new
  <2>10. SavedAll'
    BY <2>1 DEF SavedAll
  <2> QED  BY <2>6, <2>7, <2>8, <2>9, <2>10 DEF Alone
<1> QED  BY <1>1, <1>2 DEF SumInv

\* What is taken of a document by one more row.
LEMMA OtherCounts ==
    ASSUME IInv, SumInv, NEW p \in Planned, OtherWaterfall(p)
    PROVE  SumInv'
<1> DEFINE row == [m |-> p.m, d |-> p.d, by |-> "waterfall", net |-> p.x]
           d == p.d
<1>1. p \in [m : Movements, d : Documents, x : Nat \ {0}] /\ d \in Documents /\ p.x \in Nat
  BY StageAssumption
<1>2. row \in Row /\ row.by = "waterfall" /\ row.d = d /\ row.net = p.x
  BY <1>1 DEF Row
<1>3. /\ attributions' = attributions \union {row} /\ left' = [left EXCEPT ![d] = Less(@, p.x)]
      /\ \A a \in attributions : a.by = "llm"
      /\ run' = run /\ request' = request /\ rebuild' = rebuild
      /\ disturbed' = (disturbed \/ InTheWay({d}, Requests))
  BY DEF OtherWaterfall, movements
<1> HIDE DEF row, d
<1>4. row \notin attributions /\ attributions \subseteq Row /\ IsFiniteSet(attributions)
  BY <1>2, <1>3 DEF IInv, TypeOK
<1>5. \A q \in Runs : Alike(run[q], run'[q])
  BY <1>3 DEF Alike
<1>6. {a \in attributions' : a.by = "llm"} \subseteq {a \in attributions : a.by = "llm"}
  BY <1>2, <1>3
<1>7. {a \in attributions' : a.d # d} = {a \in attributions : a.d # d}
  BY <1>2, <1>3
<1>8. left'[d] = Less(left[d], p.x) /\ \A e \in Documents : e # d => left'[e] = left[e]
  BY <1>1, <1>3 DEF IInv, TypeOK
<1>9. ASSUME ~disturbed'
      PROVE  /\ ~disturbed /\ ~UnderWay
             /\ left'[d] = Less(Due[d], Taken(attributions', d))
             /\ \A v \in Requests :
                  Summed(v)' => request'[v] = request[v] /\ request[v].row.d # d
  <2>1. ~disturbed /\ ~InTheWay({d}, Requests)
    BY <1>3, <1>9
  <2>2. ~UnderWay /\ Attributed = attributions
    BY <2>1 DEF InTheWay, UnderWay, Attributed
  <2>3. \A v \in Requests : Summed(v)' => request'[v] = request[v] /\ request[v].row.d # d
    BY <1>3, <2>1 DEF InTheWay, Summed
  <2>4. /\ Taken(attributions, d) \in Nat
        /\ Taken(attributions', d) = Taken(attributions, d) + p.x
    BY <1>2, <1>3, <1>4, RowCounts
  <2>5. left[d] = Less(Due[d], Taken(attributions, d)) /\ Due[d] \in Nat
    BY <1>1, <2>1, <2>2, StageAssumption DEF SumInv, Alone
  <2>6. Less(Less(Due[d], Taken(attributions, d)), p.x)
          = Less(Due[d], Taken(attributions, d) + p.x)
    BY <1>1, <2>4, <2>5, LessTwice
  <2> QED  BY <1>8, <2>1, <2>2, <2>3, <2>4, <2>5, <2>6
<1>10. d \in Documents
  BY <1>1
<1> QED  BY <1>3, <1>5, <1>6, <1>7, <1>8, <1>9, <1>10, OneDocument

LEMMA UnmatchReadCounts ==
    ASSUME IInv, SumInv, NEW u \in Requests, NEW a \in attributions, UnmatchRead(u, a)
    PROVE  SumInv'
<1>1. \A q \in Runs : Alike(run[q], run'[q])
  BY DEF UnmatchRead, Alike
<1>2. \A v \in Requests : Summed(v)' => request'[v] = request[v]
  BY DEF UnmatchRead, Summed, IInv, TypeOK
<1>3. ~disturbed' => ~disturbed /\ Attributed' = Attributed /\ SavedAll'
  BY DEF UnmatchRead, movements, Attributed, SavedAll, SumInv, Alone
<1> QED  BY <1>1, <1>2, <1>3, NothingMoves DEF UnmatchRead

LEMMA UnmatchFailsCounts ==
    ASSUME IInv, SumInv, NEW u \in Requests, UnmatchFails(u)
    PROVE  SumInv'
<1>1. \A q \in Runs : Alike(run[q], run'[q])
  BY DEF UnmatchFails, Alike
<1>2. \A v \in Requests : Summed(v)' => request'[v] = request[v]
  BY DEF UnmatchFails, Summed, NoRequest, IInv, TypeOK
<1>3. ~disturbed' => ~disturbed /\ Attributed' = Attributed /\ SavedAll'
  BY DEF UnmatchFails, movements, Attributed, SavedAll, SumInv, Alone
<1> QED  BY <1>1, <1>2, <1>3, NothingMoves DEF UnmatchFails

LEMMA UnmatchSumCounts ==
    ASSUME IInv, SumInv, NEW u \in Requests, UnmatchSum(u)
    PROVE  SumInv'
<1> DEFINE a == request[u].row
           others == IF request[u].there
                     THEN {b \in attributions : Key(b) # Key(a)}
                     ELSE attributions
           balance == Less(Due[a.d], Taken(others, a.d))
<1>1. request[u] \in [pc : {"read", "sum"}, row : Row, there : BOOLEAN, balance : Nat]
  BY RowOfRequest DEF UnmatchSum, IInv
<1>2. request' = [request EXCEPT ![u].pc = "sum", ![u].balance = balance]
  BY DEF UnmatchSum
<1>3. /\ run' = run /\ left' = left /\ attributions' = attributions /\ rebuild' = rebuild
      /\ disturbed' = (disturbed \/ SetAside)
  BY DEF UnmatchSum, movements
<1>4. others = {b \in attributions : request[u].there => Key(b) # Key(a)}
  OBVIOUS
<1> HIDE DEF others
<1>5. /\ request'[u].balance = balance /\ request'[u].row = a
      /\ request'[u].there = request[u].there
      /\ \A v \in Requests : v # u => request'[v] = request[v]
  BY <1>1, <1>2 DEF IInv, TypeOK
<1>6. \A q \in Runs : Alike(run[q], run'[q])
  BY <1>3 DEF Alike
<1>7. (\A q \in Runs : Counted(run[q]))'
  BY <1>6, AlikeCounted
<1>8. Attributed' = Attributed
  BY <1>3 DEF Attributed
<1>9. ASSUME ~disturbed' PROVE Alone'
  <2>1. ~disturbed /\ ~SetAside /\ Alone
    BY <1>3, <1>9 DEF SumInv
  <2>2. Attributed = attributions
    BY <2>1 DEF Alone, SavedAll, SetAside, Attributed
  <2>3. \A m : NoModelRows(m) => NoModelRows(m)'
    BY <1>8 DEF NoModelRows
  <2>4. /\ \A p, q \in Runs : Active(p)' /\ Active(q)' => p = q
        /\ \A q \in Runs : NothingToReplace(run[q])'
    BY <1>6, <2>1, <2>3, AlikeRunsStay
  <2>5. Staying(u)' = others
    BY <1>4, <1>5, <1>8, <2>2 DEF Staying
  <2>6. request'[u].balance = Less(Due[request'[u].row.d], Taken(Staying(u)', request'[u].row.d))
    BY <1>5, <2>5
  <2>7. SummedRight(u)'
    BY <2>6 DEF SummedRight
  <2>8. ASSUME NEW v \in Requests, v # u PROVE SummedRight(v)'
    BY <1>5, <1>8, <2>1, <2>8, StillSummedRight DEF Alone, IInv
  <2>9. SavedAll'
    BY <1>3, <2>1 DEF Alone, SavedAll
  <2>10. /\ \A e \in Documents : left'[e] = Less(Due[e], Taken(Attributed', e))
         /\ \A m \in Movements : Spent({b \in Attributed' : b.by = "llm"}, m) <= Cash[m]
    BY <1>3, <1>8, <2>1 DEF Alone
  <2> QED  BY <2>4, <2>7, <2>8, <2>9, <2>10 DEF Alone
<1> QED  BY <1>7, <1>9 DEF SumInv

LEMMA UnmatchCommitCounts ==
    ASSUME IInv, SumInv, NEW u \in Requests, UnmatchCommit(u)
    PROVE  SumInv'
<1> DEFINE a == request[u].row
           d == request[u].row.d
           keys == IF request[u].there THEN {Key(a)} ELSE {}
<1>1. request[u].pc = "sum" /\ a \in Row /\ d \in Documents /\ Key(a)[2] = d
  BY RowOfRequest DEF UnmatchCommit, Summed, IInv, Key
<1>2. /\ attributions' = {b \in attributions : Key(b) \notin keys}
      /\ left' = [left EXCEPT ![d] = request[u].balance]
      /\ run' = [r \in Runs |-> Forget(run[r], keys)]
      /\ request' = [Without(keys) EXCEPT ![u] = NoRequest]
      /\ rebuild' = rebuild
      /\ disturbed' = (disturbed \/ InTheWay({d}, Requests \ {u}))
  BY DEF UnmatchCommit, movements
<1>3. attributions' = {b \in attributions : request[u].there => Key(b) # Key(a)}
  BY <1>2
<1>4. \A k \in keys : k[2] = d
  BY <1>1
<1> HIDE DEF keys
<1>5. \A q \in Runs : Alike(run[q], run'[q])
  BY <1>2, ForgetAlike DEF IInv, TypeOK
<1>6. {b \in attributions' : b.d # d} = {b \in attributions : b.d # d}
  BY <1>2, <1>4 DEF Key
<1>7. left'[d] = request[u].balance /\ \A e \in Documents : e # d => left'[e] = left[e]
  BY <1>1, <1>2 DEF IInv, TypeOK
<1>8. /\ request'[u] = NoRequest
      /\ \A v \in Requests : v # u =>
           request'[v] = IF request[v].pc # "idle" /\ Key(request[v].row) \in keys
                         THEN [request[v] EXCEPT !.there = FALSE]
                         ELSE request[v]
  BY <1>2 DEF Without
<1>9. ASSUME ~disturbed'
      PROVE  /\ ~disturbed /\ ~UnderWay
             /\ left'[d] = Less(Due[d], Taken(attributions', d))
             /\ \A v \in Requests :
                  Summed(v)' => request'[v] = request[v] /\ request[v].row.d # d
  <2>1. ~disturbed /\ ~InTheWay({d}, Requests \ {u}) /\ Alone
    BY <1>2, <1>9 DEF SumInv
  <2>2. ~UnderWay /\ Attributed = attributions
    BY <2>1 DEF InTheWay, UnderWay, Attributed
  <2>3. Staying(u) = attributions'
    BY <1>3, <2>2 DEF Staying
  <2>4. request[u].balance = Less(Due[d], Taken(attributions', d))
    BY <1>1, <2>1, <2>3 DEF Alone, SummedRight, Summed
  <2>5. ASSUME NEW v \in Requests, Summed(v)'
        PROVE  request'[v] = request[v] /\ request[v].row.d # d
    <3>1. v # u
      BY <1>8, <2>5 DEF Summed, NoRequest
    <3>2. request[v].pc # "idle"
      BY <1>8, <2>5, <3>1 DEF Summed
    <3>3. request[v].pc = "sum"
      <4>1. request[v] \in [pc : {"read", "sum"}, row : Row, there : BOOLEAN, balance : Nat]
        BY <3>2, RowOfRequest DEF IInv
      <4>2. request'[v].pc = request[v].pc
        BY <1>8, <3>1, <4>1
      <4> QED  BY <2>5, <4>2 DEF Summed
    <3>4. request[v].row.d # d
      BY <2>1, <3>1, <3>3 DEF InTheWay, Summed
    <3>5. Key(request[v].row) \notin keys
      BY <1>4, <3>4 DEF Key
    <3> QED  BY <1>8, <3>1, <3>4, <3>5
  <2> QED  BY <1>7, <2>1, <2>2, <2>4, <2>5
<1>10. {b \in attributions' : b.by = "llm"} \subseteq {b \in attributions : b.by = "llm"}
  BY <1>2
<1>11. rebuild' = rebuild
  BY <1>2
<1> HIDE DEF a, d
<1> QED  BY <1>1, <1>5, <1>6, <1>7, <1>9, <1>10, <1>11, OneDocument

\* The steps of a rebuild set the attributions aside and put them back.
LEMMA SaveCounts == ASSUME IInv, SumInv, SaveAttributions PROVE SumInv'
<1>1. /\ run' = run /\ request' = request /\ left' = left /\ attributions' = attributions
      /\ rebuild.pc = "idle" /\ rebuild'.pc = "delete"
      /\ \/ rebuild'.saved = attributions /\ disturbed' = disturbed
         \/ rebuild'.saved = {} /\ disturbed' = (disturbed \/ attributions # {})
  BY DEF SaveAttributions
<1>2. \A q \in Runs : Alike(run[q], run'[q])
  BY <1>1 DEF Alike
<1>3. ASSUME ~disturbed' PROVE ~disturbed /\ Attributed' = Attributed /\ SavedAll'
  <2>1. ~disturbed /\ rebuild'.saved = attributions
    <3>1. CASE rebuild'.saved = attributions /\ disturbed' = disturbed
      BY <1>3, <3>1
    <3>2. CASE rebuild'.saved = {} /\ disturbed' = (disturbed \/ attributions # {})
      <4>1. ~(disturbed \/ attributions # {})
        BY <1>3, <3>2, Zenon
      <4> QED  BY <3>2, <4>1
    <3> QED  BY <1>1, <3>1, <3>2
  <2>2. rebuild.saved = {}
    BY <1>1, <2>1 DEF SumInv, Alone, SavedAll
  <2> QED  BY <1>1, <2>1, <2>2 DEF Attributed, SavedAll
<1> QED  BY <1>1, <1>2, <1>3, NothingMoves

LEMMA DeleteCounts == ASSUME IInv, SumInv, DeleteMovements PROVE SumInv'
<1>1. /\ attributions' = {} /\ left' = left /\ disturbed' = disturbed /\ rebuild.pc = "delete"
      /\ run' = [r \in Runs |-> Forget(run[r], Keys(attributions))]
      /\ request' = Without(Keys(attributions))
      /\ \A u \in Requests, a \in attributions : ~Deletes(u, Key(a))
  BY DEF DeleteMovements
<1>2. rebuild'.pc = "insert" /\ rebuild'.saved = rebuild.saved
  BY DEF DeleteMovements, IInv, TypeOK, RebuildRecord
<1>3. \A q \in Runs : Alike(run[q], run'[q])
  BY <1>1, ForgetAlike DEF IInv, TypeOK
<1>4. ASSUME NEW u \in Requests, Summed(u)' PROVE request'[u] = request[u]
  <2>1. request'[u] = IF request[u].pc # "idle" /\ Key(request[u].row) \in Keys(attributions)
                      THEN [request[u] EXCEPT !.there = FALSE]
                      ELSE request[u]
    BY <1>1 DEF Without
  <2>2. CASE request[u].pc # "idle" /\ Key(request[u].row) \in Keys(attributions)
    <3>1. request[u] \in [pc : {"read", "sum"}, row : Row, there : BOOLEAN, balance : Nat]
      BY <2>2, RowOfRequest DEF IInv
    <3>2. request[u].pc = "sum"
      BY <1>4, <2>1, <2>2, <3>1 DEF Summed
    <3>3. request[u].there = FALSE
      BY <1>1, <2>2, <3>1, <3>2 DEF Keys, Deletes, Summed
    <3> QED  BY <2>1, <2>2, <3>1, <3>3
  <2>3. CASE ~(request[u].pc # "idle" /\ Key(request[u].row) \in Keys(attributions))
    BY <2>1, <2>3
  <2> QED  BY <2>2, <2>3
<1>5. ASSUME ~disturbed' PROVE ~disturbed /\ Attributed' = Attributed /\ SavedAll'
  <2>1. ~disturbed /\ rebuild.saved = attributions
    BY <1>1, <1>5 DEF SumInv, Alone, SavedAll
  <2> QED  BY <1>1, <1>2, <2>1 DEF Attributed, SavedAll
<1> QED  BY <1>1, <1>3, <1>4, <1>5, NothingMoves

LEMMA InsertCounts == ASSUME IInv, SumInv, InsertBatch PROVE SumInv'
<1>1. rebuild.saved \in SUBSET Row
  BY DEF IInv, TypeOK, RebuildRecord
<1>2. /\ run' = run /\ request' = request /\ left' = left /\ attributions' = attributions
      /\ disturbed' = disturbed /\ rebuild.pc = "insert"
      /\ rebuild' = rebuild \/ rebuild' = Restoring(rebuild.saved)
  BY DEF InsertBatch
<1>3. /\ rebuild'.saved = rebuild.saved /\ rebuild'.pc # "delete"
      /\ rebuild'.pc = "idle" => rebuild'.saved = {}
  BY <1>1, <1>2, RestoringIsTyped
<1>4. \A q \in Runs : Alike(run[q], run'[q])
  BY <1>2 DEF Alike
<1>5. ~disturbed' => ~disturbed /\ Attributed' = Attributed /\ SavedAll'
  BY <1>2, <1>3 DEF Attributed, SavedAll
<1> QED  BY <1>2, <1>4, <1>5, NothingMoves

LEMMA RestoreCounts ==
    ASSUME IInv, SumInv, NEW a \in rebuild.saved, RestoreRow(a)
    PROVE  SumInv'
<1>1. rebuild.saved \in SUBSET Row /\ rebuild.saved \ {a} \in SUBSET Row
  BY DEF IInv, TypeOK, RebuildRecord
<1>2. /\ run' = run /\ request' = request /\ left' = left
      /\ attributions' = IF Key(a) \in Keys(attributions) THEN attributions
                         ELSE attributions \union {a}
      /\ rebuild' = Restoring(rebuild.saved \ {a})
      /\ disturbed' = (disturbed \/ Key(a) \in Keys(attributions))
  BY DEF RestoreRow
<1>3. /\ rebuild'.saved = rebuild.saved \ {a} /\ rebuild'.pc # "delete"
      /\ rebuild'.pc = "idle" => rebuild'.saved = {}
  BY <1>1, <1>2, RestoringIsTyped
<1>4. \A q \in Runs : Alike(run[q], run'[q])
  BY <1>2 DEF Alike
<1>5. ASSUME ~disturbed' PROVE ~disturbed /\ Attributed' = Attributed /\ SavedAll'
  <2>1. ~disturbed /\ attributions' = attributions \union {a}
    BY <1>2, <1>5
  <2>2. Attributed' = Attributed
    BY <1>3, <2>1 DEF Attributed
  <2> QED  BY <1>3, <2>1, <2>2 DEF SavedAll
<1> QED  BY <1>2, <1>4, <1>5, NothingMoves

LEMMA RebuildFailsCounts == ASSUME IInv, SumInv, RebuildFails PROVE SumInv'
<1>1. /\ run' = run /\ request' = request /\ left' = left /\ attributions' = attributions
      /\ rebuild' = Restoring({}) /\ disturbed' = (disturbed \/ SetAside)
  BY DEF RebuildFails
<1>2. rebuild'.saved = {} /\ rebuild'.pc = "idle"
  BY <1>1, RestoringIsTyped
<1>3. \A q \in Runs : Alike(run[q], run'[q])
  BY <1>1 DEF Alike
<1>4. ASSUME ~disturbed' PROVE ~disturbed /\ Attributed' = Attributed /\ SavedAll'
  <2>1. ~disturbed /\ ~SetAside
    BY <1>1, <1>4
  <2>2. rebuild.saved = {} \/ rebuild.saved = attributions
    BY <2>1 DEF SumInv, Alone, SavedAll, SetAside
  <2> QED  BY <1>1, <1>2, <2>1, <2>2 DEF Attributed, SavedAll
<1> QED  BY <1>1, <1>3, <1>4, NothingMoves

LEMMA StutterCounts == ASSUME IInv, SumInv, UNCHANGED vars PROVE SumInv'
<1>1. /\ run' = run /\ request' = request /\ left' = left /\ attributions' = attributions
      /\ rebuild' = rebuild /\ disturbed' = disturbed
  BY DEF vars, movements
<1>2. \A q \in Runs : Alike(run[q], run'[q])
  BY <1>1 DEF Alike
<1>3. ~disturbed' => ~disturbed /\ Attributed' = Attributed /\ SavedAll'
  BY <1>1 DEF Attributed, SavedAll, SumInv, Alone
<1> QED  BY <1>1, <1>2, <1>3, NothingMoves

LEMMA InitCounts == Init => SumInv
<1> SUFFICES ASSUME Init PROVE SumInv
  OBVIOUS
<1>1. \A r \in Runs : run[r] = Fresh
  BY DEF Init
<1>2. \A d \in Documents : Due[d] = Less(Due[d], 0)
  BY StageAssumption DEF Less
<1>3. Attributed = {} /\ rebuild.saved = {} /\ rebuild.pc = "idle"
  BY RestoringIsTyped DEF Init, Attributed
<1>4. {a \in Attributed : a.by = "llm"} = {}
  BY <1>3
<1>5. \A m \in Movements : 0 <= Cash[m]
  BY StageAssumption
<1>6. SavedAll
  BY <1>3 DEF SavedAll
<1>7. \A u \in Requests : SummedRight(u)
  BY DEF Init, SummedRight, Summed, NoRequest
<1>8. Alone
  BY <1>1, <1>2, <1>3, <1>4, <1>5, <1>6, <1>7, NoRows, FreshCounted DEF Init, Alone, Active
<1> QED  BY <1>1, <1>8, FreshCounted DEF Init, SumInv

LEMMA NextCounts == IInv /\ SumInv /\ [Next]_vars => SumInv'
<1> SUFFICES ASSUME IInv, SumInv, [Next]_vars PROVE SumInv'
  OBVIOUS
<1>1. ASSUME NEW r \in Runs, Step(r) PROVE SumInv'
  BY <1>1, StartCounts, ReadCounts, AnswerCounts, BeginCounts, ClearCounts, SkipCounts,
     ApplyCounts, FailCounts, VanishCounts, CommitCounts, FilterCounts DEF Step
<1>2. ASSUME NEW r \in Runs, Lost(r) PROVE SumInv'
  BY <1>2, LostCounts
<1>3. ASSUME NEW p \in Planned, OtherWaterfall(p) PROVE SumInv'
  BY <1>3, OtherCounts
<1>4. ASSUME NEW u \in Requests, Unmatch(u) PROVE SumInv'
  BY <1>4, UnmatchReadCounts, UnmatchSumCounts, UnmatchCommitCounts, UnmatchFailsCounts
     DEF Unmatch
<1>5. CASE Rebuild
  BY <1>5, SaveCounts, DeleteCounts, InsertCounts, RestoreCounts, RebuildFailsCounts
     DEF Rebuild
<1>6. CASE UNCHANGED vars
  BY <1>6, StutterCounts
<1> QED  BY <1>1, <1>2, <1>3, <1>4, <1>5, <1>6 DEF Next

\* The invariant of the sums holds of every reachable state of stage 4: what a
\* run of applyLLMMatches has counted is what its rows take; and as long as
\* those who change the attributions keep out of each other's way, a run has
\* nothing to replace, a rebuild has saved what it deletes, and what an unmatch
\* has summed up is still what the other attributions leave.
THEOREM SumsAdd == Spec => []SumInv
<1> QED  BY InitCounts, NextCounts, StageInvariant, PTL DEF Spec

\* Under that condition the outstanding amount of every document is what its
\* attributions leave of what is due, those included that a rebuild has set
\* aside, through failed statements, transactions that were aborted and
\* committed all the same, other waterfalls, unmatches, and rebuilds that
\* delete, insert and restore in transactions of their own.
THEOREM BalancesAlwaysFollow == Spec => []BalancesFollow
<1>1. SumInv => BalancesFollow
  BY DEF SumInv, Alone, BalancesFollow
<1> QED  BY <1>1, SumsAdd, PTL

\* Under the same condition the model's attributions of a movement never add up
\* to more than its cash.
THEOREM ModelAlwaysWithinCash == Spec => []ModelWithinCash
<1>1. SumInv => ModelWithinCash
  BY DEF SumInv, Alone, ModelWithinCash
<1> QED  BY <1>1, SumsAdd, PTL
=============================================================================
