-------------------------- MODULE VarIntentProofs ---------------------------
(***************************************************************************)
(* What holds of VarIntent for any number of Commits: the types of its     *)
(* state, and that the strategy, left to itself, neither opens nor closes  *)
(* twice and never commits beside an order that may still be executed.     *)
(***************************************************************************)
EXTENDS VarIntent, FiniteSetTheorems, WellFoundedInduction, TLAPS

-----------------------------------------------------------------------------
(* Positions and tracked positions, by recursion over a sequence *)

\* Every set of numbers has a least one: the cases left by a property of all
\* numbers cannot descend for ever.
LEMMA LeastElement ==
    ASSUME NEW T, T \subseteq Nat, T # {}
    PROVE  \E x \in T : \A y \in T : x <= y
<1> DEFINE U == {0..x : x \in T}
<1>1. U \subseteq FiniteSubsetsOf(Nat)
  <2> SUFFICES ASSUME NEW x \in T PROVE 0..x \in FiniteSubsetsOf(Nat)
    OBVIOUS
  <2>1. x \in Int /\ 0 \in Int /\ 0..x \subseteq Nat
    OBVIOUS
  <2>2. IsFiniteSet(0..x)
    BY <2>1, FS_Interval
  <2>3. QED
    BY <2>1, <2>2 DEF FiniteSubsetsOf
<1>2. \E I \in U : \A J \in U : <<J, I>> \notin StrictSubsetOrdering(Nat)
  <2>1. IsWellFoundedOn(StrictSubsetOrdering(Nat), FiniteSubsetsOf(Nat))
    BY FS_StrictSubsetOrderingWellFounded
  <2>2. U # {}
    OBVIOUS
  <2>3. QED
    BY <1>1, <2>1, <2>2, WFMin
<1>3. PICK x \in T : \A y \in T : <<0..y, 0..x>> \notin StrictSubsetOrdering(Nat)
  BY <1>2
<1>4. ASSUME NEW y \in T, y < x
      PROVE  <<0..y, 0..x>> \in StrictSubsetOrdering(Nat)
  <2>1. 0..y \subseteq 0..x /\ x \in 0..x /\ x \notin 0..y /\ 0..x \subseteq Nat
    BY <1>4
  <2>2. 0..y # 0..x
    BY <2>1
  <2>3. QED
    BY <2>1, <2>2 DEF StrictSubsetOrdering
<1>5. \A y \in T : ~(y < x)
  BY <1>3, <1>4
<1>6. x \in Nat /\ \A y \in T : y \in Nat
  OBVIOUS
<1>7. QED
  BY <1>5, <1>6

\* The positions after each of the orders placed.
Positions(placed, f) ==
    f = [n \in 0..Len(placed) |-> IF n = 0 THEN 0 ELSE f[n - 1] + Effect(placed[n])]

LEMMA PositionsExist ==
    ASSUME NEW placed, NEW n \in Nat
    PROVE  \E f : f = [m \in 0..n |-> IF m = 0 THEN 0 ELSE f[m - 1] + Effect(placed[m])]
<1> DEFINE Sums(f, m) == f = [i \in 0..m |-> IF i = 0 THEN 0 ELSE f[i - 1] + Effect(placed[i])]
           T == {m \in Nat : ~ \E f : Sums(f, m)}
<1> SUFFICES ASSUME T # {} PROVE FALSE
  OBVIOUS
<1>1. PICK m \in T : \A y \in T : m <= y
  <2>1. T \subseteq Nat /\ T # {}
    OBVIOUS
  <2> HIDE DEF T
  <2>2. QED
    BY <2>1, LeastElement
<1>2. m # 0
  <2>1. Sums([i \in 0..0 |-> 0], 0)
    OBVIOUS
  <2>2. QED
    BY <2>1
<1>3. m - 1 \in Nat /\ m - 1 \notin T
  BY <1>1, <1>2
<1>4. PICK f : Sums(f, m - 1)
  BY <1>3
<1> DEFINE g == [i \in 0..m |-> IF i = 0 THEN 0 ELSE f[i - 1] + Effect(placed[i])]
<1>5. \A i \in 0..(m - 1) : f[i] = IF i = 0 THEN 0 ELSE f[i - 1] + Effect(placed[i])
  BY <1>4
<1>6. \A i \in 0..(m - 1) : g[i] = f[i]
  BY <1>3, <1>5
<1>7. \A i \in 0..m : i # 0 => g[i - 1] = f[i - 1]
  <2>1. \A i \in 0..m : i # 0 => i - 1 \in 0..(m - 1)
    BY <1>3
  <2> HIDE DEF g, T
  <2>2. QED
    BY <1>6, <2>1
<1>8. Sums(g, m)
  <2>1. \A i \in 0..m : g[i] = IF i = 0 THEN 0 ELSE g[i - 1] + Effect(placed[i])
    BY <1>7
  <2> HIDE DEF g
  <2>2. g = [i \in 0..m |-> g[i]]
    BY DEF g
  <2>3. QED
    BY <2>1, <2>2
<1>9. QED
  <2> HIDE DEF g, Sums
  <2> QED
    BY <1>8

LEMMA PositionByPositions ==
    ASSUME NEW placed, Len(placed) \in Nat
    PROVE  \E f : Positions(placed, f) /\ PositionAfter(placed) = f[Len(placed)]
<1> DEFINE f == CHOOSE g : Positions(placed, g)
<1>1. Positions(placed, f)
  BY PositionsExist DEF Positions
<1>2. PositionAfter(placed) = f[Len(placed)]
  BY DEF PositionAfter, Positions
<1>3. QED
  BY <1>1, <1>2

LEMMA EffectIsInt ==
    ASSUME NEW w, w.qty \in Nat
    PROVE  Effect(w) \in Int
BY DEF Effect, Sign

LEMMA PositionsAreInt ==
    ASSUME NEW placed, Len(placed) \in Nat, \A n \in 1..Len(placed) : placed[n].qty \in Nat,
           NEW f, Positions(placed, f)
    PROVE  \A n \in 0..Len(placed) : f[n] \in Int
<1> DEFINE T == {n \in 0..Len(placed) : f[n] \notin Int}
<1> SUFFICES ASSUME T # {} PROVE FALSE
  OBVIOUS
<1>1. PICK x \in T : \A y \in T : x <= y
  <2>1. T \subseteq Nat /\ T # {}
    OBVIOUS
  <2> HIDE DEF T
  <2>2. QED
    BY <2>1, LeastElement
<1>2. \A n \in 0..Len(placed) : f[n] = IF n = 0 THEN 0 ELSE f[n - 1] + Effect(placed[n])
  BY DEF Positions
<1>3. x # 0
  BY <1>1, <1>2
<1>4. f[x - 1] \in Int /\ Effect(placed[x]) \in Int
  BY <1>1, <1>3, EffectIsInt
<1>5. QED
  BY <1>2, <1>3, <1>4

LEMMA PositionIsInt ==
    ASSUME NEW placed, Len(placed) \in Nat, \A n \in 1..Len(placed) : placed[n].qty \in Nat
    PROVE  PositionAfter(placed) \in Int
<1>1. PICK f : Positions(placed, f) /\ PositionAfter(placed) = f[Len(placed)]
  BY PositionByPositions
<1>2. QED
  BY <1>1, PositionsAreInt

\* Sequences that begin alike have the same positions that far.
LEMMA PositionsAgree ==
    ASSUME NEW p, NEW q, Len(p) \in Nat, Len(q) \in Nat,
           NEW f, Positions(p, f), NEW g, Positions(q, g),
           NEW k \in Nat, k <= Len(p), k <= Len(q), \A i \in 1..k : p[i] = q[i]
    PROVE  f[k] = g[k]
<1> DEFINE T == {n \in 0..k : f[n] # g[n]}
<1> SUFFICES ASSUME T # {} PROVE FALSE
  OBVIOUS
<1>1. PICK x \in T : \A y \in T : x <= y
  <2>1. T \subseteq Nat /\ T # {}
    OBVIOUS
  <2> HIDE DEF T
  <2>2. QED
    BY <2>1, LeastElement
<1>2. \A n \in 0..k : /\ f[n] = IF n = 0 THEN 0 ELSE f[n - 1] + Effect(p[n])
                      /\ g[n] = IF n = 0 THEN 0 ELSE g[n - 1] + Effect(q[n])
  <2>1. \A n \in 0..k : n \in 0..Len(p) /\ n \in 0..Len(q)
    OBVIOUS
  <2>2. \A n \in 0..Len(p) : f[n] = IF n = 0 THEN 0 ELSE f[n - 1] + Effect(p[n])
    BY DEF Positions
  <2>3. \A n \in 0..Len(q) : g[n] = IF n = 0 THEN 0 ELSE g[n - 1] + Effect(q[n])
    BY DEF Positions
  <2> HIDE DEF T
  <2>4. QED
    BY <2>1, <2>2, <2>3
<1>3. x # 0 /\ x \in 1..k
  BY <1>1, <1>2
<1>4. f[x - 1] = g[x - 1] /\ p[x] = q[x]
  BY <1>1, <1>3
<1>5. QED
  BY <1>1, <1>2, <1>3, <1>4

Quantified(placed) ==
    Len(placed) \in Nat /\ \A n \in 1..Len(placed) : placed[n].qty \in Nat

\* Only the last order counts otherwise than before.
LEMMA PositionOfLast ==
    ASSUME NEW p, NEW q, Quantified(p), Quantified(q), Len(p) = Len(q), Len(p) # 0,
           \A i \in 1..(Len(p) - 1) : p[i] = q[i]
    PROVE  PositionAfter(q) - Effect(q[Len(q)]) = PositionAfter(p) - Effect(p[Len(p)])
<1>1. PICK f : Positions(p, f) /\ PositionAfter(p) = f[Len(p)]
  BY PositionByPositions DEF Quantified
<1>2. PICK g : Positions(q, g) /\ PositionAfter(q) = g[Len(q)]
  BY PositionByPositions DEF Quantified
<1> DEFINE n == Len(p)
<1>3. n \in Nat /\ n - 1 \in Nat /\ n - 1 <= n /\ n \in 0..n /\ n - 1 \in 0..n /\ n \in 1..n
  BY DEF Quantified
<1>4. f[n - 1] = g[n - 1]
  <2>1. n - 1 <= Len(q) /\ Len(p) \in Nat /\ Len(q) \in Nat
    BY <1>3 DEF Quantified
  <2>2. \A i \in 1..(n - 1) : p[i] = q[i]
    OBVIOUS
  <2>3. n - 1 \in Nat /\ n - 1 <= Len(p)
    BY <1>3
  <2> HIDE DEF n
  <2>4. QED
    BY <1>1, <1>2, <2>1, <2>2, <2>3, PositionsAgree
<1>5. f[n] = f[n - 1] + Effect(p[n]) /\ g[n] = g[n - 1] + Effect(q[n])
  BY <1>1, <1>2, <1>3 DEF Positions
<1>6. f[n - 1] \in Int /\ Effect(p[n]) \in Int /\ Effect(q[n]) \in Int
  BY <1>1, <1>3, PositionsAreInt, EffectIsInt DEF Quantified
<1>7. QED
  <2> HIDE DEF n
  <2>1. f[n] - Effect(p[n]) = f[n - 1] /\ g[n] - Effect(q[n]) = g[n - 1]
    BY <1>4, <1>5, <1>6
  <2>2. QED
    BY <1>1, <1>2, <1>4, <2>1 DEF n

\* An order more.
LEMMA PositionOfAppend ==
    ASSUME NEW S, NEW p \in Seq(S), Quantified(p), NEW w \in S, w.qty \in Nat
    PROVE  PositionAfter(Append(p, w)) = PositionAfter(p) + Effect(w)
<1> DEFINE q == Append(p, w)
           n == Len(p)
<1>1. Len(q) = n + 1 /\ q[n + 1] = w /\ \A i \in 1..n : q[i] = p[i]
  OBVIOUS
<1>2. n \in Nat /\ Quantified(q)
  BY <1>1 DEF Quantified
<1>3. PICK f : Positions(p, f) /\ PositionAfter(p) = f[n]
  BY PositionByPositions DEF Quantified
<1>4. PICK g : Positions(q, g) /\ PositionAfter(q) = g[n + 1]
  BY <1>1, <1>2, PositionByPositions DEF Quantified
<1> HIDE DEF q
<1>5. f[n] = g[n]
  BY <1>1, <1>2, <1>3, <1>4, PositionsAgree DEF Quantified
<1>6. n + 1 \in 0..Len(q) /\ n + 1 # 0 /\ (n + 1) - 1 = n
  BY <1>1, <1>2
<1>7. g[n + 1] = g[n] + Effect(w)
  BY <1>1, <1>4, <1>6 DEF Positions
<1>8. QED
  BY <1>3, <1>4, <1>5, <1>7 DEF q

\* The tracked position after each of the records.
Opens(recs, excluded, f) ==
    f = [r \in 0..Len(recs) |-> IF r = 0 THEN 0 ELSE NextOpen(recs, excluded, f[r - 1], r)]

\* The same, up to a record; what is counted is a number of records.
OpensUpTo(recs, excluded, n, f) ==
    f = [r \in 0..n |-> IF r = 0 THEN 0 ELSE NextOpen(recs, excluded, f[r - 1], r)]
Counted(recs, excluded, n) == n \in Nat

LEMMA OpensExist ==
    ASSUME NEW recs, NEW excluded, NEW n, Counted(recs, excluded, n)
    PROVE  \E f : OpensUpTo(recs, excluded, n, f)
<1> DEFINE Step(f, i) == IF i = 0 THEN 0 ELSE NextOpen(recs, excluded, f[i - 1], i)
           Run(f, m) == f = [i \in 0..m |-> Step(f, i)]
           T == {m \in Nat : ~ \E f : Run(f, m)}
<1> SUFFICES ASSUME T # {} PROVE FALSE
  BY DEF Counted, OpensUpTo
<1>1. PICK m \in T : \A y \in T : m <= y
  <2>1. T \subseteq Nat /\ T # {}
    OBVIOUS
  <2> HIDE DEF T
  <2>2. QED
    BY <2>1, LeastElement
<1>2. m # 0
  <2>1. Run([i \in 0..0 |-> 0], 0)
    OBVIOUS
  <2>2. QED
    BY <2>1
<1>3. m - 1 \in Nat /\ m - 1 \notin T
  <2> HIDE DEF Run, Step
  <2> QED
    BY <1>1, <1>2
<1>4. PICK f : Run(f, m - 1)
  BY <1>3
<1> DEFINE g == [i \in 0..m |-> Step(f, i)]
<1>5. \A i \in 0..(m - 1) : f[i] = Step(f, i)
  BY <1>4
<1>6. \A i \in 0..(m - 1) : g[i] = f[i]
  BY <1>3, <1>5
<1>7. \A i \in 0..m : i # 0 => g[i - 1] = f[i - 1]
  <2>1. \A i \in 0..m : i # 0 => i - 1 \in 0..(m - 1)
    BY <1>3
  <2> HIDE DEF g, T
  <2>2. QED
    BY <1>6, <2>1
<1>8. Run(g, m)
  <2>1. \A i \in 0..m : g[i] = Step(g, i)
    BY <1>7
  <2> HIDE DEF g
  <2>2. g = [i \in 0..m |-> g[i]]
    BY DEF g
  <2>3. QED
    BY <2>1, <2>2
<1>9. QED
  <2> HIDE DEF g, Run
  <2> QED
    BY <1>8

LEMMA OpenByOpens ==
    ASSUME NEW recs, NEW excluded, Len(recs) \in Nat
    PROVE  \E f : Opens(recs, excluded, f) /\ OpenAfter(recs, excluded) = f[Len(recs)]
<1> DEFINE f == CHOOSE g : Opens(recs, excluded, g)
<1>1. Opens(recs, excluded, f)
  <2>1. Counted(recs, excluded, Len(recs))
    BY DEF Counted
  <2>2. \E g : OpensUpTo(recs, excluded, Len(recs), g)
    BY ONLY <2>1, OpensExist
  <2>3. \A g : OpensUpTo(recs, excluded, Len(recs), g) = Opens(recs, excluded, g)
    BY DEF Opens, OpensUpTo
  <2> QED
    BY ONLY <2>2, <2>3
<1>2. OpenAfter(recs, excluded) = f[Len(recs)]
  BY DEF OpenAfter, Opens
<1>3. QED
  BY <1>1, <1>2

\* The tracked position is one of the records, or none.
LEMMA OpenIsRecord ==
    ASSUME NEW recs, NEW excluded, Len(recs) \in Nat
    PROVE  OpenAfter(recs, excluded) \in 0..Len(recs)
<1>1. PICK f : Opens(recs, excluded, f) /\ OpenAfter(recs, excluded) = f[Len(recs)]
  BY OpenByOpens
<1> DEFINE T == {n \in 0..Len(recs) : f[n] \notin 0..n}
<1>2. CASE T # {}
  <2>1. PICK x \in T : \A y \in T : x <= y
    <3>1. T \subseteq Nat /\ T # {}
      BY <1>2
    <3> HIDE DEF T
    <3>2. QED
      BY <3>1, LeastElement
  <2>2. \A n \in 0..Len(recs) : f[n] = IF n = 0 THEN 0
                                       ELSE NextOpen(recs, excluded, f[n - 1], n)
    BY <1>1 DEF Opens
  <2>3. x # 0
    BY <2>1, <2>2
  <2>4. f[x - 1] \in 0..(x - 1)
    BY <2>1, <2>3
  <2>5. f[x] \in {0, x, f[x - 1]}
    BY <2>2, <2>3 DEF NextOpen
  <2>6. QED
    BY <2>4, <2>5
<1>3. QED
  BY <1>1, <1>2

-----------------------------------------------------------------------------
(* The types *)

HasOrder(id) == \E o \in OrderIds : orders[o].intent = id

\* What the actors hold, field by field, and that what they hold exists.
AutoTyped ==
    /\ auto \in [pc : {"idle", "quote", "prepared", "commit"}, id : {0} \cup IntentIds]
    /\ auto.pc # "idle" => auto.id # 0
    /\ auto.pc = "commit" => HasOrder(auto.id)
FlatsTyped ==
    /\ flats \subseteq [pc : {"quote", "prepared", "commit"}, id : IntentIds,
                        by : {"feed", "dog", "task"}]
    /\ inflight \in BOOLEAN
FeedTyped ==
    /\ feed \in [pc : {"idle", "follow", "flatten", "unsupported"},
                 rec : {0} \cup RecordIds, open : {0} \cup RecordIds]
    /\ feed.pc = "follow" => feed.rec # 0
DogTyped ==
    dog \in [pc : {"idle", "follow", "flatten", "refresh", "page"},
             id : {0} \cup IntentIds, rec : {0} \cup RecordIds, open : {0} \cup RecordIds]
FailedTyped == failed \subseteq RecordIds
ActorsTyped == AutoTyped /\ FlatsTyped /\ FeedTyped /\ DogTyped /\ FailedTyped

IntentsTyped ==
    /\ intents \in Seq(Intent) /\ pending \in {0} \cup IntentIds
    /\ \A i \in IntentIds : intents[i].prov # 0 =>
          HasOrder(i) /\ intents[i].prov <= Len(records)
OrdersTyped == orders \in Seq(Order) /\ \A o \in OrderIds : orders[o].at <= Len(intents)
RecordsTyped == records \in Seq(Record)
AccountTyped == paused \in {"none", "reconcile", "automation"}
                /\ snap \in [pos : Int, at : Nat, fresh : BOOLEAN]

\* TypeOK, with what its proof needs besides.
Typed == IntentsTyped /\ RecordsTyped /\ OrdersTyped /\ ActorsTyped /\ AccountTyped

LEMMA TypedIsTypeOK == Typed => TypeOK
BY DEF Typed, IntentsTyped, RecordsTyped, OrdersTyped, ActorsTyped, AutoTyped, FlatsTyped,
       FeedTyped, DogTyped, FailedTyped, AccountTyped, TypeOK, IntentIds, RecordIds

LEMMA InitTyped == Init => Typed
<1> SUFFICES ASSUME Init PROVE Typed
  OBVIOUS
<1>1. intents = <<>> /\ records = <<>> /\ orders = <<>> /\ pending = 0
  BY DEF Init
<1>2. IntentsTyped /\ RecordsTyped /\ OrdersTyped
  BY <1>1 DEF IntentsTyped, RecordsTyped, OrdersTyped, IntentIds, OrderIds
<1>3. ActorsTyped
  BY DEF Init, ActorsTyped, AutoTyped, FlatsTyped, FeedTyped, DogTyped, FailedTyped, FeedIdle,
         DogIdle
<1>4. AccountTyped
  BY DEF Init, AccountTyped
<1> QED
  BY <1>2, <1>3, <1>4 DEF Typed

\* An element of a sequence is replaced, or one is added.
LEMMA Replaced ==
    ASSUME NEW S, NEW s \in Seq(S), NEW i, NEW v, i \in DOMAIN s => v \in S
    PROVE  [s EXCEPT ![i] = v] \in Seq(S) /\ Len([s EXCEPT ![i] = v]) = Len(s)
<1> DEFINE n == Len(s)
           t == [s EXCEPT ![i] = v]
<1>1. n \in Nat /\ DOMAIN s = 1..n /\ s \in [1..n -> S]
  OBVIOUS
<1>2. t \in [1..n -> S]
  BY <1>1
<1>3. t \in Seq(S) /\ Len(t) = n
  <2> HIDE DEF t
  <2> QED
    BY <1>1, <1>2
<1> QED
  BY <1>3

LEMMA Added ==
    ASSUME NEW S, NEW s \in Seq(S), NEW v \in S
    PROVE  /\ Append(s, v) \in Seq(S) /\ Len(Append(s, v)) = Len(s) + 1
           /\ Append(s, v)[Len(s) + 1] = v
           /\ \A i \in DOMAIN s : Append(s, v)[i] = s[i] /\ i \in DOMAIN Append(s, v)
OBVIOUS

LEMMA OpenTyped ==
    ASSUME Typed
    PROVE  /\ CurrentOpen \in {0} \cup RecordIds
           /\ \A id : TrackedOpen(id) \in {0} \cup RecordIds
<1>1. Len(records) \in Nat /\ RecordIds = 1..Len(records)
  BY DEF Typed, RecordsTyped, RecordIds
<1>2. OpenAfter(records, 0) \in 0..Len(records)
  BY <1>1, OpenIsRecord
<1>3. ASSUME NEW id PROVE OpenAfter(records, intents[id].prov) \in 0..Len(records)
  BY <1>1, OpenIsRecord
<1> QED
  BY <1>1, <1>2, <1>3 DEF CurrentOpen, TrackedOpen

LEMMA RecordHas ==
    ASSUME Typed, NEW r \in RecordIds
    PROVE  records[r] \in Record
BY DEF Typed, RecordsTyped, RecordIds

LEMMA IntentHas ==
    ASSUME Typed, NEW i \in IntentIds
    PROVE  intents[i] \in Intent
BY DEF Typed, IntentsTyped, IntentIds

LEMMA OrderHas ==
    ASSUME Typed, NEW o \in OrderIds
    PROVE  orders[o] \in Order
BY DEF Typed, OrdersTyped, OrderIds

LEMMA OrderOfHas ==
    ASSUME NEW id, HasOrder(id)
    PROVE  OrderOf(id) \in OrderIds /\ orders[OrderOf(id)].intent = id
BY DEF HasOrder, OrderOf

\* The latest of some records is one of them.
LEMMA LatestIsOne ==
    ASSUME Typed, NEW R, R \subseteq RecordIds, R # {}
    PROVE  Max(R) \in R /\ \A r \in R : r <= Max(R)
<1> DEFINE n == Len(records)
           T == {x \in Nat : \A r \in R : r <= x}
<1>1. n \in Nat /\ R \subseteq Nat /\ \A r \in R : r \in 1..n
  BY DEF Typed, RecordsTyped, RecordIds
<1>2. T \subseteq Nat /\ n \in T
  BY <1>1
<1>3. PICK x \in T : \A y \in T : x <= y
  <2> HIDE DEF T
  <2> QED
    BY <1>2, LeastElement
<1>4. x \in Nat /\ \A r \in R : r <= x
  OBVIOUS
<1>5. x \in R
  <2> SUFFICES ASSUME x \notin R PROVE FALSE
    OBVIOUS
  <2>1. PICK r \in R : r \in 1..n
    BY <1>1
  <2>2. x # 0
    BY <1>4, <2>1
  <2>3. \A q \in R : q <= x - 1
    BY <1>1, <1>4
  <2>4. x - 1 \in T
    BY <1>4, <2>2, <2>3
  <2>5. x <= x - 1
    BY <1>3, <2>4
  <2> QED
    BY <1>4, <2>5
<1>6. \E m \in R : \A r \in R : m >= r
  BY <1>1, <1>4, <1>5
<1>7. Max(R) \in R /\ \A r \in R : Max(R) >= r
  BY <1>6 DEF Max
<1> QED
  BY <1>1, <1>7

\* The latest fill is not later than the intents.
LEMMA LastFillTyped ==
    ASSUME Typed
    PROVE  LastFill \in Nat /\ LastFill <= Len(intents)
<1> DEFINE S == {0} \cup {orders[o].at : o \in Filled}
           n == Len(intents)
           T == {x \in Nat : \A s \in S : s <= x}
<1>1. n \in Nat /\ S \subseteq Nat /\ \A s \in S : s \in 0..n
  <2>1. n \in Nat
    BY DEF Typed, IntentsTyped
  <2>2. \A o \in Filled : orders[o].at \in Nat /\ orders[o].at <= n
    <3>1. ASSUME NEW o \in OrderIds PROVE orders[o].at \in Nat /\ orders[o].at <= n
      BY OrderHas DEF Typed, OrdersTyped, Order
    <3> QED
      BY <3>1 DEF Filled
  <2> HIDE DEF n
  <2> QED
    BY <2>1, <2>2
<1>2. T \subseteq Nat /\ n \in T
  BY <1>1
<1>3. PICK x \in T : \A y \in T : x <= y
  <2> HIDE DEF T
  <2> QED
    BY <1>2, LeastElement
<1>4. x \in Nat /\ (\A s \in S : s <= x) /\ x <= n /\ 0 \in S
  BY <1>2, <1>3
<1> HIDE DEF S
<1>5. x \in S
  <2> SUFFICES ASSUME x \notin S PROVE FALSE
    OBVIOUS
  <2>1. x # 0
    BY <1>4
  <2>2. \A q \in S : q <= x - 1
    BY <1>1, <1>4
  <2>3. x - 1 \in T
    BY <1>4, <2>1, <2>2
  <2>4. x <= x - 1
    BY <1>3, <2>3
  <2> QED
    BY <1>4, <2>4
<1>6. \E m \in S : \A s \in S : m >= s
  BY <1>1, <1>4, <1>5
<1>7. LastFill = CHOOSE m \in S : \A s \in S : m >= s
  BY DEF LastFill, Max, S
<1>8. LastFill \in S
  BY <1>6, <1>7
<1> QED
  BY <1>1, <1>8

\* How the sequences change in a step: they grow, and keep their type.
IntentsGrow ==
    /\ intents' \in Seq(Intent) /\ Len(intents) <= Len(intents')
    /\ \A i \in DOMAIN intents' : intents'[i].prov # 0 =>
          \/ i \in IntentIds /\ intents'[i].prov = intents[i].prov
          \/ HasOrder(i) /\ intents'[i].prov <= Len(records')
RecordsGrow == records' \in Seq(Record) /\ Len(records) <= Len(records')
OrdersGrow == /\ orders' \in Seq(Order) /\ Len(orders) <= Len(orders')
              /\ \A o \in OrderIds : orders'[o].intent = orders[o].intent
              /\ \A o \in DOMAIN orders' : orders'[o].at <= Len(intents')

LEMMA IntentsStay ==
    ASSUME Typed, UNCHANGED intents
    PROVE  IntentsGrow
BY DEF Typed, IntentsTyped, IntentsGrow, IntentIds

LEMMA IntentEdited ==
    ASSUME Typed, NEW i, NEW v, intents' = [intents EXCEPT ![i] = v],
           i \in IntentIds => v \in Intent /\ v.prov = intents[i].prov
    PROVE  IntentsGrow
<1>1. intents \in Seq(Intent) /\ IntentIds = DOMAIN intents
  BY DEF Typed, IntentsTyped, IntentIds
<1>2. intents' \in Seq(Intent) /\ Len(intents') = Len(intents)
  BY <1>1, Replaced
<1>3. Len(intents) \in Nat /\ DOMAIN intents' = DOMAIN intents
  BY <1>1
<1>4. \A j \in IntentIds : intents'[j].prov = intents[j].prov
  BY <1>1
<1> QED
  BY <1>1, <1>2, <1>3, <1>4 DEF IntentsGrow

LEMMA IntentBegun ==
    ASSUME Typed, NEW phase \in Phases, NEW side \in Sides, NEW qty \in Nat, NEW open \in Nat,
           NEW soon \in Soon(side),
           intents' = Append(intents, NewIntent(phase, side, qty, open, soon))
    PROVE  IntentsGrow /\ Len(intents') = Len(intents) + 1 /\ Len(intents) \in Nat
<1>1. intents \in Seq(Intent) /\ IntentIds = DOMAIN intents /\ Len(intents) \in Nat
      /\ DOMAIN intents = 1..Len(intents)
  BY DEF Typed, IntentsTyped, IntentIds
<1> DEFINE v == NewIntent(phase, side, qty, open, soon)
<1>2. v \in Intent /\ v.prov = 0
  BY DEF NewIntent, Intent, Soon
<1> HIDE DEF v
<1>3. /\ intents' \in Seq(Intent) /\ Len(intents') = Len(intents) + 1
      /\ intents'[Len(intents) + 1] = v
      /\ \A i \in DOMAIN intents : intents'[i] = intents[i]
  BY <1>1, <1>2, Added DEF v
<1>4. \A i \in DOMAIN intents' : i \in DOMAIN intents \/ i = Len(intents) + 1
  BY <1>1, <1>3
<1> QED
  BY <1>1, <1>2, <1>3, <1>4 DEF IntentsGrow

LEMMA RecordsStay ==
    ASSUME Typed, UNCHANGED records
    PROVE  RecordsGrow
BY DEF Typed, RecordsTyped, RecordsGrow

LEMMA RecordEdited ==
    ASSUME Typed, NEW i, NEW v, records' = [records EXCEPT ![i] = v],
           i \in RecordIds => v \in Record
    PROVE  RecordsGrow
<1>1. records \in Seq(Record) /\ RecordIds = DOMAIN records /\ Len(records) \in Nat
  BY DEF Typed, RecordsTyped, RecordIds
<1>2. records' \in Seq(Record) /\ Len(records') = Len(records)
  BY <1>1, Replaced
<1> QED
  BY <1>1, <1>2 DEF RecordsGrow

LEMMA RecordAdded ==
    ASSUME Typed, NEW v \in Record, records' = Append(records, v)
    PROVE  RecordsGrow /\ Len(records') = Len(records) + 1 /\ Len(records) \in Nat
<1>1. records \in Seq(Record) /\ Len(records) \in Nat
  BY DEF Typed, RecordsTyped
<1>2. records' \in Seq(Record) /\ Len(records') = Len(records) + 1
  BY <1>1, Added
<1> QED
  BY <1>1, <1>2 DEF RecordsGrow

HedgeStates == {"none", "waiting", "hedging", "check", "done", "error", "required",
                "waitopen", "skipped"}

\* A record's hedge goes on.
LEMMA HedgeMoves ==
    ASSUME Typed, NEW r, NEW how, records' = [records EXCEPT ![r].hedge = how],
           r \in RecordIds => how \in HedgeStates
    PROVE  RecordsGrow
<1> DEFINE v == [records[r] EXCEPT !.hedge = how]
<1>1. records' = [records EXCEPT ![r] = v]
  OBVIOUS
<1>2. r \in RecordIds => v \in Record
  BY RecordHas DEF Record, HedgeStates
<1> HIDE DEF v
<1> QED
  BY <1>1, <1>2, RecordEdited

LEMMA IntentMoves ==
    ASSUME Typed, NEW i, NEW st, intents' = [intents EXCEPT ![i].st = st],
           st \in {"QUOTING", "PREPARED", "COMMITTING", "COMMITTED", "AMBIGUOUS"}
    PROVE  IntentsGrow
<1> DEFINE v == [intents[i] EXCEPT !.st = st]
<1>1. intents' = [intents EXCEPT ![i] = v]
  OBVIOUS
<1>2. i \in IntentIds => v \in Intent /\ v.prov = intents[i].prov
  BY IntentHas DEF Intent
<1> HIDE DEF v
<1> QED
  BY <1>1, <1>2, IntentEdited

Grow == IntentsGrow /\ RecordsGrow /\ OrdersGrow

LEMMA OrdersStay ==
    ASSUME Typed, IntentsGrow, UNCHANGED orders
    PROVE  OrdersGrow
<1>1. /\ orders \in Seq(Order) /\ OrderIds = DOMAIN orders /\ Len(intents) \in Nat
      /\ \A o \in OrderIds : orders[o].at <= Len(intents)
  BY DEF Typed, OrdersTyped, IntentsTyped, OrderIds
<1>2. \A o \in OrderIds : orders[o].at \in Nat
  BY OrderHas DEF Order
<1>3. Len(intents') \in Nat /\ Len(intents) <= Len(intents')
  BY DEF IntentsGrow
<1>4. Len(orders) \in Nat
  BY <1>1
<1>5. \A a, b, c \in Nat : a <= b /\ b <= c => a <= c
  OBVIOUS
<1>6. \A o \in OrderIds : orders[o].at <= Len(intents')
  BY <1>1, <1>2, <1>3, <1>5
<1> QED
  BY <1>1, <1>4, <1>6 DEF OrdersGrow

\* An order is sent, for an intent that exists.
LEMMA DispatchGrows ==
    ASSUME Typed, NEW id \in IntentIds, Dispatch(id), UNCHANGED records
    PROVE  Grow /\ HasOrder(id)' /\ IntentIds' = IntentIds
<1>1. intents' = [intents EXCEPT ![id].st = "COMMITTING"]
  BY DEF Dispatch
<1>2. IntentsGrow /\ RecordsGrow
  BY <1>1, IntentMoves, RecordsStay
<1>3. PICK named \in BOOLEAN :
        orders' = Append(orders, [intent |-> id, side |-> intents[id].side, st |-> "sent",
                                  qty |-> intents[id].qty, at |-> 0, named |-> named])
  BY ChoiceAssumption DEF Dispatch
<1> DEFINE w == [intent |-> id, side |-> intents[id].side, st |-> "sent",
                 qty |-> intents[id].qty, at |-> 0, named |-> named]
<1>4. w \in Order /\ w.intent = id /\ w.at = 0
  <2>1. intents[id].side \in Sides /\ intents[id].qty \in Nat
    BY IntentHas DEF Intent
  <2>2. id \in Nat
    BY DEF Typed, IntentsTyped, IntentIds
  <2> QED
    BY <2>1, <2>2 DEF Order
<1> HIDE DEF w
<1>5. /\ orders \in Seq(Order) /\ OrderIds = DOMAIN orders /\ Len(orders) \in Nat
      /\ \A o \in OrderIds : orders[o].at <= Len(intents)
      /\ OrderIds = 1..Len(orders)
  BY DEF Typed, OrdersTyped, OrderIds
<1>6. /\ orders' \in Seq(Order) /\ Len(orders') = Len(orders) + 1
      /\ orders'[Len(orders) + 1] = w
      /\ \A o \in DOMAIN orders : orders'[o] = orders[o]
  BY <1>3, <1>4, <1>5, Added DEF w
<1>7. Len(intents') = Len(intents) /\ Len(intents) \in Nat /\ IntentIds' = IntentIds
  BY <1>1 DEF Typed, IntentsTyped, IntentIds
<1>8. \A o \in DOMAIN orders' : o \in OrderIds \/ o = Len(orders) + 1
  BY <1>5, <1>6
<1>9. OrdersGrow
  BY <1>4, <1>5, <1>6, <1>7, <1>8 DEF OrdersGrow
<1>10. Len(orders) + 1 \in DOMAIN orders'
  BY <1>5, <1>6
<1> QED
  BY <1>2, <1>4, <1>6, <1>7, <1>9, <1>10 DEF Grow, HasOrder, OrderIds

LEMMA SubmitGrows ==
    ASSUME Typed, NEW phase \in Phases, NEW side \in Sides, NEW qty \in Nat, NEW open \in Nat,
           Submit(phase, side, qty, open)
    PROVE  Grow
BY IntentBegun, RecordsStay, OrdersStay DEF Submit, Grow

LEMMA FlattenGrows ==
    ASSUME Typed, NEW r \in RecordIds, NEW by, FlattenStarts(r, by) \/ FlattenReturns(r),
           UNCHANGED <<records, orders>>
    PROVE  Grow
<1>1. CASE FlattenStarts(r, by)
  <2>1. Opposite(records[r].side) \in Sides /\ records[r].qty \in Nat /\ r \in Nat
    BY RecordHas DEF Record, Opposite, Sides, RecordIds, Typed, RecordsTyped
  <2>2. "emergency" \in Phases
    BY DEF Phases
  <2>3. PICK soon \in Soon(Opposite(records[r].side)) :
          intents' = Append(intents, NewIntent("emergency", Opposite(records[r].side),
                                               records[r].qty, r, soon))
    BY <1>1 DEF FlattenStarts
  <2>4. IntentsGrow
    BY <2>1, <2>2, <2>3, IntentBegun
  <2> QED
    BY <2>4, RecordsStay, OrdersStay DEF Grow
<1>2. CASE FlattenReturns(r)
  BY <1>2, IntentsStay, RecordsStay, OrdersStay DEF FlattenReturns, Grow
<1> QED
  BY <1>1, <1>2

LEMMA AmbiguousGrows ==
    ASSUME Typed, NEW id, MarkAmbiguous(id), UNCHANGED orders
    PROVE  Grow /\ pending' \in {0, pending}
<1>1. CASE pending # id \/ intents[id].st # "COMMITTING"
  BY <1>1, IntentsStay, RecordsStay, OrdersStay DEF MarkAmbiguous, Grow
<1>2. CASE ~(pending # id \/ intents[id].st # "COMMITTING")
  <2> DEFINE r == intents[id].confirmed
             hedge == IF intents[id].phase = "emergency" THEN "required" ELSE "hedging"
  <2>1. /\ intents' = [intents EXCEPT ![id].st = "AMBIGUOUS"]
        /\ records' = [records EXCEPT ![r].hedge = hedge] \/ records' = records
        /\ pending' \in {0, pending}
    BY <1>2 DEF MarkAmbiguous
  <2>2. IntentsGrow
    BY <2>1, IntentMoves
  <2>3. hedge \in HedgeStates
    BY DEF HedgeStates
  <2> HIDE DEF r, hedge
  <2>4. RecordsGrow
    BY <2>1, <2>3, HedgeMoves, RecordsStay
  <2> QED
    BY <2>1, <2>2, <2>4, OrdersStay DEF Grow
<1> QED
  BY <1>1, <1>2

LEMMA AutoHas ==
    ASSUME Typed
    PROVE  /\ auto.id \in Nat /\ pending \in Nat
           /\ pending # 0 => pending \in IntentIds
           /\ auto.pc # "idle" => auto.id \in IntentIds
           /\ auto.pc = "commit" => OrderOf(auto.id) \in OrderIds
                                    /\ orders[OrderOf(auto.id)].intent = auto.id
<1>1. IntentIds \subseteq Nat /\ pending \in {0} \cup IntentIds
  BY DEF Typed, IntentsTyped, IntentIds
<1>2. auto.id \in {0} \cup IntentIds /\ (auto.pc # "idle" => auto.id # 0)
      /\ (auto.pc = "commit" => HasOrder(auto.id))
  BY DEF Typed, ActorsTyped, AutoTyped
<1>3. auto.pc = "commit" => OrderOf(auto.id) \in OrderIds
                            /\ orders[OrderOf(auto.id)].intent = auto.id
  BY <1>2, OrderOfHas
<1>4. auto.id \in Nat /\ pending \in Nat
  <2>1. 0 \in Nat
    OBVIOUS
  <2> QED
    BY <1>1, <1>2, <2>1, Zenon
<1> QED
  BY <1>1, <1>2, <1>3, <1>4

LEMMA RfqGrows ==
    ASSUME Typed, RfqNoted
    PROVE  IntentsGrow
<1>1. Rfq \in Nat
  BY AutoHas DEF Rfq
<1>2. CASE pending = 0
  BY <1>2, IntentsStay DEF RfqNoted
<1>3. CASE pending # 0
  <2> DEFINE v == [intents[pending] EXCEPT !.rfq = Rfq]
  <2>1. intents' = [intents EXCEPT ![pending] = v]
    BY <1>3 DEF RfqNoted
  <2>2. pending \in IntentIds => v \in Intent /\ v.prov = intents[pending].prov
    BY <1>1, IntentHas DEF Intent
  <2> HIDE DEF v
  <2> QED
    BY <2>1, <2>2, IntentEdited
<1> QED
  BY <1>2, <1>3

LEMMA AcceptedGrows ==
    ASSUME Typed, \/ AutoAcceptedMismatch \/ AutoAcceptedMerge \/ AutoAcceptedProvisional
                  \/ AutoAcceptedOrphan
    PROVE  Grow
<1>1. UNCHANGED orders /\ auto.pc = "commit"
  BY DEF AutoAcceptedMismatch, AutoAcceptedMerge, AutoAcceptedProvisional, AutoAcceptedOrphan,
         AutoEnds
<1>2. auto.id \in Nat /\ auto.id \in IntentIds
  BY <1>1, AutoHas
<1>3. CASE AutoAcceptedMismatch
  <2> DEFINE v == [intents[pending] EXCEPT !.accepted = @ \/ pending = auto.id, !.rfq = auto.id]
  <2>1. intents' = [intents EXCEPT ![pending] = v]
    BY <1>3 DEF AutoAcceptedMismatch
  <2>2. pending \in IntentIds => v \in Intent /\ v.prov = intents[pending].prov
    BY <1>2, IntentHas DEF Intent
  <2> HIDE DEF v
  <2>3. IntentsGrow
    BY <2>1, <2>2, IntentEdited
  <2> DEFINE r == intents[pending].confirmed
  <2>4. records' = [records EXCEPT ![r].hedge = "required"]
    BY <1>3 DEF AutoAcceptedMismatch
  <2> HIDE DEF r
  <2>5. RecordsGrow
    BY <2>4, HedgeMoves DEF HedgeStates
  <2> QED
    BY <1>1, <2>3, <2>5, OrdersStay DEF Grow
<1>4. CASE AutoAcceptedMerge
  <2>1. IntentsGrow
    BY <1>4, RfqGrows DEF AutoAcceptedMerge
  <2>2. PICK r, how : /\ records' = [records EXCEPT ![r].quote = auto.id, ![r].hedge = how]
                      /\ how \in {"hedging", Released(records[r].hedge)}
    BY <1>4 DEF AutoAcceptedMerge
  <2> DEFINE v == [records[r] EXCEPT !.quote = auto.id, !.hedge = how]
  <2>3. records' = [records EXCEPT ![r] = v]
    BY <2>2
  <2>4. r \in RecordIds => v \in Record
    BY <1>2, <2>2, RecordHas DEF Record, Released
  <2> HIDE DEF v
  <2>5. RecordsGrow
    BY <2>3, <2>4, RecordEdited
  <2> QED
    BY <1>1, <2>1, <2>5, OrdersStay DEF Grow
<1>5. CASE AutoAcceptedProvisional
  <2>1. OrderOf(auto.id) \in Nat /\ HasOrder(auto.id)
    <3>1. OrderIds \subseteq Nat
      BY DEF Typed, OrdersTyped, OrderIds
    <3> QED
      BY <1>1, <3>1, AutoHas DEF HasOrder
  <2> DEFINE w == [side |-> intents[auto.id].side, qty |-> intents[auto.id].qty,
          phase |-> intents[auto.id].phase, reduce |-> intents[auto.id].phase # "open",
          trade |-> IF Named(auto.id) THEN OrderOf(auto.id) ELSE 0, quote |-> auto.id,
          at |-> 0, src |-> "http", hedge |-> "hedging"]
  <2>2. w \in Record
    BY <1>2, <2>1, IntentHas DEF Intent, Record
  <2>3. records' = Append(records, w)
    BY <1>5 DEF AutoAcceptedProvisional
  <2> HIDE DEF w
  <2>4. RecordsGrow /\ Len(records') = Len(records) + 1 /\ Len(records) \in Nat
    BY <2>2, <2>3, RecordAdded
  <2> DEFINE v == [intents[auto.id] EXCEPT !.st = "COMMITTED", !.accepted = TRUE, !.rfq = Rfq,
                                           !.prov = Len(records) + 1]
  <2>5. intents' = [intents EXCEPT ![auto.id] = v]
    BY <1>5 DEF AutoAcceptedProvisional
  <2>6. v \in Intent /\ v.prov = Len(records) + 1
    <3>1. Rfq \in Nat
      BY <1>2 DEF Rfq
    <3>2. Len(records) + 1 \in Nat /\ intents[auto.id] \in Intent
      BY <1>2, <2>4, IntentHas
    <3> QED
      BY <3>1, <3>2 DEF Intent
  <2> HIDE DEF v
  <2>7. intents \in Seq(Intent) /\ IntentIds = DOMAIN intents
    BY DEF Typed, IntentsTyped, IntentIds
  <2>8. intents' \in Seq(Intent) /\ Len(intents') = Len(intents)
    BY <2>5, <2>6, <2>7, Replaced
  <2>9. \A i \in DOMAIN intents' : i \in IntentIds /\ (i # auto.id => intents'[i] = intents[i])
                                   /\ (i = auto.id => intents'[i].prov = Len(records'))
    BY <2>4, <2>5, <2>6, <2>7
  <2>10. Len(records') \in Nat /\ Len(intents) \in Nat
    BY <2>4, <2>7
  <2>11. IntentsGrow
    BY <2>1, <2>7, <2>8, <2>9, <2>10 DEF IntentsGrow
  <2> QED
    BY <1>1, <2>4, <2>11, OrdersStay DEF Grow
<1>6. CASE AutoAcceptedOrphan
  BY <1>1, <1>6, RfqGrows, RecordsStay, OrdersStay DEF AutoAcceptedOrphan, Grow
<1> QED
  BY <1>3, <1>4, <1>5, <1>6

LEMMA StrategyGrows ==
    ASSUME Typed, Strategy
    PROVE  Grow
<1>1. CASE SubmitOpen
  <2>1. Submit("open", "buy", 1, 0) /\ "open" \in Phases /\ "buy" \in Sides
    BY <1>1 DEF SubmitOpen, Phases, Sides
  <2> QED
    BY <2>1, SubmitGrows
<1>2. CASE SubmitClose
  <2>1. CurrentOpen \in RecordIds /\ CurrentOpen \in Nat
    BY <1>2, OpenTyped DEF SubmitClose, Typed, RecordsTyped, RecordIds
  <2>2. records[CurrentOpen].qty \in Nat /\ Opposite(records[CurrentOpen].side) \in Sides
    BY <2>1, RecordHas DEF Record, Opposite, Sides
  <2>3. Submit("close", Opposite(records[CurrentOpen].side), records[CurrentOpen].qty,
               CurrentOpen) /\ "close" \in Phases
    BY <1>2 DEF SubmitClose, Phases
  <2> QED
    BY <2>1, <2>2, <2>3, SubmitGrows
<1>3. CASE AutoPrepare
  <2>1. intents' = [intents EXCEPT ![auto.id].st = "PREPARED"]
    BY <1>3 DEF AutoPrepare, Prepare
  <2> QED
    BY <1>3, <2>1, IntentMoves, RecordsStay, OrdersStay DEF AutoPrepare, handlers, Grow
<1>4. CASE AutoCommit
  BY <1>4, AutoHas, DispatchGrows DEF AutoCommit
<1>5. CASE StalledOpen \/ AutoQuoteFails \/ AutoCommitRefused \/ AutoFailed
  BY <1>5, IntentsStay, RecordsStay, OrdersStay
     DEF StalledOpen, AutoQuoteFails, AutoCommitRefused, AutoFailed, AutoEnds, Grow
<1>6. CASE AutoAmbiguous
  BY <1>6, AmbiguousGrows DEF AutoAmbiguous, AutoEnds
<1> QED
  BY <1>1, <1>2, <1>3, <1>4, <1>5, <1>6, AcceptedGrows DEF Strategy

LEMMA EmergencyGrows ==
    ASSUME Typed, Emergency
    PROVE  Grow
<1>1. PICK t \in flats : EmergencyStep(t)
  BY DEF Emergency
<1>2. t.id \in IntentIds
  BY DEF Typed, ActorsTyped, FlatsTyped
<1>3. CASE FlatQuoteFails(t) \/ FlatRefused(t) \/ FlatFailed(t)
  BY <1>3, IntentsStay, RecordsStay, OrdersStay
     DEF FlatQuoteFails, FlatRefused, FlatFailed, FlatEnds, Grow
<1>4. CASE FlatPrepare(t)
  <2>1. intents' = [intents EXCEPT ![t.id].st = "PREPARED"] /\ UNCHANGED <<records, orders>>
    BY <1>4 DEF FlatPrepare, Prepare, FlatGoes
  <2> QED
    BY <2>1, IntentMoves, RecordsStay, OrdersStay DEF Grow
<1>5. CASE FlatCommit(t)
  BY <1>2, <1>5, DispatchGrows DEF FlatCommit, FlatGoes
<1>6. CASE FlatAccepted(t)
  <2> DEFINE v == [intents[t.id] EXCEPT !.accepted = TRUE]
  <2>1. intents' = [intents EXCEPT ![t.id] = v] \/ UNCHANGED intents
    BY <1>6 DEF FlatAccepted
  <2>2. v \in Intent /\ v.prov = intents[t.id].prov
    BY <1>2, IntentHas DEF Intent
  <2> HIDE DEF v
  <2>3. IntentsGrow
    BY <2>1, <2>2, IntentEdited, IntentsStay
  <2> QED
    BY <1>6, <2>3, RecordsStay, OrdersStay DEF FlatAccepted, FlatEnds, Grow
<1>7. CASE FlatAmbiguous(t)
  BY <1>7, AmbiguousGrows DEF FlatAmbiguous, FlatEnds
<1> QED
  BY <1>1, <1>3, <1>4, <1>5, <1>6, <1>7 DEF EmergencyStep

\* Fills as process_variational_trade_event sees them.
Event == [trade : Nat, side : Sides, qty : Nat, at : Nat, recovered : BOOLEAN]

LEMMA FillTyped ==
    ASSUME Typed, NEW o \in OrderIds
    PROVE  FillOf(o) \in Event
<1>1. orders[o] \in Order /\ o \in Nat
  BY OrderHas DEF Typed, OrdersTyped, OrderIds
<1> QED
  BY <1>1 DEF FillOf, Event, Order

LEMMA ShownTyped ==
    ASSUME Typed, ShowsFilled(pending)
    PROVE  Shown(pending) \in Event /\ pending \in IntentIds
<1> DEFINE id == pending
<1>1. id \in IntentIds
  BY AutoHas DEF ShowsFilled, Inspectable
<1>2. intents[id] \in Intent
  BY <1>1, IntentHas
<1>3. intents[id].prov # 0 => OrderOf(id) \in Nat
  <2>1. OrderIds \subseteq Nat
    BY DEF Typed, OrdersTyped, OrderIds
  <2>2. intents[id].prov # 0 => HasOrder(id)
    BY <1>1 DEF Typed, IntentsTyped
  <2> QED
    BY <2>1, <2>2, OrderOfHas
<1>4. snap.pos \in Int /\ snap.at \in Nat /\ Len(intents) \in Nat
  BY DEF Typed, AccountTyped, IntentsTyped
<1>5. intents[id].phase = "open" => snap.pos \in Nat
  BY <1>4 DEF ShowsFilled
<1>6. intents[id].phase # "open" => OpenQty(id) \in Nat
  <2> SUFFICES ASSUME intents[id].phase # "open" PROVE OpenQty(id) \in Nat
    OBVIOUS
  <2>1. TrackedOpen(id) # 0
    BY DEF ShowsFilled
  <2>2. TrackedOpen(id) \in RecordIds
    BY <2>1, OpenTyped
  <2> QED
    BY <2>2, RecordHas DEF OpenQty, Record
<1> HIDE DEF id
<1>7. intents[id].side \in Sides
  BY <1>2 DEF Intent
<1>8. Shown(id) \in Event
  BY <1>3, <1>4, <1>5, <1>6, <1>7 DEF Shown, Event
<1> QED
  BY <1>1, <1>8 DEF id

LEMMA BoundTyped ==
    ASSUME Typed, NEW e \in Event
    PROVE  /\ Left(e) \in {0, pending}
           /\ Bound(e) \in {0, Left(e)} /\ Bound(e) \in {0} \cup IntentIds
<1>1. Left(e) \in {0, pending}
  BY DEF Left
<1>2. Bound(e) \in {0, Left(e)}
  BY DEF Bound
<1>3. pending \in {0} \cup IntentIds
  BY DEF Typed, IntentsTyped
<1> QED
  BY <1>1, <1>2, <1>3

\* A fill belongs to one of the records, or to the next.
LEMMA RecordForTyped ==
    ASSUME Typed, NEW e \in Event
    PROVE  RecordFor(e) \in 1..(Len(records) + 1)
<1>1. Len(records) \in Nat /\ RecordIds = 1..Len(records)
  BY DEF Typed, RecordsTyped, RecordIds
<1>2. ByTrade(e) \subseteq RecordIds /\ Recovered(e) \subseteq RecordIds
  BY DEF ByTrade, Recovered
<1>3. ByTrade(e) # {} => Max(ByTrade(e)) \in RecordIds
  BY <1>2, LatestIsOne
<1>4. Recovered(e) # {} => Max(Recovered(e)) \in RecordIds
  BY <1>2, LatestIsOne
<1>5. Provisional(e) # 0 => Provisional(e) \in RecordIds
  <2> SUFFICES ASSUME Provisional(e) # 0 PROVE Provisional(e) \in RecordIds
    OBVIOUS
  <2>1. Bound(e) # 0 /\ Provisional(e) = intents[Bound(e)].prov
    BY DEF Provisional
  <2>2. Bound(e) \in IntentIds
    BY <2>1, BoundTyped
  <2>3. intents[Bound(e)].prov \in Nat
    BY <2>2, IntentHas DEF Intent
  <2>4. intents[Bound(e)].prov <= Len(records)
    BY <2>1, <2>2 DEF Typed, IntentsTyped
  <2> QED
    BY <1>1, <2>1, <2>3, <2>4
<1>6. RecordFor(e) \in RecordIds \cup {Len(records) + 1}
  BY <1>3, <1>4, <1>5 DEF RecordFor
<1> QED
  BY <1>1, <1>6

LEMMA MatchedTyped ==
    ASSUME Typed, NEW e \in Event
    PROVE  MatchedOpen(e) \in {0} \cup RecordIds
BY OpenTyped DEF MatchedOpen

LEMMA FillingTyped ==
    ASSUME Typed, NEW e \in Event, NEW r \in 1..(Len(records) + 1)
    PROVE  Filling(e, r)[1] \in Record /\ Filling(e, r)[2] \in BOOLEAN
<1> DEFINE isNew == r > Len(records)
           old == IF isNew THEN FreshRecord(e) ELSE records[r]
           meta == IF Bound(e) # 0 THEN WithIntent(old, Bound(e), e) ELSE old
           sets == isNew \/ old.src = "http" \/ (r \in Recovered(e) /\ ByTrade(e) = {})
           full == [meta EXCEPT !.src = IF e.recovered THEN "portfolio" ELSE "event",
                      !.at = IF e.recovered THEN e.at ELSE 0, !.side = e.side, !.qty = e.qty,
                      !.trade = IF e.trade = 0 THEN @ ELSE e.trade,
                      !.reduce = @ \/ MatchedOpen(e) # 0]
<1>1. Len(records) \in Nat /\ RecordIds = 1..Len(records)
  BY DEF Typed, RecordsTyped, RecordIds
<1>2. /\ e.trade \in Nat /\ e.side \in Sides /\ e.qty \in Nat /\ e.at \in Nat
      /\ e.recovered \in BOOLEAN
  BY DEF Event
<1>3. FreshRecord(e) \in Record
  BY <1>2 DEF FreshRecord, Record, Phases
<1>4. ~isNew => r \in RecordIds
  BY <1>1
<1>5. old \in Record
  BY <1>3, <1>4, RecordHas
<1> HIDE DEF old, isNew
<1>6. Bound(e) # 0 => WithIntent(old, Bound(e), e) \in Record
  <2> SUFFICES ASSUME Bound(e) # 0 PROVE WithIntent(old, Bound(e), e) \in Record
    OBVIOUS
  <2>1. Bound(e) \in IntentIds
    BY BoundTyped
  <2>2. intents[Bound(e)].phase \in Phases /\ Bound(e) \in Nat
    <3>1. IntentIds \subseteq Nat
      BY DEF Typed, IntentsTyped, IntentIds
    <3>2. intents[Bound(e)] \in Intent
      BY <2>1, IntentHas
    <3> QED
      BY <2>1, <3>1, <3>2 DEF Intent
  <2> DEFINE phase == IF old.phase = "none" THEN intents[Bound(e)].phase ELSE old.phase
             hedge == IF WaitsForCommit(Bound(e)) THEN "waiting"
                      ELSE IF e.recovered /\ intents[Bound(e)].phase # "emergency"
                              /\ old.hedge # "done"
                      THEN "check" ELSE old.hedge
             quote == IF old.quote = 0 THEN Bound(e) ELSE old.quote
             reduce == old.reduce \/ intents[Bound(e)].phase # "open"
  <2>3. phase \in Phases /\ quote \in Nat /\ reduce \in BOOLEAN
    BY <1>5, <2>2 DEF Record
  <2>4. hedge \in HedgeStates
    <3>1. old.hedge \in HedgeStates
      BY <1>5 DEF Record, HedgeStates
    <3>2. {"waiting", "check"} \subseteq HedgeStates
      BY DEF HedgeStates
    <3> QED
      BY <3>1, <3>2
  <2>5. WithIntent(old, Bound(e), e)
          = [old EXCEPT !.phase = phase, !.quote = quote, !.reduce = reduce, !.hedge = hedge]
    BY DEF WithIntent
  <2> HIDE DEF phase, quote, reduce, hedge
  <2> QED
    BY <1>5, <2>3, <2>4, <2>5 DEF Record, HedgeStates
<1>7. meta \in Record
  BY <1>5, <1>6
<1>8. (MatchedOpen(e) # 0) \in BOOLEAN
  OBVIOUS
<1> HIDE DEF meta
<1>9. full \in Record
  BY <1>2, <1>7 DEF Record
<1> HIDE DEF full, sets
<1>10. Filling(e, r) = IF sets THEN <<full, TRUE>> ELSE <<meta, FALSE>>
  BY DEF Filling, full, sets, meta, old, isNew
<1> QED
  BY <1>7, <1>9, <1>10

\* What the entry of a fill leaves.
LEMMA ProcessTyped ==
    ASSUME Typed, NEW e \in Event, Process(e), UNCHANGED orders
    PROVE  /\ Grow /\ pending' \in {0, pending}
           /\ paused' \in {"none", "reconcile", "automation"}
           /\ RecordFor(e) \in 1..Len(records')
           /\ Entered(e) \in 0..Len(records')
           /\ Enters(e) => Entered(e) # 0
           /\ MatchedOpen(e) \in 0..Len(records)
<1> DEFINE r == RecordFor(e)
           fill == Filling(e, r)
           id == Bound(e)
<1>1. Len(records) \in Nat /\ RecordIds = 1..Len(records) /\ r \in 1..(Len(records) + 1)
  BY RecordForTyped DEF Typed, RecordsTyped, RecordIds
<1>2. fill[1] \in Record /\ fill[2] \in BOOLEAN
  BY <1>1, FillingTyped
<1>3. records' = IF r > Len(records) THEN Append(records, fill[1])
                 ELSE [records EXCEPT ![r] = fill[1]]
  BY DEF Process
<1>4. /\ intents' = IF WaitsForCommit(id) THEN [intents EXCEPT ![id].confirmed = r] ELSE intents
      /\ pending' \in {Left(e), 0}
      /\ paused' \in {paused, PauseForReconciliation(paused)}
  BY DEF Process
<1> HIDE DEF fill, r, id
<1>5. RecordsGrow /\ r \in 1..Len(records')
  <2>1. CASE r > Len(records)
    BY <1>1, <1>2, <1>3, <2>1, RecordAdded
  <2>2. CASE ~(r > Len(records))
    <3>1. RecordsGrow
      BY <1>2, <1>3, <2>2, RecordEdited
    <3>2. Len(records') \in Nat /\ Len(records) <= Len(records')
      BY <3>1 DEF RecordsGrow
    <3> QED
      BY <1>1, <2>2, <3>1, <3>2
  <2> QED
    BY <2>1, <2>2
<1>6. IntentsGrow
  <2>1. CASE WaitsForCommit(id)
    <3> DEFINE v == [intents[id] EXCEPT !.confirmed = r]
    <3>1. intents' = [intents EXCEPT ![id] = v]
      BY <1>4, <2>1
    <3>2. id \in IntentIds => v \in Intent /\ v.prov = intents[id].prov
      BY <1>1, IntentHas DEF Intent
    <3> HIDE DEF v
    <3> QED
      BY <3>1, <3>2, IntentEdited
  <2>2. CASE ~WaitsForCommit(id)
    BY <1>4, <2>2, IntentsStay
  <2> QED
    BY <2>1, <2>2
<1>7. Grow
  BY <1>5, <1>6, OrdersStay DEF Grow
<1>8. pending' \in {0, pending} /\ paused' \in {"none", "reconcile", "automation"}
  BY <1>4, BoundTyped DEF PauseForReconciliation, Typed, AccountTyped
<1>9. Entered(e) \in {0, r} /\ (Enters(e) => Entered(e) = r)
  BY DEF Entered, r
<1>10. Len(records') \in Nat
  BY <1>5 DEF RecordsGrow
<1>11. MatchedOpen(e) \in 0..Len(records)
  BY <1>1, MatchedTyped
<1> QED
  BY <1>5, <1>7, <1>8, <1>9, <1>10, <1>11 DEF r

LEMMA HedgeStarts ==
    ASSUME Typed, NEW r, NEW open, StartHedge(r, open)
    PROVE  RecordsGrow /\ paused' \in {"none", "reconcile", "automation"}
<1>1. \/ UNCHANGED records
      \/ \E how \in {"hedging", "waitopen", "skipped"} :
            records' = [records EXCEPT ![r].hedge = how]
  BY DEF StartHedge, Scheduled
<1>2. {"hedging", "waitopen", "skipped"} \subseteq HedgeStates
  BY DEF HedgeStates
<1>3. RecordsGrow
  BY <1>1, <1>2, HedgeMoves, RecordsStay
<1>4. paused' \in {paused, "automation", PauseForReconciliation(paused)}
  BY DEF StartHedge
<1> QED
  BY <1>3, <1>4 DEF PauseForReconciliation, Typed, AccountTyped

LEMMA UnsupportedGrows ==
    ASSUME Typed, NEW e \in Event, RecordUnsupported(e), UNCHANGED <<intents, orders>>
    PROVE  Grow
<1> DEFINE w == [side |-> e.side, qty |-> e.qty, phase |-> "recovery", reduce |-> FALSE,
                 trade |-> e.trade, quote |-> 0, at |-> 0, src |-> "event",
                 hedge |-> "required"]
<1>1. w \in Record
  BY DEF Record, Event, Phases
<1>2. records' = Append(records, w)
  BY DEF RecordUnsupported
<1> HIDE DEF w
<1> QED
  BY <1>1, <1>2, RecordAdded, IntentsStay, OrdersStay DEF Grow

LEMMA FilledIsOrder == Filled \subseteq OrderIds
BY DEF Filled

LEMMA FeedGrows ==
    ASSUME Typed, Feed
    PROVE  Grow
<1>1. CASE FeedPauses
  BY <1>1, IntentsStay, RecordsStay, OrdersStay DEF FeedPauses, Grow
<1>2. CASE FeedFollows
  BY <1>2, HedgeStarts, IntentsStay, OrdersStay DEF FeedFollows, Grow
<1>3. CASE FeedFlattens
  <2>1. feed.rec \in RecordIds
    BY <1>3 DEF FeedFlattens, Typed, ActorsTyped, FeedTyped
  <2> QED
    BY <1>3, <2>1, FlattenGrows DEF FeedFlattens
<1>4. ASSUME NEW o \in OrderIds, FeedProcess(o) \/ FeedUnsupported(o) PROVE Grow
  BY <1>4, FillTyped, ProcessTyped, UnsupportedGrows DEF FeedProcess, FeedUnsupported
<1> QED
  BY <1>1, <1>2, <1>3, <1>4 DEF Feed

LEMMA WatchdogGrows ==
    ASSUME Typed, Watchdog
    PROVE  Grow
<1>1. CASE DogRecovers
  BY <1>1, ShownTyped, ProcessTyped DEF DogRecovers
<1>2. CASE DogFollows
  BY <1>2, HedgeStarts, IntentsStay, RecordsStay, OrdersStay DEF DogFollows, Grow
<1>3. CASE DogFlattens
  <2>1. dog.rec \in RecordIds
    BY <1>3 DEF DogFlattens, Typed, ActorsTyped, DogTyped
  <2> QED
    BY <1>3, <2>1, FlattenGrows DEF DogFlattens
<1>4. CASE DogTimeout \/ DogRefreshesPage \/ DogExpires
  BY <1>4, IntentsStay, RecordsStay, OrdersStay DEF DogTimeout, DogRefreshesPage, DogExpires, Grow
<1>5. CASE DogDecides
  <2>1. UNCHANGED orders
    BY <1>5 DEF DogDecides
  <2>2. CASE Rollback(dog.id)
    <3> DEFINE r == intents[dog.id].prov
               v == [records[r] EXCEPT !.src = "unconfirmed"]
    <3>1. records' = [records EXCEPT ![r] = v] /\ UNCHANGED intents
      BY <2>2 DEF Rollback
    <3>2. r \in RecordIds => v \in Record
      BY RecordHas DEF Record
    <3> HIDE DEF v, r
    <3>3. RecordsGrow
      BY <3>1, <3>2, RecordEdited
    <3> QED
      BY <2>1, <3>1, <3>3, IntentsStay, OrdersStay DEF Grow
  <2>3. CASE StaysAmbiguous(dog.id)
    <3> DEFINE v == [intents[dog.id] EXCEPT !.st = "AMBIGUOUS", !.accepted = FALSE]
    <3>1. UNCHANGED records /\ (intents' = [intents EXCEPT ![dog.id] = v] \/ UNCHANGED intents)
      BY <2>3 DEF StaysAmbiguous
    <3>2. dog.id \in IntentIds => v \in Intent /\ v.prov = intents[dog.id].prov
      BY IntentHas DEF Intent
    <3> HIDE DEF v
    <3>3. IntentsGrow
      BY <3>1, <3>2, IntentEdited, IntentsStay
    <3> QED
      BY <2>1, <3>1, <3>3, RecordsStay, OrdersStay DEF Grow
  <2>4. CASE UNCHANGED <<intents, records>>
    BY <2>1, <2>4, IntentsStay, RecordsStay, OrdersStay DEF Grow
  <2> QED
    BY <1>5, <2>2, <2>3, <2>4 DEF DogDecides
<1> QED
  BY <1>1, <1>2, <1>3, <1>4, <1>5 DEF Watchdog

LEMMA HedgesGrow ==
    ASSUME Typed, Hedges
    PROVE  Grow
<1>1. CASE Resume
  BY <1>1, IntentsStay, RecordsStay, OrdersStay DEF Resume, handlers, Grow
<1>2. ASSUME NEW r \in RecordIds, HedgeCompletes(r)
      PROVE  Grow
  <2> DEFINE recs == [records EXCEPT ![r].hedge = "done"]
             v == [records[r] EXCEPT !.hedge = "done"]
  <2>1. recs = [records EXCEPT ![r] = v]
    OBVIOUS
  <2>2. v \in Record
    BY <1>2, RecordHas DEF Record
  <2>3. records \in Seq(Record) /\ RecordIds = DOMAIN records
    BY DEF Typed, RecordsTyped, RecordIds
  <2> HIDE DEF v
  <2>4. recs \in Seq(Record) /\ Len(recs) = Len(records)
    BY <2>1, <2>2, <2>3, Replaced
  <2> HIDE DEF recs
  <2>5. PICK c : records' \in {recs, [recs EXCEPT ![c].hedge = "hedging"]}
    BY <1>2 DEF HedgeCompletes, LateClose, Scheduled, recs
  <2> DEFINE w == [recs[c] EXCEPT !.hedge = "hedging"]
  <2>6. [recs EXCEPT ![c].hedge = "hedging"] = [recs EXCEPT ![c] = w]
    OBVIOUS
  <2>7. c \in DOMAIN recs => w \in Record
    <3>1. c \in DOMAIN recs => recs[c] \in Record
      BY <2>4
    <3> QED
      BY <3>1 DEF Record
  <2> HIDE DEF w
  <2>8. records' \in Seq(Record) /\ Len(records') = Len(records)
    BY <2>4, <2>5, <2>6, <2>7, Replaced
  <2>9. RecordsGrow
    BY <2>3, <2>8 DEF RecordsGrow
  <2> QED
    BY <1>2, <2>9, IntentsStay, OrdersStay DEF HedgeCompletes, Grow
<1>3. ASSUME NEW r \in RecordIds, CheckResolves(r) \/ HedgeFails(r)
      PROVE  Grow
  <2>1. PICK how \in {"hedging", "error"} : records' = [records EXCEPT ![r].hedge = how]
    BY <1>3 DEF CheckResolves, HedgeFails, Scheduled
  <2>2. RecordsGrow
    BY <2>1, HedgeMoves DEF HedgeStates
  <2>3. UNCHANGED <<intents, orders>>
    BY <1>3 DEF CheckResolves, HedgeFails
  <2> QED
    BY <2>2, <2>3, IntentsStay, OrdersStay DEF Grow
<1>4. ASSUME NEW r \in RecordIds, FailureFlattens(r)
      PROVE  Grow
  BY <1>4, FlattenGrows DEF FailureFlattens
<1> QED
  BY <1>1, <1>2, <1>3, <1>4 DEF Hedges

LEMMA OrderEdited ==
    ASSUME Typed, NEW o \in OrderIds, NEW v \in Order, orders' = [orders EXCEPT ![o] = v],
           v.intent = orders[o].intent, v.at <= Len(intents), UNCHANGED <<intents, records>>
    PROVE  Grow
<1>1. /\ orders \in Seq(Order) /\ OrderIds = DOMAIN orders /\ Len(orders) \in Nat
      /\ \A p \in OrderIds : orders[p].at <= Len(intents)
  BY DEF Typed, OrdersTyped, OrderIds
<1>2. orders' \in Seq(Order) /\ Len(orders') = Len(orders)
  BY <1>1, Replaced
<1>3. \A p \in OrderIds : orders'[p] = IF p = o THEN v ELSE orders[p]
  BY <1>1
<1>4. DOMAIN orders' = OrderIds
  BY <1>1
<1>5. OrdersGrow
  BY <1>1, <1>2, <1>3, <1>4 DEF OrdersGrow
<1> QED
  BY <1>5, IntentsStay, RecordsStay DEF Grow

LEMMA VenueGrows ==
    ASSUME Typed, Venue
    PROVE  Grow
<1>1. Len(intents) \in Nat /\ Len(intents) <= Len(intents)
  BY DEF Typed, IntentsTyped
<1>2. CASE Snapshot
  BY <1>2, IntentsStay, RecordsStay, OrdersStay DEF Snapshot, Grow
<1>3. ASSUME NEW side \in Sides, ManualTrade(side)
      PROVE  Grow
  <2> DEFINE w == [intent |-> 0, side |-> side, qty |-> 1, at |-> Len(intents),
                   st |-> "filled", named |-> FALSE]
  <2>1. w \in Order /\ w.at <= Len(intents)
    BY <1>1 DEF Order
  <2>2. orders' = Append(orders, w) /\ UNCHANGED <<intents, records>>
    BY <1>3 DEF ManualTrade
  <2> HIDE DEF w
  <2>3. /\ orders \in Seq(Order) /\ OrderIds = DOMAIN orders /\ Len(orders) \in Nat
        /\ OrderIds = 1..Len(orders)
        /\ \A p \in OrderIds : orders[p].at <= Len(intents)
    BY DEF Typed, OrdersTyped, OrderIds
  <2>4. /\ orders' \in Seq(Order) /\ Len(orders') = Len(orders) + 1
        /\ orders'[Len(orders) + 1] = w
        /\ \A o \in DOMAIN orders : orders'[o] = orders[o]
    BY <2>1, <2>2, <2>3, Added
  <2>5. \A o \in DOMAIN orders' : o \in OrderIds \/ o = Len(orders) + 1
    BY <2>3, <2>4
  <2>6. OrdersGrow
    BY <2>1, <2>2, <2>3, <2>4, <2>5 DEF OrdersGrow
  <2> QED
    BY <2>2, <2>6, IntentsStay, RecordsStay DEF Grow
<1>4. ASSUME NEW o \in OrderIds, Executes(o) \/ Refuses(o)
      PROVE  Grow
  <2> DEFINE v == [orders[o] EXCEPT !.st = "filled", !.at = Len(intents)]
             u == [orders[o] EXCEPT !.st = "refused"]
  <2>1. orders[o] \in Order /\ orders[o].at <= Len(intents)
    BY OrderHas DEF Typed, OrdersTyped
  <2>2. v \in Order /\ v.intent = orders[o].intent /\ v.at <= Len(intents)
    BY <1>1, <2>1 DEF Order
  <2>3. u \in Order /\ u.intent = orders[o].intent /\ u.at <= Len(intents)
    BY <2>1 DEF Order
  <2>4. (orders' = [orders EXCEPT ![o] = v] \/ orders' = [orders EXCEPT ![o] = u])
        /\ UNCHANGED <<intents, records>>
    BY <1>4 DEF Executes, Refuses
  <2> HIDE DEF v, u
  <2> QED
    BY <2>2, <2>3, <2>4, OrderEdited
<1> QED
  BY <1>2, <1>3, <1>4 DEF Venue

LEMMA NextGrows ==
    ASSUME Typed, [Next]_vars
    PROVE  Grow
<1>1. CASE UNCHANGED vars
  BY <1>1, IntentsStay, RecordsStay, OrdersStay DEF vars, state, Grow
<1> QED
  BY <1>1, StrategyGrows, EmergencyGrows, FeedGrows, WatchdogGrows, HedgesGrow, VenueGrows
     DEF Next

\* What an index named, it still names.
LEMMA IndicesStay ==
    ASSUME Typed, Grow
    PROVE  /\ IntentIds \subseteq IntentIds' /\ RecordIds \subseteq RecordIds'
           /\ OrderIds \subseteq OrderIds'
           /\ IntentIds' = 1..Len(intents') /\ RecordIds' = 1..Len(records')
           /\ Len(intents') \in Nat /\ Len(records') \in Nat
           /\ \A i : HasOrder(i) => HasOrder(i)'
<1>1. /\ IntentIds = 1..Len(intents) /\ IntentIds' = 1..Len(intents')
      /\ Len(intents) \in Nat /\ Len(intents') \in Nat /\ Len(intents) <= Len(intents')
  BY DEF Typed, IntentsTyped, Grow, IntentsGrow, IntentIds
<1>2. /\ RecordIds = 1..Len(records) /\ RecordIds' = 1..Len(records')
      /\ Len(records) \in Nat /\ Len(records') \in Nat /\ Len(records) <= Len(records')
  BY DEF Typed, RecordsTyped, Grow, RecordsGrow, RecordIds
<1>3. /\ OrderIds = 1..Len(orders) /\ OrderIds' = 1..Len(orders')
      /\ Len(orders) \in Nat /\ Len(orders') \in Nat /\ Len(orders) <= Len(orders')
  BY DEF Typed, OrdersTyped, Grow, OrdersGrow, OrderIds
<1>4. \A m, n \in Nat : m <= n => 1..m \subseteq 1..n
  OBVIOUS
<1>5. OrderIds \subseteq OrderIds'
  BY <1>3, <1>4
<1>6. \A o \in OrderIds : orders'[o].intent = orders[o].intent
  BY DEF Grow, OrdersGrow
<1> QED
  BY <1>1, <1>2, <1>4, <1>5, <1>6 DEF HasOrder

LEMMA NextKeepsPending ==
    ASSUME Typed, [Next]_vars
    PROVE  pending' \in {0} \cup IntentIds'
<1>1. Grow
  BY NextGrows
<1>2. IntentIds \subseteq IntentIds' /\ pending \in {0} \cup IntentIds
      /\ IntentIds' = 1..Len(intents') /\ Len(intents') \in Nat
  BY <1>1, IndicesStay DEF Typed, IntentsTyped
<1>3. CASE pending' \in {0, pending}
  BY <1>2, <1>3
<1>4. CASE pending' = Len(intents) + 1 /\ Len(intents') = Len(intents) + 1
  <2>1. Len(intents) \in Nat
    BY DEF Typed, IntentsTyped
  <2> QED
    BY <1>2, <1>4, <2>1
<1>5. ASSUME NEW phase, NEW side, NEW qty, NEW open, Submit(phase, side, qty, open)
      PROVE  pending' = Len(intents) + 1 /\ Len(intents') = Len(intents) + 1
  BY <1>5 DEF Submit, Typed, IntentsTyped
<1>6. ASSUME NEW r, NEW by, FlattenStarts(r, by) \/ FlattenReturns(r)
      PROVE  \/ pending' \in {0, pending}
             \/ pending' = Len(intents) + 1 /\ Len(intents') = Len(intents) + 1
  BY <1>6 DEF FlattenStarts, FlattenReturns, Typed, IntentsTyped
<1>7. ASSUME NEW id, MarkAmbiguous(id) PROVE pending' \in {0, pending}
  BY <1>7 DEF MarkAmbiguous
<1>8. CASE UNCHANGED vars \/ Venue
  BY <1>3, <1>8 DEF vars, state, Venue, Snapshot, ManualTrade, Executes, Refuses
<1>9. CASE Strategy
  <2>1. CASE SubmitOpen \/ SubmitClose
    BY <1>4, <1>5, <2>1 DEF SubmitOpen, SubmitClose
  <2>2. CASE AutoAmbiguous
    BY <1>3, <1>7, <2>2 DEF AutoAmbiguous
  <2>3. CASE ~(SubmitOpen \/ SubmitClose \/ AutoAmbiguous)
    <3>1. pending' \in {0, pending}
      BY <1>9, <2>3
         DEF Strategy, StalledOpen, AutoQuoteFails, AutoPrepare, AutoCommit, AutoCommitRefused,
             AutoAcceptedMismatch, AutoAcceptedMerge, AutoAcceptedProvisional,
             AutoAcceptedOrphan, AutoFailed, ClearSame
    <3> QED
      BY <1>3, <3>1
  <2> QED
    BY <2>1, <2>2, <2>3
<1>10. CASE Emergency
  <2>1. PICK t \in flats : EmergencyStep(t)
    BY <1>10 DEF Emergency
  <2>2. pending' \in {0, pending}
    BY <1>7, <2>1
       DEF EmergencyStep, FlatQuoteFails, FlatPrepare, FlatCommit, FlatRefused, FlatAccepted,
           FlatFailed, FlatAmbiguous, FlatGoes, ClearSame
  <2> QED
    BY <1>3, <2>2
<1>11. CASE Feed
  <2>1. ASSUME NEW o \in OrderIds, FeedProcess(o) \/ FeedUnsupported(o)
        PROVE  pending' \in {0, pending}
    BY <2>1, FillTyped, ProcessTyped DEF FeedProcess, FeedUnsupported
  <2>2. CASE FeedPauses \/ FeedFollows
    BY <1>3, <2>2 DEF FeedPauses, FeedFollows
  <2>3. CASE FeedFlattens
    BY <1>3, <1>4, <1>6, <2>3 DEF FeedFlattens
  <2> QED
    BY <1>3, <1>11, <2>1, <2>2, <2>3 DEF Feed
<1>12. CASE Watchdog
  <2>1. CASE DogRecovers
    BY <1>3, <2>1, ShownTyped, ProcessTyped DEF DogRecovers
  <2>2. CASE DogFlattens
    BY <1>3, <1>4, <1>6, <2>2 DEF DogFlattens
  <2>3. CASE ~DogRecovers /\ ~DogFlattens
    <3>1. pending' \in {0, pending}
      BY <1>12, <2>3
         DEF Watchdog, DogFollows, DogTimeout, DogRefreshesPage, DogDecides, DogExpires,
             Rollback, StaysAmbiguous, ClearSame
    <3> QED
      BY <1>3, <3>1
  <2> QED
    BY <2>1, <2>2, <2>3
<1>13. CASE Hedges
  <2>1. ASSUME NEW r \in RecordIds, FailureFlattens(r) PROVE pending' \in {0} \cup IntentIds'
    BY <1>3, <1>4, <1>6, <2>1 DEF FailureFlattens
  <2>2. ASSUME \/ Resume \/ \E r \in RecordIds : HedgeCompletes(r) \/ CheckResolves(r)
                                                 \/ HedgeFails(r)
        PROVE  pending' = pending
    BY <2>2 DEF Resume, HedgeCompletes, CheckResolves, HedgeFails
  <2> QED
    BY <1>3, <1>13, <2>1, <2>2 DEF Hedges
<1> QED
  BY <1>8, <1>9, <1>10, <1>11, <1>12, <1>13 DEF Next

LEMMA NextKeepsSequences ==
    ASSUME Typed, [Next]_vars
    PROVE  IntentsTyped' /\ RecordsTyped' /\ OrdersTyped'
<1>1. Grow
  BY NextGrows
<1>2. RecordsTyped'
  BY <1>1 DEF Grow, RecordsGrow, RecordsTyped
<1>3. OrdersTyped'
  BY <1>1 DEF Grow, OrdersGrow, OrdersTyped, OrderIds
<1>4. intents' \in Seq(Intent) /\ IntentIds' = DOMAIN intents'
  BY <1>1 DEF Grow, IntentsGrow, IntentIds
<1>5. ASSUME NEW i \in IntentIds', intents'[i].prov # 0
      PROVE  HasOrder(i)' /\ intents'[i].prov <= Len(records')
  <2>1. \/ i \in IntentIds /\ intents'[i].prov = intents[i].prov
        \/ HasOrder(i) /\ intents'[i].prov <= Len(records')
    BY <1>1, <1>4, <1>5 DEF Grow, IntentsGrow
  <2>2. CASE i \in IntentIds /\ intents'[i].prov = intents[i].prov
    <3>1. HasOrder(i) /\ intents[i].prov <= Len(records)
      BY <1>5, <2>2 DEF Typed, IntentsTyped
    <3>2. intents[i].prov \in Nat
      BY <2>2, IntentHas DEF Intent
    <3>3. Len(records) \in Nat /\ Len(records') \in Nat /\ Len(records) <= Len(records')
      BY <1>1 DEF Grow, RecordsGrow, Typed, RecordsTyped
    <3>4. intents[i].prov <= Len(records')
      BY <3>1, <3>2, <3>3
    <3> QED
      BY <1>1, <2>2, <3>1, <3>4, IndicesStay
  <2> QED
    BY <1>1, <2>1, <2>2, IndicesStay
<1>6. IntentsTyped'
  BY <1>4, <1>5, NextKeepsPending DEF IntentsTyped
<1> QED
  BY <1>2, <1>3, <1>6

LEMMA AutoStays ==
    ASSUME Typed, Grow, UNCHANGED auto
    PROVE  AutoTyped'
BY IndicesStay DEF Typed, ActorsTyped, AutoTyped

LEMMA FlatsStay ==
    ASSUME Typed, Grow, UNCHANGED <<flats, inflight>>
    PROVE  FlatsTyped'
<1>1. IntentIds \subseteq IntentIds'
  BY IndicesStay
<1>2. ASSUME NEW t \in flats
      PROVE  t \in [pc : {"quote", "prepared", "commit"}, id : IntentIds',
                    by : {"feed", "dog", "task"}]
  BY <1>1 DEF Typed, ActorsTyped, FlatsTyped
<1> QED
  BY <1>2 DEF Typed, ActorsTyped, FlatsTyped

LEMMA FeedStays ==
    ASSUME Typed, Grow, UNCHANGED feed
    PROVE  FeedTyped'
BY IndicesStay DEF Typed, ActorsTyped, FeedTyped

LEMMA DogStays ==
    ASSUME Typed, Grow, UNCHANGED dog
    PROVE  DogTyped'
BY IndicesStay DEF Typed, ActorsTyped, DogTyped

LEMMA FailedStays ==
    ASSUME Typed, Grow, failed' \subseteq failed \/ \E r \in RecordIds : failed' = failed \cup {r}
    PROVE  FailedTyped'
BY IndicesStay DEF Typed, ActorsTyped, FailedTyped

LEMMA NextKeepsAuto ==
    ASSUME Typed, [Next]_vars
    PROVE  AutoTyped'
<1>1. Grow
  BY NextGrows
<1>2. CASE UNCHANGED auto
  BY <1>1, <1>2, AutoStays
<1>3. CASE UNCHANGED vars \/ Emergency \/ Feed \/ Watchdog \/ Hedges \/ Venue
  <2>1. CASE UNCHANGED vars \/ Venue
    BY <1>2, <2>1
       DEF vars, state, loops, Venue, Snapshot, ManualTrade, Executes, Refuses
  <2>2. CASE Emergency
    <3>1. PICK t \in flats : EmergencyStep(t)
      BY <2>2 DEF Emergency
    <3> QED
      BY <1>2, <3>1
         DEF EmergencyStep, FlatQuoteFails, FlatPrepare, FlatCommit, FlatRefused, FlatAccepted,
             FlatFailed, FlatAmbiguous, FlatGoes, FlatEnds
  <2>3. CASE Feed
    BY <1>2, <2>3
       DEF Feed, FeedPauses, FeedFollows, FeedFlattens, FeedProcess, FeedUnsupported, loops
  <2>4. CASE Watchdog
    BY <1>2, <2>4
       DEF Watchdog, DogRecovers, DogFollows, DogFlattens, DogTimeout, DogRefreshesPage,
           DogDecides, DogExpires, loops
  <2>5. CASE Hedges
    BY <1>2, <2>5
       DEF Hedges, Resume, HedgeCompletes, CheckResolves, HedgeFails, FailureFlattens, loops
  <2> QED
    BY <1>3, <2>1, <2>2, <2>3, <2>4, <2>5
<1>4. CASE Strategy
  <2>1. Len(intents) \in Nat /\ IntentIds' = 1..Len(intents')
    BY <1>1, IndicesStay DEF Typed, IntentsTyped
  <2>2. ASSUME NEW phase, NEW side, NEW qty, NEW open, Submit(phase, side, qty, open)
        PROVE  AutoTyped'
    <3>1. Len(intents') = Len(intents) + 1 /\ auto' = [pc |-> "quote", id |-> Len(intents) + 1]
      BY <2>2 DEF Submit, Typed, IntentsTyped
    <3>2. Len(intents) + 1 \in IntentIds' /\ Len(intents) + 1 # 0
      BY <2>1, <3>1
    <3> QED
      BY <3>1, <3>2 DEF AutoTyped
  <2>3. CASE AutoPrepare
    BY <1>1, <2>3, IndicesStay DEF AutoPrepare, AutoTyped, Typed, ActorsTyped
  <2>4. CASE AutoCommit
    <3>1. auto.id \in IntentIds /\ auto' = [auto EXCEPT !.pc = "commit"]
      BY <2>4, AutoHas DEF AutoCommit
    <3>2. HasOrder(auto.id)' /\ IntentIds' = IntentIds
      BY <2>4, <3>1, DispatchGrows DEF AutoCommit
    <3>3. auto \in [pc : {"idle", "quote", "prepared", "commit"}, id : {0} \cup IntentIds]
          /\ auto.pc = "prepared" /\ auto.id # 0
      BY <2>4 DEF AutoCommit, Typed, ActorsTyped, AutoTyped
    <3>4. auto'.id = auto.id /\ auto'.pc = "commit"
          /\ auto' \in [pc : {"idle", "quote", "prepared", "commit"}, id : {0} \cup IntentIds']
      BY <3>1, <3>2, <3>3
    <3> QED
      BY <3>2, <3>3, <3>4 DEF AutoTyped
  <2>5. CASE auto' = [pc |-> "idle", id |-> 0]
    BY <2>5 DEF AutoTyped
  <2>6. StalledOpen \/ SubmitOpen \/ SubmitClose \/ AutoPrepare \/ AutoCommit
        \/ auto' = [pc |-> "idle", id |-> 0]
    BY <1>4
       DEF Strategy, AutoQuoteFails, AutoCommitRefused, AutoAcceptedMismatch,
           AutoAcceptedMerge, AutoAcceptedProvisional, AutoAcceptedOrphan, AutoFailed,
           AutoAmbiguous, AutoEnds
  <2> QED
    BY <1>2, <2>2, <2>3, <2>4, <2>5, <2>6 DEF StalledOpen, SubmitOpen, SubmitClose, loops
<1> QED
  BY <1>3, <1>4 DEF Next

LEMMA NextKeepsFlats ==
    ASSUME Typed, [Next]_vars
    PROVE  FlatsTyped'
<1>1. Grow /\ inflight \in BOOLEAN
  BY NextGrows DEF Typed, ActorsTyped, FlatsTyped
<1>2. CASE UNCHANGED <<flats, inflight>>
  BY <1>1, <1>2, FlatsStay
<1>3. ASSUME NEW F, F \subseteq flats \/ (\E t \in flats : F = flats \ {t}), flats' = F,
             inflight' \in BOOLEAN
      PROVE  FlatsTyped'
  BY <1>1, <1>3, IndicesStay DEF Typed, ActorsTyped, FlatsTyped
<1>4. ASSUME NEW r, NEW by \in {"feed", "dog", "task"},
             FlattenStarts(r, by) \/ FlattenReturns(r)
      PROVE  FlatsTyped'
  <2>1. CASE FlattenReturns(r)
    BY <1>2, <2>1 DEF FlattenReturns
  <2>2. CASE FlattenStarts(r, by)
    <3> DEFINE t == [pc |-> "quote", id |-> Len(intents) + 1, by |-> by]
    <3>1. Len(intents') = Len(intents) + 1 /\ Len(intents) \in Nat
          /\ flats' = flats \cup {t} /\ inflight'
      BY <2>2 DEF FlattenStarts, Typed, IntentsTyped
    <3>2. Len(intents) + 1 \in IntentIds'
      BY <1>1, <3>1, IndicesStay
    <3>3. \A f \in flats : f \in [pc : {"quote", "prepared", "commit"}, id : IntentIds',
                                  by : {"feed", "dog", "task"}]
      BY <1>1, IndicesStay DEF Typed, ActorsTyped, FlatsTyped
    <3>4. t \in [pc : {"quote", "prepared", "commit"}, id : IntentIds',
                 by : {"feed", "dog", "task"}]
      BY <3>2
    <3> HIDE DEF t
    <3> QED
      BY <3>1, <3>3, <3>4 DEF FlatsTyped
  <2> QED
    BY <1>4, <2>1, <2>2
<1>5. CASE UNCHANGED vars \/ Venue
  BY <1>2, <1>5
     DEF vars, state, loops, Venue, Snapshot, ManualTrade, Executes, Refuses
<1>6. CASE Strategy
  <2>1. flats' = flats /\ inflight' \in BOOLEAN
    BY <1>1, <1>6
       DEF Strategy, SubmitOpen, SubmitClose, Submit, StalledOpen, AutoQuoteFails, AutoPrepare,
           AutoCommit, AutoCommitRefused, AutoAcceptedMismatch, AutoAcceptedMerge,
           AutoAcceptedProvisional, AutoAcceptedOrphan, AutoFailed, AutoAmbiguous, AutoEnds,
           loops
  <2> QED
    BY <1>3, <2>1
<1>7. CASE Emergency
  <2>1. PICK t \in flats : EmergencyStep(t)
    BY <1>7 DEF Emergency
  <2>2. CASE FlatEnds(t)
    BY <1>3, <2>2 DEF FlatEnds
  <2>3. ASSUME NEW pc \in {"prepared", "commit"}, FlatGoes(t, pc) PROVE FlatsTyped'
    <3> DEFINE u == [t EXCEPT !.pc = pc]
    <3>1. \A f \in flats : f \in [pc : {"quote", "prepared", "commit"}, id : IntentIds',
                                  by : {"feed", "dog", "task"}]
      BY <1>1, IndicesStay DEF Typed, ActorsTyped, FlatsTyped
    <3>2. t \in [pc : {"quote", "prepared", "commit"}, id : IntentIds',
                 by : {"feed", "dog", "task"}]
      BY <3>1
    <3>3. u \in [pc : {"quote", "prepared", "commit"}, id : IntentIds',
                 by : {"feed", "dog", "task"}]
      BY <2>3, <3>2
    <3>4. flats' = (flats \ {t}) \cup {u} /\ inflight' = inflight
      BY <2>3 DEF FlatGoes
    <3> HIDE DEF u
    <3> QED
      BY <1>1, <3>1, <3>3, <3>4 DEF FlatsTyped
  <2> QED
    BY <2>1, <2>2, <2>3
       DEF EmergencyStep, FlatQuoteFails, FlatPrepare, FlatCommit, FlatRefused, FlatAccepted,
           FlatFailed, FlatAmbiguous
<1>8. CASE Feed
  BY <1>2, <1>4, <1>8
     DEF Feed, FeedPauses, FeedFollows, FeedFlattens, FeedProcess, FeedUnsupported, loops
<1>9. CASE Watchdog
  BY <1>2, <1>4, <1>9
     DEF Watchdog, DogRecovers, DogFollows, DogFlattens, DogTimeout, DogRefreshesPage,
         DogDecides, DogExpires, loops
<1>10. CASE Hedges
  BY <1>2, <1>4, <1>10
     DEF Hedges, Resume, HedgeCompletes, CheckResolves, HedgeFails, FailureFlattens, loops
<1> QED
  BY <1>5, <1>6, <1>7, <1>8, <1>9, <1>10 DEF Next

LEMMA NextKeepsFeed ==
    ASSUME Typed, [Next]_vars
    PROVE  FeedTyped'
<1>1. Grow /\ RecordIds' = 1..Len(records') /\ Len(records') \in Nat
      /\ RecordIds \subseteq RecordIds' /\ Len(records) <= Len(records') /\ Len(records) \in Nat
  BY NextGrows, IndicesStay DEF Typed, RecordsTyped, Grow, RecordsGrow
<1>2. CASE UNCHANGED feed
  BY <1>1, <1>2, FeedStays
<1>3. CASE feed' = FeedIdle
  BY <1>3 DEF FeedIdle, FeedTyped
<1>4. CASE UNCHANGED vars \/ Strategy \/ Watchdog \/ Hedges \/ Venue
  <2>1. UNCHANGED feed
    BY <1>4
       DEF vars, state, handlers, Strategy, SubmitOpen, SubmitClose, Submit, StalledOpen,
           AutoQuoteFails, AutoPrepare, AutoCommit, AutoCommitRefused, AutoAcceptedMismatch,
           AutoAcceptedMerge, AutoAcceptedProvisional, AutoAcceptedOrphan, AutoFailed,
           AutoAmbiguous, AutoEnds, Watchdog, DogRecovers, DogFollows, DogFlattens, DogTimeout,
           DogRefreshesPage, DogDecides, DogExpires, Hedges, Resume, HedgeCompletes,
           CheckResolves, HedgeFails, FailureFlattens, Venue, Snapshot, ManualTrade, Executes,
           Refuses
  <2> QED
    BY <1>2, <2>1
<1>5. CASE Emergency
  <2>1. PICK t \in flats : EmergencyStep(t)
    BY <1>5 DEF Emergency
  <2>2. UNCHANGED feed \/ feed' = FeedIdle
    BY <2>1
       DEF EmergencyStep, FlatQuoteFails, FlatPrepare, FlatCommit, FlatRefused, FlatAccepted,
           FlatFailed, FlatAmbiguous, FlatGoes, FlatEnds, handlers
  <2> QED
    BY <1>2, <1>3, <2>2
<1>6. CASE Feed
  <2>1. CASE FeedPauses \/ FeedFollows
    BY <1>3, <2>1 DEF FeedPauses, FeedFollows
  <2>2. CASE FeedFlattens
    <3>1. feed' = [feed EXCEPT !.pc = "flatten"] \/ feed' = FeedIdle
      BY <2>2 DEF FeedFlattens
    <3>2. CASE feed' = [feed EXCEPT !.pc = "flatten"]
      BY <1>1, <3>2 DEF Typed, ActorsTyped, FeedTyped
    <3> QED
      BY <1>3, <3>1, <3>2
  <2>3. ASSUME NEW o \in OrderIds, FeedProcess(o) PROVE FeedTyped'
    <3> DEFINE e == FillOf(o)
    <3>1. e \in Event /\ Process(e) /\ UNCHANGED orders
      BY <2>3, FillTyped DEF FeedProcess
    <3>2. feed' = IF ~Enters(e) THEN FeedIdle
                  ELSE [pc |-> "follow", rec |-> Entered(e), open |-> MatchedOpen(e)]
      BY <2>3 DEF FeedProcess
    <3> HIDE DEF e
    <3>3. /\ Entered(e) \in 0..Len(records') /\ (Enters(e) => Entered(e) # 0)
          /\ MatchedOpen(e) \in 0..Len(records)
      BY <3>1, ProcessTyped
    <3>4. Entered(e) \in {0} \cup RecordIds' /\ MatchedOpen(e) \in {0} \cup RecordIds'
      BY <1>1, <3>3
    <3> QED
      BY <1>3, <3>2, <3>3, <3>4 DEF FeedTyped
  <2>4. ASSUME NEW o \in OrderIds, FeedUnsupported(o) PROVE FeedTyped'
    BY <2>4 DEF FeedUnsupported, FeedIdle, FeedTyped
  <2> QED
    BY <1>6, <2>1, <2>2, <2>3, <2>4 DEF Feed
<1> QED
  BY <1>4, <1>5, <1>6 DEF Next

LEMMA NextKeepsDog ==
    ASSUME Typed, [Next]_vars
    PROVE  DogTyped'
<1>1. /\ Grow /\ RecordIds' = 1..Len(records') /\ Len(records') \in Nat
      /\ RecordIds \subseteq RecordIds' /\ IntentIds \subseteq IntentIds'
      /\ Len(records) <= Len(records') /\ Len(records) \in Nat
      /\ pending \in {0} \cup IntentIds
  BY NextGrows, IndicesStay DEF Typed, IntentsTyped, RecordsTyped, Grow, RecordsGrow
<1>2. CASE UNCHANGED dog
  BY <1>1, <1>2, DogStays
<1>3. CASE dog' = DogIdle
  BY <1>3 DEF DogIdle, DogTyped
<1>4. CASE UNCHANGED vars \/ Strategy \/ Feed \/ Hedges \/ Venue
  <2>1. UNCHANGED dog
    BY <1>4
       DEF vars, state, handlers, Strategy, SubmitOpen, SubmitClose, Submit, StalledOpen,
           AutoQuoteFails, AutoPrepare, AutoCommit, AutoCommitRefused, AutoAcceptedMismatch,
           AutoAcceptedMerge, AutoAcceptedProvisional, AutoAcceptedOrphan, AutoFailed,
           AutoAmbiguous, AutoEnds, Feed, FeedPauses, FeedFollows, FeedFlattens, FeedProcess,
           FeedUnsupported, Hedges, Resume, HedgeCompletes,
           CheckResolves, HedgeFails, FailureFlattens, Venue, Snapshot, ManualTrade, Executes,
           Refuses
  <2> QED
    BY <1>2, <2>1
<1>5. CASE Emergency
  <2>1. PICK t \in flats : EmergencyStep(t)
    BY <1>5 DEF Emergency
  <2>2. UNCHANGED dog \/ dog' = DogIdle
    BY <2>1
       DEF EmergencyStep, FlatQuoteFails, FlatPrepare, FlatCommit, FlatRefused, FlatAccepted,
           FlatFailed, FlatAmbiguous, FlatGoes, FlatEnds, handlers
  <2> QED
    BY <1>2, <1>3, <2>2
<1>6. CASE Watchdog
  <2>1. CASE DogRecovers
    <3> DEFINE e == Shown(pending)
    <3>1. e \in Event /\ Process(e) /\ UNCHANGED orders
      BY <2>1, ShownTyped DEF DogRecovers
    <3>2. dog' = [pc |-> "follow", id |-> pending, rec |-> Entered(e), open |-> MatchedOpen(e)]
      BY <2>1 DEF DogRecovers
    <3> HIDE DEF e
    <3>3. Entered(e) \in 0..Len(records') /\ MatchedOpen(e) \in 0..Len(records)
      BY <3>1, ProcessTyped
    <3>4. Entered(e) \in {0} \cup RecordIds' /\ MatchedOpen(e) \in {0} \cup RecordIds'
      BY <1>1, <3>3
    <3> QED
      BY <1>1, <3>2, <3>4 DEF DogTyped
  <2>2. CASE DogFlattens
    <3>1. dog' = [dog EXCEPT !.pc = "flatten"] \/ dog' = DogIdle
      BY <2>2 DEF DogFlattens
    <3>2. CASE dog' = [dog EXCEPT !.pc = "flatten"]
      BY <1>1, <3>2 DEF Typed, ActorsTyped, DogTyped
    <3> QED
      BY <1>3, <3>1, <3>2
  <2>3. CASE DogTimeout
    <3>1. dog' = [pc |-> "refresh", id |-> pending, rec |-> 0, open |-> 0]
      BY <2>3 DEF DogTimeout, DogIdle
    <3> QED
      BY <1>1, <3>1 DEF DogTyped
  <2>4. CASE DogRefreshesPage
    BY <1>1, <2>4 DEF DogRefreshesPage, DogTyped, Typed, ActorsTyped
  <2>5. CASE DogFollows \/ DogDecides \/ DogExpires
    BY <1>2, <1>3, <2>5 DEF DogFollows, DogDecides, DogExpires, handlers
  <2> QED
    BY <1>6, <2>1, <2>2, <2>3, <2>4, <2>5 DEF Watchdog
<1> QED
  BY <1>4, <1>5, <1>6 DEF Next

LEMMA NextKeepsFailed ==
    ASSUME Typed, [Next]_vars
    PROVE  FailedTyped'
<1>1. Grow
  BY NextGrows
<1>2. CASE Hedges
  <2>1. \/ UNCHANGED failed
        \/ \E r \in RecordIds : failed' = failed \cup {r} \/ failed' = failed \ {r}
    BY <1>2
       DEF Hedges, Resume, HedgeCompletes, CheckResolves, HedgeFails, FailureFlattens, handlers
  <2> QED
    BY <1>1, <2>1, FailedStays
<1>3. CASE ~Hedges
  <2>1. CASE Emergency
    <3>1. PICK t \in flats : EmergencyStep(t)
      BY <2>1 DEF Emergency
    <3>2. UNCHANGED failed
      BY <3>1
         DEF EmergencyStep, FlatQuoteFails, FlatPrepare, FlatCommit, FlatRefused, FlatAccepted,
             FlatFailed, FlatAmbiguous, FlatGoes, FlatEnds, handlers
    <3> QED
      BY <1>1, <3>2, FailedStays
  <2>2. CASE ~Emergency
    <3>1. UNCHANGED failed
      BY <1>3, <2>2
         DEF Next, vars, state, handlers, Strategy, SubmitOpen, SubmitClose, Submit,
             StalledOpen, AutoQuoteFails, AutoPrepare, AutoCommit, AutoCommitRefused,
             AutoAcceptedMismatch, AutoAcceptedMerge, AutoAcceptedProvisional,
             AutoAcceptedOrphan, AutoFailed, AutoAmbiguous, AutoEnds, Feed, FeedPauses,
             FeedFollows, FeedFlattens, FeedProcess, FeedUnsupported, Watchdog, DogRecovers,
             DogFollows, DogFlattens, DogTimeout, DogRefreshesPage, DogDecides, DogExpires,
             Venue, Snapshot, ManualTrade, Executes, Refuses
    <3> QED
      BY <1>1, <3>1, FailedStays
  <2> QED
    BY <2>1, <2>2
<1> QED
  BY <1>2, <1>3

LEMMA PositionTyped ==
    ASSUME Typed
    PROVE  Position \in Int /\ Quantified(orders)
<1>1. Len(orders) \in Nat /\ OrderIds = 1..Len(orders)
  BY DEF Typed, OrdersTyped, OrderIds
<1>2. \A o \in OrderIds : orders[o].qty \in Nat
  BY OrderHas DEF Order
<1> QED
  BY <1>1, <1>2, PositionIsInt DEF Position, Quantified

LEMMA NextKeepsAccount ==
    ASSUME Typed, [Next]_vars
    PROVE  AccountTyped'
<1>1. /\ paused \in {"none", "reconcile", "automation"}
      /\ snap \in [pos : Int, at : Nat, fresh : BOOLEAN]
  BY DEF Typed, AccountTyped
<1> DEFINE P == paused' \in {"none", "reconcile", "automation"}
           S == snap' \in [pos : Int, at : Nat, fresh : BOOLEAN]
<1> SUFFICES P /\ S
  BY DEF AccountTyped
<1>2. PauseForReconciliation(paused) \in {"none", "reconcile", "automation"}
  BY <1>1 DEF PauseForReconciliation
<1>3. ASSUME paused' \in {paused, PauseForReconciliation(paused), "none", "reconcile",
                          "automation"}
      PROVE  P
  BY <1>1, <1>2, <1>3
<1>4. ASSUME snap' = snap \/ snap' = [snap EXCEPT !.fresh = FALSE] PROVE S
  BY <1>1, <1>4
<1>5. ASSUME NEW r, NEW by, FlattenStarts(r, by) \/ FlattenReturns(r) PROVE P /\ S
  <2>1. P
    BY <1>1, <1>5 DEF FlattenStarts, FlattenReturns
  <2>2. CASE snap' = snap
    BY <1>4, <2>1, <2>2
  <2>3. CASE snap' = [snap EXCEPT !.fresh = @ /\ StaleSnapshots]
    BY <1>1, <2>1, <2>3, ChoiceAssumption
  <2> QED
    BY <1>5, <2>1, <2>2, <2>3 DEF FlattenStarts, FlattenReturns
<1>6. CASE UNCHANGED vars
  BY <1>3, <1>4, <1>6 DEF vars, state
<1>7. CASE Strategy
  <2>1. P
    BY <1>3, <1>7
       DEF Strategy, SubmitOpen, SubmitClose, Submit, StalledOpen, AutoQuoteFails,
           AutoPrepare, AutoCommit, AutoCommitRefused, AutoAcceptedMismatch,
           AutoAcceptedMerge, AutoAcceptedProvisional, AutoAcceptedOrphan, AutoFailed,
           AutoAmbiguous
  <2>2. S
    BY <1>4, <1>7
       DEF Strategy, SubmitOpen, SubmitClose, Submit, StalledOpen, AutoQuoteFails,
           AutoPrepare, AutoCommit, AutoCommitRefused, AutoAcceptedMismatch,
           AutoAcceptedMerge, AutoAcceptedProvisional, AutoAcceptedOrphan, AutoFailed,
           AutoAmbiguous
  <2> QED
    BY <2>1, <2>2
<1>8. CASE Emergency
  <2>1. PICK t \in flats : EmergencyStep(t)
    BY <1>8 DEF Emergency
  <2>2. P
    BY <1>3, <2>1
       DEF EmergencyStep, FlatQuoteFails, FlatPrepare, FlatCommit, FlatRefused, FlatAccepted,
           FlatFailed, FlatAmbiguous, FlatGoes
  <2>3. S
    BY <1>4, <2>1
       DEF EmergencyStep, FlatQuoteFails, FlatPrepare, FlatCommit, FlatRefused, FlatAccepted,
           FlatFailed, FlatAmbiguous, FlatGoes
  <2> QED
    BY <2>2, <2>3
<1>9. CASE Feed
  <2>1. ASSUME NEW o \in OrderIds, FeedProcess(o) \/ FeedUnsupported(o) PROVE P /\ S
    <3>1. FeedProcess(o) => P
      BY FillTyped, ProcessTyped DEF FeedProcess
    <3>2. FeedUnsupported(o) => P
      BY <1>3 DEF FeedUnsupported
    <3>3. S
      BY <1>4, <2>1 DEF FeedProcess, FeedUnsupported
    <3> QED
      BY <2>1, <3>1, <3>2, <3>3
  <2>2. CASE FeedPauses \/ FeedFollows
    BY <1>3, <1>4, <2>2, HedgeStarts DEF FeedPauses, FeedFollows
  <2> QED
    BY <1>5, <1>9, <2>1, <2>2 DEF Feed, FeedFlattens
<1>10. CASE Watchdog
  <2>1. CASE DogRecovers
    <3>1. P
      BY <2>1, ShownTyped, ProcessTyped DEF DogRecovers
    <3> QED
      BY <1>4, <2>1, <3>1 DEF DogRecovers
  <2>2. CASE DogFollows
    BY <1>3, <1>4, <2>2, HedgeStarts DEF DogFollows
  <2>3. CASE DogFlattens
    BY <1>5, <2>3 DEF DogFlattens
  <2>4. CASE DogTimeout \/ DogRefreshesPage \/ DogDecides \/ DogExpires
    BY <1>3, <1>4, <2>4
       DEF DogTimeout, DogRefreshesPage, DogDecides, DogExpires, Rollback, StaysAmbiguous
  <2> QED
    BY <1>10, <2>1, <2>2, <2>3, <2>4 DEF Watchdog
<1>11. CASE Hedges
  <2>1. ASSUME NEW r \in RecordIds, HedgeCompletes(r) \/ CheckResolves(r) \/ HedgeFails(r)
        PROVE  P /\ S
    BY <1>3, <1>4, <2>1 DEF HedgeCompletes, CheckResolves, HedgeFails
  <2>2. CASE Resume
    BY <1>3, <1>4, <2>2 DEF Resume
  <2> QED
    BY <1>5, <1>11, <2>1, <2>2 DEF Hedges, FailureFlattens
<1>12. CASE Venue
  <2>1. P
    BY <1>3, <1>12 DEF Venue, Snapshot, ManualTrade, Executes, Refuses
  <2>2. CASE Snapshot
    BY <2>1, <2>2, PositionTyped, LastFillTyped DEF Snapshot
  <2>3. CASE ~Snapshot
    BY <1>4, <1>12, <2>1, <2>3 DEF Venue, ManualTrade, Executes, Refuses
  <2> QED
    BY <2>1, <2>2, <2>3
<1> QED
  BY <1>6, <1>7, <1>8, <1>9, <1>10, <1>11, <1>12 DEF Next

LEMMA TypedIsKept == Typed /\ [Next]_vars => Typed'
<1> SUFFICES ASSUME Typed, [Next]_vars PROVE Typed'
  OBVIOUS
<1>1. ActorsTyped'
  BY NextKeepsAuto, NextKeepsFlats, NextKeepsFeed, NextKeepsDog, NextKeepsFailed
     DEF ActorsTyped
<1> QED
  BY <1>1, NextKeepsSequences, NextKeepsAccount DEF Typed

\* For any number of Commits, with or without failing hedges and manual trades, every
\* variable keeps its type: each index that an actor keeps over a suspension (the pending
\* intent, a record, the position it closes) still names what it named.
THEOREM TypeCorrect == Spec => []TypeOK
<1>1. Spec => []Typed
  BY InitTyped, TypedIsKept, PTL DEF Spec
<1> QED
  BY <1>1, TypedIsTypeOK, PTL

-----------------------------------------------------------------------------
(* The invariant *)

LastOrder == orders[Len(orders)]
LastRecord == records[Len(records)]

\* No hedge has failed, so nothing is flattened.
Calm == flats = {} /\ failed = {} /\ \A r \in RecordIds : records[r].hedge # "error"

\* Only the last order may still be executed, and it takes the position to the other one.
Serial ==
    /\ \A o \in OrderIds : orders[o].st = "sent" =>
          /\ o = Len(orders) /\ orders[o].qty = 1
          /\ Position = (IF orders[o].side = "buy" THEN 0 ELSE 1)
    /\ Position \in {0, 1} /\ snap.pos \in {0, 1} /\ snap.at <= Len(intents)

\* An intent has one order at most, and none before its Commit.
Owned ==
    /\ \A o, p \in OrderIds : orders[o].intent = orders[p].intent => o = p
    /\ \A o \in OrderIds : orders[o].named /\ orders[o].intent \in IntentIds
    /\ auto.pc \in {"quote", "prepared"} => \A o \in OrderIds : orders[o].intent # auto.id

\* Its orders take turns: each fills before the intent of the next, the last fill has brought
\* the position to where it is, and so none of its intents takes up the fill before it.
Unhurried == \A i \in IntentIds : ~intents[i].soon
Timed ==
    /\ \A o, p \in OrderIds : o < p => orders[o].at < orders[p].intent
    /\ \A o \in Filled : o = Len(orders) => Position = IF orders[o].side = "buy" THEN 1 ELSE 0
    /\ Unhurried

\* The rest holds until the automation is paused for good: the records are opens and closes
\* in turn, ...
Alternate == \A r \in RecordIds :
    /\ records[r].qty = 1 /\ records[r].src # "unconfirmed"
    /\ r = 1 => records[r].side = "buy"
    /\ r # 1 => records[r].side = Opposite(records[r - 1].side)

\* ... each the record of one order, ...
Traced == \A r \in RecordIds :
    /\ records[r].trade \in OrderIds /\ records[r].quote = orders[records[r].trade].intent
    /\ records[r].at <= Len(intents)
    /\ \A q \in RecordIds : records[q].trade = records[r].trade => q = r
    /\ records[r].src # "http" => orders[records[r].trade].st = "filled"

\* ... and every order but that of the pending intent is decided, and recorded if it filled.
Live == pending # 0 /\ intents[pending].st \notin {"QUOTING", "PREPARED"}
Recorded == \E r \in RecordIds : records[r].trade = Len(orders)
DecidedOrders == \A o \in OrderIds : ~(Live /\ o = Len(orders)) =>
    /\ orders[o].st # "sent"
    /\ orders[o].st = "filled" => \E r \in RecordIds : records[r].trade = o
    /\ pending # 0 => orders[o].at < pending
DecidedRecords == \A r \in RecordIds : ~(Live /\ records[r].trade = Len(orders)) =>
    /\ records[r].src # "http"
    /\ pending # 0 => records[r].at < pending

\* The order in hand is the last one, and so is its record.
InHand == Live =>
    /\ orders # <<>> /\ LastOrder.intent = pending
    /\ LastOrder.side = intents[pending].side /\ LastOrder.qty = 1
    /\ LastOrder.st = "filled" => LastOrder.at >= pending
    /\ Recorded => records # <<>> /\ LastRecord.trade = Len(orders)

\* The position after n records, and how it is told from them and the order in hand.
After(n) == IF n = 0 \/ records[n].side = "sell" THEN 0 ELSE 1
Truth ==
    /\ ~Live => Position = After(Len(records))
    /\ Live /\ Recorded /\ LastOrder.st = "filled" => Position = After(Len(records))
    /\ Live /\ Recorded /\ LastOrder.st # "filled" => Position = After(Len(records) - 1)
    /\ Live /\ ~Recorded /\ LastOrder.st = "filled" => Position = 1 - After(Len(records))
    /\ Live /\ ~Recorded /\ LastOrder.st # "filled" => Position = After(Len(records))

\* The pending intent goes with the strategy that waits for it, and a fresh snapshot that
\* may judge it shows the position.
Directed ==
    /\ intents[pending].qty = 1
    /\ intents[pending].phase = (IF intents[pending].side = "buy" THEN "open" ELSE "close")
    /\ Live /\ Recorded => intents[pending].side = LastRecord.side
    /\ ~(Live /\ Recorded) =>
          intents[pending].side = (IF After(Len(records)) = 0 THEN "buy" ELSE "sell")
Candidate == intents[pending].st \in {"QUOTING", "PREPARED"} =>
    /\ auto.id = pending /\ auto.pc \in {"quote", "prepared"}
    /\ ~intents[pending].accepted /\ intents[pending].prov = 0
    /\ intents[pending].rfq = 0 /\ intents[pending].confirmed = 0
    /\ snap.fresh => snap.pos = Position
Committing == intents[pending].st = "COMMITTING" =>
    /\ auto.id = pending /\ auto.pc = "commit"
    /\ ~intents[pending].accepted /\ intents[pending].prov = 0 /\ intents[pending].rfq = 0
    /\ intents[pending].confirmed = IF Recorded THEN Len(records) ELSE 0
    /\ Recorded => LastRecord.src # "http"
Committed == intents[pending].st \in {"COMMITTED", "AMBIGUOUS"} =>
    /\ auto.pc = "idle" /\ intents[pending].prov = Len(records)
    /\ intents[pending].rfq = pending
    /\ Recorded /\ LastRecord.src = "http"
    /\ intents[pending].accepted => intents[pending].st = "COMMITTED"
    /\ snap.fresh /\ LastOrder.st # "filled" => snap.pos = Position
Pending == pending # 0 => Directed /\ Candidate /\ Committing /\ Committed
Waiting ==
    /\ auto.pc = "commit" => Live /\ pending = auto.id
    /\ auto.pc \in {"quote", "prepared"} => pending \in {0, auto.id}
    /\ dog.pc = "follow" => dog.id \notin {0, pending}

Based == Alternate /\ Traced /\ DecidedOrders /\ DecidedRecords /\ InHand /\ Truth
Orderly == Based /\ Pending /\ Waiting
Alone == Serial /\ Owned /\ Timed /\ (paused # "automation" => Orderly)

\* With the operator beside it the strategy submits one Commit, for an account that no
\* manual trade has changed a buy.
Single ==
    /\ Len(intents) <= 1
    /\ \A o \in OrderIds : IF Automatic(o) THEN orders[o].intent \in IntentIds
                           ELSE orders[o].st = "filled"
    /\ \A o, p \in OrderIds : Automatic(o) /\ Automatic(p) => o = p
    /\ auto.pc \in {"quote", "prepared"} => \A o \in OrderIds : ~Automatic(o)
    /\ orders = <<>> => records = <<>> /\ snap.pos = 0
    /\ NoManual => /\ \A o \in OrderIds : orders[o].side = "buy" /\ orders[o].qty = 1
                   /\ auto.pc \in {"quote", "prepared"} =>
                         intents[auto.id].side = "buy" /\ intents[auto.id].qty = 1

SInv == Typed /\ Calm /\ IF mix = "strategy" THEN Alone ELSE mix = "operator" /\ Single

-----------------------------------------------------------------------------
(* What the types say *)

LEMMA Lengths ==
    ASSUME Typed
    PROVE  /\ Len(intents) \in Nat /\ IntentIds = 1..Len(intents)
           /\ Len(records) \in Nat /\ RecordIds = 1..Len(records)
           /\ Len(orders) \in Nat /\ OrderIds = 1..Len(orders)
           /\ pending \in {0} \cup IntentIds
           /\ records # <<>> <=> Len(records) # 0
           /\ orders # <<>> <=> Len(orders) # 0
BY DEF Typed, IntentsTyped, RecordsTyped, OrdersTyped, IntentIds, RecordIds, OrderIds

LEMMA RecordFields ==
    ASSUME Typed, NEW r \in RecordIds
    PROVE  /\ records[r].side \in {"buy", "sell"} /\ records[r].qty \in Nat
           /\ records[r].trade \in Nat /\ records[r].quote \in Nat /\ records[r].at \in Nat
           /\ records[r].src \in {"http", "event", "portfolio", "unconfirmed"}
BY RecordHas DEF Record, Sides

LEMMA OrderFields ==
    ASSUME Typed, NEW o \in OrderIds
    PROVE  /\ orders[o].side \in {"buy", "sell"} /\ orders[o].qty \in Nat
           /\ orders[o].at \in Nat /\ orders[o].at <= Len(intents)
           /\ orders[o].intent \in Nat /\ orders[o].named \in BOOLEAN
           /\ orders[o].st \in {"sent", "filled", "refused"}
BY OrderHas DEF Order, Sides, Typed, OrdersTyped

LEMMA IntentFields ==
    ASSUME Typed, NEW i \in IntentIds
    PROVE  /\ intents[i].side \in {"buy", "sell"} /\ intents[i].qty \in Nat
           /\ intents[i].phase \in Phases
           /\ intents[i].st \in {"QUOTING", "PREPARED", "COMMITTING", "COMMITTED", "AMBIGUOUS"}
           /\ intents[i].accepted \in BOOLEAN /\ intents[i].confirmed \in Nat
           /\ intents[i].prov \in Nat /\ intents[i].rfq \in Nat
BY IntentHas DEF Intent, Sides

LEMMA AfterIsBit ==
    ASSUME NEW n
    PROVE  After(n) \in {0, 1}
BY DEF After

\* The order in hand, and its record, are what OrderOf and the records' trades find.
LEMMA HandHas ==
    ASSUME Typed, Owned, Orderly, Live
    PROVE  /\ Len(orders) \in OrderIds /\ pending \in IntentIds
           /\ OrderOf(pending) = Len(orders) /\ Named(pending)
           /\ \A r \in RecordIds : records[r].trade = Len(orders) =>
                 r = Len(records) /\ Recorded
           /\ Recorded => Len(records) \in RecordIds /\ LastRecord.trade = Len(orders)
<1>1. Len(orders) \in OrderIds /\ orders[Len(orders)].intent = pending
  BY Lengths DEF Orderly, Based, InHand, LastOrder
<1>2. HasOrder(pending)
  BY <1>1 DEF HasOrder
<1>3. OrderOf(pending) \in OrderIds /\ orders[OrderOf(pending)].intent = pending
  BY <1>2, OrderOfHas
<1>4. OrderOf(pending) = Len(orders)
  BY <1>1, <1>3 DEF Owned
<1>5. Named(pending)
  BY <1>1, <1>4 DEF Owned, Named
<1>6. Recorded => Len(records) \in RecordIds /\ LastRecord.trade = Len(orders)
  BY Lengths DEF Orderly, Based, InHand
<1>7. ASSUME NEW r \in RecordIds, records[r].trade = Len(orders)
      PROVE  r = Len(records) /\ Recorded
  <2>1. Recorded
    BY <1>7 DEF Recorded
  <2> QED
    BY <1>6, <1>7, <2>1 DEF Orderly, Based, Traced, LastRecord
<1>8. pending \in IntentIds
  BY Lengths DEF Live
<1> QED
  BY <1>1, <1>4, <1>5, <1>6, <1>7, <1>8

-----------------------------------------------------------------------------
(* Steps that decide no order *)

\* The records are of the same orders, ...
SameTrades ==
    /\ Len(records') = Len(records)
    /\ \A r \in RecordIds :
          /\ records'[r].side = records[r].side /\ records'[r].qty = records[r].qty
          /\ records'[r].trade = records[r].trade /\ records'[r].quote = records[r].quote
\* ... and as confirmed as they were.
RecordsSame ==
    /\ SameTrades
    /\ \A r \in RecordIds :
          records'[r].src = records[r].src /\ records'[r].at = records[r].at

LEMMA SameRecords ==
    ASSUME Typed, Typed', SameTrades
    PROVE  /\ RecordIds' = RecordIds
           /\ \A n \in RecordIds : After(n)' = After(n)
           /\ After(Len(records))' = After(Len(records))
           /\ After(Len(records) - 1)' = After(Len(records) - 1)
           /\ Len(records) \in RecordIds \/ Len(records) = 0
<1>1. /\ RecordIds' = 1..Len(records') /\ RecordIds = 1..Len(records) /\ Len(records) \in Nat
      /\ Len(records') = Len(records)
  BY Lengths DEF SameTrades, Typed, RecordsTyped, RecordIds
<1>2. ASSUME NEW n \in RecordIds PROVE After(n)' = After(n)
  BY <1>1, <1>2 DEF SameTrades, After
<1>3. After(Len(records))' = After(Len(records))
  BY <1>1 DEF SameTrades, After
<1>4. After(Len(records) - 1)' = After(Len(records) - 1)
  <2>1. Len(records) - 1 \in RecordIds \/ Len(records) - 1 = 0 \/ Len(records) = 0
    BY <1>1
  <2>2. CASE Len(records) = 0
    <3>1. records = <<>> /\ records' = <<>>
      BY <1>1, <2>2, Lengths DEF Typed, RecordsTyped
    <3> QED
      BY <1>1, <3>1 DEF After
  <2> QED
    BY <1>1, <2>1, <2>2 DEF SameTrades, After
<1> QED
  BY <1>1, <1>2, <1>3, <1>4

LEMMA LengthsNext ==
    ASSUME Typed'
    PROVE  /\ Len(intents') \in Nat /\ IntentIds' = 1..Len(intents')
           /\ Len(records') \in Nat /\ RecordIds' = 1..Len(records')
           /\ Len(orders') \in Nat /\ OrderIds' = 1..Len(orders')
           /\ pending' \in {0} \cup IntentIds'
           /\ records' # <<>> <=> Len(records') # 0
           /\ orders' # <<>> <=> Len(orders') # 0
BY DEF Typed, IntentsTyped, RecordsTyped, OrdersTyped, IntentIds, RecordIds, OrderIds

\* Nothing happens to an order, and the pending intent is as far as it was.
LEMMA BaseStays ==
    ASSUME Typed, Typed', Based, RecordsSame, UNCHANGED <<orders, pending>>,
           Len(intents) <= Len(intents'), Live' = Live,
           pending # 0 => intents'[pending].side = intents[pending].side
    PROVE  Based' /\ Recorded' = Recorded
<1>1. /\ RecordIds' = RecordIds /\ RecordIds = 1..Len(records) /\ Len(records') = Len(records)
      /\ OrderIds' = OrderIds /\ Len(records) \in Nat /\ Len(orders') = Len(orders)
      /\ \A o \in OrderIds : orders'[o] = orders[o]
  BY SameRecords, Lengths DEF RecordsSame, SameTrades, OrderIds
<1>2. Recorded' = Recorded
  BY <1>1 DEF Recorded, RecordsSame, SameTrades
<1>3. Alternate'
  <2>1. \A r \in RecordIds : r # 1 => r - 1 \in RecordIds
    BY <1>1
  <2> SUFFICES ASSUME NEW r \in RecordIds
               PROVE  /\ records'[r].qty = 1 /\ records'[r].src # "unconfirmed"
                      /\ r = 1 => records'[r].side = "buy"
                      /\ r # 1 => records'[r].side = Opposite(records'[r - 1].side)
    BY <1>1 DEF Alternate, Opposite
  <2>2. r # 1 => records'[r - 1].side = records[r - 1].side
    BY <2>1 DEF RecordsSame, SameTrades
  <2> QED
    BY <2>2 DEF Based, Alternate, RecordsSame, SameTrades
<1>4. Traced'
  <2>1. Len(intents) \in Nat /\ Len(intents') \in Nat
    BY Lengths, LengthsNext
  <2>2. \A r \in RecordIds : records[r].at \in Nat
    BY RecordFields
  <2> QED
    BY <1>1, <2>1, <2>2 DEF Based, Traced, RecordsSame, SameTrades
<1>5. DecidedOrders'
  BY <1>1 DEF Based, DecidedOrders, RecordsSame, SameTrades
<1>6. DecidedRecords'
  BY <1>1 DEF Based, DecidedRecords, RecordsSame, SameTrades
<1>7. InHand'
  <2>1. ASSUME Recorded, Live
        PROVE  records' # <<>> /\ LastRecord'.trade = LastRecord.trade
    <3>1. Len(records) \in RecordIds
      BY <2>1, Lengths DEF Based, InHand
    <3> QED
      BY <1>1, <3>1, LengthsNext DEF LastRecord, RecordsSame, SameTrades
  <2>2. Live => pending # 0
    BY DEF Live
  <2> QED
    BY <1>1, <1>2, <2>1, <2>2 DEF Based, InHand, LastOrder
<1>8. Truth'
  <2>1. Position' = Position /\ LastOrder' = LastOrder
    BY DEF Position, LastOrder
  <2> QED
    BY <1>1, <1>2, <2>1, SameRecords DEF Based, Truth, RecordsSame
<1> QED
  BY <1>2, <1>3, <1>4, <1>5, <1>6, <1>7, <1>8 DEF Based

\* Every order is decided, every record is confirmed, and no intent is left.
LEMMA Settles ==
    ASSUME Typed, Typed', Based, SameTrades, UNCHANGED orders, pending' = 0,
           Len(intents) <= Len(intents'), auto'.pc # "commit",
           dog'.pc = "follow" => dog'.id # 0,
           \A r \in RecordIds :
              /\ records'[r].src \in {"event", "portfolio"} /\ records'[r].at <= Len(intents')
              /\ orders[records[r].trade].st = "filled",
           \A o \in OrderIds :
              /\ orders[o].st # "sent"
              /\ orders[o].st = "filled" => \E r \in RecordIds : records[r].trade = o
    PROVE  Orderly'
<1>1. /\ RecordIds' = RecordIds /\ RecordIds = 1..Len(records) /\ Len(records') = Len(records)
      /\ OrderIds' = OrderIds /\ Len(records) \in Nat /\ Len(orders') = Len(orders)
      /\ OrderIds = 1..Len(orders) /\ Len(orders) \in Nat
  BY SameRecords, Lengths DEF SameTrades, OrderIds
<1>2. ~Live'
  BY DEF Live
<1>3. Alternate'
  <2>1. \A r \in RecordIds : r # 1 => r - 1 \in RecordIds
    BY <1>1
  <2> SUFFICES ASSUME NEW r \in RecordIds
               PROVE  /\ records'[r].qty = 1 /\ records'[r].src # "unconfirmed"
                      /\ r = 1 => records'[r].side = "buy"
                      /\ r # 1 => records'[r].side = Opposite(records'[r - 1].side)
    BY <1>1 DEF Alternate, Opposite
  <2>2. r # 1 => records'[r - 1].side = records[r - 1].side
    BY <2>1 DEF SameTrades
  <2> QED
    BY <2>2 DEF Based, Alternate, SameTrades
<1>4. Traced'
  BY <1>1 DEF Based, Traced, SameTrades
<1>5. DecidedOrders'
  BY <1>1 DEF DecidedOrders, SameTrades
<1>6. DecidedRecords'
  BY <1>1 DEF DecidedRecords
<1>7. InHand'
  BY <1>2 DEF InHand
<1>8. Position = After(Len(records))
  <2>1. CASE ~Live
    BY <2>1 DEF Based, Truth
  <2>2. CASE Live /\ Recorded
    <3>1. LastOrder.st = "filled"
      BY <2>2 DEF Recorded, LastOrder
    <3> QED
      BY <2>2, <3>1 DEF Based, Truth
  <2>3. CASE Live /\ ~Recorded
    <3>1. LastOrder.st # "filled"
      BY <1>1, <2>3 DEF Recorded, LastOrder, Based, InHand
    <3> QED
      BY <2>3, <3>1 DEF Based, Truth
  <2> QED
    BY <2>1, <2>2, <2>3
<1>9. Truth'
  <2>1. Position' = Position
    BY DEF Position
  <2> QED
    BY <1>1, <1>2, <1>8, <2>1, SameRecords DEF Truth
<1>10. Pending' /\ Waiting'
  BY DEF Pending, Waiting
<1> QED
  BY <1>3, <1>4, <1>5, <1>6, <1>7, <1>9, <1>10 DEF Orderly, Based

LEMMA DirectedStays ==
    ASSUME Typed, Typed', Based, RecordsSame, UNCHANGED <<orders, pending>>, Live' = Live,
           Recorded' = Recorded, Directed,
           /\ intents'[pending].side = intents[pending].side
           /\ intents'[pending].qty = intents[pending].qty
           /\ intents'[pending].phase = intents[pending].phase
    PROVE  Directed'
<1>1. ASSUME Live, Recorded PROVE LastRecord'.side = LastRecord.side
  <2>1. Len(records) \in RecordIds
    BY <1>1, Lengths DEF Based, InHand
  <2> QED
    BY <2>1 DEF LastRecord, RecordsSame, SameTrades
<1>2. After(Len(records))' = After(Len(records))
  BY SameRecords DEF RecordsSame
<1> QED
  BY <1>1, <1>2 DEF Directed

\* Steps of the hedges and of whoever only waits.
LEMMA OrderlyStays ==
    ASSUME Typed, Typed', Orderly, RecordsSame,
           UNCHANGED <<orders, pending, intents, auto, snap>>,
           dog'.pc = "follow" => dog'.id \notin {0, pending}
    PROVE  Orderly'
<1>1. Live' = Live
  BY DEF Live
<1>2. Based' /\ Recorded' = Recorded
  <2>1. Len(intents) <= Len(intents')
    BY Lengths
  <2> QED
    BY <1>1, <2>1, BaseStays DEF Orderly
<1>3. Pending'
  <2> SUFFICES ASSUME pending # 0
               PROVE  Directed' /\ Candidate' /\ Committing' /\ Committed'
    BY DEF Pending
  <2>1. Directed'
    BY <1>1, <1>2, DirectedStays DEF Orderly, Pending
  <2>2. Candidate'
    <3>1. Position' = Position
      BY DEF Position
    <3> QED
      BY <3>1 DEF Orderly, Pending, Candidate
  <2>3. ASSUME Recorded
        PROVE  LastRecord'.src = LastRecord.src
    <3>1. Recorded /\ Live => Len(records) \in RecordIds
      BY Lengths DEF Orderly, Based, InHand
    <3>2. CASE Live
      BY <2>3, <3>1, <3>2 DEF LastRecord, RecordsSame, SameTrades
    <3>3. CASE ~Live
      <4>1. RecordIds # {}
        BY <2>3 DEF Recorded
      <4>2. Len(records) \in RecordIds
        BY <4>1, Lengths
      <4> QED
        BY <4>2 DEF LastRecord, RecordsSame, SameTrades
    <3> QED
      BY <3>2, <3>3
  <2>4. Committing'
    BY <1>2, <2>3 DEF Orderly, Pending, Committing, RecordsSame, SameTrades
  <2>5. Committed'
    <3>1. Position' = Position
      BY DEF Position
    <3> QED
      BY <1>2, <2>3, <3>1 DEF Orderly, Pending, Committed, RecordsSame, SameTrades, LastOrder
  <2> QED
    BY <2>1, <2>2, <2>4, <2>5
<1>4. Waiting'
  BY <1>1 DEF Orderly, Waiting
<1> QED
  BY <1>2, <1>3, <1>4 DEF Orderly

-----------------------------------------------------------------------------
(* Steps of the strategy *)

\* Of opens and closes in turn the last one is tracked, if it is an open.
LEMMA OpenIsLast ==
    ASSUME Typed, Alternate
    PROVE  CurrentOpen = IF After(Len(records)) = 1 THEN Len(records) ELSE 0
<1>1. Len(records) \in Nat /\ RecordIds = 1..Len(records)
  BY Lengths
<1>2. PICK f : Opens(records, 0, f) /\ CurrentOpen = f[Len(records)]
  BY <1>1, OpenByOpens DEF CurrentOpen
<1> DEFINE Tracks(r) == f[r] = IF After(r) = 1 THEN r ELSE 0
           Wrong == {r \in 0..Len(records) : ~Tracks(r)}
<1>3. Wrong = {}
  <2> SUFFICES ASSUME Wrong # {} PROVE FALSE
    OBVIOUS
  <2>1. Wrong \subseteq Nat
    BY <1>1
  <2>2. PICK r \in Wrong : \A q \in Wrong : r <= q
    BY <2>1, LeastElement
  <2>3. r \in 0..Len(records) /\ ~Tracks(r)
    BY <2>2
  <2>4. r # 0
    BY <1>1, <1>2, <2>3 DEF Opens, After
  <2>5. r \in RecordIds /\ r - 1 \in 0..Len(records) /\ (r # 1 => r - 1 \in RecordIds)
    BY <1>1, <2>3, <2>4
  <2>6. Tracks(r - 1)
    BY <1>1, <2>2, <2>5
  <2>7. f[r] = NextOpen(records, 0, f[r - 1], r)
    BY <1>2, <2>3, <2>4 DEF Opens
  <2>8. f[r] = IF f[r - 1] = 0 \/ records[f[r - 1]].side = records[r].side THEN r
               ELSE IF records[f[r - 1]].qty = records[r].qty THEN 0 ELSE f[r - 1]
    BY <2>4, <2>5, <2>7 DEF NextOpen, Alternate
  <2>9. CASE After(r - 1) = 1
    <3>1. f[r - 1] = r - 1 /\ r # 1 /\ records[r - 1].side # "sell"
      BY <1>1, <2>5, <2>6, <2>9 DEF After
    <3>2. records[r - 1].side = "buy"
      BY <2>5, <3>1, RecordFields
    <3>3. records[r].side = "sell" /\ records[r].qty = 1 /\ records[r - 1].qty = 1
      BY <2>5, <3>1, <3>2 DEF Alternate, Opposite
    <3> QED
      BY <1>1, <2>3, <2>5, <2>8, <3>1, <3>2, <3>3 DEF After
  <2>10. CASE After(r - 1) # 1
    <3>1. f[r - 1] = 0 /\ f[r] = r
      BY <2>6, <2>8, <2>10
    <3>2. r # 1 => records[r - 1].side = "sell"
      BY <1>1, <2>5, <2>10 DEF After
    <3>3. records[r].side = "buy"
      BY <2>5, <3>2 DEF Alternate, Opposite
    <3> QED
      BY <2>3, <2>4, <3>1, <3>3 DEF After
  <2> QED
    BY <2>9, <2>10
<1>4. Len(records) \in 0..Len(records)
  BY <1>1
<1>5. Tracks(Len(records))
  BY <1>3, <1>4
<1> QED
  BY <1>2, <1>5

LEMMA SubmitKeepsOrder ==
    ASSUME Typed, Typed', Orderly, pending = 0,
           NEW phase, NEW side, NEW open, Submit(phase, side, 1, open),
           phase = IF side = "buy" THEN "open" ELSE "close",
           side = IF After(Len(records)) = 0 THEN "buy" ELSE "sell"
    PROVE  Orderly'
<1> DEFINE id == Len(intents) + 1
<1>0. PICK soon \in Soon(side) : intents' = Append(intents, NewIntent(phase, side, 1, open, soon))
  BY DEF Submit
<1>1. /\ intents'[id] = NewIntent(phase, side, 1, open, soon) /\ pending' = id
      /\ Len(intents) \in Nat /\ Len(intents') = id
  <2>1. Len(intents') = id
    BY <1>0 DEF Typed, IntentsTyped
  <2>2. intents'[id] = NewIntent(phase, side, 1, open, soon)
    BY <1>0 DEF Typed, IntentsTyped
  <2> QED
    BY <2>1, <2>2, Lengths DEF Submit
<1>2. /\ ~Live /\ ~Live' /\ UNCHANGED <<orders, records, dog, RecordIds, OrderIds>>
      /\ auto' = [pc |-> "quote", id |-> id]
  BY <1>1 DEF Live, NewIntent, Submit, handlers, RecordIds, OrderIds
<1>3. After(Len(records))' = After(Len(records)) /\ Position' = Position
  BY <1>2 DEF After, Position
<1>4. Based'
  <2>1. Alternate' /\ InHand' /\ Truth'
    BY <1>2, <1>3 DEF Orderly, Based, Alternate, InHand, Truth
  <2>2. Traced'
    <3>1. \A r \in RecordIds : records[r].at <= Len(intents')
      BY <1>1, RecordFields DEF Orderly, Based, Traced
    <3> QED
      BY <1>2, <3>1 DEF Orderly, Based, Traced
  <2>3. DecidedOrders'
    <3>1. \A o \in OrderIds : orders[o].at < id
      BY <1>1, OrderFields
    <3> QED
      BY <1>1, <1>2, <3>1 DEF Orderly, Based, DecidedOrders
  <2>4. DecidedRecords'
    <3>1. \A r \in RecordIds : records[r].at < id
      BY <1>1, RecordFields DEF Orderly, Based, Traced
    <3> QED
      BY <1>1, <1>2, <3>1 DEF Orderly, Based, DecidedRecords
  <2> QED
    BY <2>1, <2>2, <2>3, <2>4 DEF Based
<1>5. Directed'
  BY <1>1, <1>2, <1>3 DEF Directed, NewIntent
<1>6. Candidate' /\ Committing' /\ Committed'
  <2>1. snap'.fresh = FALSE
    BY DEF Submit, Typed, AccountTyped
  <2> QED
    BY <1>1, <1>2, <2>1 DEF Candidate, Committing, Committed, NewIntent
<1>7. Waiting'
  <2>1. dog.pc = "follow" => dog.id # id
    BY <1>1, Lengths DEF Typed, ActorsTyped, DogTyped
  <2> QED
    BY <1>1, <1>2, <2>1 DEF Waiting, Orderly
<1> QED
  BY <1>4, <1>5, <1>6, <1>7 DEF Orderly, Pending

\* What the strategy submits turns the position that the records show.
Turns(phase, side, open) ==
    /\ Submit(phase, side, 1, open)
    /\ phase = IF side = "buy" THEN "open" ELSE "close"
    /\ side = IF After(Len(records)) = 0 THEN "buy" ELSE "sell"

LEMMA SubmitTurns ==
    ASSUME Typed, Orderly, SubmitOpen \/ SubmitClose
    PROVE  /\ pending = 0
           /\ \E phase, side, open : Turns(phase, side, open)
<1>1. /\ Len(records) \in Nat /\ RecordIds = 1..Len(records)
      /\ CurrentOpen = IF After(Len(records)) = 1 THEN Len(records) ELSE 0
      /\ After(Len(records)) \in {0, 1} /\ pending = 0
  BY Lengths, OpenIsLast, AfterIsBit DEF Orderly, Based, SubmitOpen, SubmitClose, CanSubmit
<1>2. CASE SubmitOpen
  <2>1. Submit("open", "buy", 1, 0)
    BY <1>2 DEF SubmitOpen
  <2>2. After(Len(records)) = 0
    BY <1>1, <1>2 DEF SubmitOpen, After
  <2>3. Turns("open", "buy", 0)
    BY <2>1, <2>2 DEF Turns
  <2> QED
    BY <1>1, <2>3
<1>3. CASE SubmitClose
  <2>1. CurrentOpen # 0 /\ After(Len(records)) = 1 /\ CurrentOpen = Len(records)
    BY <1>1, <1>3 DEF SubmitClose
  <2>2. CurrentOpen \in RecordIds
    BY <1>1, <2>1
  <2>3. records[CurrentOpen].side = "buy" /\ records[CurrentOpen].qty = 1
    BY <2>1, <2>2, RecordFields DEF After, Orderly, Based, Alternate
  <2>4. Submit("close", "sell", 1, CurrentOpen)
    BY <1>3, <2>3 DEF SubmitClose, Opposite
  <2>5. Turns("close", "sell", CurrentOpen)
    BY <2>1, <2>4 DEF Turns
  <2> QED
    BY <1>1, <2>5
<1> QED
  BY <1>2, <1>3

LEMMA OpensKeepOrder ==
    ASSUME Typed, Typed', Orderly, SubmitOpen \/ SubmitClose
    PROVE  Orderly'
<1>1. PICK phase, side, open : Turns(phase, side, open)
  BY SubmitTurns
<1> QED
  BY <1>1, SubmitTurns, SubmitKeepsOrder DEF Turns

\* The last fill has brought the position to the other side of what is submitted, so the new
\* intent is not taken for that fill's.
LEMMA SubmitKeepsTimed ==
    ASSUME Typed, Typed', Owned, Timed, Orderly, pending = 0,
           NEW phase, NEW side, NEW open, Submit(phase, side, 1, open),
           side = IF After(Len(records)) = 0 THEN "buy" ELSE "sell"
    PROVE  Timed'
<1>1. PICK soon \in Soon(side) : intents' = Append(intents, NewIntent(phase, side, 1, open, soon))
  BY DEF Submit
<1>2. UNCHANGED <<orders, OrderIds, Position, Filled>>
  BY DEF Submit, OrderIds, Position, Filled
<1>3. soon = FALSE
  <2> SUFFICES ASSUME NEW o \in Filled, orders[o].at = Len(intents), orders[o].side = side
               PROVE  FALSE
    BY DEF Soon
  <2>1. /\ o \in OrderIds /\ Len(orders) \in OrderIds /\ OrderIds = 1..Len(orders)
        /\ Len(orders) \in Nat /\ IntentIds = 1..Len(intents) /\ Len(intents) \in Nat
    BY FilledIsOrder, Lengths
  <2>2. orders[Len(orders)].intent \in IntentIds
    BY <2>1 DEF Owned
  <2>3. o < Len(orders) => orders[o].at < orders[Len(orders)].intent
    BY <2>1 DEF Timed
  <2>4. o = Len(orders)
    BY <2>1, <2>2, <2>3
  <2>5. Position = IF orders[o].side = "buy" THEN 1 ELSE 0
    BY <2>4 DEF Timed
  <2>6. Position = After(Len(records))
    BY DEF Orderly, Based, Truth, Live
  <2> QED
    BY <2>5, <2>6, AfterIsBit
<1>4. Unhurried'
  <2>1. /\ intents'[Len(intents) + 1].soon = FALSE
        /\ IntentIds' = 1..(Len(intents) + 1) /\ IntentIds = 1..Len(intents)
        /\ Len(intents) \in Nat /\ \A i \in IntentIds : intents'[i] = intents[i]
    BY <1>1, <1>3, Lengths DEF NewIntent, Typed, IntentsTyped, IntentIds
  <2>2. \A i \in IntentIds' : i \in IntentIds \/ i = Len(intents) + 1
    BY <2>1
  <2> QED
    BY <2>1, <2>2 DEF Timed, Unhurried
<1> QED
  BY <1>2, <1>4 DEF Timed

LEMMA OpensKeepTimed ==
    ASSUME Typed, Typed', Owned, Timed, Orderly, SubmitOpen \/ SubmitClose
    PROVE  Timed'
<1>1. PICK phase, side, open : Turns(phase, side, open)
  BY SubmitTurns
<1> QED
  BY <1>1, SubmitTurns, SubmitKeepsTimed DEF Turns

\* Every fill is confirmed but, perhaps, that of the order in hand.
LEMMA AllDecided ==
    ASSUME Typed, Based
    PROVE  /\ \A r \in RecordIds : ~(Live /\ records[r].trade = Len(orders)) =>
                 /\ records[r].src \in {"event", "portfolio"}
                 /\ records[r].at <= Len(intents) /\ orders[records[r].trade].st = "filled"
           /\ \A o \in OrderIds : ~(Live /\ o = Len(orders)) =>
                 /\ orders[o].st # "sent"
                 /\ orders[o].st = "filled" => \E r \in RecordIds : records[r].trade = o
<1>1. ASSUME NEW r \in RecordIds, ~(Live /\ records[r].trade = Len(orders))
      PROVE  /\ records[r].src \in {"event", "portfolio"}
             /\ records[r].at <= Len(intents) /\ orders[records[r].trade].st = "filled"
  <2>1. records[r].src # "http" /\ records[r].src # "unconfirmed"
    BY <1>1 DEF Based, DecidedRecords, Alternate
  <2> QED
    BY <1>1, <2>1, RecordFields DEF Based, Traced
<1> QED
  BY <1>1 DEF Based, DecidedOrders

LEMMA NotCommitted ==
    ASSUME Typed, Orderly, auto.pc \in {"quote", "prepared"}
    PROVE  ~Live /\ pending \in {0, auto.id}
<1>1. ASSUME Live PROVE FALSE
  <2>1. pending # 0 /\ pending \in IntentIds
    BY <1>1, Lengths DEF Live
  <2>2. intents[pending].st \in {"COMMITTING", "COMMITTED", "AMBIGUOUS"}
    BY <1>1, <2>1, IntentFields DEF Live
  <2>3. Committing /\ Committed
    BY <2>1 DEF Orderly, Pending
  <2> QED
    BY <2>2, <2>3 DEF Committing, Committed
<1> QED
  BY <1>1 DEF Orderly, Waiting

LEMMA UncommittedEnds ==
    ASSUME Typed, Typed', Orderly, AutoQuoteFails \/ AutoCommitRefused
    PROVE  Orderly'
<1>1. /\ auto.pc \in {"quote", "prepared"} /\ pending' = ClearSame(auto.id)
      /\ auto' = [pc |-> "idle", id |-> 0] /\ UNCHANGED <<intents, records, orders, dog>>
  BY DEF AutoQuoteFails, AutoCommitRefused, handlers
<1>2. ~Live /\ pending' = 0
  BY <1>1, NotCommitted DEF ClearSame
<1>3. SameTrades /\ Len(intents) <= Len(intents')
  BY <1>1, Lengths DEF SameTrades
<1>4. dog'.pc = "follow" => dog'.id # 0
  BY <1>1 DEF Orderly, Waiting
<1> QED
  BY <1>1, <1>2, <1>3, <1>4, AllDecided, Settles DEF Orderly

\* The strategy waits for its own Commit's answer.
LEMMA AwaitsAnswer ==
    ASSUME Typed, Orderly, auto.pc = "commit"
    PROVE  /\ pending = auto.id /\ pending # 0 /\ Live /\ intents[pending].st = "COMMITTING"
           /\ Committing /\ Directed
<1>1. pending = auto.id /\ Live /\ pending \in IntentIds /\ pending # 0
  BY Lengths DEF Orderly, Waiting, Live
<1>2. Committing /\ Committed /\ Directed
  BY <1>1 DEF Orderly, Pending
<1>3. intents[pending].st \in {"COMMITTING", "COMMITTED", "AMBIGUOUS"}
  BY <1>1, IntentFields DEF Live
<1> QED
  BY <1>1, <1>2, <1>3 DEF Committed

LEMMA FailureEnds ==
    ASSUME Typed, Typed', Owned, Orderly, AutoFailed
    PROVE  Orderly'
<1>1. /\ auto.pc = "commit" /\ pending' = ClearSame(auto.id)
      /\ auto' = [pc |-> "idle", id |-> 0] /\ UNCHANGED <<intents, records, orders, dog>>
  BY DEF AutoFailed, AutoEnds, handlers
<1>2. /\ pending = auto.id /\ pending # 0 /\ Live /\ pending' = 0
      /\ Committing /\ intents[pending].st = "COMMITTING"
  BY <1>1, AwaitsAnswer DEF ClearSame
<1>3. OrderOf(auto.id) = Len(orders) /\ LastOrder.st = "refused"
  BY <1>2, HandHas DEF AutoFailed, LastOrder
<1>4. ~Recorded
  <2>1. Recorded => /\ LastRecord.src # "http" /\ Len(records) \in RecordIds
                    /\ LastRecord.trade = Len(orders)
    BY <1>2, HandHas DEF Committing
  <2> QED
    BY <1>3, <2>1 DEF Orderly, Based, Traced, LastRecord, LastOrder
<1>5. \A r \in RecordIds : records[r].trade # Len(orders)
  BY <1>4 DEF Recorded
<1>6. \A o \in OrderIds : /\ orders[o].st # "sent"
                          /\ orders[o].st = "filled" => \E r \in RecordIds : records[r].trade = o
  BY <1>3, AllDecided DEF Orderly, LastOrder
<1>7. SameTrades /\ Len(intents) <= Len(intents')
  BY <1>1, Lengths DEF SameTrades
<1>8. dog'.pc = "follow" => dog'.id # 0
  BY <1>1 DEF Orderly, Waiting
<1> QED
  BY <1>1, <1>2, <1>5, <1>6, <1>7, <1>8, AllDecided, Settles DEF Orderly

LEMMA PrepareKeepsOrder ==
    ASSUME Typed, Typed', Orderly, AutoPrepare
    PROVE  Orderly'
<1>1. /\ auto.pc = "quote" /\ pending = auto.id /\ intents[pending].st = "QUOTING"
      /\ intents' = [intents EXCEPT ![pending].st = "PREPARED"]
      /\ auto' = [auto EXCEPT !.pc = "prepared"]
      /\ UNCHANGED <<pending, records, orders, dog, snap>>
  BY DEF AutoPrepare, MayPrepare, Prepare, handlers
<1>2. pending \in IntentIds /\ pending # 0 /\ auto'.pc = "prepared" /\ auto'.id = auto.id
  BY <1>1, AutoHas DEF Typed, ActorsTyped, AutoTyped
<1>3. /\ intents'[pending] = [intents[pending] EXCEPT !.st = "PREPARED"]
      /\ intents[pending] \in Intent /\ Len(intents') = Len(intents)
  BY <1>1, <1>2, IntentHas DEF IntentIds, Typed, IntentsTyped
<1>4. /\ intents'[pending].st = "PREPARED" /\ intents'[pending].side = intents[pending].side
      /\ intents'[pending].qty = intents[pending].qty
      /\ intents'[pending].phase = intents[pending].phase
      /\ intents'[pending].accepted = intents[pending].accepted
      /\ intents'[pending].prov = intents[pending].prov
      /\ intents'[pending].rfq = intents[pending].rfq
      /\ intents'[pending].confirmed = intents[pending].confirmed
  BY <1>3 DEF Intent
<1>5. ~Live /\ Live' = Live
  BY <1>1, <1>4 DEF Live
<1>6. RecordsSame /\ Len(intents) <= Len(intents')
  BY <1>1, <1>3, Lengths DEF RecordsSame, SameTrades
<1>7. Based' /\ Recorded' = Recorded
  BY <1>1, <1>4, <1>5, <1>6, BaseStays DEF Orderly
<1>8. Directed'
  BY <1>1, <1>2, <1>4, <1>5, <1>6, <1>7, DirectedStays DEF Orderly, Pending
<1>9. Candidate' /\ Committing' /\ Committed'
  BY <1>1, <1>2, <1>4 DEF Orderly, Pending, Candidate, Committing, Committed, Position
<1>10. Waiting'
  BY <1>1, <1>2 DEF Orderly, Waiting
<1> QED
  BY <1>7, <1>8, <1>9, <1>10 DEF Orderly, Pending

\* A confirmed fill is there before the answer: the answer goes to its record.
LEMMA MergeEnds ==
    ASSUME Typed, Typed', Owned, Orderly, AutoAcceptedMerge
    PROVE  Orderly'
<1> DEFINE last == Len(records)
<1>1. /\ auto.pc = "commit" /\ auto' = [pc |-> "idle", id |-> 0] /\ UNCHANGED <<orders, dog>>
      /\ Candidates(auto.id) # {}
  BY DEF AutoAcceptedMerge, AutoEnds, handlers
<1>2. /\ pending = auto.id /\ pending # 0 /\ Live /\ intents[pending].st = "COMMITTING"
      /\ Committing
  BY <1>1, AwaitsAnswer
<1>3. /\ Len(orders) \in OrderIds /\ OrderOf(pending) = Len(orders) /\ Named(pending)
      /\ LastOrder.intent = pending
  BY <1>2, HandHas DEF Orderly, Based, InHand
<1>4. Recorded
  <2> SUFFICES ASSUME ~Recorded PROVE FALSE
    OBVIOUS
  <2>1. Candidates(auto.id) = {r \in RecordIds : LooksLike(r, auto.id)}
    BY <1>2 DEF Candidates, Committing
  <2>2. PICK r \in RecordIds : LooksLike(r, auto.id)
    BY <1>1, <2>1
  <2>3. records[r].trade \in OrderIds /\ records[r].quote = orders[records[r].trade].intent
    BY DEF Orderly, Based, Traced
  <2>4. orders[records[r].trade].intent = pending
    BY <1>2, <2>2, <2>3, Lengths DEF LooksLike, Owned
  <2>5. records[r].trade = Len(orders)
    BY <1>3, <2>3, <2>4 DEF Owned, LastOrder
  <2> QED
    BY <2>5 DEF Recorded
<1>5. /\ last \in RecordIds /\ records[last].trade = Len(orders) /\ records[last].src # "http"
      /\ intents[pending].confirmed = last
  BY <1>2, <1>4, HandHas DEF Committing, LastRecord
<1>6. Candidates(auto.id) = {last}
  BY <1>2, <1>5, Lengths DEF Candidates
<1>7. Max(Candidates(auto.id)) = last
  BY <1>5, <1>6, LatestIsOne
<1>8. records[last].quote = auto.id
  BY <1>2, <1>3, <1>5 DEF Orderly, Based, Traced, LastOrder
<1>9. pending' = 0 /\ SameTrades /\ RecordsSame
  <2>1. PICK hedge : records' = [records EXCEPT ![last].quote = auto.id, ![last].hedge = hedge]
    BY <1>7 DEF AutoAcceptedMerge
  <2>2. Len(records') = Len(records) /\ records[last] \in Record
    BY <1>5, <2>1, RecordHas DEF RecordIds, Typed, RecordsTyped
  <2>3. \A r \in RecordIds : r # last => records'[r] = records[r]
    BY <2>1 DEF RecordIds
  <2>4. records'[last] = [records[last] EXCEPT !.quote = auto.id, !.hedge = hedge]
    BY <1>5, <2>1 DEF RecordIds
  <2>5. /\ records'[last].side = records[last].side /\ records'[last].qty = records[last].qty
        /\ records'[last].trade = records[last].trade
        /\ records'[last].quote = records[last].quote
        /\ records'[last].src = records[last].src /\ records'[last].at = records[last].at
    BY <1>8, <2>2, <2>4 DEF Record
  <2>6. pending' = 0
    BY <1>2, <1>7 DEF AutoAcceptedMerge
  <2> QED
    BY <2>2, <2>3, <2>5, <2>6 DEF SameTrades, RecordsSame
<1>10. Len(intents) <= Len(intents')
  <2>1. RfqNoted
    BY DEF AutoAcceptedMerge
  <2> QED
    BY <2>1, RfqGrows DEF IntentsGrow
<1>11. /\ records[last].src \in {"event", "portfolio"} /\ records[last].at <= Len(intents)
       /\ LastOrder.st = "filled"
  BY <1>5, RecordFields DEF Orderly, Based, Traced, Alternate, LastOrder
<1>12. /\ \A r \in RecordIds :
              /\ records[r].src \in {"event", "portfolio"} /\ records[r].at <= Len(intents)
              /\ orders[records[r].trade].st = "filled"
       /\ \A o \in OrderIds :
              /\ orders[o].st # "sent"
              /\ orders[o].st = "filled" => \E r \in RecordIds : records[r].trade = o
  <2>1. \A r \in RecordIds : records[r].trade = Len(orders) => r = last
    BY <1>2, HandHas
  <2> QED
    BY <1>5, <1>11, <2>1, AllDecided DEF Orderly, LastOrder
<1>13. \A r \in RecordIds : records[r].at \in Nat
  BY RecordFields
<1>14. \A r \in RecordIds : records'[r].src \in {"event", "portfolio"}
                            /\ records'[r].at <= Len(intents')
  BY <1>9, <1>10, <1>12, <1>13, Lengths, LengthsNext DEF RecordsSame
<1>15. dog'.pc = "follow" => dog'.id # 0
  BY <1>1 DEF Orderly, Waiting
<1>16. auto'.pc # "commit"
  BY <1>1
<1> QED
  BY <1>1, <1>9, <1>10, <1>12, <1>14, <1>15, <1>16, Settles DEF Orderly

\* A record is made for the order in hand.
LEMMA BaseGrows ==
    ASSUME Typed, Typed', Based, Live, Live', ~Recorded, Directed,
           UNCHANGED <<orders, pending>>, Len(intents') = Len(intents),
           /\ intents'[pending].side = intents[pending].side
           /\ intents'[pending].qty = intents[pending].qty
           /\ intents'[pending].phase = intents[pending].phase,
           NEW w, records' = Append(records, w),
           /\ w.side = intents[pending].side /\ w.qty = 1 /\ w.trade = Len(orders)
           /\ w.quote = pending /\ w.at = 0 /\ w.src \in {"http", "event"}
           /\ w.src = "event" => LastOrder.st = "filled"
    PROVE  /\ Based' /\ Directed' /\ Recorded'
           /\ LastRecord' = w /\ Len(records') = Len(records) + 1
<1> DEFINE n == Len(records)
<1>1. /\ n \in Nat /\ RecordIds = 1..n /\ RecordIds' = 1..(n + 1) /\ Len(records') = n + 1
      /\ records'[n + 1] = w /\ \A r \in RecordIds : records'[r] = records[r]
      /\ n + 1 \in RecordIds' /\ RecordIds \subseteq RecordIds'
  <2>1. records' \in Seq(Record) /\ records \in Seq(Record)
    BY DEF Typed, RecordsTyped
  <2>2. Len(records') = n + 1 /\ records'[n + 1] = w
        /\ \A r \in RecordIds : records'[r] = records[r]
    BY <2>1 DEF RecordIds
  <2> QED
    BY <2>2, Lengths, LengthsNext
<1>2. /\ OrderIds' = OrderIds /\ OrderIds = 1..Len(orders) /\ Len(orders) \in OrderIds
      /\ LastOrder' = LastOrder /\ LastOrder.intent = pending /\ Position' = Position
  BY Lengths DEF Based, InHand, OrderIds, LastOrder, Position
<1>3. \A r \in RecordIds : records[r].trade # Len(orders)
  BY DEF Recorded
<1>4. Recorded' /\ LastRecord' = w
  BY <1>1 DEF Recorded, LastRecord
<1>5. w.side = IF After(n) = 0 THEN "buy" ELSE "sell"
  BY DEF Directed
<1>6. /\ After(Len(records))' = 1 - After(n) /\ After(Len(records) - 1)' = After(n)
      /\ After(n) \in {0, 1}
  <2>1. n = 0 \/ n \in RecordIds
    BY <1>1
  <2>2. After(Len(records) - 1)' = After(n)
    BY <1>1, <2>1 DEF After
  <2>3. After(Len(records))' = IF w.side = "sell" THEN 0 ELSE 1
    BY <1>1 DEF After
  <2> QED
    BY <1>5, <2>2, <2>3, AfterIsBit
<1>7. Alternate'
  <2> SUFFICES ASSUME NEW r \in RecordIds'
               PROVE  /\ records'[r].qty = 1 /\ records'[r].src # "unconfirmed"
                      /\ r = 1 => records'[r].side = "buy"
                      /\ r # 1 => records'[r].side = Opposite(records'[r - 1].side)
    BY DEF Alternate, Opposite
  <2>1. r \in RecordIds \/ r = n + 1
    BY <1>1
  <2>2. CASE r \in RecordIds
    <3>1. r # 1 => r - 1 \in RecordIds
      BY <1>1, <2>2
    <3> QED
      BY <1>1, <2>2, <3>1 DEF Based, Alternate
  <2>3. CASE r = n + 1
    <3>1. r # 1 => n \in RecordIds /\ records'[r - 1] = records[n]
      BY <1>1, <2>3
    <3>2. r # 1 => records[n].side \in {"buy", "sell"}
      BY <3>1, RecordFields
    <3>3. r = 1 => After(n) = 0
      BY <1>1, <2>3 DEF After
    <3>4. r # 1 => After(n) = IF records[n].side = "sell" THEN 0 ELSE 1
      BY <1>1, <2>3 DEF After
    <3> QED
      BY <1>1, <1>5, <2>3, <3>1, <3>2, <3>3, <3>4 DEF Opposite
  <2> QED
    BY <2>1, <2>2, <2>3
<1>8. Traced'
  <2> SUFFICES ASSUME NEW r \in RecordIds'
               PROVE  /\ records'[r].trade \in OrderIds
                      /\ records'[r].quote = orders[records'[r].trade].intent
                      /\ records'[r].at <= Len(intents)
                      /\ \A q \in RecordIds' : records'[q].trade = records'[r].trade => q = r
                      /\ records'[r].src # "http" => orders[records'[r].trade].st = "filled"
    BY <1>2 DEF Traced
  <2>1. r \in RecordIds \/ r = n + 1
    BY <1>1
  <2>2. \A q \in RecordIds' : q \in RecordIds \/ q = n + 1
    BY <1>1
  <2>3. CASE r \in RecordIds
    BY <1>1, <1>3, <2>2, <2>3 DEF Based, Traced
  <2>4. CASE r = n + 1
    <3>1. 0 <= Len(intents)
      BY Lengths
    <3> QED
      BY <1>1, <1>2, <1>3, <2>2, <2>4, <3>1 DEF LastOrder
  <2> QED
    BY <2>1, <2>3, <2>4
<1>9. DecidedOrders'
  BY <1>1, <1>2 DEF Based, DecidedOrders
<1>10. DecidedRecords'
  <2>1. \A r \in RecordIds' : r \in RecordIds \/ records'[r].trade = Len(orders)
    BY <1>1
  <2> QED
    BY <1>1, <2>1 DEF Based, DecidedRecords
<1>11. InHand'
  BY <1>1, <1>2, <1>4, LengthsNext DEF Based, InHand
<1>12. Truth'
  BY <1>1, <1>2, <1>4, <1>6 DEF Based, Truth
<1>13. Directed'
  BY <1>4 DEF Directed
<1> QED
  BY <1>1, <1>4, <1>7, <1>8, <1>9, <1>10, <1>11, <1>12, <1>13 DEF Based

\* No fill is known at the answer: its provisional record stands for the order.
LEMMA ProvisionalKeepsOrder ==
    ASSUME Typed, Typed', Owned, Orderly, AutoAcceptedProvisional
    PROVE  Orderly'
<1> DEFINE w == records'[Len(records) + 1]
<1>1. /\ auto.pc = "commit" /\ auto' = [pc |-> "idle", id |-> 0]
      /\ UNCHANGED <<orders, dog, pending>>
      /\ Candidates(auto.id) = {} /\ snap' = [snap EXCEPT !.fresh = FALSE]
  BY DEF AutoAcceptedProvisional, AutoEnds, handlers
<1>2. /\ pending = auto.id /\ pending # 0 /\ Live /\ Committing /\ Directed
      /\ intents[pending].st = "COMMITTING" /\ pending \in IntentIds
  BY <1>1, AwaitsAnswer, Lengths
<1>3. /\ Len(orders) \in OrderIds /\ OrderOf(pending) = Len(orders) /\ Named(pending)
      /\ Recorded => Len(records) \in RecordIds
  BY <1>2, HandHas
<1>4. ~Recorded
  <2>1. intents[pending].confirmed = 0
    BY <1>1, <1>2 DEF Candidates
  <2> QED
    BY <1>2, <1>3, <2>1, Lengths DEF Committing
<1>5. PICK x : /\ records' = Append(records, x)
               /\ x.side = intents[pending].side /\ x.qty = intents[pending].qty
               /\ x.trade = Len(orders) /\ x.quote = pending /\ x.at = 0 /\ x.src = "http"
  BY <1>2, <1>3 DEF AutoAcceptedProvisional
<1>6. /\ Len(intents') = Len(intents)
      /\ intents'[pending].side = intents[pending].side
      /\ intents'[pending].qty = intents[pending].qty
      /\ intents'[pending].phase = intents[pending].phase
      /\ intents'[pending].st = "COMMITTED" /\ intents'[pending].accepted
      /\ intents'[pending].rfq = pending /\ intents'[pending].prov = Len(records) + 1
  <2>1. intents[pending] \in Intent /\ intents \in Seq(Intent)
    BY <1>2, IntentHas DEF Typed, IntentsTyped
  <2>2. intents' = [intents EXCEPT ![pending] = [@ EXCEPT !.st = "COMMITTED",
                     !.accepted = TRUE, !.rfq = pending, !.prov = Len(records) + 1]]
    BY <1>2, <1>3 DEF AutoAcceptedProvisional, Rfq
  <2>3. Len(intents') = Len(intents)
        /\ intents'[pending] = [intents[pending] EXCEPT !.st = "COMMITTED",
                     !.accepted = TRUE, !.rfq = pending, !.prov = Len(records) + 1]
    BY <1>2, <2>1, <2>2 DEF IntentIds
  <2> QED
    BY <2>1, <2>3 DEF Intent
<1>7. Live'
  BY <1>1, <1>2, <1>6 DEF Live
<1>8. x.qty = 1
  BY <1>2, <1>5 DEF Directed
<1>9. /\ Based' /\ Directed' /\ Recorded' /\ LastRecord' = x
      /\ Len(records') = Len(records) + 1
  BY <1>1, <1>2, <1>4, <1>5, <1>6, <1>7, <1>8, BaseGrows DEF Orderly
<1>10. Candidate' /\ Committing'
  BY <1>1, <1>6 DEF Candidate, Committing
<1>11. Committed'
  <2>1. snap'.fresh = FALSE /\ auto'.pc = "idle"
    BY <1>1 DEF Typed, AccountTyped
  <2> QED
    BY <1>1, <1>5, <1>6, <1>9, <2>1 DEF Committed
<1>12. Waiting'
  BY <1>1 DEF Orderly, Waiting
<1> QED
  BY <1>9, <1>10, <1>11, <1>12 DEF Orderly, Pending

\* A Commit leaves: its order is the one in hand.
LEMMA CommitKeepsOrder ==
    ASSUME Typed, Typed', Orderly, AutoCommit
    PROVE  Orderly'
<1> DEFINE n == Len(orders)
<1>1. /\ auto.pc = "prepared" /\ pending = auto.id /\ intents[pending].st = "PREPARED"
      /\ auto' = [auto EXCEPT !.pc = "commit"]
      /\ UNCHANGED <<pending, records, dog, snap, RecordIds>>
      /\ intents' = [intents EXCEPT ![pending].st = "COMMITTING"]
  BY DEF AutoCommit, MayCommit, Dispatch, handlers, RecordIds
<1>2. /\ pending \in IntentIds /\ pending # 0 /\ auto'.pc = "commit" /\ auto'.id = pending
      /\ ~Live
  BY <1>1, AutoHas, NotCommitted DEF Typed, ActorsTyped, AutoTyped
<1>3. PICK x : /\ orders' = Append(orders, x) /\ x.intent = pending /\ x.qty = intents[pending].qty
               /\ x.side = intents[pending].side /\ x.st = "sent" /\ x.at = 0
  BY <1>1 DEF AutoCommit, Dispatch
<1>4. /\ intents'[pending].st = "COMMITTING" /\ intents'[pending].side = intents[pending].side
      /\ intents'[pending].qty = intents[pending].qty
      /\ intents'[pending].phase = intents[pending].phase
      /\ intents'[pending].accepted = intents[pending].accepted
      /\ intents'[pending].prov = intents[pending].prov
      /\ intents'[pending].rfq = intents[pending].rfq
      /\ intents'[pending].confirmed = intents[pending].confirmed
      /\ Len(intents') = Len(intents)
  <2>1. intents[pending] \in Intent /\ intents \in Seq(Intent)
    BY <1>2, IntentHas DEF Typed, IntentsTyped
  <2>2. intents'[pending] = [intents[pending] EXCEPT !.st = "COMMITTING"]
        /\ Len(intents') = Len(intents)
    BY <1>1, <1>2, <2>1 DEF IntentIds
  <2> QED
    BY <2>1, <2>2 DEF Intent
<1>5. /\ n \in Nat /\ OrderIds = 1..n /\ OrderIds' = 1..(n + 1) /\ Len(orders') = n + 1
      /\ orders'[n + 1] = x /\ \A o \in OrderIds : orders'[o] = orders[o]
      /\ n + 1 \in OrderIds' /\ OrderIds \subseteq OrderIds'
  <2>1. orders' \in Seq(Order) /\ orders \in Seq(Order)
    BY DEF Typed, OrdersTyped
  <2>2. Len(orders') = n + 1 /\ orders'[n + 1] = x
        /\ \A o \in OrderIds : orders'[o] = orders[o]
    BY <1>3, <2>1 DEF OrderIds
  <2> QED
    BY <2>2, Lengths, LengthsNext
<1>6. Live' /\ LastOrder' = x
  BY <1>1, <1>2, <1>4, <1>5 DEF Live, LastOrder
<1>7. ~Recorded'
  <2>1. \A r \in RecordIds : records[r].trade \in OrderIds
    BY DEF Orderly, Based, Traced
  <2> QED
    BY <1>1, <1>5, <2>1 DEF Recorded
<1>8. Position' = Position
  <2>1. x \in Order
    BY <1>5, LengthsNext DEF Typed, OrdersTyped
  <2>2. orders \in Seq(Order) /\ Quantified(orders) /\ x.qty \in Nat /\ Position \in Int
    BY <2>1, PositionTyped DEF Typed, OrdersTyped, Order
  <2>3. PositionAfter(orders') = PositionAfter(orders) + Effect(x)
    BY <1>3, <2>1, <2>2, PositionOfAppend
  <2>4. Effect(x) = 0
    BY <1>3 DEF Effect
  <2> QED
    BY <2>2, <2>3, <2>4 DEF Position
<1>9. After(Len(records))' = After(Len(records))
  BY <1>1 DEF After
<1>10. Directed /\ Candidate
  BY <1>2 DEF Orderly, Pending
<1>11. Based'
  <2>1. Alternate'
    BY <1>1 DEF Orderly, Based, Alternate
  <2>2. Traced'
    BY <1>1, <1>4, <1>5 DEF Orderly, Based, Traced
  <2>3. DecidedOrders'
    <3>1. \A o \in OrderIds' : o # n + 1 => o \in OrderIds
      BY <1>5
    <3> QED
      BY <1>1, <1>2, <1>5, <1>6, <3>1 DEF Orderly, Based, DecidedOrders
  <2>4. DecidedRecords'
    BY <1>1, <1>2 DEF Orderly, Based, DecidedRecords
  <2>5. InHand'
    BY <1>1, <1>3, <1>4, <1>5, <1>6, <1>7, <1>10, LengthsNext DEF InHand, Directed
  <2>6. Truth'
    BY <1>2, <1>3, <1>6, <1>7, <1>8, <1>9 DEF Orderly, Based, Truth
  <2> QED
    BY <2>1, <2>2, <2>3, <2>4, <2>5, <2>6 DEF Based
<1>12. Directed'
  BY <1>1, <1>2, <1>4, <1>7, <1>9, <1>10 DEF Directed
<1>13. Candidate' /\ Committing' /\ Committed'
  BY <1>1, <1>2, <1>4, <1>7, <1>10 DEF Candidate, Committing, Committed
<1>14. Waiting'
  BY <1>1, <1>2, <1>6 DEF Orderly, Waiting
<1> QED
  BY <1>11, <1>12, <1>13, <1>14 DEF Orderly, Pending

\* The strategy keeps the order, unless it pauses the automation for good.
LEMMA StrategyKeepsOrder ==
    ASSUME Typed, Typed', Owned, Orderly, Strategy
    PROVE  Orderly' \/ paused' = "automation"
<1>1. CASE SubmitOpen \/ SubmitClose
  BY <1>1, OpensKeepOrder
<1>2. CASE StalledOpen
  <2>1. RecordsSame
    BY <1>2 DEF StalledOpen, RecordsSame, SameTrades
  <2> QED
    BY <1>2, <2>1, OrderlyStays DEF StalledOpen, loops, handlers, Orderly, Waiting
<1>3. CASE AutoQuoteFails \/ AutoCommitRefused
  BY <1>3, UncommittedEnds
<1>4. CASE AutoPrepare
  BY <1>4, PrepareKeepsOrder
<1>5. CASE AutoCommit
  BY <1>5, CommitKeepsOrder
<1>6. CASE AutoAcceptedMismatch \/ AutoAmbiguous
  BY <1>6 DEF AutoAcceptedMismatch, AutoAmbiguous
<1>7. CASE AutoAcceptedMerge
  BY <1>7, MergeEnds
<1>8. CASE AutoAcceptedProvisional
  BY <1>8, ProvisionalKeepsOrder
<1>9. CASE AutoAcceptedOrphan
  BY <1>9, AwaitsAnswer DEF AutoAcceptedOrphan
<1>10. CASE AutoFailed
  BY <1>10, FailureEnds
<1> QED
  BY <1>1, <1>2, <1>3, <1>4, <1>5, <1>6, <1>7, <1>8, <1>9, <1>10 DEF Strategy

-----------------------------------------------------------------------------
(* Fills *)

\* What a record becomes with the intent's metadata, and with a fill.
LEMMA MetaFields ==
    ASSUME NEW rec \in Record, NEW id, NEW e
    PROVE  /\ DOMAIN WithIntent(rec, id, e) = DOMAIN rec
           /\ WithIntent(rec, id, e).quote = IF rec.quote = 0 THEN id ELSE rec.quote
           /\ WithIntent(rec, id, e).side = rec.side /\ WithIntent(rec, id, e).qty = rec.qty
           /\ WithIntent(rec, id, e).trade = rec.trade /\ WithIntent(rec, id, e).at = rec.at
           /\ WithIntent(rec, id, e).src = rec.src
BY DEF WithIntent, Record

\* A fill that is new to record r, or that makes it.
LEMMA FillFields ==
    ASSUME Typed, NEW e \in Event, NEW r \in 1..(Len(records) + 1), NEW old \in Record,
           old = IF r > Len(records) THEN FreshRecord(e) ELSE records[r],
           r > Len(records) \/ old.src = "http"
    PROVE  LET fill == Filling(e, r)
           IN  /\ fill[2] /\ fill[1].side = e.side /\ fill[1].qty = e.qty
               /\ fill[1].trade = (IF e.trade = 0 THEN old.trade ELSE e.trade)
               /\ fill[1].quote = (IF Bound(e) # 0 /\ old.quote = 0 THEN Bound(e) ELSE old.quote)
               /\ fill[1].src = (IF e.recovered THEN "portfolio" ELSE "event")
               /\ fill[1].at = (IF e.recovered THEN e.at ELSE 0)
<1> DEFINE meta == IF Bound(e) # 0 THEN WithIntent(old, Bound(e), e) ELSE old
           full == [meta EXCEPT !.src = IF e.recovered THEN "portfolio" ELSE "event",
                      !.at = IF e.recovered THEN e.at ELSE 0, !.side = e.side, !.qty = e.qty,
                      !.trade = IF e.trade = 0 THEN @ ELSE e.trade,
                      !.reduce = @ \/ MatchedOpen(e) # 0]
<1>1. Filling(e, r) = <<full, TRUE>>
  BY DEF Filling
<1>2. /\ DOMAIN meta = DOMAIN old /\ meta.trade = old.trade
      /\ meta.quote = IF Bound(e) # 0 /\ old.quote = 0 THEN Bound(e) ELSE old.quote
  BY MetaFields
<1>3. {"src", "at", "side", "qty", "trade", "reduce", "quote"} \subseteq DOMAIN meta
  BY <1>2 DEF Record
<1> HIDE DEF meta
<1>4. /\ full.side = e.side /\ full.qty = e.qty
      /\ full.trade = (IF e.trade = 0 THEN meta.trade ELSE e.trade)
      /\ full.quote = meta.quote
      /\ full.src = (IF e.recovered THEN "portfolio" ELSE "event")
      /\ full.at = (IF e.recovered THEN e.at ELSE 0)
  BY <1>3
<1> HIDE DEF full
<1>5. Filling(e, r)[1] = full /\ Filling(e, r)[2]
  BY <1>1
<1> QED
  BY <1>2, <1>4, <1>5

\* The order in hand fills when its Commit is accepted: the provisional record is
\* confirmed, and the intent is done.
LEMMA ConfirmationEnds ==
    ASSUME Typed, Typed', Owned, Orderly, NEW e \in Event, Process(e), UNCHANGED <<orders, auto>>,
           dog'.pc = "follow" => dog'.id # 0,
           Live, intents[pending].st \in {"COMMITTED", "AMBIGUOUS"}, LastOrder.st = "filled",
           e.trade = Len(orders), e.side = intents[pending].side, e.qty = 1,
           e.at <= Len(intents)
    PROVE  Orderly'
<1> DEFINE n == Len(records)
<1>1. /\ pending # 0 /\ pending \in IntentIds /\ Committed /\ Directed
  BY Lengths DEF Live, Orderly, Pending
<1>2. /\ Recorded /\ n \in RecordIds /\ records[n].trade = Len(orders)
      /\ records[n].src = "http" /\ auto.pc = "idle"
      /\ records[n].side = e.side /\ records[n].quote = pending
  BY <1>1, HandHas DEF Committed, Directed, LastRecord, Orderly, Based, Traced, InHand, LastOrder
<1>3. \A r \in RecordIds : records[r].trade = Len(orders) => r = n
  BY HandHas
<1>4. ByTrade(e) = {n}
  BY <1>2, <1>3, HandHas, Lengths DEF ByTrade
<1>5. RecordFor(e) = n
  BY <1>2, <1>4, LatestIsOne DEF RecordFor
<1>6. /\ Left(e) = pending /\ Bound(e) \in {0, pending} /\ ~WaitsForCommit(Bound(e))
      /\ Len(records) \in Nat /\ ~(n > Len(records))
  BY <1>1, Lengths DEF Left, IsPrecommit, Bound, WaitsForCommit
<1> DEFINE fill == Filling(e, n)
<1>7. /\ fill[2] /\ fill[1] \in Record
      /\ fill[1].side = e.side /\ fill[1].qty = 1 /\ fill[1].trade = Len(orders)
      /\ fill[1].quote = pending /\ fill[1].src \in {"event", "portfolio"}
      /\ fill[1].at <= Len(intents)
  <2>1. records[n] \in Record /\ n \in 1..(Len(records) + 1)
    BY <1>2, <1>6, RecordHas, Lengths
  <2>2. fill[1] \in Record
    BY <2>1, FillingTyped
  <2>3. /\ fill[2] /\ fill[1].side = e.side /\ fill[1].qty = e.qty
        /\ fill[1].trade = (IF e.trade = 0 THEN records[n].trade ELSE e.trade)
        /\ fill[1].quote = (IF Bound(e) # 0 /\ records[n].quote = 0 THEN Bound(e)
                            ELSE records[n].quote)
        /\ fill[1].src = (IF e.recovered THEN "portfolio" ELSE "event")
        /\ fill[1].at = (IF e.recovered THEN e.at ELSE 0)
    BY <1>2, <1>6, <2>1, FillFields
  <2>4. Len(orders) # 0 /\ 0 <= Len(intents)
    BY HandHas, Lengths
  <2> QED
    BY <1>1, <1>2, <2>2, <2>3, <2>4
<1>8. /\ records' = [records EXCEPT ![n] = fill[1]] /\ intents' = intents /\ pending' = 0
  BY <1>5, <1>6, <1>7 DEF Process
<1>9. Len(records') = n /\ records'[n] = fill[1]
      /\ \A r \in RecordIds : r # n => records'[r] = records[r]
  BY <1>2, <1>8 DEF RecordIds, Typed, RecordsTyped
<1>10. SameTrades
  BY <1>2, <1>7, <1>9 DEF SameTrades, Orderly, Based, Alternate
<1>11. \A r \in RecordIds :
              /\ records'[r].src \in {"event", "portfolio"} /\ records'[r].at <= Len(intents')
              /\ orders[records[r].trade].st = "filled"
  BY <1>2, <1>3, <1>7, <1>8, <1>9, AllDecided DEF Orderly, LastOrder
<1>12. \A o \in OrderIds :
              /\ orders[o].st # "sent"
              /\ orders[o].st = "filled" => \E r \in RecordIds : records[r].trade = o
  BY <1>2, AllDecided DEF Orderly, LastOrder
<1>13. Len(intents) <= Len(intents') /\ auto'.pc # "commit"
  BY <1>2, <1>8, Lengths
<1> QED
  BY <1>8, <1>10, <1>11, <1>12, <1>13, Settles DEF Orderly

\* A fill that has no record is that of the order in hand, before its answer.
LEMMA FillInHand ==
    ASSUME Typed, Owned, Orderly, NEW o \in Filled, \A r \in RecordIds : records[r].trade # o
    PROVE  /\ o = Len(orders) /\ Live /\ ~Recorded /\ pending # 0 /\ pending \in IntentIds
           /\ Committing /\ Directed /\ intents[pending].st = "COMMITTING"
           /\ Matches(pending, FillOf(o)) /\ Left(FillOf(o)) = pending
           /\ Bound(FillOf(o)) = pending /\ WaitsForCommit(pending)
           /\ FillOf(o).trade = o /\ FillOf(o).side = intents[pending].side
           /\ FillOf(o).qty = 1 /\ ~FillOf(o).recovered /\ LastOrder.st = "filled"
<1> DEFINE e == FillOf(o)
<1>1. o \in OrderIds /\ orders[o].st = "filled"
  BY DEF Filled
<1>2. o = Len(orders) /\ Live
  BY <1>1, AllDecided DEF Orderly
<1>3. ~Recorded /\ pending # 0 /\ pending \in IntentIds
  BY <1>2, Lengths DEF Recorded, Live
<1>4. Committing /\ Directed /\ Committed
  BY <1>3 DEF Orderly, Pending
<1>5. intents[pending].st = "COMMITTING"
  BY <1>2, <1>3, <1>4, IntentFields DEF Live, Committed
<1>6. WaitsForCommit(pending)
  BY <1>3, <1>4, <1>5 DEF WaitsForCommit, Committing
<1>7. /\ e.trade = o /\ e.side = intents[pending].side /\ e.qty = 1 /\ ~e.recovered
      /\ e.at >= pending /\ orders[e.trade].intent = pending
  BY <1>1, <1>2 DEF FillOf, Orderly, Based, InHand, LastOrder
<1>8. Matches(pending, e)
  BY <1>4, <1>5, <1>7 DEF Matches, Bindable, Committing, Directed
<1>9. Left(e) = pending /\ Bound(e) = pending
  BY <1>3, <1>5, <1>8 DEF Left, IsPrecommit, Bound
<1> QED
  BY <1>1, <1>2, <1>3, <1>4, <1>5, <1>6, <1>7, <1>8, <1>9 DEF LastOrder

\* It makes a record, which waits for the answer.
LEMMA FillWaits ==
    ASSUME Typed, Typed', Owned, Orderly, NEW o \in Filled, Process(FillOf(o)),
           \A r \in RecordIds : records[r].trade # o, UNCHANGED <<orders, auto, snap, dog>>
    PROVE  Orderly'
<1> DEFINE e == FillOf(o)
           n == Len(records)
<1>1. /\ o = Len(orders) /\ Live /\ ~Recorded /\ pending # 0 /\ pending \in IntentIds
      /\ Committing /\ Directed /\ intents[pending].st = "COMMITTING"
      /\ Left(e) = pending /\ Bound(e) = pending /\ WaitsForCommit(pending)
      /\ e.trade = o /\ e.side = intents[pending].side /\ e.qty = 1 /\ ~e.recovered
      /\ LastOrder.st = "filled"
  BY FillInHand
<1>2. /\ e \in Event /\ n \in Nat /\ n + 1 > n /\ n + 1 \in 1..(n + 1)
      /\ Len(orders) \in OrderIds /\ LastOrder.intent = pending
  BY <1>1, FillTyped, FilledIsOrder, Lengths, HandHas DEF Orderly, Based, InHand
<1>3. ByTrade(e) = {}
  BY <1>1 DEF ByTrade
<1>4. Recovered(e) = {}
  <2> SUFFICES ASSUME NEW r \in Recovered(e) PROVE FALSE
    OBVIOUS
  <2>1. r \in RecordIds /\ \/ records[r].at - e.at \in 0..1
                           \/ orders[e.trade].intent = records[r].quote
    BY DEF Recovered
  <2>2. records[r].at < pending /\ records[r].at \in Nat /\ pending \in Nat
    BY <1>1, <2>1, RecordFields, Lengths DEF Orderly, Based, DecidedRecords
  <2>3. e.at >= pending /\ e.at \in Nat
    BY <1>1, <1>2 DEF FillOf, Orderly, Based, InHand, LastOrder, Event
  <2>4. orders[e.trade].intent = records[r].quote
    BY <2>1, <2>2, <2>3
  <2>5. records[r].trade \in OrderIds /\ records[r].quote = orders[records[r].trade].intent
    BY <2>1 DEF Orderly, Based, Traced
  <2>6. records[r].trade = o
    BY <1>1, <1>2, <2>4, <2>5 DEF Owned
  <2> QED
    BY <2>1, <2>6
<1>5. RecordFor(e) = n + 1
  BY <1>1, <1>3, <1>4 DEF RecordFor, Provisional, Committing
<1> DEFINE w == Filling(e, n + 1)[1]
<1>6. FreshRecord(e) \in Record /\ FreshRecord(e).quote = 0
  BY <1>2 DEF FreshRecord, Record, Phases, Event
<1>7. /\ Filling(e, n + 1)[2] /\ w.side = e.side /\ w.qty = 1 /\ w.trade = o
      /\ w.quote = pending /\ w.src = "event" /\ w.at = 0
  <2>1. 0 # o
    BY <1>1, <1>2, Lengths
  <2> QED
    BY <1>1, <1>2, <1>6, <2>1, FillFields
<1> HIDE DEF w
<1>8. /\ records' = Append(records, w) /\ pending' = pending
      /\ intents' = [intents EXCEPT ![pending].confirmed = n + 1]
  BY <1>1, <1>2, <1>5, <1>7 DEF Process, w
<1>9. /\ intents'[pending].st = "COMMITTING" /\ intents'[pending].side = intents[pending].side
      /\ intents'[pending].qty = intents[pending].qty
      /\ intents'[pending].phase = intents[pending].phase
      /\ intents'[pending].accepted = intents[pending].accepted
      /\ intents'[pending].prov = intents[pending].prov
      /\ intents'[pending].rfq = intents[pending].rfq
      /\ intents'[pending].confirmed = n + 1 /\ Len(intents') = Len(intents)
  <2>1. intents[pending] \in Intent /\ intents \in Seq(Intent)
    BY <1>1, IntentHas DEF Typed, IntentsTyped
  <2>2. intents'[pending] = [intents[pending] EXCEPT !.confirmed = n + 1]
        /\ Len(intents') = Len(intents)
    BY <1>1, <1>8, <2>1 DEF IntentIds
  <2> QED
    BY <1>1, <2>1, <2>2 DEF Intent
<1>10. Live'
  BY <1>1, <1>8, <1>9 DEF Live
<1>11. Based' /\ Directed' /\ Recorded' /\ LastRecord' = w /\ Len(records') = n + 1
  BY <1>1, <1>7, <1>8, <1>9, <1>10, BaseGrows DEF Orderly
<1>12. Candidate' /\ Committing' /\ Committed'
  BY <1>1, <1>7, <1>8, <1>9, <1>11 DEF Candidate, Committing, Committed
<1>13. Waiting'
  BY <1>1, <1>8, <1>10 DEF Orderly, Waiting
<1> QED
  BY <1>11, <1>12, <1>13 DEF Orderly, Pending

\* It confirms the provisional record, or it has been entered before.
LEMMA FillRepeats ==
    ASSUME Typed, Typed', Owned, Orderly, Unhurried, NEW o \in Filled, Process(FillOf(o)),
           NEW r \in RecordIds, records[r].trade = o, UNCHANGED <<orders, auto, snap, dog>>
    PROVE  Orderly'
<1> DEFINE e == FillOf(o)
           n == Len(records)
<1>1. /\ o \in OrderIds /\ orders[o].st = "filled" /\ e \in Event
      /\ e.trade = o /\ ~e.recovered /\ e.at = orders[o].at /\ e.side = orders[o].side
      /\ e.qty = orders[o].qty /\ e.at <= Len(intents)
  BY FilledIsOrder, FillTyped, OrderFields DEF Filled, FillOf
<1>2. \A q \in RecordIds : records[q].trade = o => q = r
  BY DEF Orderly, Based, Traced
<1>3. ByTrade(e) = {r}
  BY <1>1, <1>2, Lengths DEF ByTrade, Orderly, Based, Alternate
<1>4. RecordFor(e) = r /\ ~(r > n) /\ r \in 1..(n + 1)
  <2>1. Max({r}) = r
    BY LatestIsOne
  <2>2. RecordFor(e) = r
    BY <1>3, <2>1 DEF RecordFor
  <2> QED
    BY <2>2, Lengths
<1>5. dog'.pc = "follow" => dog'.id # 0
  BY DEF Orderly, Waiting
<1>6. CASE records[r].src = "http"
  <2>1. Live /\ o = Len(orders)
    BY <1>6 DEF Orderly, Based, DecidedRecords
  <2>2. pending # 0 /\ pending \in IntentIds /\ Recorded /\ r = n
    BY <2>1, HandHas, Lengths DEF Live
  <2>3. Committing /\ Directed
    BY <2>2 DEF Orderly, Pending
  <2>4. intents[pending].st \in {"COMMITTED", "AMBIGUOUS"}
    BY <1>6, <2>1, <2>2, <2>3, IntentFields DEF Live, Committing, LastRecord
  <2>5. LastOrder.st = "filled" /\ e.side = intents[pending].side /\ e.qty = 1
    BY <1>1, <2>1 DEF LastOrder, Orderly, Based, InHand
  <2> QED
    BY <1>1, <1>5, <2>1, <2>4, <2>5, ConfirmationEnds
<1>7. CASE records[r].src # "http"
  <2> DEFINE meta == IF Bound(e) # 0 THEN WithIntent(records[r], Bound(e), e) ELSE records[r]
  <2>1. Filling(e, r) = <<meta, FALSE>>
    BY <1>3, <1>4, <1>7 DEF Filling
  <2>2. records[r].quote # 0 /\ records[r] \in Record
    BY <1>1, RecordHas, Lengths DEF Orderly, Based, Traced, Owned
  <2>3. /\ meta.side = records[r].side /\ meta.qty = records[r].qty
        /\ meta.trade = records[r].trade /\ meta.quote = records[r].quote
        /\ meta.src = records[r].src /\ meta.at = records[r].at
    BY <2>2, MetaFields
  <2> HIDE DEF meta
  <2>4. /\ records' = [records EXCEPT ![r] = meta] /\ pending' = Left(e)
        /\ intents' = IF WaitsForCommit(Bound(e))
                      THEN [intents EXCEPT ![Bound(e)].confirmed = r] ELSE intents
    BY <1>4, <2>1 DEF Process
  <2>5. RecordsSame
    BY <2>3, <2>4 DEF RecordsSame, SameTrades, RecordIds, Typed, RecordsTyped
  <2>6. CASE ~Live /\ pending' = 0
    <3>1. auto'.pc # "commit"
      BY <2>6 DEF Orderly, Waiting
    <3>2. \A q \in RecordIds : /\ records'[q].src \in {"event", "portfolio"}
                               /\ records[q].at <= Len(intents)
                               /\ records'[q].at = records[q].at
                               /\ orders[records[q].trade].st = "filled"
      BY <2>5, <2>6, AllDecided DEF Orderly, RecordsSame
    <3>3. Len(intents') = Len(intents)
      BY <2>4, Lengths DEF Typed, IntentsTyped
    <3>4. Len(intents) <= Len(intents')
      BY <3>3, Lengths
    <3>5. \A q \in RecordIds : records'[q].at <= Len(intents')
      BY <3>2, <3>3
    <3> QED
      BY <1>5, <2>5, <2>6, <3>1, <3>2, <3>4, <3>5, AllDecided, Settles
         DEF Orderly, RecordsSame
  <2>7. CASE ~(~Live /\ pending' = 0)
    <3>1. pending' = pending
      BY <2>4, <2>7 DEF Left, IsPrecommit, Live
    <3>2. pending # 0 => pending \in IntentIds /\ pending \in Nat
      BY Lengths
    <3>3. intents' = intents
      <4> SUFFICES ASSUME WaitsForCommit(Bound(e)) PROVE intents' = intents
        BY <2>4
      <4>1. Bound(e) = pending /\ pending # 0 /\ intents[pending].st = "COMMITTING"
            /\ e.at >= pending /\ Live
        BY <2>4, <3>1, <3>2 DEF WaitsForCommit, Bound, Matches, Live, Unhurried
      <4>2. o = Len(orders)
        <5>1. orders[o].at \in Nat /\ pending \in Nat
          BY <1>1, <3>2, <4>1, OrderFields
        <5> QED
          BY <1>1, <4>1, <5>1 DEF Orderly, Based, DecidedOrders
      <4>3. Recorded /\ r = n
        BY <4>1, <4>2, HandHas
      <4>4. intents[pending].confirmed = r
        BY <4>1, <4>3 DEF Orderly, Pending, Committing
      <4>5. intents[pending] \in Intent /\ intents \in Seq(Intent)
        BY <3>2, <4>1, IntentHas DEF Typed, IntentsTyped
      <4>6. [intents[pending] EXCEPT !.confirmed = r] = intents[pending]
        BY <4>4, <4>5 DEF Intent
      <4>7. intents' = [intents EXCEPT ![pending] = intents[pending]]
        BY <2>4, <4>1, <4>6
      <4> QED
        BY <4>5, <4>7
    <3> QED
      BY <2>5, <3>1, <3>3, OrderlyStays DEF Orderly, Waiting
  <2> QED
    BY <2>6, <2>7
<1> QED
  BY <1>6, <1>7

-----------------------------------------------------------------------------
(* Steps of the handlers *)

\* A hedge that moves changes nothing else of its record.
LEMMA HedgeEdit ==
    ASSUME NEW recs \in Seq(Record), NEW r, NEW hedge, NEW new,
           new = [recs EXCEPT ![r].hedge = hedge]
    PROVE  /\ Len(new) = Len(recs) /\ DOMAIN new = DOMAIN recs
           /\ hedge \in HedgeStates => new \in Seq(Record)
           /\ \A q \in DOMAIN recs :
                 /\ new[q].side = recs[q].side /\ new[q].qty = recs[q].qty
                 /\ new[q].trade = recs[q].trade /\ new[q].quote = recs[q].quote
                 /\ new[q].src = recs[q].src /\ new[q].at = recs[q].at
<1>1. Len(new) = Len(recs) /\ DOMAIN new = DOMAIN recs
  <2>1. DOMAIN new = DOMAIN recs
    BY ONLY new = [recs EXCEPT ![r].hedge = hedge]
  <2>2. Len(new) = Len(recs)
    OBVIOUS
  <2> QED
    BY ONLY <2>1, <2>2
<1>4. \A q \in DOMAIN recs : recs[q] \in Record
  OBVIOUS
<1>5. ASSUME NEW q \in DOMAIN recs
      PROVE  new[q] = recs[q] \/ new[q] = [recs[q] EXCEPT !.hedge = hedge]
  BY ONLY new = [recs EXCEPT ![r].hedge = hedge], q \in DOMAIN recs
<1>2. ASSUME hedge \in HedgeStates PROVE new \in Seq(Record)
  <2>1. r \in DOMAIN recs => [recs[r] EXCEPT !.hedge = hedge] \in Record
    BY <1>4, <1>2 DEF Record, HedgeStates
  <2> QED
    BY <2>1, Replaced
<1>3. ASSUME NEW q \in DOMAIN recs
      PROVE  /\ new[q].side = recs[q].side /\ new[q].qty = recs[q].qty
             /\ new[q].trade = recs[q].trade /\ new[q].quote = recs[q].quote
             /\ new[q].src = recs[q].src /\ new[q].at = recs[q].at
  <2>1. recs[q] \in Record
    BY <1>4
  <2>2. new[q] = recs[q] \/ new[q] = [recs[q] EXCEPT !.hedge = hedge]
    BY <1>5
  <2>3. CASE new[q] = recs[q]
    BY <2>3
  <2>4. CASE new[q] = [recs[q] EXCEPT !.hedge = hedge]
    BY <2>1, <2>4 DEF Record
  <2> QED
    BY <2>2, <2>3, <2>4
<1> QED
  BY <1>1, <1>2, <1>3

LEMMA HedgeOnly ==
    ASSUME Typed, NEW r, NEW hedge, records' = [records EXCEPT ![r].hedge = hedge]
    PROVE  RecordsSame
BY HedgeEdit DEF RecordsSame, SameTrades, RecordIds, Typed, RecordsTyped

LEMMA StartIsHedge ==
    ASSUME Typed, NEW r, NEW open, StartHedge(r, open)
    PROVE  RecordsSame
<1>1. CASE UNCHANGED records
  BY <1>1 DEF RecordsSame, SameTrades
<1>2. CASE records' = [records EXCEPT ![r].hedge = "hedging"]
  BY <1>2, HedgeOnly
<1>3. CASE records' = [records EXCEPT ![r].hedge = "waitopen"]
  BY <1>3, HedgeOnly
<1>4. CASE records' = [records EXCEPT ![r].hedge = "skipped"]
  BY <1>4, HedgeOnly
<1> QED
  BY <1>1, <1>2, <1>3, <1>4 DEF StartHedge, Scheduled

LEMMA CalmNeedsNothing ==
    ASSUME Calm, NEW r \in RecordIds
    PROVE  ~NeedsFlatten(r)
BY DEF Calm, NeedsFlatten

LEMMA FeedKeepsOrder ==
    ASSUME Typed, Typed', Calm, Owned, Orderly, Unhurried, Feed
    PROVE  Orderly'
<1>1. dog.pc = "follow" => dog.id \notin {0, pending}
  BY DEF Orderly, Waiting
<1>2. CASE FeedPauses
  <2>1. RecordsSame
    BY <1>2 DEF FeedPauses, RecordsSame, SameTrades
  <2> QED
    BY <1>1, <1>2, <2>1, OrderlyStays DEF FeedPauses, loops
<1>3. CASE FeedFollows
  <2>1. RecordsSame
    BY <1>3, StartIsHedge DEF FeedFollows
  <2> QED
    BY <1>1, <1>3, <2>1, OrderlyStays DEF FeedFollows, loops
<1>4. CASE FeedFlattens
  <2>1. feed.rec \in RecordIds
    BY <1>4 DEF FeedFlattens, Typed, ActorsTyped, FeedTyped
  <2> QED
    BY <1>4, <2>1, CalmNeedsNothing DEF FeedFlattens
<1>5. ASSUME NEW o \in OrderIds, FeedProcess(o)
      PROVE  Orderly'
  <2>1. o \in Filled /\ Process(FillOf(o)) /\ UNCHANGED <<orders, auto, snap, dog>>
    BY <1>5 DEF FeedProcess, loops
  <2>2. CASE \A r \in RecordIds : records[r].trade # o
    BY <2>1, <2>2, FillWaits
  <2>3. CASE \E r \in RecordIds : records[r].trade = o
    BY <2>1, <2>3, FillRepeats
  <2> QED
    BY <2>2, <2>3
<1>6. ASSUME NEW o \in OrderIds, FeedUnsupported(o)
      PROVE  FALSE
  <2>1. o \in Filled /\ Unsupported(FillOf(o)) /\ o # 0
    BY <1>6, Lengths DEF FeedUnsupported, RecordUnsupported
  <2>2. ~Known(FillOf(o)) /\ ~PendingMatches(FillOf(o)) /\ FillOf(o).trade = o
    BY <2>1 DEF Unsupported, FillOf
  <2>3. \A r \in RecordIds : records[r].trade # o
    BY <2>1, <2>2 DEF Known
  <2> QED
    BY <2>1, <2>2, <2>3, FillInHand DEF PendingMatches
<1> QED
  BY <1>2, <1>3, <1>4, <1>5, <1>6 DEF Feed

\* The portfolio shows a position only when the order in hand has filled.
LEMMA RecoveryEnds ==
    ASSUME Typed, Typed', Serial, Owned, Orderly, DogRecovers
    PROVE  Orderly'
<1> DEFINE n == Len(records)
           e == Shown(pending)
           opens == intents[pending].phase = "open"
<1>1. /\ ShowsFilled(pending) /\ Process(e) /\ UNCHANGED <<orders, auto, snap>>
      /\ dog' = [pc |-> "follow", id |-> pending, rec |-> Entered(e), open |-> MatchedOpen(e)]
  BY DEF DogRecovers, loops
<1>2. /\ pending \in IntentIds /\ pending # 0 /\ snap.fresh /\ e \in Event
      /\ intents[pending].st = "COMMITTING" => intents[pending].accepted
      /\ IF opens THEN snap.pos > 0 ELSE TrackedOpen(pending) # 0 /\ snap.pos = 0
  BY <1>1, ShownTyped, Lengths DEF ShowsFilled, Inspectable
<1>3. Directed /\ Candidate /\ Committing /\ Committed
  BY <1>2 DEF Orderly, Pending
<1>4. n \in Nat /\ RecordIds = 1..n /\ After(n) \in {0, 1} /\ After(n - 1) \in {0, 1}
  BY Lengths, AfterIsBit
<1>5. opens <=> intents[pending].side = "buy"
  BY <1>3 DEF Directed
<1>6. Live
  <2> SUFFICES ASSUME ~Live PROVE FALSE
    OBVIOUS
  <2>1. snap.pos = After(n)
    BY <1>2, <1>3 DEF Live, Candidate, Orderly, Based, Truth
  <2> QED
    BY <1>2, <1>3, <1>4, <1>5, <2>1 DEF Directed
<1>7. intents[pending].st \in {"COMMITTED", "AMBIGUOUS"}
  BY <1>2, <1>3, <1>6, IntentFields DEF Live, Committing
<1>8. /\ Recorded /\ n \in RecordIds /\ LastRecord.side = intents[pending].side
      /\ intents[pending].prov = n /\ OrderOf(pending) = Len(orders) /\ Named(pending)
      /\ LastRecord = records[n]
  BY <1>3, <1>6, <1>7, HandHas DEF Committed, Directed, LastRecord
<1>9. LastOrder.st = "filled"
  <2> SUFFICES ASSUME LastOrder.st # "filled" PROVE FALSE
    OBVIOUS
  <2>1. snap.pos = After(n - 1)
    BY <1>2, <1>3, <1>6, <1>7, <1>8 DEF Committed, Orderly, Based, Truth
  <2>2. n = 1 \/ n - 1 \in RecordIds
    <3>1. \A r \in RecordIds : r # 1 => r - 1 \in RecordIds
      BY <1>4
    <3> QED
      BY <1>8, <3>1
  <2>3. After(n - 1) = IF intents[pending].side = "buy" THEN 0 ELSE 1
    <3>1. CASE n = 1
      BY <1>8, <3>1 DEF After, Orderly, Based, Alternate
    <3>2. CASE n # 1
      <4>1. /\ records[n - 1].side \in {"buy", "sell"}
            /\ records[n].side = Opposite(records[n - 1].side)
        BY <1>8, <2>2, <3>2, RecordFields DEF Orderly, Based, Alternate
      <4>2. n - 1 # 0
        BY <1>4, <3>2, <1>8
      <4> QED
        BY <1>8, <4>1, <4>2 DEF Opposite, After
    <3> QED
      BY <3>1, <3>2
  <2> QED
    BY <1>2, <1>5, <2>1, <2>3
<1>10. e.trade = Len(orders) /\ e.side = intents[pending].side
  BY <1>2, <1>8, Lengths DEF Shown
<1>11. e.qty = 1
  <2>1. opens => e.qty = snap.pos /\ snap.pos = 1
    BY <1>2 DEF Shown, Serial
  <2>2. ~opens => e.qty = records[TrackedOpen(pending)].qty
    BY DEF Shown, OpenQty
  <2>3. ~opens => TrackedOpen(pending) \in RecordIds
    BY <1>2, OpenTyped
  <2> QED
    BY <2>1, <2>2, <2>3 DEF Orderly, Based, Alternate
<1>12. e.at <= Len(intents)
  BY Lengths DEF Shown, Serial
<1>13. dog'.pc = "follow" => dog'.id # 0
  BY <1>1, <1>2
<1> QED
  BY <1>1, <1>2, <1>6, <1>7, <1>9, <1>10, <1>11, <1>12, <1>13, ConfirmationEnds

LEMMA AmbiguityKeepsOrder ==
    ASSUME Typed, Typed', Orderly, NEW id, StaysAmbiguous(id), UNCHANGED <<orders, auto, snap>>,
           dog' = DogIdle
    PROVE  Orderly'
<1>1. RecordsSame /\ UNCHANGED pending /\ dog'.pc # "follow"
  BY DEF StaysAmbiguous, RecordsSame, SameTrades, DogIdle
<1>2. CASE ~(pending = id /\ intents[id].accepted)
  BY <1>1, <1>2, OrderlyStays DEF StaysAmbiguous
<1>3. CASE pending = id /\ intents[id].accepted
  <2>1. /\ pending \in IntentIds \/ pending = 0
        /\ UNCHANGED <<records, Position, LastOrder, LastRecord>>
    BY Lengths DEF StaysAmbiguous, Position, LastOrder, LastRecord
  <2>2. CASE pending = 0
    <3>1. Live' = Live
      BY <1>1, <2>2 DEF Live
    <3>2. Len(intents') = Len(intents)
      BY <1>3 DEF StaysAmbiguous, Typed, IntentsTyped
    <3>3. Based'
      BY <1>1, <2>2, <3>1, <3>2, Lengths, BaseStays DEF Orderly
    <3> QED
      BY <1>1, <2>2, <3>1, <3>3 DEF Orderly, Pending, Waiting
  <2>3. CASE pending \in IntentIds /\ pending # 0
    <3>1. Candidate /\ Committing /\ Committed /\ Directed
      BY <2>3 DEF Orderly, Pending
    <3>2. intents[pending].st = "COMMITTED"
      BY <1>3, <2>3, <3>1, IntentFields DEF Candidate, Committing, Committed
    <3>3. /\ intents'[pending].st = "AMBIGUOUS" /\ ~intents'[pending].accepted
          /\ intents'[pending].side = intents[pending].side
          /\ intents'[pending].qty = intents[pending].qty
          /\ intents'[pending].phase = intents[pending].phase
          /\ intents'[pending].prov = intents[pending].prov
          /\ intents'[pending].rfq = intents[pending].rfq /\ Len(intents') = Len(intents)
      <4>1. intents[pending] \in Intent /\ intents \in Seq(Intent)
        BY <2>3, IntentHas DEF Typed, IntentsTyped
      <4>2. intents' = [intents EXCEPT ![pending] = [@ EXCEPT !.st = "AMBIGUOUS",
                                                            !.accepted = FALSE]]
        BY <1>3 DEF StaysAmbiguous
      <4>3. /\ Len(intents') = Len(intents)
            /\ intents'[pending] = [intents[pending] EXCEPT !.st = "AMBIGUOUS",
                                                            !.accepted = FALSE]
        BY <2>3, <4>1, <4>2 DEF IntentIds
      <4> QED
        BY <4>1, <4>3 DEF Intent
    <3>4. Live' = Live
      BY <1>1, <2>3, <3>2, <3>3 DEF Live
    <3>5. Based' /\ Recorded' = Recorded
      BY <1>1, <3>3, <3>4, Lengths, BaseStays DEF Orderly
    <3>6. Directed'
      BY <1>1, <3>1, <3>3, <3>4, <3>5, DirectedStays DEF Orderly
    <3>7. Candidate' /\ Committing' /\ Committed'
      BY <1>1, <2>1, <3>1, <3>2, <3>3, <3>5 DEF Candidate, Committing, Committed
    <3>8. Waiting'
      BY <1>1, <3>4 DEF Orderly, Waiting
    <3> QED
      BY <3>5, <3>6, <3>7, <3>8 DEF Orderly, Pending
  <2> QED
    BY <2>1, <2>2, <2>3
<1> QED
  BY <1>2, <1>3

LEMMA WatchdogKeepsOrder ==
    ASSUME Typed, Typed', Calm, Serial, Owned, Orderly, Watchdog
    PROVE  Orderly' \/ paused' = "automation"
<1>1. dog.pc = "follow" => dog.id \notin {0, pending}
  BY DEF Orderly, Waiting
<1>2. CASE DogRecovers
  BY <1>2, RecoveryEnds
<1>3. CASE DogFollows
  <2>1. RecordsSame
    <3>1. CASE dog.rec = 0
      BY <1>3, <3>1 DEF DogFollows, RecordsSame, SameTrades
    <3>2. CASE dog.rec # 0
      BY <1>3, <3>2, StartIsHedge DEF DogFollows
    <3> QED
      BY <3>1, <3>2
  <2>2. pending' = pending /\ UNCHANGED <<orders, intents, auto, snap>> /\ dog'.pc # "follow"
    BY <1>1, <1>3 DEF DogFollows, ClearSame, loops, DogIdle
  <2> QED
    BY <2>1, <2>2, OrderlyStays
<1>4. CASE DogFlattens
  <2>1. dog.rec \in RecordIds
    BY <1>4 DEF DogFlattens, Typed, ActorsTyped, DogTyped
  <2> QED
    BY <1>4, <2>1, CalmNeedsNothing DEF DogFlattens
<1>5. CASE DogTimeout \/ DogRefreshesPage
  <2>1. RecordsSame
    BY <1>5 DEF DogTimeout, DogRefreshesPage, RecordsSame, SameTrades
  <2>2. UNCHANGED <<orders, pending, intents, auto, snap>>
    BY <1>5 DEF DogTimeout, DogRefreshesPage, loops
  <2>3. dog'.pc # "follow"
    BY <1>5 DEF DogTimeout, DogRefreshesPage, DogIdle, Typed, ActorsTyped, DogTyped
  <2> QED
    BY <2>1, <2>2, <2>3, OrderlyStays
<1>6. CASE DogDecides
  <2>1. dog' = DogIdle /\ UNCHANGED <<orders, auto, snap>>
    BY <1>6 DEF DogDecides, loops
  <2>2. CASE StaysAmbiguous(dog.id)
    BY <2>1, <2>2, AmbiguityKeepsOrder
  <2>3. CASE Rollback(dog.id)
    BY <2>3 DEF Rollback
  <2>4. CASE UNCHANGED <<intents, records, pending, paused>>
    <3>1. RecordsSame /\ dog'.pc # "follow"
      BY <2>1, <2>4 DEF RecordsSame, SameTrades, DogIdle
    <3> QED
      BY <2>1, <2>4, <3>1, OrderlyStays
  <2> QED
    BY <1>6, <2>2, <2>3, <2>4 DEF DogDecides
<1>7. CASE DogExpires
  BY <1>7 DEF DogExpires
<1> QED
  BY <1>2, <1>3, <1>4, <1>5, <1>6, <1>7 DEF Watchdog

\* A hedge ends, or starts over.
LEMMA HedgesKeepOrder ==
    ASSUME Typed, Typed', Calm, Orderly, ~HedgesFail, Hedges
    PROVE  Orderly'
<1>1. dog.pc = "follow" => dog.id \notin {0, pending}
  BY DEF Orderly, Waiting
<1>2. RecordsSame /\ UNCHANGED <<orders, pending, intents, auto, snap, dog>>
  <2>1. CASE Resume
    BY <2>1 DEF Resume, RecordsSame, SameTrades, loops, handlers
  <2>2. ASSUME NEW r \in RecordIds, HedgeCompletes(r)
        PROVE  RecordsSame /\ UNCHANGED <<orders, pending, intents, auto, snap, dog>>
    <3> DEFINE done == [records EXCEPT ![r].hedge = "done"]
    <3>1. records' = LateClose(done, r) /\ UNCHANGED <<orders, pending, intents, auto, snap, dog>>
      BY <2>2 DEF HedgeCompletes, loops, handlers
    <3>2. CASE records' = done
      BY <3>1, <3>2, HedgeOnly
    <3>3. CASE records' # done
      <4>1. PICK c : records' = [done EXCEPT ![c].hedge = "hedging"]
        BY <3>1, <3>3 DEF LateClose, Scheduled
      <4>2. /\ done \in Seq(Record) /\ Len(done) = Len(records) /\ DOMAIN done = RecordIds
            /\ \A q \in RecordIds :
                 /\ done[q].side = records[q].side /\ done[q].qty = records[q].qty
                 /\ done[q].trade = records[q].trade /\ done[q].quote = records[q].quote
                 /\ done[q].src = records[q].src /\ done[q].at = records[q].at
        <5>1. done = [records EXCEPT ![r].hedge = "done"]
          OBVIOUS
        <5>2. records \in Seq(Record) /\ "done" \in HedgeStates /\ RecordIds = DOMAIN records
          BY DEF Typed, RecordsTyped, HedgeStates, RecordIds
        <5> HIDE DEF done
        <5> QED
          BY ONLY <5>1, <5>2, HedgeEdit
      <4> HIDE DEF done
      <4>3. RecordsSame
        BY <4>1, <4>2, HedgeEdit DEF RecordsSame, SameTrades
      <4> QED
        BY <3>1, <4>3
    <3> QED
      BY <3>2, <3>3
  <2>3. ASSUME NEW r \in RecordIds, CheckResolves(r)
        PROVE  RecordsSame /\ UNCHANGED <<orders, pending, intents, auto, snap, dog>>
    BY <2>3, HedgeOnly DEF CheckResolves, Scheduled, loops, handlers
  <2>4. ASSUME NEW r \in RecordIds, HedgeFails(r) \/ FailureFlattens(r)
        PROVE  FALSE
    BY <2>4 DEF HedgeFails, FailureFlattens, Calm
  <2> QED
    BY <2>1, <2>2, <2>3, <2>4 DEF Hedges
<1> QED
  BY <1>1, <1>2, OrderlyStays

-----------------------------------------------------------------------------
(* Steps of the runtime that touch no order *)

QuietStep ==
    /\ UNCHANGED orders /\ snap'.pos = snap.pos /\ snap'.at = snap.at
    /\ auto'.pc \in {"quote", "prepared"} =>
          \/ auto.pc \in {"quote", "prepared"} /\ auto'.id = auto.id
          \/ auto'.id = Len(intents) + 1

LEMMA QuietKeeps ==
    ASSUME Typed, Typed', Grow, Serial, Owned, QuietStep
    PROVE  Serial' /\ Owned'
<1>1. /\ OrderIds' = OrderIds /\ Position' = Position /\ Len(orders') = Len(orders)
      /\ IntentIds \subseteq IntentIds' /\ IntentIds = 1..Len(intents) /\ Len(intents) \in Nat
      /\ Len(intents) <= Len(intents') /\ Len(intents') \in Nat
  BY IndicesStay, Lengths, LengthsNext DEF QuietStep, OrderIds, Position, Grow, IntentsGrow
<1>2. Serial'
  <2>1. snap'.at <= Len(intents')
    BY <1>1 DEF QuietStep, Serial, Typed, AccountTyped
  <2> QED
    BY <1>1, <2>1 DEF QuietStep, Serial
<1>3. Owned'
  <2>1. \A o \in OrderIds : orders[o].intent # Len(intents) + 1
    BY <1>1 DEF Owned
  <2>2. auto'.pc \in {"quote", "prepared"} => \A o \in OrderIds : orders[o].intent # auto'.id
    BY <2>1 DEF Owned, QuietStep
  <2> QED
    BY <1>1, <2>2 DEF Owned, QuietStep
<1> QED
  BY <1>2, <1>3

LEMMA StrategyIsQuiet ==
    ASSUME Typed, Strategy
    PROVE  AutoCommit \/ QuietStep
<1>1. auto'.pc = "idle" /\ UNCHANGED <<orders, snap>> => QuietStep
  BY DEF QuietStep
<1>2. CASE SubmitOpen \/ SubmitClose
  <2>1. PICK phase, side, qty, open : Submit(phase, side, qty, open)
    BY <1>2 DEF SubmitOpen, SubmitClose
  <2> QED
    BY <2>1 DEF Submit, QuietStep, handlers, Typed, AccountTyped
<1>3. CASE StalledOpen
  BY <1>3 DEF StalledOpen, QuietStep, loops
<1>4. CASE AutoQuoteFails \/ AutoCommitRefused
  BY <1>1, <1>4 DEF AutoQuoteFails, AutoCommitRefused
<1>5. CASE AutoPrepare
  BY <1>5 DEF AutoPrepare, QuietStep, Typed, ActorsTyped, AutoTyped
<1>6. CASE AutoAcceptedMismatch \/ AutoAcceptedProvisional
  BY <1>6 DEF AutoAcceptedMismatch, AutoAcceptedProvisional, AutoEnds, QuietStep, Typed,
              AccountTyped
<1>7. CASE AutoAcceptedMerge \/ AutoAcceptedOrphan \/ AutoFailed \/ AutoAmbiguous
  BY <1>1, <1>7 DEF AutoAcceptedMerge, AutoAcceptedOrphan, AutoFailed, AutoAmbiguous, AutoEnds
<1> QED
  BY <1>2, <1>3, <1>4, <1>5, <1>6, <1>7 DEF Strategy

LEMMA HandlersAreQuiet ==
    ASSUME Typed, Calm, ~HedgesFail, Feed \/ Watchdog \/ Hedges
    PROVE  QuietStep
<1>1. UNCHANGED <<auto, orders, snap>> => QuietStep
  BY DEF QuietStep
<1>2. CASE Feed
  <2>1. feed.pc = "follow" => feed.rec \in RecordIds
    BY DEF Typed, ActorsTyped, FeedTyped
  <2>2. ~FeedFlattens
    BY <2>1, CalmNeedsNothing DEF FeedFlattens
  <2> QED
    BY <1>1, <1>2, <2>2 DEF Feed, FeedPauses, FeedFollows, FeedProcess, FeedUnsupported, loops
<1>3. CASE Watchdog
  <2>1. dog.rec # 0 => dog.rec \in RecordIds
    BY DEF Typed, ActorsTyped, DogTyped
  <2>2. ~DogFlattens
    BY <2>1, CalmNeedsNothing DEF DogFlattens
  <2> QED
    BY <1>1, <1>3, <2>2 DEF Watchdog, DogRecovers, DogFollows, DogTimeout, DogRefreshesPage,
                            DogDecides, DogExpires, loops
<1>4. CASE Hedges
  <2>1. \A r \in RecordIds : ~HedgeFails(r) /\ ~FailureFlattens(r)
    BY DEF HedgeFails, FailureFlattens, Calm
  <2> QED
    BY <1>1, <1>4, <2>1 DEF Hedges, Resume, HedgeCompletes, CheckResolves, loops
<1> QED
  BY <1>2, <1>3, <1>4

\* No intent begins, and each keeps its time.
SoonKept == Len(intents') = Len(intents) /\ \A i \in IntentIds : intents'[i].soon = intents[i].soon

LEMMA SoonEdited ==
    ASSUME Typed, NEW i, NEW v, intents' = [intents EXCEPT ![i] = v],
           i \in IntentIds => v.soon = intents[i].soon
    PROVE  SoonKept
BY DEF SoonKept, Typed, IntentsTyped, IntentIds

LEMMA SoonMoves ==
    ASSUME Typed, NEW i, NEW st, intents' = [intents EXCEPT ![i].st = st]
    PROVE  SoonKept
<1> DEFINE v == [intents[i] EXCEPT !.st = st]
<1>1. intents' = [intents EXCEPT ![i] = v]
  OBVIOUS
<1>2. i \in IntentIds => v.soon = intents[i].soon
  BY IntentHas DEF Intent
<1> HIDE DEF v
<1> QED
  BY <1>1, <1>2, SoonEdited

LEMMA SoonNoted ==
    ASSUME Typed, RfqNoted
    PROVE  SoonKept
<1>1. CASE pending = 0
  BY <1>1 DEF RfqNoted, SoonKept
<1>2. CASE pending # 0
  <2> DEFINE v == [intents[pending] EXCEPT !.rfq = Rfq]
  <2>1. intents' = [intents EXCEPT ![pending] = v]
    BY <1>2 DEF RfqNoted
  <2>2. pending \in IntentIds => v.soon = intents[pending].soon
    BY IntentHas DEF Intent
  <2> HIDE DEF v
  <2> QED
    BY <2>1, <2>2, SoonEdited
<1> QED
  BY <1>1, <1>2

LEMMA StrategyKeepsSoon ==
    ASSUME Typed, Strategy, ~(SubmitOpen \/ SubmitClose)
    PROVE  SoonKept
<1>1. UNCHANGED intents => SoonKept
  BY DEF SoonKept
<1>2. CASE AutoPrepare
  BY <1>2, SoonMoves DEF AutoPrepare, Prepare
<1>3. CASE AutoCommit
  BY <1>3, SoonMoves DEF AutoCommit, Dispatch
<1>4. CASE AutoAcceptedMismatch
  <2> DEFINE v == [intents[pending] EXCEPT !.accepted = @ \/ pending = auto.id, !.rfq = auto.id]
  <2>1. intents' = [intents EXCEPT ![pending] = v]
    BY <1>4 DEF AutoAcceptedMismatch
  <2>2. pending \in IntentIds => v.soon = intents[pending].soon
    BY IntentHas DEF Intent
  <2> HIDE DEF v
  <2> QED
    BY <2>1, <2>2, SoonEdited
<1>5. CASE AutoAcceptedProvisional
  <2> DEFINE v == [intents[auto.id] EXCEPT !.st = "COMMITTED", !.accepted = TRUE, !.rfq = Rfq,
                                           !.prov = Len(records) + 1]
  <2>1. intents' = [intents EXCEPT ![auto.id] = v]
    BY <1>5 DEF AutoAcceptedProvisional
  <2>2. auto.id \in IntentIds => v.soon = intents[auto.id].soon
    BY IntentHas DEF Intent
  <2> HIDE DEF v
  <2> QED
    BY <2>1, <2>2, SoonEdited
<1>6. CASE AutoAcceptedMerge \/ AutoAcceptedOrphan
  BY <1>6, SoonNoted DEF AutoAcceptedMerge, AutoAcceptedOrphan
<1>7. CASE AutoAmbiguous
  BY <1>1, <1>7, SoonMoves DEF AutoAmbiguous, MarkAmbiguous
<1>8. CASE StalledOpen \/ AutoQuoteFails \/ AutoCommitRefused \/ AutoFailed
  BY <1>1, <1>8 DEF StalledOpen, AutoQuoteFails, AutoCommitRefused, AutoFailed
<1> QED
  BY <1>2, <1>3, <1>4, <1>5, <1>6, <1>7, <1>8 DEF Strategy

LEMMA ProcessKeepsSoon ==
    ASSUME Typed, NEW e, Process(e)
    PROVE  SoonKept
<1>1. CASE ~WaitsForCommit(Bound(e))
  BY <1>1 DEF Process, SoonKept
<1>2. CASE WaitsForCommit(Bound(e))
  <2> DEFINE i == Bound(e)
             v == [intents[i] EXCEPT !.confirmed = RecordFor(e)]
  <2>1. intents' = [intents EXCEPT ![i] = v]
    BY <1>2 DEF Process
  <2>2. i \in IntentIds => v.soon = intents[i].soon
    BY IntentHas DEF Intent
  <2> HIDE DEF v, i
  <2> QED
    BY <2>1, <2>2, SoonEdited
<1> QED
  BY <1>1, <1>2

LEMMA AmbiguityKeepsSoon ==
    ASSUME Typed, NEW id, StaysAmbiguous(id)
    PROVE  SoonKept
<1>1. CASE UNCHANGED intents
  BY <1>1 DEF SoonKept
<1>2. CASE ~ UNCHANGED intents
  <2> DEFINE v == [intents[id] EXCEPT !.st = "AMBIGUOUS", !.accepted = FALSE]
  <2>1. intents' = [intents EXCEPT ![id] = v]
    BY <1>2 DEF StaysAmbiguous
  <2>2. id \in IntentIds => v.soon = intents[id].soon
    BY IntentHas DEF Intent
  <2> HIDE DEF v
  <2> QED
    BY <2>1, <2>2, SoonEdited
<1> QED
  BY <1>1, <1>2

LEMMA HandlersKeepSoon ==
    ASSUME Typed, Calm, ~HedgesFail, Feed \/ Watchdog \/ Hedges
    PROVE  SoonKept
<1>1. UNCHANGED intents => SoonKept
  BY DEF SoonKept
<1>2. CASE Feed
  <2>1. ~FeedFlattens
    BY CalmNeedsNothing DEF FeedFlattens, Typed, ActorsTyped, FeedTyped
  <2>2. \A o \in OrderIds : FeedProcess(o) => SoonKept
    BY ProcessKeepsSoon DEF FeedProcess
  <2> QED
    BY <1>1, <1>2, <2>1, <2>2 DEF Feed, FeedPauses, FeedFollows, FeedUnsupported
<1>3. CASE Watchdog
  <2>1. ~DogFlattens
    BY CalmNeedsNothing DEF DogFlattens, Typed, ActorsTyped, DogTyped
  <2>2. DogRecovers => SoonKept
    BY ProcessKeepsSoon DEF DogRecovers
  <2>3. DogDecides => SoonKept
    BY <1>1, AmbiguityKeepsSoon DEF DogDecides, Rollback
  <2> QED
    BY <1>1, <1>3, <2>1, <2>2, <2>3 DEF Watchdog, DogFollows, DogTimeout, DogRefreshesPage,
       DogExpires
<1>4. CASE Hedges
  <2>1. \A r \in RecordIds : ~HedgeFails(r) /\ ~FailureFlattens(r)
    BY DEF HedgeFails, FailureFlattens, Calm
  <2> QED
    BY <1>1, <1>4, <2>1 DEF Hedges, Resume, HedgeCompletes, CheckResolves
<1> QED
  BY <1>2, <1>3, <1>4

LEMMA TimedStays ==
    ASSUME Typed, Typed', Timed, SoonKept, UNCHANGED orders
    PROVE  Timed'
<1>1. UNCHANGED <<OrderIds, Position, Filled>>
  BY DEF OrderIds, Position, Filled
<1>2. IntentIds' = IntentIds
  BY Lengths, LengthsNext DEF SoonKept
<1> QED
  BY <1>1, <1>2 DEF Timed, Unhurried, SoonKept

\* A Commit leaves for an account whose every order is decided.
LEMMA CommitIsSerial ==
    ASSUME Typed, Orderly, AutoCommit
    PROVE  /\ \A o \in OrderIds : orders[o].st # "sent"
           /\ pending \in IntentIds /\ pending # 0 /\ pending = auto.id /\ Directed
           /\ Position = After(Len(records)) /\ ~Live
<1>1. auto.pc = "prepared" /\ pending = auto.id
  BY DEF AutoCommit, MayCommit, Unpaused
<1>2. ~Live /\ pending \in IntentIds /\ pending # 0
  <2>1. auto.id \in IntentIds
    BY <1>1, AutoHas
  <2> QED
    BY <1>1, <2>1, NotCommitted, Lengths
<1>3. Directed /\ Position = After(Len(records))
  BY <1>2 DEF Orderly, Pending, Based, Truth
<1> QED
  BY <1>1, <1>2, <1>3 DEF Orderly, Based, DecidedOrders

LEMMA CommitKeepsSerial ==
    ASSUME Typed, Typed', Serial, Owned, Timed, Orderly, AutoCommit, mix = "strategy",
           Naming \subseteq {TRUE}
    PROVE  Serial' /\ Owned' /\ Timed'
<1> DEFINE n == Len(orders)
<1>1. PICK x : /\ orders' = Append(orders, x) /\ x.intent = auto.id
               /\ x.side = intents[auto.id].side /\ x.qty = intents[auto.id].qty
               /\ x.st = "sent" /\ x.named
  <2>1. PICK named \in Naming :
          orders' = Append(orders, [intent |-> auto.id, side |-> intents[auto.id].side,
                             st |-> "sent", qty |-> intents[auto.id].qty, at |-> 0,
                             named |-> named])
    BY DEF AutoCommit, Dispatch
  <2> DEFINE w == [intent |-> auto.id, side |-> intents[auto.id].side, st |-> "sent",
                   qty |-> intents[auto.id].qty, at |-> 0, named |-> named]
  <2>2. named
    OBVIOUS
  <2>3. w.intent = auto.id /\ w.side = intents[auto.id].side /\ w.st = "sent"
        /\ w.qty = intents[auto.id].qty /\ w.named = named
    OBVIOUS
  <2>4. orders' = Append(orders, w)
    BY <2>1
  <2> HIDE DEF w
  <2> QED
    BY <2>2, <2>3, <2>4
<1>2. /\ n \in Nat /\ OrderIds = 1..n /\ OrderIds' = 1..(n + 1) /\ Len(orders') = n + 1
      /\ orders'[n + 1] = x /\ \A o \in OrderIds : orders'[o] = orders[o]
      /\ \A o \in OrderIds' : o \in OrderIds \/ o = n + 1
  <2>1. orders' \in Seq(Order) /\ orders \in Seq(Order)
    BY DEF Typed, OrdersTyped
  <2>2. Len(orders') = n + 1 /\ orders'[n + 1] = x
        /\ \A o \in OrderIds : orders'[o] = orders[o]
    BY <1>1, <2>1 DEF OrderIds
  <2> QED
    BY <2>2, Lengths, LengthsNext
<1>3. /\ \A o \in OrderIds : orders[o].st # "sent"
      /\ auto.id = pending /\ pending \in IntentIds /\ x.qty = 1
      /\ Position = IF x.side = "buy" THEN 0 ELSE 1
  <2>1. Directed /\ ~Live /\ Position = After(Len(records)) /\ auto.id = pending
    BY CommitIsSerial
  <2> QED
    BY <1>1, <2>1, CommitIsSerial, AfterIsBit DEF Directed
<1>4. Position' = Position
  <2>1. x \in Order
    BY <1>2, LengthsNext DEF Typed, OrdersTyped
  <2>2. orders \in Seq(Order) /\ Quantified(orders) /\ x.qty \in Nat /\ Position \in Int
    BY <2>1, PositionTyped DEF Typed, OrdersTyped, Order
  <2>3. PositionAfter(orders') = PositionAfter(orders) + Effect(x)
    BY <1>1, <2>1, <2>2, PositionOfAppend
  <2>4. Effect(x) = 0
    BY <1>1 DEF Effect
  <2> QED
    BY <2>2, <2>3, <2>4 DEF Position
<1>5. Len(intents') = Len(intents) /\ IntentIds' = IntentIds /\ UNCHANGED snap
      /\ auto'.pc = "commit"
  BY DEF AutoCommit, Dispatch, IntentIds, Typed, IntentsTyped, ActorsTyped, AutoTyped
<1>6. Serial'
  BY <1>1, <1>2, <1>3, <1>4, <1>5 DEF Serial
<1>7. Owned'
  <2>1. \A o \in OrderIds : orders[o].intent # auto.id
    BY DEF Owned, AutoCommit
  <2> QED
    BY <1>1, <1>2, <1>3, <1>5, <2>1 DEF Owned
<1>8. Timed'
  <2>1. \A o \in OrderIds : orders[o].at < x.intent
    BY <1>1, <1>3, CommitIsSerial DEF Orderly, Based, DecidedOrders
  <2>2. \A o, p \in OrderIds' : o < p => o \in OrderIds /\ (p \in OrderIds \/ p = n + 1)
    BY <1>2
  <2>3. \A o \in Filled' : o # Len(orders')
    BY <1>1, <1>2 DEF Filled
  <2>4. Unhurried'
    BY <1>5, StrategyKeepsSoon DEF Strategy, SoonKept, Timed, Unhurried, SubmitOpen, SubmitClose,
       CanSubmit, AutoCommit
  <2> QED
    BY <1>2, <2>1, <2>2, <2>3, <2>4 DEF Timed
<1> QED
  BY <1>6, <1>7, <1>8

-----------------------------------------------------------------------------
(* Steps of Variational *)

LEMMA SnapshotKeeps ==
    ASSUME Typed, Typed', Serial, Owned, Timed, Snapshot
    PROVE  Serial' /\ Owned' /\ Timed' /\ (Orderly => Orderly')
<1>1. /\ UNCHANGED <<intents, pending, records, auto, dog, orders, OrderIds, IntentIds, Position,
                     LastOrder, LastRecord>>
      /\ snap'.pos = Position /\ snap'.at = LastFill /\ snap'.fresh
  BY DEF Snapshot, loops, handlers, OrderIds, IntentIds, Position, LastOrder, LastRecord
<1>2. Serial' /\ Owned'
  BY <1>1, LastFillTyped DEF Serial, Owned
<1>3. ASSUME Orderly PROVE Orderly'
  <2>1. RecordsSame /\ Live' = Live /\ Len(intents) <= Len(intents')
    BY <1>1, Lengths DEF RecordsSame, SameTrades, Live
  <2>2. Based' /\ Recorded' = Recorded
    BY <1>1, <1>3, <2>1, BaseStays DEF Orderly
  <2>3. Pending'
    <3> SUFFICES ASSUME pending # 0
                 PROVE  Directed' /\ Candidate' /\ Committing' /\ Committed'
      BY <1>1 DEF Pending
    <3>1. Directed /\ Candidate /\ Committing /\ Committed
      BY <1>3 DEF Orderly, Pending
    <3>2. Directed'
      BY <1>1, <1>3, <2>1, <2>2, <3>1, DirectedStays DEF Orderly
    <3> QED
      BY <1>1, <2>2, <3>1, <3>2 DEF Candidate, Committing, Committed
  <2>4. Waiting'
    BY <1>1, <1>3, <2>1 DEF Orderly, Waiting
  <2> QED
    BY <2>2, <2>3, <2>4 DEF Orderly
<1>4. Timed'
  BY <1>1, TimedStays DEF SoonKept
<1> QED
  BY <1>2, <1>3, <1>4

\* The order that could still be executed is executed, or refused.
LEMMA DecisionKeeps ==
    ASSUME Typed, Typed', Serial, Owned, Timed, NEW o \in OrderIds, Executes(o) \/ Refuses(o)
    PROVE  Serial' /\ Owned' /\ Timed' /\ (Orderly => Orderly')
<1> DEFINE n == Len(orders)
           v == orders'[n]
<1>1. /\ o = n /\ n \in OrderIds /\ orders[n].qty = 1 /\ orders[n].st = "sent"
      /\ Position = (IF orders[n].side = "buy" THEN 0 ELSE 1)
      /\ orders[n].side \in {"buy", "sell"} /\ orders[n] \in Order
  BY OrderFields, OrderHas DEF Executes, Refuses, Serial
<1>2. UNCHANGED <<intents, pending, records, auto, dog, snap, IntentIds, RecordIds>>
  BY DEF Executes, Refuses, loops, handlers, IntentIds, RecordIds
<1>3. /\ Len(orders') = n /\ OrderIds' = OrderIds /\ OrderIds = 1..n /\ n \in Nat
      /\ \A p \in OrderIds : p # n => orders'[p] = orders[p]
      /\ v.intent = orders[n].intent /\ v.side = orders[n].side /\ v.qty = 1
      /\ v.named = orders[n].named
      /\ \/ v.st = "filled" /\ v.at = Len(intents)
         \/ v.st = "refused" /\ v.at = orders[n].at
  <2>1. orders \in Seq(Order) /\ n \in Nat /\ OrderIds = 1..n
    BY Lengths DEF Typed, OrdersTyped
  <2>2. \/ /\ orders' = [orders EXCEPT ![n] = [@ EXCEPT !.st = "filled", !.at = Len(intents)]]
           /\ v = [orders[n] EXCEPT !.st = "filled", !.at = Len(intents)]
        \/ /\ orders' = [orders EXCEPT ![n].st = "refused"]
           /\ v = [orders[n] EXCEPT !.st = "refused"]
    BY <1>1, <2>1 DEF Executes, Refuses, OrderIds
  <2>3. Len(orders') = n /\ \A p \in OrderIds : p # n => orders'[p] = orders[p]
    BY <2>1, <2>2
  <2> HIDE DEF v
  <2>4. /\ v.intent = orders[n].intent /\ v.side = orders[n].side /\ v.qty = orders[n].qty
        /\ v.named = orders[n].named
        /\ \/ v.st = "filled" /\ v.at = Len(intents)
           \/ v.st = "refused" /\ v.at = orders[n].at
    BY <1>1, <2>2 DEF Order
  <2> QED
    BY <1>1, <2>1, <2>3, <2>4 DEF OrderIds
<1> HIDE DEF v
<1>4. Position' = IF v.st = "filled" THEN 1 - Position ELSE Position
  <2>1. Quantified(orders) /\ Position \in Int
    BY PositionTyped
  <2>2. Quantified(orders')
    BY <1>3, <2>1 DEF Quantified, v
  <2>3. PositionAfter(orders') - Effect(orders'[n]) = PositionAfter(orders) - Effect(orders[n])
    <3>1. n # 0 /\ \A i \in 1..(n - 1) : orders[i] = orders'[i]
      BY <1>1, <1>3
    <3> QED
      BY <1>3, <2>1, <2>2, <3>1, PositionOfLast
  <2>4. Effect(orders[n]) = 0
    BY <1>1 DEF Effect
  <2>5. Effect(v) = IF v.st = "filled" THEN (IF v.side = "buy" THEN 1 ELSE -1) ELSE 0
    BY <1>3 DEF Effect, Sign
  <2>6. PositionAfter(orders') \in Int
    BY <2>2, PositionIsInt DEF Quantified
  <2>7. PositionAfter(orders') = Position + Effect(v)
    BY <2>1, <2>3, <2>4, <2>5, <2>6 DEF Position, v
  <2> QED
    BY <1>1, <1>3, <2>5, <2>7 DEF Position
<1>5. \A p \in OrderIds : orders'[p].st # "sent"
  BY <1>1, <1>3 DEF Serial, v
<1>6. Serial'
  <2>1. Position \in {0, 1} /\ Position' \in {0, 1}
    BY <1>1, <1>4
  <2> QED
    BY <1>2, <1>3, <1>5, <2>1 DEF Serial
<1>7. Owned'
  <2>1. \A p \in OrderIds : orders'[p].intent = orders[p].intent
                            /\ orders'[p].named = orders[p].named
    BY <1>1, <1>3 DEF v
  <2> QED
    BY <1>2, <1>3, <2>1 DEF Owned
<1>8. ASSUME Orderly PROVE Orderly'
  <2>1. Live /\ pending # 0 /\ pending \in IntentIds /\ Based
    BY <1>1, <1>8, AllDecided, Lengths DEF Live, Orderly
  <2>2. Directed /\ Candidate /\ Committing /\ Committed
    BY <1>8, <2>1 DEF Orderly, Pending
  <2>3. /\ Live' /\ Recorded' = Recorded /\ LastOrder' = v /\ LastOrder = orders[n]
        /\ LastRecord' = LastRecord /\ After(Len(records))' = After(Len(records))
        /\ After(Len(records) - 1)' = After(Len(records) - 1)
    BY <1>2, <1>3, <2>1 DEF Live, Recorded, LastOrder, LastRecord, After, v
  <2>4. Alternate' /\ DecidedRecords'
    BY <1>2, <1>3, <2>1, <2>3 DEF Based, Alternate, DecidedRecords
  <2>5. Traced'
    <3>1. \A p \in OrderIds : /\ orders'[p].intent = orders[p].intent
                              /\ orders[p].st = "filled" => orders'[p].st = "filled"
      BY <1>1, <1>3 DEF v
    <3> QED
      BY <1>2, <1>3, <2>1, <3>1 DEF Based, Traced
  <2>6. DecidedOrders'
    BY <1>2, <1>3, <1>5, <2>1, <2>3 DEF Based, DecidedOrders
  <2>7. InHand'
    <3>1. Len(intents) >= pending
      BY <2>1, Lengths
    <3>2. orders' # <<>> /\ (Recorded => records # <<>> /\ LastRecord.trade = n)
      BY <1>1, <1>3, <2>1, LengthsNext DEF Based, InHand
    <3>3. v.intent = pending /\ v.side = intents[pending].side
      BY <1>3, <2>1, <2>3 DEF Based, InHand
    <3>4. v.st = "filled" => v.at >= pending
      BY <1>3, <3>1
    <3> QED
      BY <1>2, <1>3, <2>3, <3>2, <3>3, <3>4 DEF InHand
  <2>8. Truth'
    <3>1. After(Len(records)) \in {0, 1} /\ After(Len(records) - 1) \in {0, 1}
      BY AfterIsBit
    <3>2. LastOrder.st # "filled" /\ LastOrder.side = intents[pending].side
      BY <1>1, <2>1, <2>3 DEF Based, InHand
    <3>3. Recorded => Position = After(Len(records) - 1)
                      /\ After(Len(records)) = IF LastOrder.side = "buy" THEN 1 ELSE 0
      <4>1. Recorded => Len(records) \in RecordIds /\ LastRecord.side = LastOrder.side
        BY <1>8, <2>1, <2>2, <3>2, HandHas DEF Directed
      <4>2. Recorded => After(Len(records)) = IF LastOrder.side = "buy" THEN 1 ELSE 0
        BY <1>1, <2>3, <4>1, Lengths DEF After, LastRecord
      <4> QED
        BY <2>1, <3>2, <4>2 DEF Based, Truth
    <3>4. ~Recorded => Position = After(Len(records))
      BY <2>1, <3>2 DEF Based, Truth
    <3> QED
      BY <1>1, <1>4, <2>3, <3>1, <3>3, <3>4 DEF Truth
  <2>9. Pending'
    <3>1. Directed'
      BY <1>2, <2>1, <2>2, <2>3 DEF Directed
    <3>2. Candidate' /\ Committing'
      BY <1>2, <2>1, <2>2, <2>3 DEF Candidate, Committing, Live
    <3>3. Committed'
      <4>1. v.st # "filled" => Position' = Position
        BY <1>4
      <4>2. LastOrder.st # "filled"
        BY <1>1, <2>3
      <4> QED
        BY <1>2, <2>2, <2>3, <4>1, <4>2 DEF Committed
    <3> QED
      BY <3>1, <3>2, <3>3 DEF Pending
  <2>10. Waiting'
    BY <1>2, <1>8, <2>3 DEF Orderly, Waiting
  <2> QED
    BY <2>4, <2>5, <2>6, <2>7, <2>8, <2>9, <2>10 DEF Orderly, Based
<1>9. Timed'
  <2>1. \A p, q \in OrderIds : p < q => orders'[p] = orders[p] /\ orders'[q].intent = orders[q].intent
    BY <1>3 DEF v
  <2>2. \A p \in Filled' : p = n => Position' = IF orders'[p].side = "buy" THEN 1 ELSE 0
    BY <1>1, <1>3, <1>4 DEF Filled, v
  <2>3. Unhurried'
    BY <1>2 DEF Timed, Unhurried
  <2> QED
    BY <1>3, <2>1, <2>2, <2>3 DEF Timed
<1> QED
  BY <1>6, <1>7, <1>8, <1>9

-----------------------------------------------------------------------------
(* No hedge fails, and the pause of the automation is for good *)

LEMMA CalmStays ==
    ASSUME Calm, UNCHANGED <<flats, failed, records>>
    PROVE  Calm'
BY DEF Calm, RecordIds

LEMMA CalmMoves ==
    ASSUME Typed, Calm, UNCHANGED <<flats, failed>>, NEW r, NEW hedge, hedge # "error",
           records' = [records EXCEPT ![r].hedge = hedge]
    PROVE  Calm'
<1>1. /\ RecordIds' = RecordIds
      /\ \A q \in RecordIds : records[q] \in Record
      /\ \A q \in RecordIds : \/ records'[q] = records[q]
                              \/ records'[q] = [records[q] EXCEPT !.hedge = hedge]
  BY RecordHas DEF RecordIds, Typed, RecordsTyped
<1>2. \A q \in RecordIds : records'[q].hedge \in {records[q].hedge, hedge}
  BY <1>1 DEF Record
<1> QED
  BY <1>1, <1>2 DEF Calm

LEMMA CalmAdds ==
    ASSUME Typed, Calm, UNCHANGED <<flats, failed>>, NEW w, w.hedge # "error",
           records' = Append(records, w)
    PROVE  Calm'
<1>1. \A q \in RecordIds' : records'[q] = w \/ (q \in RecordIds /\ records'[q] = records[q])
  BY DEF RecordIds, Typed, RecordsTyped
<1> QED
  BY <1>1 DEF Calm

LEMMA StartStaysCalm ==
    ASSUME Typed, Calm, UNCHANGED <<flats, failed>>, NEW r, NEW open, StartHedge(r, open)
    PROVE  Calm'
<1>1. CASE UNCHANGED records
  BY <1>1, CalmStays
<1>2. CASE records' = [records EXCEPT ![r].hedge = "hedging"]
  BY <1>2, CalmMoves
<1>3. CASE records' = [records EXCEPT ![r].hedge = "waitopen"]
  BY <1>3, CalmMoves
<1>4. CASE records' = [records EXCEPT ![r].hedge = "skipped"]
  BY <1>4, CalmMoves
<1> QED
  BY <1>1, <1>2, <1>3, <1>4 DEF StartHedge, Scheduled

LEMMA AmbiguousStaysCalm ==
    ASSUME Typed, Calm, UNCHANGED <<flats, failed>>, NEW id, MarkAmbiguous(id)
    PROVE  Calm'
<1>1. CASE UNCHANGED records
  BY <1>1, CalmStays
<1>2. CASE \E r : records' = [records EXCEPT ![r].hedge = "required"]
  BY <1>2, CalmMoves
<1>3. CASE \E r : records' = [records EXCEPT ![r].hedge = "hedging"]
  BY <1>3, CalmMoves
<1> QED
  BY <1>1, <1>2, <1>3 DEF MarkAmbiguous

LEMMA StrategyStaysCalm ==
    ASSUME Typed, Calm, Strategy
    PROVE  Calm'
<1>1. UNCHANGED <<flats, failed>>
  BY DEF Strategy, SubmitOpen, SubmitClose, Submit, StalledOpen, AutoQuoteFails, AutoPrepare,
         AutoCommit, AutoCommitRefused, AutoAcceptedMismatch, AutoAcceptedMerge,
         AutoAcceptedProvisional, AutoAcceptedOrphan, AutoFailed, AutoAmbiguous, AutoEnds,
         loops, handlers
<1>2. CASE \/ SubmitOpen \/ SubmitClose \/ StalledOpen \/ AutoQuoteFails \/ AutoPrepare
           \/ AutoCommit \/ AutoCommitRefused \/ AutoAcceptedOrphan \/ AutoFailed
  <2>1. UNCHANGED records
    BY <1>2 DEF SubmitOpen, SubmitClose, Submit, StalledOpen, AutoQuoteFails, AutoPrepare,
                AutoCommit, AutoCommitRefused, AutoAcceptedOrphan, AutoFailed
  <2> QED
    BY <1>1, <2>1, CalmStays
<1>3. CASE AutoAcceptedMismatch
  <2>1. PICK r : records' = [records EXCEPT ![r].hedge = "required"]
    BY <1>3 DEF AutoAcceptedMismatch
  <2> QED
    BY <1>1, <2>1, CalmMoves
<1>4. CASE AutoAcceptedMerge
  <2> DEFINE r == Max(Candidates(auto.id))
  <2>1. PICK hedge : /\ hedge \in {"hedging", "none", records[r].hedge}
                     /\ records' = [records EXCEPT ![r].quote = auto.id, ![r].hedge = hedge]
    BY <1>4 DEF AutoAcceptedMerge, Released
  <2> HIDE DEF r
  <2>2. /\ RecordIds' = RecordIds
        /\ \A q \in RecordIds : records[q] \in Record
        /\ \A q \in RecordIds : q # r => records'[q] = records[q]
        /\ r \in RecordIds => records'[r] = [records[r] EXCEPT !.quote = auto.id, !.hedge = hedge]
    BY <2>1, RecordHas DEF RecordIds, Typed, RecordsTyped
  <2>3. r \in RecordIds => records'[r].hedge = hedge
    BY <2>2 DEF Record
  <2> QED
    BY <1>1, <2>1, <2>2, <2>3 DEF Calm
<1>5. CASE AutoAcceptedProvisional
  <2>1. PICK w : records' = Append(records, w) /\ w.hedge = "hedging"
    BY <1>5 DEF AutoAcceptedProvisional
  <2> QED
    BY <1>1, <2>1, CalmAdds
<1>6. CASE AutoAmbiguous
  BY <1>1, <1>6, AmbiguousStaysCalm DEF AutoAmbiguous
<1> QED
  BY <1>2, <1>3, <1>4, <1>5, <1>6 DEF Strategy

LEMMA ProcessStaysCalm ==
    ASSUME Typed, Calm, UNCHANGED <<flats, failed>>, NEW e \in Event, Process(e)
    PROVE  Calm'
<1> DEFINE r == RecordFor(e)
           old == IF r > Len(records) THEN FreshRecord(e) ELSE records[r]
           meta == IF Bound(e) # 0 THEN WithIntent(old, Bound(e), e) ELSE old
           w == Filling(e, r)[1]
<1>1. r \in 1..(Len(records) + 1) /\ Len(records) \in Nat /\ RecordIds = 1..Len(records)
  BY RecordForTyped, Lengths
<1>2. FreshRecord(e) \in Record /\ FreshRecord(e).hedge = "none"
  BY DEF FreshRecord, Record, Phases, Event
<1>3. old \in Record /\ old.hedge # "error"
  <2>1. ~(r > Len(records)) => r \in RecordIds
    BY <1>1
  <2>2. ~(r > Len(records)) => records[r] \in Record /\ records[r].hedge # "error"
    BY <2>1, RecordHas DEF Calm
  <2> QED
    BY <1>2, <2>2
<1> HIDE DEF old
<1>4. meta.hedge # "error" /\ {"src", "at", "side", "qty", "trade", "reduce", "hedge"}
                                       \subseteq DOMAIN meta
  BY <1>3 DEF WithIntent, Record
<1>5. w = meta \/ w = [meta EXCEPT !.src = IF e.recovered THEN "portfolio" ELSE "event",
                      !.at = IF e.recovered THEN e.at ELSE 0, !.side = e.side, !.qty = e.qty,
                      !.trade = IF e.trade = 0 THEN @ ELSE e.trade,
                      !.reduce = @ \/ MatchedOpen(e) # 0]
  BY DEF Filling, old
<1> HIDE DEF meta, w
<1>6. w.hedge # "error"
  BY <1>4, <1>5
<1>7. records' = Append(records, w) \/ records' = [records EXCEPT ![r] = w]
  BY DEF Process, w
<1>8. CASE records' = Append(records, w)
  BY <1>6, <1>8, CalmAdds
<1>9. CASE records' = [records EXCEPT ![r] = w]
  <2>1. RecordIds' = RecordIds /\ \A q \in RecordIds : records'[q] \in {w, records[q]}
    BY <1>9 DEF RecordIds, Typed, RecordsTyped
  <2> QED
    BY <1>6, <2>1 DEF Calm
<1> QED
  BY <1>7, <1>8, <1>9

LEMMA NextStaysCalm ==
    ASSUME Typed, Calm, ~HedgesFail, [Next]_vars
    PROVE  Calm'
<1>1. CASE UNCHANGED vars
  BY <1>1, CalmStays DEF vars, state, loops, handlers
<1>2. CASE Strategy
  BY <1>2, StrategyStaysCalm
<1>3. CASE Emergency
  BY <1>3 DEF Emergency, Calm
<1>4. CASE Feed
  <2>1. ~FeedFlattens
    BY CalmNeedsNothing DEF FeedFlattens, Typed, ActorsTyped, FeedTyped
  <2>2. CASE FeedPauses
    BY <2>2, CalmStays DEF FeedPauses, loops
  <2>3. CASE FeedFollows
    BY <2>3, StartStaysCalm DEF FeedFollows, loops
  <2>4. ASSUME NEW o \in OrderIds, FeedProcess(o)
        PROVE  Calm'
    <3>1. FillOf(o) \in Event /\ Process(FillOf(o)) /\ UNCHANGED <<flats, failed>>
      BY <2>4, FillTyped DEF FeedProcess, loops
    <3> QED
      BY <3>1, ProcessStaysCalm
  <2>5. ASSUME NEW o \in OrderIds, FeedUnsupported(o)
        PROVE  Calm'
    <3>1. PICK w : records' = Append(records, w) /\ w.hedge = "required"
      BY <2>5 DEF FeedUnsupported, RecordUnsupported
    <3> QED
      BY <2>5, <3>1, CalmAdds DEF FeedUnsupported, loops
  <2> QED
    BY <1>4, <2>1, <2>2, <2>3, <2>4, <2>5 DEF Feed
<1>5. CASE Watchdog
  <2>1. ~DogFlattens
    BY CalmNeedsNothing DEF DogFlattens, Typed, ActorsTyped, DogTyped
  <2>2. CASE DogRecovers
    BY <2>2, ShownTyped, ProcessStaysCalm DEF DogRecovers, loops
  <2>3. CASE DogFollows
    <3>1. UNCHANGED records \/ StartHedge(dog.rec, dog.open)
      BY <2>3 DEF DogFollows
    <3> QED
      BY <2>3, <3>1, CalmStays, StartStaysCalm DEF DogFollows, loops
  <2>4. CASE DogTimeout \/ DogRefreshesPage \/ DogExpires
    BY <2>4, CalmStays DEF DogTimeout, DogRefreshesPage, DogExpires, loops, handlers
  <2>5. CASE DogDecides
    <3>1. UNCHANGED records \/ Rollback(dog.id)
      BY <2>5 DEF DogDecides, StaysAmbiguous
    <3>2. UNCHANGED <<flats, failed>>
      BY <2>5 DEF DogDecides, loops
    <3>3. CASE Rollback(dog.id)
      <4> DEFINE r == intents[dog.id].prov
      <4>1. records' = [records EXCEPT ![r].src = "unconfirmed"]
        BY <3>3 DEF Rollback
      <4> HIDE DEF r
      <4>2. /\ RecordIds' = RecordIds
            /\ \A q \in RecordIds : records[q] \in Record
            /\ \A q \in RecordIds : \/ records'[q] = records[q]
                                    \/ records'[q] = [records[q] EXCEPT !.src = "unconfirmed"]
        BY <4>1, RecordHas DEF RecordIds, Typed, RecordsTyped
      <4>3. \A q \in RecordIds : records'[q].hedge = records[q].hedge
        BY <4>2 DEF Record
      <4> QED
        BY <3>2, <4>2, <4>3 DEF Calm
    <3> QED
      BY <3>1, <3>2, <3>3, CalmStays
  <2> QED
    BY <1>5, <2>1, <2>2, <2>3, <2>4, <2>5 DEF Watchdog
<1>6. CASE Hedges
  <2>1. \A r \in RecordIds : ~HedgeFails(r) /\ ~FailureFlattens(r)
    BY DEF HedgeFails, FailureFlattens, Calm
  <2>2. CASE Resume
    BY <2>2, CalmStays DEF Resume, loops, handlers
  <2>3. ASSUME NEW r \in RecordIds, CheckResolves(r)
        PROVE  Calm'
    BY <2>3, CalmMoves DEF CheckResolves, Scheduled, loops, handlers
  <2>4. ASSUME NEW r \in RecordIds, HedgeCompletes(r)
        PROVE  Calm'
    <3>1. PICK done : done = [records EXCEPT ![r].hedge = "done"]
      OBVIOUS
    <3>2. UNCHANGED <<flats, failed>> /\ records' = LateClose(done, r)
      BY <2>4, <3>1 DEF HedgeCompletes, loops, handlers
    <3>3. records' = done \/ \E c : records' = [done EXCEPT ![c].hedge = "hedging"]
      BY <3>2 DEF LateClose, Scheduled
    <3>4. \A q \in RecordIds : records[q] \in Record
      BY RecordHas
    <3>5. /\ DOMAIN done = RecordIds
          /\ \A q \in RecordIds : done[q] = records[q]
                                  \/ done[q] = [records[q] EXCEPT !.hedge = "done"]
      BY <3>1 DEF RecordIds, Typed, RecordsTyped
    <3>6. \A q \in RecordIds : done[q].hedge # "error" /\ "hedge" \in DOMAIN done[q]
      BY <3>4, <3>5 DEF Calm, Record
    <3>7. CASE records' = done
      BY <3>2, <3>5, <3>6, <3>7 DEF Calm, RecordIds
    <3>8. CASE \E c : records' = [done EXCEPT ![c].hedge = "hedging"]
      <4>1. PICK c : records' = [done EXCEPT ![c].hedge = "hedging"]
        BY <3>8
      <4>2. /\ RecordIds' = RecordIds
            /\ \A q \in RecordIds : \/ records'[q] = done[q]
                                    \/ records'[q] = [done[q] EXCEPT !.hedge = "hedging"]
        BY <3>5, <4>1 DEF RecordIds
      <4>3. \A q \in RecordIds : records'[q].hedge # "error"
        BY <3>6, <4>2
      <4> QED
        BY <3>2, <4>2, <4>3 DEF Calm
    <3> QED
      BY <3>3, <3>7, <3>8
  <2> QED
    BY <1>6, <2>1, <2>2, <2>3, <2>4 DEF Hedges
<1>7. CASE Venue
  BY <1>7, CalmStays DEF Venue, Snapshot, ManualTrade, Executes, Refuses, loops, handlers
<1> QED
  BY <1>1, <1>2, <1>3, <1>4, <1>5, <1>6, <1>7 DEF Next

LEMMA PauseIsLatched ==
    ASSUME Typed, Calm, [Next]_vars, paused = "automation"
    PROVE  paused' = "automation"
<1>1. CASE UNCHANGED vars
  BY <1>1 DEF vars, state
<1>2. CASE Strategy
  BY <1>2 DEF Strategy, SubmitOpen, SubmitClose, CanSubmit, Submit, StalledOpen, AutoQuoteFails,
              AutoPrepare, AutoCommit, AutoCommitRefused, AutoAcceptedMismatch,
              AutoAcceptedMerge, AutoAcceptedProvisional, AutoAcceptedOrphan, AutoFailed,
              AutoAmbiguous, AutoEnds, handlers
<1>3. CASE Emergency
  BY <1>3 DEF Emergency, Calm
<1>4. CASE Feed
  <2>1. \A o \in OrderIds : FeedProcess(o) => paused' = "automation"
    BY DEF FeedProcess, Process, PauseForReconciliation
  <2> QED
    BY <1>4, <2>1 DEF Feed, FeedPauses, FeedFollows, FeedFlattens, FeedUnsupported,
                      StartHedge, FlattenStarts, FlattenReturns, PauseForReconciliation
<1>5. CASE Watchdog
  <2>1. DogRecovers => paused' = "automation"
    BY DEF DogRecovers, Process, PauseForReconciliation
  <2> QED
    BY <1>5, <2>1 DEF Watchdog, DogFollows, DogFlattens, DogTimeout, DogRefreshesPage,
                      DogDecides, DogExpires, StartHedge, FlattenStarts, FlattenReturns,
                      Rollback, StaysAmbiguous, PauseForReconciliation
<1>6. CASE Hedges
  BY <1>6 DEF Hedges, Resume, HedgeCompletes, CheckResolves, HedgeFails, FailureFlattens,
              FlattenStarts, FlattenReturns, PauseForReconciliation
<1>7. CASE Venue
  BY <1>7 DEF Venue, Snapshot, ManualTrade, Executes, Refuses
<1> QED
  BY <1>1, <1>2, <1>3, <1>4, <1>5, <1>6, <1>7 DEF Next

-----------------------------------------------------------------------------
(* One Commit beside the operator *)

LEMMA SingleStays ==
    ASSUME Typed, Typed', Single, UNCHANGED orders, snap'.pos = snap.pos,
           Len(intents') = Len(intents), orders = <<>> => records' = <<>>,
           auto'.pc \in {"quote", "prepared"} =>
              /\ auto.pc \in {"quote", "prepared"}
              /\ orders = <<>> => /\ intents'[auto'.id].side = intents[auto.id].side
                                  /\ intents'[auto'.id].qty = intents[auto.id].qty
    PROVE  Single'
<1>1. /\ OrderIds' = OrderIds /\ IntentIds' = IntentIds /\ NoManual' = NoManual
      /\ \A o \in OrderIds : Automatic(o)' = Automatic(o)
  BY Lengths, LengthsNext DEF OrderIds, NoManual, Automatic
<1>2. NoManual /\ auto.pc \in {"quote", "prepared"} => orders = <<>>
  BY Lengths DEF Single, NoManual
<1> QED
  BY <1>1, <1>2 DEF Single

\* Before the first order there is nothing to be told of.
LEMMA NothingOrdered ==
    ASSUME Typed, Single, orders = <<>>
    PROVE  /\ OrderIds = {} /\ RecordIds = {} /\ CurrentOpen = 0
           /\ auto.pc # "commit" /\ ~DogRecovers
<1>1. /\ OrderIds = {} /\ Len(records) = 0 /\ RecordIds = {} /\ snap.pos = 0
  BY Lengths DEF Single
<1>2. auto.pc # "commit"
  BY <1>1, AutoHas
<1>3. CurrentOpen = 0 /\ \A id : TrackedOpen(id) = 0
  BY <1>1, OpenTyped
<1>4. ~ShowsFilled(pending)
  BY <1>1, <1>3 DEF ShowsFilled
<1> QED
  BY <1>1, <1>2, <1>3, <1>4 DEF DogRecovers

LEMMA SubmitKeepsSingle ==
    ASSUME Typed, Typed', Single, SubmitOpen \/ SubmitClose, mix = "operator"
    PROVE  Single'
<1>1. Len(intents) = 0 /\ intents = <<>>
  BY Lengths DEF SubmitOpen, SubmitClose, CanSubmit, IntentBound, Typed, IntentsTyped
<1>2. PICK phase, side, qty, open, soon :
         /\ Submit(phase, side, qty, open)
         /\ intents' = Append(intents, NewIntent(phase, side, qty, open, soon))
  BY DEF SubmitOpen, SubmitClose, Submit
<1>3. /\ Len(intents') = 1 /\ intents'[1] = NewIntent(phase, side, qty, open, soon)
      /\ auto'.id = 1 /\ UNCHANGED <<records, orders, OrderIds>> /\ snap'.pos = snap.pos
  BY <1>1, <1>2 DEF Submit, OrderIds, Typed, AccountTyped, IntentsTyped
<1>4. IntentIds' = 1..1 /\ IntentIds = {}
  BY <1>1, <1>3, Lengths, LengthsNext
<1>5. \A o \in OrderIds : orders[o].intent = 0 /\ orders'[o].intent = 0
  BY <1>3, <1>4 DEF Single, Automatic
<1>6. ASSUME NoManual' PROVE intents'[1].side = "buy" /\ intents'[1].qty = 1
  <2>1. orders = <<>>
    <3>1. \A o \in OrderIds : orders'[o].intent # 0
      BY <1>3, <1>6 DEF NoManual, Automatic
    <3>2. OrderIds = {}
      BY <1>5, <3>1
    <3>3. OrderIds = 1..Len(orders) /\ Len(orders) \in Nat /\ (orders # <<>> <=> Len(orders) # 0)
      BY Lengths
    <3> QED
      BY ONLY <3>2, <3>3
  <2>2. SubmitOpen
    BY <2>1, NothingOrdered DEF SubmitClose
  <2>3. Submit("open", "buy", 1, 0)
    BY <2>2 DEF SubmitOpen
  <2>4. PICK now : intents' = Append(intents, NewIntent("open", "buy", 1, 0, now))
    BY <2>3 DEF Submit
  <2> QED
    BY <1>1, <2>4 DEF NewIntent, Typed, IntentsTyped
<1>7. NoManual' => \A o \in OrderIds' : orders'[o].side = "buy" /\ orders'[o].qty = 1
  BY <1>3, <1>5 DEF NoManual, Automatic
<1>8. \A o \in OrderIds' : orders'[o].st = "filled" /\ ~Automatic(o)'
  BY <1>3, <1>5 DEF Single, Automatic
<1> QED
  BY <1>3, <1>6, <1>7, <1>8 DEF Single

LEMMA OrderKeepsSingle ==
    ASSUME Typed, Typed', Single, AutoCommit
    PROVE  Single'
<1> DEFINE n == Len(orders)
<1>1. PICK x : /\ orders' = Append(orders, x) /\ x.intent = auto.id
               /\ x.side = intents[auto.id].side /\ x.qty = intents[auto.id].qty
  BY DEF AutoCommit, Dispatch
<1>2. /\ OrderIds = 1..n /\ OrderIds' = 1..(n + 1) /\ n \in Nat /\ Len(orders') = n + 1
      /\ orders'[n + 1] = x /\ \A o \in OrderIds : orders'[o] = orders[o]
      /\ \A o \in OrderIds' : o \in OrderIds \/ o = n + 1
  <2>1. orders' \in Seq(Order) /\ orders \in Seq(Order)
    BY DEF Typed, OrdersTyped
  <2>2. Len(orders') = n + 1 /\ orders'[n + 1] = x
        /\ \A o \in OrderIds : orders'[o] = orders[o]
    BY <1>1, <2>1 DEF OrderIds
  <2> QED
    BY <2>2, Lengths, LengthsNext
<1>3. /\ auto.pc = "prepared" /\ auto'.pc = "commit" /\ auto.id \in IntentIds /\ auto.id # 0
      /\ Len(intents') = Len(intents) /\ IntentIds' = IntentIds
  BY AutoHas, Lengths DEF AutoCommit, Dispatch, IntentIds, Typed, IntentsTyped, ActorsTyped,
                          AutoTyped
<1>4. \A o \in OrderIds : orders[o].intent = 0 /\ orders[o].st = "filled"
  BY <1>3 DEF Single, Automatic
<1>5. orders'[n + 1].intent = auto.id /\ \A o \in OrderIds : orders'[o].intent = 0
  BY <1>1, <1>2, <1>3, <1>4
<1>6. orders' # <<>>
  BY <1>2, LengthsNext
<1>7. ASSUME NoManual'
      PROVE  \A o \in OrderIds' : orders'[o].side = "buy" /\ orders'[o].qty = 1
  <2>1. OrderIds \subseteq OrderIds'
    BY <1>2
  <2>2. OrderIds = {}
    BY <1>5, <1>7, <2>1 DEF NoManual, Automatic
  <2>3. NoManual
    BY <2>2 DEF NoManual
  <2>4. intents[auto.id].side = "buy" /\ intents[auto.id].qty = 1
    BY <1>3, <2>3 DEF Single
  <2> QED
    BY <1>1, <1>2, <2>2, <2>4
<1> QED
  BY <1>1, <1>2, <1>3, <1>4, <1>5, <1>6, <1>7 DEF Single, Automatic

LEMMA StrategyKeepsSingle ==
    ASSUME Typed, Typed', Single, mix = "operator", Strategy
    PROVE  Single'
<1>1. CASE SubmitOpen \/ SubmitClose
  BY <1>1, SubmitKeepsSingle
<1>2. CASE AutoCommit
  BY <1>2, OrderKeepsSingle
<1>3. CASE StalledOpen \/ AutoQuoteFails \/ AutoCommitRefused
  <2>1. UNCHANGED <<intents, records, orders, snap>> /\ (auto' = auto \/ auto'.pc = "idle")
    BY <1>3 DEF StalledOpen, AutoQuoteFails, AutoCommitRefused, loops
  <2> QED
    BY <2>1, SingleStays DEF Single
<1>4. CASE AutoPrepare
  <2>1. /\ UNCHANGED <<records, orders, snap>> /\ auto.pc = "quote" /\ auto'.id = auto.id
        /\ intents' = [intents EXCEPT ![auto.id].st = "PREPARED"]
    BY <1>4 DEF AutoPrepare, Prepare, Typed, ActorsTyped, AutoTyped
  <2>2. /\ auto.id \in IntentIds /\ intents \in Seq(Intent) /\ intents[auto.id] \in Intent
    BY <2>1, AutoHas, IntentHas DEF Typed, IntentsTyped
  <2>3. /\ Len(intents') = Len(intents)
        /\ intents'[auto.id] = [intents[auto.id] EXCEPT !.st = "PREPARED"]
    BY <2>1, <2>2 DEF IntentIds
  <2>4. /\ intents'[auto.id].side = intents[auto.id].side
        /\ intents'[auto.id].qty = intents[auto.id].qty
    BY <2>2, <2>3 DEF Intent
  <2> QED
    BY <2>1, <2>3, <2>4, SingleStays DEF Single
<1>5. CASE \/ AutoAcceptedMismatch \/ AutoAcceptedMerge \/ AutoAcceptedProvisional
           \/ AutoAcceptedOrphan \/ AutoFailed \/ AutoAmbiguous
  <2>1. auto.pc = "commit" /\ auto'.pc = "idle" /\ UNCHANGED orders /\ snap'.pos = snap.pos
    BY <1>5 DEF AutoAcceptedMismatch, AutoAcceptedMerge, AutoAcceptedProvisional,
                AutoAcceptedOrphan, AutoFailed, AutoAmbiguous, AutoEnds, Typed, AccountTyped
  <2>2. orders # <<>>
    BY <2>1, NothingOrdered
  <2>3. Len(intents') = Len(intents)
    <3>1. intents \in Seq(Intent)
      BY DEF Typed, IntentsTyped
    <3>2. CASE AutoAcceptedMismatch \/ AutoAcceptedProvisional
      BY <3>1, <3>2 DEF AutoAcceptedMismatch, AutoAcceptedProvisional
    <3>3. CASE AutoAcceptedMerge
      BY <3>1, <3>3 DEF AutoAcceptedMerge, RfqNoted
    <3>4. CASE AutoAcceptedOrphan \/ AutoFailed
      BY <3>1, <3>4 DEF AutoAcceptedOrphan, AutoFailed, RfqNoted
    <3>5. CASE AutoAmbiguous
      BY <3>1, <3>5 DEF AutoAmbiguous, MarkAmbiguous
    <3> QED
      BY ONLY <1>5, <3>2, <3>3, <3>4, <3>5
  <2> QED
    BY <2>1, <2>2, <2>3, SingleStays
<1> QED
  BY <1>1, <1>2, <1>3, <1>4, <1>5 DEF Strategy

LEMMA HandlersKeepSingle ==
    ASSUME Typed, Typed', Calm, Single, ~HedgesFail, Feed \/ Watchdog \/ Hedges
    PROVE  Single'
<1>1. UNCHANGED <<auto, orders, snap>>
  <2>1. ~FeedFlattens
    BY CalmNeedsNothing DEF FeedFlattens, Typed, ActorsTyped, FeedTyped
  <2>2. ~DogFlattens
    BY CalmNeedsNothing DEF DogFlattens, Typed, ActorsTyped, DogTyped
  <2>3. \A r \in RecordIds : ~HedgeFails(r) /\ ~FailureFlattens(r)
    BY DEF HedgeFails, FailureFlattens, Calm
  <2>4. CASE Feed
    BY <2>1, <2>4 DEF Feed, FeedPauses, FeedFollows, FeedProcess, FeedUnsupported, loops
  <2>5. CASE Watchdog
    BY <2>2, <2>5 DEF Watchdog, DogRecovers, DogFollows, DogTimeout, DogRefreshesPage,
                      DogDecides, DogExpires, loops
  <2>6. CASE Hedges
    BY <2>3, <2>6 DEF Hedges, Resume, HedgeCompletes, CheckResolves, loops
  <2> QED
    BY <2>4, <2>5, <2>6
<1>2. CASE UNCHANGED intents
  <2>1. ASSUME orders = <<>> PROVE records' = <<>>
    <3>1. OrderIds = {} /\ RecordIds = {} /\ ~DogRecovers /\ records = <<>> /\ Filled = {}
      BY <2>1, NothingOrdered, FilledIsOrder DEF Single
    <3>2. CASE Feed
      <4>1. feed.pc # "follow"
        BY <3>1 DEF Typed, ActorsTyped, FeedTyped
      <4> QED
        BY <3>1, <3>2, <4>1 DEF Feed, FeedPauses, FeedFollows, FeedFlattens
    <3>3. CASE Watchdog
      <4>1. dog.rec = 0
        BY <3>1 DEF Typed, ActorsTyped, DogTyped
      <4>2. ASSUME Rollback(dog.id) PROVE records' = <<>>
        <5>1. Len(records') = Len(records)
          BY <4>2 DEF Rollback, Typed, RecordsTyped
        <5> QED
          BY <3>1, <5>1, LengthsNext
      <4> QED
        BY <3>1, <3>3, <4>1, <4>2 DEF Watchdog, DogFollows, DogFlattens, DogTimeout,
           DogRefreshesPage, DogDecides, DogExpires, StaysAmbiguous
    <3>4. CASE Hedges
      BY <3>1, <3>4 DEF Hedges, Resume
    <3> QED
      BY <3>2, <3>3, <3>4
  <2> QED
    BY <1>1, <1>2, <2>1, SingleStays
<1>3. CASE \E o \in OrderIds : FeedProcess(o)
  <2>1. PICK o \in OrderIds : FeedProcess(o)
    BY <1>3
  <2>2. orders # <<>>
    BY <2>1, Lengths
  <2>3. Len(intents') = Len(intents)
    BY <2>1 DEF FeedProcess, Process, Typed, IntentsTyped
  <2> QED
    BY <1>1, <2>2, <2>3, SingleStays
<1>4. CASE DogRecovers
  <2>1. orders # <<>>
    BY <1>4, NothingOrdered
  <2>2. Len(intents') = Len(intents)
    BY <1>4 DEF DogRecovers, Process, Typed, IntentsTyped
  <2> QED
    BY <1>1, <2>1, <2>2, SingleStays
<1>5. CASE StaysAmbiguous(dog.id)
  <2> DEFINE id == dog.id
  <2>1. UNCHANGED records /\ intents \in Seq(Intent)
    BY <1>5 DEF StaysAmbiguous, Typed, IntentsTyped
  <2>2. \/ UNCHANGED intents
        \/ intents' = [intents EXCEPT ![id] = [@ EXCEPT !.st = "AMBIGUOUS", !.accepted = FALSE]]
    BY <1>5 DEF StaysAmbiguous
  <2> HIDE DEF id
  <2>3. /\ Len(intents') = Len(intents)
        /\ \A i \in IntentIds : \/ intents'[i] = intents[i]
              \/ intents'[i] = [intents[i] EXCEPT !.st = "AMBIGUOUS", !.accepted = FALSE]
    <3>1. CASE UNCHANGED intents
      BY <3>1
    <3>2. CASE intents' = [intents EXCEPT
                              ![id] = [@ EXCEPT !.st = "AMBIGUOUS", !.accepted = FALSE]]
      <4>1. Len(intents') = Len(intents)
        BY <2>1, <3>2
      <4>2. ASSUME NEW i \in IntentIds
            PROVE  \/ intents'[i] = intents[i]
                   \/ intents'[i] = [intents[i] EXCEPT !.st = "AMBIGUOUS", !.accepted = FALSE]
        BY <2>1, <3>2 DEF IntentIds
      <4> QED
        BY <4>1, <4>2
    <3> QED
      BY <2>2, <3>1, <3>2
  <2>4. \A i \in IntentIds : intents[i] \in Intent
    BY IntentHas
  <2>5. \A i \in IntentIds : intents'[i].side = intents[i].side /\ intents'[i].qty = intents[i].qty
    BY <2>3, <2>4 DEF Intent
  <2>6. auto.pc \in {"quote", "prepared"} => auto.id \in IntentIds
    BY AutoHas
  <2> QED
    BY <1>1, <2>1, <2>3, <2>5, <2>6, SingleStays DEF Single
<1> QED
  <2>1. CASE Feed
    <3>1. ~FeedFlattens
      BY CalmNeedsNothing DEF FeedFlattens, Typed, ActorsTyped, FeedTyped
    <3> QED
      BY <1>2, <1>3, <2>1, <3>1 DEF Feed, FeedPauses, FeedFollows, FeedUnsupported
  <2>2. CASE Watchdog
    <3>1. ~DogFlattens
      BY CalmNeedsNothing DEF DogFlattens, Typed, ActorsTyped, DogTyped
    <3> QED
      BY <1>2, <1>4, <1>5, <2>2, <3>1 DEF Watchdog, DogFollows, DogTimeout, DogRefreshesPage,
         DogDecides, DogExpires, Rollback
  <2>3. CASE Hedges
    <3>1. \A r \in RecordIds : ~HedgeFails(r) /\ ~FailureFlattens(r)
      BY DEF HedgeFails, FailureFlattens, Calm
    <3> QED
      BY <1>2, <2>3, <3>1 DEF Hedges, Resume, HedgeCompletes, CheckResolves
  <2> QED
    BY <2>1, <2>2, <2>3

LEMMA EmptyPosition ==
    ASSUME orders = <<>>
    PROVE  Position = 0
<1>1. Len(orders) = 0
  OBVIOUS
<1>2. PICK f : Positions(orders, f) /\ PositionAfter(orders) = f[Len(orders)]
  BY <1>1, PositionByPositions
<1> QED
  BY <1>1, <1>2 DEF Positions, Position

LEMMA VenueKeepsSingle ==
    ASSUME Typed, Typed', Single, Venue
    PROVE  Single'
<1>1. CASE Snapshot
  <2>1. /\ UNCHANGED <<intents, records, auto, orders, OrderIds, IntentIds>>
        /\ snap'.pos = Position
    BY <1>1 DEF Snapshot, loops, OrderIds, IntentIds
  <2>2. orders = <<>> => snap'.pos = 0
    BY <2>1, EmptyPosition
  <2> QED
    BY <2>1, <2>2 DEF Single, Automatic, NoManual
<1>2. ASSUME NEW side \in Sides, ManualTrade(side)
      PROVE  Single'
  <2> DEFINE n == Len(orders)
  <2>1. PICK x : orders' = Append(orders, x) /\ x.intent = 0 /\ x.st = "filled"
    BY <1>2 DEF ManualTrade
  <2>2. /\ OrderIds' = 1..(n + 1) /\ OrderIds = 1..n /\ n \in Nat
        /\ orders'[n + 1] = x /\ \A o \in OrderIds : orders'[o] = orders[o]
        /\ \A o \in OrderIds' : o \in OrderIds \/ o = n + 1
        /\ orders' # <<>>
    <3>1. orders' \in Seq(Order) /\ orders \in Seq(Order)
      BY DEF Typed, OrdersTyped
    <3>2. Len(orders') = n + 1 /\ orders'[n + 1] = x
          /\ \A o \in OrderIds : orders'[o] = orders[o]
      BY <2>1, <3>1 DEF OrderIds
    <3> QED
      BY <3>2, Lengths, LengthsNext
  <2>3. UNCHANGED <<intents, records, auto, snap, IntentIds>>
    BY <1>2 DEF ManualTrade, loops, IntentIds
  <2>4. n + 1 \in OrderIds' /\ orders'[n + 1].intent = 0
    BY <2>1, <2>2
  <2>5. ~NoManual'
    BY <2>4 DEF NoManual, Automatic
  <2> QED
    BY <2>1, <2>2, <2>3, <2>5 DEF Single, Automatic
<1>3. ASSUME NEW o \in OrderIds, Executes(o) \/ Refuses(o)
      PROVE  Single'
  <2>1. /\ OrderIds' = OrderIds /\ orders[o].st = "sent"
        /\ \A p \in OrderIds : /\ orders'[p].intent = orders[p].intent
                               /\ orders'[p].side = orders[p].side
                               /\ orders'[p].qty = orders[p].qty
                               /\ p # o => orders'[p] = orders[p]
    <3>1. /\ OrderIds' = OrderIds /\ orders[o] \in Order /\ orders[o].st = "sent"
          /\ \A p \in OrderIds : p # o => orders'[p] = orders[p]
          /\ \/ orders'[o] = [orders[o] EXCEPT !.st = "filled", !.at = Len(intents)]
             \/ orders'[o] = [orders[o] EXCEPT !.st = "refused"]
      BY <1>3, OrderHas DEF Executes, Refuses, OrderIds, Typed, OrdersTyped
    <3>2. /\ orders'[o].intent = orders[o].intent /\ orders'[o].side = orders[o].side
          /\ orders'[o].qty = orders[o].qty
      BY <3>1 DEF Order
    <3> QED
      BY <3>1, <3>2
  <2>2. UNCHANGED <<intents, records, auto, snap, IntentIds>>
    BY <1>3 DEF Executes, Refuses, loops, IntentIds
  <2>3. orders[o].intent # 0
    BY <2>1 DEF Single, Automatic
  <2>4. orders # <<>> /\ orders' # <<>>
    BY <2>1, Lengths, LengthsNext
  <2> QED
    BY <2>1, <2>2, <2>3, <2>4 DEF Single, Automatic, NoManual
<1> QED
  BY <1>1, <1>2, <1>3 DEF Venue

-----------------------------------------------------------------------------
(* The invariant holds *)

LEMMA InitSafe == Init => SInv
<1> SUFFICES ASSUME Init PROVE SInv
  OBVIOUS
<1>1. Typed /\ Position = 0
  BY InitTyped, EmptyPosition DEF Init
<1>2. Calm
  BY DEF Init, Calm, RecordIds
<1>3. /\ Len(intents) = 0 /\ Len(records) = 0 /\ IntentIds = {} /\ OrderIds = {}
      /\ RecordIds = {}
  BY DEF Init, IntentIds, OrderIds, RecordIds
<1>4. Serial /\ Owned /\ Timed /\ Single
  BY <1>1, <1>3 DEF Init, Serial, Owned, Timed, Unhurried, Filled, Single
<1>5. Orderly
  <2>1. ~Live /\ After(Len(records)) = 0
    BY <1>3 DEF Init, Live, After
  <2> QED
    BY <1>1, <1>3, <2>1 DEF Init, DogIdle, Orderly, Based, Alternate, Traced, DecidedOrders,
       DecidedRecords, InHand, Truth, Pending, Waiting
<1> QED
  BY <1>1, <1>2, <1>4, <1>5, BoundAssumption DEF Init, SInv, Alone

LEMMA NoEmergency ==
    ASSUME Calm, [Next]_vars
    PROVE  /\ mix' = mix
           /\ \/ UNCHANGED vars
              \/ Strategy \/ Feed \/ Watchdog \/ Hedges \/ Venue
BY DEF Calm, Next, Emergency, vars

LEMMA AloneIsKept ==
    ASSUME Typed, Typed', Calm, Alone, mix = "strategy", [Next]_vars,
           ~HedgesFail, Naming \subseteq {TRUE}
    PROVE  Alone'
<1>1. Grow /\ Serial /\ Owned /\ Timed /\ Unhurried /\ (paused # "automation" => Orderly)
  BY NextGrows DEF Alone, Timed
<1>2. paused = "automation" => paused' = "automation"
  BY PauseIsLatched
<1>3. CASE UNCHANGED vars
  <2>1. /\ Serial' /\ Owned'
    BY <1>1, <1>3, QuietKeeps DEF QuietStep, vars, state, loops
  <2>2. Orderly => Orderly'
    BY <1>3 DEF vars, state, loops, handlers, Orderly, Based, Alternate, Traced, DecidedOrders,
       DecidedRecords, InHand, Truth, Pending, Waiting, Directed, Candidate, Committing,
       Committed, Live, Recorded, LastOrder, LastRecord, After, Position, OrderIds, RecordIds
  <2>3. Timed'
    BY <1>1, <1>3, TimedStays DEF vars, state, SoonKept
  <2> QED
    BY <1>1, <1>2, <2>1, <2>2, <2>3 DEF Alone
<1>4. CASE Strategy
  <2>1. Serial' /\ Owned' /\ Timed'
    <3>1. CASE AutoCommit
      <4>1. Orderly
        BY <1>1, <3>1 DEF AutoCommit, MayCommit, Unpaused
      <4> QED
        BY <1>1, <3>1, <4>1, CommitKeepsSerial
    <3>2. CASE ~AutoCommit
      <4>1. QuietStep
        BY <1>4, <3>2, StrategyIsQuiet
      <4>2. CASE SubmitOpen \/ SubmitClose
        <5>1. Orderly
          BY <1>1, <4>2 DEF SubmitOpen, SubmitClose, CanSubmit
        <5> QED
          BY <1>1, <4>1, <4>2, <5>1, QuietKeeps, OpensKeepTimed
      <4>3. CASE ~(SubmitOpen \/ SubmitClose)
        <5>1. SoonKept
          BY <1>4, <4>3, StrategyKeepsSoon
        <5> QED
          BY <1>1, <4>1, <5>1, QuietKeeps, TimedStays DEF QuietStep
      <4> QED
        BY <4>2, <4>3
    <3> QED
      BY <3>1, <3>2
  <2> QED
    BY <1>1, <1>2, <1>4, <2>1, StrategyKeepsOrder DEF Alone
<1>5. CASE Feed \/ Watchdog \/ Hedges
  <2>1. Serial' /\ Owned' /\ Timed'
    <3>1. QuietStep /\ SoonKept
      BY <1>5, HandlersAreQuiet, HandlersKeepSoon
    <3> QED
      BY <1>1, <3>1, QuietKeeps, TimedStays DEF QuietStep
  <2> QED
    BY <1>1, <1>2, <1>5, <2>1, FeedKeepsOrder, WatchdogKeepsOrder, HedgesKeepOrder DEF Alone
<1>6. CASE Venue
  <2>1. Serial' /\ Owned' /\ Timed' /\ (Orderly => Orderly')
    <3>1. CASE Snapshot
      BY <1>1, <3>1, SnapshotKeeps
    <3>2. ASSUME NEW o \in OrderIds, Executes(o) \/ Refuses(o)
          PROVE  Serial' /\ Owned' /\ Timed' /\ (Orderly => Orderly')
      BY <1>1, <3>2, DecisionKeeps
    <3>3. \A side \in Sides : ~ManualTrade(side)
      BY DEF ManualTrade
    <3> QED
      BY <1>6, <3>1, <3>2, <3>3 DEF Venue
  <2> QED
    BY <1>1, <1>2, <2>1 DEF Alone
<1> QED
  BY <1>3, <1>4, <1>5, <1>6, NoEmergency

LEMMA SingleIsKept ==
    ASSUME Typed, Typed', Calm, Single, mix = "operator", [Next]_vars, ~HedgesFail
    PROVE  Single'
<1>1. CASE UNCHANGED vars
  BY <1>1 DEF vars, state, loops, Single, Automatic, NoManual, OrderIds, IntentIds
<1> QED
  BY <1>1, NoEmergency, StrategyKeepsSingle, HandlersKeepSingle, VenueKeepsSingle

LEMMA StepSafe ==
    ASSUME ~HedgesFail, Naming \subseteq {TRUE}
    PROVE  SInv /\ [Next]_vars => SInv'
<1> SUFFICES ASSUME SInv, [Next]_vars PROVE SInv'
  OBVIOUS
<1>1. Typed /\ Typed' /\ Calm /\ Calm' /\ mix' = mix
  BY TypedIsKept, NextStaysCalm, NoEmergency DEF SInv
<1>2. CASE mix = "strategy"
  BY <1>1, <1>2, AloneIsKept DEF SInv
<1>3. CASE mix # "strategy"
  BY <1>1, <1>3, SingleIsKept DEF SInv
<1> QED
  BY <1>2, <1>3

-----------------------------------------------------------------------------
(* The theorems *)

LEMMA OneOrderPosition ==
    ASSUME Typed, Single, NoManual
    PROVE  Position \in {0, 1}
<1>1. CASE orders = <<>>
  BY <1>1, EmptyPosition
<1>2. CASE orders # <<>>
  <2>1. 1 \in OrderIds /\ Len(orders) \in OrderIds
    BY <1>2, Lengths
  <2>2. Len(orders) = 1
    BY <2>1 DEF Single, NoManual
  <2>3. orders[1].side = "buy" /\ orders[1].qty = 1
    BY <2>1 DEF Single
  <2>4. PICK f : Positions(orders, f) /\ PositionAfter(orders) = f[Len(orders)]
    BY Lengths, PositionByPositions
  <2>5. f[1] = f[0] + Effect(orders[1]) /\ f[0] = 0
    BY <2>2, <2>4 DEF Positions
  <2>6. Effect(orders[1]) \in {0, 1}
    BY <2>3 DEF Effect, Sign
  <2> QED
    BY <2>2, <2>4, <2>5, <2>6 DEF Position
<1> QED
  BY <1>1, <1>2

LEMMA SafeNeverDoubles == SInv => NeverDoubles
BY OneOrderPosition DEF SInv, Alone, Serial, NeverDoubles

LEMMA SafeCommit ==
    ASSUME SInv, AutoCommit
    PROVE  \A o \in OrderIds : orders[o].st # "sent"
<1>1. paused # "automation" /\ auto.pc = "prepared"
  BY DEF AutoCommit, MayCommit, Unpaused
<1>2. CASE mix = "strategy"
  BY <1>1, <1>2, CommitIsSerial DEF SInv, Alone
<1>3. CASE mix # "strategy"
  BY <1>1, <1>3 DEF SInv, Single
<1> QED
  BY <1>2, <1>3

\* Where Lighter takes every hedge and a Commit's answer names its order, the strategy never
\* opens twice and never closes twice, for any number of Commits: however late Variational
\* executes, answers, reports or shows a fill, and whichever of the loop, the drain and the
\* watchdog is first.
THEOREM NeverOpensTwice ==
    ASSUME ~HedgesFail, Naming \subseteq {TRUE}
    PROVE  Spec => []NeverDoubles
<1>1. Spec => []SInv
  <2>1. SInv /\ [Next]_vars => SInv'
    BY StepSafe
  <2> QED
    BY InitSafe, <2>1, PTL DEF Spec
<1> QED
  BY <1>1, SafeNeverDoubles, PTL

\* There too a Commit leaves only when no earlier order may still be executed.
THEOREM SerialCommits ==
    ASSUME ~HedgesFail, Naming \subseteq {TRUE}
    PROVE  Spec => CommitsAreSerial
<1>1. SInv /\ [Next]_vars => SInv'
  BY StepSafe
<1>2. SInv /\ [Next]_vars => [AutoCommit => \A o \in OrderIds : orders[o].st # "sent"]_vars
  BY SafeCommit
<1> QED
  BY InitSafe, <1>1, <1>2, PTL DEF Spec, CommitsAreSerial

=============================================================================
